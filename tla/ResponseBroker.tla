--------------------------- MODULE ResponseBroker ---------------------------
(***************************************************************************)
(* The Control Plane's response broker: the table response_actions and the *)
(* operations of ResponseBrokerStore (src/ntshield/response_broker.py),    *)
(* called by the operators' CLI and MCP server and by the HTTP handlers of *)
(* response_api.py.                                                        *)
(*                                                                         *)
(* Every command and every HTTP request opens a store of its own, with its *)
(* own lock and its own SQLite connection, so the lock orders nothing      *)
(* between them.  A connection c of Conn is one such store.  sqlite3 opens *)
(* a transaction at the first UPDATE, not at a SELECT: approve and         *)
(* complete, which SELECT the row and then UPDATE it, are two steps, and   *)
(* their UPDATEs name the row by its ID only.  next_for_agent begins with  *)
(* an UPDATE and is one step from there to its commit; the time it works   *)
(* with was read before.  The lease is signed from a row read again after  *)
(* the commit.                                                             *)
(***************************************************************************)
EXTENDS Naturals

CONSTANTS ActionID,   \* IDs of response actions (uuid4 in the code)
          Operator,   \* requested_by / approved_by, after casefold
          Agent,      \* (tenant_id, agent_id) pairs
          Conn,       \* concurrent stores
          TTL,        \* lifetimes of an action, in ticks (30 to 900 s)
          LeaseTime,  \* response_lease_seconds, in ticks
          MaxClock,   \* bound: the clock stops here
          NoOne,      \* approved_by IS NULL
          NoRow       \* no row with this ID

VARIABLES
    actions,  \* the table response_actions
    reqs,     \* what each connection is doing
    clock,    \* datetime.now(UTC)
    expired   \* history: IDs whose row has had status 'expired'

brokerVars == <<actions, reqs, clock, expired>>

-----------------------------------------------------------------------------
Outcome == {"succeeded", "rejected", "failed"}
TERMINAL_STATUSES == Outcome \cup {"expired"}
Status == {"proposed", "approved", "dispatched"} \cup TERMINAL_STATUSES

ResponseAction ==
    [agent : Agent, requested_by : Operator, requested_at : 0 .. MaxClock,
     expires_at : 0 .. MaxClock, status : Status,
     approved_by : Operator \cup {NoOne}, result : Outcome \cup {"none"}]

ASSUME BrokerAssumption == /\ MaxClock \in Nat
                           /\ LeaseTime \in Nat \ {0}
                           /\ TTL \subseteq 1 .. MaxClock
                           /\ NoOne \notin Operator
                           /\ NoRow \notin ResponseAction

Exists(id) == actions[id] # NoRow

Minimum(a, b) == IF a <= b THEN a ELSE b

BrokerInit ==
    /\ actions = [id \in ActionID |-> NoRow]
    /\ reqs = [c \in Conn |-> [op |-> "idle"]]
    /\ clock = 0
    /\ expired = {}

Free(c) == reqs[c].op = "idle"

Close(c) == reqs' = [reqs EXCEPT ![c] = [op |-> "idle"]]

-----------------------------------------------------------------------------
\* create_action
Create(id, by, agent, ttl) ==
    /\ ~ Exists(id)
    /\ clock + ttl <= MaxClock  \* bound: every action can still expire
    /\ actions' = [actions EXCEPT ![id] =
          [agent |-> agent, requested_by |-> by, requested_at |-> clock,
           expires_at |-> clock + ttl, status |-> "proposed",
           approved_by |-> NoOne, result |-> "none"]]
    /\ UNCHANGED <<reqs, clock, expired>>

\* Mutant of ApproveRead: the requester may approve.
ApproveReadOwn(c, id, by) ==
    /\ Free(c)
    /\ Exists(id)
    /\ actions[id].status = "proposed"
    /\ reqs' = [reqs EXCEPT ![c] =
          [op |-> "approve", id |-> id, by |-> by,
           late |-> actions[id].expires_at <= clock]]
    /\ UNCHANGED <<actions, clock, expired>>

\* approve, up to the SELECT and its checks.
ApproveRead(c, id, by) ==
    /\ Free(c)
    /\ Exists(id)
    /\ actions[id].status = "proposed"
    /\ actions[id].requested_by # by
    /\ reqs' = [reqs EXCEPT ![c] =
          [op |-> "approve", id |-> id, by |-> by,
           late |-> actions[id].expires_at <= clock]]
    /\ UNCHANGED <<actions, clock, expired>>

\* ... and its UPDATE, which does not look at the status again.
ApproveWrite(c) ==
    /\ reqs[c].op = "approve"
    /\ LET id == reqs[c].id
       IN IF reqs[c].late
          THEN /\ actions' = [actions EXCEPT ![id].status = "expired"]
               /\ expired' = expired \cup {id}
          ELSE /\ actions' = [actions EXCEPT ![id].status = "approved",
                                             ![id].approved_by = reqs[c].by]
               /\ UNCHANGED expired
    /\ Close(c)
    /\ UNCHANGED clock

-----------------------------------------------------------------------------
\* GET /v1/agent/responses: next_for_agent reads the time ...
NextStart(c, agent) ==
    /\ Free(c)
    /\ reqs' = [reqs EXCEPT ![c] = [op |-> "next", agent |-> agent, now |-> clock]]
    /\ UNCHANGED <<actions, clock, expired>>

\* Mutant of Overdue: dispatched actions are forgotten.
OverdueUndispatched(agent, now) ==
    {id \in ActionID : /\ Exists(id)
                       /\ actions[id].agent = agent
                       /\ actions[id].status \in {"proposed", "approved"}
                       /\ actions[id].expires_at <= now}

Overdue(agent, now) ==
    {id \in ActionID : /\ Exists(id)
                       /\ actions[id].agent = agent
                       /\ actions[id].status \in {"proposed", "approved", "dispatched"}
                       /\ actions[id].expires_at <= now}

Deliverable(agent, now) ==
    {id \in ActionID : /\ Exists(id)
                       /\ actions[id].agent = agent
                       /\ actions[id].status \in {"approved", "dispatched"}
                       /\ actions[id].expires_at > now}

\* ORDER BY requested_at LIMIT 1: ties are broken arbitrarily.
Oldest(ids) ==
    {id \in ids : \A other \in ids :
                     actions[id].requested_at <= actions[other].requested_at}

\* ... and then, in one transaction, expires what is overdue and marks the
\* oldest deliverable action as dispatched.
NextDispatch(c) ==
    /\ reqs[c].op = "next"
    /\ LET over  == Overdue(reqs[c].agent, reqs[c].now)
           first == Oldest(Deliverable(reqs[c].agent, reqs[c].now))
       IN /\ expired' = expired \cup over
          /\ \/ /\ first = {}
                /\ actions' = [id \in ActionID |->
                      IF id \in over THEN [actions[id] EXCEPT !.status = "expired"]
                                     ELSE actions[id]]
                /\ Close(c)
             \/ \E pick \in first :
                /\ actions' = [id \in ActionID |->
                      IF id \in over THEN [actions[id] EXCEPT !.status = "expired"]
                      ELSE IF id = pick
                           THEN [actions[id] EXCEPT !.status = "dispatched"]
                           ELSE actions[id]]
                /\ reqs' = [reqs EXCEPT ![c] = [op |-> "sign", id |-> pick]]
    /\ UNCHANGED clock

\* Mutant of Signable: the expiry checked in next_for_agent is trusted.
SignableUnchecked(id) == /\ actions[id].status \in {"approved", "dispatched"}
                         /\ actions[id].approved_by # NoOne

\* get and create_signed_response_lease: the row is read again and its status
\* and expiry are checked again; otherwise the answer is HTTP 409.
Signable(id) == /\ actions[id].status \in {"approved", "dispatched"}
                /\ actions[id].approved_by # NoOne
                /\ actions[id].expires_at > clock

Lease(id) ==
    LET a == actions[id]
    IN  [id |-> id, agent |-> a.agent,
         requested_by |-> a.requested_by, approved_by |-> a.approved_by,
         action_expires_at |-> a.expires_at,
         lease_expires_at |-> Minimum(a.expires_at, clock + LeaseTime)]

SignLease(c) ==
    /\ reqs[c].op = "sign"
    /\ IF Signable(reqs[c].id)
       THEN reqs' = [reqs EXCEPT ![c] = [op |-> "answer", lease |-> Lease(reqs[c].id)]]
       ELSE Close(c)
    /\ UNCHANGED <<actions, clock, expired>>

-----------------------------------------------------------------------------
\* POST .../result: complete, up to the SELECT and its checks.  The handler is a
\* coroutine that never awaits between SELECT and UPDATE, so the event loop
\* runs one of them at a time.
CompleteRead(c, id, agent, outcome) ==
    /\ Free(c)
    /\ \A other \in Conn : reqs[other].op # "complete"
    /\ Exists(id)
    /\ actions[id].agent = agent
    /\ actions[id].status \in {"approved", "dispatched"}
    /\ reqs' = [reqs EXCEPT ![c] = [op |-> "complete", id |-> id, outcome |-> outcome]]
    /\ UNCHANGED <<actions, clock, expired>>

\* ... and its UPDATE.
CompleteWrite(c) ==
    /\ reqs[c].op = "complete"
    /\ actions' = [actions EXCEPT ![reqs[c].id].status = reqs[c].outcome,
                                  ![reqs[c].id].result = reqs[c].outcome]
    /\ Close(c)
    /\ UNCHANGED <<clock, expired>>

\* A command or the server dies, or an answer is lost: nothing more is written.
Abandon(c) ==
    /\ ~ Free(c)
    /\ Close(c)
    /\ UNCHANGED <<actions, clock, expired>>

BrokerTick ==
    /\ clock < MaxClock
    /\ clock' = clock + 1
    /\ UNCHANGED <<actions, reqs, expired>>

OperatorStep ==
    \E id \in ActionID, by \in Operator :
       \/ \E agent \in Agent, ttl \in TTL : Create(id, by, agent, ttl)
       \/ \E c \in Conn : ApproveRead(c, id, by)

ServerStep(c) == \/ ApproveWrite(c)
                 \/ NextDispatch(c)
                 \/ SignLease(c)
                 \/ CompleteWrite(c)

BrokerNext ==
    \/ OperatorStep
    \/ \E c \in Conn :
          \/ ServerStep(c)
          \/ Abandon(c)
          \/ \E agent \in Agent :
                \/ NextStart(c, agent)
                \/ \E id \in ActionID, o \in Outcome : CompleteRead(c, id, agent, o)
    \/ BrokerTick

BrokerSpec == BrokerInit /\ [][BrokerNext]_brokerVars

\* Time passes, each Agent keeps polling (its ticker), and the server does not
\* drop every poll before its transaction.
Poll(agent) == \E c \in Conn : NextStart(c, agent)

Dispatch(agent) ==
    \E c \in Conn : reqs[c].op = "next" /\ reqs[c].agent = agent /\ NextDispatch(c)

BrokerFairness ==
    /\ WF_brokerVars(BrokerTick)
    /\ \A agent \in Agent : SF_brokerVars(Poll(agent)) /\ SF_brokerVars(Dispatch(agent))
    /\ \A c \in Conn : WF_brokerVars(ServerStep(c) \/ (reqs[c].op = "answer" /\ Abandon(c)))

BrokerLiveSpec == BrokerSpec /\ BrokerFairness

-----------------------------------------------------------------------------
(***************************************************************************)
(* Properties.                                                             *)
(***************************************************************************)

(***************************************************************************)
(* Four eyes, through every interleaving of approvals, polls and expiry:   *)
(* an action that is or was deliverable, or has a result, carries the      *)
(* approval of an operator other than its requester                        *)
(* (response_broker.py:313, 139), and so does every lease on its way to    *)
(* an Agent.                                                               *)
(***************************************************************************)
TwoOperators ==
    /\ \A id \in ActionID :
          Exists(id) /\ (\/ actions[id].status \in {"approved", "dispatched"} \cup Outcome
                        \/ actions[id].result # "none") =>
              actions[id].approved_by \notin {NoOne, actions[id].requested_by}
    /\ \A c \in Conn : reqs[c].op = "answer" =>
          reqs[c].lease.approved_by \notin {NoOne, reqs[c].lease.requested_by}

(***************************************************************************)
(* Once the broker has recorded an action as expired, no lease for it is   *)
(* ever signed again, although a late approval can make the row 'approved' *)
(* again and a poll may still be working with an old time.                 *)
(***************************************************************************)
ExpiredIsNeverLeased ==
    [][\A c \in Conn :
          (SignLease(c) /\ reqs'[c].op = "answer") => reqs'[c].lease.id \notin expired]_brokerVars

(***************************************************************************)
(* Every action that is ever approved reaches a terminal status, even if   *)
(* its Agent never posts a result and an older action is delivered ahead   *)
(* of it on every poll, as long as the Agent keeps polling: only a poll    *)
(* (response_broker.py:336) or an approval writes 'expired'.               *)
(***************************************************************************)
ApprovedBecomesTerminal ==
    \A id \in ActionID :
       (Exists(id) /\ actions[id].status = "approved")
          ~> (Exists(id) /\ actions[id].status \in TERMINAL_STATUSES)

(***************************************************************************)
(* tests/test_response_broker.py:67, "response_result_is_terminal": once a *)
(* result is recorded, the action keeps that status and is not delivered   *)
(* again.                                                                  *)
(***************************************************************************)
ResultIsTerminal ==
    [][\A id \in ActionID :
          (Exists(id) /\ actions[id].status \in Outcome)
             => actions'[id].status = actions[id].status]_brokerVars

=============================================================================
