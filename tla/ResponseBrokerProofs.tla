------------------------ MODULE ResponseBrokerProofs ------------------------
(***************************************************************************)
(* Proofs about ResponseBroker, for every set of actions, operators,       *)
(* Agents and concurrent stores, every lifetime and every bound on time.   *)
(***************************************************************************)
EXTENDS ResponseBroker, TLAPS

SignedLease ==
    [id : ActionID, agent : Agent, requested_by : Operator,
     approved_by : Operator \cup {NoOne}, action_expires_at : 0 .. MaxClock,
     lease_expires_at : Nat]

Request ==
    [op : {"idle"}]
       \cup [op : {"approve"}, id : ActionID, by : Operator, late : BOOLEAN]
       \cup [op : {"next"}, agent : Agent, now : 0 .. MaxClock]
       \cup [op : {"sign"}, id : ActionID]
       \cup [op : {"answer"}, lease : SignedLease]
       \cup [op : {"complete"}, id : ActionID, outcome : Outcome]

BrokerTypeOK ==
    /\ actions \in [ActionID -> ResponseAction \cup {NoRow}]
    /\ reqs \in [Conn -> Request]
    /\ clock \in 0 .. MaxClock
    /\ expired \subseteq ActionID

\* The row of id carries the approval of somebody other than its requester.
SecondOperator(id) ==
    actions[id].approved_by \notin {NoOne, actions[id].requested_by}

\* What a store still relies on after it let go of the database: the row it
\* read exists, and what it checked in columns that are written only once
\* holds of the row whoever has updated it since.
RequestIsBacked(c) ==
    /\ reqs[c].op \in {"approve", "sign", "complete"} => Exists(reqs[c].id)
    /\ reqs[c].op = "approve" => reqs[c].by # actions[reqs[c].id].requested_by
    /\ reqs[c].op = "complete" => SecondOperator(reqs[c].id)

\* An expiry is only ever decided with a time that has been reached.
ExpiryIsPast ==
    /\ \A id \in expired : Exists(id) /\ actions[id].expires_at <= clock
    /\ \A c \in Conn :
          /\ (reqs[c].op = "approve" /\ reqs[c].late)
                => actions[reqs[c].id].expires_at <= clock
          /\ reqs[c].op = "next" => reqs[c].now <= clock

BrokerInv ==
    /\ BrokerTypeOK
    /\ TwoOperators
    /\ \A c \in Conn : RequestIsBacked(c)
    /\ ExpiryIsPast

-----------------------------------------------------------------------------
\* The kinds of request differ in op, and each carries its own fields.
LEMMA RequestShape ==
    ASSUME NEW q \in Request
    PROVE  /\ q.op \in {"idle", "approve", "next", "sign", "answer", "complete"}
           /\ q.op = "approve" => q.id \in ActionID /\ q.by \in Operator /\ q.late \in BOOLEAN
           /\ q.op = "next" => q.agent \in Agent /\ q.now \in 0 .. MaxClock
           /\ q.op = "sign" => q.id \in ActionID
           /\ q.op = "answer" => q.lease \in SignedLease
           /\ q.op = "complete" => q.id \in ActionID /\ q.outcome \in Outcome
BY DEF Request

\* A row that exists is a row of the table.
LEMMA RowShape ==
    ASSUME BrokerTypeOK, NEW id \in ActionID, Exists(id)
    PROVE  /\ actions[id] \in ResponseAction
           /\ actions[id].agent \in Agent
           /\ actions[id].requested_by \in Operator
           /\ actions[id].approved_by \in Operator \cup {NoOne}
           /\ actions[id].expires_at \in 0 .. MaxClock
           /\ actions[id].status \in Status
BY DEF BrokerTypeOK, Exists, ResponseAction

\* Updating the columns that the broker updates leaves a row of the table.
LEMMA UpdatedRow ==
    ASSUME NEW a \in ResponseAction, NEW s \in Status, NEW by \in Operator, NEW o \in Outcome
    PROVE  /\ [a EXCEPT !.status = s] \in ResponseAction
           /\ [a EXCEPT !.status = s, !.approved_by = by] \in ResponseAction
           /\ [a EXCEPT !.status = s, !.result = o] \in ResponseAction
BY DEF ResponseAction

-----------------------------------------------------------------------------
\* What approve's UPDATE does to the table: it touches one row, in status and
\* approved_by only.
LEMMA ApproveWriteEffect ==
    ASSUME BrokerTypeOK, NEW c \in Conn, RequestIsBacked(c), ApproveWrite(c)
    PROVE  /\ actions' \in [ActionID -> ResponseAction \cup {NoRow}]
           /\ reqs[c].id \in ActionID
           /\ Exists(reqs[c].id)
           /\ actions'[reqs[c].id] =
                 IF reqs[c].late
                 THEN [actions[reqs[c].id] EXCEPT !.status = "expired"]
                 ELSE [actions[reqs[c].id] EXCEPT !.status = "approved",
                                                  !.approved_by = reqs[c].by]
           /\ \A id \in ActionID : id # reqs[c].id => actions'[id] = actions[id]
           /\ expired' = IF reqs[c].late THEN expired \cup {reqs[c].id} ELSE expired
<1>1. reqs[c] \in Request /\ reqs[c].op = "approve"
  BY DEF BrokerTypeOK, ApproveWrite
<1>2. reqs[c].id \in ActionID /\ reqs[c].by \in Operator /\ reqs[c].late \in BOOLEAN
  BY <1>1, RequestShape
<1>3. Exists(reqs[c].id)
  BY <1>1 DEF RequestIsBacked
<1>4. actions[reqs[c].id] \in ResponseAction
  BY <1>2, <1>3, RowShape
<1>5. CASE reqs[c].late
  <2>1. actions' = [actions EXCEPT ![reqs[c].id].status = "expired"]
    BY <1>5 DEF ApproveWrite
  <2>2. [actions[reqs[c].id] EXCEPT !.status = "expired"] \in ResponseAction
    BY <1>4, <1>2, UpdatedRow DEF Status, TERMINAL_STATUSES, ResponseAction
  <2> QED
    BY <1>2, <1>3, <1>5, <2>1, <2>2 DEF BrokerTypeOK, ApproveWrite
<1>6. CASE ~ reqs[c].late
  <2>1. actions' = [actions EXCEPT ![reqs[c].id].status = "approved",
                                   ![reqs[c].id].approved_by = reqs[c].by]
    BY <1>6 DEF ApproveWrite
  <2>2. [actions[reqs[c].id] EXCEPT !.status = "approved", !.approved_by = reqs[c].by]
           \in ResponseAction
    BY <1>4, <1>2 DEF Status, ResponseAction
  <2>3. actions'[reqs[c].id] =
           [actions[reqs[c].id] EXCEPT !.status = "approved", !.approved_by = reqs[c].by]
    BY <1>2, <1>4, <2>1 DEF BrokerTypeOK, ResponseAction
  <2> QED
    BY <1>2, <1>3, <1>6, <2>1, <2>2, <2>3 DEF BrokerTypeOK, ApproveWrite
<1> QED
  BY <1>2, <1>5, <1>6

\* What complete's UPDATE does.
LEMMA CompleteWriteEffect ==
    ASSUME BrokerTypeOK, NEW c \in Conn, RequestIsBacked(c), CompleteWrite(c)
    PROVE  /\ actions' \in [ActionID -> ResponseAction \cup {NoRow}]
           /\ reqs[c].id \in ActionID
           /\ Exists(reqs[c].id)
           /\ actions'[reqs[c].id] = [actions[reqs[c].id] EXCEPT !.status = reqs[c].outcome,
                                                                 !.result = reqs[c].outcome]
           /\ \A id \in ActionID : id # reqs[c].id => actions'[id] = actions[id]
<1>1. reqs[c] \in Request /\ reqs[c].op = "complete"
  BY DEF BrokerTypeOK, CompleteWrite
<1>2. reqs[c].id \in ActionID /\ reqs[c].outcome \in Outcome
  BY <1>1, RequestShape
<1>3. Exists(reqs[c].id)
  BY <1>1 DEF RequestIsBacked
<1>4. actions[reqs[c].id] \in ResponseAction
  BY <1>2, <1>3, RowShape
<1>5. actions' = [actions EXCEPT ![reqs[c].id].status = reqs[c].outcome,
                                 ![reqs[c].id].result = reqs[c].outcome]
  BY DEF CompleteWrite
<1>6. [actions[reqs[c].id] EXCEPT !.status = reqs[c].outcome, !.result = reqs[c].outcome]
         \in ResponseAction
  BY <1>2, <1>4 DEF Status, TERMINAL_STATUSES, ResponseAction
<1>7. actions'[reqs[c].id] =
         [actions[reqs[c].id] EXCEPT !.status = reqs[c].outcome, !.result = reqs[c].outcome]
  BY <1>2, <1>4, <1>5 DEF BrokerTypeOK, ResponseAction
<1> QED
  BY <1>2, <1>3, <1>5, <1>6, <1>7 DEF BrokerTypeOK

\* What the transaction of a poll does: rows change in status only, to
\* 'expired' if overdue by the time the poll works with, and the row it picks
\* to 'dispatched'.
LEMMA NextDispatchEffect ==
    ASSUME BrokerTypeOK, NEW c \in Conn, NextDispatch(c)
    PROVE  /\ actions' \in [ActionID -> ResponseAction \cup {NoRow}]
           /\ \A id \in ActionID :
                 \/ actions'[id] = actions[id]
                 \/ /\ Exists(id)
                    /\ actions[id].expires_at <= reqs[c].now
                    /\ actions'[id] = [actions[id] EXCEPT !.status = "expired"]
                 \/ /\ Exists(id)
                    /\ actions[id].status \in {"approved", "dispatched"}
                    /\ actions'[id] = [actions[id] EXCEPT !.status = "dispatched"]
           /\ expired \subseteq expired'
           /\ \A id \in expired' \ expired :
                 id \in ActionID /\ Exists(id) /\ actions[id].expires_at <= reqs[c].now
           /\ \/ reqs' = [reqs EXCEPT ![c] = [op |-> "idle"]]
              \/ \E id \in ActionID :
                    Exists(id) /\ reqs' = [reqs EXCEPT ![c] = [op |-> "sign", id |-> id]]
<1> DEFINE over  == Overdue(reqs[c].agent, reqs[c].now)
           first == Oldest(Deliverable(reqs[c].agent, reqs[c].now))
           Exp(id) == [actions[id] EXCEPT !.status = "expired"]
           Dis(id) == [actions[id] EXCEPT !.status = "dispatched"]
<1>1. \A id \in over : id \in ActionID /\ Exists(id) /\ actions[id].expires_at <= reqs[c].now
  BY DEF Overdue
<1>2. \A id \in first : /\ id \in ActionID /\ Exists(id)
                        /\ actions[id].status \in {"approved", "dispatched"}
  BY DEF Oldest, Deliverable
<1>3. expired' = expired \cup over
  BY DEF NextDispatch
<1>4. \A id \in ActionID : Exists(id) => /\ Exp(id) \in ResponseAction
                                         /\ Dis(id) \in ResponseAction
  BY RowShape DEF ResponseAction, Status, TERMINAL_STATUSES
<1>5. \/ /\ actions' = [id \in ActionID |->
               IF id \in over THEN Exp(id) ELSE actions[id]]
         /\ reqs' = [reqs EXCEPT ![c] = [op |-> "idle"]]
      \/ \E pick \in first :
         /\ actions' = [id \in ActionID |->
               IF id \in over THEN Exp(id)
               ELSE IF id = pick THEN Dis(id)
                                 ELSE actions[id]]
         /\ reqs' = [reqs EXCEPT ![c] = [op |-> "sign", id |-> pick]]
  BY DEF NextDispatch, Close
<1> HIDE DEF over, first, Exp, Dis
<1>6. actions' \in [ActionID -> ResponseAction \cup {NoRow}]
  BY <1>1, <1>2, <1>4, <1>5 DEF BrokerTypeOK
<1>7. \A id \in ActionID :
         \/ actions'[id] = actions[id]
         \/ /\ Exists(id)
            /\ actions[id].expires_at <= reqs[c].now
            /\ actions'[id] = Exp(id)
         \/ /\ Exists(id)
            /\ actions[id].status \in {"approved", "dispatched"}
            /\ actions'[id] = Dis(id)
  BY <1>1, <1>2, <1>5
<1> QED
  BY <1>1, <1>2, <1>3, <1>5, <1>6, <1>7 DEF Exp, Dis

-----------------------------------------------------------------------------
\* What every step keeps of the table: a row is never deleted, its requester and
\* its expiry are written once, and an approval by a second operator is only
\* ever replaced by another.
RowsKept ==
    \A id \in ActionID : Exists(id) =>
       /\ Exists(id)'
       /\ actions'[id].requested_by = actions[id].requested_by
       /\ actions'[id].expires_at = actions[id].expires_at
       /\ SecondOperator(id) => SecondOperator(id)'

\* A request that a step does not touch stays backed, and an expiry stays past.
LEMMA OthersStayBacked ==
    ASSUME BrokerInv, RowsKept, clock' \in Nat, clock <= clock',
           NEW c \in Conn, reqs'[c] = reqs[c]
    PROVE  /\ RequestIsBacked(c)'
           /\ (reqs'[c].op = "approve" /\ reqs'[c].late)
                 => actions'[reqs'[c].id].expires_at <= clock'
           /\ reqs'[c].op = "next" => reqs'[c].now <= clock'
           /\ reqs'[c].op = "answer" =>
                 reqs'[c].lease.approved_by \notin {NoOne, reqs'[c].lease.requested_by}
<1>1. reqs[c] \in Request /\ RequestIsBacked(c) /\ clock \in Nat
  BY BrokerAssumption DEF BrokerInv, BrokerTypeOK
<1>2. reqs[c].op \in {"approve", "sign", "complete"} => reqs[c].id \in ActionID
  BY <1>1, RequestShape
<1>3. reqs[c].op = "next" => reqs[c].now \in Nat
  BY <1>1, RequestShape, BrokerAssumption
<1>4. RequestIsBacked(c)'
  BY <1>1, <1>2 DEF RequestIsBacked, RowsKept
<1>5. (reqs'[c].op = "approve" /\ reqs'[c].late)
         => actions'[reqs'[c].id].expires_at <= clock'
  <2> SUFFICES ASSUME reqs[c].op = "approve", reqs[c].late
               PROVE  actions'[reqs[c].id].expires_at <= clock'
    OBVIOUS
  <2>1. reqs[c].id \in ActionID /\ Exists(reqs[c].id)
    BY <1>1, <1>2 DEF RequestIsBacked
  <2>2. actions[reqs[c].id].expires_at <= clock
    BY DEF BrokerInv, ExpiryIsPast
  <2>3. actions[reqs[c].id].expires_at \in Nat
    BY <2>1, RowShape, BrokerAssumption DEF BrokerInv
  <2> QED
    BY <1>1, <2>1, <2>2, <2>3 DEF RowsKept
<1>6. reqs'[c].op = "next" => reqs'[c].now <= clock'
  BY <1>1, <1>3 DEF BrokerInv, ExpiryIsPast
<1> QED
  BY <1>4, <1>5, <1>6 DEF BrokerInv, TwoOperators

\* The history of expired actions stays past as well.
LEMMA ExpiredStaysPast ==
    ASSUME BrokerInv, RowsKept, clock' \in Nat, clock <= clock', NEW id \in expired
    PROVE  Exists(id)' /\ actions'[id].expires_at <= clock'
<1>1. id \in ActionID /\ Exists(id) /\ actions[id].expires_at <= clock
  BY DEF BrokerInv, BrokerTypeOK, ExpiryIsPast
<1>2. actions[id].expires_at \in Nat /\ clock \in Nat
  BY <1>1, RowShape, BrokerAssumption DEF BrokerInv, BrokerTypeOK
<1> QED
  BY <1>1, <1>2 DEF RowsKept

\* Steps that leave the table and the time alone and change one request keep the
\* invariant if the new request is well-formed, backed and timely.
LEMMA RequestStep ==
    ASSUME BrokerInv, NEW c \in Conn, NEW q \in Request,
           reqs' = [reqs EXCEPT ![c] = q], UNCHANGED <<actions, clock, expired>>,
           q.op \in {"approve", "sign", "complete"} => Exists(q.id),
           q.op = "approve" => q.by # actions[q.id].requested_by,
           q.op = "complete" => SecondOperator(q.id),
           (q.op = "approve" /\ q.late) => actions[q.id].expires_at <= clock,
           q.op = "next" => q.now <= clock,
           q.op = "answer" => q.lease.approved_by \notin {NoOne, q.lease.requested_by}
    PROVE  BrokerInv'
<1>1. BrokerTypeOK'
  BY DEF BrokerInv, BrokerTypeOK
<1>2. reqs'[c] = q /\ \A d \in Conn : d # c => reqs'[d] = reqs[d]
  BY DEF BrokerInv, BrokerTypeOK
<1>3. RowsKept /\ clock' \in Nat /\ clock <= clock'
  BY BrokerAssumption DEF RowsKept, Exists, SecondOperator, BrokerInv, BrokerTypeOK
<1>4. TwoOperators'
  <2>1. \A id \in ActionID :
           Exists(id)' /\ (\/ actions'[id].status \in {"approved", "dispatched"} \cup Outcome
                          \/ actions'[id].result # "none") =>
               actions'[id].approved_by \notin {NoOne, actions'[id].requested_by}
    BY DEF BrokerInv, TwoOperators, Exists
  <2>2. ASSUME NEW d \in Conn, reqs'[d].op = "answer"
        PROVE  reqs'[d].lease.approved_by \notin {NoOne, reqs'[d].lease.requested_by}
    BY <1>2, <2>2 DEF BrokerInv, TwoOperators
  <2> QED
    BY <2>1, <2>2 DEF TwoOperators
<1>5. ASSUME NEW d \in Conn
      PROVE  RequestIsBacked(d)'
  BY <1>2, <1>3, OthersStayBacked DEF RequestIsBacked, Exists, SecondOperator
<1>6. ExpiryIsPast'
  <2>1. \A id \in expired' : Exists(id)' /\ actions'[id].expires_at <= clock'
    BY <1>3, ExpiredStaysPast
  <2>2. ASSUME NEW d \in Conn
        PROVE  /\ (reqs'[d].op = "approve" /\ reqs'[d].late)
                     => actions'[reqs'[d].id].expires_at <= clock'
               /\ reqs'[d].op = "next" => reqs'[d].now <= clock'
    BY <1>2, <1>3, OthersStayBacked
  <2> QED
    BY <2>1, <2>2 DEF ExpiryIsPast
<1> QED
  BY <1>1, <1>4, <1>5, <1>6 DEF BrokerInv

\* Steps that write rows and close the request that wrote them, or go on to sign.
LEMMA TableStep ==
    ASSUME BrokerInv, NEW c \in Conn, NEW q \in Request,
           reqs' = [reqs EXCEPT ![c] = q], UNCHANGED clock,
           q.op = "idle" \/ (q.op = "sign" /\ Exists(q.id)),
           actions' \in [ActionID -> ResponseAction \cup {NoRow}],
           RowsKept,
           \A id \in ActionID :
              Exists(id)' /\ (\/ actions'[id].status \in {"approved", "dispatched"} \cup Outcome
                             \/ actions'[id].result # "none") => SecondOperator(id)',
           expired' \subseteq ActionID,
           \A id \in expired' \ expired : Exists(id) /\ actions[id].expires_at <= clock
    PROVE  BrokerInv'
<1>1. BrokerTypeOK'
  BY DEF BrokerInv, BrokerTypeOK
<1>2. reqs'[c] = q /\ \A d \in Conn : d # c => reqs'[d] = reqs[d]
  BY DEF BrokerInv, BrokerTypeOK
<1>3. clock' \in Nat /\ clock <= clock'
  BY BrokerAssumption DEF BrokerInv, BrokerTypeOK
<1>4. TwoOperators'
  <2>1. ASSUME NEW d \in Conn, reqs'[d].op = "answer"
        PROVE  reqs'[d].lease.approved_by \notin {NoOne, reqs'[d].lease.requested_by}
    BY <1>2, <2>1 DEF BrokerInv, TwoOperators
  <2> QED
    BY <2>1 DEF TwoOperators, SecondOperator
<1>5. ASSUME NEW d \in Conn
      PROVE  RequestIsBacked(d)'
  <2>1. CASE d = c
    <3>1. q.op = "sign" => q.id \in ActionID
      BY RequestShape
    <3> QED
      BY <1>2, <2>1, <3>1 DEF RequestIsBacked, RowsKept
  <2>2. CASE d # c
    BY <1>2, <1>3, <2>2, OthersStayBacked
  <2> QED
    BY <2>1, <2>2
<1>6. ExpiryIsPast'
  <2>1. ASSUME NEW id \in expired'
        PROVE  Exists(id)' /\ actions'[id].expires_at <= clock'
    <3>1. CASE id \in expired
      BY <1>3, <3>1, ExpiredStaysPast
    <3>2. CASE id \notin expired
      BY <3>2 DEF RowsKept
    <3> QED
      BY <3>1, <3>2
  <2>2. ASSUME NEW d \in Conn
        PROVE  /\ (reqs'[d].op = "approve" /\ reqs'[d].late)
                     => actions'[reqs'[d].id].expires_at <= clock'
               /\ reqs'[d].op = "next" => reqs'[d].now <= clock'
    BY <1>2, <1>3, OthersStayBacked
  <2> QED
    BY <2>1, <2>2 DEF ExpiryIsPast
<1> QED
  BY <1>1, <1>4, <1>5, <1>6 DEF BrokerInv

-----------------------------------------------------------------------------
\* The invariant through each operation.
LEMMA CreateKeeps ==
    ASSUME BrokerInv, NEW id \in ActionID, NEW by \in Operator, NEW agent \in Agent,
           NEW ttl \in TTL, Create(id, by, agent, ttl)
    PROVE  BrokerInv'
<1> DEFINE row == [agent |-> agent, requested_by |-> by, requested_at |-> clock,
                   expires_at |-> clock + ttl, status |-> "proposed",
                   approved_by |-> NoOne, result |-> "none"]
<1>1. row \in ResponseAction
  BY BrokerAssumption DEF BrokerInv, BrokerTypeOK, ResponseAction, Status, Create
<1>2. ~ Exists(id) /\ actions' = [actions EXCEPT ![id] = row] /\ UNCHANGED <<reqs, clock, expired>>
  BY DEF Create
<1>3. row.status = "proposed" /\ row.result = "none"
  OBVIOUS
<1> HIDE DEF row
<1>4. actions' \in [ActionID -> ResponseAction \cup {NoRow}]
  BY <1>1, <1>2 DEF BrokerInv, BrokerTypeOK
<1>5. actions'[id] = row /\ \A i \in ActionID : i # id => actions'[i] = actions[i]
  BY <1>2 DEF BrokerInv, BrokerTypeOK
<1>6. RowsKept
  BY <1>2, <1>5 DEF RowsKept, Exists, SecondOperator
<1>7. clock' \in Nat /\ clock <= clock'
  BY <1>2, BrokerAssumption DEF BrokerInv, BrokerTypeOK
<1>8. BrokerTypeOK'
  BY <1>2, <1>4 DEF BrokerInv, BrokerTypeOK
<1>9. TwoOperators'
  BY <1>2, <1>3, <1>5 DEF BrokerInv, TwoOperators, Exists, Outcome
<1>10. \A c \in Conn : RequestIsBacked(c)'
  BY <1>2, <1>6, <1>7, OthersStayBacked
<1>11. ExpiryIsPast'
  BY <1>2, <1>6, <1>7, OthersStayBacked, ExpiredStaysPast DEF ExpiryIsPast
<1> QED
  BY <1>8, <1>9, <1>10, <1>11 DEF BrokerInv

\* An approval that goes on is by another operator than the requester, and is
\* late only if the expiry has been reached.
LEMMA ApproveReadKeeps ==
    ASSUME BrokerInv, NEW c \in Conn, NEW id \in ActionID, NEW by \in Operator,
           ApproveRead(c, id, by)
    PROVE  BrokerInv'
<1> DEFINE q == [op |-> "approve", id |-> id, by |-> by,
                 late |-> actions[id].expires_at <= clock]
<1>1. Exists(id) /\ actions[id].expires_at \in Nat /\ clock \in Nat
  BY RowShape, BrokerAssumption DEF BrokerInv, BrokerTypeOK, ApproveRead
<1>2. q \in Request
  BY <1>1 DEF Request
<1>3. q.op = "approve" /\ q.id = id /\ q.by = by /\ (q.late <=> actions[id].expires_at <= clock)
  OBVIOUS
<1>4. reqs' = [reqs EXCEPT ![c] = q] /\ UNCHANGED <<actions, clock, expired>>
  BY DEF ApproveRead
<1>5. by # actions[id].requested_by
  BY DEF ApproveRead
<1> HIDE DEF q
<1> QED
  BY <1>1, <1>2, <1>3, <1>4, <1>5, RequestStep

\* The UPDATE puts in an operator who is not the requester, or marks an expiry
\* that has been reached.
LEMMA ApproveWriteKeeps ==
    ASSUME BrokerInv, NEW c \in Conn, ApproveWrite(c)
    PROVE  BrokerInv'
<1> DEFINE q == [op |-> "idle"]
<1>1. q \in Request /\ q.op = "idle"
  BY DEF Request
<1>2. reqs' = [reqs EXCEPT ![c] = q] /\ UNCHANGED clock
  BY DEF ApproveWrite, Close
<1>3. BrokerTypeOK /\ RequestIsBacked(c)
  BY DEF BrokerInv
<1> PICK id \in ActionID : id = reqs[c].id
  BY <1>3, ApproveWriteEffect
<1>4. /\ actions' \in [ActionID -> ResponseAction \cup {NoRow}]
      /\ id \in ActionID
      /\ Exists(id)
      /\ actions'[id] = IF reqs[c].late
                        THEN [actions[id] EXCEPT !.status = "expired"]
                        ELSE [actions[id] EXCEPT !.status = "approved",
                                                 !.approved_by = reqs[c].by]
      /\ \A i \in ActionID : i # id => actions'[i] = actions[i]
      /\ expired' = IF reqs[c].late THEN expired \cup {id} ELSE expired
  BY <1>3, ApproveWriteEffect
<1>5. reqs[c].op = "approve" /\ reqs[c] \in Request
  BY <1>3 DEF ApproveWrite, BrokerTypeOK
<1>6. reqs[c].by \in Operator /\ reqs[c].by # actions[id].requested_by /\ reqs[c].by # NoOne
  BY <1>3, <1>5, RequestShape, BrokerAssumption DEF RequestIsBacked
<1>7. actions[id] \in ResponseAction
  BY <1>3, <1>4, RowShape
<1>8. reqs[c].late => actions[id].expires_at <= clock
  BY <1>5 DEF BrokerInv, ExpiryIsPast
<1> HIDE DEF q
<1>9. /\ actions'[id] # NoRow
      /\ actions'[id].requested_by = actions[id].requested_by
      /\ actions'[id].expires_at = actions[id].expires_at
      /\ actions'[id].result = actions[id].result
      /\ \/ reqs[c].late /\ actions'[id].status = "expired"
                         /\ actions'[id].approved_by = actions[id].approved_by
         \/ ~ reqs[c].late /\ actions'[id].approved_by = reqs[c].by
  <2>1. actions'[id] \in ResponseAction
    <3>1. /\ [actions[id] EXCEPT !.status = "expired"] \in ResponseAction
          /\ [actions[id] EXCEPT !.status = "approved", !.approved_by = reqs[c].by]
                \in ResponseAction
      BY <1>6, <1>7 DEF ResponseAction, Status, TERMINAL_STATUSES
    <3> QED
      BY <1>4, <3>1
  <2>2. actions'[id] # NoRow
    BY <2>1, BrokerAssumption
  <2>3. CASE reqs[c].late
    BY <1>4, <1>7, <2>2, <2>3 DEF ResponseAction
  <2>4. CASE ~ reqs[c].late
    BY <1>4, <1>7, <2>2, <2>4 DEF ResponseAction
  <2> QED
    BY <2>3, <2>4
<1>10. RowsKept
  BY <1>4, <1>6, <1>9 DEF RowsKept, Exists, SecondOperator
<1>11. ASSUME NEW i \in ActionID, Exists(i)',
              \/ actions'[i].status \in {"approved", "dispatched"} \cup Outcome
              \/ actions'[i].result # "none"
       PROVE  SecondOperator(i)'
  <2>1. CASE i = id
    BY <1>4, <1>6, <1>9, <1>11, <2>1 DEF BrokerInv, TwoOperators, SecondOperator, Exists, Outcome
  <2>2. CASE i # id
    BY <1>4, <1>11, <2>2 DEF BrokerInv, TwoOperators, SecondOperator, Exists
  <2> QED
    BY <2>1, <2>2
<1>12. /\ expired' \subseteq ActionID
       /\ \A i \in expired' \ expired : Exists(i) /\ actions[i].expires_at <= clock
  BY <1>3, <1>4, <1>8 DEF BrokerTypeOK
<1> QED
  BY <1>1, <1>2, <1>4, <1>10, <1>11, <1>12, TableStep

\* A result is written only to a row with its second operator.
LEMMA CompleteWriteKeeps ==
    ASSUME BrokerInv, NEW c \in Conn, CompleteWrite(c)
    PROVE  BrokerInv'
<1> DEFINE q == [op |-> "idle"]
<1>1. q \in Request /\ q.op = "idle"
  BY DEF Request
<1>2. reqs' = [reqs EXCEPT ![c] = q] /\ UNCHANGED <<clock, expired>>
  BY DEF CompleteWrite, Close
<1>3. BrokerTypeOK /\ RequestIsBacked(c)
  BY DEF BrokerInv
<1> PICK id \in ActionID : id = reqs[c].id
  BY <1>3, CompleteWriteEffect
<1>4. /\ actions' \in [ActionID -> ResponseAction \cup {NoRow}]
      /\ id \in ActionID
      /\ Exists(id)
      /\ actions'[id] = [actions[id] EXCEPT !.status = reqs[c].outcome,
                                            !.result = reqs[c].outcome]
      /\ \A i \in ActionID : i # id => actions'[i] = actions[i]
  BY <1>3, CompleteWriteEffect
<1>5. SecondOperator(id)
  BY <1>3 DEF RequestIsBacked, CompleteWrite
<1>6. actions[id] \in ResponseAction
  BY <1>3, <1>4, RowShape
<1> HIDE DEF q
<1>7. /\ actions'[id].requested_by = actions[id].requested_by
      /\ actions'[id].expires_at = actions[id].expires_at
      /\ actions'[id].approved_by = actions[id].approved_by
  BY <1>4, <1>6 DEF ResponseAction
<1>8. Exists(id)'
  <2>1. reqs[c].outcome \in Outcome
    BY <1>3, RequestShape DEF BrokerTypeOK, CompleteWrite
  <2>2. actions'[id] \in ResponseAction
    BY <1>4, <1>6, <2>1 DEF ResponseAction, Status, TERMINAL_STATUSES
  <2> QED
    BY <2>2, BrokerAssumption DEF Exists
<1>9. RowsKept
  BY <1>4, <1>7, <1>8 DEF RowsKept, Exists, SecondOperator
<1>10. ASSUME NEW i \in ActionID, Exists(i)',
              \/ actions'[i].status \in {"approved", "dispatched"} \cup Outcome
              \/ actions'[i].result # "none"
       PROVE  SecondOperator(i)'
  BY <1>4, <1>5, <1>7, <1>10 DEF BrokerInv, TwoOperators, SecondOperator, Exists
<1>11. expired' \subseteq ActionID /\ expired' \ expired = {}
  BY <1>2, <1>3 DEF BrokerTypeOK
<1> QED
  BY <1>1, <1>2, <1>4, <1>9, <1>10, <1>11, TableStep

\* What is dispatched was approved, and what expires was overdue at a time that
\* has been reached.
LEMMA NextDispatchKeeps ==
    ASSUME BrokerInv, NEW c \in Conn, NextDispatch(c)
    PROVE  BrokerInv'
<1>1. BrokerTypeOK
  BY DEF BrokerInv
<1>2. /\ actions' \in [ActionID -> ResponseAction \cup {NoRow}]
      /\ expired \subseteq expired'
      /\ \A id \in expired' \ expired :
            id \in ActionID /\ Exists(id) /\ actions[id].expires_at <= reqs[c].now
  BY <1>1, NextDispatchEffect
<1>3. PICK q \in Request : /\ reqs' = [reqs EXCEPT ![c] = q]
                           /\ q.op = "idle" \/ (q.op = "sign" /\ Exists(q.id))
  <2>1. CASE reqs' = [reqs EXCEPT ![c] = [op |-> "idle"]]
    <3>1. [op |-> "idle"] \in Request
      BY DEF Request
    <3> QED
      BY <2>1, <3>1
  <2>2. CASE \E id \in ActionID :
                Exists(id) /\ reqs' = [reqs EXCEPT ![c] = [op |-> "sign", id |-> id]]
    <3>1. PICK id \in ActionID :
                Exists(id) /\ reqs' = [reqs EXCEPT ![c] = [op |-> "sign", id |-> id]]
      BY <2>2
    <3>2. [op |-> "sign", id |-> id] \in Request
      BY DEF Request
    <3> QED
      BY <3>1, <3>2
  <2> QED
    BY <1>1, <2>1, <2>2, NextDispatchEffect
<1>4. ASSUME NEW id \in ActionID, Exists(id)
      PROVE  /\ Exists(id)'
             /\ actions'[id].requested_by = actions[id].requested_by
             /\ actions'[id].expires_at = actions[id].expires_at
             /\ actions'[id].approved_by = actions[id].approved_by
             /\ actions'[id].result = actions[id].result
             /\ \/ actions'[id].status = actions[id].status
                \/ actions'[id].status = "expired"
                \/ actions[id].status \in {"approved", "dispatched"}
  <2>1. actions[id] \in ResponseAction
    BY <1>1, <1>4, RowShape
  <2>2. \/ actions'[id] = actions[id]
        \/ actions'[id] = [actions[id] EXCEPT !.status = "expired"]
        \/ /\ actions[id].status \in {"approved", "dispatched"}
           /\ actions'[id] = [actions[id] EXCEPT !.status = "dispatched"]
    BY <1>1, NextDispatchEffect
  <2>3. actions'[id] \in ResponseAction
    BY <2>1, <2>2 DEF ResponseAction, Status, TERMINAL_STATUSES
  <2> QED
    BY <2>1, <2>2, <2>3, BrokerAssumption DEF ResponseAction, Exists
<1>5. ASSUME NEW id \in ActionID, ~ Exists(id)
      PROVE  ~ Exists(id)'
  BY <1>1, <1>5, NextDispatchEffect DEF Exists
<1>6. RowsKept
  BY <1>4 DEF RowsKept, SecondOperator
<1>7. ASSUME NEW id \in ActionID, Exists(id)',
             \/ actions'[id].status \in {"approved", "dispatched"} \cup Outcome
             \/ actions'[id].result # "none"
      PROVE  SecondOperator(id)'
  BY <1>4, <1>5, <1>7 DEF BrokerInv, TwoOperators, SecondOperator, Outcome
<1>8. reqs[c].now \in Nat /\ reqs[c].now <= clock /\ clock \in Nat
  BY <1>1, RequestShape, BrokerAssumption DEF BrokerInv, ExpiryIsPast, BrokerTypeOK, NextDispatch
<1>9. ASSUME NEW id \in expired' \ expired
      PROVE  Exists(id) /\ actions[id].expires_at <= clock
  <2>1. id \in ActionID /\ Exists(id) /\ actions[id].expires_at <= reqs[c].now
    BY <1>2
  <2>2. actions[id].expires_at \in Nat
    BY <1>1, <2>1, RowShape, BrokerAssumption
  <2> QED
    BY <1>8, <2>1, <2>2
<1>10. expired' \subseteq ActionID /\ UNCHANGED clock
  BY <1>1, <1>2 DEF BrokerTypeOK, NextDispatch
<1> QED
  BY <1>2, <1>3, <1>6, <1>7, <1>9, <1>10, TableStep

\* Signing changes no row.
LEMMA SignLeaseKeeps ==
    ASSUME BrokerInv, NEW c \in Conn, SignLease(c)
    PROVE  BrokerInv'
<1>1. reqs[c].op = "sign" /\ reqs[c] \in Request /\ RequestIsBacked(c) /\ BrokerTypeOK
  BY DEF SignLease, BrokerInv, BrokerTypeOK
<1>2. PICK id \in ActionID : id = reqs[c].id /\ Exists(id)
  BY <1>1, RequestShape DEF RequestIsBacked
<1>3. UNCHANGED <<actions, clock, expired>>
  BY DEF SignLease
<1>4. CASE Signable(id)
  <2> DEFINE q == [op |-> "answer", lease |-> Lease(id)]
  <2>1. reqs' = [reqs EXCEPT ![c] = q]
    BY <1>2, <1>4 DEF SignLease
  <2>2. SecondOperator(id)
    BY <1>2, <1>4 DEF Signable, BrokerInv, TwoOperators, SecondOperator
  <2>3. Lease(id) \in SignedLease
    <3>1. clock + LeaseTime \in Nat /\ actions[id].expires_at \in Nat
      BY <1>1, <1>2, RowShape, BrokerAssumption DEF BrokerTypeOK
    <3>2. Minimum(actions[id].expires_at, clock + LeaseTime) \in Nat
      BY <3>1 DEF Minimum
    <3> QED
      BY <1>1, <1>2, <3>2, RowShape DEF Lease, SignedLease
  <2>4. /\ Lease(id).approved_by = actions[id].approved_by
        /\ Lease(id).requested_by = actions[id].requested_by
    BY DEF Lease
  <2>5. q \in Request /\ q.op = "answer" /\ q.lease = Lease(id)
    BY <2>3 DEF Request
  <2> HIDE DEF q
  <2> QED
    BY <1>3, <2>1, <2>2, <2>4, <2>5, RequestStep DEF SecondOperator
<1>5. CASE ~ Signable(id)
  <2>1. reqs' = [reqs EXCEPT ![c] = [op |-> "idle"]]
    BY <1>2, <1>5 DEF SignLease, Close
  <2>2. [op |-> "idle"] \in Request
    BY DEF Request
  <2> QED
    BY <1>3, <2>1, <2>2, RequestStep
<1> QED
  BY <1>4, <1>5

\* A result is accepted for an approved or a dispatched row, which has its
\* second operator.
LEMMA CompleteReadKeeps ==
    ASSUME BrokerInv, NEW c \in Conn, NEW id \in ActionID, NEW agent \in Agent,
           NEW o \in Outcome, CompleteRead(c, id, agent, o)
    PROVE  BrokerInv'
<1> DEFINE q == [op |-> "complete", id |-> id, outcome |-> o]
<1>1. q \in Request /\ q.op = "complete" /\ q.id = id
  BY DEF Request
<1>2. /\ Exists(id)
      /\ actions[id].status \in {"approved", "dispatched"}
      /\ reqs' = [reqs EXCEPT ![c] = q]
      /\ UNCHANGED <<actions, clock, expired>>
  BY DEF CompleteRead
<1>3. SecondOperator(id)
  BY <1>2 DEF BrokerInv, TwoOperators, SecondOperator
<1> HIDE DEF q
<1> QED
  BY <1>1, <1>2, <1>3, RequestStep

\* A request for the next action keeps the time it has read, which has been
\* reached.
LEMMA NextStartKeeps ==
    ASSUME BrokerInv, NEW c \in Conn, NEW agent \in Agent, NextStart(c, agent)
    PROVE  BrokerInv'
<1> DEFINE q == [op |-> "next", agent |-> agent, now |-> clock]
<1>1. clock \in 0 .. MaxClock /\ clock <= clock
  BY BrokerAssumption DEF BrokerInv, BrokerTypeOK
<1>2. q \in Request /\ q.op = "next" /\ q.now = clock
  BY <1>1 DEF Request
<1>3. reqs' = [reqs EXCEPT ![c] = q] /\ UNCHANGED <<actions, clock, expired>>
  BY DEF NextStart
<1> HIDE DEF q
<1> QED
  BY <1>1, <1>2, <1>3, RequestStep

\* A request given up changes no row.
LEMMA AbandonKeeps ==
    ASSUME BrokerInv, NEW c \in Conn, Abandon(c)
    PROVE  BrokerInv'
<1>1. [op |-> "idle"] \in Request
  BY DEF Request
<1>2. reqs' = [reqs EXCEPT ![c] = [op |-> "idle"]] /\ UNCHANGED <<actions, clock, expired>>
  BY DEF Abandon, Close
<1> QED
  BY <1>1, <1>2, RequestStep

\* What has been reached stays so as the clock goes on.
LEMMA BrokerTickKeeps ==
    ASSUME BrokerInv, BrokerTick
    PROVE  BrokerInv'
<1>1. /\ clock' \in 0 .. MaxClock /\ clock' \in Nat /\ clock <= clock'
      /\ UNCHANGED <<actions, reqs, expired>>
  BY BrokerAssumption DEF BrokerTick, BrokerInv, BrokerTypeOK
<1>2. RowsKept
  BY <1>1 DEF RowsKept, Exists, SecondOperator
<1>3. BrokerTypeOK'
  BY <1>1 DEF BrokerInv, BrokerTypeOK
<1>4. TwoOperators'
  BY <1>1 DEF BrokerInv, TwoOperators, Exists
<1>5. \A c \in Conn : RequestIsBacked(c)'
  BY <1>1, <1>2, OthersStayBacked
<1>6. ExpiryIsPast'
  BY <1>1, <1>2, OthersStayBacked, ExpiredStaysPast DEF ExpiryIsPast
<1> QED
  BY <1>3, <1>4, <1>5, <1>6 DEF BrokerInv

-----------------------------------------------------------------------------
\* Every step keeps BrokerInv.
LEMMA BrokerStepKeeps ==
    ASSUME BrokerInv, [BrokerNext]_brokerVars
    PROVE  BrokerInv'
<1>1. CASE OperatorStep
  BY <1>1, CreateKeeps, ApproveReadKeeps DEF OperatorStep
<1>2. ASSUME NEW c \in Conn, ServerStep(c)
      PROVE  BrokerInv'
  BY <1>2, ApproveWriteKeeps, NextDispatchKeeps, SignLeaseKeeps, CompleteWriteKeeps
     DEF ServerStep
<1>3. ASSUME NEW c \in Conn, NEW agent \in Agent,
             \/ NextStart(c, agent)
             \/ \E id \in ActionID, o \in Outcome : CompleteRead(c, id, agent, o)
      PROVE  BrokerInv'
  BY <1>3, NextStartKeeps, CompleteReadKeeps
<1>4. CASE UNCHANGED brokerVars
  BY <1>4 DEF brokerVars, BrokerInv, BrokerTypeOK, TwoOperators, RequestIsBacked,
              ExpiryIsPast, Exists, SecondOperator
<1> QED
  BY <1>1, <1>2, <1>3, <1>4, AbandonKeeps, BrokerTickKeeps DEF BrokerNext

\* There is no row and no request at first.
LEMMA BrokerInitInv == BrokerInit => BrokerInv
<1> SUFFICES ASSUME BrokerInit PROVE BrokerInv
  OBVIOUS
<1>1. [op |-> "idle"] \in Request
  BY DEF Request
<1>2. BrokerTypeOK
  BY <1>1, BrokerAssumption DEF BrokerInit, BrokerTypeOK
<1>3. \A c \in Conn : reqs[c].op = "idle"
  BY DEF BrokerInit
<1> QED
  BY <1>2, <1>3
     DEF BrokerInit, BrokerInv, TwoOperators, RequestIsBacked, ExpiryIsPast, Exists

\* The inductive invariant behind the theorems.
LEMMA BrokerInvariant == BrokerSpec => []BrokerInv
<1>1. BrokerInv /\ [BrokerNext]_brokerVars => BrokerInv'
  BY BrokerStepKeeps
<1> QED
  BY <1>1, BrokerInitInv, PTL DEF BrokerSpec

(***************************************************************************)
(* Four eyes for every number of operators, actions and concurrent stores. *)
(* The UPDATE of approve names the row by its ID only                      *)
(* (response_broker.py:323), after the check of the requester was made on  *)
(* a row read earlier; the proof shows that this is safe because           *)
(* requested_by is never written again, and that a result is only recorded *)
(* for a row that already had its second operator when it was read.        *)
(***************************************************************************)
THEOREM TwoOperatorsAlways == BrokerSpec => []TwoOperators
BY BrokerInvariant, PTL DEF BrokerInv

(***************************************************************************)
(* No lease is signed for an action that was ever recorded as expired      *)
(* (response_broker.py:139, 336), whatever a late approval made of its     *)
(* status: an expiry is recorded only once it has passed, the row's expiry *)
(* is never moved, and signing reads the clock again.                      *)
(***************************************************************************)
THEOREM ExpiredIsNeverLeasedAlways == BrokerSpec => ExpiredIsNeverLeased
<1>1. ASSUME BrokerInv, NEW c \in Conn, SignLease(c), reqs'[c].op = "answer"
      PROVE  reqs'[c].lease.id \notin expired
  <2>1. reqs[c].op = "sign" /\ reqs[c] \in Request /\ BrokerTypeOK /\ RequestIsBacked(c)
    BY <1>1 DEF SignLease, BrokerInv, BrokerTypeOK
  <2>2. reqs[c].id \in ActionID /\ Exists(reqs[c].id)
    BY <2>1, RequestShape DEF RequestIsBacked
  <2>3. Signable(reqs[c].id)
    BY <1>1, <2>1 DEF SignLease, Close, BrokerTypeOK
  <2>4. reqs'[c] = [op |-> "answer", lease |-> Lease(reqs[c].id)]
    BY <1>1, <2>1, <2>3 DEF SignLease, BrokerTypeOK
  <2>5. reqs'[c].lease.id = reqs[c].id
    BY <2>4 DEF Lease
  <2>6. actions[reqs[c].id].expires_at \in Nat /\ clock \in Nat
    BY <2>1, <2>2, RowShape, BrokerAssumption DEF BrokerTypeOK
  <2>7. actions[reqs[c].id].expires_at > clock
    BY <2>3 DEF Signable
  <2> QED
    BY <1>1, <2>5, <2>6, <2>7 DEF BrokerInv, ExpiryIsPast
<1>2. BrokerInv /\ [BrokerNext]_brokerVars
         => [\A c \in Conn : (SignLease(c) /\ reqs'[c].op = "answer")
                                 => reqs'[c].lease.id \notin expired]_brokerVars
  BY <1>1
<1> QED
  BY <1>2, BrokerInvariant, PTL DEF BrokerSpec, ExpiredIsNeverLeased
-----------------------------------------------------------------------------
(***************************************************************************)
(* What a step does to what an Agent, or the next request, relies on.      *)
(***************************************************************************)
\* A result is what a request carried, and a lease that is handed out is for a
\* row with its second operator.
BrokerEffect ==
    /\ RowsKept
    /\ \A id \in ActionID : Exists(id)' =>
          \/ Exists(id) /\ actions'[id].result = actions[id].result
          \/ actions'[id].result = "none"
          \/ \E c \in Conn : /\ reqs[c].op = "complete" /\ reqs[c].id = id
                             /\ actions'[id].result = reqs[c].outcome
    /\ \A c \in Conn : reqs'[c].op = "answer" =>
          \/ reqs'[c] = reqs[c]
          \/ \E id \in ActionID : /\ reqs'[c].lease.id = id
                                  /\ Exists(id) /\ SecondOperator(id)

\* A step that leaves the table alone and hands out no lease.
LEMMA QuietEffect ==
    ASSUME BrokerInv, NEW c \in Conn, NEW q, q.op # "answer",
           reqs' = [reqs EXCEPT ![c] = q], actions' = actions
    PROVE  /\ BrokerEffect
           /\ \A d \in Conn : reqs'[d] = reqs[d] \/ reqs'[d] = q
<1>1. \A d \in Conn : reqs'[d] = reqs[d] \/ reqs'[d] = q
  BY DEF BrokerInv, BrokerTypeOK
<1> QED
  BY <1>1 DEF BrokerEffect, RowsKept, Exists, SecondOperator

\* A request under way changes the rows as BrokerEffect says, and no result on
\* its way.
LEMMA ServerStepEffect ==
    ASSUME BrokerInv, NEW c \in Conn, ServerStep(c) \/ Abandon(c)
    PROVE  /\ BrokerEffect
           /\ \A d \in Conn : reqs'[d].op = "complete" => reqs'[d] = reqs[d]
<1>0. BrokerTypeOK /\ RequestIsBacked(c) /\ reqs[c] \in Request
  BY DEF BrokerInv, BrokerTypeOK
<1> DEFINE Closed == \A d \in Conn : (d # c => reqs'[d] = reqs[d]) /\ (d = c => reqs'[d].op = "idle")
<1>1. ASSUME Close(c) PROVE Closed
  BY <1>0, <1>1 DEF Close, BrokerTypeOK
<1>2. CASE ApproveWrite(c)
  <2>1. PICK id \in ActionID : id = reqs[c].id /\ Exists(id)
    BY <1>0, <1>2, ApproveWriteEffect
  <2>2. /\ reqs[c].op = "approve" /\ reqs[c].by # actions[id].requested_by
        /\ reqs[c].by \in Operator
    BY <1>0, <1>2, <2>1, RequestShape DEF ApproveWrite, RequestIsBacked
  <2>3. actions[id] \in ResponseAction /\ actions' \in [ActionID -> ResponseAction \cup {NoRow}]
    BY <1>0, <1>2, <2>1, RowShape, ApproveWriteEffect
  <2>4. /\ \/ actions'[id] = [actions[id] EXCEPT !.status = "expired"]
           \/ actions'[id] = [actions[id] EXCEPT !.status = "approved", !.approved_by = reqs[c].by]
        /\ \A i \in ActionID : i # id => actions'[i] = actions[i]
    BY <1>0, <1>2, <2>1, ApproveWriteEffect
  <2>5. /\ actions'[id] # NoRow /\ actions'[id].requested_by = actions[id].requested_by
        /\ actions'[id].expires_at = actions[id].expires_at
        /\ actions'[id].result = actions[id].result
        /\ actions'[id].approved_by \in {actions[id].approved_by, reqs[c].by}
    <3>1. CASE actions'[id] = [actions[id] EXCEPT !.status = "expired"]
      <4>1. actions'[id] \in ResponseAction
        BY <2>3, <3>1 DEF ResponseAction, Status, TERMINAL_STATUSES
      <4> QED
        BY <2>3, <3>1, <4>1, BrokerAssumption DEF ResponseAction
    <3>2. CASE actions'[id] = [actions[id] EXCEPT !.status = "approved", !.approved_by = reqs[c].by]
      <4>1. actions'[id] \in ResponseAction
        BY <2>2, <2>3, <3>2 DEF ResponseAction, Status
      <4> QED
        BY <2>2, <2>3, <3>2, <4>1, BrokerAssumption DEF ResponseAction
    <3> QED
      BY <2>4, <3>1, <3>2
  <2>6. RowsKept
    BY <2>1, <2>2, <2>4, <2>5, BrokerAssumption DEF RowsKept, Exists, SecondOperator
  <2>7. Closed
    BY <1>1, <1>2 DEF ApproveWrite
  <2> QED
    BY <2>1, <2>4, <2>5, <2>6, <2>7 DEF BrokerEffect, Exists
<1>3. CASE NextDispatch(c)
  <2>1. \A id \in ActionID :
           \/ actions'[id] = actions[id]
           \/ Exists(id) /\ actions'[id] = [actions[id] EXCEPT !.status = "expired"]
           \/ Exists(id) /\ actions'[id] = [actions[id] EXCEPT !.status = "dispatched"]
    BY <1>0, <1>3, NextDispatchEffect
  <2>2. ASSUME NEW id \in ActionID, Exists(id)
        PROVE  /\ Exists(id)' /\ actions'[id].requested_by = actions[id].requested_by
               /\ actions'[id].expires_at = actions[id].expires_at
               /\ actions'[id].result = actions[id].result
               /\ actions'[id].approved_by = actions[id].approved_by
    <3>1. actions[id] \in ResponseAction
      BY <1>0, <2>2, RowShape
    <3>2. actions'[id] \in ResponseAction
      BY <2>1, <3>1 DEF ResponseAction, Status, TERMINAL_STATUSES
    <3> QED
      BY <2>1, <2>2, <3>1, <3>2, BrokerAssumption DEF Exists, ResponseAction
  <2>3. RowsKept
    BY <2>2 DEF RowsKept, SecondOperator
  <2>4. \A id \in ActionID : Exists(id)' => Exists(id)
    BY <2>1 DEF Exists
  <2>5. \A d \in Conn : reqs'[d] = reqs[d] \/ reqs'[d].op \in {"idle", "sign"}
    BY <1>0, <1>3, NextDispatchEffect DEF BrokerTypeOK
  <2> QED
    BY <2>2, <2>3, <2>4, <2>5 DEF BrokerEffect
<1>4. CASE SignLease(c)
  <2>1. PICK id \in ActionID : id = reqs[c].id /\ Exists(id)
    BY <1>0, <1>4, RequestShape DEF SignLease, RequestIsBacked
  <2>2. actions' = actions /\ RowsKept
    BY <1>4 DEF SignLease, RowsKept, Exists, SecondOperator
  <2>3. CASE ~ Signable(id)
    <3>1. Closed
      BY <1>1, <1>4, <2>1, <2>3 DEF SignLease
    <3> QED
      BY <2>2, <3>1 DEF BrokerEffect, Exists
  <2>4. CASE Signable(id)
    <3>1. SecondOperator(id)
      BY <2>1, <2>4 DEF BrokerInv, TwoOperators, Signable, SecondOperator
    <3>2. reqs' = [reqs EXCEPT ![c] = [op |-> "answer", lease |-> Lease(id)]]
      BY <1>4, <2>1, <2>4 DEF SignLease
    <3>3. Lease(id).id = id
      BY DEF Lease
    <3>4. /\ reqs'[c].op = "answer" /\ reqs'[c].lease.id = id
          /\ \A d \in Conn : d # c => reqs'[d] = reqs[d]
      BY <1>0, <3>2, <3>3 DEF BrokerTypeOK
    <3> QED
      BY <2>1, <2>2, <3>1, <3>4 DEF BrokerEffect, Exists
  <2> QED
    BY <2>3, <2>4
<1>5. CASE CompleteWrite(c)
  <2>1. PICK id \in ActionID : id = reqs[c].id /\ Exists(id)
    BY <1>0, <1>5, CompleteWriteEffect
  <2>2. reqs[c].op = "complete" /\ reqs[c].outcome \in Outcome
    BY <1>0, <1>5, RequestShape DEF CompleteWrite
  <2>3. /\ actions'[id] = [actions[id] EXCEPT !.status = reqs[c].outcome,
                                              !.result = reqs[c].outcome]
        /\ \A i \in ActionID : i # id => actions'[i] = actions[i]
    BY <1>0, <1>5, <2>1, CompleteWriteEffect
  <2>4. actions[id] \in ResponseAction
    BY <1>0, <2>1, RowShape
  <2>5. actions'[id] \in ResponseAction
    BY <2>2, <2>3, <2>4 DEF ResponseAction, Status, TERMINAL_STATUSES
  <2>6. /\ actions'[id] # NoRow /\ actions'[id].requested_by = actions[id].requested_by
        /\ actions'[id].expires_at = actions[id].expires_at
        /\ actions'[id].result = reqs[c].outcome
        /\ actions'[id].approved_by = actions[id].approved_by
    BY <2>2, <2>3, <2>4, <2>5, BrokerAssumption DEF ResponseAction
  <2>7. RowsKept
    BY <2>1, <2>3, <2>6 DEF RowsKept, Exists, SecondOperator
  <2>8. Closed
    BY <1>1, <1>5 DEF CompleteWrite
  <2> QED
    <3>1. \A i \in ActionID : Exists(i)' =>
             \/ Exists(i) /\ actions'[i].result = actions[i].result
             \/ /\ reqs[c].op = "complete" /\ reqs[c].id = i
                /\ actions'[i].result = reqs[c].outcome
      BY <2>1, <2>2, <2>3, <2>6 DEF Exists
    <3>2. \A d \in Conn : reqs'[d] = reqs[d] \/ reqs'[d].op = "idle"
      BY <2>8
    <3> QED
      BY <2>7, <3>1, <3>2 DEF BrokerEffect
<1>6. CASE Abandon(c)
  <2> DEFINE q == [op |-> "idle"]
  <2>1. q.op # "answer" /\ q.op # "complete"
    OBVIOUS
  <2>2. reqs' = [reqs EXCEPT ![c] = q] /\ actions' = actions
    BY <1>6 DEF Abandon, Close
  <2> HIDE DEF q
  <2> QED
    BY <2>1, <2>2, QuietEffect
<1> QED
  BY <1>2, <1>3, <1>4, <1>5, <1>6 DEF ServerStep

\* An operator's request changes the rows as BrokerEffect says, and no result
\* on its way.
LEMMA OperatorStepEffect ==
    ASSUME BrokerInv, OperatorStep
    PROVE  /\ BrokerEffect
           /\ \A d \in Conn : reqs'[d].op = "complete" => reqs'[d] = reqs[d]
<1>1. ASSUME NEW id \in ActionID, NEW by \in Operator, NEW agent \in Agent, NEW ttl \in TTL,
             Create(id, by, agent, ttl)
      PROVE  BrokerEffect /\ reqs' = reqs
  <2>1. /\ ~ Exists(id) /\ reqs' = reqs
        /\ \A i \in ActionID : i # id => actions'[i] = actions[i]
        /\ actions'[id].result = "none"
    BY <1>1 DEF Create, BrokerInv, BrokerTypeOK
  <2> QED
    BY <2>1 DEF BrokerEffect, RowsKept, Exists, SecondOperator
<1>2. ASSUME NEW id \in ActionID, NEW by \in Operator, NEW c \in Conn, ApproveRead(c, id, by)
      PROVE  /\ BrokerEffect
             /\ \A d \in Conn : reqs'[d].op = "complete" => reqs'[d] = reqs[d]
  <2> DEFINE q == [op |-> "approve", id |-> id, by |-> by,
                   late |-> actions[id].expires_at <= clock]
  <2>1. q.op # "answer" /\ q.op # "complete"
    OBVIOUS
  <2>2. reqs' = [reqs EXCEPT ![c] = q] /\ actions' = actions
    BY <1>2 DEF ApproveRead
  <2> HIDE DEF q
  <2> QED
    BY <2>1, <2>2, QuietEffect
<1> QED
  BY <1>1, <1>2 DEF OperatorStep

(***************************************************************************)
(* No step of the broker deletes a row, changes its requester or moves its *)
(* expiry, and none withdraws the approval of a second operator: what      *)
(* approve and next_for_agent checked in a row they read earlier is still  *)
(* so when their UPDATE names it by its ID only.                           *)
(***************************************************************************)
THEOREM RowsAreKept == BrokerSpec => [][RowsKept]_brokerVars
<1>1. ASSUME BrokerInv, BrokerNext PROVE RowsKept
  <2>1. CASE OperatorStep
    BY <1>1, <2>1, OperatorStepEffect DEF BrokerEffect
  <2>2. ASSUME NEW c \in Conn, ServerStep(c) \/ Abandon(c) PROVE RowsKept
    BY <1>1, <2>2, ServerStepEffect DEF BrokerEffect
  <2>3. CASE actions' = actions
    BY <2>3 DEF RowsKept, Exists, SecondOperator
  <2> QED
    BY <1>1, <2>1, <2>2, <2>3 DEF BrokerNext, NextStart, CompleteRead, BrokerTick
<1>2. BrokerInv /\ [BrokerNext]_brokerVars => [RowsKept]_brokerVars
  BY <1>1
<1> QED
  BY <1>2, BrokerInvariant, PTL DEF BrokerSpec

=============================================================================
