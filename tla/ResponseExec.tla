---------------------------- MODULE ResponseExec ----------------------------
(***************************************************************************)
(* The response path end to end: the broker, the Agent's replay ledger and *)
(* the runner between them (agent/internal/responseexec/runner.go), over a *)
(* network that loses and delays.                                          *)
(*                                                                         *)
(* The runner is one goroutine.  Each tick of its timer runs sync: fetch a *)
(* lease, verify it, Begin it in the ledger, evaluate the local policy,    *)
(* run the tool, Complete it in the ledger and post the result.  A fetch   *)
(* that times out leaves the server's half of the request running; a post  *)
(* whose answer is late, lost or an error changes nothing on the Agent, so *)
(* the runner goes on as soon as it has sent it.                           *)
(*                                                                         *)
(* An action's arguments never change in the broker, so its digest is one  *)
(* value here; digest conflicts are checked in ReplayLedger.  Agent and    *)
(* server read the same clock.                                             *)
(***************************************************************************)
EXTENDS Naturals, FiniteSets

CONSTANTS ActionID, Operator, Me, Conn, TTL, LeaseTime, MaxClock, NoOne, NoRow,
          MaxLedgerEntries, Absent

VARIABLES actions, reqs, expired,                      \* the broker
          entries, path, fresh, bak, saving, call,     \* the ledger
          reply, up, granted, regranted, pruned, installed, lost,
          clock,                                       \* both
          runner,      \* where sync is, and what it holds
          posts,       \* results on their way to the server
          executed,    \* history: actions whose tool has run
          reexecuted   \* history: ... more than once

B == INSTANCE ResponseBroker WITH Agent <- {Me}
L == INSTANCE ReplayLedger WITH
        Digest <- {"digest"}, Result <- B!Outcome, NoResult <- "none"

\* What the broker and the ledger assume of their parameters.
ASSUME ExecAssumption ==
    /\ MaxClock \in Nat /\ MaxLedgerEntries \in Nat /\ LeaseTime \in Nat \ {0}
    /\ TTL \subseteq 1 .. MaxClock
    /\ NoOne \notin Operator /\ NoRow \notin B!ResponseAction
    /\ Absent \notin L!Ledgers

brokerState == <<actions, reqs, expired>>
ledgerState == <<entries, path, fresh, bak, saving, call, reply, up,
                 granted, regranted, pruned, installed, lost>>
runnerState == <<runner, posts, executed, reexecuted>>
execVars == <<brokerState, ledgerState, clock, runnerState>>

Waiting == [pc |-> "wait"]

ExecInit ==
    /\ B!BrokerInit
    /\ L!LedgerInit
    /\ runner = Waiting
    /\ posts = {} /\ executed = {} /\ reexecuted = {}

-----------------------------------------------------------------------------
(***************************************************************************)
(* sync.                                                                   *)
(***************************************************************************)
At(pc) == up /\ runner.pc = pc

Go(pc) == runner' = [pc |-> pc, lease |-> runner.lease]

Finish(pc, outcome) ==
    runner' = [pc |-> pc, lease |-> runner.lease, outcome |-> outcome]

Fetch(c) ==
    /\ At("wait")
    /\ B!NextStart(c, Me)
    /\ runner' = [pc |-> "fetch", conn |-> c]
    /\ UNCHANGED <<ledgerState, posts, executed, reexecuted>>

\* An error, a timeout or HTTP 204 / 409.
FetchFails ==
    /\ At("fetch")
    /\ runner' = Waiting
    /\ UNCHANGED <<brokerState, ledgerState, clock, posts, executed, reexecuted>>

\* VerifyLease's checks of the two expiry times.
Live(lease) == lease.lease_expires_at > clock /\ lease.action_expires_at > clock

Receive ==
    /\ At("fetch")
    /\ LET c == runner.conn
       IN /\ reqs[c].op = "answer"
          /\ runner' = IF Live(reqs[c].lease)
                       THEN [pc |-> "begin", lease |-> reqs[c].lease] ELSE Waiting
          /\ B!Close(c)
    /\ UNCHANGED <<actions, expired, ledgerState, clock, posts, executed, reexecuted>>

CallBegin ==
    /\ At("begin")
    /\ L!Begin(runner.lease.id, "digest")
    /\ Go("begun")
    /\ UNCHANGED <<brokerState, posts, executed, reexecuted>>

\* Mutants of Begun: an indeterminate action is run again; it is taken for a
\* completed one.
BegunRetries ==
    /\ At("begun") /\ saving = "idle"
    /\ \/ reply = "replay" /\ Finish("post", entries[runner.lease.id].result)
       \/ reply \in {"indeterminate", "go"} /\ Go("evaluate")
       \/ reply \in {"conflict", "error"} /\ runner' = Waiting
    /\ UNCHANGED <<brokerState, ledgerState, clock, posts, executed, reexecuted>>

\* What sync makes of Begin's answer.
Begun ==
    /\ At("begun") /\ saving = "idle"
    /\ \/ reply = "replay" /\ Finish("post", entries[runner.lease.id].result)
       \/ reply = "indeterminate" /\ Finish("complete", "failed")
       \/ reply \in {"conflict", "error"} /\ runner' = Waiting
       \/ reply = "go" /\ Go("evaluate")
    /\ UNCHANGED <<brokerState, ledgerState, clock, posts, executed, reexecuted>>

\* execute up to the policy's decision: the registry or the policy file may not
\* load, the policy may deny the tool, and it looks at both expiry times again
\* (a time equal to the expiry is still allowed here).
Evaluate ==
    /\ At("evaluate")
    /\ \/ Finish("complete", "failed")
       \/ Finish("complete", "rejected")
       \/ /\ clock <= runner.lease.action_expires_at
          /\ clock <= runner.lease.lease_expires_at
          /\ Go("run")
    /\ UNCHANGED <<brokerState, ledgerState, clock, posts, executed, reexecuted>>

\* Mutant of RunTool: the tool's error is swallowed.
RunToolUnchecked(effect) ==
    /\ At("run")
    /\ Finish("complete", "succeeded")
    /\ executed' = IF effect THEN executed \cup {runner.lease.id} ELSE executed
    /\ UNCHANGED <<brokerState, ledgerState, clock, posts, reexecuted>>

\* The tool runs; one that returns an error may or may not have had its effect.
RunTool(effect) ==
    /\ At("run")
    /\ LET id == runner.lease.id
       IN IF effect
          THEN /\ executed' = executed \cup {id}
               /\ reexecuted' = reexecuted \cup ({id} \cap executed)
               /\ \E outcome \in {"succeeded", "failed"} : Finish("complete", outcome)
          ELSE Finish("complete", "failed") /\ UNCHANGED <<executed, reexecuted>>
    /\ UNCHANGED <<brokerState, ledgerState, clock, posts>>

CallComplete ==
    /\ At("complete")
    /\ L!Complete(runner.lease.id, "digest", runner.outcome)
    /\ Finish("completing", runner.outcome)
    /\ UNCHANGED <<brokerState, posts, executed, reexecuted>>

\* A result that could not be persisted is not posted.
Completed ==
    /\ At("completing") /\ saving = "idle"
    /\ IF reply = "ok" THEN Finish("post", runner.outcome) ELSE runner' = Waiting
    /\ UNCHANGED <<brokerState, ledgerState, clock, posts, executed, reexecuted>>

PostResult ==
    /\ At("post")
    /\ posts' = posts \cup {[id |-> runner.lease.id, outcome |-> runner.outcome]}
    /\ runner' = Waiting
    /\ UNCHANGED <<brokerState, ledgerState, clock, executed, reexecuted>>

RunnerStep == \/ Receive \/ CallBegin \/ Begun \/ Evaluate
              \/ \E effect \in BOOLEAN : RunTool(effect)
              \/ CallComplete \/ Completed \/ PostResult

-----------------------------------------------------------------------------
(***************************************************************************)
(* The rest of the system.                                                 *)
(***************************************************************************)

\* Mutant of Deliver: a posted result replaces a terminal status.
DeliverAnyway(c, m) ==
    /\ m \in posts
    /\ posts' = posts \ {m}
    /\ B!Free(c)
    /\ actions' = [actions EXCEPT ![m.id].status = m.outcome, ![m.id].result = m.outcome]
    /\ UNCHANGED <<reqs, expired, clock, ledgerState, runner, executed, reexecuted>>

\* The server takes a posted result; one for a terminal action is answered
\* without a change.
Deliver(c, m) ==
    /\ m \in posts
    /\ posts' = posts \ {m}
    /\ \/ B!CompleteRead(c, m.id, Me, m.outcome)
       \/ /\ actions[m.id].status \in B!TERMINAL_STATUSES
          /\ UNCHANGED <<brokerState, clock>>
    /\ UNCHANGED <<ledgerState, runner, executed, reexecuted>>

LosePost(m) ==
    /\ m \in posts
    /\ posts' = posts \ {m}
    /\ UNCHANGED <<brokerState, ledgerState, clock, runner, executed, reexecuted>>

Server(c) ==
    /\ B!ServerStep(c) \/ B!Abandon(c)
    /\ UNCHANGED <<ledgerState, runnerState>>

Operate == B!OperatorStep /\ UNCHANGED <<ledgerState, runnerState>>

LedgerSave == L!Save /\ UNCHANGED <<brokerState, runnerState>>

AgentCrash ==
    /\ L!Crash
    /\ runner' = Waiting
    /\ UNCHANGED <<brokerState, posts, executed, reexecuted>>

\* Mutant of AgentRestart: the ledger is opened without load.
AgentRestartEmpty ==
    /\ ~up /\ up' = TRUE
    /\ UNCHANGED <<entries, path, fresh, bak, saving, call, reply, granted, regranted,
                   pruned, installed, lost, brokerState, runnerState, clock>>

AgentRestart == L!Restart /\ UNCHANGED <<brokerState, runnerState>>

ExecTick == B!BrokerTick /\ UNCHANGED <<ledgerState, runnerState>>

ExecNext ==
    \/ \E c \in Conn : Fetch(c) \/ Server(c) \/ \E m \in posts : Deliver(c, m)
    \/ FetchFails
    \/ RunnerStep
    \/ \E m \in posts : LosePost(m)
    \/ Operate
    \/ LedgerSave
    \/ AgentCrash
    \/ AgentRestart
    \/ ExecTick

ExecSpec == ExecInit /\ [][ExecNext]_execVars

\* The timer keeps firing, the Agent is restarted, nothing that was begun stops
\* for ever, and not every lease, result or save is lost.
ExecFairness ==
    /\ WF_execVars(ExecTick)
    /\ WF_execVars(AgentRestart)
    /\ WF_execVars(LedgerSave)
    /\ WF_execVars(FetchFails)
    /\ \A c \in Conn : WF_execVars(reqs[c].op = "answer" /\ Server(c))
    /\ SF_execVars(\E c \in Conn : Fetch(c))
    /\ SF_execVars(RunnerStep)
    /\ SF_execVars(\E c \in Conn, m \in posts : Deliver(c, m))
    /\ SF_execVars(\E c \in Conn : B!ServerStep(c) /\ UNCHANGED <<ledgerState, runnerState>>)

ExecLiveSpec == ExecSpec /\ ExecFairness

-----------------------------------------------------------------------------
(***************************************************************************)
(* Properties.                                                             *)
(***************************************************************************)

(***************************************************************************)
(* At most once, end to end: under lost and repeated leases, lost results, *)
(* repeated approvals, failing saves and crashes, no tool runs twice for   *)
(* one action, unless the ledger pruned the action or a crash lost the     *)
(* ledger file.                                                            *)
(***************************************************************************)
ExecutedOnce == reexecuted \subseteq pruned \/ lost

(***************************************************************************)
(* Nothing runs on an Agent without the approval of two operators.         *)
(***************************************************************************)
ExecutedWasApproved ==
    \A id \in executed : actions[id].approved_by \notin {NoOne, actions[id].requested_by}

(***************************************************************************)
(* The outcome the broker records is true: "succeeded" only if the tool    *)
(* ran, "rejected" only if it did not (unless the ledger was lost or       *)
(* pruned, after which one action can have two outcomes).                  *)
(***************************************************************************)
RecordedResultIsTrue ==
    \A id \in ActionID : B!Exists(id) =>
        /\ actions[id].result = "succeeded" => id \in executed
        /\ actions[id].result = "rejected" => id \notin executed \/ id \in pruned \/ lost

(***************************************************************************)
(* The runner uses the ledger and the broker as their specifications say,  *)
(* so what is proved of them holds here.                                   *)
(***************************************************************************)
UsesLedger == L!LedgerSpec

UsesBroker == B!BrokerSpec

(***************************************************************************)
(* docs/RESPONSE-BROKER.md:110-111: "ACK lost after execution: the         *)
(* terminal result is resent": a result that is in the ledger file reaches *)
(* the broker's record, as long as not every delivery fails.               *)
(***************************************************************************)
StoredResultIsRecorded ==
    \A id \in ActionID :
       (path # Absent /\ id \in L!Completed(path))
          ~> (B!Exists(id) /\ actions[id].result # "none")

=============================================================================
