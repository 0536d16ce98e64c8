------------------------------ MODULE ToolCall ------------------------------
(***************************************************************************)
(* One call of a containment tool, as the response runner makes it: the    *)
(* registry looks the tool up, its Execute chooses the operation, and the  *)
(* backend runs it step by step.  The runner makes one call at a time.     *)
(*                                                                         *)
(* A backend runs commands with the Agent's own context and no timeout.    *)
(* A command may succeed, fail without effect, or be killed by the         *)
(* shutdown of the Agent after it took effect; once the context is         *)
(* cancelled every later command of the call fails, its rollback included. *)
(* The Agent may also die between any two steps.                           *)
(***************************************************************************)
EXTENDS Naturals, FiniteSets

CONSTANTS Addr,         \* remote addresses
          MaxCalls      \* bound: tool calls in a behaviour

ASSUME MaxCallsAssumption == MaxCalls \in Nat

VARIABLES call,         \* the call in progress, or Idle
          ctx,          \* the Agent's context: "live" or "cancelled"
          answer,       \* what the last call was answered, until the next one
          calls,        \* calls made so far
          unsettled     \* history: a command was cut off by the shutdown, a
                        \* rollback failed as well, or a table that exists
                        \* could not be listed

callVars == <<call, ctx, answer, calls, unsettled>>

Idle == [pc |-> "idle"]

NoAnswer == [op |-> "none", arg |-> "none", ok |-> FALSE]

CallInit ==
    /\ call = Idle /\ ctx = "live" /\ answer = NoAnswer
    /\ calls = 0 /\ unsettled = FALSE

-----------------------------------------------------------------------------
(***************************************************************************)
(* Registry and dispatch.                                                  *)
(***************************************************************************)
Operations ==
    [tool \in {"host.isolate", "firewall.block", "firewall.port", "file.quarantine"} |->
        CASE tool = "host.isolate"    -> <<"isolate", "release">>
          [] tool = "firewall.block"  -> <<"block", "unblock">>
          [] tool = "firewall.port"   -> <<"open", "close">>
          [] tool = "file.quarantine" -> <<"quarantine", "restore">>]

\* An operation left out or blank is the tool's first.
containmentOperation(tool, text) ==
    IF text = "" THEN Operations[tool][1] ELSE text

\* Execute answers an error for a tool that is not registered or an
\* operation that is not the tool's own.
Routed(tool, text) ==
    /\ tool \in DOMAIN Operations
    /\ \E i \in {1, 2} : containmentOperation(tool, text) = Operations[tool][i]

At(op, pc) == call.pc = pc /\ call.op = op

\* The runner executes an action: nothing has changed yet.
Execute(tool, text, arg) ==
    /\ call = Idle /\ ctx = "live" /\ calls < MaxCalls
    /\ Routed(tool, text)
    /\ call' = [pc |-> "start", op |-> containmentOperation(tool, text), arg |-> arg,
                fresh |-> FALSE]
    /\ calls' = calls + 1
    /\ answer' = NoAnswer
    /\ UNCHANGED <<ctx, unsettled>>

Goto(pc) ==
    /\ call' = [call EXCEPT !.pc = pc]
    /\ UNCHANGED <<answer, calls>>

\* The call has written a signed state that it takes back if it fails.
GotoFresh(pc) ==
    /\ call' = [call EXCEPT !.pc = pc, !.fresh = TRUE]
    /\ UNCHANGED <<answer, calls>>

Answer(ok) ==
    /\ call' = Idle
    /\ answer' = [op |-> call.op, arg |-> call.arg, ok |-> ok]
    /\ UNCHANGED calls

-----------------------------------------------------------------------------
(***************************************************************************)
(* The ways a command ends.                                                *)
(***************************************************************************)
Succeeds == ctx = "live" /\ UNCHANGED <<ctx, unsettled>>

\* For whatever reason, a context that is cancelled by now among them.
Fails ==
    \/ UNCHANGED <<ctx, unsettled>>
    \/ ctx' = "cancelled" /\ unsettled' = TRUE

\* The failure of a command whose error is not looked at.
CleanupFails == ctx' \in {ctx, "cancelled"} /\ unsettled' = TRUE

KilledAfterEffect == ctx = "live" /\ ctx' = "cancelled" /\ unsettled' = TRUE

\* A step of the file system, which no context cancels.
FileStep == UNCHANGED <<ctx, unsettled>>

\* The Agent dies, or stops after the call, and is started again.
Restarted ==
    /\ call # Idle \/ ctx = "cancelled"
    /\ call' = Idle /\ ctx' = "live" /\ answer' = NoAnswer
    /\ UNCHANGED <<calls, unsettled>>

=============================================================================
