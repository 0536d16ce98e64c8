-------------------------- MODULE NetshContainment --------------------------
(***************************************************************************)
(* Host isolation, address blocks and port rules on Windows                *)
(* (agent/internal/tools/containment_windows.go).                          *)
(*                                                                         *)
(* Isolation exports the whole firewall policy, signs the digest of the    *)
(* export, opens the Control Plane and DNS and blocks everything else;     *)
(* release imports the export.  Each block and each opened port has a rule *)
(* of its own, whose random name is kept in a signed file per target.  The *)
(* two halves meet in the export: it holds the rules of the moment it was  *)
(* made.  A digest identifies the policy it was taken of.                  *)
(***************************************************************************)
EXTENDS ToolCall, Sequences

CONSTANTS Port,         \* (protocol, direction, port) triples to open
          None

Target == Addr \cup Port

VARIABLES policy,       \* the Windows Firewall: the default action for
                        \* outgoing traffic, what the isolation lets through
                        \* and the Agent's rules
          isolation,    \* host-isolation.json: the digest it signs, or None
          backup,       \* the exported policy, or None
          owner,        \* per target: the rule its signed file names, or None
          reverted,     \* history: targets whose rules an import changed
          reapplied     \* history: isolate was run on an isolated host

netshVars == <<policy, isolation, backup, owner, reverted, reapplied>>

Policies == [out : {"allow", "block"}, pass : SUBSET {"control", "dns"},
             rules : SUBSET (Target \X (1..MaxCalls) \X {"in", "out"})]

ASSUME NoneAssumption == None \notin Policies /\ None \notin 1..MaxCalls

NetshInit ==
    /\ policy = [out |-> "allow", pass |-> {}, rules |-> {}]
    /\ isolation = None /\ backup = None
    /\ owner = [t \in Target |-> None]
    /\ reverted = {} /\ reapplied = FALSE

NetshDone(ok) == Answer(ok) /\ UNCHANGED netshVars
NetshGoto(pc) == Goto(pc) /\ UNCHANGED netshVars

RulesOf(p, t) == {r \in p.rules : r[1] = t}

\* netsh advfirewall import.
Import ==
    /\ policy' = backup
    /\ reverted' = reverted \cup {t \in Target : RulesOf(policy, t) # RulesOf(backup, t)}
    /\ UNCHANGED <<isolation, backup, owner, reapplied>>

-----------------------------------------------------------------------------
(***************************************************************************)
(* Isolate.                                                                *)
(***************************************************************************)
validateIsolationBackup == isolation # None /\ backup = isolation

IsolateLook ==
    /\ At("isolate", "start")
    /\ \/ Fails /\ NetshDone(FALSE)               \* the name does not resolve
       \/ FileStep /\ isolation # None /\ ~validateIsolationBackup /\ NetshDone(FALSE)
       \/ FileStep /\ isolation = None /\ backup # None /\ NetshDone(FALSE)
       \/ FileStep /\ isolation # None /\ validateIsolationBackup /\ NetshGoto("unpass")
       \/ FileStep /\ isolation = None /\ backup = None /\ NetshGoto("export")

\* The export, and the digest of the file it wrote: when that cannot be read
\* the file is removed, if it can be.
IsolateExport ==
    /\ At("isolate", "export")
    /\ \/ Succeeds /\ backup' = policy /\ Goto("save")
       \/ Succeeds /\ backup' \in {policy, None} /\ Answer(FALSE)
       \/ Fails /\ backup' = backup /\ Answer(FALSE)
       \/ KilledAfterEffect /\ backup' = policy /\ Answer(FALSE)
    /\ UNCHANGED <<policy, isolation, owner, reverted, reapplied>>

\* The state has its name before the chmod that ends writePrivateFile; when
\* either fails the backup is removed, if it can be.
IsolateSave ==
    /\ At("isolate", "save")
    /\ FileStep
    /\ \/ isolation' = backup /\ backup' = backup /\ GotoFresh("unpass")
       \/ isolation' \in {isolation, backup} /\ backup' \in {None, backup} /\ Answer(FALSE)
    /\ UNCHANGED <<policy, owner, reverted, reapplied>>

\* An error of applyIsolationPolicy: only a first isolation rolls back.
ApplyFails == IF call.fresh THEN Goto("rollback") ELSE Answer(FALSE)

\* applyIsolationPolicy.  The old Control Plane rules go first.
ApplyUnpass ==
    /\ At("isolate", "unpass")
    /\ \/ /\ Succeeds \/ KilledAfterEffect
          /\ policy' = [policy EXCEPT !.pass = @ \ {"control"}]
       \/ Fails /\ policy' = policy
    /\ Goto("pass")
    /\ reapplied' = (reapplied \/ policy.out = "block")
    /\ UNCHANGED <<isolation, backup, owner, reverted>>

\* Mutant of ApplyPass: its error is ignored, as the one of the deletion is.
ApplyPassIgnored ==
    /\ At("isolate", "pass")
    /\ \/ Succeeds /\ policy' = [policy EXCEPT !.pass = @ \cup {"control"}]
       \/ Fails /\ policy' = policy
    /\ Goto("dns")
    /\ UNCHANGED <<isolation, backup, owner, reverted, reapplied>>

\* One rule per address of the Control Plane: without all of them the path
\* counts as closed.
ApplyPass ==
    /\ At("isolate", "pass")
    /\ LET new == [policy EXCEPT !.pass = @ \cup {"control"}]
       IN  \/ Succeeds /\ policy' = new /\ Goto("dns")
           \/ Fails /\ policy' = policy /\ ApplyFails
           \/ KilledAfterEffect /\ policy' = new /\ ApplyFails
    /\ UNCHANGED <<isolation, backup, owner, reverted, reapplied>>

\* Each of the two DNS rules is deleted and added again.
ApplyDNS ==
    /\ At("isolate", "dns")
    /\ LET new == [policy EXCEPT !.pass = @ \cup {"dns"}]
           gone == [policy EXCEPT !.pass = @ \ {"dns"}]
       IN  \/ Succeeds /\ policy' = new /\ Goto("block")
           \/ Fails /\ policy' \in {policy, gone} /\ ApplyFails
           \/ KilledAfterEffect /\ policy' \in {new, gone} /\ ApplyFails
    /\ UNCHANGED <<isolation, backup, owner, reverted, reapplied>>

ApplyBlock ==
    /\ At("isolate", "block")
    /\ LET new == [policy EXCEPT !.out = "block"]
       IN  \/ Succeeds /\ policy' = new /\ Answer(TRUE)
           \/ Fails /\ policy' = policy /\ ApplyFails
           \/ KilledAfterEffect /\ policy' = new /\ ApplyFails
    /\ UNCHANGED <<isolation, backup, owner, reverted, reapplied>>

\* Mutant of IsolateRollback: the backup is given up whatever the import did.
IsolateRollbackBlindly ==
    /\ At("isolate", "rollback")
    /\ \/ Succeeds /\ Import
       \/ Fails /\ UNCHANGED netshVars
    /\ Goto("clear")

\* The import that undoes a first isolation; the state and the backup are
\* given up only after it succeeded.
IsolateRollback ==
    /\ At("isolate", "rollback")
    /\ \/ Succeeds /\ Import /\ Goto("clear")
       \/ Fails /\ NetshDone(FALSE)
       \/ KilledAfterEffect /\ Import /\ Answer(FALSE)

IsolateClear ==
    /\ At("isolate", "clear")
    /\ FileStep
    /\ isolation' \in {isolation, None} /\ backup' \in {backup, None}
    /\ Answer(FALSE)
    /\ UNCHANGED <<policy, owner, reverted, reapplied>>

-----------------------------------------------------------------------------
(***************************************************************************)
(* Release.                                                                *)
(***************************************************************************)
ReleaseLook ==
    /\ At("release", "start")
    /\ FileStep
    /\ \/ isolation = None /\ backup # None /\ NetshDone(FALSE)
       \/ isolation = None /\ backup = None /\ NetshDone(TRUE)
       \/ isolation # None /\ ~validateIsolationBackup /\ NetshDone(FALSE)
       \/ isolation # None /\ validateIsolationBackup /\ NetshGoto("import")

ReleaseImport ==
    /\ At("release", "import")
    /\ \/ Succeeds /\ Import /\ Goto("forget")
       \/ Fails /\ NetshDone(FALSE)
       \/ KilledAfterEffect /\ Import /\ Answer(FALSE)

ReleaseForget ==
    /\ At("release", "forget")
    /\ FileStep
    /\ \/ isolation' = None /\ Goto("drop")
       \/ isolation' = isolation /\ Answer(FALSE)
    /\ UNCHANGED <<policy, backup, owner, reverted, reapplied>>

ReleaseDrop ==
    /\ At("release", "drop")
    /\ FileStep
    /\ \/ backup' = None /\ Answer(TRUE)
       \/ backup' = backup /\ Answer(FALSE)
    /\ UNCHANGED <<policy, isolation, owner, reverted, reapplied>>

-----------------------------------------------------------------------------
(***************************************************************************)
(* Block and OpenPort: the same steps, but for the directions of the rule. *)
(***************************************************************************)
Directions == IF call.arg \in Addr THEN <<"in", "out">> ELSE <<"in">>

Named(name) == {r \in policy.rules : r[1] = call.arg /\ r[2] = name}

RuleLook ==
    /\ call.pc = "start"
    /\ FileStep
    /\ NetshGoto(IF owner[call.arg] = None THEN "save" ELSE "delete")

\* newWindowsBlockRuleName: a name no rule has had.
RuleSave ==
    /\ call.pc = "save"
    /\ FileStep
    /\ \/ owner' = [owner EXCEPT ![call.arg] = calls] /\ GotoFresh("delete")
       \/ owner' = [owner EXCEPT ![call.arg] = calls] /\ Answer(FALSE)
       \/ owner' = owner /\ Answer(FALSE)
    /\ UNCHANGED <<policy, isolation, backup, reverted, reapplied>>

\* A rule of the name is deleted before it is added, whatever comes of that.
RuleDelete ==
    /\ call.pc = "delete"
    /\ \/ /\ Succeeds \/ KilledAfterEffect
          /\ policy' = [policy EXCEPT !.rules = @ \ Named(owner[call.arg])]
       \/ Fails /\ policy' = policy
    /\ Goto("add")
    /\ UNCHANGED <<isolation, backup, owner, reverted, reapplied>>

\* One command per direction; the first that fails takes the rule away.
RuleAdd ==
    /\ call.pc = "add"
    /\ \E n \in 0..Len(Directions) :
         LET added == {<<call.arg, owner[call.arg], Directions[i]>> : i \in 1..n}
         IN  /\ n = 0 \/ ctx = "live"
             /\ policy' = [policy EXCEPT !.rules = @ \cup added]
             /\ \/ n = Len(Directions) /\ Succeeds /\ Answer(TRUE)
                \/ /\ \/ n < Len(Directions) /\ Fails
                      \/ n > 0 /\ KilledAfterEffect
                   /\ Goto("undo")
    /\ UNCHANGED <<isolation, backup, owner, reverted, reapplied>>

RuleUndo ==
    /\ call.pc = "undo"
    /\ \/ /\ Succeeds \/ KilledAfterEffect
          /\ policy' = [policy EXCEPT !.rules = @ \ Named(owner[call.arg])]
       \/ CleanupFails /\ policy' = policy
    /\ IF call.fresh THEN Goto("disown") ELSE Answer(FALSE)
    /\ UNCHANGED <<isolation, backup, owner, reverted, reapplied>>

RuleDisown ==
    /\ call.pc = "disown"
    /\ FileStep
    /\ owner' \in {owner, [owner EXCEPT ![call.arg] = None]}
    /\ Answer(FALSE)
    /\ UNCHANGED <<policy, isolation, backup, reverted, reapplied>>

-----------------------------------------------------------------------------
(***************************************************************************)
(* Unblock and ClosePort.                                                  *)
(***************************************************************************)
UnruleLook ==
    /\ call.pc = "start"
    /\ FileStep
    /\ IF owner[call.arg] = None THEN NetshDone(TRUE) ELSE NetshGoto("delete")

\* netsh fails when no rule has the name.
UnruleDelete ==
    /\ call.pc = "delete"
    /\ \/ Fails /\ policy' = policy /\ Answer(FALSE)
       \/ /\ Named(owner[call.arg]) # {}
          /\ policy' = [policy EXCEPT !.rules = @ \ Named(owner[call.arg])]
          /\ \/ Succeeds /\ Goto("disown")
             \/ KilledAfterEffect /\ Answer(FALSE)
    /\ UNCHANGED <<isolation, backup, owner, reverted, reapplied>>

UnruleDisown ==
    /\ call.pc = "disown"
    /\ FileStep
    /\ \/ owner' = [owner EXCEPT ![call.arg] = None] /\ Answer(TRUE)
       \/ owner' = owner /\ Answer(FALSE)
    /\ UNCHANGED <<policy, isolation, backup, reverted, reapplied>>

NetshRestart == Restarted /\ UNCHANGED netshVars

Isolate ==
    \/ IsolateLook \/ IsolateExport \/ IsolateSave \/ ApplyUnpass \/ ApplyPass
    \/ ApplyDNS \/ ApplyBlock \/ IsolateRollback \/ IsolateClear

Release == ReleaseLook \/ ReleaseImport \/ ReleaseForget \/ ReleaseDrop

AddsRule == RuleLook \/ RuleSave \/ RuleDelete \/ RuleAdd \/ RuleUndo \/ RuleDisown
DropsRule == UnruleLook \/ UnruleDelete \/ UnruleDisown

Block == call.pc # "idle" /\ call.op = "block" /\ AddsRule
OpenPort == call.pc # "idle" /\ call.op = "open" /\ AddsRule
Unblock == call.pc # "idle" /\ call.op = "unblock" /\ DropsRule
ClosePort == call.pc # "idle" /\ call.op = "close" /\ DropsRule

NetshStep == Isolate \/ Release \/ Block \/ OpenPort \/ Unblock \/ ClosePort \/ NetshRestart

-----------------------------------------------------------------------------
(***************************************************************************)
(* Whatever fails, is cut off or crashes: a host that is cut off has the   *)
(* state and the backup a release verifies, and the backup is a policy     *)
(* that is not cut off.                                                    *)
(***************************************************************************)
IsolationIsReversible ==
    policy.out = "block" => validateIsolationBackup /\ backup.out = "allow"

(***************************************************************************)
(* While a host is cut off the Control Plane and DNS can be reached, so    *)
(* that a release can arrive, unless isolate was run again on the isolated *)
(* host: applyIsolationPolicy then deletes the rule before it adds it, and *)
(* a failure in between is not rolled back.                                *)
(***************************************************************************)
ControlPathIsOpen ==
    policy.out = "block" /\ ~reapplied => policy.pass = {"control", "dns"}

(***************************************************************************)
(* Every rule of the Agent is the one the signed file of its target names, *)
(* so unblock and close can find it, unless the import of an isolation     *)
(* backup brought back or took away rules of that target, or a rollback    *)
(* did not happen.                                                         *)
(***************************************************************************)
RuleIsOwned ==
    ~unsettled => \A r \in policy.rules : r[1] \notin reverted => r[2] = owner[r[1]]

(***************************************************************************)
(* A success the Agent reports is so when it reports it.  Only unblock and *)
(* close, which take a missing file for a missing rule, can be wrong, with *)
(* the exceptions of RuleIsOwned.                                          *)
(***************************************************************************)
NetshAnswerIsTrue ==
    answer.ok =>
      CASE answer.op = "isolate" -> policy.out = "block" /\ policy.pass = {"control", "dns"}
        [] answer.op = "release" -> policy.out = "allow"
        [] answer.op \in {"block", "open"} ->
              \E r \in policy.rules : r[1] = answer.arg /\ r[2] = owner[answer.arg]
                                       /\ (answer.arg \in Addr => <<r[1], r[2], "out">> \in policy.rules)
        [] answer.op \in {"unblock", "close"} ->
              RulesOf(policy, answer.arg) # {} => unsettled \/ answer.arg \in reverted
        [] OTHER -> FALSE

=============================================================================
