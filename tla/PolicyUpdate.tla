---------------------------- MODULE PolicyUpdate ----------------------------
(***************************************************************************)
(* Signed policy distribution: the Control Plane's table of bundles        *)
(* (src/ntshield/policy_distribution.py) and the Agent's updater           *)
(* (agent/internal/policyupdate), which pulls the latest bundle, installs  *)
(* its policy file and then records the epoch in a signed state file, the  *)
(* rollback protection.                                                    *)
(*                                                                         *)
(* Both files are replaced by replaceFile: write path.new, move path to    *)
(* path.bak, move path.new to path, delete path.bak, chmod.  The process   *)
(* may crash between any two of these, and each may fail.  Bundles are     *)
(* authentic: signatures and digests are abstracted to the identity of the *)
(* bundle, except the digest of the policy file that the state holds.      *)
(***************************************************************************)
EXTENDS Naturals, FiniteSets

CONSTANTS Doc,        \* policy documents
          Default,    \* the policy file of a fresh installation
          MaxEpoch,   \* bound on epochs
          Publisher,  \* concurrent "ntshield publish-policy" commands
          MaxClock,   \* bound: the clock stops here
          Absent      \* "no such file"

VARIABLES
    published,  \* the rows of signed_policies of the Agent's tenant
    checked,    \* the bundle each publisher has checked and not yet inserted
    policy,     \* the policy file and its backup
    state,      \* the state file and its backup
    mem,        \* Manager.state
    job,        \* what the updater goroutine is doing
    up,         \* the Agent process is running
    clock,
    \* history variables
    highest,     \* the highest epoch Apply has reported as applied
    good,        \* the policy of the last successful Apply
    stateLost,   \* a crash found no state file although an epoch was applied
    interrupted, \* a crash fell into an Apply
    damaged,     \* a file operation failed after the point of no return
    refused      \* NewManager has refused to start

agentVars == <<policy, state, mem, job, up>>
histVars == <<highest, good, stateLost, interrupted, damaged, refused>>
policyVars == <<published, checked, agentVars, clock, histVars>>

-----------------------------------------------------------------------------
Bundle == [epoch : 1 .. MaxEpoch, doc : Doc, expires : 1 .. MaxClock,
           mine : BOOLEAN]   \* scope: "*" or a list with this Agent

State == [epoch : 0 .. MaxEpoch, doc : Doc]  \* doc stands for policy_digest

NoState == [epoch |-> 0, doc |-> Default]

StateOf(b) == [epoch |-> b.epoch, doc |-> b.doc]

File(S) == [path : S \cup {Absent}, bak : S \cup {Absent}]

IdleJob == [stage |-> "idle"]

Steps == {"write", "rotate", "install", "clean"}

Job == {IdleJob}
         \cup [stage : {"fetched"}, bundle : Bundle]
         \cup [stage : {"policy", "state", "restore"}, step : Steps,
               bundle : Bundle, previous : Doc \cup {Absent}]

ASSUME PolicyAssumption == /\ MaxEpoch \in Nat
                           /\ MaxClock \in Nat
                           /\ Default \in Doc
                           /\ Absent \notin Doc \cup State \cup Bundle

PolicyInit ==
    /\ published = {} /\ checked = [p \in Publisher |-> Absent]
    /\ policy = [path |-> Default, bak |-> Absent]
    /\ state = [path |-> Absent, bak |-> Absent]
    /\ mem = NoState /\ job = IdleJob /\ up = TRUE /\ clock = 0
    /\ highest = 0 /\ good = Default
    /\ stateLost = FALSE /\ interrupted = FALSE /\ damaged = FALSE /\ refused = FALSE

-----------------------------------------------------------------------------
(***************************************************************************)
(* The Control Plane.                                                      *)
(***************************************************************************)
Epochs == {b.epoch : b \in published}

\* publish: SELECT MAX(epoch) and its check ...
PublishCheck(p, b) ==
    /\ checked[p] = Absent
    /\ b.expires > clock
    /\ \A e \in Epochs : b.epoch > e
    /\ checked' = [checked EXCEPT ![p] = b]
    /\ UNCHANGED <<published, agentVars, clock, histVars>>

\* ... and INSERT, which only the primary key (tenant_id, epoch) can refuse.
PublishInsert(p) ==
    /\ checked[p] # Absent
    /\ published' = IF checked[p].epoch \in Epochs THEN published
                    ELSE published \cup {checked[p]}
    /\ checked' = [checked EXCEPT ![p] = Absent]
    /\ UNCHANGED <<agentVars, clock, histVars>>

Applicable == {b \in published : b.expires > clock /\ b.mine}

\* latest_for_agent: the highest epoch that has not expired and includes the Agent.
Latest == {b \in Applicable : \A other \in Applicable : other.epoch <= b.epoch}

-----------------------------------------------------------------------------
(***************************************************************************)
(* The Agent's updater.                                                    *)
(***************************************************************************)

\* Sync: Fetch.
FetchPolicy ==
    /\ up /\ job = IdleJob
    /\ \E b \in Latest : job' = [stage |-> "fetched", bundle |-> b]
    /\ UNCHANGED <<published, checked, policy, state, mem, up, clock, histVars>>

\* Mutant of Acceptable: the epoch is not compared.
AcceptableAnyEpoch(b) == b.expires > clock /\ b.mine

\* Apply up to its last early return: an expired, older, conflicting or already
\* applied bundle changes nothing.
Acceptable(b) == b.expires > clock /\ b.mine /\ b.epoch > mem.epoch

ApplyCheck ==
    /\ up /\ job.stage = "fetched"
    /\ job' = IF Acceptable(job.bundle)
              THEN [stage |-> "policy", step |-> "write", bundle |-> job.bundle,
                    previous |-> policy.path]
              ELSE IdleJob
    /\ UNCHANGED <<published, checked, policy, state, mem, up, clock, histVars>>

\* What replaceFile is writing, and the steps of Apply around it.
NextStage(stage, step) == job' = [job EXCEPT !.stage = stage, !.step = step]

\* replaceFile returned nil.
StageDone ==
    \/ /\ job.stage = "policy"
       /\ NextStage("state", "write")
       /\ UNCHANGED <<mem, highest, good>>
    \/ /\ job.stage = "state"
       /\ mem' = StateOf(job.bundle)
       /\ highest' = IF job.bundle.epoch > highest THEN job.bundle.epoch ELSE highest
       /\ good' = job.bundle.doc
       /\ job' = IdleJob
    \/ /\ job.stage = "restore"
       /\ job' = IdleJob
       /\ UNCHANGED <<mem, highest, good>>

\* Mutant of StageFailed: the previous policy is not put back.
StageFailedNoRestore == job' = IdleJob /\ UNCHANGED <<mem, highest, good>>

\* replaceFile returned an error: if it was saveState's, Apply puts the previous
\* policy back.
StageFailed ==
    /\ IF job.stage = "state" THEN NextStage("restore", "write") ELSE job' = IdleJob
    /\ UNCHANGED <<mem, highest, good>>

\* One step of replaceFile on a file f whose new content is new; the file after
\* the step is f'.
ReplaceStep(f, fNext, new, ok, restored) ==
    \/ /\ job.step = "write"
       /\ fNext = f
       /\ IF ok THEN NextStage(job.stage, "rotate") /\ UNCHANGED <<mem, highest, good>>
                ELSE StageFailed
    \/ /\ job.step = "rotate"
       /\ IF ok \/ f.path = Absent
          THEN /\ fNext = [path |-> Absent, bak |-> f.path]
               /\ NextStage(job.stage, "install")
               /\ UNCHANGED <<mem, highest, good>>
          ELSE fNext = [f EXCEPT !.bak = Absent] /\ StageFailed
    \/ /\ job.step = "install"
       /\ IF ok
          THEN /\ fNext = [f EXCEPT !.path = new]
               /\ NextStage(job.stage, "clean")
               /\ UNCHANGED <<mem, highest, good>>
          ELSE /\ fNext = IF restored THEN [path |-> f.bak, bak |-> Absent] ELSE f
               /\ StageFailed
    \/ /\ job.step = "clean"
       /\ fNext = [f EXCEPT !.bak = Absent]
       /\ IF ok THEN StageDone ELSE StageFailed

\* A failure that leaves other contents than before: the undo failed, the new
\* file is in place although chmod failed, or the restore itself failed.
Damaging(ok, restored) ==
    /\ ~ok
    /\ \/ job.step = "install" /\ ~restored
       \/ job.step = "clean"
       \/ job.stage = "restore"

\* Replacing the policy file, by the new policy or, after a failed saveState, by
\* the previous one (which is removed if there was none).
WritePolicy(ok, restored) ==
    /\ up /\ job.stage \in {"policy", "restore"}
    /\ IF job.stage = "restore" /\ job.previous = Absent
       THEN /\ policy' = IF ok THEN [policy EXCEPT !.path = Absent] ELSE policy
            /\ job' = IdleJob
            /\ UNCHANGED <<mem, highest, good>>
       ELSE ReplaceStep(policy, policy',
                        IF job.stage = "policy" THEN job.bundle.doc ELSE job.previous,
                        ok, restored)
    /\ damaged' = (damaged \/ Damaging(ok, restored))
    /\ UNCHANGED <<published, checked, state, up, clock, stateLost, interrupted, refused>>

\* saveState.
WriteState(ok, restored) ==
    /\ up /\ job.stage = "state"
    /\ ReplaceStep(state, state', StateOf(job.bundle), ok, restored)
    /\ damaged' = (damaged \/ Damaging(ok, restored))
    /\ UNCHANGED <<published, checked, policy, up, clock, stateLost, interrupted, refused>>

PolicyCrash ==
    /\ up
    /\ up' = FALSE
    /\ mem' = NoState /\ job' = IdleJob
    /\ interrupted' = (interrupted \/ job.stage \in {"policy", "state", "restore"})
    /\ stateLost' = (stateLost \/ (highest > 0 /\ state.path = Absent))
    /\ UNCHANGED <<published, checked, policy, state, clock, highest, good, damaged, refused>>

\* Mutant of Startable: a missing state file is an error too.
StartableWithState == state.path # Absent /\ policy.path = state.path.doc

\* NewManager and loadState: without a state file there is no rollback state;
\* with one, the policy file must be the one it was written for.
Startable == state.path = Absent \/ policy.path = state.path.doc

\* Mutant of PolicyRestart: a missing state file is not told apart.
PolicyRestartBlind ==
    /\ ~up /\ Startable
    /\ up' = TRUE
    /\ mem' = state.path
    /\ UNCHANGED <<published, checked, policy, state, job, clock,
                   highest, good, stateLost, interrupted, damaged, refused>>

PolicyRestart ==
    /\ ~up
    /\ IF Startable
       THEN /\ up' = TRUE
            /\ mem' = IF state.path = Absent THEN NoState ELSE state.path
            /\ UNCHANGED refused
       ELSE refused' = TRUE /\ UNCHANGED <<up, mem>>
    /\ UNCHANGED <<published, checked, policy, state, job, clock,
                   highest, good, stateLost, interrupted, damaged>>

PolicyTick ==
    /\ clock < MaxClock
    /\ clock' = clock + 1
    /\ UNCHANGED <<published, checked, agentVars, histVars>>

PolicyNext ==
    \/ \E p \in Publisher : PublishInsert(p) \/ \E b \in Bundle : PublishCheck(p, b)
    \/ FetchPolicy
    \/ ApplyCheck
    \/ \E ok, restored \in BOOLEAN : WritePolicy(ok, restored) \/ WriteState(ok, restored)
    \/ PolicyCrash
    \/ PolicyRestart
    \/ PolicyTick

PolicySpec == PolicyInit /\ [][PolicyNext]_policyVars

-----------------------------------------------------------------------------
(***************************************************************************)
(* Properties.                                                             *)
(***************************************************************************)
Applying == job.stage \in {"policy", "state", "restore"}

PolicyTypeOK ==
    /\ published \subseteq Bundle
    /\ checked \in [Publisher -> Bundle \cup {Absent}]
    /\ policy \in File(Doc)
    /\ state \in File(State)
    /\ mem \in State
    /\ job \in Job
    /\ up \in BOOLEAN
    /\ clock \in 0 .. MaxClock
    /\ highest \in 0 .. MaxEpoch
    /\ good \in Doc
    /\ {stateLost, interrupted, damaged, refused} \subseteq BOOLEAN

(***************************************************************************)
(* Rollback protection through crashes and failing writes: Apply installs  *)
(* only a bundle of a higher epoch than every one it ever reported as      *)
(* applied, unless a crash found no state file between the two renames of  *)
(* replaceFile (or after both the second one and its undo failed).         *)
(***************************************************************************)
NoRollback == Applying => job.bundle.epoch > highest \/ stateLost

(***************************************************************************)
(* Last-known-good: whenever no Apply is in progress, the policy file is   *)
(* that of the last Apply that succeeded, however the failed ones ended,   *)
(* unless a crash interrupted one or an undo failed too.                   *)
(***************************************************************************)
LastKnownGood == ~Applying => policy.path = good \/ interrupted \/ damaged

(***************************************************************************)
(* The updater refuses to start (and with it the Agent, main.go:68) only   *)
(* after a crash inside an Apply or a failed undo.                         *)
(***************************************************************************)
RefusedOnlyAfterTornApply == refused => interrupted \/ damaged

(***************************************************************************)
(* The inductive invariant behind them.                                    *)
(*                                                                         *)
(* Rollback protection: unless a crash lost it, everything that can become *)
(* the state in memory, the state file and its backup, is at or above the  *)
(* highest applied epoch, and the bundle being applied is above it.        *)
(***************************************************************************)
NotRunning == ~up => job = IdleJob

EpochsKept ==
    \/ stateLost
    \/ /\ up => mem.epoch >= highest
       /\ state.path # Absent => state.path.epoch >= highest
       /\ state.bak # Absent => state.bak.epoch >= highest
       /\ ~up /\ state.path = Absent => highest = 0
       /\ Applying => job.bundle.epoch > highest

NewStateInPlace ==
    job.stage = "state" /\ job.step = "clean" => state.path = StateOf(job.bundle)

(***************************************************************************)
(* Last-known-good: where the contents of the last good policy and of the  *)
(* state that vouches for it are during each step of an Apply that no      *)
(* crash and no failed undo has disturbed.                                 *)
(***************************************************************************)
StateVouches(s) == s # Absent => s.doc = good

At(stage, steps) == job.stage = stage /\ job.step \in steps

GoodPolicyKept ==
    /\ ~Applying \/ At("policy", {"write", "rotate"}) => policy.path = good
    /\ At("policy", {"install"}) => policy.bak = good
    /\ At("policy", {"clean"}) \/ job.stage = "state" => policy.path = job.bundle.doc
    /\ At("restore", {"clean"}) => policy.path = good

GoodStateKept ==
    /\ job.stage # "state" \/ At("state", {"write", "rotate"}) => StateVouches(state.path)
    /\ At("state", {"install"}) => state.path = Absent /\ StateVouches(state.bak)

GoodKept ==
    \/ interrupted \/ damaged
    \/ /\ Applying => job.previous = good
       /\ GoodPolicyKept
       /\ GoodStateKept

PolicyIInv == /\ PolicyTypeOK
              /\ NotRunning
              /\ EpochsKept
              /\ NewStateInPlace
              /\ GoodKept
              /\ RefusedOnlyAfterTornApply

=============================================================================
