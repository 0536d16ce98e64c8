------------------------- MODULE PolicyUpdateProofs -------------------------
(***************************************************************************)
(* Proofs about PolicyUpdate, for every set of documents and publishers    *)
(* and every bound: the types, rollback protection, last-known-good and    *)
(* the start-up check.                                                     *)
(***************************************************************************)
EXTENDS PolicyUpdate, TLAPS

ApplyJob == [stage : {"policy", "state", "restore"}, step : Steps,
             bundle : Bundle, previous : Doc \cup {Absent}]

\* A job that applies a bundle has a step, a bundle and a previous policy.
LEMMA ApplyingShape ==
    ASSUME PolicyTypeOK, Applying
    PROVE  job \in ApplyJob
  BY DEF PolicyTypeOK, Applying, Job, IdleJob, ApplyJob

\* Moving on to another stage or step keeps the bundle and the previous policy.
LEMMA NextStageShape ==
    ASSUME PolicyTypeOK, Applying,
           NEW stage \in {"policy", "state", "restore"}, NEW step \in Steps,
           NextStage(stage, step)
    PROVE  /\ job' \in Job
           /\ job'.stage = stage /\ job'.step = step
           /\ job'.bundle = job.bundle /\ job'.previous = job.previous
<1>1. job \in ApplyJob
  BY ApplyingShape
<1>2. job' \in ApplyJob
  BY <1>1 DEF NextStage, ApplyJob
<1> QED
  BY <1>1, <1>2 DEF NextStage, ApplyJob, Job

\* The state that vouches for a bundle is a state.
LEMMA StateOfType ==
    ASSUME NEW b \in Bundle
    PROVE  /\ StateOf(b) \in State
           /\ StateOf(b).epoch = b.epoch /\ StateOf(b).doc = b.doc
           /\ b.epoch \in 1 .. MaxEpoch /\ b.doc \in Doc
  BY PolicyAssumption DEF StateOf, State, Bundle

\* The types of what Apply does when replaceFile has succeeded ...
LEMMA StageDoneTypes ==
    ASSUME PolicyTypeOK, Applying, StageDone
    PROVE  job' \in Job /\ mem' \in State /\ highest' \in 0 .. MaxEpoch /\ good' \in Doc
<1>1. job.bundle \in Bundle
  BY ApplyingShape DEF ApplyJob
<1>2. CASE job.stage = "policy"
  <2>1. NextStage("state", "write") /\ UNCHANGED <<mem, highest, good>>
    BY <1>2 DEF StageDone
  <2> QED
    BY <2>1, NextStageShape DEF PolicyTypeOK, Steps
<1>3. CASE job.stage = "state"
  BY <1>1, <1>3, StateOfType, PolicyAssumption DEF StageDone, PolicyTypeOK, Job
<1>4. CASE job.stage = "restore"
  BY <1>4 DEF StageDone, PolicyTypeOK, Job
<1> QED
  BY <1>2, <1>3, <1>4 DEF Applying

\* ... or failed.
LEMMA StageFailedTypes ==
    ASSUME PolicyTypeOK, Applying, StageFailed
    PROVE  job' \in Job /\ UNCHANGED <<mem, highest, good>>
<1>1. CASE job.stage = "state"
  BY <1>1, NextStageShape DEF StageFailed, Steps
<1>2. CASE job.stage # "state"
  BY <1>2 DEF StageFailed, Job
<1> QED
  BY <1>1, <1>2

\* One step of replaceFile leaves a file and a job.
LEMMA ReplaceStepTypes ==
    ASSUME PolicyTypeOK, Applying,
           NEW S, NEW f \in File(S), NEW g, NEW new \in S,
           NEW ok \in BOOLEAN, NEW restored \in BOOLEAN,
           ReplaceStep(f, g, new, ok, restored)
    PROVE  /\ g \in File(S)
           /\ job' \in Job /\ mem' \in State /\ highest' \in 0 .. MaxEpoch /\ good' \in Doc
<1> DEFINE Typed == job' \in Job /\ mem' \in State /\ highest' \in 0 .. MaxEpoch /\ good' \in Doc
<1>0. job.stage \in {"policy", "state", "restore"} /\ "rotate" \in Steps /\ "install" \in Steps
         /\ "clean" \in Steps
  BY DEF Applying, Steps
<1>1. mem \in State /\ highest \in 0 .. MaxEpoch /\ good \in Doc
  BY DEF PolicyTypeOK
<1>2. StageFailed => Typed
  BY <1>1, StageFailedTypes
<1>3. StageDone => Typed
  BY StageDoneTypes
<1>4. ASSUME NEW step \in {"rotate", "install", "clean"}, NextStage(job.stage, step),
             UNCHANGED <<mem, highest, good>>
      PROVE  Typed
  BY <1>0, <1>1, <1>4, NextStageShape
<1>5. f.path \in S \cup {Absent} /\ f.bak \in S \cup {Absent}
  BY DEF File
<1> HIDE DEF Typed
<1>6. ASSUME job.step = "write" PROVE Typed /\ g \in File(S)
  BY <1>2, <1>4, <1>6 DEF ReplaceStep
<1>7. ASSUME job.step = "rotate" PROVE Typed /\ g \in File(S)
  BY <1>2, <1>4, <1>5, <1>7 DEF ReplaceStep, File
<1>8. ASSUME job.step = "install" PROVE Typed /\ g \in File(S)
  BY <1>2, <1>4, <1>5, <1>8 DEF ReplaceStep, File
<1>9. ASSUME job.step = "clean" PROVE Typed /\ g \in File(S)
  BY <1>2, <1>3, <1>5, <1>9 DEF ReplaceStep, File
<1>10. Typed /\ g \in File(S)
  BY <1>6, <1>7, <1>8, <1>9 DEF ReplaceStep
<1> QED
  BY <1>10 DEF Typed

-----------------------------------------------------------------------------
\* The types of the two actions that replace a file.
LEMMA WritePolicyTypes ==
    ASSUME PolicyTypeOK, NEW ok \in BOOLEAN, NEW restored \in BOOLEAN,
           WritePolicy(ok, restored)
    PROVE  PolicyTypeOK'
<1>1. Applying
  BY DEF WritePolicy, Applying
<1>2. job \in ApplyJob
  BY <1>1, ApplyingShape
<1>3. policy \in File(Doc)
  BY DEF PolicyTypeOK
<1>4. /\ policy' \in File(Doc)
      /\ job' \in Job /\ mem' \in State /\ highest' \in 0 .. MaxEpoch /\ good' \in Doc
  <2>1. CASE job.stage = "restore" /\ job.previous = Absent
    BY <1>3, <2>1 DEF WritePolicy, File, Job, PolicyTypeOK
  <2>2. CASE ~(job.stage = "restore" /\ job.previous = Absent)
    <3> DEFINE new == IF job.stage = "policy" THEN job.bundle.doc ELSE job.previous
    <3>1. ReplaceStep(policy, policy', new, ok, restored)
      BY <2>2 DEF WritePolicy
    <3>2. new \in Doc
      BY <1>2, <2>2 DEF WritePolicy, ApplyJob, Bundle
    <3> HIDE DEF new
    <3> QED
      BY <1>1, <1>3, <3>1, <3>2, ReplaceStepTypes
  <2> QED
    BY <2>1, <2>2
<1>5. /\ UNCHANGED <<published, checked, state, up, clock, stateLost, interrupted, refused>>
      /\ damaged' \in BOOLEAN
  BY DEF WritePolicy, Damaging, PolicyTypeOK
<1> QED
  BY <1>4, <1>5 DEF PolicyTypeOK

\* Writing the state file keeps the types, whatever fails on the way.
LEMMA WriteStateTypes ==
    ASSUME PolicyTypeOK, NEW ok \in BOOLEAN, NEW restored \in BOOLEAN,
           WriteState(ok, restored)
    PROVE  PolicyTypeOK'
<1>1. Applying
  BY DEF WriteState, Applying
<1>2. StateOf(job.bundle) \in State
  BY <1>1, ApplyingShape, StateOfType DEF ApplyJob
<1>3. state \in File(State)
  BY DEF PolicyTypeOK
<1>4. ReplaceStep(state, state', StateOf(job.bundle), ok, restored)
  BY DEF WriteState
<1>5. /\ state' \in File(State)
      /\ job' \in Job /\ mem' \in State /\ highest' \in 0 .. MaxEpoch /\ good' \in Doc
  BY <1>1, <1>2, <1>3, <1>4, ReplaceStepTypes
<1>6. /\ UNCHANGED <<published, checked, policy, up, clock, stateLost, interrupted, refused>>
      /\ damaged' \in BOOLEAN
  BY DEF WriteState, Damaging, PolicyTypeOK
<1> QED
  BY <1>5, <1>6 DEF PolicyTypeOK

(***************************************************************************)
(* The variables keep their types; in particular the state in memory and   *)
(* in the file is always one that Apply wrote or that of a fresh           *)
(* installation.                                                           *)
(***************************************************************************)
THEOREM PolicyTypeCorrect == PolicySpec => []PolicyTypeOK
<1>1. PolicyInit => PolicyTypeOK
  <2> SUFFICES ASSUME PolicyInit PROVE PolicyTypeOK
    OBVIOUS
  <2>1. 0 \in 0 .. MaxClock /\ 0 \in 0 .. MaxEpoch /\ Default \in Doc
    BY PolicyAssumption
  <2>2. NoState \in State
    BY <2>1 DEF NoState, State
  <2> QED
    BY <2>1, <2>2 DEF PolicyInit, PolicyTypeOK, File, Job
<1>2. PolicyTypeOK /\ [PolicyNext]_policyVars => PolicyTypeOK'
  <2> SUFFICES ASSUME PolicyTypeOK, [PolicyNext]_policyVars
               PROVE  PolicyTypeOK'
    OBVIOUS
  <2>1. ASSUME NEW p \in Publisher, PublishInsert(p)
        PROVE  PolicyTypeOK'
    <3>1. checked[p] \in Bundle
      BY <2>1 DEF PublishInsert, PolicyTypeOK
    <3> QED
      BY <2>1, <3>1 DEF PublishInsert, PolicyTypeOK, agentVars, histVars
  <2>2. ASSUME NEW p \in Publisher, NEW b \in Bundle, PublishCheck(p, b)
        PROVE  PolicyTypeOK'
    BY <2>2 DEF PublishCheck, PolicyTypeOK, agentVars, histVars
  <2>3. ASSUME FetchPolicy
        PROVE  PolicyTypeOK'
    <3>1. PICK b \in Latest : job' = [stage |-> "fetched", bundle |-> b]
      BY <2>3 DEF FetchPolicy
    <3>2. b \in Bundle
      BY DEF Latest, Applicable, PolicyTypeOK
    <3>3. job' \in Job
      BY <3>1, <3>2 DEF Job
    <3> QED
      BY <2>3, <3>3 DEF FetchPolicy, PolicyTypeOK, histVars
  <2>4. ASSUME ApplyCheck
        PROVE  PolicyTypeOK'
    <3>1. job.bundle \in Bundle
      BY <2>4 DEF ApplyCheck, PolicyTypeOK, Job, IdleJob
    <3>2. policy.path \in Doc \cup {Absent}
      BY DEF PolicyTypeOK, File
    <3>3. job' \in Job
      BY <2>4, <3>1, <3>2 DEF ApplyCheck, Job, Steps
    <3> QED
      BY <2>4, <3>3 DEF ApplyCheck, PolicyTypeOK, histVars
  <2>5. ASSUME NEW ok \in BOOLEAN, NEW restored \in BOOLEAN,
               WritePolicy(ok, restored) \/ WriteState(ok, restored)
        PROVE  PolicyTypeOK'
    BY <2>5, WritePolicyTypes, WriteStateTypes
  <2>6. ASSUME PolicyCrash
        PROVE  PolicyTypeOK'
    <3>1. NoState \in State
      BY PolicyAssumption DEF NoState, State
    <3> QED
      BY <2>6, <3>1 DEF PolicyCrash, PolicyTypeOK, Job
  <2>7. ASSUME PolicyRestart
        PROVE  PolicyTypeOK'
    <3>1. NoState \in State
      BY PolicyAssumption DEF NoState, State
    <3>2. state.path \in State \cup {Absent}
      BY DEF PolicyTypeOK, File
    <3> QED
      BY <2>7, <3>1, <3>2 DEF PolicyRestart, PolicyTypeOK
  <2>8. ASSUME PolicyTick
        PROVE  PolicyTypeOK'
    BY <2>8, PolicyAssumption DEF PolicyTick, PolicyTypeOK, agentVars, histVars
  <2>9. ASSUME UNCHANGED policyVars
        PROVE  PolicyTypeOK'
    BY <2>9 DEF policyVars, agentVars, histVars, PolicyTypeOK
  <2> QED
    BY <2>1, <2>2, <2>3, <2>4, <2>5, <2>6, <2>7, <2>8, <2>9 DEF PolicyNext
<1> QED
  BY <1>1, <1>2, PTL DEF PolicySpec

-----------------------------------------------------------------------------
\* Where Apply goes on after a failed replaceFile.
LEMMA StageFailedEffect ==
    ASSUME PolicyTypeOK, Applying, StageFailed
    PROVE  /\ UNCHANGED <<mem, highest, good>>
           /\ job.stage = "state" =>
                 /\ job'.stage = "restore" /\ job'.step = "write"
                 /\ job'.bundle = job.bundle /\ job'.previous = job.previous
           /\ job.stage # "state" => job' = IdleJob
<1>1. CASE job.stage = "state"
  BY <1>1, NextStageShape DEF StageFailed, Steps
<1>2. CASE job.stage # "state"
  BY <1>2 DEF StageFailed
<1> QED
  BY <1>1, <1>2

\* Replacing the policy file leaves memory, the highest epoch and the last good
\* policy alone, and Apply ends or goes on with the same bundle.
LEMMA WritePolicyEffect ==
    ASSUME PolicyTypeOK, NEW ok \in BOOLEAN, NEW restored \in BOOLEAN,
           WritePolicy(ok, restored)
    PROVE  /\ UNCHANGED <<mem, highest, good, state, up, stateLost, interrupted, refused>>
           /\ \/ job' = IdleJob
              \/ /\ job'.bundle = job.bundle /\ job'.previous = job.previous
                 /\ job'.stage \in {"policy", "state", "restore"}
                 /\ job'.stage = "state" => job'.step = "write"
<1>1. Applying /\ job.stage \in {"policy", "restore"}
  BY DEF WritePolicy, Applying
<1>2. UNCHANGED <<state, up, stateLost, interrupted, refused>>
  BY DEF WritePolicy
<1> DEFINE Goes == /\ UNCHANGED <<mem, highest, good>>
                   /\ \/ job' = IdleJob
                      \/ /\ job'.bundle = job.bundle /\ job'.previous = job.previous
                         /\ job'.stage \in {"policy", "state", "restore"}
                         /\ job'.stage = "state" => job'.step = "write"
<1>3. StageFailed => Goes
  BY <1>1, StageFailedEffect
<1>4. StageDone => Goes
  <2>1. NextStage("state", "write") /\ UNCHANGED <<mem, highest, good>> => Goes
    BY <1>1, NextStageShape DEF Steps
  <2> QED
    BY <1>1, <2>1 DEF StageDone
<1>5. ASSUME NEW step \in {"rotate", "install", "clean"}, NextStage(job.stage, step),
             UNCHANGED <<mem, highest, good>>
      PROVE  Goes
  BY <1>1, <1>5, NextStageShape DEF Steps
<1>6. job' = IdleJob /\ UNCHANGED <<mem, highest, good>> => Goes
  OBVIOUS
<1> HIDE DEF Goes
<1>7. Goes
  BY <1>3, <1>4, <1>5, <1>6 DEF WritePolicy, ReplaceStep
<1> QED
  BY <1>2, <1>7 DEF Goes

\* What one step of saveState does, by the step it is at.
LEMMA WriteStateEffect ==
    ASSUME PolicyTypeOK, NEW ok \in BOOLEAN, NEW restored \in BOOLEAN,
           WriteState(ok, restored)
    PROVE  /\ Applying /\ job.stage = "state"
           /\ UNCHANGED <<policy, up, stateLost, interrupted, refused>>
           /\ \/ /\ job'.stage = "restore" /\ job'.step = "write"
                 /\ job'.bundle = job.bundle /\ job'.previous = job.previous
                 /\ UNCHANGED <<mem, highest, good>>
                 /\ ~ok
                 /\ \/ job.step \in {"write", "rotate"} /\ state'.path = state.path
                    \/ job.step = "install" /\ restored /\ state'.path = state.bak
                    \/ /\ job.step = "install" /\ ~restored
                       /\ state'.path = state.path
                    \/ job.step = "clean" /\ state'.path = state.path
                 /\ state'.bak \in {Absent, state.bak}
              \/ /\ job'.stage = "state"
                 /\ job'.bundle = job.bundle /\ job'.previous = job.previous
                 /\ UNCHANGED <<mem, highest, good>>
                 /\ \/ job.step = "write" /\ job'.step = "rotate" /\ state' = state
                    \/ /\ job.step = "rotate" /\ job'.step = "install"
                       /\ state'.path = Absent /\ state'.bak = state.path
                    \/ /\ job.step = "install" /\ job'.step = "clean"
                       /\ state'.path = StateOf(job.bundle) /\ state'.bak = state.bak
              \/ /\ job.step = "clean" /\ job' = IdleJob
                 /\ state'.path = state.path /\ state'.bak = Absent
                 /\ mem' = StateOf(job.bundle) /\ good' = job.bundle.doc
                 /\ highest' = IF job.bundle.epoch > highest THEN job.bundle.epoch
                                                            ELSE highest
<1>1. /\ Applying /\ job.stage = "state"
      /\ UNCHANGED <<policy, up, stateLost, interrupted, refused>>
      /\ ReplaceStep(state, state', StateOf(job.bundle), ok, restored)
  BY DEF WriteState, Applying
<1>2. state \in File(State)
  BY DEF PolicyTypeOK
<1>3. StageFailed => /\ job'.stage = "restore" /\ job'.step = "write"
                     /\ job'.bundle = job.bundle /\ job'.previous = job.previous
                     /\ UNCHANGED <<mem, highest, good>>
  BY <1>1, StageFailedEffect
<1>4. ASSUME NEW step \in {"rotate", "install", "clean"}, NextStage(job.stage, step)
      PROVE  /\ job'.stage = "state" /\ job'.step = step
             /\ job'.bundle = job.bundle /\ job'.previous = job.previous
  BY <1>1, <1>4, NextStageShape DEF Steps
<1>5. StageDone => /\ job' = IdleJob
                   /\ mem' = StateOf(job.bundle) /\ good' = job.bundle.doc
                   /\ highest' = IF job.bundle.epoch > highest THEN job.bundle.epoch
                                                              ELSE highest
  BY <1>1 DEF StageDone
<1>6. CASE job.step = "write"
  BY <1>1, <1>2, <1>3, <1>4, <1>6 DEF ReplaceStep, File
<1>7. CASE job.step = "rotate"
  BY <1>1, <1>2, <1>3, <1>4, <1>7 DEF ReplaceStep, File
<1>8. CASE job.step = "install"
  BY <1>1, <1>2, <1>3, <1>4, <1>8 DEF ReplaceStep, File
<1>9. CASE job.step = "clean"
  BY <1>1, <1>2, <1>3, <1>5, <1>9 DEF ReplaceStep, File
<1> QED
  BY <1>1, <1>6, <1>7, <1>8, <1>9 DEF ReplaceStep

-----------------------------------------------------------------------------
(***************************************************************************)
(* Rollback protection.                                                    *)
(***************************************************************************)
RollbackInv == NotRunning /\ EpochsKept /\ NewStateInPlace

\* Nothing has been applied at first.
LEMMA InitRollback == PolicyInit => RollbackInv
  BY PolicyAssumption DEF PolicyInit, RollbackInv, NotRunning, EpochsKept, NewStateInPlace,
     IdleJob, NoState, Applying

\* Apply starts only for a bundle above the epoch in memory.
LEMMA ApplyCheckRollback ==
    ASSUME PolicyTypeOK, RollbackInv, ApplyCheck
    PROVE  RollbackInv'
<1>1. /\ mem.epoch \in 0 .. MaxEpoch /\ highest \in 0 .. MaxEpoch /\ MaxEpoch \in Nat
      /\ job.bundle.epoch \in 1 .. MaxEpoch
  BY PolicyAssumption DEF PolicyTypeOK, State, Job, IdleJob, ApplyCheck, Bundle
<1>2. up /\ up' /\ UNCHANGED <<state, mem, highest, stateLost>>
  BY DEF ApplyCheck, histVars
<1>3. CASE Acceptable(job.bundle)
  <2>1. /\ job'.stage = "policy" /\ job'.bundle = job.bundle
        /\ job.bundle.epoch > mem.epoch
    BY <1>3 DEF ApplyCheck, Acceptable
  <2> QED
    BY <1>1, <1>2, <2>1 DEF RollbackInv, NotRunning, EpochsKept, NewStateInPlace, Applying
<1>4. CASE ~Acceptable(job.bundle)
  <2>1. job' = IdleJob
    BY <1>4 DEF ApplyCheck
  <2> QED
    BY <1>2, <2>1 DEF RollbackInv, NotRunning, EpochsKept, NewStateInPlace, Applying, IdleJob
<1> QED
  BY <1>3, <1>4

\* Writing the policy file changes neither the state file nor the epoch in
\* memory.
LEMMA WritePolicyRollback ==
    ASSUME PolicyTypeOK, RollbackInv, NEW ok \in BOOLEAN, NEW restored \in BOOLEAN,
           WritePolicy(ok, restored)
    PROVE  RollbackInv'
<1>1. Applying /\ up
  BY DEF WritePolicy, Applying
<1>2. /\ UNCHANGED <<mem, highest, good, state, up, stateLost, interrupted, refused>>
      /\ \/ job' = IdleJob
         \/ /\ job'.bundle = job.bundle
            /\ job'.stage \in {"policy", "state", "restore"}
            /\ job'.stage = "state" => job'.step = "write"
  BY WritePolicyEffect
<1> QED
  BY <1>1, <1>2 DEF RollbackInv, NotRunning, EpochsKept, NewStateInPlace, Applying, IdleJob

\* The state file is replaced by one of a higher epoch, or the old one is put back;
\* the highest epoch rises only when the new one is in place and its backup gone.
LEMMA WriteStateRollback ==
    ASSUME PolicyTypeOK, RollbackInv, NEW ok \in BOOLEAN, NEW restored \in BOOLEAN,
           WriteState(ok, restored)
    PROVE  RollbackInv'
<1>1. /\ Applying /\ up /\ up' /\ stateLost' = stateLost /\ job.stage = "state"
  BY WriteStateEffect DEF WriteState
<1>2. job.bundle \in Bundle
  BY <1>1, ApplyingShape DEF ApplyJob
<1>3. /\ StateOf(job.bundle).epoch = job.bundle.epoch
      /\ job.bundle.epoch \in 1 .. MaxEpoch
      /\ highest \in 0 .. MaxEpoch /\ MaxEpoch \in Nat
  BY <1>2, StateOfType, PolicyAssumption DEF PolicyTypeOK
<1>4. stateLost \/ job.bundle.epoch > highest
  BY <1>1 DEF RollbackInv, EpochsKept
<1>5. CASE job'.stage = "restore" /\ UNCHANGED <<mem, highest, good>>
  <2>1. /\ job'.bundle = job.bundle
        /\ state'.path \in {state.path, state.bak} /\ state'.bak \in {Absent, state.bak}
    BY <1>5, WriteStateEffect DEF IdleJob
  <2> QED
    BY <1>1, <1>5, <2>1 DEF RollbackInv, NotRunning, EpochsKept, NewStateInPlace, Applying
<1>6. CASE job'.stage = "state"
  <2>1. /\ job'.bundle = job.bundle /\ UNCHANGED <<mem, highest, good>>
        /\ \/ job'.step = "rotate" /\ state' = state
           \/ job'.step = "install" /\ state'.path = Absent /\ state'.bak = state.path
           \/ /\ job'.step = "clean"
              /\ state'.path = StateOf(job.bundle) /\ state'.bak = state.bak
    BY <1>6, WriteStateEffect DEF IdleJob
  <2>2. NotRunning' /\ NewStateInPlace'
    BY <1>1, <1>6, <2>1 DEF NotRunning, NewStateInPlace
  <2>3. EpochsKept'
    BY <1>1, <1>3, <1>4, <1>6, <2>1 DEF RollbackInv, EpochsKept, Applying
  <2> QED
    BY <2>2, <2>3 DEF RollbackInv
<1>7. CASE job' = IdleJob
  <2>1. /\ job.step = "clean"
        /\ state'.path = state.path /\ state'.bak = Absent
        /\ mem' = StateOf(job.bundle)
        /\ highest' = IF job.bundle.epoch > highest THEN job.bundle.epoch ELSE highest
    BY <1>7, WriteStateEffect DEF IdleJob
  <2>2. state.path = StateOf(job.bundle)
    BY <1>1, <2>1 DEF RollbackInv, NewStateInPlace
  <2>3. NotRunning' /\ NewStateInPlace' /\ ~Applying'
    BY <1>7 DEF NotRunning, NewStateInPlace, IdleJob, Applying
  <2>4. EpochsKept'
    BY <1>1, <1>3, <1>4, <2>1, <2>2, <2>3 DEF EpochsKept
  <2> QED
    BY <2>3, <2>4 DEF RollbackInv
<1> QED
  BY <1>5, <1>6, <1>7, WriteStateEffect

\* A crash keeps the files, and notes a state file that is missing.
LEMMA CrashRollback ==
    ASSUME PolicyTypeOK, RollbackInv, PolicyCrash
    PROVE  RollbackInv'
<1>1. highest \in Nat
  BY PolicyAssumption DEF PolicyTypeOK
<1>2. job' = IdleJob /\ ~up' /\ UNCHANGED <<state, highest>>
  BY DEF PolicyCrash
<1>3. stateLost' = (stateLost \/ (highest > 0 /\ state.path = Absent))
  BY DEF PolicyCrash
<1>4. NotRunning' /\ NewStateInPlace' /\ ~Applying'
  BY <1>2 DEF NotRunning, NewStateInPlace, Applying, IdleJob
<1>5. EpochsKept'
  <2>1. CASE stateLost'
    BY <2>1 DEF EpochsKept
  <2>2. CASE ~stateLost'
    <3>1. ~stateLost /\ (state.path = Absent => ~(highest > 0))
      BY <1>3, <2>2
    <3>2. state.path = Absent => highest = 0
      BY <1>1, <3>1
    <3> QED
      BY <1>2, <1>4, <3>1, <3>2 DEF RollbackInv, EpochsKept
  <2> QED
    BY <2>1, <2>2
<1> QED
  BY <1>4, <1>5 DEF RollbackInv

\* A restart takes the epoch from the state file, if there is one.
LEMMA RestartRollback ==
    ASSUME PolicyTypeOK, RollbackInv, PolicyRestart
    PROVE  RollbackInv'
<1>1. job = IdleJob /\ ~up /\ UNCHANGED <<state, job, highest, stateLost>>
  BY DEF PolicyRestart, RollbackInv, NotRunning
<1>2. NotRunning' /\ NewStateInPlace' /\ ~Applying'
  BY <1>1 DEF NotRunning, NewStateInPlace, Applying, IdleJob
<1>3. EpochsKept'
  <2>1. CASE state.path = Absent
    <3>1. up' => mem' = NoState
      BY <1>1, <2>1 DEF PolicyRestart
    <3>2. NoState.epoch = 0
      BY DEF NoState
    <3> QED
      BY <1>1, <1>2, <2>1, <3>1, <3>2 DEF RollbackInv, EpochsKept
  <2>2. CASE state.path # Absent
    <3>1. up' => mem' = state.path
      BY <1>1, <2>2 DEF PolicyRestart
    <3> QED
      BY <1>1, <1>2, <2>2, <3>1 DEF RollbackInv, EpochsKept
  <2> QED
    BY <2>1, <2>2
<1> QED
  BY <1>2, <1>3 DEF RollbackInv

\* Every step keeps the rollback invariant.
LEMMA NextRollback ==
    ASSUME PolicyTypeOK, RollbackInv, [PolicyNext]_policyVars
    PROVE  RollbackInv'
<1>1. ASSUME UNCHANGED <<agentVars, histVars>>
      PROVE  RollbackInv'
  BY <1>1 DEF agentVars, histVars, RollbackInv, NotRunning, EpochsKept, NewStateInPlace,
     Applying
<1>2. ASSUME FetchPolicy
      PROVE  RollbackInv'
  BY <1>2 DEF FetchPolicy, histVars, RollbackInv, NotRunning, EpochsKept, NewStateInPlace,
     Applying
<1>3. ASSUME NEW p \in Publisher, PublishInsert(p) \/ \E b \in Bundle : PublishCheck(p, b)
      PROVE  RollbackInv'
  BY <1>1, <1>3 DEF PublishInsert, PublishCheck
<1> QED
  BY <1>1, <1>2, <1>3, ApplyCheckRollback, WritePolicyRollback, WriteStateRollback,
     CrashRollback, RestartRollback DEF PolicyNext, PolicyTick, policyVars

(***************************************************************************)
(* Rollback protection for any number of documents, epochs and publishers, *)
(* which may insert their epochs in any order: Apply installs only bundles *)
(* above every epoch ever applied, unless a crash found no state file.     *)
(***************************************************************************)
THEOREM PolicyNoRollback == PolicySpec => []NoRollback
<1>1. PolicyTypeOK /\ RollbackInv /\ [PolicyNext]_policyVars => RollbackInv'
  BY NextRollback
<1>2. RollbackInv => NoRollback
  BY DEF RollbackInv, EpochsKept, NoRollback
<1> QED
  BY <1>1, <1>2, InitRollback, PolicyTypeCorrect, PTL DEF PolicySpec

-----------------------------------------------------------------------------
(***************************************************************************)
(* Last-known-good and the start-up check.                                 *)
(***************************************************************************)
GoodInv == GoodKept /\ RefusedOnlyAfterTornApply

\* The default policy is in place at first, and is the good one.
LEMMA InitGood == PolicyInit => GoodInv
  BY DEF PolicyInit, GoodInv, GoodKept, GoodPolicyKept, GoodStateKept, At, StateVouches,
     RefusedOnlyAfterTornApply, IdleJob, Applying

\* Apply goes on with the policy in place as the one to put back.
LEMMA ApplyCheckGood ==
    ASSUME PolicyTypeOK, GoodInv, ApplyCheck
    PROVE  GoodInv'
<1>1. ~Applying /\ job.stage # "state" /\ UNCHANGED <<policy, state, histVars>>
  BY DEF ApplyCheck, Applying
<1>2. \/ job' = IdleJob
      \/ job'.stage = "policy" /\ job'.step = "write" /\ job'.previous = policy.path
  BY DEF ApplyCheck
<1> QED
  BY <1>1, <1>2 DEF GoodInv, GoodKept, GoodPolicyKept, GoodStateKept, At, StateVouches,
     RefusedOnlyAfterTornApply, IdleJob, Applying, histVars

\* Installing the new policy: the good one is in place, then in the backup, and
\* back in place if the step fails.
LEMMA WritePolicyGood ==
    ASSUME PolicyTypeOK, GoodInv, NEW ok \in BOOLEAN, NEW restored \in BOOLEAN,
           WritePolicy(ok, restored)
    PROVE  GoodInv'
<1>1. /\ Applying /\ job.stage \in {"policy", "restore"}
      /\ damaged' = (damaged \/ Damaging(ok, restored))
  BY DEF WritePolicy, Applying
<1>2. /\ UNCHANGED <<mem, highest, good, state, up, stateLost, interrupted, refused>>
      /\ \/ job' = IdleJob
         \/ /\ job'.bundle = job.bundle /\ job'.previous = job.previous
            /\ job'.stage \in {"policy", "state", "restore"}
            /\ job'.stage = "state" => job'.step = "write"
  BY WritePolicyEffect
<1>3. RefusedOnlyAfterTornApply'
  BY <1>1, <1>2 DEF GoodInv, RefusedOnlyAfterTornApply
<1>4. CASE interrupted \/ damaged \/ Damaging(ok, restored)
  BY <1>1, <1>2, <1>3, <1>4 DEF GoodInv, GoodKept
<1>5. CASE ~(interrupted \/ damaged \/ Damaging(ok, restored))
  <2>1. /\ job.previous = good /\ GoodPolicyKept /\ GoodStateKept
        /\ good \in Doc /\ good # Absent
        /\ policy \in File(Doc)
    BY <1>1, <1>5, PolicyAssumption DEF GoodInv, GoodKept, PolicyTypeOK
  <2>2. ReplaceStep(policy, policy',
                    IF job.stage = "policy" THEN job.bundle.doc ELSE job.previous,
                    ok, restored)
    BY <2>1 DEF WritePolicy
  <2>3. StageFailed => job' = IdleJob
    BY <1>1, StageFailedEffect
  <2>4. ASSUME NEW stage \in {"policy", "state", "restore"}, NEW step \in Steps,
               NextStage(stage, step)
        PROVE  job'.stage = stage /\ job'.step = step
    BY <1>1, <2>4, NextStageShape
  <2>5. {"write", "rotate", "install", "clean"} = Steps
    BY DEF Steps
  <2>6. GoodPolicyKept'
    <3>1. CASE job.step = "write"
      BY <1>1, <1>2, <1>5, <2>1, <2>2, <2>3, <2>4, <2>5, <3>1
         DEF ReplaceStep, GoodPolicyKept, At, Damaging, Applying, IdleJob
    <3>2. CASE job.step = "rotate"
      BY <1>1, <1>2, <1>5, <2>1, <2>2, <2>3, <2>4, <2>5, <3>2
         DEF ReplaceStep, GoodPolicyKept, At, Damaging, Applying, IdleJob, File
    <3>3. CASE job.step = "install"
      BY <1>1, <1>2, <1>5, <2>1, <2>2, <2>3, <2>4, <2>5, <3>3
         DEF ReplaceStep, GoodPolicyKept, At, Damaging, Applying, IdleJob, File
    <3>4. CASE job.step = "clean"
      <4>1. ok /\ StageDone /\ policy'.path = policy.path
        BY <1>5, <2>1, <2>2, <3>4 DEF ReplaceStep, Damaging, File
      <4> QED
        BY <1>1, <1>2, <2>1, <2>4, <2>5, <3>4, <4>1
           DEF StageDone, GoodPolicyKept, At, Applying, IdleJob
    <3> QED
      BY <2>2, <3>1, <3>2, <3>3, <3>4 DEF ReplaceStep
  <2>7. GoodStateKept'
    BY <1>1, <1>2, <2>1 DEF GoodStateKept, At, StateVouches, IdleJob
  <2>8. Applying' => job'.previous = good'
    BY <1>2, <2>1 DEF Applying, IdleJob
  <2> QED
    BY <1>3, <2>6, <2>7, <2>8 DEF GoodInv, GoodKept
<1> QED
  BY <1>4, <1>5

\* Recording the state: on success the new policy becomes the good one and the
\* new state vouches for it; on failure the old state is still there, and the
\* old policy is about to be.
LEMMA WriteStateGood ==
    ASSUME PolicyTypeOK, NewStateInPlace, GoodInv,
           NEW ok \in BOOLEAN, NEW restored \in BOOLEAN, WriteState(ok, restored)
    PROVE  GoodInv'
<1>1. /\ Applying /\ job.stage = "state"
      /\ UNCHANGED <<policy, up, stateLost, interrupted, refused>>
      /\ damaged' = (damaged \/ Damaging(ok, restored))
  BY WriteStateEffect DEF WriteState
<1>2. RefusedOnlyAfterTornApply'
  BY <1>1 DEF GoodInv, RefusedOnlyAfterTornApply
<1>3. CASE interrupted \/ damaged \/ Damaging(ok, restored)
  BY <1>1, <1>2, <1>3 DEF GoodInv, GoodKept
<1>4. CASE ~(interrupted \/ damaged \/ Damaging(ok, restored))
  <2>1. job.previous = good /\ GoodPolicyKept /\ GoodStateKept
    BY <1>1, <1>4 DEF GoodInv, GoodKept
  <2>2. policy.path = job.bundle.doc
    BY <1>1, <2>1 DEF GoodPolicyKept
  <2>3. CASE job'.stage = "restore" /\ UNCHANGED <<mem, highest, good>>
    <3>1. /\ job'.step = "write" /\ job'.previous = job.previous
          /\ ~ok
          /\ \/ job.step \in {"write", "rotate"} /\ state'.path = state.path
             \/ job.step = "install" /\ restored /\ state'.path = state.bak
             \/ job.step = "install" /\ ~restored
             \/ job.step = "clean"
      BY <2>3, WriteStateEffect DEF IdleJob
    <3>2. StateVouches(state'.path)
      BY <1>1, <1>4, <2>1, <3>1 DEF Damaging, GoodStateKept, At
    <3> QED
      BY <1>1, <1>2, <2>1, <2>3, <3>1, <3>2
         DEF GoodInv, GoodKept, GoodPolicyKept, GoodStateKept, StateVouches, At, Applying
  <2>4. CASE job'.stage = "state"
    <3>1. /\ job'.bundle = job.bundle /\ job'.previous = job.previous
          /\ UNCHANGED <<mem, highest, good>>
          /\ \/ job.step = "write" /\ job'.step = "rotate" /\ state' = state
             \/ /\ job.step = "rotate" /\ job'.step = "install"
                /\ state'.path = Absent /\ state'.bak = state.path
             \/ job.step = "install" /\ job'.step = "clean"
      BY <2>4, WriteStateEffect DEF IdleJob
    <3>2. GoodStateKept'
      BY <1>1, <2>1, <2>4, <3>1 DEF GoodStateKept, StateVouches, At
    <3> QED
      BY <1>1, <1>2, <2>1, <2>2, <2>4, <3>1, <3>2
         DEF GoodInv, GoodKept, GoodPolicyKept, At, Applying
  <2>5. CASE job' = IdleJob
    <3>1. /\ job.step = "clean" /\ state'.path = state.path /\ good' = job.bundle.doc
      BY <2>5, WriteStateEffect DEF IdleJob
    <3>2. job.bundle \in Bundle
      BY <1>1, ApplyingShape DEF ApplyJob
    <3>3. state'.path.doc = good'
      BY <1>1, <3>1, <3>2, StateOfType DEF NewStateInPlace
    <3>4. ~Applying' /\ job'.stage = "idle"
      BY <2>5 DEF Applying, IdleJob
    <3> QED
      BY <1>1, <1>2, <2>2, <3>1, <3>3, <3>4
         DEF GoodInv, GoodKept, GoodPolicyKept, GoodStateKept, StateVouches, At
  <2> QED
    BY <2>3, <2>4, <2>5, WriteStateEffect
<1> QED
  BY <1>3, <1>4

\* A crash keeps the files, and notes an Apply that it interrupts.
LEMMA CrashGood ==
    ASSUME PolicyTypeOK, GoodInv, PolicyCrash
    PROVE  GoodInv'
<1>1. /\ job' = IdleJob /\ UNCHANGED <<policy, state, good, damaged, refused>>
      /\ interrupted' = (interrupted \/ Applying)
  BY DEF PolicyCrash, Applying
<1>2. CASE interrupted \/ damaged \/ Applying
  BY <1>1, <1>2 DEF GoodInv, GoodKept, RefusedOnlyAfterTornApply
<1>3. CASE ~(interrupted \/ damaged \/ Applying)
  BY <1>1, <1>3 DEF GoodInv, GoodKept, GoodPolicyKept, GoodStateKept, StateVouches, At,
     RefusedOnlyAfterTornApply, Applying, IdleJob
<1> QED
  BY <1>2, <1>3

\* NewManager refuses only what no undisturbed Apply leaves behind.
LEMMA RestartGood ==
    ASSUME PolicyTypeOK, NotRunning, GoodInv, PolicyRestart
    PROVE  GoodInv'
<1>1. /\ job.stage = "idle" /\ ~Applying
      /\ UNCHANGED <<policy, state, job, good, interrupted, damaged>>
  BY DEF PolicyRestart, NotRunning, Applying, IdleJob
<1>2. interrupted \/ damaged \/ Startable
  BY <1>1 DEF GoodInv, GoodKept, GoodPolicyKept, GoodStateKept, StateVouches, Startable
<1>3. RefusedOnlyAfterTornApply'
  <2>1. CASE Startable
    <3>1. refused' = refused
      BY <2>1 DEF PolicyRestart
    <3> QED
      BY <1>1, <3>1 DEF GoodInv, RefusedOnlyAfterTornApply
  <2>2. CASE interrupted \/ damaged
    BY <1>1, <2>2 DEF RefusedOnlyAfterTornApply
  <2> QED
    BY <1>2, <2>1, <2>2
<1> QED
  BY <1>1, <1>3 DEF GoodInv, GoodKept, GoodPolicyKept, GoodStateKept, StateVouches, At, Applying

\* Every step keeps the invariant.
LEMMA NextGood ==
    ASSUME PolicyTypeOK, RollbackInv, GoodInv, [PolicyNext]_policyVars
    PROVE  GoodInv'
<1>1. ASSUME UNCHANGED <<agentVars, histVars>>
      PROVE  GoodInv'
  BY <1>1 DEF agentVars, histVars, GoodInv, GoodKept, GoodPolicyKept, GoodStateKept,
     StateVouches, At, RefusedOnlyAfterTornApply, Applying
<1>2. ASSUME FetchPolicy
      PROVE  GoodInv'
  <2>1. job.stage = "idle" /\ job'.stage = "fetched" /\ UNCHANGED <<policy, state, histVars>>
    BY <1>2 DEF FetchPolicy, IdleJob
  <2> QED
    BY <2>1 DEF histVars, GoodInv, GoodKept, GoodPolicyKept, GoodStateKept,
       StateVouches, At, RefusedOnlyAfterTornApply, Applying
<1>3. ASSUME NEW p \in Publisher, PublishInsert(p) \/ \E b \in Bundle : PublishCheck(p, b)
      PROVE  GoodInv'
  BY <1>1, <1>3 DEF PublishInsert, PublishCheck
<1>4. NotRunning /\ NewStateInPlace
  BY DEF RollbackInv
<1> QED
  BY <1>1, <1>2, <1>3, <1>4, ApplyCheckGood, WritePolicyGood, WriteStateGood, CrashGood,
     RestartGood DEF PolicyNext, PolicyTick, policyVars

(***************************************************************************)
(* The inductive invariant of the updater.                                 *)
(***************************************************************************)
THEOREM PolicyInductive == PolicySpec => []PolicyIInv
<1>1. PolicyInit => RollbackInv /\ GoodInv
  BY InitRollback, InitGood
<1>2. /\ PolicyTypeOK /\ RollbackInv /\ GoodInv /\ [PolicyNext]_policyVars
      => RollbackInv' /\ GoodInv'
  BY NextRollback, NextGood
<1>3. PolicyTypeOK /\ RollbackInv /\ GoodInv => PolicyIInv
  BY DEF PolicyIInv, RollbackInv, GoodInv
<1> QED
  BY <1>1, <1>2, <1>3, PolicyTypeCorrect, PTL DEF PolicySpec

(***************************************************************************)
(* Last-known-good: between Applies the policy file is that of the last    *)
(* successful one, unless a crash interrupted one or an undo failed.       *)
(***************************************************************************)
THEOREM PolicyLastKnownGood == PolicySpec => []LastKnownGood
<1>1. PolicyIInv => LastKnownGood
  BY DEF PolicyIInv, GoodKept, GoodPolicyKept, LastKnownGood
<1> QED
  BY <1>1, PolicyInductive, PTL

(***************************************************************************)
(* The updater refuses to start only after a crash inside an Apply or a    *)
(* failed undo.                                                            *)
(***************************************************************************)
THEOREM PolicyStarts == PolicySpec => []RefusedOnlyAfterTornApply
<1>1. PolicyIInv => RefusedOnlyAfterTornApply
  BY DEF PolicyIInv
<1> QED
  BY <1>1, PolicyInductive, PTL

=============================================================================
