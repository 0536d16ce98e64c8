------------------------- MODULE ResponseExecProofs -------------------------
(***************************************************************************)
(* Proofs about ResponseExec, for every set of actions, operators and      *)
(* connections and every bound.  The response path uses the broker and the *)
(* ledger as their specifications say, so it inherits what is proved of    *)
(* each; what it adds is carried by the runner between them.               *)
(***************************************************************************)
EXTENDS ResponseExec, TLAPS

BP == INSTANCE ResponseBrokerProofs WITH Agent <- {Me}
LP == INSTANCE ReplayLedgerProofs WITH
         Digest <- {"digest"}, Result <- B!Outcome, NoResult <- "none"

-----------------------------------------------------------------------------
(***************************************************************************)
(* The invariant.                                                          *)
(***************************************************************************)
Leasing == {"begin", "begun", "evaluate", "run", "complete", "completing", "post"}
Deciding == {"complete", "completing", "post"}

\* The runner has been allowed to run id and has not yet.
Going(id) ==
    /\ \/ runner.pc \in {"evaluate", "run"}
       \/ runner.pc = "begun" /\ saving = "idle" /\ reply = "go"
    /\ runner.lease.id = id

\* A row with the approval of a second operator.
Backed(id) == id \in ActionID /\ BP!Exists(id) /\ BP!SecondOperator(id)

\* What may be said of action id, now and whatever comes: a success was one, and
\* a rejected action has not run unless the ledger has granted it twice.
TrueOutcome(id, o) ==
    /\ o \in B!Outcome
    /\ o = "succeeded" => id \in executed
    /\ o = "rejected" => /\ id \in granted
                         /\ id \in executed \/ Going(id) => id \in regranted

\* The results in a ledger are true.
Holds(es) ==
    \A id \in DOMAIN es : es[id].status = "completed" => TrueOutcome(id, es[id].result)

RunnerInv ==
    /\ runner.pc \in {"wait", "fetch"} \cup Leasing
    /\ runner.pc = "fetch" => runner.conn \in Conn
    /\ ~up => runner.pc = "wait"
    /\ saving # "idle" =>
          /\ runner.pc \in {"begun", "completing"}
          /\ call = [op |-> IF runner.pc = "begun" THEN "begin" ELSE "complete",
                     id |-> runner.lease.id]
    /\ runner.pc = "begun" /\ saving = "idle" /\ reply = "replay" =>
          runner.lease.id \in DOMAIN entries /\ entries[runner.lease.id].status = "completed"

\* Whatever runs or has run was approved by a second operator.
ApprovedInv ==
    /\ \A c \in Conn : reqs[c].op = "answer" => Backed(reqs[c].lease.id)
    /\ runner.pc \in Leasing => Backed(runner.lease.id)
    /\ \A id \in executed : Backed(id)

\* A tool runs once per grant.
GrantInv ==
    /\ executed \subseteq granted
    /\ reexecuted \subseteq regranted
    /\ \A id \in ActionID : Going(id) =>
          id \in granted /\ (id \in executed => id \in regranted)

\* Every result on its way to the broker's record is true.
ResultInv ==
    /\ Holds(entries) /\ Holds(fresh)
    /\ path # Absent => Holds(path)
    /\ bak # Absent => Holds(bak)
    /\ runner.pc \in Deciding => TrueOutcome(runner.lease.id, runner.outcome)
    /\ \A m \in posts : m.id \in ActionID /\ TrueOutcome(m.id, m.outcome)
    /\ \A c \in Conn : reqs[c].op = "complete" => TrueOutcome(reqs[c].id, reqs[c].outcome)
    /\ \A id \in ActionID : BP!Exists(id) /\ actions[id].result # "none" =>
          TrueOutcome(id, actions[id].result)

ExecInv == BP!BrokerInv /\ RunnerInv /\ ApprovedInv /\ GrantInv /\ ResultInv
-----------------------------------------------------------------------------
(***************************************************************************)
(* B and BP, and L and LP, are the same.                                   *)
(***************************************************************************)
LEMMA SameServerStep ==
    ASSUME NEW c
    PROVE  (B!ServerStep(c) \/ B!Abandon(c)) => (BP!ServerStep(c) \/ BP!Abandon(c))
BY Zenon DEF B!ServerStep, BP!ServerStep, B!Abandon, BP!Abandon, B!ApproveWrite,
   BP!ApproveWrite, B!NextDispatch, BP!NextDispatch, B!SignLease, BP!SignLease,
   B!CompleteWrite, BP!CompleteWrite, B!Overdue, BP!Overdue, B!Deliverable, BP!Deliverable,
   B!Oldest, BP!Oldest, B!Signable, BP!Signable, B!Lease, BP!Lease, B!Minimum, BP!Minimum,
   B!Free, BP!Free, B!Close, BP!Close, B!Exists, BP!Exists

\* The operators' steps are the same in the two instances of the broker.
LEMMA SameOperatorStep == B!OperatorStep => BP!OperatorStep
BY Zenon DEF B!OperatorStep, BP!OperatorStep, B!Create, BP!Create, B!ApproveRead,
   BP!ApproveRead, B!Free, BP!Free, B!Exists, BP!Exists

\* So is every step of the broker.
LEMMA SameBrokerNext == B!BrokerNext => BP!BrokerNext
<1>1. ASSUME NEW c, NEW agent PROVE B!NextStart(c, agent) => BP!NextStart(c, agent)
  BY Zenon DEF B!NextStart, BP!NextStart, B!Free, BP!Free
<1>2. ASSUME NEW c, NEW id, NEW agent, NEW o
      PROVE  B!CompleteRead(c, id, agent, o) => BP!CompleteRead(c, id, agent, o)
  BY Zenon DEF B!CompleteRead, BP!CompleteRead, B!Free, BP!Free, B!Exists, BP!Exists
<1>3. B!BrokerTick => BP!BrokerTick
  BY Zenon DEF B!BrokerTick, BP!BrokerTick
<1>4. B!Outcome = BP!Outcome
  BY DEF B!Outcome, BP!Outcome
<1> QED
  BY <1>1, <1>2, <1>3, <1>4, SameServerStep, SameOperatorStep, Zenon
     DEF B!BrokerNext, BP!BrokerNext

\* The two instances of the ledger start alike.
LEMMA SameLedgerInit == L!LedgerInit => LP!LedgerInit
BY DEF L!LedgerInit, LP!LedgerInit, L!EmptyLedger, LP!EmptyLedger, L!NoCall, LP!NoCall

\* Begin's entry is the same in both.
LEMMA SameBeginNew ==
    ASSUME NEW id, NEW d
    PROVE  L!BeginNew(id, d) => LP!BeginNew(id, d)
<1>1. ASSUME NEW S PROVE L!Cardinality(S) = LP!Cardinality(S)
  BY Zenon DEF L!Cardinality, LP!Cardinality
<1>2. ASSUME NEW es PROVE L!Completed(es) = LP!Completed(es)
  BY Zenon DEF L!Completed, LP!Completed
<1>3. ASSUME NEW es PROVE L!PruneSets(es) = LP!PruneSets(es)
  BY <1>1, <1>2, Zenon DEF L!PruneSets, LP!PruneSets
<1>4. ASSUME NEW es, NEW D PROVE L!Without(es, D) = LP!Without(es, D)
  BY Zenon DEF L!Without, LP!Without
<1>5. ASSUME NEW es, NEW e PROVE L!Set(es, id, e) = LP!Set(es, id, e)
  BY Zenon DEF L!Set, LP!Set
<1> QED
  BY <1>3, <1>4, <1>5, Zenon
     DEF L!BeginNew, LP!BeginNew, L!Idle, LP!Idle, L!diskVars, LP!diskVars

\* So are the steps of a save.
LEMMA SameSave == L!Save => LP!Save
BY Zenon DEF L!Save, LP!Save, L!SaveWrite, LP!SaveWrite, L!SaveRotate, LP!SaveRotate,
   L!SaveInstall, LP!SaveInstall, L!SaveClean, LP!SaveClean, L!SaveOK, LP!SaveOK,
   L!SaveFailed, LP!SaveFailed, L!Without, LP!Without, L!EmptyLedger, LP!EmptyLedger,
   L!NoCall, LP!NoCall

\* So is every step of the ledger.
LEMMA SameLedgerNext == L!LedgerNext => LP!LedgerNext
<1>1. ASSUME NEW id, NEW d PROVE L!Begin(id, d) => LP!Begin(id, d)
  <2>1. L!BeginKnown(id, d) => LP!BeginKnown(id, d)
    BY Zenon DEF L!BeginKnown, LP!BeginKnown, L!Idle, LP!Idle, L!diskVars, LP!diskVars,
       L!histVars, LP!histVars
  <2> QED
    BY <2>1, SameBeginNew, Zenon DEF L!Begin, LP!Begin
<1>2. ASSUME NEW id, NEW d, NEW r PROVE L!Complete(id, d, r) => LP!Complete(id, d, r)
  BY Zenon DEF L!Complete, LP!Complete, L!CompleteKnown, LP!CompleteKnown, L!CompleteNew,
     LP!CompleteNew, L!Started, LP!Started, L!Idle, LP!Idle, L!diskVars, LP!diskVars,
     L!histVars, LP!histVars
<1>3. (L!Crash => LP!Crash) /\ (L!Restart => LP!Restart) /\ (L!Tick => LP!Tick)
  BY Zenon DEF L!Crash, LP!Crash, L!Restart, LP!Restart, L!Tick, LP!Tick, L!EmptyLedger,
     LP!EmptyLedger, L!NoCall, LP!NoCall, L!Vacant, LP!Vacant, L!diskVars, LP!diskVars,
     L!histVars, LP!histVars
<1> QED
  BY <1>1, <1>2, <1>3, SameSave, Zenon DEF L!LedgerNext, LP!LedgerNext

-----------------------------------------------------------------------------
(***************************************************************************)
(* Refinement: a step of the response path is a step of the broker or      *)
(* leaves it alone, and the same for the ledger.                           *)
(***************************************************************************)
\* What the runner hands to either has the type they expect.
HandedOver ==
    /\ runner.pc = "fetch" => runner.conn \in Conn
    /\ runner.pc \in Leasing => runner.lease.id \in ActionID
    /\ runner.pc \in Deciding => runner.outcome \in B!Outcome
    /\ \A m \in posts : m.id \in ActionID /\ m.outcome \in B!Outcome

\* What the runner hands to the ledger and to the broker has the type they
\* expect.
LEMMA ExecInvHandsOver == ExecInv => HandedOver
BY DEF ExecInv, HandedOver, RunnerInv, ApprovedInv, ResultInv, Backed, TrueOutcome

\* A step of the response path is a step of the broker, or leaves it alone.
LEMMA ExecBrokerStep ==
    ASSUME HandedOver, [ExecNext]_execVars
    PROVE  [B!BrokerNext]_(B!brokerVars)
<1> DEFINE Same == UNCHANGED <<actions, reqs, clock, expired>>
<1>0. Same => UNCHANGED B!brokerVars
  BY DEF B!brokerVars
<1>1. ASSUME NEW c \in Conn, Fetch(c) PROVE B!BrokerNext
  BY <1>1 DEF Fetch, B!BrokerNext
<1>2. ASSUME NEW c \in Conn, Server(c) PROVE B!BrokerNext
  BY <1>2 DEF Server, B!BrokerNext
<1>3. ASSUME NEW c \in Conn, NEW m \in posts, Deliver(c, m) PROVE B!BrokerNext \/ Same
  BY <1>3 DEF Deliver, B!BrokerNext, HandedOver, brokerState
<1>4. CASE Receive
  <2>1. PICK c \in Conn : c = runner.conn
    BY <1>4 DEF Receive, At, HandedOver
  <2>2. B!Abandon(c)
    BY <1>4, <2>1 DEF Receive, B!Abandon, B!Free
  <2> QED
    BY <2>2 DEF B!BrokerNext
<1>5. CASE FetchFails \/ Begun \/ Evaluate \/ Completed \/ PostResult
  BY <1>5, <1>0 DEF FetchFails, Begun, Evaluate, Completed, PostResult, brokerState
<1>6. ASSUME NEW effect \in BOOLEAN, RunTool(effect) PROVE Same
  BY <1>6 DEF RunTool, brokerState
<1>7. CASE CallBegin \/ CallComplete \/ LedgerSave \/ AgentCrash \/ AgentRestart
  <2>1. UNCHANGED <<actions, reqs, expired>>
    BY <1>7 DEF CallBegin, CallComplete, LedgerSave, AgentCrash, AgentRestart, brokerState
  <2>2. UNCHANGED clock
    BY <1>7 DEF CallBegin, CallComplete, LedgerSave, AgentCrash, AgentRestart, L!Begin,
       L!BeginKnown, L!BeginNew, L!Complete, L!CompleteKnown, L!CompleteNew, L!Save,
       L!SaveWrite, L!SaveRotate, L!SaveInstall, L!SaveClean, L!Crash, L!Restart
  <2> QED
    BY <1>0, <2>1, <2>2
<1>8. ASSUME NEW m \in posts, LosePost(m) PROVE Same
  BY <1>8 DEF LosePost, brokerState
<1>9. CASE Operate \/ ExecTick
  BY <1>9 DEF Operate, ExecTick, B!BrokerNext
<1>10. CASE UNCHANGED execVars
  BY <1>10, <1>0 DEF execVars, brokerState
<1> QED
  BY <1>0, <1>1, <1>2, <1>3, <1>4, <1>5, <1>6, <1>7, <1>8, <1>9, <1>10 DEF ExecNext, RunnerStep

\* A step of the response path is a step of the ledger, or leaves it alone.
LEMMA ExecLedgerStep ==
    ASSUME HandedOver, [ExecNext]_execVars
    PROVE  [L!LedgerNext]_(L!ledgerVars)
<1> DEFINE Same == UNCHANGED <<entries, path, fresh, bak, saving, call, reply, up, granted,
                              regranted, pruned, installed, lost>>
<1>0. Same /\ UNCHANGED clock => UNCHANGED L!ledgerVars
  BY DEF L!ledgerVars
<1>1. CASE CallBegin
  <2>1. runner.lease.id \in ActionID /\ L!Begin(runner.lease.id, "digest")
    BY <1>1 DEF CallBegin, At, HandedOver, Leasing
  <2> QED
    BY <2>1 DEF L!LedgerNext
<1>2. CASE CallComplete
  <2>1. /\ runner.lease.id \in ActionID /\ runner.outcome \in B!Outcome
        /\ L!Complete(runner.lease.id, "digest", runner.outcome)
    BY <1>2 DEF CallComplete, At, HandedOver, Leasing, Deciding
  <2> QED
    BY <2>1 DEF L!LedgerNext
<1>3. CASE LedgerSave \/ AgentCrash \/ AgentRestart
  BY <1>3 DEF LedgerSave, AgentCrash, AgentRestart, L!LedgerNext
<1>4. CASE ExecTick
  <2>1. L!Tick
    BY <1>4 DEF ExecTick, B!BrokerTick, ledgerState, L!Tick, L!diskVars, L!histVars
  <2> QED
    BY <2>1 DEF L!LedgerNext
<1>5. CASE FetchFails \/ Receive \/ Begun \/ Evaluate \/ Completed \/ PostResult
  BY <1>5, <1>0 DEF FetchFails, Receive, Begun, Evaluate, Completed, PostResult, ledgerState
<1>6. ASSUME NEW effect \in BOOLEAN, RunTool(effect) PROVE UNCHANGED L!ledgerVars
  BY <1>6, <1>0 DEF RunTool, ledgerState
<1>7. ASSUME NEW m \in posts, LosePost(m) PROVE UNCHANGED L!ledgerVars
  BY <1>7, <1>0 DEF LosePost, ledgerState
<1>8. ASSUME NEW c \in Conn, Fetch(c) \/ Server(c) PROVE UNCHANGED L!ledgerVars
  BY <1>8, <1>0 DEF Fetch, Server, ledgerState, B!NextStart, B!ServerStep, B!Abandon,
     B!ApproveWrite, B!NextDispatch, B!SignLease, B!CompleteWrite
<1>9. ASSUME NEW c \in Conn, NEW m \in posts, Deliver(c, m) PROVE UNCHANGED L!ledgerVars
  BY <1>9, <1>0 DEF Deliver, ledgerState, B!CompleteRead
<1>10. CASE Operate
  BY <1>10, <1>0 DEF Operate, ledgerState, B!OperatorStep, B!Create, B!ApproveRead
<1>11. CASE UNCHANGED execVars
  BY <1>11, <1>0 DEF execVars, ledgerState
<1> QED
  BY <1>1, <1>2, <1>3, <1>4, <1>5, <1>6, <1>7, <1>8, <1>9, <1>10, <1>11 DEF ExecNext, RunnerStep

-----------------------------------------------------------------------------
(***************************************************************************)
(* The parts of the invariant after a step, for rigid arguments.           *)
(***************************************************************************)
GoingNext(id) ==
    /\ \/ runner'.pc \in {"evaluate", "run"}
       \/ runner'.pc = "begun" /\ saving' = "idle" /\ reply' = "go"
    /\ runner'.lease.id = id

BackedNext(id) ==
    /\ id \in ActionID /\ actions'[id] # NoRow
    /\ actions'[id].approved_by \notin {NoOne, actions'[id].requested_by}

TrueNext(id, o) ==
    /\ o \in B!Outcome
    /\ o = "succeeded" => id \in executed'
    /\ o = "rejected" => /\ id \in granted'
                         /\ id \in executed' \/ GoingNext(id) => id \in regranted'

NextHolds(es) ==
    \A id \in DOMAIN es : es[id].status = "completed" => TrueNext(id, es[id].result)

\* A step after which whatever was true of an action is true still: an action is
\* on its way to its tool only if it was before, or was granted again.
Steady ==
    /\ executed \subseteq executed'
    /\ granted \subseteq granted'
    /\ regranted \subseteq regranted'
    /\ \A id \in granted : id \in executed' \/ GoingNext(id)
                              => id \in executed \/ Going(id) \/ id \in regranted'

\* A true outcome stays true in a steady step.
LEMMA StaysTrue ==
    ASSUME Steady, NEW id, NEW o, TrueOutcome(id, o)
    PROVE  TrueNext(id, o)
BY DEF Steady, TrueOutcome, TrueNext

\* The true results of a ledger stay true in a steady step.
LEMMA StaysHeld ==
    ASSUME Steady, NEW es, Holds(es)
    PROVE  NextHolds(es)
BY StaysTrue DEF Holds, NextHolds

\* The results the Agent holds after the step are true.
AgentResults ==
    /\ NextHolds(entries') /\ NextHolds(fresh')
    /\ path' # Absent => NextHolds(path')
    /\ bak' # Absent => NextHolds(bak')
    /\ runner'.pc \in Deciding => TrueNext(runner'.lease.id, runner'.outcome)
    /\ \A m \in posts' : m.id \in ActionID /\ TrueNext(m.id, m.outcome)

\* A result the broker takes was posted.
Carried ==
    \A c \in Conn : reqs'[c].op = "complete" =>
       \/ reqs'[c] = reqs[c]
       \/ \E m \in posts : reqs'[c].id = m.id /\ reqs'[c].outcome = m.outcome

\* A steady step after which the Agent's results are true keeps the broker's
\* true.
LEMMA ResultKept ==
    ASSUME ExecInv, Steady, AgentResults, BP!BrokerEffect, Carried
    PROVE  ResultInv'
<1>1. \A c \in Conn : reqs'[c].op = "complete" => TrueNext(reqs'[c].id, reqs'[c].outcome)
  BY StaysTrue DEF ExecInv, ResultInv, Carried
<1>2. \A id \in ActionID : actions'[id] # NoRow /\ actions'[id].result # "none" =>
         TrueNext(id, actions'[id].result)
  <2> SUFFICES ASSUME NEW id \in ActionID, actions'[id] # NoRow, actions'[id].result # "none"
               PROVE  TrueNext(id, actions'[id].result)
    OBVIOUS
  <2>1. \/ BP!Exists(id) /\ actions'[id].result = actions[id].result
        \/ \E c \in Conn : /\ reqs[c].op = "complete" /\ reqs[c].id = id
                           /\ actions'[id].result = reqs[c].outcome
    BY DEF BP!BrokerEffect, BP!Exists
  <2>2. \/ TrueOutcome(id, actions[id].result) /\ actions'[id].result = actions[id].result
        \/ \E c \in Conn : /\ TrueOutcome(id, reqs[c].outcome)
                           /\ actions'[id].result = reqs[c].outcome
    BY <2>1 DEF ExecInv, ResultInv
  <2> QED
    BY <2>2, StaysTrue
<1> QED
  BY <1>1, <1>2 DEF AgentResults, ResultInv, NextHolds, Holds, TrueNext, TrueOutcome,
     GoingNext, Going, BP!Exists

\* The lease in the runner's hands is the one it had or one the broker signed, and
\* what runs is what it holds.
LeaseKept ==
    /\ runner'.pc \in Leasing =>
          \/ runner.pc \in Leasing /\ runner'.lease.id = runner.lease.id
          \/ \E c \in Conn : reqs[c].op = "answer" /\ runner'.lease.id = reqs[c].lease.id
    /\ \A id \in executed' :
          id \in executed \/ (runner.pc \in Leasing /\ id = runner.lease.id)

\* What is leased, runs or has run keeps its second operator, as its row does.
LEMMA ApprovedKept ==
    ASSUME ExecInv, BP!BrokerEffect, LeaseKept
    PROVE  ApprovedInv'
<1>1. ASSUME NEW id, Backed(id) PROVE BackedNext(id)
  BY <1>1 DEF Backed, BackedNext, BP!BrokerEffect, BP!RowsKept, BP!Exists, BP!SecondOperator
<1>2. \A c \in Conn : reqs'[c].op = "answer" => BackedNext(reqs'[c].lease.id)
  <2> SUFFICES ASSUME NEW c \in Conn, reqs'[c].op = "answer" PROVE BackedNext(reqs'[c].lease.id)
    OBVIOUS
  <2>1. CASE reqs'[c] = reqs[c]
    BY <1>1, <2>1 DEF ExecInv, ApprovedInv
  <2>2. CASE \E id \in ActionID : /\ reqs'[c].lease.id = id
                                  /\ BP!Exists(id) /\ BP!SecondOperator(id)
    BY <1>1, <2>2 DEF Backed
  <2> QED
    BY <2>1, <2>2 DEF BP!BrokerEffect
<1>3. runner'.pc \in Leasing => BackedNext(runner'.lease.id)
  BY <1>1 DEF LeaseKept, ExecInv, ApprovedInv
<1>4. \A id \in executed' : BackedNext(id)
  BY <1>1 DEF LeaseKept, ExecInv, ApprovedInv
<1> QED
  BY <1>2, <1>3, <1>4 DEF ApprovedInv, BackedNext, Backed, BP!Exists, BP!SecondOperator

-----------------------------------------------------------------------------
(***************************************************************************)
(* Grants.                                                                 *)
(***************************************************************************)
\* A step after which no tool has run and nothing new is on its way to one.
LEMMA QuietGrant ==
    ASSUME GrantInv, UNCHANGED <<granted, regranted, executed, reexecuted>>,
           \A id : GoingNext(id) => Going(id)
    PROVE  GrantInv' /\ Steady
<1>1. Steady
  BY DEF Steady
<1>2. \A id \in ActionID : GoingNext(id) =>
         id \in granted' /\ (id \in executed' => id \in regranted')
  BY DEF GrantInv
<1> QED
  BY <1>1, <1>2 DEF GrantInv, Going, GoingNext

\* The tool runs.
LEMMA RunToolGrant ==
    ASSUME GrantInv, HandedOver, NEW effect \in BOOLEAN, RunTool(effect)
    PROVE  GrantInv' /\ Steady
<1>1. PICK id \in ActionID : id = runner.lease.id /\ Going(id)
  BY DEF RunTool, At, HandedOver, Leasing, Going
<1>2. UNCHANGED <<granted, regranted>> /\ runner'.pc = "complete"
  BY DEF RunTool, ledgerState, Finish
<1>3. \A i : ~ GoingNext(i)
  BY <1>2 DEF GoingNext
<1>4. /\ executed \subseteq executed' /\ executed' \subseteq executed \cup {id}
      /\ reexecuted' \subseteq reexecuted \cup ({id} \cap executed)
  BY <1>1 DEF RunTool
<1>5. id \in granted /\ (id \in executed => id \in regranted)
  BY <1>1 DEF GrantInv
<1>6. Steady
  BY <1>1, <1>2, <1>3, <1>4 DEF Steady
<1>7. executed' \subseteq granted' /\ reexecuted' \subseteq regranted'
  BY <1>2, <1>4, <1>5 DEF GrantInv
<1> QED
  BY <1>3, <1>6, <1>7 DEF GrantInv, Going, GoingNext

\* What a step of a save does to the ledger.
SaveEffect ==
    /\ saving # "idle" /\ up /\ up' = up
    /\ entries' = entries \/ entries' = LP!Without(entries, {call.id})
    /\ fresh' \in {entries, fresh, LP!EmptyLedger}
    /\ path' \in {path, fresh, bak, Absent}
    /\ bak' \in {path, bak, Absent}
    /\ \/ saving' # "idle" /\ UNCHANGED <<call, reply, granted, regranted>>
       \/ saving' = "idle" /\ reply' = "error" /\ UNCHANGED <<granted, regranted>>
       \/ /\ saving' = "idle"
          /\ IF call.op = "begin"
             THEN /\ reply' = "go"
                  /\ granted' = granted \cup {call.id}
                  /\ regranted' = regranted \cup ({call.id} \cap granted)
             ELSE reply' = "ok" /\ UNCHANGED <<granted, regranted>>

\* Every step of a save is as SaveEffect says.
LEMMA SaveHasEffect == LP!Save => SaveEffect
<1>1. ASSUME LP!SaveFailed
      PROVE  /\ entries' = entries \/ entries' = LP!Without(entries, {call.id})
             /\ saving' = "idle" /\ reply' = "error" /\ UNCHANGED <<granted, regranted>>
  BY <1>1 DEF LP!SaveFailed
<1>2. ASSUME LP!SaveOK
      PROVE  /\ entries' = entries /\ saving' = "idle"
             /\ IF call.op = "begin"
                THEN /\ reply' = "go"
                     /\ granted' = granted \cup {call.id}
                     /\ regranted' = regranted \cup ({call.id} \cap granted)
                ELSE reply' = "ok" /\ UNCHANGED <<granted, regranted>>
  BY <1>2 DEF LP!SaveOK
<1>3. ASSUME NEW ok \in BOOLEAN, LP!SaveWrite(ok) PROVE SaveEffect
  BY <1>1, <1>3 DEF LP!SaveWrite, SaveEffect
<1>4. ASSUME NEW ok \in BOOLEAN, LP!SaveRotate(ok) PROVE SaveEffect
  BY <1>1, <1>4 DEF LP!SaveRotate, SaveEffect
<1>5. ASSUME NEW ok \in BOOLEAN, NEW restored \in BOOLEAN, LP!SaveInstall(ok, restored)
      PROVE SaveEffect
  BY <1>1, <1>5 DEF LP!SaveInstall, SaveEffect
<1>6. ASSUME NEW ok \in BOOLEAN, LP!SaveClean(ok) PROVE SaveEffect
  BY <1>1, <1>2, <1>6 DEF LP!SaveClean, SaveEffect
<1> QED
  BY <1>3, <1>4, <1>5, <1>6 DEF LP!Save

\* A save that ends grants the action whose Begin it was.
LEMMA SaveGrant ==
    ASSUME GrantInv, RunnerInv, SaveEffect, UNCHANGED <<runner, executed, reexecuted>>
    PROVE  GrantInv' /\ Steady
<1>1. /\ runner.pc \in {"begun", "completing"}
      /\ call.op = IF runner.pc = "begun" THEN "begin" ELSE "complete"
      /\ call.id = runner.lease.id
  BY DEF RunnerInv, SaveEffect
<1>2. CASE UNCHANGED <<granted, regranted>> /\ ~(saving' = "idle" /\ reply' = "go")
  <2>1. \A id : ~ GoingNext(id)
    BY <1>1, <1>2 DEF GoingNext
  <2> QED
    BY <1>2, <2>1, QuietGrant
<1>3. CASE /\ saving' = "idle" /\ reply' = "go" /\ call.op = "begin"
           /\ granted' = granted \cup {call.id}
           /\ regranted' = regranted \cup ({call.id} \cap granted)
  <2>1. \A id : GoingNext(id) => id = call.id
    BY <1>1, <1>3 DEF GoingNext
  <2>2. Steady
    BY <1>3, <2>1 DEF Steady
  <2>3. \A id \in ActionID : GoingNext(id) =>
           id \in granted' /\ (id \in executed' => id \in regranted')
    BY <1>3, <2>1 DEF GrantInv
  <2>4. executed' \subseteq granted' /\ reexecuted' \subseteq regranted'
    BY <1>3 DEF GrantInv
  <2> QED
    BY <2>2, <2>3, <2>4 DEF GrantInv, Going, GoingNext
<1> QED
  BY <1>1, <1>2, <1>3 DEF SaveEffect

-----------------------------------------------------------------------------
(***************************************************************************)
(* The broker's part of a step.                                            *)
(***************************************************************************)
LEMMA BrokerConstants ==
    /\ MaxClock \in Nat /\ LeaseTime \in Nat \ {0} /\ TTL \subseteq 1 .. MaxClock
    /\ NoOne \notin Operator /\ NoRow \notin BP!ResponseAction
BY ExecAssumption DEF B!ResponseAction, BP!ResponseAction, B!Status, BP!Status,
   B!TERMINAL_STATUSES, BP!TERMINAL_STATUSES, B!Outcome, BP!Outcome

\* A step that leaves the broker alone.
LEMMA BrokerUntouched ==
    ASSUME actions' = actions, reqs' = reqs
    PROVE  BP!BrokerEffect /\ Carried
BY DEF BP!BrokerEffect, BP!RowsKept, BP!Exists, BP!SecondOperator, Carried

\* Every step changes the rows as BrokerEffect says, and a result the broker
\* takes was posted.
LEMMA ExecBrokerEffect ==
    ASSUME ExecInv, ExecNext
    PROVE  BP!BrokerEffect /\ Carried
<1>0. BP!BrokerInv
  BY DEF ExecInv
<1>1. ASSUME NEW c \in Conn, Fetch(c) PROVE BP!BrokerEffect /\ Carried
  <2> DEFINE q == [op |-> "next", agent |-> Me, now |-> clock]
  <2>1. q.op = "next"
    OBVIOUS
  <2>2. reqs' = [reqs EXCEPT ![c] = q] /\ actions' = actions
    BY <1>1 DEF Fetch, B!NextStart
  <2> HIDE DEF q
  <2>3. BP!BrokerEffect /\ \A d \in Conn : reqs'[d] = reqs[d] \/ reqs'[d] = q
    BY <1>0, <2>1, <2>2, BrokerConstants, BP!QuietEffect DEF BP!QuietEffect
  <2> QED
    BY <2>1, <2>3 DEF Carried
<1>2. ASSUME NEW c \in Conn, B!ServerStep(c) \/ B!Abandon(c) PROVE BP!BrokerEffect /\ Carried
  <2>1. BP!ServerStep(c) \/ BP!Abandon(c)
    BY <1>2, SameServerStep
  <2>2. /\ BP!BrokerEffect
        /\ \A d \in Conn : reqs'[d].op = "complete" => reqs'[d] = reqs[d]
    BY <1>0, <2>1, BrokerConstants, BP!ServerStepEffect DEF BP!ServerStepEffect
  <2> QED
    BY <2>2 DEF Carried
<1>3. ASSUME NEW c \in Conn, NEW m \in posts, Deliver(c, m) PROVE BP!BrokerEffect /\ Carried
  <2>1. CASE B!CompleteRead(c, m.id, Me, m.outcome)
    <3> DEFINE q == [op |-> "complete", id |-> m.id, outcome |-> m.outcome]
    <3>1. q.op = "complete" /\ q.id = m.id /\ q.outcome = m.outcome
      OBVIOUS
    <3>2. reqs' = [reqs EXCEPT ![c] = q] /\ actions' = actions
      BY <2>1 DEF B!CompleteRead
    <3> HIDE DEF q
    <3>3. BP!BrokerEffect /\ \A d \in Conn : reqs'[d] = reqs[d] \/ reqs'[d] = q
      BY <1>0, <3>1, <3>2, BrokerConstants, BP!QuietEffect DEF BP!QuietEffect
    <3> QED
      BY <3>1, <3>3 DEF Carried
  <2> QED
    BY <1>3, <2>1, BrokerUntouched DEF Deliver, brokerState
<1>4. CASE Receive
  <2>1. PICK c \in Conn : c = runner.conn
    BY <1>4 DEF Receive, At, ExecInv, RunnerInv
  <2>2. B!Abandon(c)
    BY <1>4, <2>1 DEF Receive, B!Abandon, B!Free
  <2> QED
    BY <1>2, <2>2
<1>5. CASE Operate
  <2>1. BP!OperatorStep
    BY <1>5, SameOperatorStep DEF Operate
  <2>2. /\ BP!BrokerEffect
        /\ \A d \in Conn : reqs'[d].op = "complete" => reqs'[d] = reqs[d]
    BY <1>0, <2>1, BrokerConstants, BP!OperatorStepEffect DEF BP!OperatorStepEffect
  <2> QED
    BY <2>2 DEF Carried
<1>6. CASE ExecTick
  BY <1>6, BrokerUntouched DEF ExecTick, B!BrokerTick
<1>7. CASE \/ FetchFails \/ CallBegin \/ Begun \/ Evaluate
           \/ \E effect \in BOOLEAN : RunTool(effect)
           \/ CallComplete \/ Completed \/ PostResult
           \/ \E m \in posts : LosePost(m)
           \/ LedgerSave \/ AgentCrash \/ AgentRestart
  BY <1>7, BrokerUntouched DEF FetchFails, CallBegin, Begun, Evaluate, RunTool, CallComplete,
     Completed, PostResult, LosePost, LedgerSave, AgentCrash, AgentRestart, brokerState
<1> QED
  BY <1>1, <1>2, <1>3, <1>4, <1>5, <1>6, <1>7 DEF ExecNext, RunnerStep, Server

\* Every step keeps the broker's invariant.
LEMMA ExecBrokerKept ==
    ASSUME ExecInv, [ExecNext]_execVars
    PROVE  BP!BrokerInv'
<1>1. [BP!BrokerNext]_(BP!brokerVars)
  BY ExecInvHandsOver, ExecBrokerStep, SameBrokerNext DEF B!brokerVars, BP!brokerVars
<1> QED
  BY <1>1, BrokerConstants, BP!BrokerStepKeeps DEF BP!BrokerStepKeeps, ExecInv

-----------------------------------------------------------------------------
(***************************************************************************)
(* The Agent's part of a step.                                             *)
(***************************************************************************)
AgentKept == RunnerInv' /\ GrantInv' /\ LeaseKept /\ Steady /\ AgentResults

\* What was true of the results the Agent holds is true still.
HeldBefore ==
    /\ NextHolds(entries) /\ NextHolds(fresh)
    /\ path # Absent => NextHolds(path)
    /\ bak # Absent => NextHolds(bak)
    /\ runner.pc \in Deciding => TrueNext(runner.lease.id, runner.outcome)
    /\ \A m \in posts : m.id \in ActionID /\ TrueNext(m.id, m.outcome)

\* What was true of the results the Agent holds is true after a steady step.
LEMMA SteadyHolds ==
    ASSUME ResultInv, Steady
    PROVE  HeldBefore
BY StaysTrue, StaysHeld DEF ResultInv, HeldBefore

\* A ledger without entries has no false result.
LEMMA EmptyHolds == NextHolds(LP!EmptyLedger) /\ NextHolds(L!EmptyLedger)
BY DEF NextHolds, LP!EmptyLedger, L!EmptyLedger

\* Steps of the broker, of the clock and of the network.
LEMMA ElsewhereKept ==
    ASSUME ExecInv, UNCHANGED <<ledgerState, runner, executed, reexecuted>>, posts' \subseteq posts
    PROVE  AgentKept
<1>1. RunnerInv /\ GrantInv /\ ResultInv
  BY DEF ExecInv
<1>2. UNCHANGED <<entries, path, fresh, bak, saving, call, reply, up, granted, regranted>>
  BY DEF ledgerState
<1>3. \A id : GoingNext(id) => Going(id)
  BY <1>2 DEF GoingNext, Going
<1>4. GrantInv' /\ Steady
  BY <1>1, <1>2, <1>3, QuietGrant
<1>5. AgentResults
  BY <1>1, <1>2, <1>4, SteadyHolds DEF AgentResults, HeldBefore
<1>6. RunnerInv'
  BY <1>1, <1>2 DEF RunnerInv
<1> QED
  BY <1>4, <1>5, <1>6 DEF AgentKept, LeaseKept

\* Steps of the runner that do not call the ledger and do not run the tool.
LEMMA RunnerKept ==
    ASSUME ExecInv, UNCHANGED <<ledgerState, executed, reexecuted>>, saving = "idle", up,
           runner'.pc \in {"wait", "fetch", "begin", "evaluate", "run", "complete", "post"},
           runner'.pc = "fetch" => runner'.conn \in Conn,
           LeaseKept,
           \A id : GoingNext(id) => Going(id),
           Steady => /\ runner'.pc \in Deciding => TrueNext(runner'.lease.id, runner'.outcome)
                     /\ \A m \in posts' : m.id \in ActionID /\ TrueNext(m.id, m.outcome)
    PROVE  AgentKept
<1>1. RunnerInv /\ GrantInv /\ ResultInv
  BY DEF ExecInv
<1>2. UNCHANGED <<entries, path, fresh, bak, saving, call, reply, up, granted, regranted>>
  BY DEF ledgerState
<1>4. GrantInv' /\ Steady
  BY <1>1, <1>2, QuietGrant
<1>5. AgentResults
  BY <1>1, <1>2, <1>4, SteadyHolds DEF AgentResults, HeldBefore
<1>6. RunnerInv'
  BY <1>1, <1>2 DEF RunnerInv, Leasing
<1> QED
  BY <1>4, <1>5, <1>6 DEF AgentKept

\* A fetch, or one that fails, changes nothing that the Agent holds of an
\* action.
LEMMA FetchKept ==
    ASSUME ExecInv, (\E c \in Conn : Fetch(c)) \/ FetchFails
    PROVE  AgentKept
<1>1. /\ UNCHANGED <<ledgerState, posts, executed, reexecuted>> /\ up
      /\ runner.pc \in {"wait", "fetch"} /\ runner'.pc \in {"wait", "fetch"}
      /\ runner'.pc = "fetch" => runner'.conn \in Conn
  BY DEF Fetch, FetchFails, At, Waiting
<1>2. saving = "idle" /\ ResultInv
  BY <1>1 DEF ExecInv, RunnerInv
<1>3. LeaseKept /\ \A id : ~ GoingNext(id)
  BY <1>1 DEF LeaseKept, Leasing, GoingNext
<1>4. Steady => /\ runner'.pc \in Deciding => TrueNext(runner'.lease.id, runner'.outcome)
                /\ \A m \in posts' : m.id \in ActionID /\ TrueNext(m.id, m.outcome)
  BY <1>1, <1>2, SteadyHolds DEF HeldBefore, Deciding
<1> QED
  BY <1>1, <1>2, <1>3, <1>4, RunnerKept

\* The lease the runner takes is one that the broker has signed.
LEMMA ReceiveKept ==
    ASSUME ExecInv, Receive
    PROVE  AgentKept
<1>1. PICK c \in Conn : c = runner.conn
  BY DEF Receive, At, ExecInv, RunnerInv
<1>2. /\ UNCHANGED <<ledgerState, posts, executed, reexecuted>> /\ up
      /\ runner.pc = "fetch" /\ runner'.pc \in {"wait", "begin"}
      /\ reqs[c].op = "answer" /\ (runner'.pc = "begin" => runner'.lease = reqs[c].lease)
  BY <1>1 DEF Receive, At, Waiting
<1>3. saving = "idle" /\ ResultInv
  BY <1>2 DEF ExecInv, RunnerInv
<1>4. LeaseKept /\ \A id : ~ GoingNext(id)
  BY <1>2 DEF LeaseKept, Leasing, GoingNext
<1>5. Steady => /\ runner'.pc \in Deciding => TrueNext(runner'.lease.id, runner'.outcome)
                /\ \A m \in posts' : m.id \in ActionID /\ TrueNext(m.id, m.outcome)
  BY <1>2, <1>3, SteadyHolds DEF HeldBefore, Deciding
<1> QED
  BY <1>2, <1>3, <1>4, <1>5, RunnerKept

\* A replayed result comes from the ledger, an indeterminate action counts as
\* failed, and only a grant goes on.
LEMMA BegunKept ==
    ASSUME ExecInv, Begun
    PROVE  AgentKept
<1> DEFINE id == runner.lease.id
<1>1. /\ UNCHANGED <<ledgerState, posts, executed, reexecuted>> /\ up /\ saving = "idle"
      /\ runner.pc = "begun"
      /\ \/ /\ reply = "replay"
            /\ runner' = [pc |-> "post", lease |-> runner.lease, outcome |-> entries[id].result]
         \/ runner' = [pc |-> "complete", lease |-> runner.lease, outcome |-> "failed"]
         \/ runner' = Waiting
         \/ reply = "go" /\ runner' = [pc |-> "evaluate", lease |-> runner.lease]
  BY DEF Begun, At, Finish, Go
<1>2. /\ runner'.pc \in {"wait", "evaluate", "complete", "post"}
      /\ runner'.pc # "wait" => runner'.lease = runner.lease
      /\ runner'.pc = "evaluate" => reply = "go"
      /\ runner'.pc = "complete" => runner'.outcome = "failed"
      /\ runner'.pc = "post" => reply = "replay" /\ runner'.outcome = entries[id].result
  BY <1>1 DEF Waiting
<1>3. LeaseKept
  BY <1>1, <1>2 DEF LeaseKept, Leasing
<1>4. \A i : GoingNext(i) => Going(i)
  BY <1>1, <1>2 DEF GoingNext, Going
<1>5. runner'.pc = "post" => id \in DOMAIN entries /\ entries[id].status = "completed"
  BY <1>1, <1>2 DEF ExecInv, RunnerInv
<1>6. ASSUME Steady, runner'.pc = "post" PROVE TrueNext(runner'.lease.id, runner'.outcome)
  BY <1>2, <1>5, <1>6, SteadyHolds DEF HeldBefore, NextHolds, ExecInv
<1>7. runner'.pc = "complete" => TrueNext(runner'.lease.id, runner'.outcome)
  BY <1>2 DEF TrueNext, B!Outcome
<1>8. Steady => \A m \in posts' : m.id \in ActionID /\ TrueNext(m.id, m.outcome)
  BY <1>1, SteadyHolds DEF HeldBefore, ExecInv
<1> QED
  BY <1>1, <1>2, <1>3, <1>4, <1>6, <1>7, <1>8, RunnerKept DEF Deciding

\* An action that the policy rejects has not run, unless it was granted again.
LEMMA EvaluateKept ==
    ASSUME ExecInv, Evaluate
    PROVE  AgentKept
<1>1. /\ UNCHANGED <<ledgerState, posts, executed, reexecuted>> /\ up /\ runner.pc = "evaluate"
      /\ runner'.pc \in {"complete", "run"} /\ runner'.lease = runner.lease
      /\ runner'.pc = "complete" => runner'.outcome \in {"failed", "rejected"}
  BY DEF Evaluate, At, Finish, Go
<1>2. PICK id \in ActionID : id = runner.lease.id
  BY <1>1 DEF ExecInv, ApprovedInv, Backed, Leasing
<1>3. Going(id) /\ id \in granted /\ (id \in executed => id \in regranted)
  BY <1>1, <1>2 DEF Going, ExecInv, GrantInv
<1>4. saving = "idle" /\ LeaseKept
  BY <1>1 DEF ExecInv, RunnerInv, LeaseKept, Leasing
<1>5. \A i : GoingNext(i) => Going(i)
  BY <1>1 DEF GoingNext, Going
<1>6. UNCHANGED <<granted, regranted>>
  BY <1>1 DEF ledgerState
<1>7. runner'.pc \in Deciding => TrueNext(runner'.lease.id, runner'.outcome)
  BY <1>1, <1>2, <1>3, <1>6 DEF TrueNext, GoingNext, B!Outcome, Deciding
<1>8. Steady => \A m \in posts' : m.id \in ActionID /\ TrueNext(m.id, m.outcome)
  BY <1>1, SteadyHolds DEF HeldBefore, ExecInv
<1> QED
  BY <1>1, <1>4, <1>5, <1>7, <1>8, RunnerKept

\* A success is reported only of a tool that has run.
LEMMA RunToolKept ==
    ASSUME ExecInv, NEW effect \in BOOLEAN, RunTool(effect)
    PROVE  AgentKept
<1>1. RunnerInv /\ GrantInv /\ ResultInv /\ HandedOver
  BY ExecInvHandsOver DEF ExecInv
<1>2. GrantInv' /\ Steady
  BY <1>1, RunToolGrant
<1>3. UNCHANGED <<entries, path, fresh, bak, saving, call, reply, up, posts>>
  BY DEF RunTool, ledgerState
<1>4. /\ up /\ runner.pc = "run" /\ runner'.pc = "complete" /\ runner'.lease = runner.lease
      /\ runner'.outcome \in {"succeeded", "failed"}
      /\ runner'.outcome = "succeeded" => runner.lease.id \in executed'
      /\ executed' \subseteq executed \cup {runner.lease.id}
  BY DEF RunTool, At, Finish
<1>5. TrueNext(runner'.lease.id, runner'.outcome)
  BY <1>4 DEF TrueNext, B!Outcome
<1>6. AgentResults
  BY <1>1, <1>2, <1>3, <1>5, SteadyHolds DEF AgentResults, HeldBefore
<1>7. RunnerInv'
  BY <1>1, <1>3, <1>4 DEF RunnerInv, Leasing
<1>8. LeaseKept
  BY <1>4 DEF LeaseKept, Leasing
<1> QED
  BY <1>2, <1>6, <1>7, <1>8 DEF AgentKept

\* The runner goes on with the outcome it has completed in the ledger.
LEMMA CompletedKept ==
    ASSUME ExecInv, Completed
    PROVE  AgentKept
<1>1. /\ UNCHANGED <<ledgerState, posts, executed, reexecuted>> /\ up /\ saving = "idle"
      /\ runner.pc = "completing" /\ runner'.pc \in {"wait", "post"}
      /\ runner'.pc = "post" => runner'.lease = runner.lease /\ runner'.outcome = runner.outcome
  BY DEF Completed, At, Finish, Waiting
<1>2. LeaseKept /\ \A i : ~ GoingNext(i)
  BY <1>1 DEF LeaseKept, Leasing, GoingNext
<1>3. Steady => /\ runner'.pc \in Deciding => TrueNext(runner'.lease.id, runner'.outcome)
                /\ \A m \in posts' : m.id \in ActionID /\ TrueNext(m.id, m.outcome)
  BY <1>1, SteadyHolds DEF HeldBefore, Deciding, ExecInv
<1> QED
  BY <1>1, <1>2, <1>3, RunnerKept

\* The result posted is the one in the runner's hands.
LEMMA PostResultKept ==
    ASSUME ExecInv, PostResult
    PROVE  AgentKept
<1>1. /\ UNCHANGED <<ledgerState, executed, reexecuted>> /\ up
      /\ runner.pc = "post" /\ runner'.pc = "wait"
      /\ posts' = posts \cup {[id |-> runner.lease.id, outcome |-> runner.outcome]}
  BY DEF PostResult, At, Waiting
<1>2. saving = "idle" /\ runner.lease.id \in ActionID
  BY <1>1 DEF ExecInv, RunnerInv, ApprovedInv, Backed, Leasing
<1>3. LeaseKept /\ \A i : ~ GoingNext(i)
  BY <1>1 DEF LeaseKept, Leasing, GoingNext
<1>4. ASSUME Steady
      PROVE  \A m \in posts' : m.id \in ActionID /\ TrueNext(m.id, m.outcome)
  <2>1. /\ TrueNext(runner.lease.id, runner.outcome)
        /\ \A m \in posts : m.id \in ActionID /\ TrueNext(m.id, m.outcome)
    BY <1>1, <1>4, SteadyHolds DEF HeldBefore, Deciding, ExecInv
  <2> QED
    BY <1>1, <1>2, <2>1
<1> QED
  BY <1>1, <1>2, <1>3, <1>4, RunnerKept DEF Deciding

\* Begin: a known action keeps its entry, a new one is not completed.
LEMMA CallBeginKept ==
    ASSUME ExecInv, CallBegin
    PROVE  AgentKept
<1>1. RunnerInv /\ GrantInv /\ ResultInv
  BY DEF ExecInv
<1>2. PICK id \in ActionID : id = runner.lease.id
  BY DEF CallBegin, At, ExecInv, ApprovedInv, Backed, Leasing
<1>3. /\ up /\ runner.pc = "begin" /\ runner'.pc = "begun" /\ runner'.lease = runner.lease
      /\ UNCHANGED <<posts, executed, reexecuted>>
  BY DEF CallBegin, At, Go
<1>4. LeaseKept
  BY <1>3 DEF LeaseKept, Leasing
<1>5. CASE L!BeginKnown(id, "digest")
  <2>1. /\ UNCHANGED <<entries, path, fresh, bak, saving, call, up, granted, regranted>>
        /\ saving = "idle" /\ id \in DOMAIN entries /\ reply' # "go"
        /\ reply' = "replay" => entries[id].status = "completed"
    BY <1>5 DEF L!BeginKnown, L!Idle, L!diskVars, L!histVars
  <2>2. \A i : ~ GoingNext(i)
    BY <1>3, <2>1 DEF GoingNext
  <2>3. GrantInv' /\ Steady
    BY <1>1, <1>3, <2>1, <2>2, QuietGrant
  <2>4. AgentResults
    BY <1>1, <1>3, <2>1, <2>3, SteadyHolds DEF AgentResults, HeldBefore, Deciding
  <2>5. RunnerInv'
    BY <1>1, <1>2, <1>3, <2>1 DEF RunnerInv, Leasing
  <2> QED
    BY <1>4, <2>3, <2>4, <2>5 DEF AgentKept
<1>6. CASE L!BeginNew(id, "digest")
  <2>1. /\ UNCHANGED <<path, fresh, bak, up, granted, regranted>>
        /\ saving' = "write" /\ call' = [op |-> "begin", id |-> id]
    BY <1>6 DEF L!BeginNew, L!diskVars
  <2>2. \A i \in DOMAIN entries' : entries'[i].status = "completed" =>
           i \in DOMAIN entries /\ entries'[i] = entries[i]
    <3>1. PICK e, D : e.status = "started" /\ entries' = L!Without(L!Set(entries, id, e), D)
      BY <1>6 DEF L!BeginNew
    <3> QED
      BY <3>1 DEF L!Without, L!Set
  <2>3. \A i : ~ GoingNext(i)
    BY <1>3, <2>1 DEF GoingNext
  <2>4. GrantInv' /\ Steady
    BY <1>1, <1>3, <2>1, <2>3, QuietGrant
  <2>5. NextHolds(entries')
    BY <1>1, <2>2, <2>4, SteadyHolds DEF NextHolds, HeldBefore
  <2>6. AgentResults
    BY <1>1, <1>3, <2>1, <2>4, <2>5, SteadyHolds DEF AgentResults, HeldBefore, Deciding
  <2>7. RunnerInv'
    BY <1>1, <1>2, <1>3, <2>1 DEF RunnerInv, Leasing
  <2> QED
    BY <1>4, <2>4, <2>6, <2>7 DEF AgentKept
<1> QED
  BY <1>2, <1>5, <1>6 DEF CallBegin, L!Begin

\* Complete: the result the runner holds becomes the entry's.
LEMMA CallCompleteKept ==
    ASSUME ExecInv, CallComplete
    PROVE  AgentKept
<1>1. RunnerInv /\ GrantInv /\ ResultInv
  BY DEF ExecInv
<1>2. PICK id \in ActionID, o \in {runner.outcome} : id = runner.lease.id /\ o = runner.outcome
  BY DEF CallComplete, At, ExecInv, ApprovedInv, Backed, Leasing
<1>3. /\ up /\ runner.pc = "complete" /\ runner'.pc = "completing"
      /\ runner'.lease = runner.lease /\ runner'.outcome = runner.outcome
      /\ UNCHANGED <<posts, executed, reexecuted>>
  BY DEF CallComplete, At, Finish
<1>4. LeaseKept /\ \A i : ~ GoingNext(i)
  BY <1>3 DEF LeaseKept, Leasing, GoingNext
<1>5. CASE L!CompleteKnown(id, "digest", o)
  <2>1. /\ UNCHANGED <<entries, path, fresh, bak, saving, call, up, granted, regranted>>
        /\ saving = "idle"
    BY <1>5 DEF L!CompleteKnown, L!Idle, L!diskVars, L!histVars
  <2>2. GrantInv' /\ Steady
    BY <1>1, <1>3, <1>4, <2>1, QuietGrant
  <2>3. AgentResults
    BY <1>1, <1>3, <2>1, <2>2, SteadyHolds DEF AgentResults, HeldBefore, Deciding
  <2>4. RunnerInv'
    BY <1>1, <1>3, <2>1 DEF RunnerInv, Leasing
  <2> QED
    BY <1>4, <2>2, <2>3, <2>4 DEF AgentKept
<1>6. CASE L!CompleteNew(id, "digest", o)
  <2>1. /\ UNCHANGED <<path, fresh, bak, up, granted, regranted>>
        /\ saving' = "write" /\ call' = [op |-> "complete", id |-> id]
    BY <1>6 DEF L!CompleteNew, L!diskVars, L!histVars
  <2>2. GrantInv' /\ Steady
    BY <1>1, <1>3, <1>4, <2>1, QuietGrant
  <2>3. HeldBefore /\ TrueNext(id, o)
    BY <1>1, <1>2, <1>3, <2>2, SteadyHolds DEF HeldBefore, Deciding
  <2>4. \A i \in DOMAIN entries' :
           IF i = id THEN entries'[i].result = o
                     ELSE i \in DOMAIN entries /\ entries'[i] = entries[i]
    <3>1. PICK e : e.result = o /\ entries' = [entries EXCEPT ![id] = e]
      BY <1>6 DEF L!CompleteNew
    <3> QED
      BY <3>1
  <2>5. NextHolds(entries')
    BY <2>3, <2>4 DEF NextHolds, HeldBefore
  <2>6. AgentResults
    BY <1>3, <2>1, <2>3, <2>5 DEF AgentResults, HeldBefore, Deciding
  <2>7. RunnerInv'
    BY <1>1, <1>2, <1>3, <2>1 DEF RunnerInv, Leasing
  <2> QED
    BY <1>4, <2>2, <2>6, <2>7 DEF AgentKept
<1> QED
  BY <1>2, <1>5, <1>6 DEF CallComplete, L!Complete

\* A step of a save moves contents among the ledger's files, and its end may
\* grant what Begin asked for.
LEMMA LedgerSaveKept ==
    ASSUME ExecInv, LedgerSave
    PROVE  AgentKept
<1>1. RunnerInv /\ GrantInv /\ ResultInv
  BY DEF ExecInv
<1>2. SaveEffect /\ UNCHANGED <<runner, posts, executed, reexecuted>>
  BY SameSave, SaveHasEffect DEF LedgerSave, runnerState
<1>3. GrantInv' /\ Steady
  BY <1>1, <1>2, SaveGrant
<1>4. HeldBefore
  BY <1>1, <1>3, SteadyHolds
<1>5. NextHolds(LP!Without(entries, {call.id}))
  BY <1>4 DEF HeldBefore, NextHolds, LP!Without
<1>6. NextHolds(entries') /\ NextHolds(fresh')
  BY <1>2, <1>4, <1>5, EmptyHolds DEF SaveEffect, HeldBefore
<1>7. (path' # Absent => NextHolds(path')) /\ (bak' # Absent => NextHolds(bak'))
  BY <1>2, <1>4 DEF SaveEffect, HeldBefore
<1>8. AgentResults
  BY <1>2, <1>4, <1>6, <1>7 DEF AgentResults, HeldBefore
<1>9. RunnerInv'
  BY <1>1, <1>2 DEF RunnerInv, SaveEffect
<1> QED
  BY <1>2, <1>3, <1>8, <1>9 DEF AgentKept, LeaseKept

\* A crash takes the memory, a restart reads the file.
LEMMA PowerKept ==
    ASSUME ExecInv, AgentCrash \/ AgentRestart
    PROVE  AgentKept
<1>1. RunnerInv /\ GrantInv /\ ResultInv
  BY DEF ExecInv
<1>2. /\ UNCHANGED <<path, bak, granted, regranted, posts, executed, reexecuted>>
      /\ runner'.pc = "wait"
      /\ fresh' \in {fresh, L!EmptyLedger}
      /\ entries' = L!EmptyLedger \/ (path # Absent /\ entries' = path)
      /\ saving' = "idle"
  <2>1. CASE AgentCrash
    BY <2>1 DEF AgentCrash, L!Crash, Waiting
  <2>2. CASE AgentRestart
    BY <1>1, <2>2 DEF AgentRestart, L!Restart, L!diskVars, L!histVars, runnerState, RunnerInv
  <2> QED
    BY <2>1, <2>2
<1>3. LeaseKept /\ \A i : ~ GoingNext(i)
  BY <1>2 DEF LeaseKept, Leasing, GoingNext
<1>4. GrantInv' /\ Steady
  BY <1>1, <1>2, <1>3, QuietGrant
<1>5. AgentResults
  BY <1>1, <1>2, <1>4, SteadyHolds, EmptyHolds DEF AgentResults, HeldBefore, Deciding
<1>6. RunnerInv'
  BY <1>2 DEF RunnerInv, Leasing
<1> QED
  BY <1>3, <1>4, <1>5, <1>6 DEF AgentKept

-----------------------------------------------------------------------------
\* Nothing is under way at first.
LEMMA ExecInitInv == ExecInit => ExecInv
<1> SUFFICES ASSUME ExecInit PROVE ExecInv
  OBVIOUS
<1>1. BP!BrokerInit
  BY DEF ExecInit, B!BrokerInit, BP!BrokerInit
<1>2. BP!BrokerInv
  BY <1>1, BrokerConstants, BP!BrokerInitInv DEF BP!BrokerInitInv
<1>3. /\ runner.pc = "wait" /\ posts = {} /\ executed = {} /\ reexecuted = {}
      /\ \A id \in ActionID : actions[id] = NoRow
      /\ \A c \in Conn : reqs[c].op = "idle"
      /\ entries = L!EmptyLedger /\ fresh = L!EmptyLedger /\ path = Absent /\ bak = Absent
      /\ saving = "idle" /\ up = TRUE /\ granted = {} /\ regranted = {}
  BY DEF ExecInit, Waiting, B!BrokerInit, L!LedgerInit
<1>4. Holds(entries) /\ Holds(fresh)
  BY <1>3 DEF Holds, L!EmptyLedger
<1>5. RunnerInv /\ ApprovedInv /\ GrantInv
  BY <1>3 DEF RunnerInv, ApprovedInv, GrantInv, Going, Leasing
<1>6. ResultInv
  BY <1>3, <1>4 DEF ResultInv, Deciding, BP!Exists
<1> QED
  BY <1>2, <1>5, <1>6 DEF ExecInv

\* Every step keeps the Agent's part of the invariant.
LEMMA ExecAgentKept ==
    ASSUME ExecInv, ExecNext
    PROVE  AgentKept
<1>1. CASE \/ \E c \in Conn : Server(c) \/ \E m \in posts : Deliver(c, m)
           \/ \E m \in posts : LosePost(m)
           \/ Operate \/ ExecTick
  BY <1>1, ElsewhereKept DEF Server, Deliver, LosePost, Operate, ExecTick, runnerState
<1> QED
  BY <1>1, FetchKept, ReceiveKept, CallBeginKept, BegunKept, EvaluateKept, RunToolKept,
     CallCompleteKept, CompletedKept, PostResultKept, LedgerSaveKept, PowerKept
     DEF ExecNext, RunnerStep

\* Every step keeps ExecInv.
LEMMA ExecStepKeeps ==
    ASSUME ExecInv, [ExecNext]_execVars
    PROVE  ExecInv'
<1>1. CASE ExecNext
  <2>1. BP!BrokerEffect /\ Carried /\ AgentKept /\ BP!BrokerInv'
    BY <1>1, ExecBrokerEffect, ExecAgentKept, ExecBrokerKept
  <2>2. ApprovedInv' /\ ResultInv'
    BY <2>1, ApprovedKept, ResultKept DEF AgentKept
  <2> QED
    BY <2>1, <2>2 DEF ExecInv, AgentKept
<1>2. CASE UNCHANGED execVars
  <2>1. BP!BrokerEffect /\ Carried /\ AgentKept /\ BP!BrokerInv'
    BY <1>2, BrokerUntouched, ElsewhereKept, ExecBrokerKept DEF execVars, brokerState, runnerState
  <2>2. ApprovedInv' /\ ResultInv'
    BY <2>1, ApprovedKept, ResultKept DEF AgentKept
  <2> QED
    BY <2>1, <2>2 DEF ExecInv, AgentKept
<1> QED
  BY <1>1, <1>2

\* The inductive invariant of the whole response path.
LEMMA ExecInvariant == ExecSpec => []ExecInv
<1>1. ExecInv /\ [ExecNext]_execVars => ExecInv'
  BY ExecStepKeeps
<1> QED
  BY <1>1, ExecInitInv, PTL DEF ExecSpec

(***************************************************************************)
(* The response path implements the broker's specification: whatever the   *)
(* runner's timeouts and late answers do, the table sees only the          *)
(* operations of response_broker.py, with arguments they accept.           *)
(***************************************************************************)
THEOREM UsesBrokerAlways == ExecSpec => UsesBroker
<1>1. ExecInit => B!BrokerInit
  BY DEF ExecInit
<1>2. ExecInv /\ [ExecNext]_execVars => [B!BrokerNext]_(B!brokerVars)
  BY ExecInvHandsOver, ExecBrokerStep
<1> QED
  BY <1>1, <1>2, ExecInvariant, PTL DEF ExecSpec, UsesBroker, B!BrokerSpec

(***************************************************************************)
(* It implements the ledger's specification: the runner calls Begin and    *)
(* Complete one at a time, for actions the broker knows and with a         *)
(* terminal result (runner.go), across timeouts, crashes and restarts.     *)
(***************************************************************************)
THEOREM UsesLedgerAlways == ExecSpec => UsesLedger
<1>1. ExecInit => L!LedgerInit
  BY DEF ExecInit
<1>2. ExecInv /\ [ExecNext]_execVars => [L!LedgerNext]_(L!ledgerVars)
  BY ExecInvHandsOver, ExecLedgerStep
<1> QED
  BY <1>1, <1>2, ExecInvariant, PTL DEF ExecSpec, UsesLedger, L!LedgerSpec

\* So it inherits what is proved of the ledger.
LEMMA InheritsGrants == ExecSpec => []LP!NoSecondGrant
<1>1. MaxLedgerEntries \in Nat /\ MaxClock \in Nat /\ Absent \notin LP!Ledgers
  BY ExecAssumption DEF L!Ledgers, LP!Ledgers, L!LedgerEntry, LP!LedgerEntry
<1>2. LP!LedgerSpec => []LP!NoSecondGrant
  BY <1>1, LP!LedgerGrantsOnce DEF LP!LedgerGrantsOnce
<1>3. ExecInit => LP!LedgerInit
  BY SameLedgerInit DEF ExecInit
<1>4. ExecInv /\ [ExecNext]_execVars => [LP!LedgerNext]_(LP!ledgerVars)
  BY ExecInvHandsOver, ExecLedgerStep, SameLedgerNext DEF L!ledgerVars, LP!ledgerVars
<1> QED
  BY <1>2, <1>3, <1>4, ExecInvariant, PTL DEF ExecSpec, LP!LedgerSpec

(***************************************************************************)
(* At most once, end to end (runner.go): a tool runs once per grant, and   *)
(* the ledger, which the response path implements, grants an action twice  *)
(* only if it pruned it or a crash lost its file.                          *)
(***************************************************************************)
THEOREM ExecutedOnceAlways == ExecSpec => []ExecutedOnce
<1>1. ExecInv /\ LP!NoSecondGrant => ExecutedOnce
  BY DEF ExecInv, GrantInv, LP!NoSecondGrant, ExecutedOnce
<1> QED
  BY <1>1, InheritsGrants, ExecInvariant, PTL

(***************************************************************************)
(* Nothing runs on an Agent without the approval of two operators: an      *)
(* approval is never withdrawn (RowsKept), so the one the lease was signed *)
(* with is still in the row when the tool has run, however late that is.   *)
(***************************************************************************)
THEOREM ExecutedWasApprovedAlways == ExecSpec => []ExecutedWasApproved
<1>1. ExecInv => ExecutedWasApproved
  BY DEF ExecInv, ApprovedInv, Backed, BP!SecondOperator, ExecutedWasApproved
<1> QED
  BY <1>1, ExecInvariant, PTL

(***************************************************************************)
(* What the broker records is what happened: the outcome the runner        *)
(* decided on is true when it decides and stays true in the ledger's map   *)
(* and files, in a post and in a request, through crashes, replays and     *)
(* late deliveries (runner.go, response_broker.py:386).                    *)
(***************************************************************************)
THEOREM RecordedResultIsTrueAlways == ExecSpec => []RecordedResultIsTrue
<1>1. ExecInv /\ LP!NoSecondGrant => RecordedResultIsTrue
  <2> SUFFICES ASSUME ExecInv, LP!NoSecondGrant, NEW id \in ActionID, B!Exists(id)
               PROVE  /\ actions[id].result = "succeeded" => id \in executed
                      /\ actions[id].result = "rejected" =>
                            id \notin executed \/ id \in pruned \/ lost
    BY DEF RecordedResultIsTrue
  <2>1. actions[id].result # "none" => TrueOutcome(id, actions[id].result)
    BY DEF ExecInv, ResultInv, BP!Exists, B!Exists
  <2> QED
    BY <2>1 DEF TrueOutcome, LP!NoSecondGrant
<1> QED
  BY <1>1, InheritsGrants, ExecInvariant, PTL

=============================================================================
