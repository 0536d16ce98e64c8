------------------------- MODULE ReplayLedgerProofs -------------------------
(***************************************************************************)
(* Proofs about ReplayLedger, for every set of actions, digests and        *)
(* results and every bound on the number of entries.                       *)
(***************************************************************************)
EXTENDS ReplayLedger, TLAPS

\* A ledger is a function from some action IDs to entries.
LEMMA LedgerShape ==
    ASSUME NEW es
    PROVE  es \in Ledgers <=> /\ DOMAIN es \subseteq ActionID
                              /\ es \in [DOMAIN es -> LedgerEntry]
BY DEF Ledgers

\* A ledger without entries is a ledger.
LEMMA EmptyIsLedger == EmptyLedger \in Ledgers /\ DOMAIN EmptyLedger = {}
BY LedgerShape DEF EmptyLedger

\* Adding or replacing one entry.
LEMMA SetIsLedger ==
    ASSUME NEW es \in Ledgers, NEW id \in ActionID, NEW e \in LedgerEntry
    PROVE  /\ Set(es, id, e) \in Ledgers
           /\ DOMAIN Set(es, id, e) = DOMAIN es \cup {id}
           /\ Set(es, id, e)[id] = e
           /\ \A i \in DOMAIN es : i # id => Set(es, id, e)[i] = es[i]
BY LedgerShape DEF Set

\* Deleting entries.
LEMMA WithoutIsLedger ==
    ASSUME NEW es \in Ledgers, NEW D
    PROVE  /\ Without(es, D) \in Ledgers
           /\ DOMAIN Without(es, D) = DOMAIN es \ D
           /\ \A i \in DOMAIN es \ D : Without(es, D)[i] = es[i]
BY LedgerShape DEF Without

\* pruneLocked only ever deletes completed entries.
LEMMA PruneDeletesCompleted ==
    ASSUME NEW es, NEW D \in PruneSets(es)
    PROVE  D \subseteq Completed(es)
BY DEF PruneSets

\* The effect of Begin on a new action, on which both proofs below rest.
LEMMA BeginNewEffect ==
    ASSUME LedgerTypeOK, NEW id \in ActionID, NEW d \in Digest, BeginNew(id, d)
    PROVE  /\ entries' \in Ledgers
           /\ id \in DOMAIN entries'
           /\ id \notin DOMAIN entries
           /\ \E D \in SUBSET DOMAIN entries :
                 /\ pruned' = pruned \cup D
                 /\ DOMAIN entries' = (DOMAIN entries \cup {id}) \ D
                 /\ \A i \in DOMAIN entries \ D : entries'[i] = entries[i]
<1> DEFINE e == [digest |-> d, status |-> "started", at |-> clock, result |-> NoResult]
           es == Set(entries, id, e)
<1>1. e \in LedgerEntry
  BY DEF LedgerTypeOK, LedgerEntry
<1>2. /\ es \in Ledgers
      /\ DOMAIN es = DOMAIN entries \cup {id}
      /\ es[id] = e
      /\ \A i \in DOMAIN entries : i # id => es[i] = entries[i]
  <2> HIDE DEF e
  <2>1. entries \in Ledgers
    BY DEF LedgerTypeOK
  <2> QED
    BY <1>1, <2>1, SetIsLedger
<1>3. PICK D \in PruneSets(es) : entries' = Without(es, D) /\ pruned' = pruned \cup D
  BY DEF BeginNew
<1>4. id \notin DOMAIN entries
  BY DEF BeginNew
<1> HIDE DEF es
<1>5. D \subseteq Completed(es)
  BY <1>3, PruneDeletesCompleted
<1>6. id \notin D
  BY <1>2, <1>5 DEF Completed
<1>7. D \subseteq DOMAIN entries
  BY <1>2, <1>5, <1>6 DEF Completed
<1>8. /\ entries' \in Ledgers
      /\ DOMAIN entries' = DOMAIN es \ D
      /\ \A i \in DOMAIN es \ D : entries'[i] = es[i]
  <2>1. /\ Without(es, D) \in Ledgers
        /\ DOMAIN Without(es, D) = DOMAIN es \ D
        /\ \A i \in DOMAIN es \ D : Without(es, D)[i] = es[i]
    BY <1>2, WithoutIsLedger
  <2> QED
    BY <1>3, <2>1
<1>9. \A i \in DOMAIN entries \ D : entries'[i] = entries[i]
  BY <1>2, <1>4, <1>8
<1> QED
  BY <1>2, <1>3, <1>4, <1>6, <1>7, <1>8, <1>9

-----------------------------------------------------------------------------
\* Removing the entry of a Begin that could not be saved keeps a ledger.
LEMMA SaveFailedEffect ==
    ASSUME LedgerTypeOK, saving # "idle", SaveFailed
    PROVE  /\ entries' \in Ledgers
           /\ DOMAIN entries' = IF call.op = "begin" THEN DOMAIN entries \ {call.id}
                                                      ELSE DOMAIN entries
           /\ saving' = "idle" /\ call' = NoCall /\ reply' = "error"
           /\ UNCHANGED <<granted, regranted, pruned>>
<1>1. entries \in Ledgers
  BY DEF LedgerTypeOK
<1>2. CASE call.op = "begin"
  <2>1. entries' = Without(entries, {call.id})
    BY <1>2 DEF SaveFailed
  <2>2. /\ Without(entries, {call.id}) \in Ledgers
        /\ DOMAIN Without(entries, {call.id}) = DOMAIN entries \ {call.id}
    BY <1>1, WithoutIsLedger
  <2> QED
    BY <1>2, <2>1, <2>2 DEF SaveFailed
<1>3. CASE call.op # "begin"
  BY <1>1, <1>3 DEF SaveFailed
<1> QED
  BY <1>2, <1>3

(***************************************************************************)
(* The variables keep their types: in particular the map in memory and     *)
(* every file are always well-formed ledgers, and a call is pending        *)
(* exactly while a save is in progress.                                    *)
(***************************************************************************)
THEOREM LedgerTypeCorrect == LedgerSpec => []LedgerTypeOK
<1>1. LedgerInit => LedgerTypeOK
  <2> SUFFICES ASSUME LedgerInit PROVE LedgerTypeOK
    OBVIOUS
  <2>1. 0 \in 0 .. MaxClock
    BY LedgerAssumption
  <2>2. call \in Call /\ reply \in Replies
    BY DEF LedgerInit, Call, Replies
  <2> QED
    BY <2>1, <2>2, EmptyIsLedger DEF LedgerInit, LedgerTypeOK
<1>2. LedgerTypeOK /\ [LedgerNext]_ledgerVars => LedgerTypeOK'
  <2> SUFFICES ASSUME LedgerTypeOK, [LedgerNext]_ledgerVars
               PROVE  LedgerTypeOK'
    OBVIOUS
  <2> USE DEF LedgerTypeOK
  <2>1. ASSUME NEW id \in ActionID, NEW d \in Digest, BeginKnown(id, d)
        PROVE  LedgerTypeOK'
    BY <2>1 DEF BeginKnown, diskVars, histVars, Replies
  <2>2. ASSUME NEW id \in ActionID, NEW d \in Digest, BeginNew(id, d)
        PROVE  LedgerTypeOK'
    <3>1. /\ entries' \in Ledgers
          /\ \E D \in SUBSET DOMAIN entries : pruned' = pruned \cup D
      BY <2>2, BeginNewEffect
    <3>2. pruned' \subseteq ActionID
      BY <3>1, LedgerShape
    <3>3. call' \in Call /\ call' # NoCall
      BY <2>2 DEF BeginNew, Call, NoCall
    <3> QED
      BY <2>2, <3>1, <3>2, <3>3 DEF BeginNew, Idle, diskVars, Replies
  <2>3. ASSUME NEW id \in ActionID, NEW d \in Digest, NEW r \in Result,
               CompleteKnown(id, d, r)
        PROVE  LedgerTypeOK'
    BY <2>3 DEF CompleteKnown, diskVars, histVars, Replies
  <2>4. ASSUME NEW id \in ActionID, NEW d \in Digest, NEW r \in Result,
               CompleteNew(id, d, r)
        PROVE  LedgerTypeOK'
    <3>1. [digest |-> d, status |-> "completed", at |-> clock, result |-> r] \in LedgerEntry
      BY DEF LedgerEntry
    <3>2. entries' \in Ledgers
      BY <2>4, <3>1, LedgerShape DEF CompleteNew, Started
    <3>3. call' \in Call /\ call' # NoCall
      BY <2>4 DEF CompleteNew, Call, NoCall
    <3> QED
      BY <2>4, <3>2, <3>3 DEF CompleteNew, diskVars, histVars, Replies
  <2>5. ASSUME NEW ok \in BOOLEAN, SaveWrite(ok)
        PROVE  LedgerTypeOK'
    <3>1. CASE ok
      BY <2>5, <3>1 DEF SaveWrite
    <3>2. CASE ~ok
      <4>1. SaveFailed /\ saving # "idle" /\ fresh' = EmptyLedger
        BY <2>5, <3>2 DEF SaveWrite
      <4> QED
        BY <2>5, <4>1, SaveFailedEffect, EmptyIsLedger DEF SaveWrite, Call, Replies
    <3> QED
      BY <3>1, <3>2
  <2>6. ASSUME NEW ok \in BOOLEAN, SaveRotate(ok)
        PROVE  LedgerTypeOK'
    <3>1. CASE ok \/ path = Absent
      BY <2>6, <3>1 DEF SaveRotate
    <3>2. CASE ~(ok \/ path = Absent)
      <4>1. SaveFailed /\ saving # "idle" /\ fresh' = EmptyLedger /\ bak' = Absent
        BY <2>6, <3>2 DEF SaveRotate
      <4> QED
        BY <2>6, <3>2, <4>1, SaveFailedEffect, EmptyIsLedger DEF SaveRotate, Call, Replies
    <3> QED
      BY <3>1, <3>2
  <2>7. ASSUME NEW ok \in BOOLEAN, NEW restored \in BOOLEAN, SaveInstall(ok, restored)
        PROVE  LedgerTypeOK'
    <3>1. CASE ok
      BY <2>7, <3>1, EmptyIsLedger DEF SaveInstall
    <3>2. CASE ~ok
      <4>1. SaveFailed /\ saving # "idle" /\ fresh' = EmptyLedger
        BY <2>7, <3>2 DEF SaveInstall
      <4> QED
        BY <2>7, <3>2, <4>1, SaveFailedEffect, EmptyIsLedger DEF SaveInstall, Call, Replies
    <3> QED
      BY <3>1, <3>2
  <2>8. ASSUME NEW ok \in BOOLEAN, SaveClean(ok)
        PROVE  LedgerTypeOK'
    <3>1. CASE ok
      <4>1. call \in [op : {"begin", "complete"}, id : ActionID]
        BY <2>8 DEF SaveClean, Call
      <4> QED
        BY <2>8, <3>1, <4>1 DEF SaveClean, SaveOK, Call, Replies
    <3>2. CASE ~ok
      <4>1. SaveFailed /\ saving # "idle"
        BY <2>8, <3>2 DEF SaveClean
      <4> QED
        BY <2>8, <4>1, SaveFailedEffect DEF SaveClean, Call, Replies
    <3> QED
      BY <3>1, <3>2
  <2>9. CASE Crash
    BY <2>9, EmptyIsLedger DEF Crash, Call, Replies, Vacant
  <2>10. CASE Restart
    BY <2>10, EmptyIsLedger DEF Restart, diskVars, histVars
  <2>11. CASE Tick
    BY <2>11, LedgerAssumption DEF Tick, diskVars, histVars
  <2>12. CASE UNCHANGED ledgerVars
    BY <2>12 DEF ledgerVars
  <2> QED
    BY <2>1, <2>2, <2>3, <2>4, <2>5, <2>6, <2>7, <2>8, <2>9, <2>10, <2>11, <2>12
       DEF LedgerNext, Begin, Complete, Save
<1> QED
  BY <1>1, <1>2, PTL DEF LedgerSpec

-----------------------------------------------------------------------------
\* A failed save keeps the inductive invariant, whatever the three files have
\* become, provided the name still holds a file that knows the grants.
LEMMA SaveFailedKeeps ==
    ASSUME LedgerIInv, LedgerTypeOK', up, up', saving # "idle", SaveFailed,
           UNCHANGED <<installed, lost>>,
           ~lost /\ path' # Absent => KnownGrants \subseteq DOMAIN path'
    PROVE  LedgerIInv'
<1>1. /\ DOMAIN entries' = IF call.op = "begin" THEN DOMAIN entries \ {call.id}
                                                ELSE DOMAIN entries
      /\ saving' = "idle" /\ call' = NoCall
      /\ UNCHANGED <<granted, regranted, pruned>>
  BY SaveFailedEffect DEF LedgerIInv
<1>2. call'.op # "begin"
  BY <1>1 DEF NoCall
<1>3. GrantsEverywhere'
  <2> SUFFICES ASSUME ~lost PROVE GrantsEverywhere'
    BY DEF GrantsEverywhere
  <2>1. KnownGrants' = KnownGrants
    BY <1>1 DEF KnownGrants
  <2>2. KnownGrants \subseteq DOMAIN entries'
    BY <1>1 DEF LedgerIInv, GrantsEverywhere
  <2> QED
    BY <1>1, <1>2, <2>1, <2>2 DEF GrantsEverywhere
<1>4. SaveWritesTheCall' /\ FileIsNamed' /\ NoSecondGrant'
  BY <1>1, <1>2 DEF LedgerIInv, SaveWritesTheCall, FileIsNamed, NoSecondGrant
<1> QED
  BY <1>3, <1>4 DEF LedgerIInv

(***************************************************************************)
(* The inductive invariant.  GrantsEverywhere is what makes a crash at any *)
(* step of replaceLedgerFile harmless outside the window in which no file  *)
(* has the ledger's name.                                                  *)
(***************************************************************************)
THEOREM LedgerInductive == LedgerSpec => []LedgerIInv
<1>1. LedgerInit => LedgerIInv
  <2> SUFFICES ASSUME LedgerInit PROVE LedgerIInv
    OBVIOUS
  <2>1. LedgerTypeOK
    <3>1. 0 \in 0 .. MaxClock
      BY LedgerAssumption
    <3>2. call \in Call /\ reply \in Replies
      BY DEF LedgerInit, Call, Replies
    <3> QED
      BY <3>1, <3>2, EmptyIsLedger DEF LedgerInit, LedgerTypeOK
  <2>2. call.op # "begin"
    BY DEF LedgerInit, NoCall
  <2> QED
    BY <2>1, <2>2 DEF LedgerInit, LedgerIInv, GrantsEverywhere, KnownGrants,
       SaveWritesTheCall, FileIsNamed, NoSecondGrant
<1>2. LedgerIInv /\ LedgerTypeOK' /\ [LedgerNext]_ledgerVars => LedgerIInv'
  <2> SUFFICES ASSUME LedgerIInv, LedgerTypeOK', [LedgerNext]_ledgerVars
               PROVE  LedgerIInv'
    OBVIOUS
  <2> USE DEF LedgerIInv
  <2>0. (call = NoCall) <=> (saving = "idle")
    BY DEF LedgerTypeOK
  <2>1. ASSUME NEW id \in ActionID, NEW d \in Digest, BeginKnown(id, d)
        PROVE  LedgerIInv'
    BY <2>1 DEF BeginKnown, diskVars, histVars, GrantsEverywhere, KnownGrants,
       SaveWritesTheCall, FileIsNamed, NoSecondGrant
  <2>2. ASSUME NEW id \in ActionID, NEW d \in Digest, BeginNew(id, d)
        PROVE  LedgerIInv'
    <3>1. PICK D \in SUBSET DOMAIN entries :
             /\ pruned' = pruned \cup D
             /\ DOMAIN entries' = (DOMAIN entries \cup {id}) \ D
      BY <2>2, BeginNewEffect
    <3>2. id \in DOMAIN entries' /\ id \notin DOMAIN entries
      BY <2>2, BeginNewEffect
    <3>3. /\ call' = [op |-> "begin", id |-> id] /\ saving' = "write"
          /\ up /\ up' /\ saving = "idle"
          /\ UNCHANGED <<path, fresh, bak, granted, regranted, installed, lost>>
      BY <2>2 DEF BeginNew, Idle, diskVars
    <3>4. GrantsEverywhere'
      <4> SUFFICES ASSUME ~lost PROVE GrantsEverywhere'
        BY <3>3 DEF GrantsEverywhere
      <4>1. KnownGrants' = KnownGrants \ D
        BY <3>1, <3>3 DEF KnownGrants
      <4>2. KnownGrants \subseteq DOMAIN entries
        BY <3>3 DEF GrantsEverywhere
      <4> QED
        BY <3>1, <3>2, <3>3, <4>1, <4>2 DEF GrantsEverywhere
    <3>5. SaveWritesTheCall' /\ FileIsNamed' /\ NoSecondGrant'
      BY <3>1, <3>2, <3>3 DEF SaveWritesTheCall, FileIsNamed, NoSecondGrant
    <3> QED
      BY <3>4, <3>5
  <2>3. ASSUME NEW id \in ActionID, NEW d \in Digest, NEW r \in Result,
               CompleteKnown(id, d, r)
        PROVE  LedgerIInv'
    BY <2>3 DEF CompleteKnown, diskVars, histVars, GrantsEverywhere, KnownGrants,
       SaveWritesTheCall, FileIsNamed, NoSecondGrant
  <2>4. ASSUME NEW id \in ActionID, NEW d \in Digest, NEW r \in Result,
               CompleteNew(id, d, r)
        PROVE  LedgerIInv'
    <3>1. DOMAIN entries' = DOMAIN entries
      BY <2>4 DEF CompleteNew
    <3>2. call'.op # "begin" /\ saving' = "write" /\ up /\ up' /\ saving = "idle"
      BY <2>4 DEF CompleteNew, Idle
    <3> QED
      BY <2>4, <3>1, <3>2 DEF CompleteNew, diskVars, histVars, GrantsEverywhere,
         KnownGrants, SaveWritesTheCall, FileIsNamed, NoSecondGrant
  <2>5. ASSUME NEW ok \in BOOLEAN, SaveWrite(ok)
        PROVE  LedgerIInv'
    <3>1. CASE ok
      BY <2>5, <3>1 DEF SaveWrite, GrantsEverywhere, KnownGrants,
         SaveWritesTheCall, FileIsNamed, NoSecondGrant
    <3>2. CASE ~ok
      <4>1. /\ up /\ up' /\ saving # "idle" /\ SaveFailed
            /\ UNCHANGED <<path, installed, lost>>
        BY <2>5, <3>2 DEF SaveWrite
      <4>2. ~lost /\ path' # Absent => KnownGrants \subseteq DOMAIN path'
        BY <4>1 DEF GrantsEverywhere
      <4> QED
        BY <4>1, <4>2, SaveFailedKeeps
    <3> QED
      BY <3>1, <3>2
  <2>6. ASSUME NEW ok \in BOOLEAN, SaveRotate(ok)
        PROVE  LedgerIInv'
    <3>1. CASE ok \/ path = Absent
      BY <2>6, <3>1 DEF SaveRotate, GrantsEverywhere, KnownGrants,
         SaveWritesTheCall, FileIsNamed, NoSecondGrant
    <3>2. CASE ~(ok \/ path = Absent)
      <4>1. /\ up /\ up' /\ saving # "idle" /\ SaveFailed
            /\ UNCHANGED <<path, installed, lost>>
        BY <2>6, <3>2 DEF SaveRotate
      <4>2. ~lost /\ path' # Absent => KnownGrants \subseteq DOMAIN path'
        BY <4>1 DEF GrantsEverywhere
      <4> QED
        BY <4>1, <4>2, SaveFailedKeeps
    <3> QED
      BY <3>1, <3>2
  <2>7. ASSUME NEW ok \in BOOLEAN, NEW restored \in BOOLEAN, SaveInstall(ok, restored)
        PROVE  LedgerIInv'
    <3>1. CASE ok
      <4>1. fresh # Absent
        BY LedgerAssumption DEF LedgerTypeOK
      <4> QED
        BY <2>7, <3>1, <4>1 DEF SaveInstall, GrantsEverywhere, KnownGrants,
           SaveWritesTheCall, FileIsNamed, NoSecondGrant
    <3>2. CASE ~ok
      <4>1. /\ up /\ up' /\ saving = "install" /\ SaveFailed
            /\ path' = bak \/ path' = path
            /\ UNCHANGED <<installed, lost>>
        BY <2>7, <3>2 DEF SaveInstall
      <4>2. ~lost /\ path' # Absent => KnownGrants \subseteq DOMAIN path'
        BY <4>1 DEF GrantsEverywhere
      <4> QED
        BY <4>1, <4>2, SaveFailedKeeps
    <3> QED
      BY <3>1, <3>2
  <2>8. ASSUME NEW ok \in BOOLEAN, SaveClean(ok)
        PROVE  LedgerIInv'
    <3>1. /\ up /\ up' /\ saving = "clean"
          /\ UNCHANGED <<path, installed, lost>>
      BY <2>8 DEF SaveClean
    <3>2. CASE ok
      <4>1. SaveOK
        BY <2>8, <3>2 DEF SaveClean
      <4>2. call'.op # "begin" /\ saving' = "idle" /\ UNCHANGED <<entries, pruned>>
        BY <4>1 DEF SaveOK, NoCall
      <4>3. CASE call.op = "begin"
        <5>1. granted' = granted \cup {call.id}
          BY <4>1, <4>3 DEF SaveOK
        <5>2. /\ call.id \in DOMAIN entries
              /\ call.id \in DOMAIN path
          BY <3>1, <4>3 DEF SaveWritesTheCall
        <5>3. GrantsEverywhere'
          BY <3>1, <4>2, <5>1, <5>2 DEF GrantsEverywhere, KnownGrants
        <5>4. SaveWritesTheCall' /\ FileIsNamed'
          BY <3>1, <4>2, <5>1 DEF SaveWritesTheCall, FileIsNamed
        <5>5. lost \/ call.id \notin granted \/ call.id \in pruned
          BY <4>3 DEF GrantsEverywhere, KnownGrants
        <5>6. regranted' = IF call.id \in granted THEN regranted \cup {call.id}
                                                  ELSE regranted
          BY <4>1, <4>3 DEF SaveOK
        <5>7. NoSecondGrant'
          BY <3>1, <4>2, <5>5, <5>6 DEF NoSecondGrant
        <5> QED
          BY <5>3, <5>4, <5>7
      <4>4. CASE call.op # "begin"
        <5>1. UNCHANGED <<granted, regranted>>
          BY <4>1, <4>4 DEF SaveOK
        <5> QED
          BY <3>1, <4>2, <5>1 DEF GrantsEverywhere, KnownGrants, SaveWritesTheCall,
             FileIsNamed, NoSecondGrant
      <4> QED
        BY <4>3, <4>4
    <3>3. CASE ~ok
      <4>1. SaveFailed
        BY <2>8, <3>3 DEF SaveClean
      <4>2. ~lost /\ path' # Absent => KnownGrants \subseteq DOMAIN path'
        BY <3>1 DEF GrantsEverywhere
      <4>3. saving # "idle" /\ UNCHANGED <<installed, lost>>
        BY <3>1
      <4> QED
        BY <3>1, <4>1, <4>2, <4>3, SaveFailedKeeps
    <3> QED
      BY <3>2, <3>3
  <2>9. CASE Crash
    <3>1. call'.op # "begin"
      BY <2>9 DEF Crash, NoCall
    <3> QED
      BY <2>9, <3>1 DEF Crash, Vacant, GrantsEverywhere, KnownGrants,
         SaveWritesTheCall, FileIsNamed, NoSecondGrant
  <2>10. CASE Restart
    <3>1. saving = "idle" /\ call = NoCall
      BY <2>0, <2>10 DEF Restart, FileIsNamed
    <3>2. call'.op # "begin" /\ saving' = "idle"
      BY <2>10, <3>1 DEF Restart, NoCall
    <3>3. ~lost /\ path = Absent => KnownGrants = {}
      BY <2>10 DEF Restart, FileIsNamed, KnownGrants
    <3>4. GrantsEverywhere'
      BY <2>10, <3>2, <3>3, EmptyIsLedger
         DEF Restart, diskVars, histVars, GrantsEverywhere, KnownGrants
    <3> QED
      BY <2>10, <3>2, <3>4 DEF Restart, diskVars, histVars,
         SaveWritesTheCall, FileIsNamed, NoSecondGrant
  <2>11. CASE Tick
    BY <2>11 DEF Tick, diskVars, histVars, GrantsEverywhere, KnownGrants,
       SaveWritesTheCall, FileIsNamed, NoSecondGrant
  <2>12. CASE UNCHANGED ledgerVars
    BY <2>12 DEF ledgerVars, GrantsEverywhere, KnownGrants,
       SaveWritesTheCall, FileIsNamed, NoSecondGrant
  <2> QED
    BY <2>1, <2>2, <2>3, <2>4, <2>5, <2>6, <2>7, <2>8, <2>9, <2>10, <2>11, <2>12
       DEF LedgerNext, Begin, Complete, Save
<1> QED
  BY <1>1, <1>2, LedgerTypeCorrect, PTL DEF LedgerSpec

(***************************************************************************)
(* Begin allows no action to run twice unless pruneLocked deleted its      *)
(* entry or a crash found no file under the ledger's name.                 *)
(***************************************************************************)
THEOREM LedgerGrantsOnce == LedgerSpec => []NoSecondGrant
<1>1. LedgerIInv => NoSecondGrant
  BY DEF LedgerIInv
<1> QED
  BY <1>1, LedgerInductive, PTL

(***************************************************************************)
(* At every moment at which the ledger file exists, it knows every action  *)
(* that Begin has allowed and pruneLocked has not deleted.                 *)
(***************************************************************************)
THEOREM LedgerGrantsDurable == LedgerSpec => []GrantsAreDurable
<1>1. LedgerIInv => GrantsAreDurable
  BY DEF LedgerIInv, GrantsEverywhere, GrantsAreDurable, KnownGrants
<1> QED
  BY <1>1, LedgerInductive, PTL

-----------------------------------------------------------------------------
(***************************************************************************)
(* A terminal result never changes.  A failed Begin deletes an entry from  *)
(* the map, so one must know that the entry it deletes holds no result:    *)
(* while Begin is saving, the entry it added is still only "started".  A   *)
(* restart reads the map from a file, so one must know that a process that *)
(* is not running holds no entry the file could contradict, and no Begin.  *)
(***************************************************************************)
PendingIsStarted ==
    call.op = "begin" => call.id \notin Completed(entries)

DownIsEmpty == ~up => call.op # "begin" /\ Completed(entries) = {}

\* What a step may do to the completed entries while the process runs.
ResultsKept ==
    \A id \in Completed(entries) :
        up' => (id \in DOMAIN entries' /\ entries'[id] = entries[id])
               \/ id \in pruned'

\* A failed save deletes at most the entry its Begin had added.
LEMMA SaveFailedKeepsResults ==
    ASSUME LedgerTypeOK, PendingIsStarted, up', saving # "idle", SaveFailed
    PROVE  PendingIsStarted' /\ DownIsEmpty' /\ ResultsKept
<1>1. call'.op # "begin"
  BY DEF SaveFailed, NoCall
<1>2. ResultsKept
  <2>1. CASE call.op = "begin"
    BY <2>1 DEF SaveFailed, ResultsKept, PendingIsStarted, Completed, Without
  <2>2. CASE call.op # "begin"
    BY <2>2 DEF SaveFailed, ResultsKept, Completed
  <2> QED
    BY <2>1, <2>2
<1> QED
  BY <1>1, <1>2 DEF PendingIsStarted, DownIsEmpty

\* ResultsAreFinal, for every limit and every set of commands: Begin, Complete,
\* prune and a failed save leave a terminal result in the map as it is, until
\* prune removes it.
THEOREM LedgerResultsAreFinal == LedgerSpec => ResultsAreFinal
<1>1. LedgerInit => PendingIsStarted /\ DownIsEmpty
  BY DEF LedgerInit, PendingIsStarted, DownIsEmpty, NoCall
<1>2. LedgerTypeOK /\ PendingIsStarted /\ DownIsEmpty /\ [LedgerNext]_ledgerVars
         => PendingIsStarted' /\ DownIsEmpty' /\ ResultsKept
  <2> SUFFICES ASSUME LedgerTypeOK, PendingIsStarted, DownIsEmpty,
                      [LedgerNext]_ledgerVars
               PROVE  PendingIsStarted' /\ DownIsEmpty' /\ ResultsKept
    OBVIOUS
  <2>1. ASSUME NEW id \in ActionID, NEW d \in Digest, BeginKnown(id, d)
        PROVE  PendingIsStarted' /\ DownIsEmpty' /\ ResultsKept
    BY <2>1 DEF BeginKnown, PendingIsStarted, DownIsEmpty, ResultsKept, Completed
  <2>2. ASSUME NEW id \in ActionID, NEW d \in Digest, BeginNew(id, d)
        PROVE  PendingIsStarted' /\ DownIsEmpty' /\ ResultsKept
    <3>1. /\ call' = [op |-> "begin", id |-> id] /\ up /\ up'
          /\ id \notin DOMAIN entries
      BY <2>2 DEF BeginNew, Idle
    <3>2. PICK D \in SUBSET DOMAIN entries :
             /\ pruned' = pruned \cup D
             /\ DOMAIN entries' = (DOMAIN entries \cup {id}) \ D
             /\ \A i \in DOMAIN entries \ D : entries'[i] = entries[i]
      BY <2>2, BeginNewEffect
    <3>3. ResultsKept
      BY <3>2 DEF ResultsKept, Completed
    <3>4. id \notin Completed(entries')
      <4>1. PICK E : entries' = Without(Set(entries, id,
                [digest |-> d, status |-> "started",
                 at |-> clock, result |-> NoResult]), E)
        BY <2>2 DEF BeginNew
      <4>2. id \in DOMAIN entries' => entries'[id].status = "started"
        BY <4>1 DEF Without, Set
      <4> QED
        BY <4>2 DEF Completed
    <3> QED
      BY <3>1, <3>3, <3>4 DEF PendingIsStarted, DownIsEmpty, Completed
  <2>3. ASSUME NEW id \in ActionID, NEW d \in Digest, NEW r \in Result,
               CompleteKnown(id, d, r)
        PROVE  PendingIsStarted' /\ DownIsEmpty' /\ ResultsKept
    BY <2>3 DEF CompleteKnown, PendingIsStarted, DownIsEmpty, ResultsKept, Completed
  <2>4. ASSUME NEW id \in ActionID, NEW d \in Digest, NEW r \in Result,
               CompleteNew(id, d, r)
        PROVE  PendingIsStarted' /\ DownIsEmpty' /\ ResultsKept
    <3>1. /\ id \notin Completed(entries)
          /\ DOMAIN entries' = DOMAIN entries
          /\ \A i \in DOMAIN entries : i # id => entries'[i] = entries[i]
      BY <2>4 DEF CompleteNew, Started, Completed
    <3>2. call'.op # "begin" /\ up /\ up'
      BY <2>4 DEF CompleteNew, Idle
    <3>3. ResultsKept
      BY <3>1 DEF ResultsKept, Completed
    <3> QED
      BY <3>2, <3>3 DEF PendingIsStarted, DownIsEmpty
  <2>5. ASSUME NEW ok \in BOOLEAN, NEW restored \in BOOLEAN,
               \/ SaveWrite(ok) \/ SaveRotate(ok)
               \/ SaveInstall(ok, restored) \/ SaveClean(ok)
        PROVE  PendingIsStarted' /\ DownIsEmpty' /\ ResultsKept
    <3>1. up /\ up' /\ saving # "idle"
      BY <2>5 DEF SaveWrite, SaveRotate, SaveInstall, SaveClean
    <3>2. \/ SaveFailed
          \/ UNCHANGED <<entries, call>>
          \/ SaveOK
      BY <2>5 DEF SaveWrite, SaveRotate, SaveInstall, SaveClean
    <3>3. CASE SaveFailed
      BY <3>1, <3>3, SaveFailedKeepsResults
    <3>4. CASE UNCHANGED <<entries, call>>
      BY <3>1, <3>4 DEF PendingIsStarted, DownIsEmpty, ResultsKept, Completed
    <3>5. CASE SaveOK
      BY <3>1, <3>5 DEF SaveOK, NoCall, PendingIsStarted, DownIsEmpty,
         ResultsKept, Completed
    <3> QED
      BY <3>2, <3>3, <3>4, <3>5
  <2>6. CASE Crash
    BY <2>6 DEF Crash, EmptyLedger, NoCall, PendingIsStarted, DownIsEmpty,
       ResultsKept, Completed
  <2>7. CASE Restart
    <3>1. ~up /\ up' /\ call' = call /\ saving' = saving
      BY <2>7 DEF Restart
    <3>2. call.op # "begin"
      BY <3>1 DEF DownIsEmpty
    <3> QED
      BY <3>1, <3>2 DEF PendingIsStarted, DownIsEmpty, ResultsKept
  <2>8. CASE Tick
    BY <2>8 DEF Tick, PendingIsStarted, DownIsEmpty, ResultsKept, Completed
  <2>9. CASE UNCHANGED ledgerVars
    BY <2>9 DEF ledgerVars, PendingIsStarted, DownIsEmpty, ResultsKept, Completed
  <2> QED
    BY <2>1, <2>2, <2>3, <2>4, <2>5, <2>6, <2>7, <2>8, <2>9
       DEF LedgerNext, Begin, Complete, Save
<1>3. ResultsKept => [\A id \in Completed(entries) :
          up' => (id \in DOMAIN entries' /\ entries'[id] = entries[id])
                 \/ id \in pruned']_ledgerVars
  BY DEF ResultsKept
<1> QED
  BY <1>1, <1>2, <1>3, LedgerTypeCorrect, PTL DEF LedgerSpec, ResultsAreFinal

=============================================================================
