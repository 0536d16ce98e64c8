-------------------------- MODULE AgentHostProofs ---------------------------
(***************************************************************************)
(* Proofs about the parts of an Agent host, for every set of addresses,    *)
(* ports and contents and every bound: the response tools, with the three  *)
(* families of ResponseTools, the runtime with its journal, tailer and     *)
(* drift rule, and the client of Central.                                  *)
(***************************************************************************)
EXTENDS AgentHost, TLAPS, FiniteSetTheorems, SequenceTheorems

-----------------------------------------------------------------------------
(***************************************************************************)
(* Calls.                                                                  *)
(***************************************************************************)
Steps == {"start", "save", "create", "undo", "drop", "add", "delete",
          "forget", "export", "unpass", "pass", "dns", "block",
          "rollback", "clear", "import", "disown", "copy", "check",
          "manifest", "remove", "fill", "dropObject", "dropManifest"}

Calls == [pc : Steps, op : {Operations[t][i] : t \in DOMAIN Operations, i \in {1, 2}},
          arg : {"host", "any"} \cup Target \cup Content, fresh : BOOLEAN]

\* What a containment call is given goes with what it is to do.
Asked ==
    \/ call.op \in {"isolate", "release"}
    \/ call.op \in {"block", "unblock"} /\ call.arg \in Addr
    \/ call.op \in {"open", "close"} /\ call.arg \in Port

CallInv ==
    /\ call = Idle \/ call \in Calls
    /\ ctx \in {"live", "cancelled"} /\ unsettled \in BOOLEAN /\ calls \in 0..MaxCalls
    /\ call # Idle => calls # 0 /\ ~ answer.ok /\ (family # "files" => Asked)

\* The four tools and their operations.
LEMMA OperationsAre ==
    /\ DOMAIN Operations = {"host.isolate", "firewall.block", "firewall.port", "file.quarantine"}
    /\ Operations["host.isolate"][1] = "isolate" /\ Operations["host.isolate"][2] = "release"
    /\ Operations["firewall.block"][1] = "block" /\ Operations["firewall.block"][2] = "unblock"
    /\ Operations["firewall.port"][1] = "open" /\ Operations["firewall.port"][2] = "close"
    /\ Operations["file.quarantine"][1] = "quarantine"
    /\ Operations["file.quarantine"][2] = "restore"
BY DEF Operations

\* The idle state is not the state of a call.
LEMMA IdleIsNoCall ==
    /\ Idle \notin Calls /\ Idle.pc = "idle"
    /\ call.pc # "idle" => call # Idle
BY DEF Idle, Calls, Steps

\* A call goes on to its next step.
LEMMA GotoEffect ==
    ASSUME call \in Calls, NEW pc \in Steps, Goto(pc)
    PROVE  /\ call' \in Calls /\ call' # Idle
           /\ call'.pc = pc /\ call'.op = call.op /\ call'.arg = call.arg
           /\ call'.fresh = call.fresh
           /\ UNCHANGED <<answer, calls>>
<1>1. /\ call' \in Calls
      /\ call'.pc = pc /\ call'.op = call.op /\ call'.arg = call.arg
      /\ call'.fresh = call.fresh
  BY DEF Goto, Calls
<1> QED
  BY <1>1, IdleIsNoCall DEF Goto

\* A call that goes to another point, fresh, keeps what it was asked.
LEMMA FreshCall ==
    ASSUME NEW P, NEW O, NEW A, NEW c \in [pc : P, op : O, arg : A, fresh : BOOLEAN], NEW pc \in P,
           NEW d, d = [c EXCEPT !.pc = pc, !.fresh = TRUE]
    PROVE  /\ d \in [pc : P, op : O, arg : A, fresh : BOOLEAN]
           /\ d.pc = pc /\ d.op = c.op /\ d.arg = c.arg /\ d.fresh
OBVIOUS

\* GotoFresh moves the call and marks it fresh.
LEMMA GotoFreshEffect ==
    ASSUME call \in Calls, NEW pc \in Steps, GotoFresh(pc)
    PROVE  /\ call' \in Calls /\ call' # Idle
           /\ call'.pc = pc /\ call'.op = call.op /\ call'.arg = call.arg
           /\ call'.fresh
           /\ UNCHANGED <<answer, calls>>
<1>1. call' = [call EXCEPT !.pc = pc, !.fresh = TRUE]
  BY DEF GotoFresh
<1>2. /\ call' \in Calls
      /\ call'.pc = pc /\ call'.op = call.op /\ call'.arg = call.arg
      /\ call'.fresh
  <2> DEFINE O == {Operations[t][i] : t \in DOMAIN Operations, i \in {1, 2}}
             A == {"host", "any"} \cup Target \cup Content
  <2>1. Calls = [pc : Steps, op : O, arg : A, fresh : BOOLEAN]
    BY DEF Calls
  <2> HIDE DEF O, A
  <2> QED
    BY <1>1, <2>1, FreshCall
<1> QED
  BY <1>2, IdleIsNoCall DEF GotoFresh

\* An answer ends the call and names what it was asked.
LEMMA AnswerEffect ==
    ASSUME NEW ok \in BOOLEAN, Answer(ok)
    PROVE  /\ call' = Idle /\ calls' = calls
           /\ answer'.ok = ok /\ answer'.op = call.op /\ answer'.arg = call.arg
BY DEF Answer

\* However a command ends, the history of cut-off commands only grows.
LEMMA CommandEnds ==
    ASSUME ctx \in {"live", "cancelled"}, unsettled \in BOOLEAN,
           Succeeds \/ Fails \/ CleanupFails \/ KilledAfterEffect \/ FileStep
    PROVE  ctx' \in {"live", "cancelled"} /\ unsettled' \in BOOLEAN /\ (unsettled => unsettled')
BY DEF Succeeds, Fails, CleanupFails, KilledAfterEffect, FileStep

\* What may be asked for.
LEMMA RequestShape ==
    /\ \A r \in Requests :
          /\ r[3] \in {"host"} \cup Target
          /\ \/ r[1] = "host.isolate"
             \/ r[1] = "firewall.block" /\ r[3] \in Addr
             \/ r[1] = "firewall.port" /\ r[3] \in Port
    /\ \A r \in FileRequests : r[3] \in {"any"} \cup Content
BY DEF Requests, FileRequests, Target

\* A call that is made.
LEMMA ExecuteEffect ==
    ASSUME CallInv, ExecuteTool
    PROVE  /\ CallInv' /\ call = Idle /\ call' # Idle /\ call'.pc = "start" /\ ~ call'.fresh
           /\ UNCHANGED <<ctx, unsettled, nftVars, quarantineVars, netshVars, family>>
<1>1. PICK r \in IF family = "files" THEN FileRequests ELSE Requests : Execute(r[1], r[2], r[3])
  BY DEF ExecuteTool
<1>2. PICK op \in {Operations[t][i] : t \in DOMAIN Operations, i \in {1, 2}} :
         op = containmentOperation(r[1], r[2])
  BY <1>1 DEF Execute, Routed
<1>3. r[3] \in {"host", "any"} \cup Target \cup Content
  BY <1>1, RequestShape
<1>4. call' = [pc |-> "start", op |-> op, arg |-> r[3], fresh |-> FALSE]
  BY <1>1, <1>2 DEF Execute
<1>5. call' \in Calls /\ call'.pc = "start" /\ ~ call'.fresh /\ call'.op = op /\ call'.arg = r[3]
  BY <1>2, <1>3, <1>4 DEF Calls, Steps
<1>6. calls' \in 0..MaxCalls /\ calls' # 0
  BY <1>1, MaxCallsAssumption DEF Execute, CallInv
<1>7. call = Idle /\ ~ answer'.ok /\ UNCHANGED <<ctx, unsettled>>
  BY <1>1 DEF Execute, NoAnswer
<1>8. ASSUME family # "files" PROVE Asked'
  <2>1. r \in Requests /\ Routed(r[1], r[2])
    BY <1>1, <1>8 DEF Execute
  <2>2. \/ r[1] = "host.isolate"
        \/ r[1] = "firewall.block" /\ r[3] \in Addr
        \/ r[1] = "firewall.port" /\ r[3] \in Port
    BY <2>1, RequestShape
  <2>3. op \in {Operations[r[1]][1], Operations[r[1]][2]}
    BY <1>2, <2>1 DEF Routed
  <2> QED
    BY <1>5, <2>2, <2>3, OperationsAre DEF Asked
<1>9. UNCHANGED <<nftVars, quarantineVars, netshVars, family>>
  BY DEF ExecuteTool
<1>10. CallInv'
  BY <1>5, <1>6, <1>7, <1>8, <1>9 DEF CallInv
<1> QED
  BY <1>5, <1>7, <1>9, <1>10, IdleIsNoCall

-----------------------------------------------------------------------------
(***************************************************************************)
(* The invariant.  Each family relies on what its call has seen or done:   *)
(* the step the call has come to says what holds of files and rules.       *)
(***************************************************************************)
NftTypes ==
    /\ table \subseteq {"isolation", "block"} /\ state \subseteq {"isolation", "block"}
    /\ blocked \subseteq Addr /\ (blocked # {} => "block" \in table)

NftStage ==
    /\ call.pc \in {"save", "create", "undo", "forget"} => (Table \in table => unsettled)
    /\ call.pc = "create" => Table \in state
    /\ call.pc \in {"drop", "add"} => "block" \in table

NftInv == NftTypes /\ TableIsOwned /\ NftAnswerIsTrue /\ (call # Idle => NftStage)

NetshTypes ==
    /\ policy \in Policies /\ isolation \in Policies \cup {None}
    /\ backup \in Policies \cup {None}
    /\ owner \in [Target -> (1..MaxCalls) \cup {None}] /\ reverted \subseteq Target
    /\ reapplied \in BOOLEAN

\* Isolate and release: the backup a release verifies is there before the host is
\* cut off, and until it no longer is.
IsolateStage ==
    CASE call.pc = "export"   -> isolation = None /\ backup = None
      [] call.pc = "save"     -> isolation = None /\ backup # None
      [] call.pc = "unpass"   -> validateIsolationBackup
      [] call.pc = "pass"     -> validateIsolationBackup /\ (policy.out = "block" => reapplied)
      [] call.pc = "dns"      -> /\ validateIsolationBackup /\ (policy.out = "block" => reapplied)
                                 /\ "control" \in policy.pass
      [] call.pc = "block"    -> /\ validateIsolationBackup /\ (policy.out = "block" => reapplied)
                                 /\ policy.pass = {"control", "dns"}
      [] call.pc = "rollback" -> validateIsolationBackup
      [] call.pc = "clear"    -> policy.out = "allow"
      [] OTHER                -> TRUE

ReleaseStage ==
    /\ call.pc = "import" => validateIsolationBackup
    /\ call.pc \in {"forget", "drop"} => policy.out = "allow"

\* Rules: a name is in its file before a rule has it, and until none has.
RuleStage ==
    /\ call.pc = "save" => owner[call.arg] = None
    /\ call.pc \in {"delete", "add", "undo", "disown"} => owner[call.arg] # None
    /\ call.pc = "disown" /\ RulesOf(policy, call.arg) # {} =>
          unsettled \/ call.arg \in reverted

NetshStage ==
    /\ call.op = "isolate" => IsolateStage
    /\ call.op = "release" => ReleaseStage
    /\ call.op \notin {"isolate", "release"} => RuleStage

NetshSafe ==
    /\ NetshTypes
    /\ IsolationIsReversible /\ ControlPathIsOpen /\ RuleIsOwned
    /\ backup # None => backup.out = "allow"

NetshInv == NetshSafe /\ NetshAnswerIsTrue /\ (call # Idle => NetshStage)

FilesTypes ==
    /\ file \in Content \cup {Nothing, Partial}
    /\ object \subseteq Content /\ manifest \subseteq Content
    /\ held \in [content : Content \cup {Nothing, Partial}, same : BOOLEAN, linked : BOOLEAN]
    /\ meant \in Content \cup {Nothing} /\ raced \in BOOLEAN
    /\ call = Idle => held = NotHeld

\* What a quarantine or a restore holds is what has the path, unless it raced.
FilesStage ==
    /\ call.pc = "start" => held = NotHeld
    /\ call.pc # "start" =>
          /\ held.content # Nothing
          /\ held.linked => file # Nothing
          /\ ~ raced => held.linked
    /\ call.pc = "check" /\ held.same /\ ~ raced => file = held.content
    /\ call.pc \in {"manifest", "remove", "dropObject", "dropManifest"} /\ ~ raced =>
          file = held.content
    /\ call.pc = "manifest" => held.content \in object \ manifest
    /\ call.pc = "remove" => held.content \in object \cap manifest
    /\ call.pc = "fill" => held.content \in Content /\ (~ raced => file = Partial)

FilesInv == FilesTypes /\ ContentIsKept /\ (call # Idle => FilesStage)

\* The families that a behaviour does not use keep their initial state.
ToolsInv ==
    /\ family \in {"nft", "netsh", "files"}
    /\ CallInv
    /\ IF family = "nft" THEN NftInv ELSE NftInit
    /\ IF family = "netsh" THEN NetshInv ELSE NetshInit
    /\ IF family = "files" THEN FilesInv ELSE FilesTypes /\ held = NotHeld /\ file = meant

-----------------------------------------------------------------------------
(***************************************************************************)
(* A step of a call.                                                       *)
(***************************************************************************)
CommandDone ==
    ctx' \in {"live", "cancelled"} /\ unsettled' \in BOOLEAN /\ (unsettled => unsettled')

\* The call has come to pc.
Came(pc) ==
    /\ call' # Idle /\ CallInv'
    /\ call'.pc = pc /\ call'.op = call.op /\ call'.arg = call.arg
    /\ ~ answer'.ok

\* The call is over.
Over(ok) ==
    /\ call' = Idle /\ CallInv'
    /\ answer'.ok = ok /\ answer'.op = call.op /\ answer'.arg = call.arg

\* A call that goes on has come to its next point.
LEMMA CallComes ==
    ASSUME CallInv, call # Idle, family' = family, CommandDone, NEW pc \in Steps,
           Goto(pc) \/ GotoFresh(pc)
    PROVE  Came(pc) /\ call'.fresh \in {call.fresh, TRUE}
<1>1. call \in Calls
  BY DEF CallInv
<1>2. /\ call' \in Calls /\ call' # Idle
      /\ call'.pc = pc /\ call'.op = call.op /\ call'.arg = call.arg
      /\ call'.fresh \in {call.fresh, TRUE}
      /\ UNCHANGED <<answer, calls>>
  <2>1. CASE Goto(pc)
    BY <1>1, <2>1, GotoEffect
  <2>2. CASE GotoFresh(pc)
    <3>1. call'.fresh = TRUE
      BY <1>1, <2>2, GotoFreshEffect DEF Calls
    <3> QED
      BY <1>1, <2>2, <3>1, GotoFreshEffect
  <2> QED
    BY <2>1, <2>2
<1>3. CallInv'
  BY <1>2 DEF CallInv, Asked, CommandDone
<1> QED
  BY <1>2, <1>3 DEF Came, CallInv

\* A call that answers is over.
LEMMA CallEnds ==
    ASSUME CallInv, call # Idle, family' = family, CommandDone, NEW ok \in BOOLEAN, Answer(ok)
    PROVE  Over(ok)
BY AnswerEffect DEF Over, CallInv, CommandDone

\* A call that ends with the process leaves no answer.
LEMMA CallDrops ==
    ASSUME CallInv, call' = Idle, ctx' = "live", answer' = NoAnswer,
           UNCHANGED <<calls, unsettled, family>>
    PROVE  CallInv' /\ ~ answer'.ok
BY DEF CallInv, NoAnswer

-----------------------------------------------------------------------------
(***************************************************************************)
(* nftables.                                                               *)
(***************************************************************************)
NftKept == CallInv' /\ NftInv'

\* A call goes on.
LEMMA NftComes ==
    ASSUME NftInv, CallInv, call # Idle, NEW pc, Came(pc), NftTypes', CommandDone,
           ~ unsettled' => table' \subseteq state',
           pc \in {"save", "create", "undo", "forget"} => (Table \in table' => unsettled'),
           pc = "create" => Table \in state',
           pc \in {"drop", "add"} => "block" \in table'
    PROVE  NftKept
<1>1. Table' = Table
  BY DEF Came, Table
<1>2. NftStage' /\ TableIsOwned' /\ NftAnswerIsTrue'
  BY <1>1 DEF NftStage, Came, TableIsOwned, NftAnswerIsTrue
<1> QED
  BY <1>2 DEF NftKept, NftInv, Came

\* A call fails.
LEMMA NftFails ==
    ASSUME Over(FALSE), NftTypes', ~ unsettled' => table' \subseteq state'
    PROVE  NftKept
BY DEF NftKept, NftInv, Over, TableIsOwned, NftAnswerIsTrue

\* A call succeeds.
LEMMA NftSucceeds ==
    ASSUME Over(TRUE), NftTypes', ~ unsettled' => table' \subseteq state',
           \/ call.op = "isolate" /\ "isolation" \in table'
           \/ call.op = "block" /\ "block" \in table' /\ call.arg \in blocked'
           \/ call.op = "release" /\ ("isolation" \in table' => unsettled')
           \/ call.op = "unblock" /\ (call.arg \in blocked' => unsettled')
    PROVE  NftKept
<1>1. NftAnswerIsTrue'
  BY DEF Over, NftAnswerIsTrue
<1> QED
  BY <1>1 DEF NftKept, NftInv, Over, TableIsOwned

\* The steps that set the table up keep the invariant of nftables: the state is
\* written before the table is made.
LEMMA NftEstablishKept ==
    ASSUME CallInv, NftInv, call # Idle, family' = family,
           call.op \in {"isolate", "block"}, NftEstablish
    PROVE  NftKept
<1>0. /\ NftTypes /\ NftStage /\ (~ unsettled => table \subseteq state)
      /\ ctx \in {"live", "cancelled"} /\ unsettled \in BOOLEAN
      /\ Table \in {"isolation", "block"}
      /\ Table = IF call.op = "isolate" THEN "isolation" ELSE "block"
  BY DEF NftInv, TableIsOwned, CallInv, Table
<1>1. CASE EstablishFails
  <2>1. CommandDone /\ Answer(FALSE) /\ UNCHANGED <<table, state, blocked>>
    BY <1>0, <1>1, CommandEnds DEF EstablishFails, NftDone, nftVars, CommandDone
  <2>2. Over(FALSE)
    BY <2>1, CallEnds
  <2> QED
    BY <1>0, <2>1, <2>2, NftFails DEF NftTypes, CommandDone
<1>2. CASE EstablishLook
  <2>1. PICK seen \in BOOLEAN :
          /\ Listed(seen)
          /\ \/ seen /\ Table \notin state /\ NftDone(FALSE)
             \/ seen /\ Table \in state /\ call.op = "isolate" /\ NftDone(TRUE)
             \/ seen /\ Table \in state /\ call.op = "block" /\ NftGoto("drop")
             \/ ~seen /\ NftGoto(IF Table \in state THEN "create" ELSE "save")
    BY <1>2 DEF EstablishLook
  <2>2. CommandDone
    BY <1>0, <2>1, CommandEnds DEF Listed, CommandDone
  <2>3. UNCHANGED <<table, state, blocked>> /\ NftTypes'
    BY <1>0, <2>1 DEF NftDone, NftGoto, nftVars, NftTypes
  <2>4. CASE seen /\ Table \notin state /\ NftDone(FALSE)
    <3>1. Over(FALSE)
      BY <2>2, <2>4, CallEnds DEF NftDone
    <3> QED
      BY <1>0, <2>2, <2>3, <3>1, NftFails DEF CommandDone
  <2>5. CASE seen /\ Table \in state /\ call.op = "isolate" /\ NftDone(TRUE)
    <3>1. Over(TRUE)
      BY <2>2, <2>5, CallEnds DEF NftDone
    <3>2. "isolation" \in table
      BY <1>0, <2>1, <2>5 DEF Listed
    <3> QED
      BY <1>0, <2>2, <2>3, <2>5, <3>1, <3>2, NftSucceeds DEF CommandDone
  <2>6. CASE seen /\ Table \in state /\ call.op = "block" /\ NftGoto("drop")
    <3>1. Came("drop")
      BY <2>2, <2>6, CallComes DEF NftGoto, Steps
    <3>2. "block" \in table
      BY <1>0, <2>1, <2>6 DEF Listed
    <3> QED
      BY <1>0, <2>2, <2>3, <3>1, <3>2, NftComes DEF CommandDone
  <2>7. CASE ~seen /\ NftGoto(IF Table \in state THEN "create" ELSE "save")
    <3>1. PICK pc \in {"create", "save"} : pc = IF Table \in state THEN "create" ELSE "save"
      OBVIOUS
    <3>2. Came(pc)
      BY <2>2, <2>7, <3>1, CallComes DEF NftGoto, Steps
    <3>3. Table \in table => unsettled'
      BY <2>1, <2>7 DEF Listed, CleanupFails
    <3> QED
      BY <1>0, <2>2, <2>3, <3>1, <3>2, <3>3, NftComes DEF CommandDone
  <2> QED
    BY <2>1, <2>4, <2>5, <2>6, <2>7
<1>3. CASE EstablishSave
  <2>1. CommandDone /\ call.pc = "save" /\ UNCHANGED <<table, blocked>>
    BY <1>0, <1>3, CommandEnds DEF EstablishSave, CommandDone
  <2>2. state \subseteq state' /\ state' \subseteq state \cup {Table} /\ NftTypes'
    BY <1>0, <1>3 DEF EstablishSave, NftTypes
  <2>3. CASE state' = state \cup {Table} /\ GotoFresh("create")
    <3>1. Came("create")
      BY <2>1, <2>3, CallComes DEF Steps
    <3> QED
      BY <1>0, <2>1, <2>2, <2>3, <3>1, NftComes DEF CommandDone, NftStage
  <2>4. CASE Answer(FALSE)
    <3>1. Over(FALSE)
      BY <2>1, <2>4, CallEnds
    <3> QED
      BY <1>0, <2>1, <2>2, <3>1, NftFails DEF CommandDone
  <2> QED
    BY <1>3, <2>3, <2>4 DEF EstablishSave
<1>4. CASE EstablishCreate
  <2>1. CommandDone /\ call.pc = "create" /\ UNCHANGED <<state, blocked>>
    BY <1>0, <1>4, CommandEnds DEF EstablishCreate, CommandDone
  <2>2. /\ Table \in state /\ table \subseteq table' /\ table' \subseteq table \cup {Table}
        /\ NftTypes' /\ (~ unsettled' => table' \subseteq state')
    BY <1>0, <1>4, <2>1 DEF EstablishCreate, NftTypes, NftStage, CommandDone
  <2>3. CASE Table \in table' /\ call.op = "isolate" /\ Answer(TRUE)
    <3>1. Over(TRUE)
      BY <2>1, <2>3, CallEnds
    <3> QED
      BY <1>0, <2>2, <2>3, <3>1, NftSucceeds
  <2>4. CASE Table \in table' /\ call.op = "block" /\ Goto("drop")
    <3>1. Came("drop")
      BY <2>1, <2>4, CallComes DEF Steps
    <3> QED
      BY <1>0, <2>1, <2>2, <2>4, <3>1, NftComes
  <2>5. CASE (Table \in table' => unsettled') /\ Goto("undo")
    <3>1. Came("undo")
      BY <2>1, <2>5, CallComes DEF Steps
    <3> QED
      BY <1>0, <2>1, <2>2, <2>5, <3>1, NftComes
  <2>6. CASE Answer(FALSE)
    <3>1. Over(FALSE)
      BY <2>1, <2>6, CallEnds
    <3> QED
      BY <2>2, <3>1, NftFails
  <2> QED
    BY <1>0, <1>4, <2>1, <2>3, <2>4, <2>5, <2>6
       DEF EstablishCreate, NftStage, CommandDone, KilledAfterEffect
<1>5. CASE EstablishUndo
  <2>1. CommandDone /\ call.pc = "undo" /\ UNCHANGED <<table, blocked>> /\ Answer(FALSE)
    BY <1>0, <1>5, CommandEnds DEF EstablishUndo, CommandDone
  <2>2. NftTypes' /\ (~ unsettled' => table' \subseteq state')
    BY <1>0, <1>5, <2>1 DEF EstablishUndo, NftTypes, NftStage, CommandDone
  <2>3. Over(FALSE)
    BY <2>1, CallEnds
  <2> QED
    BY <2>2, <2>3, NftFails
<1> QED
  BY <1>1, <1>2, <1>3, <1>4, <1>5 DEF NftEstablish

\* So do the steps that drop and add an address: they act on the table the call
\* has found or made.
LEMMA NftElementKept ==
    ASSUME CallInv, NftInv, call # Idle, family' = family, family # "files",
           call.op = "block", BlockDrop \/ BlockAdd
    PROVE  NftKept
<1>0. /\ NftTypes /\ NftStage /\ (~ unsettled => table \subseteq state)
      /\ ctx \in {"live", "cancelled"} /\ unsettled \in BOOLEAN /\ call.arg \in Addr
      /\ UNCHANGED <<table, state>> /\ "block" \in table
  BY DEF NftInv, TableIsOwned, CallInv, NftStage, BlockDrop, BlockAdd, At, Asked
<1>1. CommandDone
  BY <1>0, CommandEnds DEF BlockDrop, BlockAdd, CommandDone
<1>2. CASE BlockDrop
  <2>1. NftTypes' /\ Goto("add")
    BY <1>0, <1>2 DEF BlockDrop, NftTypes
  <2>2. Came("add")
    BY <1>1, <2>1, CallComes DEF Steps
  <2> QED
    BY <1>0, <1>1, <2>1, <2>2, NftComes DEF CommandDone
<1>3. CASE BlockAdd
  <2>1. NftTypes'
    BY <1>0, <1>3 DEF BlockAdd, NftTypes
  <2>2. CASE call.arg \in blocked' /\ Answer(TRUE)
    <3>1. Over(TRUE)
      BY <1>1, <2>2, CallEnds
    <3> QED
      BY <1>0, <1>1, <2>1, <2>2, <3>1, NftSucceeds DEF CommandDone
  <2>3. CASE Answer(FALSE)
    <3>1. Over(FALSE)
      BY <1>1, <2>3, CallEnds
    <3> QED
      BY <1>0, <1>1, <2>1, <3>1, NftFails DEF CommandDone
  <2> QED
    BY <1>3, <2>2, <2>3 DEF BlockAdd
<1> QED
  BY <1>2, <1>3

\* So do the steps that take the table, or an address in it, away: the state
\* goes after the table.
LEMMA NftWithdrawKept ==
    ASSUME CallInv, NftInv, call # Idle, family' = family,
           call.op \in {"release", "unblock"}, NftWithdraw
    PROVE  NftKept
<1>0. /\ NftTypes /\ NftStage /\ (~ unsettled => table \subseteq state)
      /\ ctx \in {"live", "cancelled"} /\ unsettled \in BOOLEAN
      /\ Table = IF call.op = "release" THEN "isolation" ELSE "block"
  BY DEF NftInv, TableIsOwned, CallInv, Table
\* A table that is not there has no elements.
<1>1. ASSUME NftTypes', Table \in table' => unsettled'
      PROVE  \/ call.op = "release" /\ ("isolation" \in table' => unsettled')
             \/ call.op = "unblock" /\ (call.arg \in blocked' => unsettled')
  BY <1>0, <1>1 DEF NftTypes
<1>2. CASE WithdrawLook
  <2>1. PICK seen \in BOOLEAN :
          /\ Listed(seen)
          /\ \/ seen /\ Table \notin state /\ NftDone(FALSE)
             \/ seen /\ Table \in state /\ NftGoto("delete")
             \/ ~seen /\ Table \notin state /\ NftDone(TRUE)
             \/ ~seen /\ Table \in state /\ NftGoto("forget")
    BY <1>2 DEF WithdrawLook
  <2>2. CommandDone
    BY <1>0, <2>1, CommandEnds DEF Listed, CommandDone
  <2>3. UNCHANGED <<table, state, blocked>> /\ NftTypes'
    BY <1>0, <2>1 DEF NftDone, NftGoto, nftVars, NftTypes
  <2>4. ~seen => (Table \in table' => unsettled')
    BY <2>1, <2>3 DEF Listed, CleanupFails
  <2>5. CASE NftDone(FALSE)
    <3>1. Over(FALSE)
      BY <2>2, <2>5, CallEnds DEF NftDone
    <3> QED
      BY <1>0, <2>2, <2>3, <3>1, NftFails DEF CommandDone
  <2>6. CASE ~seen /\ NftDone(TRUE)
    <3>1. Over(TRUE)
      BY <2>2, <2>6, CallEnds DEF NftDone
    <3> QED
      BY <1>0, <1>1, <2>2, <2>3, <2>4, <2>6, <3>1, NftSucceeds DEF CommandDone
  <2>7. CASE NftGoto("delete")
    <3>1. Came("delete")
      BY <2>2, <2>7, CallComes DEF NftGoto, Steps
    <3> QED
      BY <1>0, <2>2, <2>3, <3>1, NftComes DEF CommandDone
  <2>8. CASE ~seen /\ NftGoto("forget")
    <3>1. Came("forget")
      BY <2>2, <2>8, CallComes DEF NftGoto, Steps
    <3> QED
      BY <1>0, <2>2, <2>3, <2>4, <2>8, <3>1, NftComes DEF CommandDone
  <2> QED
    BY <2>1, <2>5, <2>6, <2>7, <2>8
<1>3. CASE WithdrawDelete
  <2>1. CommandDone /\ UNCHANGED state
    BY <1>0, <1>3, CommandEnds DEF WithdrawDelete, CommandDone
  <2>2. NftTypes' /\ (~ unsettled' => table' \subseteq state')
    BY <1>0, <1>3, <2>1 DEF WithdrawDelete, NftTypes, CommandDone
  <2>3. CASE Answer(FALSE)
    <3>1. Over(FALSE)
      BY <2>1, <2>3, CallEnds
    <3> QED
      BY <2>2, <3>1, NftFails
  <2>4. CASE table' = table \ {Table} /\ Goto("forget")
    <3>1. Came("forget")
      BY <2>1, <2>4, CallComes DEF Steps
    <3> QED
      BY <2>1, <2>2, <2>4, <3>1, NftComes
  <2>5. CASE call.op = "unblock" /\ call.arg \notin blocked' /\ Answer(TRUE)
    <3>1. Over(TRUE)
      BY <2>1, <2>5, CallEnds
    <3> QED
      BY <2>2, <2>5, <3>1, NftSucceeds
  <2> QED
    BY <1>3, <2>3, <2>4, <2>5 DEF WithdrawDelete
<1>4. CASE WithdrawForget
  <2>1. CommandDone /\ UNCHANGED <<table, blocked>> /\ call.pc = "forget"
    BY <1>0, <1>4, CommandEnds DEF WithdrawForget, CommandDone
  <2>2. /\ NftTypes' /\ (~ unsettled' => table' \subseteq state')
        /\ (Table \in table' => unsettled')
    BY <1>0, <1>4, <2>1 DEF WithdrawForget, NftTypes, NftStage, CommandDone
  <2>3. CASE Answer(FALSE)
    <3>1. Over(FALSE)
      BY <2>1, <2>3, CallEnds
    <3> QED
      BY <2>2, <3>1, NftFails
  <2>4. CASE Answer(TRUE)
    <3>1. Over(TRUE)
      BY <2>1, <2>4, CallEnds
    <3> QED
      BY <1>1, <2>2, <3>1, NftSucceeds
  <2> QED
    BY <1>4, <2>3, <2>4 DEF WithdrawForget
<1> QED
  BY <1>2, <1>3, <1>4 DEF NftWithdraw

\* Every step of the tools on nftables keeps their invariant.
LEMMA NftStepKept ==
    ASSUME CallInv, NftInv, family' = family, family # "files", NftStep
    PROVE  NftKept
<1>0. NftTypes /\ (~ unsettled => table \subseteq state) /\ unsettled \in BOOLEAN
  BY DEF NftInv, TableIsOwned, CallInv
<1>1. CASE NftIsolate \/ NftBlock \/ NftRelease \/ NftUnblock
  BY <1>1, IdleIsNoCall, NftEstablishKept, NftElementKept, NftWithdrawKept
     DEF NftIsolate, NftBlock, NftRelease, NftUnblock
<1>2. CASE PortRefused
  <2>1. call # Idle /\ CommandDone /\ Answer(FALSE) /\ UNCHANGED <<table, state, blocked>>
    BY <1>2, CommandEnds, IdleIsNoCall DEF PortRefused, NftDone, nftVars, CommandDone, CallInv
  <2>2. Over(FALSE)
    BY <2>1, CallEnds
  <2> QED
    BY <1>0, <2>1, <2>2, NftFails DEF NftTypes, CommandDone
<1>3. CASE NftRestart \/ NftReboot
  <2>1. /\ call' = Idle /\ ctx' = "live" /\ answer' = NoAnswer
        /\ UNCHANGED <<calls, unsettled, state>>
        /\ \/ UNCHANGED <<table, blocked>>
           \/ table' = {} /\ blocked' = {}
    BY <1>3 DEF NftRestart, Restarted, NftReboot, nftVars
  <2>2. CallInv' /\ ~ answer'.ok
    BY <2>1, CallDrops
  <2>3. NftTypes' /\ TableIsOwned'
    BY <1>0, <2>1 DEF NftTypes, TableIsOwned
  <2> QED
    BY <2>1, <2>2, <2>3 DEF NftKept, NftInv, NftAnswerIsTrue
<1> QED
  BY <1>1, <1>2, <1>3 DEF NftStep

-----------------------------------------------------------------------------
(***************************************************************************)
(* netsh.                                                                  *)
(***************************************************************************)
NetshKept == CallInv' /\ NetshInv'

\* A call on netsh goes on.
LEMMA NetshComes ==
    ASSUME NEW pc, Came(pc), NetshSafe', NetshStage'
    PROVE  NetshKept
BY DEF NetshKept, NetshInv, Came, NetshAnswerIsTrue

\* A call on netsh fails: it claims nothing.
LEMMA NetshFails ==
    ASSUME Over(FALSE), NetshSafe'
    PROVE  NetshKept
BY DEF NetshKept, NetshInv, Over, NetshAnswerIsTrue

\* A call on netsh succeeds: what it claims must hold.
LEMMA NetshSucceeds ==
    ASSUME Over(TRUE), NetshSafe', NetshAnswerIsTrue'
    PROVE  NetshKept
BY DEF NetshKept, NetshInv, Over

\* Policies.
LEMMA PolicyShape ==
    ASSUME NEW p \in Policies
    PROVE  /\ p.out \in {"allow", "block"} /\ p.pass \subseteq {"control", "dns"}
           /\ p.rules \subseteq Target \X (1..MaxCalls) \X {"in", "out"}
           /\ p # None
BY NoneAssumption DEF Policies

\* A firewall policy with another set of passes is a policy.
LEMMA PassedPolicy ==
    ASSUME NEW p \in Policies, NEW S \in SUBSET {"control", "dns"},
           NEW q, q = [p EXCEPT !.pass = S]
    PROVE  q \in Policies /\ q.out = p.out /\ q.pass = S /\ q.rules = p.rules
BY DEF Policies

\* A firewall policy that blocks is a policy.
LEMMA BlockedPolicy ==
    ASSUME NEW p \in Policies, NEW q, q = [p EXCEPT !.out = "block"]
    PROVE  q \in Policies /\ q.out = "block" /\ q.pass = p.pass /\ q.rules = p.rules
BY DEF Policies

AllRules == Target \X (1..MaxCalls) \X {"in", "out"}

\* A firewall policy with another set of rules is a policy.
LEMMA RuledPolicy ==
    ASSUME NEW p \in Policies, NEW R \in SUBSET AllRules, NEW q, q = [p EXCEPT !.rules = R]
    PROVE  q \in Policies /\ q.out = p.out /\ q.pass = p.pass /\ q.rules = R
<1>1. Policies = [out : {"allow", "block"}, pass : SUBSET {"control", "dns"},
                  rules : SUBSET AllRules]
  BY DEF Policies, AllRules
<1> QED
  BY <1>1

\* A step that changes the Agent's rules only.
LEMMA NewRules ==
    ASSUME policy \in Policies, NEW R \in SUBSET AllRules, policy' = [policy EXCEPT !.rules = R]
    PROVE  /\ policy' \in Policies /\ policy'.out = policy.out /\ policy'.pass = policy.pass
           /\ policy'.rules = R
BY RuledPolicy

\* A step that leaves the rules and their files alone.
LEMMA RulesStay ==
    ASSUME RuleIsOwned, CommandDone, policy'.rules = policy.rules, UNCHANGED <<owner, reverted>>
    PROVE  RuleIsOwned'
BY DEF RuleIsOwned, CommandDone

\* A command that changes nothing of netsh keeps it safe.
LEMMA NetshUntouched ==
    ASSUME NetshSafe, CommandDone, UNCHANGED netshVars
    PROVE  NetshSafe'
<1>1. UNCHANGED <<policy, isolation, backup, owner, reverted, reapplied>>
  BY DEF netshVars
<1> QED
  BY <1>1, RulesStay DEF NetshSafe, NetshTypes, IsolationIsReversible, ControlPathIsOpen,
     validateIsolationBackup

\* A step of isolate or release on the policy of a host whose backup is valid.
LEMMA PolicyStep ==
    ASSUME NetshSafe, CommandDone, validateIsolationBackup,
           UNCHANGED <<isolation, backup, owner, reverted>>,
           policy' \in Policies, policy'.rules = policy.rules, reapplied' \in BOOLEAN,
           policy'.out = "block" => reapplied' \/ policy'.pass = {"control", "dns"}
    PROVE  NetshSafe' /\ validateIsolationBackup'
<1>1. isolation # None /\ backup = isolation /\ backup.out = "allow"
  BY DEF NetshSafe, validateIsolationBackup
<1>2. IsolationIsReversible' /\ validateIsolationBackup' /\ ControlPathIsOpen'
  BY <1>1 DEF IsolationIsReversible, validateIsolationBackup, ControlPathIsOpen
<1>3. NetshTypes'
  BY DEF NetshSafe, NetshTypes
<1>4. RuleIsOwned'
  BY RulesStay DEF NetshSafe
<1> QED
  BY <1>1, <1>2, <1>3, <1>4 DEF NetshSafe

\* A step of isolate or release on the files of a host that is not cut off.
LEMMA FilesStep ==
    ASSUME NetshSafe, CommandDone, UNCHANGED <<policy, owner, reverted, reapplied>>,
           policy.out = "allow",
           isolation' \in {isolation, backup, None}, backup' \in {backup, policy, None}
    PROVE  NetshSafe'
<1>1. NetshTypes' /\ (backup' # None => backup'.out = "allow")
  BY DEF NetshSafe, NetshTypes
<1>2. IsolationIsReversible' /\ ControlPathIsOpen'
  BY DEF IsolationIsReversible, ControlPathIsOpen
<1>3. RuleIsOwned'
  BY RulesStay DEF NetshSafe
<1> QED
  BY <1>1, <1>2, <1>3 DEF NetshSafe

\* An import of a valid backup.
LEMMA ImportStep ==
    ASSUME NetshSafe, CommandDone, validateIsolationBackup, Import
    PROVE  /\ NetshSafe' /\ policy'.out = "allow"
           /\ UNCHANGED <<isolation, backup, owner, reapplied>>
<1>1. /\ backup \in Policies /\ backup.out = "allow" /\ policy' = backup
      /\ UNCHANGED <<isolation, backup, owner, reapplied>>
      /\ reverted' = reverted \cup {t \in Target : RulesOf(policy, t) # RulesOf(backup, t)}
  BY DEF NetshSafe, validateIsolationBackup, NetshTypes, Import
<1>2. NetshTypes' /\ IsolationIsReversible' /\ ControlPathIsOpen'
  BY <1>1 DEF NetshSafe, NetshTypes, IsolationIsReversible, ControlPathIsOpen
<1>3. RuleIsOwned'
  <2> SUFFICES ASSUME ~ unsettled', NEW r \in policy'.rules, r[1] \notin reverted'
               PROVE  r[2] = owner'[r[1]]
    BY DEF RuleIsOwned
  <2>1. r[1] \in Target
    BY <1>1, PolicyShape
  <2>2. RulesOf(policy, r[1]) = RulesOf(backup, r[1]) /\ r[1] \notin reverted
    BY <1>1, <2>1
  <2>3. r \in policy.rules
    BY <1>1, <2>2 DEF RulesOf
  <2> QED
    BY <1>1, <2>2, <2>3 DEF NetshSafe, RuleIsOwned, CommandDone
<1> QED
  BY <1>1, <1>2, <1>3 DEF NetshSafe

\* The steps of isolate on the state and its backup keep the invariant: the
\* backup is the policy from before.
LEMMA IsolateFilesKept ==
    ASSUME CallInv, NetshInv, call # Idle, call.op = "isolate", family' = family,
           IsolateLook \/ IsolateExport \/ IsolateSave \/ IsolateClear
    PROVE  NetshKept
<1>0. /\ NetshSafe /\ IsolateStage /\ ctx \in {"live", "cancelled"} /\ unsettled \in BOOLEAN
      /\ NetshTypes
  BY DEF NetshInv, NetshStage, CallInv, NetshSafe
<1>1. isolation = None => policy.out = "allow"
  BY <1>0, PolicyShape DEF NetshSafe, IsolationIsReversible, validateIsolationBackup, NetshTypes
<1>2. CommandDone
  BY <1>0, CommandEnds DEF IsolateLook, IsolateExport, IsolateSave, IsolateClear, CommandDone
<1>3. CASE IsolateLook
  <2>1. UNCHANGED netshVars
    BY <1>3 DEF IsolateLook, NetshDone, NetshGoto
  <2>2. NetshSafe' /\ UNCHANGED <<isolation, backup>>
    BY <1>0, <1>2, <2>1, NetshUntouched DEF netshVars
  <2>3. CASE Answer(FALSE)
    <3>1. Over(FALSE)
      BY <1>2, <2>3, CallEnds
    <3> QED
      BY <2>2, <3>1, NetshFails
  <2>4. CASE validateIsolationBackup /\ Goto("unpass")
    <3>1. Came("unpass")
      BY <1>2, <2>4, CallComes DEF Steps
    <3>2. NetshStage'
      BY <2>2, <2>4, <3>1 DEF Came, NetshStage, IsolateStage, validateIsolationBackup
    <3> QED
      BY <2>2, <3>1, <3>2, NetshComes
  <2>5. CASE isolation = None /\ backup = None /\ Goto("export")
    <3>1. Came("export")
      BY <1>2, <2>5, CallComes DEF Steps
    <3>2. NetshStage'
      BY <2>2, <2>5, <3>1 DEF Came, NetshStage, IsolateStage
    <3> QED
      BY <2>2, <3>1, <3>2, NetshComes
  <2> QED
    BY <1>3, <2>3, <2>4, <2>5 DEF IsolateLook, NetshDone, NetshGoto
<1>4. CASE IsolateExport
  <2>1. /\ call.pc = "export" /\ UNCHANGED <<policy, isolation, owner, reverted, reapplied>>
        /\ backup' \in {backup, policy, None}
    BY <1>4 DEF IsolateExport, At
  <2>2. isolation = None /\ policy.out = "allow"
    BY <1>0, <1>1, <2>1 DEF IsolateStage
  <2>3. NetshSafe'
    BY <1>0, <1>2, <2>1, <2>2, FilesStep
  <2>4. CASE Answer(FALSE)
    <3>1. Over(FALSE)
      BY <1>2, <2>4, CallEnds
    <3> QED
      BY <2>3, <3>1, NetshFails
  <2>5. CASE backup' = policy /\ Goto("save")
    <3>1. Came("save")
      BY <1>2, <2>5, CallComes DEF Steps
    <3>2. isolation' = None /\ backup' # None
      BY <1>0, <2>1, <2>2, <2>5, PolicyShape DEF NetshTypes
    <3>3. NetshStage'
      BY <3>1, <3>2 DEF Came, NetshStage, IsolateStage
    <3> QED
      BY <2>3, <3>1, <3>3, NetshComes
  <2> QED
    BY <1>4, <2>4, <2>5 DEF IsolateExport
<1>5. CASE IsolateSave
  <2>1. /\ call.pc = "save" /\ UNCHANGED <<policy, owner, reverted, reapplied>>
        /\ backup' \in {backup, None} /\ isolation' \in {isolation, backup}
    BY <1>5 DEF IsolateSave, At
  <2>2. isolation = None /\ backup # None /\ policy.out = "allow"
    BY <1>0, <1>1, <2>1 DEF IsolateStage
  <2>3. NetshSafe'
    BY <1>0, <1>2, <2>1, <2>2, FilesStep
  <2>4. CASE Answer(FALSE)
    <3>1. Over(FALSE)
      BY <1>2, <2>4, CallEnds
    <3> QED
      BY <2>3, <3>1, NetshFails
  <2>5. CASE isolation' = backup /\ backup' = backup /\ GotoFresh("unpass")
    <3>1. Came("unpass")
      BY <1>2, <2>5, CallComes DEF Steps
    <3>2. validateIsolationBackup'
      BY <2>2, <2>5 DEF validateIsolationBackup
    <3>3. NetshStage'
      BY <3>1, <3>2 DEF Came, NetshStage, IsolateStage
    <3> QED
      BY <2>3, <3>1, <3>3, NetshComes
  <2> QED
    BY <1>5, <2>4, <2>5 DEF IsolateSave
<1>6. CASE IsolateClear
  <2>1. /\ call.pc = "clear" /\ UNCHANGED <<policy, owner, reverted, reapplied>> /\ Answer(FALSE)
        /\ backup' \in {backup, None} /\ isolation' \in {isolation, None}
    BY <1>6 DEF IsolateClear, At
  <2>2. policy.out = "allow"
    BY <1>0, <2>1 DEF IsolateStage
  <2>3. NetshSafe'
    BY <1>0, <1>2, <2>1, <2>2, FilesStep
  <2>4. Over(FALSE)
    BY <1>2, <2>1, CallEnds
  <2> QED
    BY <2>3, <2>4, NetshFails
<1> QED
  BY <1>3, <1>4, <1>5, <1>6

\* applyIsolationPolicy and the rollback.
LEMMA ApplyFailsKept ==
    ASSUME CallInv, call # Idle, call.op = "isolate", family' = family, CommandDone,
           ApplyFails, NetshSafe', validateIsolationBackup'
    PROVE  NetshKept
<1>1. CASE Answer(FALSE)
  <2>1. Over(FALSE)
    BY <1>1, CallEnds
  <2> QED
    BY <2>1, NetshFails
<1>2. CASE Goto("rollback")
  <2>1. Came("rollback")
    BY <1>2, CallComes DEF Steps
  <2>2. NetshStage'
    BY <2>1 DEF Came, NetshStage, IsolateStage
  <2> QED
    BY <2>1, <2>2, NetshComes
<1> QED
  BY <1>1, <1>2 DEF ApplyFails

\* The steps of isolate on the policy keep the invariant: the Control Plane's
\* rule comes before the block.
LEMMA ApplyKept ==
    ASSUME CallInv, NetshInv, call # Idle, call.op = "isolate", family' = family,
           ApplyUnpass \/ ApplyPass \/ ApplyDNS \/ ApplyBlock
    PROVE  NetshKept
<1>0. /\ NetshSafe /\ IsolateStage /\ ctx \in {"live", "cancelled"} /\ unsettled \in BOOLEAN
      /\ policy \in Policies /\ policy.pass \subseteq {"control", "dns"}
      /\ reapplied \in BOOLEAN
  BY PolicyShape DEF NetshInv, NetshStage, CallInv, NetshSafe, NetshTypes
<1>1. CommandDone
  BY <1>0, CommandEnds DEF ApplyUnpass, ApplyPass, ApplyDNS, ApplyBlock, ApplyFails, CommandDone
<1>2. /\ validateIsolationBackup /\ UNCHANGED <<isolation, backup, owner, reverted>>
      /\ call.pc \in {"unpass", "pass", "dns", "block"}
  BY <1>0 DEF ApplyUnpass, ApplyPass, ApplyDNS, ApplyBlock, At, IsolateStage
<1>3. policy.out = "block" => reapplied \/ policy.pass = {"control", "dns"}
  BY <1>0 DEF NetshSafe, ControlPathIsOpen
\* The policy with other rules for the Control Plane and DNS.
<1> DEFINE Passed(S) == [policy EXCEPT !.pass = S]
<1>4. ASSUME NEW S \in SUBSET {"control", "dns"}
      PROVE  /\ Passed(S) \in Policies /\ Passed(S).out = policy.out /\ Passed(S).pass = S
             /\ Passed(S).rules = policy.rules
  BY <1>0, PassedPolicy
<1>5. CASE ApplyUnpass
  <2>1. /\ Goto("pass") /\ reapplied' = (reapplied \/ policy.out = "block")
        /\ policy' = policy \/ policy' = Passed(policy.pass \ {"control"})
    BY <1>0, <1>5 DEF ApplyUnpass
  <2> HIDE DEF Passed
  <2>2. policy' \in Policies /\ policy'.rules = policy.rules /\ policy'.out = policy.out
    BY <1>0, <1>4, <2>1
  <2>3. reapplied' \in BOOLEAN /\ (policy'.out = "block" => reapplied')
    BY <1>0, <2>1, <2>2
  <2>4. NetshSafe' /\ validateIsolationBackup'
    BY <1>0, <1>1, <1>2, <2>2, <2>3, PolicyStep
  <2>5. Came("pass")
    BY <1>1, <2>1, CallComes DEF Steps
  <2>6. NetshStage'
    BY <2>3, <2>4, <2>5 DEF Came, NetshStage, IsolateStage
  <2> QED
    BY <2>4, <2>5, <2>6, NetshComes
<1>6. CASE ApplyPass
  <2>1. /\ call.pc = "pass" /\ reapplied' = reapplied
        /\ \/ policy' = Passed(policy.pass \cup {"control"}) /\ Goto("dns")
           \/ policy' = policy /\ ApplyFails
           \/ policy' = Passed(policy.pass \cup {"control"}) /\ ApplyFails
    BY <1>6 DEF ApplyPass, At
  <2> HIDE DEF Passed
  <2>2. policy' \in Policies /\ policy'.rules = policy.rules /\ policy'.out = policy.out
    BY <1>0, <1>4, <2>1
  <2>3. policy.out = "block" => reapplied
    BY <1>0, <2>1 DEF IsolateStage
  <2>4. NetshSafe' /\ validateIsolationBackup'
    BY <1>0, <1>1, <1>2, <2>1, <2>2, <2>3, PolicyStep
  <2>5. CASE policy' = Passed(policy.pass \cup {"control"}) /\ Goto("dns")
    <3>1. Came("dns")
      BY <1>1, <2>5, CallComes DEF Steps
    <3>2. "control" \in policy'.pass
      BY <1>0, <1>4, <2>5
    <3>3. NetshStage'
      BY <2>1, <2>2, <2>3, <2>4, <3>1, <3>2 DEF Came, NetshStage, IsolateStage
    <3> QED
      BY <2>4, <3>1, <3>3, NetshComes
  <2> QED
    BY <1>1, <2>1, <2>4, <2>5, ApplyFailsKept
<1>7. CASE ApplyDNS
  <2>1. /\ call.pc = "dns" /\ reapplied' = reapplied
        /\ \/ policy' = Passed(policy.pass \cup {"dns"}) /\ Goto("block")
           \/ /\ \/ policy' = policy \/ policy' = Passed(policy.pass \cup {"dns"})
                 \/ policy' = Passed(policy.pass \ {"dns"})
              /\ ApplyFails
    BY <1>7 DEF ApplyDNS, At
  <2> HIDE DEF Passed
  <2>2. policy' \in Policies /\ policy'.rules = policy.rules /\ policy'.out = policy.out
    BY <1>0, <1>4, <2>1
  <2>3. (policy.out = "block" => reapplied) /\ "control" \in policy.pass
    BY <1>0, <2>1 DEF IsolateStage
  <2>4. NetshSafe' /\ validateIsolationBackup'
    BY <1>0, <1>1, <1>2, <2>1, <2>2, <2>3, PolicyStep
  <2>5. CASE policy' = Passed(policy.pass \cup {"dns"}) /\ Goto("block")
    <3>1. Came("block")
      BY <1>1, <2>5, CallComes DEF Steps
    <3>2. policy'.pass = {"control", "dns"}
      BY <1>0, <1>4, <2>3, <2>5
    <3>3. NetshStage'
      BY <2>1, <2>2, <2>3, <2>4, <3>1, <3>2 DEF Came, NetshStage, IsolateStage
    <3> QED
      BY <2>4, <3>1, <3>3, NetshComes
  <2> QED
    BY <1>1, <2>1, <2>4, <2>5, ApplyFailsKept
<1>8. CASE ApplyBlock
  <2>1. /\ call.pc = "block" /\ reapplied' = reapplied
        /\ \/ policy' = [policy EXCEPT !.out = "block"] /\ Answer(TRUE)
           \/ (policy' = policy \/ policy' = [policy EXCEPT !.out = "block"]) /\ ApplyFails
    BY <1>8 DEF ApplyBlock, At
  <2>2. /\ policy' \in Policies /\ policy'.rules = policy.rules /\ policy'.pass = policy.pass
        /\ policy' = [policy EXCEPT !.out = "block"] => policy'.out = "block"
    BY <1>0, <2>1, BlockedPolicy
  <2>3. policy.pass = {"control", "dns"}
    BY <1>0, <2>1 DEF IsolateStage
  <2>4. NetshSafe' /\ validateIsolationBackup'
    BY <1>0, <1>1, <1>2, <2>1, <2>2, <2>3, PolicyStep
  <2>5. CASE policy' = [policy EXCEPT !.out = "block"] /\ Answer(TRUE)
    <3>1. Over(TRUE)
      BY <1>1, <2>5, CallEnds
    <3>2. NetshAnswerIsTrue'
      BY <2>2, <2>3, <2>5, <3>1 DEF Over, NetshAnswerIsTrue
    <3> QED
      BY <2>4, <3>1, <3>2, NetshSucceeds
  <2> QED
    BY <1>1, <2>1, <2>4, <2>5, ApplyFailsKept
<1> QED
  BY <1>5, <1>6, <1>7, <1>8

\* An import puts the policy of the backup back, and keeps the invariant.
LEMMA ImportKept ==
    ASSUME CallInv, NetshInv, call # Idle, family' = family,
           \/ call.op = "isolate" /\ IsolateRollback
           \/ call.op = "release" /\ ReleaseImport
    PROVE  NetshKept
<1>0. /\ NetshSafe /\ NetshStage /\ ctx \in {"live", "cancelled"} /\ unsettled \in BOOLEAN
  BY DEF NetshInv, CallInv
<1>1. CommandDone
  BY <1>0, CommandEnds DEF IsolateRollback, ReleaseImport, CommandDone
<1>2. validateIsolationBackup
  BY <1>0 DEF IsolateRollback, ReleaseImport, At, NetshStage, IsolateStage, ReleaseStage
<1>3. CASE UNCHANGED netshVars /\ Answer(FALSE)
  <2>1. Over(FALSE) /\ NetshSafe'
    BY <1>0, <1>1, <1>3, CallEnds, NetshUntouched
  <2> QED
    BY <2>1, NetshFails
<1>4. CASE Import /\ Answer(FALSE)
  <2>1. Over(FALSE) /\ NetshSafe'
    BY <1>0, <1>1, <1>2, <1>4, CallEnds, ImportStep
  <2> QED
    BY <2>1, NetshFails
<1>5. ASSUME NEW pc \in {"clear", "forget"}, Import, Goto(pc),
             pc = "clear" <=> call.op = "isolate"
      PROVE  NetshKept
  <2>1. Came(pc) /\ NetshSafe' /\ policy'.out = "allow"
    BY <1>0, <1>1, <1>2, <1>5, CallComes, ImportStep DEF Steps
  <2>2. NetshStage'
    <3>1. CASE call.op = "isolate"
      BY <1>5, <2>1, <3>1 DEF Came, NetshStage, IsolateStage
    <3>2. CASE call.op = "release"
      BY <1>5, <2>1, <3>2 DEF Came, NetshStage, ReleaseStage
    <3> QED
      BY <3>1, <3>2
  <2> QED
    BY <2>1, <2>2, NetshComes
<1> QED
  BY <1>3, <1>4, <1>5 DEF IsolateRollback, ReleaseImport, NetshDone

\* The steps of release around its import keep the invariant: the state goes
\* only after the import.
LEMMA ReleaseKept ==
    ASSUME CallInv, NetshInv, call # Idle, call.op = "release", family' = family,
           ReleaseLook \/ ReleaseForget \/ ReleaseDrop
    PROVE  NetshKept
<1>0. /\ NetshSafe /\ ReleaseStage /\ ctx \in {"live", "cancelled"} /\ unsettled \in BOOLEAN
      /\ NetshTypes
  BY DEF NetshInv, NetshStage, CallInv, NetshSafe
<1>1. isolation = None => policy.out = "allow"
  BY <1>0, PolicyShape DEF NetshSafe, IsolationIsReversible, validateIsolationBackup, NetshTypes
<1>2. CommandDone
  BY <1>0, CommandEnds DEF ReleaseLook, ReleaseForget, ReleaseDrop, CommandDone
<1>3. ASSUME Answer(TRUE), NetshSafe', policy' = policy, policy.out = "allow" PROVE NetshKept
  <2>1. Over(TRUE)
    BY <1>2, <1>3, CallEnds
  <2>2. NetshAnswerIsTrue'
    BY <1>3, <2>1 DEF Over, NetshAnswerIsTrue
  <2> QED
    BY <1>3, <2>1, <2>2, NetshSucceeds
<1>4. ASSUME Answer(FALSE), NetshSafe' PROVE NetshKept
  BY <1>2, <1>4, CallEnds, NetshFails
<1>5. CASE ReleaseLook
  <2>1. NetshSafe' /\ UNCHANGED <<policy, isolation, backup>>
    BY <1>0, <1>2, <1>5, NetshUntouched DEF ReleaseLook, NetshDone, NetshGoto, netshVars
  <2>2. CASE validateIsolationBackup /\ Goto("import")
    <3>1. Came("import")
      BY <1>2, <2>2, CallComes DEF Steps
    <3>2. NetshStage'
      BY <2>1, <2>2, <3>1 DEF Came, NetshStage, ReleaseStage, validateIsolationBackup
    <3> QED
      BY <2>1, <3>1, <3>2, NetshComes
  <2> QED
    BY <1>1, <1>3, <1>4, <1>5, <2>1, <2>2 DEF ReleaseLook, NetshDone, NetshGoto
<1>6. CASE ReleaseForget
  <2>1. /\ call.pc = "forget" /\ UNCHANGED <<policy, backup, owner, reverted, reapplied>>
        /\ isolation' \in {isolation, None}
    BY <1>6 DEF ReleaseForget, At
  <2>2. policy.out = "allow"
    BY <1>0, <2>1 DEF ReleaseStage
  <2>3. NetshSafe'
    BY <1>0, <1>2, <2>1, <2>2, FilesStep
  <2>4. CASE Goto("drop")
    <3>1. Came("drop")
      BY <1>2, <2>4, CallComes DEF Steps
    <3>2. NetshStage'
      BY <2>1, <2>2, <3>1 DEF Came, NetshStage, ReleaseStage
    <3> QED
      BY <2>3, <3>1, <3>2, NetshComes
  <2> QED
    BY <1>4, <1>6, <2>3, <2>4 DEF ReleaseForget
<1>7. CASE ReleaseDrop
  <2>1. /\ call.pc = "drop" /\ UNCHANGED <<policy, isolation, owner, reverted, reapplied>>
        /\ backup' \in {backup, None}
    BY <1>7 DEF ReleaseDrop, At
  <2>2. policy.out = "allow"
    BY <1>0, <2>1 DEF ReleaseStage
  <2>3. NetshSafe'
    BY <1>0, <1>2, <2>1, <2>2, FilesStep
  <2> QED
    BY <1>3, <1>4, <1>7, <2>1, <2>2, <2>3 DEF ReleaseDrop
<1> QED
  BY <1>5, <1>6, <1>7

-----------------------------------------------------------------------------
\* A step on one rule or its file.
LEMMA RuleStep ==
    ASSUME NetshSafe, UNCHANGED <<isolation, backup, reverted, reapplied>>,
           policy' \in Policies, policy'.out = policy.out, policy'.pass = policy.pass,
           owner' \in [Target -> (1..MaxCalls) \cup {None}], RuleIsOwned'
    PROVE  NetshSafe'
BY DEF NetshSafe, NetshTypes, IsolationIsReversible, ControlPathIsOpen, validateIsolationBackup

\* The rule of a name is deleted.
LEMMA DeleteStep ==
    ASSUME NetshSafe, CommandDone, UNCHANGED <<isolation, backup, owner, reverted, reapplied>>,
           \/ policy' = policy
           \/ policy' = [policy EXCEPT !.rules = @ \ Named(owner[call.arg])]
    PROVE  /\ NetshSafe'
           /\ policy' = [policy EXCEPT !.rules = @ \ Named(owner[call.arg])] =>
                 (RulesOf(policy', call.arg) # {} => unsettled' \/ call.arg \in reverted')
<1>0. /\ policy \in Policies /\ RuleIsOwned
      /\ policy.rules \subseteq Target \X (1..MaxCalls) \X {"in", "out"}
      /\ owner \in [Target -> (1..MaxCalls) \cup {None}]
  BY PolicyShape DEF NetshSafe, NetshTypes
<1>1. CASE policy' = policy
  <2>1. RuleIsOwned'
    BY <1>0, <1>1, RulesStay
  <2>2. NetshSafe'
    BY <1>0, <1>1, <2>1, RuleStep
  <2>3. policy' = [policy EXCEPT !.rules = @ \ Named(owner[call.arg])] =>
           policy.rules = policy.rules \ Named(owner[call.arg])
    BY <1>0, <1>1 DEF Policies
  <2> QED
    BY <1>0, <1>1, <2>2, <2>3 DEF RulesOf, Named, RuleIsOwned, CommandDone
<1>2. CASE policy' = [policy EXCEPT !.rules = @ \ Named(owner[call.arg])]
  <2>1. PICK R \in SUBSET AllRules : R = policy.rules \ Named(owner[call.arg])
    BY <1>0 DEF AllRules
  <2>2. policy' = [policy EXCEPT !.rules = R]
    BY <1>2, <2>1
  <2>3. R \subseteq policy.rules /\ \A r \in R : ~(r[1] = call.arg /\ r[2] = owner[call.arg])
    BY <2>1 DEF Named
  <2>4. /\ policy' \in Policies /\ policy'.out = policy.out /\ policy'.pass = policy.pass
        /\ policy'.rules = R
    BY <1>0, <2>2, NewRules
  <2>5. RuleIsOwned'
    BY <1>0, <2>3, <2>4 DEF RuleIsOwned, CommandDone
  <2>6. NetshSafe'
    BY <1>0, <2>4, <2>5, RuleStep
  <2>7. RulesOf(policy', call.arg) # {} => unsettled' \/ call.arg \in reverted'
    BY <1>0, <2>3, <2>4 DEF RulesOf, RuleIsOwned, CommandDone
  <2> QED
    BY <2>6, <2>7
<1> QED
  BY <1>1, <1>2

\* The file of a target that has no rule is given up or gets its name.
LEMMA OwnerStep ==
    ASSUME NetshSafe, CommandDone, UNCHANGED <<policy, isolation, backup, reverted, reapplied>>,
           call.arg \in Target, NEW o \in (1..MaxCalls) \cup {None},
           owner' \in {owner, [owner EXCEPT ![call.arg] = o]},
           RulesOf(policy, call.arg) # {} => unsettled \/ call.arg \in reverted
    PROVE  NetshSafe' /\ (owner' # owner => owner'[call.arg] = o)
<1>0. /\ policy \in Policies /\ RuleIsOwned /\ owner \in [Target -> (1..MaxCalls) \cup {None}]
      /\ policy.rules \subseteq Target \X (1..MaxCalls) \X {"in", "out"}
  BY PolicyShape DEF NetshSafe, NetshTypes
<1>1. /\ owner' \in [Target -> (1..MaxCalls) \cup {None}]
      /\ \A t \in Target : t # call.arg => owner'[t] = owner[t]
      /\ owner' # owner => owner'[call.arg] = o
  BY <1>0
<1>2. CASE owner' = owner
  <2>1. RuleIsOwned'
    BY <1>0, <1>2, RulesStay
  <2> QED
    BY <1>0, <1>1, <1>2, <2>1, RuleStep
<1>3. CASE owner' # owner
  <2>1. ASSUME ~ unsettled', NEW r \in policy'.rules, r[1] \notin reverted'
        PROVE  r[2] = owner'[r[1]]
    <3>1. r \in policy.rules /\ r[1] \in Target /\ r[1] # call.arg
      BY <1>0, <2>1 DEF RulesOf, CommandDone
    <3> QED
      BY <1>0, <1>1, <2>1, <3>1 DEF RuleIsOwned, CommandDone
  <2>2. RuleIsOwned'
    BY <2>1 DEF RuleIsOwned
  <2> QED
    BY <1>0, <1>1, <2>2, RuleStep
<1> QED
  BY <1>2, <1>3

\* A target whose file is missing has no rule.
LEMMA UnownedHasNone ==
    ASSUME NetshSafe, NEW t \in Target, owner[t] = None, RulesOf(policy, t) # {}
    PROVE  unsettled \/ t \in reverted
<1>1. PICK r \in policy.rules : r[1] = t
  BY DEF RulesOf
<1>2. r[2] \in 1..MaxCalls
  BY PolicyShape DEF NetshSafe, NetshTypes
<1> QED
  BY <1>1, <1>2, NoneAssumption DEF NetshSafe, RuleIsOwned


-----------------------------------------------------------------------------
\* The calls that add and drop rules.
RuleCall ==
    /\ CallInv /\ NetshInv /\ call # Idle /\ family = "netsh" /\ family' = family
    /\ call.op \in {"block", "open", "unblock", "close"}

\* What holds during a call that adds or drops a rule.
LEMMA RuleCallHas ==
    ASSUME RuleCall
    PROVE  /\ NetshSafe /\ RuleStage /\ call.arg \in Target /\ calls \in 1..MaxCalls
           /\ ctx \in {"live", "cancelled"} /\ unsettled \in BOOLEAN
           /\ policy \in Policies /\ owner \in [Target -> (1..MaxCalls) \cup {None}]
           /\ call # Idle /\ CallInv /\ family' = family
<1>1. call.arg \in Target
  BY DEF RuleCall, CallInv, Asked, Target
<1>2. calls \in 1..MaxCalls
  BY MaxCallsAssumption DEF RuleCall, CallInv
<1> QED
  BY <1>1, <1>2 DEF RuleCall, CallInv, NetshInv, NetshSafe, NetshTypes, NetshStage

\* A call that adds or drops a rule goes on.
LEMMA RuleComes ==
    ASSUME RuleCall, NEW pc, Came(pc), NetshSafe',
           pc = "save" => owner'[call.arg] = None,
           pc \in {"delete", "add", "undo", "disown"} => owner'[call.arg] # None,
           pc = "disown" /\ RulesOf(policy', call.arg) # {} =>
              unsettled' \/ call.arg \in reverted'
    PROVE  NetshKept
<1>1. /\ call'.op \in {"block", "open", "unblock", "close"} /\ call'.pc = pc
      /\ call'.arg = call.arg
  BY DEF RuleCall, Came
<1>2. RuleStage'
  BY <1>1 DEF RuleStage, RulesOf
<1>3. NetshStage'
  BY <1>1, <1>2 DEF NetshStage
<1> QED
  BY <1>3, NetshComes

\* The signed file is looked for, written and removed.
LEMMA RuleFileKept ==
    ASSUME RuleCall, RuleLook \/ RuleSave \/ RuleDisown
    PROVE  NetshKept
<1>0. /\ NetshSafe /\ RuleStage /\ call.arg \in Target /\ calls \in 1..MaxCalls
      /\ owner \in [Target -> (1..MaxCalls) \cup {None}]
      /\ call # Idle /\ CallInv /\ family' = family
      /\ ctx \in {"live", "cancelled"} /\ unsettled \in BOOLEAN
  BY RuleCallHas
<1>1. CommandDone
  BY <1>0, CommandEnds DEF RuleLook, RuleSave, RuleDisown, CommandDone
<1>2. CASE RuleLook
  <2>1. PICK pc \in {"save", "delete"} : pc = IF owner[call.arg] = None THEN "save" ELSE "delete"
    OBVIOUS
  <2>2. Goto(pc) /\ UNCHANGED netshVars
    BY <1>2, <2>1 DEF RuleLook, NetshGoto
  <2>3. Came(pc) /\ NetshSafe' /\ owner' = owner
    BY <1>0, <1>1, <2>2, CallComes, NetshUntouched DEF Steps, netshVars
  <2> QED
    BY <2>1, <2>3, RuleComes
<1>3. CASE RuleSave
  <2>1. /\ owner[call.arg] = None
        /\ RulesOf(policy, call.arg) # {} => unsettled \/ call.arg \in reverted
    BY <1>0, <1>3, UnownedHasNone DEF RuleSave, RuleStage
  <2>2. /\ owner' \in {owner, [owner EXCEPT ![call.arg] = calls]}
        /\ UNCHANGED <<policy, isolation, backup, reverted, reapplied>>
    BY <1>3 DEF RuleSave
  <2>3. NetshSafe'
    BY <1>0, <1>1, <2>1, <2>2, OwnerStep
  <2>4. CASE Answer(FALSE)
    BY <1>0, <1>1, <2>3, <2>4, CallEnds, NetshFails
  <2>5. CASE owner' = [owner EXCEPT ![call.arg] = calls] /\ GotoFresh("delete")
    <3>1. Came("delete")
      BY <1>0, <1>1, <2>5, CallComes DEF Steps
    <3>2. owner'[call.arg] # None
      BY <1>0, <2>5, NoneAssumption
    <3> QED
      BY <2>3, <3>1, <3>2, RuleComes
  <2> QED
    BY <1>3, <2>4, <2>5 DEF RuleSave
<1>4. CASE RuleDisown
  <2>1. RulesOf(policy, call.arg) # {} => unsettled \/ call.arg \in reverted
    BY <1>0, <1>4 DEF RuleDisown, RuleStage
  <2>2. /\ owner' \in {owner, [owner EXCEPT ![call.arg] = None]} /\ Answer(FALSE)
        /\ UNCHANGED <<policy, isolation, backup, reverted, reapplied>>
    BY <1>4 DEF RuleDisown
  <2>3. NetshSafe'
    BY <1>0, <1>1, <2>1, <2>2, OwnerStep
  <2> QED
    BY <1>0, <1>1, <2>2, <2>3, CallEnds, NetshFails
<1> QED
  BY <1>2, <1>3, <1>4

\* The rule is deleted, before it is added and when it could not be.
LEMMA RuleDeleteKept ==
    ASSUME RuleCall, RuleDelete \/ RuleUndo
    PROVE  NetshKept
<1>0. /\ NetshSafe /\ RuleStage /\ call # Idle /\ CallInv /\ family' = family
      /\ ctx \in {"live", "cancelled"} /\ unsettled \in BOOLEAN
  BY RuleCallHas
<1>1. CommandDone
  BY <1>0, CommandEnds DEF RuleDelete, RuleUndo, CommandDone
<1>2. /\ owner[call.arg] # None /\ UNCHANGED <<isolation, backup, owner, reverted, reapplied>>
      /\ \/ policy' = policy
         \/ policy' = [policy EXCEPT !.rules = @ \ Named(owner[call.arg])]
  BY <1>0 DEF RuleDelete, RuleUndo, RuleStage
<1>3. /\ NetshSafe'
      /\ policy' = [policy EXCEPT !.rules = @ \ Named(owner[call.arg])] =>
            (RulesOf(policy', call.arg) # {} => unsettled' \/ call.arg \in reverted')
  BY <1>0, <1>1, <1>2, DeleteStep
<1>4. CASE RuleDelete
  <2>1. Came("add")
    BY <1>0, <1>1, <1>4, CallComes DEF RuleDelete, Steps
  <2> QED
    BY <1>2, <1>3, <2>1, RuleComes
<1>5. CASE RuleUndo
  <2>1. RulesOf(policy', call.arg) # {} => unsettled' \/ call.arg \in reverted'
    BY <1>3, <1>5 DEF RuleUndo, CleanupFails
  <2>2. CASE Answer(FALSE)
    BY <1>0, <1>1, <1>3, <2>2, CallEnds, NetshFails
  <2>3. CASE Goto("disown")
    <3>1. Came("disown")
      BY <1>0, <1>1, <2>3, CallComes DEF Steps
    <3> QED
      BY <1>2, <1>3, <2>1, <3>1, RuleComes
  <2> QED
    BY <1>5, <2>2, <2>3 DEF RuleUndo
<1> QED
  BY <1>4, <1>5


\* An address is blocked in both directions, a port is opened inwards.
LEMMA DirectionsAre ==
    /\ Len(Directions) \in {1, 2} /\ Directions[1] = "in"
    /\ \A i \in 1..Len(Directions) : Directions[i] \in {"in", "out"}
    /\ call.arg \in Addr => Len(Directions) = 2 /\ Directions[2] = "out"
BY DEF Directions

\* Rules of the name in the file are added.
LEMMA AddStep ==
    ASSUME NetshSafe, CommandDone, UNCHANGED <<isolation, backup, owner, reverted, reapplied>>,
           call.arg \in Target, owner[call.arg] # None,
           NEW n \in 0..Len(Directions), NEW A,
           A = {<<call.arg, owner[call.arg], Directions[i]>> : i \in 1..n},
           policy' = [policy EXCEPT !.rules = @ \cup A]
    PROVE  NetshSafe' /\ policy'.rules = policy.rules \cup A
<1>0. /\ policy \in Policies /\ RuleIsOwned /\ policy.rules \subseteq AllRules
      /\ owner \in [Target -> (1..MaxCalls) \cup {None}]
  BY PolicyShape DEF NetshSafe, NetshTypes, AllRules
<1>1. n \in Nat /\ 1..n \subseteq 1..Len(Directions)
  BY DirectionsAre
<1>2. \A r \in A : r \in AllRules /\ r[1] = call.arg /\ r[2] = owner[call.arg]
  <2> SUFFICES ASSUME NEW i \in 1..n, NEW r, r = <<call.arg, owner[call.arg], Directions[i]>>
               PROVE  r \in AllRules /\ r[1] = call.arg /\ r[2] = owner[call.arg]
    OBVIOUS
  <2>1. Directions[i] \in {"in", "out"}
    BY <1>1, DirectionsAre
  <2>2. owner[call.arg] \in 1..MaxCalls
    BY <1>0
  <2> QED
    BY <2>1, <2>2 DEF AllRules
<1>3. PICK R \in SUBSET AllRules : R = policy.rules \cup A
  BY <1>0, <1>2
<1>4. policy' = [policy EXCEPT !.rules = R]
  BY <1>3
<1>5. /\ policy' \in Policies /\ policy'.out = policy.out /\ policy'.pass = policy.pass
      /\ policy'.rules = R
  BY <1>0, <1>4, NewRules
<1>6. RuleIsOwned'
  BY <1>0, <1>2, <1>3, <1>5 DEF RuleIsOwned, CommandDone
<1> QED
  BY <1>0, <1>3, <1>5, <1>6, RuleStep

\* The commands that add the rules keep the invariant: the owner is written
\* before them.
LEMMA RuleAddKept ==
    ASSUME RuleCall, call.op \in {"block", "open"}, RuleAdd
    PROVE  NetshKept
<1>0. /\ NetshSafe /\ RuleStage /\ call # Idle /\ CallInv /\ family' = family
      /\ ctx \in {"live", "cancelled"} /\ unsettled \in BOOLEAN /\ call.arg \in Target
  BY RuleCallHas
<1>1. owner[call.arg] # None /\ UNCHANGED <<isolation, backup, owner, reverted, reapplied>>
  BY <1>0 DEF RuleAdd, RuleStage
<1>2. PICK n \in 0..Len(Directions) :
         LET added == {<<call.arg, owner[call.arg], Directions[i]>> : i \in 1..n}
         IN  /\ n = 0 \/ ctx = "live"
             /\ policy' = [policy EXCEPT !.rules = @ \cup added]
             /\ \/ n = Len(Directions) /\ Succeeds /\ Answer(TRUE)
                \/ /\ \/ n < Len(Directions) /\ Fails
                      \/ n > 0 /\ KilledAfterEffect
                   /\ Goto("undo")
  BY DEF RuleAdd
<1>3. PICK A : A = {<<call.arg, owner[call.arg], Directions[i]>> : i \in 1..n}
  OBVIOUS
<1>4. policy' = [policy EXCEPT !.rules = @ \cup A]
  BY <1>2, <1>3
<1>5. CommandDone
  BY <1>0, <1>2, CommandEnds DEF CommandDone
<1>6. NetshSafe' /\ policy'.rules = policy.rules \cup A
  BY <1>0, <1>1, <1>3, <1>4, <1>5, AddStep
<1>7. CASE Goto("undo")
  <2>1. Came("undo")
    BY <1>0, <1>5, <1>7, CallComes DEF Steps
  <2> QED
    BY <1>1, <1>6, <2>1, RuleComes
<1>8. CASE n = Len(Directions) /\ Answer(TRUE)
  <2>1. Over(TRUE)
    BY <1>0, <1>5, <1>8, CallEnds
  <2>2. /\ <<call.arg, owner[call.arg], "in">> \in policy'.rules
        /\ call.arg \in Addr => <<call.arg, owner[call.arg], "out">> \in policy'.rules
    BY <1>3, <1>6, <1>8, DirectionsAre
  <2>3. \E r \in policy'.rules :
           /\ r[1] = call.arg /\ r[2] = owner'[call.arg]
           /\ (call.arg \in Addr => <<r[1], r[2], "out">> \in policy'.rules)
    BY <1>1, <2>2
  <2>4. NetshAnswerIsTrue'
    BY <2>1, <2>3 DEF Over, NetshAnswerIsTrue
  <2> QED
    BY <1>6, <2>1, <2>4, NetshSucceeds
<1> QED
  BY <1>2, <1>7, <1>8

\* The steps that drop the rules keep the invariant: the owner goes after them.
LEMMA UnruleKept ==
    ASSUME RuleCall, call.op \in {"unblock", "close"}, DropsRule
    PROVE  NetshKept
<1>0. /\ NetshSafe /\ RuleStage /\ call # Idle /\ CallInv /\ family' = family
      /\ ctx \in {"live", "cancelled"} /\ unsettled \in BOOLEAN /\ call.arg \in Target
  BY RuleCallHas
<1>1. CommandDone
  BY <1>0, CommandEnds DEF DropsRule, UnruleLook, UnruleDelete, UnruleDisown, CommandDone
<1>2. ASSUME Answer(FALSE), NetshSafe' PROVE NetshKept
  BY <1>0, <1>1, <1>2, CallEnds, NetshFails
<1>3. ASSUME Answer(TRUE), NetshSafe', UNCHANGED <<policy, reverted>>,
             RulesOf(policy, call.arg) # {} => unsettled \/ call.arg \in reverted
      PROVE  NetshKept
  <2>1. Over(TRUE)
    BY <1>0, <1>1, <1>3, CallEnds
  <2>2. NetshAnswerIsTrue'
    BY <1>1, <1>3, <2>1 DEF Over, NetshAnswerIsTrue, RulesOf, CommandDone
  <2> QED
    BY <1>3, <2>1, <2>2, NetshSucceeds
<1>4. CASE UnruleLook
  <2>1. UNCHANGED netshVars
    BY <1>4 DEF UnruleLook, NetshDone, NetshGoto
  <2>2. NetshSafe' /\ UNCHANGED <<policy, owner, reverted>>
    BY <1>0, <1>1, <2>1, NetshUntouched DEF netshVars
  <2>3. CASE owner[call.arg] = None
    BY <1>0, <1>3, <1>4, <2>2, <2>3, UnownedHasNone DEF UnruleLook, NetshDone
  <2>4. CASE owner[call.arg] # None
    <3>1. Came("delete")
      BY <1>0, <1>1, <1>4, <2>4, CallComes DEF UnruleLook, NetshGoto, Steps
    <3> QED
      BY <2>2, <2>4, <3>1, RuleComes
  <2> QED
    BY <2>3, <2>4
<1>5. CASE UnruleDelete
  <2>1. /\ owner[call.arg] # None /\ UNCHANGED <<isolation, backup, owner, reverted, reapplied>>
        /\ \/ policy' = policy
           \/ policy' = [policy EXCEPT !.rules = @ \ Named(owner[call.arg])]
    BY <1>0, <1>5 DEF UnruleDelete, RuleStage
  <2>2. /\ NetshSafe'
        /\ policy' = [policy EXCEPT !.rules = @ \ Named(owner[call.arg])] =>
              (RulesOf(policy', call.arg) # {} => unsettled' \/ call.arg \in reverted')
    BY <1>0, <1>1, <2>1, DeleteStep
  <2>3. CASE policy' = [policy EXCEPT !.rules = @ \ Named(owner[call.arg])] /\ Goto("disown")
    <3>1. Came("disown")
      BY <1>0, <1>1, <2>3, CallComes DEF Steps
    <3> QED
      BY <2>1, <2>2, <2>3, <3>1, RuleComes
  <2> QED
    BY <1>2, <1>5, <2>2, <2>3 DEF UnruleDelete
<1>6. CASE UnruleDisown
  <2>1. RulesOf(policy, call.arg) # {} => unsettled \/ call.arg \in reverted
    BY <1>0, <1>6 DEF UnruleDisown, RuleStage
  <2>2. /\ owner' \in {owner, [owner EXCEPT ![call.arg] = None]}
        /\ UNCHANGED <<policy, isolation, backup, reverted, reapplied>>
    BY <1>6 DEF UnruleDisown
  <2>3. NetshSafe'
    BY <1>0, <1>1, <2>1, <2>2, OwnerStep
  <2> QED
    BY <1>2, <1>3, <1>6, <2>1, <2>2, <2>3 DEF UnruleDisown
<1> QED
  BY <1>4, <1>5, <1>6 DEF DropsRule

\* Every step of the tools on netsh keeps their invariant.
LEMMA NetshStepKept ==
    ASSUME CallInv, NetshInv, family = "netsh", family' = family, NetshStep
    PROVE  NetshKept
<1>1. ASSUME call.pc # "idle" PROVE call # Idle
  BY <1>1, IdleIsNoCall
<1>2. CASE Isolate
  <2>1. call # Idle /\ call.op = "isolate"
    BY <1>1, <1>2 DEF Isolate, At, IsolateLook, IsolateExport, IsolateSave, ApplyUnpass,
       ApplyPass, ApplyDNS, ApplyBlock, IsolateRollback, IsolateClear
  <2> QED
    BY <1>2, <2>1, IsolateFilesKept, ApplyKept, ImportKept DEF Isolate
<1>3. CASE Release
  <2>1. call # Idle /\ call.op = "release"
    BY <1>1, <1>3 DEF Release, At, ReleaseLook, ReleaseImport, ReleaseForget, ReleaseDrop
  <2> QED
    BY <1>3, <2>1, ReleaseKept, ImportKept DEF Release
<1>4. CASE Block \/ OpenPort
  <2>1. RuleCall /\ call.op \in {"block", "open"} /\ AddsRule
    BY <1>1, <1>4 DEF Block, OpenPort, RuleCall
  <2> QED
    BY <2>1, RuleFileKept, RuleDeleteKept, RuleAddKept DEF AddsRule
<1>5. CASE Unblock \/ ClosePort
  <2>1. RuleCall /\ call.op \in {"unblock", "close"} /\ DropsRule
    BY <1>1, <1>5 DEF Unblock, ClosePort, RuleCall
  <2> QED
    BY <2>1, UnruleKept
<1>6. CASE NetshRestart
  <2>1. call' = Idle /\ CallInv' /\ ~ answer'.ok /\ unsettled' = unsettled /\ UNCHANGED netshVars
    BY <1>6, CallDrops DEF NetshRestart, Restarted
  <2>2. CommandDone
    BY <1>6 DEF NetshRestart, Restarted, CommandDone, CallInv
  <2>3. NetshSafe'
    BY <2>1, <2>2, NetshUntouched DEF NetshInv
  <2> QED
    BY <2>1, <2>3 DEF NetshKept, NetshInv, NetshAnswerIsTrue
<1> QED
  BY <1>2, <1>3, <1>4, <1>5, <1>6 DEF NetshStep


-----------------------------------------------------------------------------
(***************************************************************************)
(* The quarantine.                                                         *)
(***************************************************************************)
FilesKept == CallInv' /\ FilesInv'

Holdings == [content : Content \cup {Nothing, Partial}, same : BOOLEAN, linked : BOOLEAN]

\* A call that holds no file has no file to compare.
LEMMA NothingIsHeld ==
    NotHeld \in Holdings /\ NotHeld.content = Nothing /\ NotHeld.same /\ NotHeld.linked
BY DEF NotHeld, Holdings

\* Another process writes to the file or replaces it: what the call has established
\* of the file is gone, and the history says so.
LEMMA WriteKept ==
    ASSUME CallInv, FilesInv, family' = family, NEW c \in Content, WriteInPlace(c)
    PROVE  FilesKept
<1>0. /\ FilesTypes /\ held \in Holdings /\ (call # Idle => FilesStage)
      /\ c # Nothing /\ c # Partial /\ file # Nothing
      /\ file' = c /\ meant' = c
      /\ held' = [held EXCEPT !.same = @ /\ ~(Holding /\ held.linked)]
      /\ raced' = (raced \/ (Holding /\ call.pc \notin {"copy", "check"}))
      /\ UNCHANGED <<object, manifest, call, ctx, answer, calls, unsettled>>
  BY QuarantineAssumption DEF FilesInv, FilesTypes, Holdings, WriteInPlace, callVars
<1>1. CallInv'
  BY <1>0 DEF CallInv, Asked
<1>2. /\ held' \in Holdings /\ held'.content = held.content /\ held'.linked = held.linked
      /\ held'.same = (held.same /\ ~(Holding /\ held.linked))
  BY <1>0 DEF Holdings
<1>3. raced' \in BOOLEAN /\ (raced => raced')
  BY <1>0 DEF FilesTypes
<1>4. ContentIsKept'
  BY <1>0 DEF ContentIsKept
<1>5. ASSUME held = NotHeld PROVE held' = NotHeld
  BY <1>0, <1>5 DEF NotHeld, Holding
<1>6. FilesTypes'
  BY <1>0, <1>2, <1>3, <1>5 DEF FilesTypes, Holdings
<1>7. ASSUME call # Idle PROVE FilesStage'
  <2>1. CASE call.pc = "start"
    BY <1>0, <1>5, <1>7, <2>1 DEF FilesStage
  <2>2. CASE call.pc # "start"
    <3>1. Holding
      BY <1>0, <1>7, <2>2 DEF FilesStage, Holding
    <3>2. held'.linked => ~ held'.same
      BY <1>2, <3>1
    <3>3. call.pc \notin {"copy", "check"} => raced'
      BY <1>0, <3>1
    <3> QED
      BY <1>0, <1>2, <1>3, <1>7, <2>2, <3>2, <3>3 DEF FilesStage
  <2> QED
    BY <2>1, <2>2
<1> QED
  BY <1>0, <1>1, <1>4, <1>6, <1>7 DEF FilesKept, FilesInv

\* Another file takes the path: the call no longer holds the file that is
\* there, and the history says so.
LEMMA ReplaceKept ==
    ASSUME CallInv, FilesInv, family' = family, NEW c \in Content \cup {Nothing}, Replace(c)
    PROVE  FilesKept
<1>0. /\ FilesTypes /\ held \in Holdings /\ (call # Idle => FilesStage)
      /\ file' = c /\ meant' = c
      /\ held' = [held EXCEPT !.linked = @ /\ ~Holding]
      /\ raced' = (raced \/ Holding)
      /\ UNCHANGED <<object, manifest, call, ctx, answer, calls, unsettled>>
  BY DEF FilesInv, FilesTypes, Holdings, Replace, callVars
<1>1. CallInv'
  BY <1>0 DEF CallInv, Asked
<1>2. /\ held' \in Holdings /\ held'.content = held.content /\ held'.same = held.same
      /\ held'.linked = (held.linked /\ ~Holding)
  BY <1>0 DEF Holdings
<1>3. raced' \in BOOLEAN
  BY <1>0 DEF FilesTypes, Holding
<1>4. ContentIsKept'
  BY <1>0 DEF ContentIsKept
<1>5. ASSUME held = NotHeld PROVE held' = NotHeld
  BY <1>0, <1>5 DEF NotHeld, Holding
<1>6. FilesTypes'
  BY <1>0, <1>2, <1>3, <1>5 DEF FilesTypes, Holdings
<1>7. ASSUME call # Idle PROVE FilesStage'
  <2>1. CASE call.pc = "start"
    BY <1>0, <1>5, <1>7, <2>1 DEF FilesStage
  <2>2. CASE call.pc # "start"
    <3>1. Holding
      BY <1>0, <1>7, <2>2 DEF FilesStage, Holding
    <3>2. ~ held'.linked /\ raced'
      BY <1>0, <1>2, <3>1
    <3> QED
      BY <1>0, <1>2, <1>7, <2>2, <3>2 DEF FilesStage
  <2> QED
    BY <2>1, <2>2
<1> QED
  BY <1>0, <1>1, <1>4, <1>6, <1>7 DEF FilesKept, FilesInv

\* A call ends, or goes on.
LEMMA FilesEnds ==
    ASSUME CallInv, FilesInv, call # Idle, family' = family, NEW ok \in BOOLEAN,
           QuarantineDone(ok), file' \in Content \cup {Nothing, Partial},
           object' \subseteq Content, manifest' \subseteq Content, ContentIsKept'
    PROVE  FilesKept
<1>1. CommandDone /\ Answer(ok) /\ held' = NotHeld /\ UNCHANGED <<meant, raced>>
  BY DEF QuarantineDone, FileStep, CommandDone, CallInv
<1>2. Over(ok)
  BY <1>1, CallEnds
<1>3. FilesTypes'
  BY <1>1, NothingIsHeld DEF FilesInv, FilesTypes, Holdings
<1> QED
  BY <1>2, <1>3 DEF FilesKept, FilesInv, Over

\* A quarantine call goes on.
LEMMA FilesComes ==
    ASSUME CallInv, FilesInv, call # Idle, family' = family,
           NEW pc \in {"copy", "check", "manifest", "remove", "fill", "dropObject", "dropManifest"},
           QuarantineGoto(pc), file' \in Content \cup {Nothing, Partial},
           object' \subseteq Content, manifest' \subseteq Content, held' \in Holdings,
           ContentIsKept', call'.pc = pc => FilesStage'
    PROVE  FilesKept
<1>1. CommandDone /\ Goto(pc) /\ UNCHANGED <<meant, raced>>
  BY DEF QuarantineGoto, FileStep, CommandDone, CallInv
<1>2. Came(pc)
  BY <1>1, CallComes DEF Steps
<1>3. FilesTypes'
  BY <1>1, <1>2 DEF FilesInv, FilesTypes, Holdings, Came
<1> QED
  BY <1>2, <1>3 DEF FilesKept, FilesInv, Came


\* Opening and copying the file, and looking at it again.
LEMMA CopyKept ==
    ASSUME CallInv, FilesInv, call # Idle, family' = family,
           QuarantineOpen \/ QuarantineCopy \/ QuarantineCheck
    PROVE  FilesKept
<1>0. /\ FilesTypes /\ FilesStage /\ ContentIsKept /\ held \in Holdings
      /\ file \in Content \cup {Nothing, Partial}
      /\ object \subseteq Content /\ manifest \subseteq Content
      /\ UNCHANGED <<file, manifest, meant, raced>>
  BY DEF FilesInv, FilesTypes, Holdings, QuarantineOpen, QuarantineCopy, QuarantineCheck,
     QuarantineDone, QuarantineGoto
<1>1. ASSUME QuarantineDone(FALSE), object' = object PROVE FilesKept
  <2>1. ContentIsKept'
    BY <1>0, <1>1 DEF ContentIsKept
  <2> QED
    BY <1>0, <1>1, <2>1, FilesEnds
<1>2. CASE QuarantineOpen
  <2>1. CASE /\ file # Nothing /\ held' = [content |-> file, same |-> TRUE, linked |-> TRUE]
             /\ QuarantineGoto("copy") /\ object' = object
    <3>1. held' \in Holdings /\ held'.content = file /\ held'.linked
      BY <1>0, <2>1 DEF Holdings
    <3>2. ContentIsKept'
      BY <1>0, <2>1 DEF ContentIsKept
    <3>3. call'.pc = "copy" => FilesStage'
      BY <1>0, <2>1, <3>1 DEF FilesStage
    <3> QED
      BY <1>0, <2>1, <3>1, <3>2, <3>3, FilesComes
  <2> QED
    BY <1>1, <1>2, <2>1 DEF QuarantineOpen
<1>3. CASE QuarantineCopy
  <2>1. CASE /\ held' = [held EXCEPT !.content = IF held.linked THEN file ELSE @]
             /\ QuarantineGoto("check") /\ object' = object
    <3>1. /\ held.content # Nothing /\ (held.linked => file # Nothing)
          /\ ~ raced => held.linked
      BY <1>0, <1>3 DEF QuarantineCopy, At, FilesStage
    <3>2. /\ held' \in Holdings /\ held'.linked = held.linked
          /\ held'.content = IF held.linked THEN file ELSE held.content
      BY <1>0, <2>1 DEF Holdings
    <3>3. ContentIsKept'
      BY <1>0, <2>1 DEF ContentIsKept
    <3>4. call'.pc = "check" => FilesStage'
      BY <1>0, <2>1, <3>1, <3>2 DEF FilesStage
    <3> QED
      BY <1>0, <2>1, <3>2, <3>3, <3>4, FilesComes
  <2> QED
    BY <1>1, <1>3, <2>1 DEF QuarantineCopy
<1>4. CASE QuarantineCheck
  <2>1. CASE /\ held.same /\ held.content # Partial /\ held.content \notin manifest
             /\ object' = object \cup {held.content}
             /\ QuarantineGoto("manifest") /\ held' = held
    <3>1. /\ held.content # Nothing /\ (held.linked => file # Nothing)
          /\ ~ raced => held.linked /\ file = held.content
      BY <1>0, <1>4, <2>1 DEF QuarantineCheck, At, FilesStage
    <3>2. held.content \in Content /\ object' \subseteq Content
      BY <1>0, <2>1, <3>1 DEF Holdings
    <3>3. ContentIsKept'
      BY <1>0, <2>1 DEF ContentIsKept
    <3>4. call'.pc = "manifest" => FilesStage'
      BY <1>0, <2>1, <3>1 DEF FilesStage
    <3> QED
      BY <1>0, <2>1, <3>2, <3>3, <3>4, FilesComes
  <2> QED
    BY <1>1, <1>4, <2>1 DEF QuarantineCheck
<1> QED
  BY <1>2, <1>3, <1>4

\* The manifest, and the removal it allows.
LEMMA RemovalKept ==
    ASSUME CallInv, FilesInv, call # Idle, family' = family,
           QuarantineManifest \/ QuarantineRemove
    PROVE  FilesKept
<1>0. /\ FilesStage /\ ContentIsKept /\ held \in Holdings
      /\ file \in Content \cup {Nothing, Partial}
      /\ object \subseteq Content /\ manifest \subseteq Content
      /\ UNCHANGED <<meant, raced>>
  BY DEF FilesInv, FilesTypes, Holdings, QuarantineManifest, QuarantineRemove,
     QuarantineDone, QuarantineGoto
<1>1. CASE QuarantineManifest
  <2>1. /\ held.content \in object \ manifest /\ (~ raced => file = held.content)
        /\ held.content # Nothing /\ (held.linked => file # Nothing)
        /\ ~ raced => held.linked
        /\ file' = file
    BY <1>0, <1>1 DEF QuarantineManifest, At, FilesStage
  <2>2. CASE /\ manifest' = manifest \cup {held.content} /\ UNCHANGED <<object, held>>
             /\ QuarantineGoto("remove")
    <3>1. ContentIsKept'
      BY <1>0, <2>1, <2>2 DEF ContentIsKept
    <3>2. call'.pc = "remove" => FilesStage'
      BY <1>0, <2>1, <2>2 DEF FilesStage
    <3> QED
      BY <1>0, <2>1, <2>2, <3>1, <3>2, FilesComes
  <2>3. CASE /\ manifest' \in {manifest, manifest \cup {held.content}}
             /\ object' \in {object, object \ {held.content}}
             /\ QuarantineDone(FALSE)
    <3>1. ContentIsKept'
      BY <1>0, <2>1, <2>3 DEF ContentIsKept
    <3> QED
      BY <1>0, <2>1, <2>3, <3>1, FilesEnds
  <2> QED
    BY <1>1, <2>2, <2>3 DEF QuarantineManifest
<1>2. CASE QuarantineRemove
  <2>1. held.content \in object \cap manifest /\ (~ raced => file = held.content)
    BY <1>0, <1>2 DEF QuarantineRemove, At, FilesStage
  <2>2. CASE file' = Nothing /\ UNCHANGED <<object, manifest>> /\ QuarantineDone(TRUE)
    <3>1. ContentIsKept'
      BY <1>0, <2>1, <2>2 DEF ContentIsKept
    <3> QED
      BY <1>0, <2>2, <3>1, FilesEnds
  <2>3. CASE /\ manifest' \in {manifest, manifest \ {held.content}}
             /\ object' \in {object, object \ {held.content}}
             /\ UNCHANGED file /\ QuarantineDone(FALSE)
    <3>1. ContentIsKept'
      BY <1>0, <2>1, <2>3 DEF ContentIsKept
    <3> QED
      BY <1>0, <2>3, <3>1, FilesEnds
  <2> QED
    BY <1>2, <2>2, <2>3 DEF QuarantineRemove
<1> QED
  BY <1>1, <1>2

\* The steps of restore keep the invariant: the object goes only after the file
\* is complete.
LEMMA RestoreKept ==
    ASSUME CallInv, FilesInv, call # Idle, family' = family,
           RestoreOpen \/ RestoreFill \/ RestoreDropObject \/ RestoreDropManifest
    PROVE  FilesKept
<1>0. /\ FilesStage /\ ContentIsKept /\ held \in Holdings
      /\ file \in Content \cup {Nothing, Partial} /\ meant \in Content \cup {Nothing}
      /\ object \subseteq Content /\ manifest \subseteq Content
      /\ UNCHANGED <<meant, raced>>
      /\ Nothing \notin Content /\ Partial \notin Content /\ Nothing # Partial
  BY QuarantineAssumption DEF FilesInv, FilesTypes, Holdings, RestoreOpen, RestoreFill,
     RestoreDropObject, RestoreDropManifest, QuarantineDone, QuarantineGoto
<1>1. CASE RestoreOpen
  <2>1. CASE QuarantineDone(FALSE) /\ UNCHANGED <<file, object, manifest>>
    <3>1. ContentIsKept'
      BY <1>0, <2>1 DEF ContentIsKept
    <3> QED
      BY <1>0, <2>1, <3>1, FilesEnds
  <2>2. CASE /\ call.arg \in manifest /\ file = Nothing /\ file' = Partial
             /\ held' = [content |-> call.arg, same |-> TRUE, linked |-> TRUE]
             /\ QuarantineGoto("fill") /\ UNCHANGED <<object, manifest>>
    <3>1. call.arg \in Content /\ held' \in Holdings /\ held'.content = call.arg /\ held'.linked
      BY <1>0, <2>2 DEF Holdings
    <3>2. ContentIsKept'
      BY <1>0, <2>2 DEF ContentIsKept
    <3>3. call'.pc = "fill" => FilesStage'
      BY <1>0, <2>2, <3>1 DEF FilesStage
    <3> QED
      BY <1>0, <2>2, <3>1, <3>2, <3>3, FilesComes
  <2> QED
    BY <1>1, <2>1, <2>2 DEF RestoreOpen
<1>2. CASE RestoreFill
  <2>1. /\ held.content \in Content /\ (~ raced => file = Partial)
        /\ ~ raced => held.linked
        /\ held.linked => file # Nothing
        /\ UNCHANGED <<object, manifest>>
    BY <1>0, <1>2 DEF RestoreFill, At, FilesStage
  <2>2. ContentIsKept'
    BY <1>0, <2>1 DEF ContentIsKept
  <2>3. CASE /\ file' = IF held.linked THEN held.content ELSE file
             /\ QuarantineGoto("dropObject") /\ UNCHANGED held
    <3>1. call'.pc = "dropObject" => FilesStage'
      BY <1>0, <2>1, <2>3 DEF FilesStage
    <3> QED
      BY <1>0, <2>1, <2>2, <2>3, <3>1, FilesComes
  <2>4. CASE file' \in {file, Nothing} /\ QuarantineDone(FALSE)
    BY <1>0, <2>1, <2>2, <2>4, FilesEnds
  <2> QED
    BY <1>2, <2>3, <2>4 DEF RestoreFill
<1>3. CASE RestoreDropObject
  <2>1. /\ held.content # Nothing /\ (~ raced => file = held.content /\ held.linked)
        /\ held.linked => file # Nothing
        /\ UNCHANGED <<file, manifest>> /\ object' \in {object, object \ {held.content}}
    BY <1>0, <1>3 DEF RestoreDropObject, At, FilesStage
  <2>2. ContentIsKept'
    BY <1>0, <2>1 DEF ContentIsKept
  <2>3. CASE QuarantineGoto("dropManifest") /\ UNCHANGED held
    <3>1. call'.pc = "dropManifest" => FilesStage'
      BY <1>0, <2>1, <2>3 DEF FilesStage
    <3> QED
      BY <1>0, <2>1, <2>2, <2>3, <3>1, FilesComes
  <2>4. CASE QuarantineDone(FALSE)
    BY <1>0, <2>1, <2>2, <2>4, FilesEnds
  <2> QED
    BY <1>3, <2>3, <2>4 DEF RestoreDropObject
<1>4. CASE RestoreDropManifest
  <2>1. /\ ~ raced => file = held.content
        /\ UNCHANGED <<file, object>> /\ manifest' \in {manifest, manifest \ {held.content}}
    BY <1>0, <1>4 DEF RestoreDropManifest, At, FilesStage
  <2>2. ContentIsKept'
    BY <1>0, <2>1 DEF ContentIsKept
  <2>3. ASSUME NEW ok \in BOOLEAN, QuarantineDone(ok) PROVE FilesKept
    BY <1>0, <2>1, <2>2, <2>3, FilesEnds
  <2> QED
    BY <1>4, <2>3 DEF RestoreDropManifest
<1> QED
  BY <1>1, <1>2, <1>3, <1>4

\* Every step of the quarantine keeps its invariant.
LEMMA QuarantineStepKept ==
    ASSUME CallInv, FilesInv, family' = family, QuarantineStep
    PROVE  FilesKept
<1>1. CASE QuarantineRestart
  <2>1. call' = Idle /\ CallInv' /\ held' = NotHeld
        /\ UNCHANGED <<file, object, manifest, meant, raced>>
    BY <1>1, CallDrops DEF QuarantineRestart, Restarted
  <2>2. FilesTypes' /\ ContentIsKept'
    BY <2>1, NothingIsHeld DEF FilesInv, FilesTypes, Holdings, ContentIsKept
  <2> QED
    BY <2>1, <2>2 DEF FilesKept, FilesInv
<1>2. CASE QuarantineOpen \/ QuarantineCopy \/ QuarantineCheck
  <2>1. call # Idle
    BY <1>2, IdleIsNoCall DEF QuarantineOpen, QuarantineCopy, QuarantineCheck, At
  <2> QED
    BY <1>2, <2>1, CopyKept
<1>3. CASE QuarantineManifest \/ QuarantineRemove
  <2>1. call # Idle
    BY <1>3, IdleIsNoCall DEF QuarantineManifest, QuarantineRemove, At
  <2> QED
    BY <1>3, <2>1, RemovalKept
<1>4. CASE RestoreOpen \/ RestoreFill \/ RestoreDropObject \/ RestoreDropManifest
  <2>1. call # Idle
    BY <1>4, IdleIsNoCall DEF RestoreOpen, RestoreFill, RestoreDropObject, RestoreDropManifest, At
  <2> QED
    BY <1>4, <2>1, RestoreKept
<1> QED
  BY <1>1, <1>2, <1>3, <1>4, WriteKept, ReplaceKept DEF QuarantineStep


-----------------------------------------------------------------------------
(***************************************************************************)
(* The three families together.                                            *)
(***************************************************************************)
LEMMA InitialTypes ==
    /\ NftInit => NftTypes
    /\ NetshInit => NetshTypes /\ policy.out = "allow"
<1>1. NftInit => NftTypes
  BY DEF NftInit, NftTypes
<1>2. ASSUME NetshInit PROVE NetshTypes /\ policy.out = "allow"
  <2>1. policy \in Policies /\ policy.out = "allow"
    BY <1>2 DEF NetshInit, Policies
  <2>2. owner \in [Target -> (1..MaxCalls) \cup {None}]
    BY <1>2 DEF NetshInit
  <2> QED
    BY <1>2, <2>1, <2>2 DEF NetshInit, NetshTypes
<1> QED
  BY <1>1, <1>2

\* netsh is safe before any call.
LEMMA InitialSafe ==
    ASSUME NetshInit, unsettled \in BOOLEAN
    PROVE  NetshSafe
<1>1. NetshTypes /\ policy.out = "allow" /\ policy.rules = {} /\ backup = None
  BY InitialTypes DEF NetshInit
<1> QED
  BY <1>1 DEF NetshSafe, IsolationIsReversible, ControlPathIsOpen, RuleIsOwned

\* The invariant of the tools holds at first.
LEMMA ToolsInitInv ==
    ASSUME ToolsInit
    PROVE  ToolsInv
<1>1. CallInv /\ call = Idle /\ ~ answer.ok
  <2>1. call = Idle /\ ctx = "live" /\ answer = NoAnswer /\ calls = 0 /\ unsettled = FALSE
    BY DEF ToolsInit, CallInit
  <2>2. calls \in 0..MaxCalls
    BY <2>1, MaxCallsAssumption
  <2> QED
    BY <2>1, <2>2 DEF CallInv, NoAnswer
<1>2. NftInit /\ NftInv
  BY <1>1, InitialTypes DEF ToolsInit, NftInv, NftInit, TableIsOwned, NftAnswerIsTrue
<1>3. NetshInit /\ NetshInv
  BY <1>1, InitialSafe DEF ToolsInit, NetshInv, NetshAnswerIsTrue, CallInv
<1>4. FilesTypes /\ held = NotHeld /\ file = meant
  BY NothingIsHeld DEF ToolsInit, QuarantineInit, FilesTypes, Holdings
<1>5. FilesInv
  BY <1>1, <1>4 DEF FilesInv, ContentIsKept
<1> QED
  BY <1>1, <1>2, <1>3, <1>4, <1>5 DEF ToolsInv, ToolsInit

\* What the other families' steps leave alone.
LEMMA NftStays ==
    ASSUME NftInit, UNCHANGED nftVars
    PROVE  NftInit'
BY DEF NftInit, nftVars

\* The initial state of netsh stays while nothing touches it.
LEMMA NetshStays ==
    ASSUME NetshInit, UNCHANGED netshVars
    PROVE  NetshInit'
BY DEF NetshInit, netshVars

\* The quarantine stays as it is while nothing touches it.
LEMMA FilesStay ==
    ASSUME FilesTypes, held = NotHeld, file = meant, UNCHANGED quarantineVars
    PROVE  FilesTypes' /\ held' = NotHeld' /\ file' = meant'
BY DEF FilesTypes, quarantineVars, NotHeld

\* Every step of the tools keeps their invariant.
LEMMA ToolsNextInv ==
    ASSUME ToolsInv, ToolsNext
    PROVE  ToolsInv'
<1>1. CASE ExecuteTool
  <2>1. /\ CallInv' /\ call = Idle /\ call' # Idle /\ call'.pc = "start" /\ ~ call'.fresh
        /\ UNCHANGED <<ctx, unsettled, nftVars, quarantineVars, netshVars, family>>
    BY <1>1, ExecuteEffect DEF ToolsInv
  <2>2. ~ answer'.ok
    BY <2>1 DEF CallInv
  <2>3. CommandDone
    BY <2>1 DEF CommandDone, ToolsInv, CallInv
  <2>4. ASSUME NftInv PROVE NftInv'
    <3>1. NftTypes' /\ TableIsOwned'
      BY <2>1, <2>4 DEF NftInv, NftTypes, TableIsOwned, nftVars
    <3> QED
      BY <2>1, <2>2, <3>1 DEF NftInv, NftStage, NftAnswerIsTrue
  <2>5. ASSUME NetshInv PROVE NetshInv'
    <3>1. NetshSafe'
      BY <2>1, <2>3, <2>5, NetshUntouched DEF NetshInv
    <3>2. NetshStage'
      BY <2>1 DEF NetshStage, IsolateStage, ReleaseStage, RuleStage
    <3> QED
      BY <2>2, <3>1, <3>2 DEF NetshInv, NetshAnswerIsTrue
  <2>6. ASSUME FilesInv PROVE FilesInv'
    <3>1. FilesTypes' /\ ContentIsKept' /\ held' = NotHeld
      BY <2>1, <2>6 DEF FilesInv, FilesTypes, ContentIsKept, quarantineVars
    <3> QED
      BY <2>1, <3>1 DEF FilesInv, FilesStage
  <2> QED
    BY <2>1, <2>4, <2>5, <2>6, NftStays, NetshStays, FilesStay DEF ToolsInv
<1>2. CASE NftNext
  <2>1. family = "nft" /\ NftStep /\ UNCHANGED <<quarantineVars, netshVars, family>>
    BY <1>2 DEF NftNext
  <2>2. NftKept
    BY <2>1, NftStepKept DEF ToolsInv
  <2> QED
    BY <2>1, <2>2, NetshStays, FilesStay DEF ToolsInv, NftKept
<1>3. CASE NetshNext
  <2>1. family = "netsh" /\ NetshStep /\ UNCHANGED <<nftVars, quarantineVars, family>>
    BY <1>3 DEF NetshNext
  <2>2. NetshKept
    BY <2>1, NetshStepKept DEF ToolsInv
  <2> QED
    BY <2>1, <2>2, NftStays, FilesStay DEF ToolsInv, NetshKept
<1>4. CASE FilesNext
  <2>1. family = "files" /\ QuarantineStep /\ UNCHANGED <<nftVars, netshVars, family>>
    BY <1>4 DEF FilesNext
  <2>2. FilesKept
    BY <2>1, QuarantineStepKept DEF ToolsInv
  <2> QED
    BY <2>1, <2>2, NftStays, NetshStays DEF ToolsInv, FilesKept
<1> QED
  BY <1>1, <1>2, <1>3, <1>4 DEF ToolsNext

\* So does a step that leaves them alone.
LEMMA ToolsStutter ==
    ASSUME ToolsInv, UNCHANGED toolsVars
    PROVE  ToolsInv'
<1>1. UNCHANGED <<call, ctx, answer, calls, unsettled, family>>
      /\ UNCHANGED <<nftVars, quarantineVars, netshVars>>
  BY DEF toolsVars, callVars
<1>2. CallInv'
  BY <1>1 DEF ToolsInv, CallInv, Asked
<1>3. ASSUME NftInv PROVE NftInv'
  BY <1>1, <1>3 DEF NftInv, NftTypes, TableIsOwned, NftAnswerIsTrue, NftStage, Table, nftVars
<1>4. ASSUME NetshInv PROVE NetshInv'
  <2>1. NetshSafe' /\ NetshAnswerIsTrue'
    BY <1>1, <1>4, NetshUntouched
       DEF NetshInv, NetshAnswerIsTrue, netshVars, RulesOf, CommandDone, ToolsInv, CallInv
  <2>2. NetshStage => NetshStage'
    BY <1>1 DEF NetshStage, IsolateStage, ReleaseStage, RuleStage, netshVars, RulesOf,
       validateIsolationBackup
  <2> QED
    BY <1>1, <1>4, <2>1, <2>2 DEF NetshInv
<1>5. ASSUME FilesInv PROVE FilesInv'
  BY <1>1, <1>5 DEF FilesInv, FilesTypes, ContentIsKept, FilesStage, quarantineVars, NotHeld
<1> QED
  BY <1>1, <1>2, <1>3, <1>4, <1>5, NftStays, NetshStays, FilesStay DEF ToolsInv

\* The invariant of the tools, in every state of the host.
LEMMA ToolsInvariant == HostSpec => []ToolsInv
<1>1. HostInit => ToolsInv
  BY ToolsInitInv DEF HostInit
<1>2. ToolsInv /\ [HostNext]_hostVars => ToolsInv'
  <2>1. [HostNext]_hostVars => ToolsNext \/ UNCHANGED toolsVars
    BY DEF HostNext, hostVars
  <2> QED
    BY <2>1, ToolsNextInv, ToolsStutter
<1> QED
  BY <1>1, <1>2, PTL DEF HostSpec


-----------------------------------------------------------------------------
(***************************************************************************)
(* What the Agent has put in force it owns, through every failing step,    *)
(* cut-off command and restart, on either platform.                        *)
(***************************************************************************)
THEOREM ContainmentIsOwnedAlways == HostSpec => []ContainmentIsOwned
<1>1. ToolsInv => ContainmentIsOwned
  BY DEF ToolsInv, ContainmentIsOwned, NftInv, NetshInv, NetshSafe
<1> QED
  BY <1>1, ToolsInvariant, PTL

(***************************************************************************)
(* A success that a containment tool reports is so when it is reported.    *)
(***************************************************************************)
THEOREM AnswerIsTrueAlways == HostSpec => []AnswerIsTrue
<1>1. ToolsInv => AnswerIsTrue
  BY DEF ToolsInv, AnswerIsTrue, NftInv, NetshInv
<1> QED
  BY <1>1, ToolsInvariant, PTL

(***************************************************************************)
(* A host that is cut off has the signed state and the backup that a       *)
(* release verifies and imports.                                           *)
(***************************************************************************)
THEOREM IsolationIsReversibleAlways == HostSpec => []IsolationIsReversible
<1>1. ToolsInv => IsolationIsReversible
  BY InitialSafe DEF ToolsInv, NetshInv, NetshSafe, CallInv
<1> QED
  BY <1>1, ToolsInvariant, PTL

(***************************************************************************)
(* A host that is cut off by a first isolation still reaches the Control   *)
(* Plane and DNS.                                                          *)
(***************************************************************************)
THEOREM ControlPathIsOpenAlways == HostSpec => []ControlPathIsOpen
<1>1. ToolsInv => ControlPathIsOpen
  BY InitialSafe DEF ToolsInv, NetshInv, NetshSafe, CallInv
<1> QED
  BY <1>1, ToolsInvariant, PTL

(***************************************************************************)
(* Quarantine and restore never lose what another process left at the      *)
(* path, however their steps fail, unless the path got another file while  *)
(* they worked on it.                                                      *)
(***************************************************************************)
THEOREM ContentIsKeptAlways == HostSpec => []ContentIsKept
<1>1. ToolsInv => ContentIsKept
  BY DEF ToolsInv, FilesInv, ContentIsKept
<1> QED
  BY <1>1, ToolsInvariant, PTL

\* The tools' half of the type invariant.
LEMMA ToolsTypesAlways == HostSpec => []ToolsTypes
<1>1. ASSUME ToolsInv PROVE ToolsTypes
  <2>1. CallInv /\ NftTypes /\ NetshTypes /\ FilesTypes
    BY <1>1, InitialTypes DEF ToolsInv, NftInv, NetshInv, NetshSafe, FilesInv
  <2> QED
    BY <2>1 DEF ToolsTypes, CallInv, Calls, Steps, NftTypes, NetshTypes, FilesTypes
<1> QED
  BY <1>1, ToolsInvariant, PTL

-----------------------------------------------------------------------------
(***************************************************************************)
(* The runtime.                                                            *)
(***************************************************************************)
LEMMA AfterIs ==
    /\ After["first"] = "poll1" /\ After["poll1"] = "poll"
    /\ After["poll"] = "inventory" /\ After["inventory"] = "poll" /\ After["serve"] = "serve"
BY DEF After

Stages == {"off", "start", "first", "poll1", "poll", "inventory", "serve"}

Points == {"ready", "event", "inspect", "findings", "save", "report"}

\* What is read, collected or posted, and what the journal holds.
LogEvents == {"event", "fragment"} \X Nat

Inventories == {"inventory"} \X Snapshot

Events == LogEvents \cup Inventories \cup {<<"posted", "event">>}

RecordBodies ==
    LogEvents \cup ({"finding"} \X SUBSET Item)
      \cup {<<"posted", "event">>, <<"inventory", "host">>, <<"agent", "start">>,
            <<"agent", "stop">>, <<"error", "collector">>, <<"junk", "junk">>, <<"none", "none">>}

Hashes == Nat \X RecordBodies

Records == [seq : Nat, body : RecordBodies, prev : Hashes]

JournalTypes ==
    /\ lines \in Seq(Records) /\ head \in Hashes
    /\ torn \in BOOLEAN /\ scarred \in BOOLEAN

\* The file is whole and the open journal goes on where it ends.
JournalSound == ~ scarred => ~ torn /\ VerifyFile

HeadAt(h) == ~ scarred => h = Previous(Len(lines) + 1)

JournalInv == JournalTypes /\ JournalSound /\ (up => HeadAt(head))

JobTypes ==
    job \in [Worker -> [stage : Stages, pc : Points, rest : Seq(Events),
                        todo : SUBSET SUBSET Item]]

\* What a worker has in hand goes with where it is.
WorkerShape(w, j) ==
    /\ j.pc = "ready" => j.rest = <<>>
    /\ j.pc \in {"event", "inspect", "findings", "save"} => j.rest # <<>>
    /\ j.todo # {} => j.pc = "findings"
    /\ j.stage \in {"off", "start"} => j.pc = "ready"
    /\ ~ up => j.stage = "off"
    /\ j.pc = "save" => j.stage \in {"first", "inventory"}
    /\ IF w = "api" THEN j.stage \in {"off", "serve"} /\ j.pc # "report" ELSE j.stage # "serve"
    /\ j.stage \in {"first", "inventory"} => ToSet(j.rest) \subseteq Inventories
    /\ j.stage \in {"poll1", "poll"} => ToSet(j.rest) \subseteq LogEvents
    /\ j.stage = "serve" => ToSet(j.rest) \subseteq Events \ LogEvents

\* The API is not served before the first record.
ServedLater == job["main"].stage \in {"off", "start"} => job["api"].stage = "off"

JobInv ==
    up \in BOOLEAN /\ JobTypes /\ ServedLater /\ \A w \in Worker : WorkerShape(w, job[w])

\* The log: two halves per line.
TailTypes ==
    /\ source \in [fromStart : BOOLEAN, plain : BOOLEAN]
    /\ log \in Seq(Nat \X {1, 2}) /\ begun \in 0..MaxLines
    /\ offset \in [known : BOOLEAN, at : Nat] /\ unseen \in BOOLEAN
    /\ missed \subseteq 1..begun /\ dropped \subseteq 1..begun

LogShape ==
    /\ Len(log) <= 2 * begun /\ (InLine => Len(log) < 2 * begun)
    /\ \A k \in 1..Len(log) :
          /\ log[k][1] \in 1..begun
          /\ log[k][2] = 2 => k # 1 /\ log[k - 1] = <<log[k][1], 1>>
          /\ log[k][2] = 1 /\ k # Len(log) => log[k + 1] = <<log[k][1], 2>>

\* A line that the offset cuts in two was missed.
CutIsMissed(o) == o # 0 /\ log[o][2] = 1 => log[o][1] \in missed

OffsetShape ==
    /\ offset.at <= 2 * MaxLines /\ (~ offset.known => offset.at = 0)
    /\ offset.known /\ ~ unseen => offset.at <= Len(log) /\ CutIsMissed(offset.at)

\* The lines in hand: a fragment's line was missed, an event that is being
\* inspected is in the journal.
RestShape ==
    /\ LinesOf(job["main"].rest) \subseteq 1..begun
    /\ \A e \in ToSet(job["main"].rest) : e[1] = "fragment" => e[2] \in missed
    /\ ~ scarred /\ job["main"].pc \in {"inspect", "findings"}
         /\ job["main"].stage \in {"poll1", "poll"} /\ Event("main")[1] = "event" =>
          Event("main") \in Bodies

TailInv == TailTypes /\ LogShape /\ OffsetShape /\ RestShape /\ TailedIsJournaled

\* What is known of an item: it was reported, or is known without a finding, or a
\* worker is about to report it.
Reported == {i \in Item : \E f \in SUBSET Item : i \in f /\ <<"finding", f>> \in Bodies}

Covered == accepted \cup Reported \cup UNION job["api"].todo

DriftTypes ==
    /\ present \subseteq Item /\ previous \in Snapshot /\ baseline \in Snapshot
    /\ accepted \subseteq Item

DriftInv ==
    /\ DriftTypes
    /\ ~ scarred =>
          /\ baseline.items \subseteq Covered
          /\ up => previous.items \subseteq Covered \cup UNION job["main"].todo
          /\ job["main"].stage \in {"first", "inventory"}
               /\ job["main"].pc \in {"findings", "save"} =>
                Event("main")[2].items \subseteq Covered \cup UNION job["main"].todo

RuntimeInv == JobInv /\ JournalInv /\ TailInv /\ DriftInv

\* What an event or a finding puts into the journal.
LEMMA BodyTypes ==
    /\ \A e \in Events : Body(e) \in RecordBodies
    /\ \A e \in LogEvents : Body(e) = e
    /\ \A f \in SUBSET Item : <<"finding", f>> \in RecordBodies
BY DEF Events, Body, RecordBodies, LogEvents, Inventories

\* The record that Append makes of it, and its hash.
LEMMA RecordTypes ==
    ASSUME JournalTypes, NEW body \in RecordBodies
    PROVE  /\ Record(body) \in Records /\ Hash(Record(body)) \in Hashes
           /\ Record(body).seq = head[1] + 1 /\ Record(body).body = body
           /\ Record(body).prev = head
           /\ Junk \in Records /\ NoHash \in Hashes
<1>1. head[1] \in Nat /\ head \in Hashes
  BY DEF JournalTypes, Hashes
<1>2. NoHash \in Hashes
  BY DEF NoHash, Hashes, RecordBodies
<1>3. Junk \in Records
  BY <1>2 DEF Junk, Records, RecordBodies
<1>4. Record(body) \in Records
  BY <1>1 DEF Record, Records
<1> QED
  BY <1>1, <1>2, <1>3, <1>4 DEF Record, Hash, Hashes

\* A write changes the last line or adds one.
LEMMA WriteTypes ==
    ASSUME JournalTypes, NEW r \in Records, NEW newline \in BOOLEAN, Write(r, newline),
           Junk \in Records
    PROVE  /\ lines' \in Seq(Records) /\ torn' = ~ newline
           /\ ~ torn => lines' = Append(lines, r)
<1>1. CASE ~ torn
  BY <1>1 DEF Write, JournalTypes
<1>2. CASE torn
  <2>1. lines' = [lines EXCEPT ![Len(lines)] = Junk]
    BY <1>2 DEF Write
  <2>2. lines' \in Seq(Records)
    <3>1. Len(lines) \in Nat /\ lines \in [1..Len(lines) -> Records]
      BY LenProperties DEF JournalTypes
    <3>2. lines' \in [1..Len(lines) -> Records]
      BY <2>1, <3>1
    <3> QED
      BY <3>1, <3>2
  <2> QED
    BY <1>2, <2>2 DEF Write
<1> QED
  BY <1>1, <1>2 DEF JournalTypes

\* The file after a record that is written whole.
LEMMA WrittenEffect ==
    ASSUME JournalTypes, JournalSound, HeadAt(head), NEW body \in RecordBodies, Written(body)
    PROVE  /\ lines' \in Seq(Records) /\ torn' \in BOOLEAN /\ scarred' \in BOOLEAN
           /\ JournalSound' /\ (scarred => scarred')
           /\ ~ scarred' => /\ Hash(Record(body)) = Previous(Len(lines) + 1)'
                            /\ Bodies' = Bodies \cup {body}
<1>0. /\ Record(body) \in Records /\ Record(body).seq = head[1] + 1
      /\ Record(body).body = body /\ Record(body).prev = head /\ Junk \in Records
  BY RecordTypes
<1>1. /\ lines' \in Seq(Records) /\ torn' = FALSE
      /\ ~ torn => lines' = Append(lines, Record(body))
      /\ scarred' = (scarred \/ torn \/ TooLong(body)) /\ scarred' \in BOOLEAN
  BY <1>0, WriteTypes DEF Written, JournalTypes
<1>2. ASSUME ~ scarred'
      PROVE  /\ VerifyFile' /\ Hash(Record(body)) = Previous(Len(lines) + 1)'
             /\ Bodies' = Bodies \cup {body}
  <2>1. /\ ~ scarred /\ ~ torn /\ ~ TooLong(body) /\ VerifyFile
        /\ head = Previous(Len(lines) + 1) /\ lines \in Seq(Records)
    BY <1>1, <1>2 DEF JournalSound, HeadAt, JournalTypes
  <2>2. PICK n \in Nat : n = Len(lines)
    BY <2>1
  <2>3. /\ Len(lines') = n + 1 /\ lines'[n + 1] = Record(body)
        /\ \A i \in 1..n : lines'[i] = lines[i]
    BY <1>0, <1>1, <2>1, <2>2
  <2>4. head[1] = n
    <3>1. CASE n = 0
      BY <2>1, <2>2, <3>1 DEF Previous, NoHash
    <3>2. CASE n # 0
      <4>1. n \in 1..Len(lines) /\ lines[n].seq = n
        BY <2>1, <2>2, <3>2 DEF VerifyFile
      <4>2. head = Hash(lines[n])
        BY <2>1, <2>2, <3>2 DEF Previous
      <4> QED
        BY <4>1, <4>2 DEF Hash
    <3> QED
      BY <3>1, <3>2
  <2>5. \A i \in 1..n + 1 : Previous(i)' = IF i = 1 THEN NoHash ELSE Hash(lines[i - 1])
    BY <2>3 DEF Previous, Hash
  <2>6. ASSUME NEW i \in 1..n + 1
        PROVE  /\ lines'[i].seq = i /\ lines'[i].prev = Previous(i)'
               /\ ~ TooLong(lines'[i].body)
    <3>1. CASE i = n + 1
      BY <1>0, <2>1, <2>2, <2>3, <2>4, <2>5, <3>1 DEF Previous
    <3>2. CASE i \in 1..n
      BY <2>1, <2>2, <2>3, <2>5, <3>2 DEF VerifyFile, Previous
    <3> QED
      BY <3>1, <3>2
  <2>7. VerifyFile'
    BY <2>3, <2>6 DEF VerifyFile, TooLong
  <2>8. Previous(n + 2)' = Hash(Record(body))
    BY <2>3 DEF Previous, Hash
  <2>9. Bodies' = Bodies \cup {body}
    BY <1>0, <2>2, <2>3 DEF Bodies
  <2> QED
    BY <2>3, <2>7, <2>8, <2>9
<1> QED
  BY <1>1, <1>2 DEF JournalSound

\* A write cut short leaves a list of lines, scarred.
LEMMA CutEffect ==
    ASSUME JournalTypes, NEW body \in RecordBodies, Cut(body)
    PROVE  /\ lines' \in Seq(Records) /\ torn' \in BOOLEAN /\ scarred' = TRUE
<1>1. Record(body) \in Records /\ Junk \in Records
  BY RecordTypes
<1>2. CASE Write(Junk, FALSE)
  BY <1>1, <1>2, WriteTypes DEF Cut
<1>3. CASE Write(Record(body), FALSE)
  BY <1>1, <1>3, WriteTypes DEF Cut
<1>4. CASE Write(Record(body), TRUE)
  BY <1>1, <1>4, WriteTypes DEF Cut
<1> QED
  BY <1>2, <1>3, <1>4 DEF Cut

\* What every step does to the journal: it adds records, or scars it.
JournalGrows ==
    /\ JournalInv' /\ (scarred => scarred')
    /\ ~ scarred' => Bodies \subseteq Bodies'

\* An Append that succeeds has its record in the journal, unless that is
\* scarred.
LEMMA AppendedEffect ==
    ASSUME JournalInv, up, NEW body \in RecordBodies, Appended(body)
    PROVE  JournalGrows /\ (~ scarred' => body \in Bodies')
<1>1. JournalTypes /\ JournalSound /\ HeadAt(head) /\ Written(body)
  BY DEF JournalInv, Appended
<1>2. /\ lines' \in Seq(Records) /\ torn' \in BOOLEAN /\ scarred' \in BOOLEAN
      /\ JournalSound' /\ (scarred => scarred')
      /\ ~ scarred' => /\ Hash(Record(body)) = Previous(Len(lines) + 1)'
                       /\ Bodies' = Bodies \cup {body}
  BY <1>1, WrittenEffect
<1>3. head' = Hash(Record(body)) /\ head' \in Hashes
  BY <1>1, RecordTypes DEF Appended
<1>4. JournalInv'
  BY <1>2, <1>3 DEF JournalInv, JournalTypes, HeadAt
<1> QED
  BY <1>2, <1>4 DEF JournalGrows

\* A step that writes nothing keeps the journal as it is.
LEMMA JournalStays ==
    ASSUME JournalInv, UNCHANGED <<lines, torn, head, scarred>>, up' \in BOOLEAN, up' => up
    PROVE  JournalGrows /\ Bodies' = Bodies
<1>1. Bodies' = Bodies /\ VerifyFile' = VerifyFile
  BY DEF Bodies, VerifyFile, Previous
<1>2. HeadAt(head) => HeadAt(head)'
  BY DEF HeadAt, Previous
<1> QED
  BY <1>1, <1>2 DEF JournalGrows, JournalInv, JournalTypes, JournalSound

\* An Append that fails keeps the journal sound, or scars it.
LEMMA AppendFailedEffect ==
    ASSUME JournalInv, up' = up, NEW body \in RecordBodies, AppendFailed(body), up \in BOOLEAN
    PROVE  JournalGrows
<1>1. CASE Cut(body)
  <2>1. lines' \in Seq(Records) /\ torn' \in BOOLEAN /\ scarred' = TRUE
    BY <1>1, CutEffect DEF JournalInv
  <2> QED
    BY <2>1 DEF JournalGrows, JournalInv, JournalTypes, JournalSound, HeadAt, AppendFailed
<1>2. CASE UNCHANGED <<lines, torn, scarred>>
  BY <1>2, JournalStays DEF AppendFailed
<1> QED
  BY <1>1, <1>2 DEF AppendFailed

\* The process is gone, and its open journal with it.
LEMMA DiesEffect ==
    ASSUME JournalInv, up, ~ up', head' = head, NEW body \in RecordBodies, DiesInAppend(body)
    PROVE  JournalGrows
<1>1. CASE Cut(body)
  <2>1. lines' \in Seq(Records) /\ torn' \in BOOLEAN /\ scarred' = TRUE
    BY <1>1, CutEffect DEF JournalInv
  <2> QED
    BY <2>1 DEF JournalGrows, JournalInv, JournalTypes, JournalSound
<1>2. CASE Written(body)
  <2>1. /\ lines' \in Seq(Records) /\ torn' \in BOOLEAN /\ scarred' \in BOOLEAN
        /\ JournalSound' /\ (scarred => scarred')
        /\ ~ scarred' => Bodies' = Bodies \cup {body}
    BY <1>2, WrittenEffect DEF JournalInv
  <2> QED
    BY <2>1 DEF JournalGrows, JournalInv, JournalTypes
<1> QED
  BY <1>1, <1>2 DEF DiesInAppend

\* Open takes over a journal only if it verifies, and its last hash.
LEMMA OpenEffect ==
    ASSUME JournalInv, OpenJournal, UNCHANGED <<lines, torn, scarred>>
    PROVE  JournalGrows /\ Bodies' = Bodies
<1>0. JournalTypes /\ lines \in Seq(Records) /\ Len(lines) \in Nat
  BY DEF JournalInv, JournalTypes
<1>1. /\ Bodies' = Bodies /\ VerifyFile' = VerifyFile
      /\ Previous(Len(lines) + 1)' = Previous(Len(lines) + 1)
  BY DEF Bodies, VerifyFile, Previous
<1>2. head' \in Hashes
  <2>1. CASE Len(lines) = 0
    BY <2>1, <1>0, RecordTypes DEF OpenJournal, Previous, NoHash, Hashes, RecordBodies
  <2>2. CASE Len(lines) # 0
    <3>1. lines[Len(lines)] \in Records
      BY <1>0, <2>2
    <3>2. head' = Hash(lines[Len(lines)])
      BY <1>0, <2>2 DEF OpenJournal, Previous
    <3> QED
      BY <3>1, <3>2 DEF Hash, Hashes, Records
  <2> QED
    BY <2>1, <2>2
<1> QED
  BY <1>0, <1>1, <1>2 DEF JournalGrows, JournalInv, JournalTypes, JournalSound, HeadAt, OpenJournal

-----------------------------------------------------------------------------
(***************************************************************************)
(* Workers.                                                                *)
(***************************************************************************)
Jobs == [stage : Stages, pc : Points, rest : Seq(Events), todo : SUBSET SUBSET Item]

\* A worker's job after a step of another.
Others(w) == \A v \in Worker \ {w} : job'[v] = job[v]

\* A job at the beginning of a stage has nothing in hand.
LEMMA ReadyIsJob ==
    ASSUME NEW stage \in Stages
    PROVE  /\ Ready(stage) \in Jobs /\ Ready(stage).stage = stage /\ Ready(stage).pc = "ready"
           /\ Ready(stage).rest = <<>> /\ Ready(stage).todo = {}
BY DEF Ready, Jobs, Points

\* What Enter does to the worker's job, and to no other.
LEMMA EnterEffect ==
    ASSUME JobTypes, NEW w \in Worker, NEW pc \in Points, NEW rest \in Seq(Events),
           NEW todo \in SUBSET SUBSET Item, Enter(w, pc, rest, todo)
    PROVE  /\ JobTypes' /\ Others(w)
           /\ job'[w].stage = job[w].stage /\ job'[w].pc = pc /\ job'[w].rest = rest
           /\ job'[w].todo = todo
<1>1. PICK R, T : R = Seq(Events) /\ T = SUBSET SUBSET Item
  OBVIOUS
<1>2. job \in [Worker -> [stage : Stages, pc : Points, rest : R, todo : T]]
  BY <1>1 DEF JobTypes
<1>3. PICK g : g = job'
  OBVIOUS
<1>4. g = [job EXCEPT ![w].pc = pc, ![w].rest = rest, ![w].todo = todo]
  BY <1>3 DEF Enter
<1>5. rest \in R /\ todo \in T
  BY <1>1
<1>6. /\ g \in [Worker -> [stage : Stages, pc : Points, rest : R, todo : T]]
      /\ g[w].stage = job[w].stage /\ g[w].pc = pc /\ g[w].rest = rest
      /\ g[w].todo = todo
      /\ \A v \in Worker \ {w} : g[v] = job[v]
  BY <1>2, <1>4, <1>5
<1> QED
  BY <1>1, <1>3, <1>6 DEF JobTypes, Others

Going == {"first", "poll1", "poll", "inventory", "serve"}

\* A worker that proceeds begins the next stage of its loop.
LEMMA ProceedEffect ==
    ASSUME JobTypes, NEW w \in Worker, job[w].stage \in Going, Proceed(w)
    PROVE  /\ JobTypes' /\ Others(w)
           /\ job'[w].stage = After[job[w].stage] /\ job'[w].stage \in Going
           /\ job[w].stage = "serve" <=> job'[w].stage = "serve"
           /\ job'[w].pc = "ready" /\ job'[w].rest = <<>> /\ job'[w].todo = {}
<1>1. PICK s \in Going : s = After[job[w].stage] /\ (s = "serve" <=> job[w].stage = "serve")
  BY AfterIs DEF Going
<1>2. Ready(s) \in Jobs /\ Ready(s).stage = s /\ Ready(s).pc = "ready"
      /\ Ready(s).rest = <<>> /\ Ready(s).todo = {}
  BY ReadyIsJob DEF Going, Stages
<1>3. job' = [job EXCEPT ![w] = Ready(s)] /\ job \in [Worker -> Jobs]
  BY <1>1 DEF Proceed, JobTypes, Jobs
<1>4. job' \in [Worker -> Jobs] /\ job'[w] = Ready(s) /\ Others(w)
  BY <1>2, <1>3 DEF Others
<1> QED
  BY <1>1, <1>2, <1>4 DEF JobTypes, Jobs

\* The events that are left, or the next stage.
LEMMA ContinueEffect ==
    ASSUME JobTypes, NEW w \in Worker, job[w].stage \in Going, NEW rest \in Seq(Events),
           Continue(w, rest)
    PROVE  /\ JobTypes' /\ Others(w)
           /\ job'[w].rest = rest /\ job'[w].todo = {}
           /\ job'[w].stage \in Going /\ (job[w].stage = "serve" <=> job'[w].stage = "serve")
           /\ \/ rest = <<>> /\ job'[w].pc = "ready"
              \/ rest # <<>> /\ job'[w].pc = "event" /\ job'[w].stage = job[w].stage
<1>1. CASE rest = <<>>
  BY <1>1, ProceedEffect DEF Continue
<1>2. CASE rest # <<>>
  BY <1>2, EnterEffect DEF Continue, Points
<1> QED
  BY <1>1, <1>2

\* One worker moves.
LEMMA JobMoves ==
    ASSUME JobInv, up' = up, NEW w \in Worker, Others(w), JobTypes', WorkerShape(w, job'[w]),
           job[w].stage \in Going, job'[w].stage \in Going
    PROVE  JobInv'
<1>0. ServedLater'
  BY DEF JobInv, ServedLater, Others, Worker, Going
<1>1. \A v \in Worker \ {w} : WorkerShape(v, job[v]) /\ job'[v] = job[v]
  BY DEF JobInv, Others
<1>2. \A v \in Worker : WorkerShape(v, job[v])'
  BY <1>1 DEF WorkerShape
<1> QED
  BY <1>0, <1>2 DEF JobInv

\* The members of a list are its head and those of its tail.
LEMMA TailSet ==
    ASSUME NEW S, NEW s \in Seq(S), s # <<>>
    PROVE  /\ Head(s) \in S /\ Tail(s) \in Seq(S)
           /\ ToSet(s) = ToSet(Tail(s)) \cup {Head(s)}
<1>1. /\ Len(s) \in Nat \ {0} /\ Head(s) = s[1] /\ Tail(s) \in Seq(S) /\ Head(s) \in S
      /\ Len(Tail(s)) = Len(s) - 1 /\ \A i \in 1..Len(s) - 1 : Tail(s)[i] = s[i + 1]
  BY HeadTailProperties, EmptySeq
<1>2. /\ DOMAIN s = 1..Len(s) /\ DOMAIN Tail(s) = 1..Len(s) - 1
  BY <1>1
<1>3. ASSUME NEW i \in 1..Len(s) PROVE s[i] \in ToSet(Tail(s)) \cup {Head(s)}
  <2>1. CASE i = 1
    BY <1>1, <2>1
  <2>2. CASE i # 1
    <3>1. i - 1 \in 1..Len(s) - 1 /\ Tail(s)[i - 1] = s[i]
      BY <1>1, <2>2
    <3> QED
      BY <1>2, <3>1 DEF ToSet
  <2> QED
    BY <2>1, <2>2
<1>4. ASSUME NEW i \in 1..Len(s) - 1 PROVE Tail(s)[i] \in ToSet(s)
  <2>1. i + 1 \in 1..Len(s) /\ Tail(s)[i] = s[i + 1]
    BY <1>1
  <2> QED
    BY <1>2, <2>1 DEF ToSet
<1>5. Head(s) \in ToSet(s)
  BY <1>1, <1>2 DEF ToSet
<1> QED
  BY <1>1, <1>2, <1>3, <1>4, <1>5 DEF ToSet

\* An empty list has no member.
LEMMA EmptyToSet == ToSet(<<>>) = {} /\ LinesOf(<<>>) = {}
BY DEF ToSet, LinesOf

\* The lines in hand.
LEMMA LinesOfIs ==
    ASSUME NEW s, NEW e \in ToSet(s), e[1] \in {"event", "fragment"}
    PROVE  e[2] \in LinesOf(s)
BY DEF LinesOf

\* A step that leaves the file and the tailer alone: what main no longer has in
\* hand is in the journal, or its line was dropped or missed.
LEMMA TailKeeps ==
    ASSUME TailInv, JournalGrows, UNCHANGED tailVars,
           dropped \subseteq dropped', dropped' \subseteq 1..begun,
           ToSet(job'["main"].rest) \subseteq ToSet(job["main"].rest),
           \A e \in ToSet(job["main"].rest) \ ToSet(job'["main"].rest) :
              e[1] = "event" => (~ scarred' => e \in Bodies' \/ e[2] \in dropped'),
           ~ scarred' /\ job'["main"].pc \in {"inspect", "findings"}
             /\ job'["main"].stage \in {"poll1", "poll"} /\ Head(job'["main"].rest)[1] = "event" =>
              Head(job'["main"].rest) \in Bodies',
           ToSet(job["main"].rest) \subseteq Events
    PROVE  TailInv'
<1>0. UNCHANGED <<source, log, begun, offset, rotations, unseen, missed>>
  BY DEF tailVars
<1>1. TailTypes' /\ LogShape'
  BY <1>0 DEF TailInv, TailTypes, LogShape, InLine
<1>2. OffsetShape'
  BY <1>0 DEF TailInv, OffsetShape, CutIsMissed
<1>3. LinesOf(job'["main"].rest) \subseteq LinesOf(job["main"].rest)
  BY DEF LinesOf
<1>4. RestShape'
  BY <1>0, <1>3 DEF TailInv, RestShape, Event, LinesOf
<1>5. Unread' = Unread
  BY <1>0 DEF Unread, LinesIn
<1>6. ASSUME ~ scarred', NEW l \in 1..begun
      PROVE  \/ <<"event", l>> \in Bodies'
             \/ l \in LinesOf(job'["main"].rest) \cup Unread \cup missed \cup dropped'
  <2>1. ~ scarred /\ Bodies \subseteq Bodies'
    BY <1>6 DEF JournalGrows
  <2>2. \/ <<"event", l>> \in Bodies
        \/ l \in LinesOf(job["main"].rest) \cup Unread \cup missed \cup dropped
    BY <2>1 DEF TailInv, TailedIsJournaled
  <2>3. CASE l \in LinesOf(job["main"].rest)
    <3>1. PICK e \in ToSet(job["main"].rest) : e[1] \in {"event", "fragment"} /\ e[2] = l
      BY <2>3 DEF LinesOf
    <3>2. CASE e \in ToSet(job'["main"].rest)
      BY <3>1, <3>2, LinesOfIs
    <3>3. CASE e \notin ToSet(job'["main"].rest) /\ e[1] = "event"
      <4>1. e = <<"event", l>>
        BY <3>1, <3>3 DEF Events, LogEvents, Inventories
      <4> QED
        BY <1>6, <3>1, <3>3, <4>1
    <3>4. CASE e[1] = "fragment"
      BY <3>1, <3>4 DEF TailInv, RestShape
    <3> QED
      BY <3>1, <3>2, <3>3, <3>4
  <2> QED
    BY <2>1, <2>2, <2>3
<1>7. TailedIsJournaled'
  BY <1>0, <1>5, <1>6 DEF TailedIsJournaled
<1> QED
  BY <1>1, <1>2, <1>4, <1>7 DEF TailInv

\* What has been reported stays so.
LEMMA ReportedGrows ==
    ASSUME JournalGrows, ~ scarred'
    PROVE  ~ scarred /\ Reported \subseteq Reported'
BY DEF JournalGrows, Reported

\* A step that leaves the snapshots alone.
LEMMA DriftKeeps ==
    ASSUME DriftInv, JournalGrows, UNCHANGED <<previous, baseline>>, up' => up, DriftTypes',
           ~ scarred' => Covered \subseteq Covered',
           ~ scarred' /\ up' => UNION job["main"].todo \subseteq Covered' \cup UNION job'["main"].todo,
           job'["main"].stage \in {"first", "inventory"} /\ job'["main"].pc \in {"findings", "save"} =>
              /\ job["main"].stage \in {"first", "inventory"}
              /\ job["main"].pc \in {"findings", "save"} /\ up'
              /\ job'["main"].rest = job["main"].rest
    PROVE  DriftInv'
<1>1. ASSUME ~ scarred'
      PROVE  /\ baseline'.items \subseteq Covered'
             /\ up' => previous'.items \subseteq Covered' \cup UNION job'["main"].todo
             /\ job'["main"].stage \in {"first", "inventory"}
                  /\ job'["main"].pc \in {"findings", "save"} =>
                   Event("main")'[2].items \subseteq Covered' \cup UNION job'["main"].todo
  <2>1. ~ scarred
    BY <1>1 DEF JournalGrows
  <2>2. /\ baseline.items \subseteq Covered
        /\ up => previous.items \subseteq Covered \cup UNION job["main"].todo
        /\ job["main"].stage \in {"first", "inventory"}
             /\ job["main"].pc \in {"findings", "save"} =>
              Event("main")[2].items \subseteq Covered \cup UNION job["main"].todo
    BY <2>1 DEF DriftInv
  <2>3. Event("main")' = Head(job'["main"].rest) /\ Event("main") = Head(job["main"].rest)
    BY DEF Event
  <2> QED
    BY <1>1, <2>2, <2>3
<1> QED
  BY <1>1 DEF DriftInv

-----------------------------------------------------------------------------
(***************************************************************************)
(* process.                                                                *)
(***************************************************************************)
LEMMA WorkersAre ==
    ASSUME JobInv, NEW w \in Worker
    PROVE  /\ job[w].stage \in Stages /\ job[w].pc \in Points /\ job[w].rest \in Seq(Events)
           /\ job[w].todo \subseteq SUBSET Item /\ WorkerShape(w, job[w])
           /\ ToSet(job[w].rest) \subseteq Events
           /\ w \in {"main", "api"}
<1>1. /\ job[w].stage \in Stages /\ job[w].pc \in Points /\ job[w].rest \in Seq(Events)
      /\ job[w].todo \subseteq SUBSET Item /\ WorkerShape(w, job[w])
  BY DEF JobInv, JobTypes
<1>2. ToSet(job[w].rest) \subseteq Events
  BY <1>1, LenProperties DEF ToSet
<1> QED
  BY <1>1, <1>2 DEF Worker

\* The workers are the main loop and the API.
LEMMA TwoWorkers == Worker = {"main", "api"} /\ "main" \in Worker /\ "api" \in Worker
BY DEF Worker

\* A worker with an event in hand.
LEMMA InHand ==
    ASSUME JobInv, NEW w \in Worker, job[w].pc \in {"event", "inspect", "findings", "save"}
    PROVE  /\ job[w].rest # <<>> /\ job[w].stage \in Going /\ up
           /\ Event(w) \in Events /\ Event(w) \in ToSet(job[w].rest)
           /\ Tail(job[w].rest) \in Seq(Events)
           /\ ToSet(job[w].rest) = ToSet(Tail(job[w].rest)) \cup {Event(w)}
           /\ job[w].pc # "findings" => job[w].todo = {}
<1>1. /\ job[w].rest # <<>> /\ job[w].stage \in Going /\ up
      /\ job[w].pc # "findings" => job[w].todo = {}
  BY WorkersAre DEF WorkerShape, Going, Stages, JobInv
<1>2. job[w].rest \in Seq(Events)
  BY WorkersAre
<1> QED
  BY <1>1, <1>2, TailSet DEF Event

\* A step of the API worker is no step of main.
LEMMA MainStays ==
    ASSUME JobInv, Others("api"), TailInv, JournalGrows, UNCHANGED <<tailVars, dropped>>
    PROVE  job'["main"] = job["main"] /\ TailInv'
<1>1. job'["main"] = job["main"]
  BY DEF Others, Worker
<1>2. ~ scarred' => ~ scarred /\ Bodies \subseteq Bodies'
  BY DEF JournalGrows
<1>3. ToSet(job["main"].rest) \subseteq Events
  BY WorkersAre, TwoWorkers
<1>4. dropped' \subseteq 1..begun
  BY DEF TailInv, TailTypes
<1>5. ~ scarred' /\ job'["main"].pc \in {"inspect", "findings"}
        /\ job'["main"].stage \in {"poll1", "poll"} /\ Head(job'["main"].rest)[1] = "event" =>
         Head(job'["main"].rest) \in Bodies'
  BY <1>1, <1>2 DEF TailInv, RestShape, Event
<1> QED
  BY <1>1, <1>3, <1>4, <1>5, TailKeeps

\* The findings in hand change, the snapshots do not.
LEMMA TodoKeeps ==
    ASSUME JobInv, DriftInv, JournalGrows, NEW w \in Worker, Others(w), up' = up,
           UNCHANGED <<present, previous, baseline>>,
           accepted \subseteq accepted', accepted' \subseteq Item,
           ~ scarred' => UNION job[w].todo \subseteq accepted' \cup Reported' \cup UNION job'[w].todo,
           w = "main" =>
             (job'[w].stage \in {"first", "inventory"} /\ job'[w].pc \in {"findings", "save"} =>
                /\ job[w].pc = "findings" /\ job'[w].rest = job[w].rest
                /\ job[w].stage = job'[w].stage)
    PROVE  DriftInv'
<1>0. /\ "main" # w => job'["main"] = job["main"]
      /\ "api" # w => job'["api"] = job["api"]
      /\ w \in {"main", "api"}
  BY DEF Others, Worker
<1>1. ASSUME ~ scarred'
      PROVE  /\ Covered \subseteq Covered'
             /\ UNION job["main"].todo \subseteq Covered' \cup UNION job'["main"].todo
  <2>1. Reported \subseteq Reported'
    BY <1>1, ReportedGrows
  <2>2. CASE w = "main"
    BY <1>0, <1>1, <2>1, <2>2 DEF Covered
  <2>3. CASE w = "api"
    BY <1>0, <1>1, <2>1, <2>3 DEF Covered
  <2> QED
    BY <1>0, <2>2, <2>3
<1>2. DriftTypes'
  BY DEF DriftInv, DriftTypes
<1>3. job'["main"].stage \in {"first", "inventory"} /\ job'["main"].pc \in {"findings", "save"} =>
         /\ job["main"].stage \in {"first", "inventory"}
         /\ job["main"].pc \in {"findings", "save"} /\ up'
         /\ job'["main"].rest = job["main"].rest
  <2>1. job["main"].pc \in {"findings", "save"} => up
    BY InHand, TwoWorkers
  <2> QED
    BY <1>0, <2>1
<1> QED
  BY <1>1, <1>2, <1>3, DriftKeeps

Kept == JobInv' /\ JournalInv' /\ TailInv' /\ DriftInv'

\* An event in the journal is on its way to be looked at.
LEMMA RecordEventKept ==
    ASSUME RuntimeInv, NEW w \in Worker, RecordEvent(w)
    PROVE  Kept
<1>0. /\ JobInv /\ JournalInv /\ TailInv /\ DriftInv /\ up /\ up' = up
      /\ job[w].pc = "event" /\ JobTypes
      /\ Appended(Body(Event(w))) /\ Enter(w, "inspect", job[w].rest, {})
      /\ UNCHANGED <<tailVars, driftVars, dropped>>
  BY DEF RuntimeInv, RecordEvent, JobInv
<1>1. /\ job[w].rest # <<>> /\ Event(w) \in Events /\ Event(w) \in ToSet(job[w].rest)
      /\ job[w].todo = {} /\ job[w].stage \in Going
  BY <1>0, InHand
<1>2. PICK body \in RecordBodies : body = Body(Event(w))
  BY <1>1, BodyTypes
<1>3. JournalGrows /\ (~ scarred' => body \in Bodies')
  BY <1>0, <1>2, AppendedEffect
<1>4. /\ JobTypes' /\ Others(w)
      /\ job'[w].stage = job[w].stage /\ job'[w].pc = "inspect" /\ job'[w].rest = job[w].rest
      /\ job'[w].todo = {}
  BY <1>0, WorkersAre, EnterEffect DEF Points
<1>5. JobInv'
  <2>1. WorkerShape(w, job'[w])
    BY <1>0, <1>1, <1>4, WorkersAre DEF WorkerShape
  <2> QED
    BY <1>0, <1>1, <1>4, <2>1, JobMoves
<1>6. TailInv'
  <2>1. CASE w = "main"
    <3>1. ToSet(job["main"].rest) \subseteq Events /\ dropped' \subseteq 1..begun
      BY <1>0, <2>1, WorkersAre DEF TailInv, TailTypes
    <3>2. job[w].stage \in {"poll1", "poll"} => body = Event(w)
      BY <1>0, <1>1, <1>2, WorkersAre, BodyTypes DEF WorkerShape
    <3>3. ~ scarred' /\ job'["main"].stage \in {"poll1", "poll"} =>
             Head(job'["main"].rest) \in Bodies'
      BY <1>3, <1>4, <2>1, <3>2 DEF Event
    <3> QED
      BY <1>0, <1>3, <1>4, <2>1, <3>1, <3>3, TailKeeps
  <2>2. CASE w = "api"
    BY <1>0, <1>3, <1>4, <2>2, MainStays
  <2> QED
    BY <2>1, <2>2, TwoWorkers
<1>7. DriftInv'
  <2>1. UNCHANGED <<present, previous, baseline, accepted>> /\ accepted' \subseteq Item
    BY <1>0 DEF driftVars, DriftInv, DriftTypes
  <2> QED
    BY <1>0, <1>1, <1>3, <1>4, <2>1, TodoKeeps
<1> QED
  BY <1>3, <1>5, <1>6, <1>7 DEF Kept, JournalGrows

\* A finding in the journal is no longer to be recorded.
LEMMA RecordFindingKept ==
    ASSUME RuntimeInv, NEW w \in Worker, RecordFinding(w)
    PROVE  Kept
<1>0. /\ JobInv /\ JournalInv /\ TailInv /\ DriftInv /\ up /\ up' = up
      /\ job[w].pc = "findings" /\ JobTypes
      /\ UNCHANGED <<tailVars, driftVars, dropped>>
  BY DEF RuntimeInv, RecordFinding, JobInv
<1>1. PICK f \in job[w].todo :
         Appended(<<"finding", f>>) /\ Enter(w, "findings", job[w].rest, job[w].todo \ {f})
  BY DEF RecordFinding
<1>2. /\ job[w].rest # <<>> /\ job[w].stage \in Going
      /\ f \in SUBSET Item /\ <<"finding", f>> \in RecordBodies
      /\ job[w].todo \ {f} \in SUBSET SUBSET Item
  BY <1>0, <1>1, InHand, WorkersAre, BodyTypes
<1>3. JournalGrows /\ (~ scarred' => <<"finding", f>> \in Bodies')
  BY <1>0, <1>1, <1>2, AppendedEffect
<1>4. /\ JobTypes' /\ Others(w)
      /\ job'[w].stage = job[w].stage /\ job'[w].pc = "findings" /\ job'[w].rest = job[w].rest
      /\ job'[w].todo = job[w].todo \ {f}
  BY <1>0, <1>1, <1>2, WorkersAre, EnterEffect DEF Points
<1>5. JobInv'
  <2>1. WorkerShape(w, job'[w])
    BY <1>0, <1>2, <1>4, WorkersAre DEF WorkerShape
  <2> QED
    BY <1>0, <1>2, <1>4, <2>1, JobMoves
<1>6. TailInv'
  <2>1. CASE w = "main"
    <3>1. ToSet(job["main"].rest) \subseteq Events /\ dropped' \subseteq 1..begun
      BY <1>0, <2>1, WorkersAre DEF TailInv, TailTypes
    <3>2. ~ scarred' => ~ scarred /\ Bodies \subseteq Bodies'
      BY <1>3 DEF JournalGrows
    <3>3. ~ scarred' /\ job'["main"].stage \in {"poll1", "poll"}
            /\ Head(job'["main"].rest)[1] = "event" => Head(job'["main"].rest) \in Bodies'
      BY <1>0, <1>4, <2>1, <3>2 DEF TailInv, RestShape, Event
    <3> QED
      BY <1>0, <1>3, <1>4, <2>1, <3>1, <3>3, TailKeeps
  <2>2. CASE w = "api"
    BY <1>0, <1>3, <1>4, <2>2, MainStays
  <2> QED
    BY <2>1, <2>2, TwoWorkers
<1>7. DriftInv'
  <2>1. UNCHANGED <<present, previous, baseline, accepted>> /\ accepted' \subseteq Item
    BY <1>0 DEF driftVars, DriftInv, DriftTypes
  <2>2. ~ scarred' => f \subseteq Reported'
    BY <1>2, <1>3 DEF Reported
  <2> QED
    BY <1>0, <1>3, <1>4, <2>1, <2>2, TodoKeeps
<1> QED
  BY <1>3, <1>5, <1>6, <1>7 DEF Kept, JournalGrows

\* The findings of a snapshot name its items, and every new one that is not silent.
LEMMA FindingsAre ==
    ASSUME NEW snap \in Snapshot, previous \in Snapshot, NEW found \in Findings(snap)
    PROVE  /\ found \in SUBSET SUBSET Item
           /\ \A i \in snap.items \ previous.items : Silent(i, snap) \/ i \in UNION found
<1>1. PICK a \in Singles("service", snap), b \in Singles("listener", snap),
           c \in Singles("pair", snap) :
         found = ({New("software", snap)} \ {{}}) \cup a \cup b \cup c
  BY DEF Findings
<1>2. /\ snap.items \subseteq Item /\ previous.items \subseteq Item
      /\ Kind \in [Item -> Kinds] /\ IsFiniteSet(Item) /\ MaxDelta \in Nat
  BY InventoryAssumption DEF Snapshot
<1>3. ASSUME NEW k PROVE New(k, snap) \subseteq Item
  BY <1>2 DEF New, Of
<1>4. ASSUME NEW k, NEW x \in Singles(k, snap) PROVE x \in SUBSET SUBSET Item
  <2>1. PICK s \in Some(New(k, snap)) : x = {{i} : i \in s}
    BY <1>4 DEF Singles
  <2>2. s \subseteq Item
    BY <1>3, <2>1 DEF Some, kSubset
  <2> QED
    BY <2>1, <2>2
<1>5. found \in SUBSET SUBSET Item
  <2>1. a \in SUBSET SUBSET Item /\ b \in SUBSET SUBSET Item /\ c \in SUBSET SUBSET Item
    BY <1>1, <1>4
  <2>2. New("software", snap) \in SUBSET Item
    BY <1>3
  <2> QED
    BY <1>1, <2>1, <2>2
<1>6. ASSUME NEW i \in snap.items \ previous.items, ~ Silent(i, snap)
      PROVE  i \in UNION found
  <2>1. Kind[i] \in Kinds /\ i \in Item
    BY <1>2
  <2>2. New(Kind[i], snap) = Of(Kind[i], snap.items \ previous.items)
    BY <1>6 DEF Silent, New
  <2>3. i \in New(Kind[i], snap)
    BY <2>2 DEF Of
  <2>4. CASE Kind[i] = "software"
    BY <1>1, <2>3, <2>4
  <2>5. CASE Kind[i] # "software"
    <3>1. PICK s : s = New(Kind[i], snap)
      OBVIOUS
    <3>2. ~ (Cardinality(s) > MaxDelta) /\ s \subseteq Item
      BY <1>3, <1>6, <2>2, <2>5, <3>1 DEF Silent
    <3>3. IsFiniteSet(s) /\ Cardinality(s) \in Nat
      BY <1>2, <3>2, FS_Subset, FS_CardinalityType
    <3>4. Min({MaxDelta, Cardinality(s)}) = Cardinality(s)
      BY <1>2, <3>2, <3>3 DEF Min
    <3>5. \A t \in Some(s) : t = s
      <4> SUFFICES ASSUME NEW t \in Some(s) PROVE t = s
        OBVIOUS
      <4>1. t \in SUBSET s /\ Cardinality(t) = Cardinality(s)
        BY <3>4 DEF Some, kSubset
      <4> QED
        BY <3>3, <4>1, FS_Subset
    <3>6. ASSUME NEW x \in Singles(Kind[i], snap) PROVE {i} \in x
      <4>1. PICK t \in Some(s) : x = {{j} : j \in t}
        BY <3>1, <3>6 DEF Singles
      <4> QED
        BY <2>3, <3>1, <3>5, <4>1
    <3>7. {i} \in found
      BY <1>1, <2>1, <2>5, <3>6 DEF Kinds
    <3> QED
      BY <3>7
  <2> QED
    BY <2>4, <2>5
<1> QED
  BY <1>5, <1>6

\* The new previous snapshot.
LEMMA EvaluatedKeeps ==
    ASSUME JobInv, DriftInv, NEW w \in Worker, Others(w), up' = up, UNCHANGED journalVars,
           job[w].pc = "inspect", job'[w].pc = "findings", job'[w].rest = job[w].rest,
           job'[w].stage = job[w].stage, NEW snap \in Snapshot, Event(w)[2] = snap,
           NEW found, Evaluate(snap, found), job'[w].todo = found
    PROVE  DriftInv'
<1>0. /\ "main" # w => job'["main"] = job["main"]
      /\ "api" # w => job'["api"] = job["api"]
      /\ w \in {"main", "api"} /\ job[w].todo = {} /\ up
  BY InHand DEF Others, Worker
<1>1. /\ previous \in Snapshot /\ found \in Findings(snap) /\ previous' = snap
      /\ accepted' = accepted \cup
           {i \in snap.items \ (previous.items \cup UNION found) : Silent(i, snap)}
      /\ UNCHANGED <<present, changes, baseline>>
  BY DEF DriftInv, DriftTypes, Evaluate
<1>2. \A i \in snap.items \ previous.items : Silent(i, snap) \/ i \in UNION found
  BY <1>1, FindingsAre
<1>3. DriftTypes'
  BY <1>1 DEF DriftInv, DriftTypes, Snapshot
<1>4. scarred' = scarred /\ Reported' = Reported
  BY DEF journalVars, Reported, Bodies
<1>5. Covered \subseteq Covered' /\ UNION job["main"].todo \subseteq UNION job'["main"].todo
  <2>1. CASE w = "main"
    BY <1>0, <1>1, <1>4, <2>1 DEF Covered
  <2>2. CASE w = "api"
    BY <1>0, <1>1, <1>4, <2>2 DEF Covered
  <2> QED
    BY <1>0, <2>1, <2>2
<1>6. UNION found \subseteq Covered' \cup UNION job'["main"].todo
  BY <1>0 DEF Covered
<1>7. ASSUME ~ scarred PROVE snap.items \subseteq Covered' \cup UNION job'["main"].todo
  <2>1. previous.items \subseteq Covered \cup UNION job["main"].todo
    BY <1>0, <1>7 DEF DriftInv
  <2>2. ASSUME NEW i \in snap.items, i \notin previous.items, i \notin UNION found
        PROVE  i \in accepted'
    BY <1>1, <1>2, <2>2
  <2> QED
    BY <1>5, <1>6, <2>1, <2>2 DEF Covered
<1>8. ASSUME ~ scarred, job'["main"].stage \in {"first", "inventory"},
             job'["main"].pc \in {"findings", "save"}
      PROVE  Event("main")'[2].items \subseteq Covered' \cup UNION job'["main"].todo
  <2>1. Event("main")' = Head(job'["main"].rest) /\ Event("main") = Head(job["main"].rest)
    BY DEF Event
  <2>2. CASE w = "main"
    BY <1>7, <1>8, <2>1, <2>2
  <2>3. CASE w = "api"
    BY <1>0, <1>5, <1>8, <2>1, <2>3 DEF DriftInv
  <2> QED
    BY <1>0, <2>2, <2>3
<1>9. ~ scarred => baseline'.items \subseteq Covered'
  BY <1>1, <1>5 DEF DriftInv
<1> QED
  BY <1>1, <1>3, <1>4, <1>7, <1>8, <1>9 DEF DriftInv

\* The findings to be recorded are those that account for what is new in the
\* snapshot.
LEMMA InspectKept ==
    ASSUME RuntimeInv, NEW w \in Worker, Inspect(w)
    PROVE  Kept
<1>0. /\ JobInv /\ JournalInv /\ TailInv /\ DriftInv /\ up /\ up' = up
      /\ job[w].pc = "inspect" /\ JobTypes
      /\ UNCHANGED <<journalVars, tailVars, dropped>>
  BY DEF RuntimeInv, Inspect, JobInv
<1>1. /\ job[w].rest # <<>> /\ Event(w) \in Events /\ Event(w) \in ToSet(job[w].rest)
      /\ job[w].todo = {} /\ job[w].stage \in Going
  BY <1>0, InHand
<1>2. JournalGrows /\ Bodies' = Bodies /\ scarred' = scarred
  BY <1>0, JournalStays DEF journalVars, JobInv
<1>3. PICK found \in SUBSET SUBSET Item :
         /\ Enter(w, "findings", job[w].rest, found)
         /\ \/ Event(w)[1] = "inventory" /\ Evaluate(Event(w)[2], found)
            \/ Event(w)[1] # "inventory" /\ found = {} /\ UNCHANGED driftVars
  <2>1. CASE Event(w)[1] = "inventory"
    <3>1. Event(w)[2] \in Snapshot /\ previous \in Snapshot
      BY <1>0, <1>1, <2>1 DEF Events, Inventories, LogEvents, DriftInv, DriftTypes
    <3>2. PICK found \in Findings(Event(w)[2]) :
             Evaluate(Event(w)[2], found) /\ Enter(w, "findings", job[w].rest, found)
      BY <2>1 DEF Inspect
    <3>3. found \in SUBSET SUBSET Item
      BY <3>1, <3>2, FindingsAre
    <3> QED
      BY <2>1, <3>2, <3>3
  <2>2. CASE Event(w)[1] # "inventory"
    BY <2>2 DEF Inspect
  <2> QED
    BY <2>1, <2>2
<1>4. /\ JobTypes' /\ Others(w)
      /\ job'[w].stage = job[w].stage /\ job'[w].pc = "findings" /\ job'[w].rest = job[w].rest
      /\ job'[w].todo = found
  BY <1>0, <1>3, WorkersAre, EnterEffect DEF Points
<1>5. JobInv'
  <2>1. WorkerShape(w, job'[w])
    BY <1>0, <1>1, <1>4, WorkersAre DEF WorkerShape
  <2> QED
    BY <1>0, <1>1, <1>4, <2>1, JobMoves
<1>6. TailInv'
  <2>1. CASE w = "main"
    <3>1. ToSet(job["main"].rest) \subseteq Events /\ dropped' \subseteq 1..begun
      BY <1>0, <2>1, WorkersAre DEF TailInv, TailTypes
    <3>2. ~ scarred' /\ job'["main"].stage \in {"poll1", "poll"}
            /\ Head(job'["main"].rest)[1] = "event" => Head(job'["main"].rest) \in Bodies'
      BY <1>0, <1>2, <1>4, <2>1 DEF TailInv, RestShape, Event
    <3> QED
      BY <1>0, <1>2, <1>4, <2>1, <3>1, <3>2, TailKeeps
  <2>2. CASE w = "api"
    BY <1>0, <1>2, <1>4, <2>2, MainStays
  <2> QED
    BY <2>1, <2>2, TwoWorkers
<1>7. DriftInv'
  <2>1. CASE Event(w)[1] = "inventory" /\ Evaluate(Event(w)[2], found)
    <3>1. Event(w)[2] \in Snapshot
      BY <1>1, <2>1 DEF Events, Inventories, LogEvents
    <3> QED
      BY <1>0, <1>4, <2>1, <3>1, EvaluatedKeeps
  <2>2. CASE Event(w)[1] # "inventory" /\ UNCHANGED driftVars
    <3>1. UNCHANGED <<present, previous, baseline, accepted>> /\ accepted' \subseteq Item
      BY <1>0, <2>2 DEF driftVars, DriftInv, DriftTypes
    <3>2. w = "main" => job[w].stage \notin {"first", "inventory"}
      BY <1>0, <1>1, <2>2, WorkersAre DEF WorkerShape, Inventories
    <3> QED
      BY <1>0, <1>1, <1>2, <1>4, <3>1, <3>2, TodoKeeps
  <2> QED
    BY <1>3, <2>1, <2>2
<1> QED
  BY <1>2, <1>5, <1>6, <1>7 DEF Kept, JournalGrows

\* Nothing is left but the error report.
LEMMA ReportEffect ==
    ASSUME JobTypes, NEW w \in Worker, Enter(w, "report", <<>>, {})
    PROVE  /\ JobTypes' /\ Others(w)
           /\ job'[w].stage = job[w].stage /\ job'[w].pc = "report" /\ job'[w].rest = <<>>
           /\ job'[w].todo = {}
<1>1. PICK none \in Seq(Events) : none = <<>>
  <2>1. <<>> \in Seq(Events)
    OBVIOUS
  <2> QED
    BY <2>1
<1>2. Enter(w, "report", none, {}) /\ "report" \in Points
  BY <1>1 DEF Points
<1>3. /\ JobTypes' /\ Others(w)
      /\ job'[w].stage = job[w].stage /\ job'[w].pc = "report" /\ job'[w].rest = none
      /\ job'[w].todo = {}
  BY <1>2, EnterEffect
<1> QED
  BY <1>1, <1>3

\* The worker goes on to the next event or stage, to the baseline, or to an error report.
GoesOn(w) ==
    \/ job[w].stage \in {"first", "inventory"} /\ Enter(w, "report", <<>>, {})
    \/ job[w].stage \in {"first", "inventory"} /\ job[w].pc = "findings"
         /\ Enter(w, "save", job[w].rest, {})
    \/ job[w].stage \notin {"first", "inventory"} /\ Continue(w, Tail(job[w].rest))

\* A worker that goes on has let go of its first event only, and of no finding.
LEMMA GoesOnEffect ==
    ASSUME JobInv, up' = up, NEW w \in Worker, job[w].pc \in {"event", "findings"}, GoesOn(w)
    PROVE  /\ JobInv' /\ Others(w) /\ job'[w].todo = {}
           /\ job'[w].pc \notin {"inspect", "findings"}
           /\ job'[w].pc = "save" => /\ job[w].pc = "findings" /\ job'[w].rest = job[w].rest
                                     /\ job'[w].stage = job[w].stage
           /\ ToSet(job'[w].rest) \subseteq ToSet(job[w].rest)
           /\ job[w].stage \notin {"first", "inventory"} =>
                 ToSet(job[w].rest) \subseteq ToSet(job'[w].rest) \cup {Event(w)}
<1>0. JobTypes /\ WorkerShape(w, job[w]) /\ job[w].rest \in Seq(Events)
  BY WorkersAre DEF JobInv
<1>1. /\ job[w].rest # <<>> /\ job[w].stage \in Going /\ up
      /\ Tail(job[w].rest) \in Seq(Events)
      /\ ToSet(job[w].rest) = ToSet(Tail(job[w].rest)) \cup {Event(w)}
  BY InHand
<1>3. CASE job[w].stage \in {"first", "inventory"} /\ Enter(w, "report", <<>>, {})
  <2>1. /\ JobTypes' /\ Others(w)
        /\ job'[w].stage = job[w].stage /\ job'[w].pc = "report" /\ job'[w].rest = <<>>
        /\ job'[w].todo = {}
    BY <1>0, <1>3, ReportEffect
  <2>2. WorkerShape(w, job'[w])
    BY <1>0, <1>1, <1>3, <2>1, EmptyToSet DEF WorkerShape
  <2> QED
    BY <1>1, <1>3, <2>1, <2>2, JobMoves, EmptyToSet
<1>4. CASE job[w].stage \in {"first", "inventory"} /\ job[w].pc = "findings"
             /\ Enter(w, "save", job[w].rest, {})
  <2>1. /\ JobTypes' /\ Others(w)
        /\ job'[w].stage = job[w].stage /\ job'[w].pc = "save" /\ job'[w].rest = job[w].rest
        /\ job'[w].todo = {}
    BY <1>0, <1>4, EnterEffect DEF Points
  <2>2. WorkerShape(w, job'[w])
    BY <1>0, <1>1, <1>4, <2>1 DEF WorkerShape
  <2> QED
    BY <1>1, <1>4, <2>1, <2>2, JobMoves
<1>5. CASE job[w].stage \notin {"first", "inventory"} /\ Continue(w, Tail(job[w].rest))
  <2>1. /\ JobTypes' /\ Others(w)
        /\ job'[w].rest = Tail(job[w].rest) /\ job'[w].todo = {}
        /\ job'[w].stage \in Going /\ (job[w].stage = "serve" <=> job'[w].stage = "serve")
        /\ \/ job'[w].rest = <<>> /\ job'[w].pc = "ready"
           \/ job'[w].rest # <<>> /\ job'[w].pc = "event" /\ job'[w].stage = job[w].stage
    BY <1>0, <1>1, <1>5, ContinueEffect
  <2>2. WorkerShape(w, job'[w])
    <3>1. CASE job'[w].rest = <<>> /\ job'[w].pc = "ready"
      BY <1>0, <1>1, <1>5, <2>1, <3>1, EmptyToSet DEF WorkerShape, Going
    <3>2. CASE job'[w].rest # <<>> /\ job'[w].pc = "event" /\ job'[w].stage = job[w].stage
      BY <1>0, <1>1, <1>5, <2>1, <3>2 DEF WorkerShape, Going
    <3> QED
      BY <2>1, <3>1, <3>2
  <2> QED
    BY <1>1, <2>1, <2>2, JobMoves
<1> QED
  BY <1>3, <1>4, <1>5 DEF GoesOn

\* An event that is no line of a log.
LEMMA NoLine ==
    ASSUME NEW e \in Events \ LogEvents
    PROVE  e[1] \notin {"event", "fragment"} /\ LinesOf(<<e>>) = {}
<1>1. e[1] \notin {"event", "fragment"}
  BY DEF Events, Inventories, LogEvents
<1>2. ToSet(<<e>>) = {e}
  BY DEF ToSet
<1> QED
  BY <1>1, <1>2 DEF LinesOf

\* The line of one log event.
LEMMA OneLine ==
    ASSUME NEW e \in LogEvents
    PROVE  LinesOf(<<e>>) = {e[2]}
<1>1. e[1] \in {"event", "fragment"}
  BY DEF LogEvents
<1>2. ToSet(<<e>>) = {e}
  BY DEF ToSet
<1> QED
  BY <1>1, <1>2 DEF LinesOf

\* What was in hand is in the journal, or dropped.
LEMMA GoesOnKeepsTail ==
    ASSUME JobInv, TailInv, JournalGrows, UNCHANGED tailVars, up' = up,
           NEW w \in Worker, job[w].pc \in {"event", "findings"}, GoesOn(w),
           dropped' = IF job[w].pc = "event" THEN dropped \cup LinesOf(<<Event(w)>>) ELSE dropped
    PROVE  TailInv'
<1>1. /\ Others(w) /\ job'[w].pc \notin {"inspect", "findings"}
      /\ ToSet(job'[w].rest) \subseteq ToSet(job[w].rest)
      /\ job[w].stage \notin {"first", "inventory"} =>
            ToSet(job[w].rest) \subseteq ToSet(job'[w].rest) \cup {Event(w)}
  BY GoesOnEffect
<1>2. /\ Event(w) \in Events /\ Event(w) \in ToSet(job[w].rest) /\ job[w].stage \in Going
      /\ ToSet(job[w].rest) \subseteq Events /\ WorkerShape(w, job[w])
  BY InHand, WorkersAre
<1>3. CASE w = "api"
  <2>1. Event(w) \in Events \ LogEvents
    BY <1>2, <1>3 DEF WorkerShape, Going
  <2>2. dropped' = dropped
    BY <2>1, NoLine
  <2> QED
    BY <1>1, <1>3, <2>2, MainStays
<1>4. CASE w = "main"
  <2>1. CASE job[w].stage \in {"first", "inventory"}
    <3>1. /\ \A e \in ToSet(job[w].rest) : e \in Events \ LogEvents
      BY <1>2, <2>1 DEF WorkerShape, Inventories, LogEvents
    <3>2. \A e \in ToSet(job[w].rest) : e[1] # "event"
      BY <3>1, NoLine
    <3>3. dropped' = dropped
      BY <1>2, <3>1, NoLine
    <3>4. dropped' \subseteq 1..begun
      BY <3>3 DEF TailInv, TailTypes
    <3> QED
      BY <1>1, <1>2, <1>4, <3>2, <3>3, <3>4, TailKeeps
  <2>2. CASE job[w].stage \in {"poll1", "poll"}
    <3>1. Event(w) \in LogEvents /\ LinesOf(<<Event(w)>>) = {Event(w)[2]}
      BY <1>2, <2>2, OneLine DEF WorkerShape
    <3>2. Event(w)[2] \in 1..begun
      <4>1. Event(w)[2] \in LinesOf(job[w].rest)
        BY <1>2, <3>1, LinesOfIs DEF LogEvents
      <4> QED
        BY <1>4, <4>1 DEF TailInv, RestShape
    <3>3. dropped \subseteq dropped' /\ dropped' \subseteq 1..begun
      BY <3>1, <3>2 DEF TailInv, TailTypes
    <3>4. ASSUME ~ scarred', Event(w)[1] = "event"
          PROVE  Event(w) \in Bodies' \/ Event(w)[2] \in dropped'
      <4>1. CASE job[w].pc = "event"
        BY <3>1, <4>1
      <4>2. CASE job[w].pc = "findings"
        <5>1. ~ scarred /\ Bodies \subseteq Bodies'
          BY <3>4 DEF JournalGrows
        <5> QED
          BY <1>4, <2>2, <3>4, <4>2, <5>1 DEF TailInv, RestShape
      <4> QED
        BY <4>1, <4>2
    <3>5. \A e \in ToSet(job["main"].rest) \ ToSet(job'["main"].rest) :
              e[1] = "event" => (~ scarred' => e \in Bodies' \/ e[2] \in dropped')
      BY <1>1, <1>4, <2>2, <3>4
    <3> QED
      BY <1>1, <1>2, <1>4, <3>3, <3>5, TailKeeps
  <2> QED
    BY <1>2, <1>4, <2>1, <2>2 DEF Going, WorkerShape
<1> QED
  BY <1>3, <1>4, TwoWorkers

\* A failed process drops the line and goes on.
LEMMA FailedGoesOn ==
    ASSUME NEW w \in Worker, Failed(w)
    PROVE  /\ GoesOn(w)
           /\ dropped' = IF job[w].pc = "event" THEN dropped \cup LinesOf(<<Event(w)>>) ELSE dropped
BY DEF Failed, GoesOn

\* A failed Append drops the line, or leaves findings that are noted as
\* unrecorded.
LEMMA RecordFailsKept ==
    ASSUME RuntimeInv, NEW w \in Worker, RecordFails(w)
    PROVE  Kept
<1>0. /\ JobInv /\ JournalInv /\ TailInv /\ DriftInv /\ up /\ up' = up /\ up \in BOOLEAN
      /\ job[w].pc \in {"event", "findings"} /\ Failed(w) /\ UNCHANGED tailVars
  BY DEF RuntimeInv, RecordFails, JobInv
<1>1. PICK body \in RecordBodies : AppendFailed(body)
  <2>1. CASE job[w].pc = "event" /\ AppendFailed(Body(Event(w)))
    BY <1>0, <2>1, InHand, BodyTypes
  <2>2. CASE job[w].pc = "findings" /\ \E f \in job[w].todo : AppendFailed(<<"finding", f>>)
    BY <1>0, <2>2, WorkersAre, BodyTypes
  <2> QED
    BY <2>1, <2>2 DEF RecordFails
<1>2. JournalGrows
  BY <1>0, <1>1, AppendFailedEffect
<1>3. /\ GoesOn(w)
      /\ dropped' = IF job[w].pc = "event" THEN dropped \cup LinesOf(<<Event(w)>>) ELSE dropped
  BY <1>0, FailedGoesOn
<1>4. /\ JobInv' /\ Others(w) /\ job'[w].todo = {}
      /\ job'[w].pc \notin {"inspect", "findings"}
      /\ job'[w].pc = "save" => /\ job[w].pc = "findings" /\ job'[w].rest = job[w].rest
                                /\ job'[w].stage = job[w].stage
  BY <1>0, <1>3, GoesOnEffect
<1>5. TailInv'
  BY <1>0, <1>2, <1>3, GoesOnKeepsTail
<1>6. /\ UNCHANGED <<present, previous, baseline>> /\ accepted \subseteq accepted'
      /\ accepted' \subseteq Item /\ UNION job[w].todo \subseteq accepted'
  <2>1. accepted \subseteq Item /\ UNION job[w].todo \subseteq Item
    BY <1>0, WorkersAre DEF DriftInv, DriftTypes
  <2>2. CASE job[w].pc = "event" /\ UNCHANGED driftVars
    BY <1>0, <2>1, <2>2, InHand DEF driftVars
  <2>3. CASE Unrecorded(job[w].todo)
    BY <2>1, <2>3 DEF Unrecorded
  <2> QED
    BY <2>2, <2>3 DEF RecordFails
<1>7. DriftInv'
  BY <1>0, <1>2, <1>4, <1>6, TodoKeeps
<1> QED
  BY <1>2, <1>4, <1>5, <1>7 DEF Kept, JournalGrows

\* An event that is queued has been recorded with its findings.
LEMMA QueueKept ==
    ASSUME RuntimeInv, NEW w \in Worker, Queue(w)
    PROVE  Kept
<1>0. /\ JobInv /\ JournalInv /\ TailInv /\ DriftInv /\ up /\ up' = up
      /\ job[w].pc = "findings" /\ job[w].todo = {}
      /\ UNCHANGED <<journalVars, tailVars, driftVars>>
  BY DEF RuntimeInv, Queue
<1>1. JournalGrows
  BY <1>0, JournalStays DEF journalVars, JobInv
<1>2. /\ GoesOn(w)
      /\ dropped' = IF job[w].pc = "event" THEN dropped \cup LinesOf(<<Event(w)>>) ELSE dropped
  <2>1. CASE Processed(w, TRUE)
    BY <1>0, <2>1 DEF Processed, GoesOn
  <2>2. CASE Processed(w, FALSE)
    BY <2>2, FailedGoesOn DEF Processed
  <2> QED
    BY <2>1, <2>2 DEF Queue
<1>3. /\ JobInv' /\ Others(w) /\ job'[w].todo = {}
      /\ job'[w].pc \notin {"inspect", "findings"}
      /\ job'[w].pc = "save" => /\ job[w].pc = "findings" /\ job'[w].rest = job[w].rest
                                /\ job'[w].stage = job[w].stage
  BY <1>0, <1>2, GoesOnEffect
<1>4. TailInv'
  BY <1>0, <1>1, <1>2, GoesOnKeepsTail
<1>5. UNCHANGED <<present, previous, baseline, accepted>> /\ accepted' \subseteq Item
  BY <1>0 DEF driftVars, DriftInv, DriftTypes
<1>6. DriftInv'
  BY <1>0, <1>1, <1>3, <1>5, TodoKeeps
<1> QED
  BY <1>1, <1>3, <1>4, <1>6 DEF Kept, JournalGrows

-----------------------------------------------------------------------------
(***************************************************************************)
(* Start and end of the process.                                           *)
(***************************************************************************)

\* A start opens the journal and seeds the drift rule from the baseline.
LEMMA StartAgentKept ==
    ASSUME RuntimeInv, StartAgent
    PROVE  Kept
<1>0. /\ JobInv /\ JournalInv /\ TailInv /\ DriftInv /\ ~ up /\ up' = TRUE
      /\ OpenJournal /\ previous' = baseline
      /\ job' = [job EXCEPT !["main"] = Ready("start")]
      /\ UNCHANGED <<lines, torn, scarred, tailVars, present, baseline, accepted, dropped>>
  BY DEF RuntimeInv, StartAgent, Seed
<1>1. JournalGrows /\ Bodies' = Bodies
  BY <1>0, OpenEffect
<1>2. /\ job \in [Worker -> Jobs] /\ Ready("start") \in Jobs /\ Ready("start").stage = "start"
      /\ Ready("start").pc = "ready" /\ Ready("start").rest = <<>> /\ Ready("start").todo = {}
  BY <1>0, ReadyIsJob DEF JobInv, JobTypes, Jobs, Stages
<1>3. /\ job' \in [Worker -> Jobs] /\ job'["main"] = Ready("start")
      /\ job'["api"] = job["api"]
  BY <1>0, <1>2, TwoWorkers
<1>4. /\ WorkerShape("api", job["api"]) /\ WorkerShape("main", job["main"])
      /\ ToSet(job["main"].rest) \subseteq Events
  BY <1>0, WorkersAre, TwoWorkers
<1>5. /\ job["api"].stage = "off" /\ job["main"].stage = "off" /\ job["main"].pc = "ready"
      /\ job["main"].rest = <<>> /\ job["main"].todo = {}
  BY <1>0, <1>4 DEF WorkerShape
<1>6. JobInv'
  <2>1. WorkerShape("api", job["api"])'
    BY <1>0, <1>3, <1>4, <1>5 DEF WorkerShape
  <2>2. WorkerShape("main", job["main"])'
    BY <1>0, <1>2, <1>3, EmptyToSet DEF WorkerShape
  <2>3. ServedLater'
    BY <1>3, <1>5 DEF ServedLater
  <2> QED
    BY <1>0, <1>3, <2>1, <2>2, <2>3, TwoWorkers DEF JobInv, JobTypes, Jobs
<1>7. TailInv'
  <2>1. dropped' \subseteq 1..begun
    BY <1>0 DEF TailInv, TailTypes
  <2> QED
    BY <1>0, <1>1, <1>2, <1>3, <1>4, <1>5, <2>1, TailKeeps
<1>8. DriftInv'
  <2>1. Covered' = Covered
    BY <1>0, <1>1, <1>3 DEF Covered, Reported
  <2>2. DriftTypes'
    BY <1>0 DEF DriftInv, DriftTypes
  <2> QED
    BY <1>0, <1>2, <1>3, <2>1, <2>2 DEF DriftInv
<1> QED
  BY <1>1, <1>6, <1>7, <1>8 DEF Kept, JournalGrows

\* Run begins with its record.
LEMMA StartedKept ==
    ASSUME RuntimeInv, Started
    PROVE  Kept
<1>0. /\ JobInv /\ JournalInv /\ TailInv /\ DriftInv /\ up /\ up' = up
      /\ job["main"].stage = "start" /\ job["main"].pc = "ready"
      /\ Appended(<<"agent", "start">>)
      /\ job' = [main |-> Ready("first"), api |-> Ready("serve")]
      /\ UNCHANGED <<tailVars, driftVars, dropped>>
  BY DEF RuntimeInv, Started, AtPoint
<1>1. <<"agent", "start">> \in RecordBodies
  BY DEF RecordBodies
<1>2. JournalGrows
  BY <1>0, <1>1, AppendedEffect
<1>3. /\ Ready("first") \in Jobs /\ Ready("first").stage = "first" /\ Ready("first").pc = "ready"
      /\ Ready("first").rest = <<>> /\ Ready("first").todo = {}
      /\ Ready("serve") \in Jobs /\ Ready("serve").stage = "serve" /\ Ready("serve").pc = "ready"
      /\ Ready("serve").rest = <<>> /\ Ready("serve").todo = {}
  BY ReadyIsJob DEF Stages
<1>4. /\ job'["main"] = Ready("first") /\ job'["api"] = Ready("serve")
      /\ job' \in [Worker -> Jobs]
  BY <1>0, <1>3 DEF Worker
<1>5. /\ WorkerShape("api", job["api"]) /\ WorkerShape("main", job["main"])
      /\ ToSet(job["main"].rest) \subseteq Events
  BY <1>0, WorkersAre, TwoWorkers
<1>6. /\ job["api"].todo = {} /\ job["main"].todo = {} /\ job["main"].rest = <<>>
  BY <1>0, <1>5 DEF WorkerShape, JobInv, ServedLater
<1>7. JobInv'
  <2>1. WorkerShape("api", job["api"])' /\ WorkerShape("main", job["main"])'
    BY <1>0, <1>3, <1>4, EmptyToSet DEF WorkerShape
  <2>2. ServedLater'
    BY <1>3, <1>4 DEF ServedLater
  <2> QED
    BY <1>0, <1>4, <2>1, <2>2, TwoWorkers DEF JobInv, JobTypes, Jobs
<1>8. TailInv'
  <2>1. dropped' \subseteq 1..begun
    BY <1>0 DEF TailInv, TailTypes
  <2> QED
    BY <1>0, <1>2, <1>3, <1>4, <1>5, <1>6, <2>1, TailKeeps
<1>9. DriftInv'
  <2>1. ~ scarred' => Covered \subseteq Covered'
    BY <1>0, <1>2, <1>6, ReportedGrows DEF Covered, driftVars
  <2>2. DriftTypes' /\ UNCHANGED <<previous, baseline>>
    BY <1>0 DEF DriftInv, DriftTypes, driftVars
  <2> QED
    BY <1>0, <1>2, <1>3, <1>4, <1>6, <2>1, <2>2, DriftKeeps
<1> QED
  BY <1>2, <1>7, <1>8, <1>9 DEF Kept, JournalGrows

\* What may be cut short by the end of the process is a record.
LEMMA WritingIs ==
    ASSUME JobInv
    PROVE  Writing \subseteq RecordBodies
<1>1. ASSUME NEW w \in Worker, job[w].pc = "event"
      PROVE  Body(Head(job[w].rest)) \in RecordBodies
  BY <1>1, InHand, BodyTypes DEF Event
<1>2. ASSUME NEW w \in Worker, NEW f \in job[w].todo PROVE <<"finding", f>> \in RecordBodies
  BY WorkersAre, BodyTypes
<1>3. <<"agent", "start">> \in RecordBodies /\ <<"error", "collector">> \in RecordBodies
  BY DEF RecordBodies
<1> DEFINE A == {Body(Head(job[w].rest)) : w \in {v \in Worker : job[v].pc = "event"}}
<1> DEFINE B == (UNION {{<<"finding", f>> : f \in job[w].todo} : w \in Worker})
<1> DEFINE C == IF job["main"].stage = "start" THEN {<<"agent", "start">>} ELSE {}
<1> DEFINE D == IF job["main"].pc = "report" THEN {<<"error", "collector">>} ELSE {}
<1>4. Writing = A \cup B \cup C \cup D
  BY Zenon DEF Writing
<1>5. A \subseteq RecordBodies
  BY <1>1
<1>6. B \subseteq RecordBodies
  BY <1>2
<1>7. C \subseteq RecordBodies /\ D \subseteq RecordBodies
  BY <1>3
<1> HIDE DEF A, B, C, D
<1> QED
  BY <1>4, <1>5, <1>6, <1>7

\* What was in hand is dropped, and what was not recorded is known all the same.
LEMMA EndsKept ==
    ASSUME RuntimeInv, up, ProcessEnds, JournalGrows
    PROVE  Kept
<1>0. /\ JobInv /\ TailInv /\ DriftInv /\ up' = FALSE
      /\ job' = [w \in Worker |-> Ready("off")]
      /\ dropped' = dropped \cup LinesOf(job["main"].rest)
      /\ accepted' = accepted \cup UNION job["api"].todo
      /\ offset' = NotKnown
      /\ UNCHANGED <<source, log, begun, rotations, unseen, missed, present, previous, baseline>>
  BY DEF RuntimeInv, ProcessEnds, TailerNew
<1>1. /\ Ready("off") \in Jobs /\ Ready("off").stage = "off" /\ Ready("off").pc = "ready"
      /\ Ready("off").rest = <<>> /\ Ready("off").todo = {}
  BY ReadyIsJob DEF Stages
<1>2. /\ job' \in [Worker -> Jobs] /\ job'["main"] = Ready("off") /\ job'["api"] = Ready("off")
  BY <1>0, <1>1, TwoWorkers
<1>3. JobInv'
  <2>1. WorkerShape("api", job["api"])' /\ WorkerShape("main", job["main"])'
    BY <1>0, <1>1, <1>2, EmptyToSet DEF WorkerShape
  <2>2. ServedLater'
    BY <1>1, <1>2 DEF ServedLater
  <2> QED
    BY <1>0, <1>2, <2>1, <2>2, TwoWorkers DEF JobInv, JobTypes, Jobs
<1>4. TailInv'
  <2>1. TailTypes' /\ LogShape'
    BY <1>0 DEF TailInv, TailTypes, LogShape, InLine, RestShape, NotKnown
  <2>2. OffsetShape'
    BY <1>0, FileTailAssumption DEF OffsetShape, NotKnown
  <2>3. RestShape'
    BY <1>1, <1>2, EmptyToSet DEF RestShape
  <2>4. Unread \subseteq Unread'
    <3>1. Unread' = LinesIn(1, Len(log))
      BY <1>0 DEF Unread, NotKnown, LinesIn
    <3>2. offset.at \in Nat
      BY <1>0 DEF TailInv, TailTypes
    <3>3. PICK k \in Nat \ {0} : Unread = LinesIn(k, Len(log))
      BY <3>2 DEF Unread
    <3>4. Len(log) \in Nat
      BY <1>0 DEF TailInv, TailTypes
    <3>5. \A i \in k..Len(log) : i \in 1..Len(log)
      BY <3>3, <3>4
    <3> QED
      BY <3>1, <3>3, <3>5 DEF LinesIn
  <2>5. TailedIsJournaled'
    <3>1. ~ scarred' => ~ scarred /\ Bodies \subseteq Bodies'
      BY DEF JournalGrows
    <3> QED
      BY <1>0, <2>4, <3>1 DEF TailInv, TailedIsJournaled
  <2> QED
    BY <2>1, <2>2, <2>3, <2>5 DEF TailInv
<1>5. DriftInv'
  <2>1. ~ scarred' => Covered \subseteq Covered'
    BY <1>0, <1>1, <1>2, ReportedGrows DEF Covered
  <2>2. DriftTypes'
    <3>1. UNION job["api"].todo \subseteq Item
      BY <1>0, WorkersAre, TwoWorkers
    <3> QED
      BY <1>0, <3>1 DEF DriftInv, DriftTypes
  <2> QED
    BY <1>0, <1>1, <1>2, <2>1, <2>2, DriftKeeps
<1> QED
  BY <1>3, <1>4, <1>5 DEF Kept, JournalGrows

\* A crash ends both workers; the journal and the files stay, or the journal is
\* scarred.
LEMMA CrashKept ==
    ASSUME RuntimeInv, Crash
    PROVE  Kept
<1>0. /\ JobInv /\ JournalInv /\ up /\ ProcessEnds /\ up' = FALSE /\ head' = head
  BY DEF RuntimeInv, Crash, ProcessEnds
<1>1. CASE UNCHANGED <<lines, torn, scarred>>
  <2>1. JournalGrows
    BY <1>0, <1>1, JournalStays
  <2> QED
    BY <1>0, <2>1, EndsKept
<1>2. CASE \E body \in Writing : DiesInAppend(body)
  <2>1. PICK body \in RecordBodies : DiesInAppend(body)
    BY <1>0, <1>2, WritingIs
  <2>2. JournalGrows
    BY <1>0, <2>1, DiesEffect
  <2> QED
    BY <1>0, <2>2, EndsKept
<1> QED
  BY <1>1, <1>2 DEF Crash

\* A stop ends both workers, with a last record.
LEMMA StopKept ==
    ASSUME RuntimeInv, Stop
    PROVE  Kept
<1>0. /\ JobInv /\ JournalInv /\ up /\ ProcessEnds /\ up' = FALSE /\ head' = head
  BY DEF RuntimeInv, Stop, ProcessEnds, AtPoint
<1>1. CASE UNCHANGED <<lines, torn, scarred>>
  <2>1. JournalGrows
    BY <1>0, <1>1, JournalStays
  <2> QED
    BY <1>0, <2>1, EndsKept
<1>2. CASE DiesInAppend(<<"agent", "stop">>)
  <2>1. <<"agent", "stop">> \in RecordBodies
    BY DEF RecordBodies
  <2>2. JournalGrows
    BY <1>0, <1>2, <2>1, DiesEffect
  <2> QED
    BY <1>0, <2>2, EndsKept
<1> QED
  BY <1>1, <1>2 DEF Stop

-----------------------------------------------------------------------------
(***************************************************************************)
(* The main loop and the API.                                              *)
(***************************************************************************)
LEMMA EmptyRest == <<>> \in Seq(Events)
OBVIOUS

\* To proceed is to go on with nothing left.
LEMMA ProceedContinues ==
    ASSUME NEW w \in Worker, Proceed(w)
    PROVE  Continue(w, <<>>)
BY DEF Continue

\* The main loop goes on with its next event, or its next stage.
LEMMA MainContinues ==
    ASSUME JobInv, up, up' = up, job["main"].stage \in Going, NEW rest \in Seq(Events),
           job["main"].stage \in {"first", "inventory"} => ToSet(rest) \subseteq Inventories,
           job["main"].stage \in {"poll1", "poll"} => ToSet(rest) \subseteq LogEvents,
           Continue("main", rest)
    PROVE  /\ JobInv' /\ Others("main")
           /\ job'["main"].rest = rest /\ job'["main"].todo = {}
           /\ job'["main"].pc \in {"ready", "event"}
<1>0. JobTypes /\ WorkerShape("main", job["main"]) /\ "main" \in Worker
  BY WorkersAre, TwoWorkers DEF JobInv
<1>1. /\ JobTypes' /\ Others("main")
      /\ job'["main"].rest = rest /\ job'["main"].todo = {}
      /\ job'["main"].stage \in Going
      /\ (job["main"].stage = "serve" <=> job'["main"].stage = "serve")
      /\ \/ rest = <<>> /\ job'["main"].pc = "ready"
         \/ rest # <<>> /\ job'["main"].pc = "event" /\ job'["main"].stage = job["main"].stage
  BY <1>0, ContinueEffect
<1>2. WorkerShape("main", job'["main"])
  <2>1. CASE rest = <<>> /\ job'["main"].pc = "ready"
    BY <1>0, <1>1, <2>1, EmptyToSet DEF WorkerShape, Going
  <2>2. CASE rest # <<>> /\ job'["main"].pc = "event" /\ job'["main"].stage = job["main"].stage
    BY <1>0, <1>1, <2>2 DEF WorkerShape, Going
  <2> QED
    BY <1>1, <2>1, <2>2
<1> QED
  BY <1>0, <1>1, <1>2, JobMoves

\* The main loop has an error to report.
LEMMA MainReports ==
    ASSUME JobInv, up, up' = up, job["main"].stage \in Going, Enter("main", "report", <<>>, {})
    PROVE  /\ JobInv' /\ Others("main")
           /\ job'["main"].rest = <<>> /\ job'["main"].todo = {}
           /\ job'["main"].pc = "report"
<1>0. JobTypes /\ WorkerShape("main", job["main"]) /\ "main" \in Worker
  BY WorkersAre, TwoWorkers DEF JobInv
<1>1. /\ JobTypes' /\ Others("main")
      /\ job'["main"].stage = job["main"].stage /\ job'["main"].pc = "report"
      /\ job'["main"].rest = <<>> /\ job'["main"].todo = {}
  BY <1>0, ReportEffect
<1>2. WorkerShape("main", job'["main"])
  BY <1>0, <1>1, EmptyToSet DEF WorkerShape, Going
<1> QED
  BY <1>0, <1>1, <1>2, JobMoves

\* What main leaves behind when it has nothing in hand, or drops an inventory.
LEMMA MainMovesTail ==
    ASSUME JobInv, TailInv, JournalGrows, UNCHANGED <<tailVars, dropped>>,
           job'["main"].pc \notin {"inspect", "findings"},
           \/ ToSet(job'["main"].rest) = ToSet(job["main"].rest)
           \/ ToSet(job'["main"].rest) = {} /\ ToSet(job["main"].rest) \subseteq Inventories
    PROVE  TailInv'
<1>1. dropped' \subseteq 1..begun
  BY DEF TailInv, TailTypes
<1>2. ToSet(job["main"].rest) \subseteq Events
  BY WorkersAre, TwoWorkers
<1>3. \A e \in Inventories : e[1] # "event"
  BY DEF Inventories
<1> QED
  BY <1>1, <1>2, <1>3, TailKeeps

\* An error report is one more record.
LEMMA ReportKept ==
    ASSUME RuntimeInv, Report
    PROVE  Kept
<1>0. /\ JobInv /\ JournalInv /\ TailInv /\ DriftInv /\ up /\ up' = up /\ up \in BOOLEAN
      /\ job["main"].pc = "report" /\ Continue("main", job["main"].rest)
      /\ UNCHANGED <<tailVars, driftVars, dropped>>
  BY DEF RuntimeInv, Report, JobInv
<1>1. <<"error", "collector">> \in RecordBodies
  BY DEF RecordBodies
<1>2. JournalGrows
  <2>1. CASE Appended(<<"error", "collector">>)
    BY <1>0, <1>1, <2>1, AppendedEffect
  <2>2. CASE AppendFailed(<<"error", "collector">>)
    BY <1>0, <1>1, <2>2, AppendFailedEffect
  <2> QED
    BY <2>1, <2>2 DEF Report
<1>3. /\ WorkerShape("main", job["main"]) /\ job["main"].rest \in Seq(Events)
      /\ job["main"].stage \in Stages
  BY <1>0, WorkersAre, TwoWorkers
<1>4. job["main"].stage \in Going /\ job["main"].todo = {}
  BY <1>0, <1>3 DEF WorkerShape, Going, Stages
<1>5. /\ JobInv' /\ Others("main")
      /\ job'["main"].rest = job["main"].rest /\ job'["main"].todo = {}
      /\ job'["main"].pc \in {"ready", "event"}
  BY <1>0, <1>3, <1>4, MainContinues DEF WorkerShape
<1>6. TailInv'
  BY <1>0, <1>2, <1>5, MainMovesTail
<1>7. DriftInv'
  <2>1. UNCHANGED <<present, previous, baseline, accepted>> /\ accepted' \subseteq Item
    BY <1>0 DEF driftVars, DriftInv, DriftTypes
  <2> QED
    BY <1>0, <1>2, <1>4, <1>5, <2>1, TodoKeeps, TwoWorkers
<1> QED
  BY <1>2, <1>5, <1>6, <1>7 DEF Kept, JournalGrows

\* A worker begins with one event.
LEMMA OneEnters ==
    ASSUME JobTypes, NEW w \in Worker, NEW e \in Events, Enter(w, "event", <<e>>, {})
    PROVE  /\ JobTypes' /\ Others(w)
           /\ job'[w].stage = job[w].stage /\ job'[w].pc = "event" /\ job'[w].rest = <<e>>
           /\ job'[w].todo = {}
           /\ <<e>> # <<>> /\ ToSet(<<e>>) = {e}
<1>1. PICK one \in Seq(Events) : one = <<e>>
  <2>1. <<e>> \in Seq(Events)
    OBVIOUS
  <2> QED
    BY <2>1
<1>2. Enter(w, "event", one, {}) /\ "event" \in Points
  BY <1>1 DEF Points
<1>3. /\ JobTypes' /\ Others(w)
      /\ job'[w].stage = job[w].stage /\ job'[w].pc = "event" /\ job'[w].rest = one
      /\ job'[w].todo = {}
  BY <1>2, EnterEffect
<1>4. <<e>> # <<>> /\ ToSet(<<e>>) = {e}
  BY DEF ToSet
<1> QED
  BY <1>1, <1>3, <1>4

\* An inventory is an event of the main loop, or an error to report.
LEMMA CollectInventoryKept ==
    ASSUME RuntimeInv, CollectInventory
    PROVE  Kept
<1>0. /\ JobInv /\ JournalInv /\ TailInv /\ DriftInv /\ up /\ up' = up /\ up \in BOOLEAN
      /\ job["main"].stage \in {"first", "inventory"} /\ job["main"].pc = "ready"
      /\ UNCHANGED <<journalVars, tailVars, driftVars, dropped>>
  BY DEF RuntimeInv, CollectInventory, JobInv, AtPoint
<1>1. JournalGrows
  BY <1>0, JournalStays DEF journalVars
<1>2. /\ WorkerShape("main", job["main"]) /\ job["main"].rest = <<>> /\ job["main"].todo = {}
      /\ job["main"].stage \in Going /\ JobTypes
  BY <1>0, WorkersAre, TwoWorkers DEF WorkerShape, Going, JobInv
<1>3. /\ JobInv' /\ Others("main") /\ job'["main"].todo = {}
      /\ job'["main"].pc \in {"event", "report"} /\ ToSet(job'["main"].rest) \subseteq Inventories
  <2>1. CASE \E snap \in Collected : Enter("main", "event", <<<<"inventory", snap>>>>, {})
    <3>1. PICK snap \in Collected : Enter("main", "event", <<<<"inventory", snap>>>>, {})
      BY <2>1
    <3>2. snap \in Snapshot
      BY <1>0 DEF Collected, Snapshot, DriftInv, DriftTypes
    <3>3. PICK e \in Inventories : e = <<"inventory", snap>>
      BY <3>2 DEF Inventories
    <3>4. e \in Events /\ Enter("main", "event", <<e>>, {})
      BY <3>1, <3>3 DEF Events
    <3>5. /\ <<e>> # <<>> /\ ToSet(<<e>>) = {e}
          /\ JobTypes' /\ Others("main")
          /\ job'["main"].stage = job["main"].stage /\ job'["main"].pc = "event"
          /\ job'["main"].rest = <<e>> /\ job'["main"].todo = {}
      BY <1>2, <3>4, OneEnters, TwoWorkers
    <3>6. WorkerShape("main", job'["main"])
      BY <1>0, <1>2, <3>3, <3>5 DEF WorkerShape
    <3> QED
      BY <1>0, <1>2, <3>3, <3>5, <3>6, JobMoves, TwoWorkers
  <2>2. CASE Enter("main", "report", <<>>, {})
    BY <1>0, <1>2, <2>2, MainReports, EmptyToSet
  <2> QED
    BY <2>1, <2>2 DEF CollectInventory
<1>4. TailInv'
  <2>1. ToSet(job["main"].rest) = {} /\ ToSet(job["main"].rest) \subseteq Events
    BY <1>2, EmptyToSet
  <2>2. \A e \in Inventories : e[1] \notin {"event", "fragment"}
    BY DEF Inventories
  <2>3. LinesOf(job'["main"].rest) = {} /\ LinesOf(job["main"].rest) = {}
    BY <1>2, <1>3, <2>2, EmptyToSet DEF LinesOf
  <2>4. /\ UNCHANGED <<source, log, begun, offset, rotations, unseen, missed>>
        /\ dropped' = dropped /\ scarred' = scarred /\ Bodies' = Bodies
    BY <1>0 DEF tailVars, journalVars, Bodies
  <2>5. TailTypes' /\ LogShape' /\ OffsetShape'
    BY <1>0, <2>4 DEF TailInv, TailTypes, LogShape, InLine, OffsetShape, CutIsMissed
  <2>6. RestShape'
    BY <1>3, <2>2, <2>3 DEF RestShape
  <2>7. TailedIsJournaled'
    <3>1. Unread' = Unread
      BY <2>4 DEF Unread, LinesIn
    <3> QED
      BY <1>0, <2>3, <2>4, <3>1 DEF TailInv, TailedIsJournaled
  <2> QED
    BY <2>5, <2>6, <2>7 DEF TailInv
<1>5. DriftInv'
  <2>1. UNCHANGED <<present, previous, baseline, accepted>> /\ accepted' \subseteq Item
    BY <1>0 DEF driftVars, DriftInv, DriftTypes
  <2> QED
    BY <1>0, <1>1, <1>2, <1>3, <2>1, TodoKeeps, TwoWorkers
<1> QED
  BY <1>1, <1>3, <1>4, <1>5 DEF Kept, JournalGrows

\* An inventory that is not due is left out.
LEMMA NotDueKept ==
    ASSUME RuntimeInv, NotDue
    PROVE  Kept
<1>0. /\ JobInv /\ JournalInv /\ TailInv /\ DriftInv /\ up /\ up' = up /\ up \in BOOLEAN
      /\ job["main"].stage \in {"first", "inventory"} /\ job["main"].pc = "ready"
      /\ Proceed("main") /\ UNCHANGED <<journalVars, tailVars, driftVars, dropped>>
  BY DEF RuntimeInv, NotDue, JobInv, AtPoint
<1>1. JournalGrows
  BY <1>0, JournalStays DEF journalVars
<1>2. /\ job["main"].rest = <<>> /\ job["main"].todo = {} /\ job["main"].stage \in Going
  BY <1>0, WorkersAre, TwoWorkers DEF WorkerShape, Going
<1>3. /\ JobInv' /\ Others("main") /\ job'["main"].rest = <<>> /\ job'["main"].todo = {}
      /\ job'["main"].pc \in {"ready", "event"}
  BY <1>0, <1>2, MainContinues, ProceedContinues, EmptyRest, EmptyToSet, TwoWorkers
<1>4. TailInv'
  BY <1>0, <1>1, <1>2, <1>3, MainMovesTail
<1>5. DriftInv'
  <2>1. UNCHANGED <<present, previous, baseline, accepted>> /\ accepted' \subseteq Item
    BY <1>0 DEF driftVars, DriftInv, DriftTypes
  <2> QED
    BY <1>0, <1>1, <1>2, <1>3, <2>1, TodoKeeps, TwoWorkers
<1> QED
  BY <1>1, <1>3, <1>4, <1>5 DEF Kept, JournalGrows

\* The new baseline was compared, and its findings were recorded.
LEMMA SaveBaselineKept ==
    ASSUME RuntimeInv, SaveBaseline
    PROVE  Kept
<1>0. /\ JobInv /\ JournalInv /\ TailInv /\ DriftInv /\ up /\ up' = up /\ up \in BOOLEAN
      /\ job["main"].stage \in {"first", "inventory"} /\ job["main"].pc = "save"
      /\ UNCHANGED <<journalVars, tailVars, dropped>>
  BY DEF RuntimeInv, SaveBaseline, JobInv, AtPoint
<1>1. JournalGrows /\ Bodies' = Bodies
  BY <1>0, JournalStays DEF journalVars
<1>2. /\ job["main"].todo = {} /\ job["main"].stage \in Going
      /\ ToSet(job["main"].rest) \subseteq Inventories
      /\ Event("main") \in Inventories
  BY <1>0, WorkersAre, InHand, TwoWorkers DEF WorkerShape
<1>3. /\ JobInv' /\ Others("main") /\ job'["main"].rest = <<>> /\ job'["main"].todo = {}
      /\ job'["main"].pc \in {"ready", "event", "report"}
  <2>1. CASE Proceed("main")
    BY <1>0, <1>2, <2>1, MainContinues, ProceedContinues, EmptyRest, EmptyToSet, TwoWorkers
  <2>2. CASE Enter("main", "report", <<>>, {})
    BY <1>0, <1>2, <2>2, MainReports
  <2> QED
    BY <2>1, <2>2 DEF SaveBaseline
<1>4. TailInv'
  BY <1>0, <1>1, <1>2, <1>3, MainMovesTail, EmptyToSet
<1>5. DriftInv'
  <2>1. CASE Save(Event("main")[2])
    <3>1. /\ baseline' = Event("main")[2] /\ baseline' \in Snapshot
          /\ UNCHANGED <<present, previous, accepted>>
      BY <1>2, <2>1 DEF Save, Inventories
    <3>2. Covered' = Covered /\ scarred' = scarred
      <4>1. job'["api"] = job["api"]
        BY <1>3 DEF Others, Worker
      <4> QED
        BY <1>0, <1>1, <3>1, <4>1 DEF Covered, Reported, journalVars
    <3>3. DriftTypes'
      BY <1>0, <3>1 DEF DriftInv, DriftTypes
    <3> QED
      BY <1>0, <1>2, <1>3, <3>1, <3>2, <3>3 DEF DriftInv
  <2>2. CASE UNCHANGED driftVars
    <3>1. UNCHANGED <<present, previous, baseline, accepted>> /\ accepted' \subseteq Item
      BY <1>0, <2>2 DEF driftVars, DriftInv, DriftTypes
    <3> QED
      BY <1>0, <1>1, <1>2, <1>3, <3>1, TodoKeeps, TwoWorkers
  <2> QED
    BY <2>1, <2>2 DEF SaveBaseline
<1> QED
  BY <1>1, <1>3, <1>4, <1>5 DEF Kept, JournalGrows

\* What is posted to the API is not a line of a log.
LEMMA PostableAre == Postable \subseteq Events \ LogEvents
<1>1. <<"posted", "event">> \in Events \ LogEvents
  BY DEF Events, LogEvents
<1>2. ASSUME NEW s \in Posted
      PROVE  <<"inventory", [known |-> TRUE, items |-> s, truncated |-> {}]>> \in Events \ LogEvents
  <2>1. [known |-> TRUE, items |-> s, truncated |-> {}] \in Snapshot
    BY RuntimeAssumption DEF Snapshot
  <2> QED
    BY <2>1 DEF Events, Inventories, LogEvents
<1> QED
  BY <1>1, <1>2 DEF Postable

\* A posted event is an event of the API's worker.
LEMMA IngestKept ==
    ASSUME RuntimeInv, Ingest
    PROVE  Kept
<1>0. /\ JobInv /\ JournalInv /\ TailInv /\ DriftInv /\ up /\ up' = up /\ up \in BOOLEAN
      /\ job["api"].stage = "serve" /\ job["api"].pc = "ready" /\ JobTypes
      /\ UNCHANGED <<journalVars, tailVars, driftVars, dropped>>
  BY DEF RuntimeInv, Ingest, JobInv, AtPoint
<1>1. JournalGrows
  BY <1>0, JournalStays DEF journalVars
<1>2. PICK e \in Events \ LogEvents : Enter("api", "event", <<e>>, {})
  BY PostableAre DEF Ingest
<1>4. /\ <<e>> # <<>> /\ ToSet(<<e>>) = {e}
      /\ JobTypes' /\ Others("api")
      /\ job'["api"].stage = job["api"].stage /\ job'["api"].pc = "event"
      /\ job'["api"].rest = <<e>> /\ job'["api"].todo = {}
  BY <1>0, <1>2, OneEnters, TwoWorkers
<1>5. /\ WorkerShape("api", job["api"]) /\ job["api"].todo = {} /\ job["api"].stage \in Going
  BY <1>0, WorkersAre, TwoWorkers DEF WorkerShape, Going
<1>6. JobInv'
  <2>1. WorkerShape("api", job'["api"])
    BY <1>0, <1>4, <1>5 DEF WorkerShape
  <2> QED
    BY <1>0, <1>4, <1>5, <2>1, JobMoves, TwoWorkers
<1>7. TailInv'
  BY <1>0, <1>1, <1>4, MainStays
<1>8. DriftInv'
  <2>1. UNCHANGED <<present, previous, baseline, accepted>> /\ accepted' \subseteq Item
    BY <1>0 DEF driftVars, DriftInv, DriftTypes
  <2> QED
    BY <1>0, <1>1, <1>4, <1>5, <2>1, TodoKeeps, TwoWorkers
<1> QED
  BY <1>1, <1>6, <1>7, <1>8 DEF Kept, JournalGrows

-----------------------------------------------------------------------------
(***************************************************************************)
(* Sets of positions in order.                                             *)
(***************************************************************************)
\* Nth counts a finite set of numbers, each once.
LEMMA NthCounts ==
    ASSUME NEW N \in Nat, NEW S \in SUBSET (1..N)
    PROVE  /\ IsFiniteSet(S) /\ Cardinality(S) \in Nat
           /\ \A i \in 1..Cardinality(S) : Nth(S, i) \in S
           /\ \A k \in S : \E i \in 1..Cardinality(S) : Nth(S, i) = k
           /\ S # {} => \E m \in S : \A k \in S : k <= m
<1>1. PICK c \in Nat : c = Cardinality(S) /\ IsFiniteSet(S) /\ IsFiniteSet(1..c)
                       /\ Cardinality(1..c) = c
  <2>0. IsFiniteSet(1..N)
    BY FS_Interval
  <2>1. IsFiniteSet(S) /\ Cardinality(S) \in Nat
    BY <2>0, FS_Subset, FS_CardinalityType
  <2>2. IsFiniteSet(1..Cardinality(S)) /\ Cardinality(1..Cardinality(S)) = Cardinality(S)
    BY <2>1, FS_Interval
  <2> QED
    BY <2>1, <2>2
<1> DEFINE upto(k) == {n \in S : n <= k}
<1>2. ASSUME NEW k \in S
      PROVE  /\ IsFiniteSet(upto(k)) /\ Cardinality(upto(k)) \in 1..c
             /\ Cardinality(upto(k)) = c => upto(k) = S
  <2>1. upto(k) \in SUBSET S /\ k \in upto(k)
    BY <1>2
  <2>2. /\ IsFiniteSet(upto(k)) /\ Cardinality(upto(k)) <= c
        /\ Cardinality(upto(k)) = c => upto(k) = S
    BY <1>1, <2>1, FS_Subset
  <2>3. Cardinality(upto(k)) \in Nat /\ Cardinality(upto(k)) # 0
    BY <2>1, <2>2, FS_CardinalityType, FS_EmptySet
  <2> QED
    BY <1>1, <2>2, <2>3
<1>3. ASSUME NEW j \in S, NEW k \in S, j < k
      PROVE  Cardinality(upto(j)) # Cardinality(upto(k))
  <2>1. upto(j) \in SUBSET upto(k) /\ k \in upto(k) /\ k \notin upto(j)
    <3>1. j \in Nat /\ k \in Nat /\ \A n \in S : n \in Nat
      OBVIOUS
    <3>2. (\A n \in S : n <= j => n <= k) /\ k <= k /\ ~ (k <= j)
      BY <1>3, <3>1
    <3>3. upto(j) \subseteq upto(k)
      BY <3>2
    <3>4. k \in upto(k) /\ k \notin upto(j)
      BY <3>2
    <3> QED
      BY <3>3, <3>4
  <2> QED
    BY <1>2, <2>1, FS_Subset
<1>4. PICK rank : rank = [k \in S |-> Cardinality(upto(k))]
  OBVIOUS
<1>5. rank \in [S -> 1..c] /\ \A k \in S : rank[k] = Cardinality(upto(k))
  BY <1>2, <1>4
<1>6. ASSUME NEW j \in S, NEW k \in S, rank[j] = rank[k] PROVE j = k
  <2>1. j \in Nat /\ k \in Nat
    OBVIOUS
  <2>2. ~ (j < k) /\ ~ (k < j)
    BY <1>3, <1>5, <1>6
  <2> QED
    BY <2>1, <2>2
<1>7. rank \in Injection(S, 1..c)
  BY <1>4, <1>5, <1>6 DEF Injection, IsInjective
<1>8. rank \in Surjection(S, 1..c)
  BY <1>1, <1>7, FS_Injection
<1>9. ASSUME NEW i \in 1..c PROVE \E k \in S : Cardinality(upto(k)) = i
  BY <1>5, <1>8 DEF Surjection
<1>10. ASSUME NEW i \in 1..c
       PROVE  Nth(S, i) \in S /\ Cardinality(upto(Nth(S, i))) = i
  <2>1. \E k \in S : Cardinality({n \in S : n <= k}) = i
    BY <1>9
  <2>2. \A P : (\E k \in S : Cardinality({n \in S : n <= k}) = i) /\
               P = (CHOOSE k \in S : Cardinality({n \in S : n <= k}) = i) =>
               P \in S /\ Cardinality({n \in S : n <= P}) = i
    OBVIOUS
  <2> QED
    BY <2>1, <2>2 DEF Nth
<1>11. ASSUME NEW k \in S PROVE \E i \in 1..c : Nth(S, i) = k
  <2>1. PICK i \in 1..c : i = rank[k]
    BY <1>5
  <2>2. Nth(S, i) \in S /\ rank[Nth(S, i)] = rank[k]
    BY <1>5, <1>10, <2>1
  <2> QED
    BY <1>6, <2>2
<1>12. ASSUME S # {} PROVE \E m \in S : \A k \in S : k <= m
  <2>1. c \in 1..c
    BY <1>1, <1>12, FS_EmptySet
  <2>2. PICK m \in S : Cardinality(upto(m)) = c
    BY <1>9, <2>1
  <2>3. upto(m) = S
    BY <1>2, <2>2
  <2> QED
    BY <2>3
<1> QED
  BY <1>1, <1>10, <1>11, <1>12

\* The greatest member of a set that has one.
LEMMA MaxIs ==
    ASSUME NEW S, NEW m \in S, \A k \in S : m >= k
    PROVE  Max(S) \in S /\ \A k \in S : Max(S) >= k
BY DEF Max

-----------------------------------------------------------------------------
(***************************************************************************)
(* The tailer.                                                             *)
(***************************************************************************)
\* Where the tailer reads from: it has seen the file before that.
LEMMA StartIs ==
    ASSUME TailTypes, OffsetShape, NEW o, o = Start
    PROVE  /\ o \in 0..Len(log)
           /\ ~ unseen /\ offset.known => o = offset.at /\ CutIsMissed(o)
<1>1. offset.at \in Nat /\ Len(log) \in Nat
  BY DEF TailTypes
<1>2. offset.known /\ ~ unseen => offset.at <= Len(log) /\ CutIsMissed(offset.at)
  BY DEF OffsetShape
<1> QED
  BY <1>1, <1>2 DEF Start

\* What it reads: whole lines, up to a line's end.
LEMMA EndsAre ==
    ASSUME TailTypes, NEW o \in 0..Len(log)
    PROVE  /\ Newlines(o) \in SUBSET (1..Len(log))
           /\ \A k \in Newlines(o) : k > o /\ k <= Len(log) /\ log[k][2] = 2
           /\ Ends(o) \subseteq Newlines(o) /\ PolledEnds(o) \subseteq Ends(o)
           /\ \A k \in Ends(o) : \A e \in (o + 1)..k : log[e][2] = 2 => e \in Ends(o)
           /\ Consumed(o) \in {o} \cup Ends(o) /\ \A k \in Ends(o) : k <= Consumed(o)
<1>0. PICK L \in Nat : L = Len(log) /\ o \in 0..L
  BY DEF TailTypes
<1>1. PICK b : L = Len(log) /\ o \in 0..L /\ b = Min({L, o + MaxRead})
  BY <1>0
<1>2. b <= L /\ b \in Nat
  BY <1>1, FileTailAssumption DEF Min
<1>3. Newlines(o) = {k \in (o + 1)..b : log[k][2] = 2}
  BY <1>1 DEF Newlines
<1>4. Newlines(o) \in SUBSET (1..L) /\ \A k \in Newlines(o) : k > o /\ k <= L /\ log[k][2] = 2
  <2>1. \A k \in (o + 1)..b : k \in 1..L /\ k > o /\ k <= L
    BY <1>1, <1>2
  <2> QED
    BY <1>3, <2>1
<1>5. PICK cut : Ends(o) = {k \in Newlines(o) :
                              Cardinality({n \in Newlines(o) \ cut : n < k}) < MaxBatch}
  BY DEF Ends
<1>6. Ends(o) \subseteq Newlines(o) /\ PolledEnds(o) \subseteq Ends(o)
  BY <1>5 DEF PolledEnds
<1>7. ASSUME NEW k \in Ends(o), NEW e \in (o + 1)..k, log[e][2] = 2
      PROVE  e \in Ends(o)
  <2>1. k \in Nat /\ k <= b /\ e <= k /\ e \in Nat
    <3>1. k \in (o + 1)..b
      BY <1>3, <1>6, <1>7
    <3> QED
      BY <1>1, <1>2, <1>7, <3>1
  <2>2. e \in Newlines(o)
    BY <1>1, <1>2, <1>3, <1>7, <2>1
  <2>3. PICK A, B : /\ A = {n \in Newlines(o) \ cut : n < e}
                    /\ B = {n \in Newlines(o) \ cut : n < k}
    OBVIOUS
  <2>4. \A n \in Newlines(o) : n < e => n < k
    BY <1>4, <2>1
  <2>5. A \in SUBSET B /\ B \in SUBSET (1..L)
    BY <1>4, <2>3, <2>4
  <2>6. IsFiniteSet(B) /\ IsFiniteSet(A) /\ Cardinality(A) <= Cardinality(B)
    BY <1>1, <2>5, NthCounts, FS_Subset
  <2>7. Cardinality(A) \in Nat /\ Cardinality(B) \in Nat /\ Cardinality(B) < MaxBatch
    BY <1>5, <1>7, <2>3, <2>6, FS_CardinalityType
  <2>8. Cardinality(A) < MaxBatch
    BY <2>6, <2>7, FileTailAssumption
  <2> QED
    BY <1>5, <2>2, <2>3, <2>8
<1>8. Consumed(o) \in {o} \cup Ends(o) /\ \A k \in Ends(o) : k <= Consumed(o)
  <2>1. PICK m \in {o} \cup Ends(o) : \A k \in {o} \cup Ends(o) : m >= k
    <3>1. CASE Ends(o) = {}
      BY <1>1, <3>1
    <3>2. CASE Ends(o) # {}
      <4>1. Ends(o) \in SUBSET (1..L)
        BY <1>4, <1>6
      <4>2. PICK m \in Ends(o) : \A k \in Ends(o) : k <= m
        BY <1>1, <3>2, <4>1, NthCounts
      <4>3. m > o /\ m \in Nat /\ \A k \in Ends(o) : k \in Nat
        BY <1>1, <1>4, <1>6, <4>1, <4>2
      <4> QED
        BY <1>1, <4>2, <4>3
    <3> QED
      BY <3>1, <3>2
  <2>2. PICK S : S = {o} \cup Ends(o) /\ Consumed(o) = Max(S)
    BY DEF Consumed
  <2>3. Max(S) \in S /\ \A k \in S : Max(S) >= k
    BY <2>1, <2>2, MaxIs
  <2>4. \A k \in S : k \in Nat
    BY <1>1, <1>4, <1>6, <2>2
  <2> QED
    BY <2>2, <2>3, <2>4
<1> QED
  BY <1>1, <1>4, <1>6, <1>7, <1>8

\* The events of a poll: one per line that ends in it and parses.
LEMMA PolledIs ==
    ASSUME TailTypes, NEW o \in 0..Len(log)
    PROVE  /\ Polled(o) \in Seq(LogEvents)
           /\ ToSet(Polled(o)) = {EventAt(o, k) : k \in PolledEnds(o)}
<1>0. PICK L \in Nat : L = Len(log)
  BY DEF TailTypes
<1>1. PICK S \in SUBSET (1..L) : S = PolledEnds(o) /\ \A k \in S : k > o
  <2>1. PolledEnds(o) \in SUBSET (1..Len(log)) /\ \A k \in PolledEnds(o) : k > o
    BY EndsAre
  <2> QED
    BY <1>0, <2>1
<1>2. /\ Cardinality(S) \in Nat
      /\ \A i \in 1..Cardinality(S) : Nth(S, i) \in S
      /\ \A k \in S : \E i \in 1..Cardinality(S) : Nth(S, i) = k
  BY <1>1, NthCounts
<1>3. ASSUME NEW k \in S PROVE EventAt(o, k) \in LogEvents
  <2>1. k \in 1..Len(log) /\ log \in Seq(Nat \X {1, 2})
    BY <1>0, <1>1 DEF TailTypes
  <2>2. log[k] \in Nat \X {1, 2}
    BY <2>1
  <2> QED
    BY <2>2 DEF EventAt, LogEvents
<1>4. Polled(o) = [i \in 1..Cardinality(S) |-> EventAt(o, Nth(S, i))]
  BY <1>1 DEF Polled
<1>5. Polled(o) \in [1..Cardinality(S) -> LogEvents] /\ DOMAIN Polled(o) = 1..Cardinality(S)
  BY <1>2, <1>3, <1>4
<1>6. Polled(o) \in Seq(LogEvents)
  BY <1>2, <1>5
<1>7. ToSet(Polled(o)) = {Polled(o)[i] : i \in 1..Cardinality(S)}
  BY <1>5 DEF ToSet
<1>8. \A i \in 1..Cardinality(S) : Polled(o)[i] = EventAt(o, Nth(S, i))
  BY <1>4
<1>9. ToSet(Polled(o)) = {EventAt(o, k) : k \in S}
  BY <1>2, <1>7, <1>8
<1> QED
  BY <1>1, <1>6, <1>9

\* A line that a poll leaves behind cut in two was cut before it, and missed.
LEMMA CutLineIsMissed ==
    ASSUME TailTypes, LogShape, OffsetShape, NEW o, o = Start, Poll, o # 0, log[o][2] = 1
    PROVE  log[o][1] \in missed'
<1>1. /\ o \in 0..Len(log) /\ Len(log) \in Nat
      /\ ~ unseen /\ offset.known => o = offset.at /\ CutIsMissed(o)
  BY StartIs DEF TailTypes
<1>2. missed' = IF unseen \/ ~ offset.known THEN missed \cup LinesIn(1, o) ELSE missed
  BY DEF Poll
<1>3. CASE unseen \/ ~ offset.known
  <2>1. o \in 1..o
    BY <1>1
  <2> QED
    BY <1>2, <1>3, <2>1 DEF LinesIn
<1>4. CASE ~ unseen /\ offset.known
  BY <1>1, <1>2, <1>4 DEF CutIsMissed
<1> QED
  BY <1>3, <1>4 DEF TailTypes

\* A line that is read as a fragment is noted as missed.
LEMMA FragmentIsMissed ==
    ASSUME TailTypes, LogShape, OffsetShape, NEW o, o = Start, Poll, NEW k \in Newlines(o),
           EventAt(o, k)[1] = "fragment"
    PROVE  log[k][1] \in missed'
<1>1. o \in 0..Len(log) /\ Len(log) \in Nat
  BY StartIs DEF TailTypes
<1>2. k \in 1..Len(log) /\ k > o /\ log[k][2] = 2
  BY <1>1, EndsAre
<1>3. k # 1 /\ log[k - 1] = <<log[k][1], 1>>
  BY <1>2 DEF LogShape
<1>4. k - 1 = o
  <2>1. ~ (k - 1 > o)
    BY DEF EventAt
  <2> QED
    BY <1>1, <1>2, <2>1
<1> QED
  BY <1>1, <1>2, <1>3, <1>4, CutLineIsMissed

\* Whatever a poll does not take is still unread, or noted as missed.
LEMMA PollEffect ==
    ASSUME TailTypes, LogShape, OffsetShape, NEW o, o = Start, Poll, dropped' = dropped
    PROVE  /\ TailTypes' /\ LogShape' /\ OffsetShape' /\ begun' = begun
           /\ missed \subseteq missed'
           /\ \A e \in ToSet(Polled(o)) :
                 e[2] \in 1..begun /\ (e[1] = "fragment" => e[2] \in missed')
           /\ Unread \subseteq LinesOf(Polled(o)) \cup Unread' \cup missed'
<1>0. PICK L \in Nat, c \in {Consumed(o)} : L = Len(log) /\ c = Consumed(o)
  BY DEF TailTypes
<1>1. /\ o \in 0..L
      /\ ~ unseen /\ offset.known => o = offset.at /\ CutIsMissed(o)
  BY <1>0, StartIs
<1>2. /\ \A k \in Newlines(o) : k \in 1..L /\ k > o /\ log[k][2] = 2
      /\ Ends(o) \subseteq Newlines(o) /\ PolledEnds(o) \subseteq Ends(o)
      /\ \A k \in Ends(o) : \A e \in (o + 1)..k : log[e][2] = 2 => e \in Ends(o)
      /\ c \in {o} \cup Ends(o)
  BY <1>0, <1>1, EndsAre
<1>3. /\ offset' = [known |-> TRUE, at |-> c] /\ unseen' = FALSE
      /\ missed' = IF unseen \/ ~ offset.known THEN missed \cup LinesIn(1, o) ELSE missed
      /\ UNCHANGED <<source, log, begun, rotations>>
  BY <1>0 DEF Poll
<1>4. ToSet(Polled(o)) = {EventAt(o, k) : k \in PolledEnds(o)}
  BY <1>0, <1>1, PolledIs
<1>5. c \in 0..L /\ unseen \in BOOLEAN /\ offset.known \in BOOLEAN
  BY <1>1, <1>2 DEF TailTypes
<1>6. ASSUME NEW k \in 1..L
      PROVE  /\ log[k][1] \in 1..begun /\ log[k][2] \in {1, 2}
             /\ log[k][2] = 2 => k # 1 /\ log[k - 1] = <<log[k][1], 1>>
             /\ log[k][2] = 1 /\ k # L => log[k + 1] = <<log[k][1], 2>>
  <2>1. log[k] \in Nat \X {1, 2}
    BY <1>0, <1>6 DEF TailTypes
  <2> QED
    BY <1>0, <1>6, <2>1 DEF LogShape
<1>7. LinesIn(1, o) \subseteq 1..begun
  BY <1>0, <1>1, <1>6 DEF LinesIn
<1>8. TailTypes'
  <2>1. offset' \in [known : BOOLEAN, at : Nat]
    BY <1>3, <1>5
  <2>2. missed' \subseteq 1..begun
    BY <1>3, <1>7 DEF TailTypes
  <2> QED
    BY <1>3, <2>1, <2>2 DEF TailTypes
<1>9. LogShape'
  BY <1>3 DEF LogShape, InLine
<1>10. OffsetShape'
  <2>1. c <= 2 * MaxLines
    BY <1>0, <1>5, FileTailAssumption DEF LogShape, TailTypes
  <2>2. ASSUME c # 0, log[c][2] = 1 PROVE log[c][1] \in missed'
    <3>1. c = o
      BY <1>2, <2>2
    <3> QED
      BY <2>2, <3>1, CutLineIsMissed
  <2> QED
    BY <1>0, <1>3, <1>5, <2>1, <2>2 DEF OffsetShape, CutIsMissed
<1>11. ASSUME NEW e \in ToSet(Polled(o))
       PROVE  e[2] \in 1..begun /\ (e[1] = "fragment" => e[2] \in missed')
  <2>1. PICK k \in PolledEnds(o) : e = EventAt(o, k)
    BY <1>4, <1>11
  <2>2. k \in Newlines(o) /\ k \in 1..L /\ e[2] = log[k][1]
    BY <1>2, <2>1 DEF EventAt
  <2> QED
    BY <1>6, <2>1, <2>2, FragmentIsMissed
<1>12. ASSUME NEW p \in 1..L, ~ unseen /\ offset.known => p > offset.at
       PROVE  log[p][1] \in LinesOf(Polled(o)) \cup Unread' \cup missed'
  <2>1. CASE p <= o
    <3>1. unseen \/ ~ offset.known
      BY <1>1, <1>5, <1>12, <2>1
    <3>2. p \in 1..o
      BY <1>1, <2>1
    <3> QED
      BY <1>3, <3>1, <3>2 DEF LinesIn
  <2>2. CASE p > c
    <3>1. Unread' = LinesIn(c + 1, L)
      BY <1>0, <1>3 DEF Unread, LinesIn
    <3>2. p \in (c + 1)..L
      BY <1>5, <1>12, <2>2
    <3> QED
      BY <3>1, <3>2 DEF LinesIn
  <2>3. CASE p > o /\ p <= c
    <3>1. c \in Ends(o) /\ c \in 1..L /\ log[c][2] = 2
      BY <1>1, <1>2, <2>3
    <3>2. PICK e \in (o + 1)..c : log[e][2] = 2 /\ log[e][1] = log[p][1]
      <4>1. CASE log[p][2] = 2
        BY <1>1, <1>5, <2>3, <4>1
      <4>2. CASE log[p][2] = 1
        <5>1. p # c /\ p # L
          BY <1>5, <2>3, <3>1, <4>2
        <5>2. log[p + 1] = <<log[p][1], 2>> /\ p + 1 \in (o + 1)..c
          BY <1>1, <1>5, <1>6, <2>3, <4>2, <5>1
        <5> QED
          BY <5>2
      <4> QED
        BY <1>6, <4>1, <4>2
    <3>3. e \in Ends(o) /\ e \in Newlines(o)
      BY <1>2, <3>1, <3>2
    <3>4. EventAt(o, e)[2] = log[p][1] /\ EventAt(o, e)[1] \in {"event", "fragment"}
      BY <3>2 DEF EventAt
    <3>5. CASE EventAt(o, e)[1] = "event"
      <4>1. EventAt(o, e) \in ToSet(Polled(o))
        BY <1>4, <3>3, <3>5 DEF PolledEnds
      <4> QED
        BY <3>4, <4>1, LinesOfIs
    <3>6. CASE EventAt(o, e)[1] = "fragment"
      BY <3>2, <3>3, <3>6, FragmentIsMissed
    <3> QED
      BY <3>4, <3>5, <3>6
  <2> QED
    BY <1>1, <1>5, <2>1, <2>2, <2>3
<1>13. ASSUME NEW l \in Unread PROVE l \in LinesOf(Polled(o)) \cup Unread' \cup missed'
  <2>1. PICK k \in Nat : /\ Unread = LinesIn(k + 1, L)
                         /\ ~ unseen /\ offset.known => k = offset.at
    <3>1. offset.at \in Nat
      BY DEF TailTypes
    <3>2. CASE unseen \/ ~ offset.known
      BY <1>0, <3>2 DEF Unread
    <3>3. CASE ~ (unseen \/ ~ offset.known)
      BY <1>0, <3>1, <3>3 DEF Unread
    <3> QED
      BY <3>2, <3>3
  <2>2. PICK p \in (k + 1)..L : l = log[p][1]
    BY <1>13, <2>1 DEF LinesIn
  <2>3. p \in 1..L /\ p > k
    BY <2>2
  <2> QED
    BY <1>12, <2>1, <2>2, <2>3
<1> QED
  BY <1>3, <1>8, <1>9, <1>10, <1>11, <1>13

\* The lines a poll takes are in the main loop's hands.
LEMMA PollFilesKept ==
    ASSUME RuntimeInv, PollFiles
    PROVE  Kept
<1>0. /\ JobInv /\ JournalInv /\ TailInv /\ DriftInv /\ up /\ up' = up /\ up \in BOOLEAN
      /\ job["main"].stage \in {"poll1", "poll"} /\ job["main"].pc = "ready"
      /\ UNCHANGED <<journalVars, driftVars, dropped>>
  BY DEF RuntimeInv, PollFiles, JobInv, AtPoint
<1>1. JournalGrows /\ Bodies' = Bodies /\ scarred' = scarred
  BY <1>0, JournalStays DEF journalVars
<1>2. /\ job["main"].rest = <<>> /\ job["main"].todo = {} /\ job["main"].stage \in Going
      /\ WorkerShape("main", job["main"]) /\ JobTypes
  BY <1>0, WorkersAre, TwoWorkers DEF WorkerShape, Going, JobInv
<1>3. CASE Proceed("main") /\ UNCHANGED tailVars
  <2>1. /\ JobInv' /\ Others("main") /\ job'["main"].rest = <<>> /\ job'["main"].todo = {}
        /\ job'["main"].pc \in {"ready", "event"}
    BY <1>0, <1>2, <1>3, MainContinues, ProceedContinues, EmptyRest, EmptyToSet, TwoWorkers
  <2>2. TailInv'
    BY <1>0, <1>1, <1>2, <1>3, <2>1, MainMovesTail
  <2>3. DriftInv'
    <3>1. UNCHANGED <<present, previous, baseline, accepted>> /\ accepted' \subseteq Item
      BY <1>0 DEF driftVars, DriftInv, DriftTypes
    <3> QED
      BY <1>0, <1>1, <1>2, <2>1, <3>1, TodoKeeps, TwoWorkers
  <2> QED
    BY <1>1, <2>1, <2>2, <2>3 DEF Kept, JournalGrows
<1>4. CASE \/ Poll /\ Enter("main", "report", Polled(Start), {})
           \/ Poll /\ Continue("main", Polled(Start))
  <2>1. PICK o : o = Start
    OBVIOUS
  <2>2. Poll /\ TailTypes /\ LogShape /\ OffsetShape /\ o \in 0..Len(log)
    BY <1>0, <1>4, <2>1, StartIs DEF TailInv
  <2>3. PICK rest \in Seq(Events) : rest = Polled(o) /\ ToSet(rest) \subseteq LogEvents
    <3>1. Polled(o) \in Seq(LogEvents)
      BY <2>2, PolledIs
    <3>2. Polled(o) \in Seq(Events)
      BY <3>1 DEF Events
    <3>3. ToSet(Polled(o)) \subseteq LogEvents
      BY <3>1, LenProperties DEF ToSet
    <3> QED
      BY <3>2, <3>3
  <2>4. /\ JobInv' /\ Others("main") /\ job'["main"].rest = rest /\ job'["main"].todo = {}
        /\ job'["main"].pc \in {"ready", "event", "report"}
    <3>1. CASE Continue("main", Polled(Start))
      <4>1. Continue("main", rest)
        BY <2>1, <2>3, <3>1
      <4> QED
        BY <1>0, <1>2, <2>3, <4>1, MainContinues
    <3>2. CASE Enter("main", "report", Polled(Start), {})
      <4>1. Enter("main", "report", rest, {}) /\ "report" \in Points
        BY <2>1, <2>3, <3>2 DEF Points
      <4>2. /\ JobTypes' /\ Others("main")
            /\ job'["main"].stage = job["main"].stage /\ job'["main"].pc = "report"
            /\ job'["main"].rest = rest /\ job'["main"].todo = {}
        BY <1>2, <2>3, <4>1, EnterEffect, TwoWorkers
      <4>3. WorkerShape("main", job'["main"])
        BY <1>0, <1>2, <2>3, <4>2 DEF WorkerShape
      <4> QED
        BY <1>0, <1>2, <4>2, <4>3, JobMoves, TwoWorkers
    <3> QED
      BY <1>4, <3>1, <3>2
  <2>5. TailInv'
    <3>1. /\ TailTypes' /\ LogShape' /\ OffsetShape' /\ begun' = begun
          /\ missed \subseteq missed'
          /\ \A e \in ToSet(rest) :
                e[2] \in 1..begun /\ (e[1] = "fragment" => e[2] \in missed')
          /\ Unread \subseteq LinesOf(rest) \cup Unread' \cup missed'
      BY <1>0, <2>1, <2>2, <2>3, PollEffect
    <3>2. RestShape'
      BY <2>4, <3>1 DEF RestShape, LinesOf
    <3>3. TailedIsJournaled'
      <4>1. LinesOf(job["main"].rest) = {}
        BY <1>2, EmptyToSet
      <4> QED
        BY <1>0, <1>1, <2>4, <3>1, <4>1 DEF TailInv, TailedIsJournaled
    <3> QED
      BY <3>1, <3>2, <3>3 DEF TailInv
  <2>6. DriftInv'
    <3>1. UNCHANGED <<present, previous, baseline, accepted>> /\ accepted' \subseteq Item
      BY <1>0 DEF driftVars, DriftInv, DriftTypes
    <3> QED
      BY <1>0, <1>1, <1>2, <2>4, <3>1, TodoKeeps, TwoWorkers
  <2> QED
    BY <1>1, <2>4, <2>5, <2>6 DEF Kept, JournalGrows
<1> QED
  BY <1>3, <1>4 DEF PollFiles

-----------------------------------------------------------------------------
(***************************************************************************)
(* The writer of the log, and the host.                                    *)
(***************************************************************************)
LEMMA WriteHalfEffect ==
    ASSUME TailTypes, LogShape, OffsetShape, WriteHalf, dropped' = dropped
    PROVE  /\ TailTypes' /\ LogShape' /\ OffsetShape' /\ begun <= begun'
           /\ missed' = missed /\ Unread \subseteq Unread'
           /\ \A l \in 1..begun' : l \in 1..begun \/ l \in Unread'
<1>0. PICK L \in Nat : L = Len(log) /\ log \in Seq(Nat \X {1, 2})
  BY DEF TailTypes
<1>1. PICK h \in Nat \X {1, 2} :
         /\ log' = Append(log, h)
         /\ \/ InLine /\ h = <<log[L][1], 2>> /\ begun' = begun
            \/ ~ InLine /\ begun < MaxLines /\ h = <<begun + 1, 1>> /\ begun' = begun + 1
  <2>1. CASE InLine
    <3>1. L \in 1..L
      BY <1>0, <2>1, EmptySeq DEF InLine
    <3>2. log[L] \in Nat \X {1, 2}
      BY <1>0, <3>1
    <3>3. <<log[L][1], 2>> \in Nat \X {1, 2}
      BY <3>2
    <3> QED
      BY <1>0, <2>1, <3>3 DEF WriteHalf
  <2>2. CASE ~ InLine
    <3>1. <<begun + 1, 1>> \in Nat \X {1, 2}
      BY DEF TailTypes
    <3> QED
      BY <2>2, <3>1 DEF WriteHalf
  <2> QED
    BY <2>1, <2>2
<1>2. /\ Len(log') = L + 1 /\ log'[L + 1] = h /\ log' \in Seq(Nat \X {1, 2})
      /\ \A k \in 1..L : log'[k] = log[k] /\ log[k] \in Nat \X {1, 2}
  BY <1>0, <1>1
<1>3. /\ begun \in 0..MaxLines /\ begun' \in 0..MaxLines /\ begun <= begun'
      /\ begun \in Nat /\ begun' \in Nat
      /\ UNCHANGED <<source, offset, unseen, missed>>
  BY <1>1, FileTailAssumption DEF WriteHalf, TailTypes
<1>4. TailTypes'
  BY <1>2, <1>3 DEF TailTypes
<1>5. ASSUME NEW k \in 1..L
      PROVE  /\ log[k][1] \in 1..begun /\ log[k][2] \in {1, 2}
             /\ log[k][2] = 2 => k # 1 /\ log[k - 1] = <<log[k][1], 1>>
             /\ log[k][2] = 1 /\ k # L => log[k + 1] = <<log[k][1], 2>>
  <2>1. log[k] \in Nat \X {1, 2}
    BY <1>2
  <2> QED
    BY <1>0, <1>5, <2>1 DEF LogShape
<1>6. L <= 2 * begun /\ (InLine => L < 2 * begun /\ L # 0 /\ log[L][2] = 1)
  BY <1>0, EmptySeq DEF LogShape, InLine
<1>7. ~ InLine => L = 0 \/ log[L][2] # 1
  BY <1>0, EmptySeq DEF InLine
<1>8. h[1] \in 1..begun'
  <2>1. CASE InLine
    <3>1. L \in 1..L
      BY <1>6, <2>1
    <3> QED
      BY <1>1, <1>3, <1>5, <2>1, <3>1
  <2>2. CASE ~ InLine
    BY <1>1, <1>3, <2>2
  <2> QED
    BY <2>1, <2>2
<1>9. LogShape'
  <2>1. L + 1 <= 2 * begun' /\ (h[2] = 1 => L + 1 < 2 * begun')
    <3>1. CASE InLine
      BY <1>1, <1>3, <1>6, <3>1
    <3>2. CASE ~ InLine
      <4>1. begun' = begun + 1 /\ L <= 2 * begun
        BY <1>1, <1>6, <3>2
      <4> QED
        BY <1>3, <4>1
    <3> QED
      BY <3>1, <3>2
  <2>2. InLine' => h[2] = 1
    BY <1>2 DEF InLine
  <2>3. ASSUME NEW k \in 1..L + 1
        PROVE  /\ log'[k][1] \in 1..begun'
               /\ log'[k][2] = 2 => k # 1 /\ log'[k - 1] = <<log'[k][1], 1>>
               /\ log'[k][2] = 1 /\ k # L + 1 => log'[k + 1] = <<log'[k][1], 2>>
    <3>1. CASE k = L + 1
      <4>1. CASE InLine
        <5>1. L \in 1..L /\ log[L] \in Nat \X {1, 2} /\ log[L][2] = 1
          BY <1>2, <1>6, <4>1
        <5>2. log[L] = <<log[L][1], 1>>
          BY <5>1
        <5> QED
          BY <1>1, <1>2, <1>8, <3>1, <4>1, <5>1, <5>2
      <4>2. CASE ~ InLine
        BY <1>1, <1>2, <1>8, <3>1, <4>2
      <4> QED
        BY <4>1, <4>2
    <3>2. CASE k \in 1..L
      <4>1. log'[k] = log[k] /\ log[k][1] \in 1..begun'
        BY <1>2, <1>3, <1>5, <3>2
      <4>2. log[k][2] = 2 => k # 1 /\ log'[k - 1] = <<log[k][1], 1>>
        <5>1. k # 1 => k - 1 \in 1..L
          BY <3>2
        <5> QED
          BY <1>2, <1>5, <3>2, <5>1
      <4>3. ASSUME log[k][2] = 1 PROVE log'[k + 1] = <<log[k][1], 2>>
        <5>1. CASE k = L
          BY <1>1, <1>2, <1>7, <3>2, <4>3, <5>1
        <5>2. CASE k # L
          BY <1>2, <1>5, <3>2, <4>3, <5>2
        <5> QED
          BY <5>1, <5>2
      <4> QED
        BY <4>1, <4>2, <4>3
    <3> QED
      BY <3>1, <3>2
  <2> QED
    BY <1>2, <2>1, <2>2, <2>3 DEF LogShape
<1>10. OffsetShape'
  BY <1>0, <1>2, <1>3 DEF OffsetShape, CutIsMissed, TailTypes
<1>11. PICK s \in Nat : /\ Unread = LinesIn(s + 1, L) /\ s <= L
                        /\ Unread' = {log'[k][1] : k \in (s + 1)..(L + 1)}
  <2>1. offset.at \in Nat
    BY DEF TailTypes
  <2>2. CASE unseen \/ ~ offset.known
    <3>1. Unread = LinesIn(1, L) /\ Unread' = {log'[k][1] : k \in 1..(L + 1)}
      BY <1>0, <1>2, <1>3, <2>2 DEF Unread, LinesIn
    <3>2. 0 + 1 = 1 /\ 0 <= L /\ 0 \in Nat
      OBVIOUS
    <3> QED
      BY <3>1, <3>2
  <2>3. CASE ~ (unseen \/ ~ offset.known)
    BY <1>0, <1>2, <1>3, <2>1, <2>3 DEF Unread, LinesIn, OffsetShape
  <2> QED
    BY <2>2, <2>3
<1>12. Unread \subseteq Unread'
  <2>1. ASSUME NEW l \in Unread PROVE l \in Unread'
    <3>1. PICK k \in (s + 1)..L : l = log[k][1]
      BY <1>11, <2>1 DEF LinesIn
    <3>2. k \in 1..L /\ k \in (s + 1)..(L + 1)
      BY <3>1
    <3> QED
      BY <1>2, <1>11, <3>1, <3>2
  <2> QED
    BY <2>1
<1>13. h[1] \in Unread'
  <2>1. L + 1 \in (s + 1)..(L + 1)
    BY <1>11
  <2> QED
    BY <1>2, <1>11, <2>1
<1>14. \A l \in 1..begun' : l \in 1..begun \/ l \in Unread'
  BY <1>1, <1>3, <1>13
<1> QED
  BY <1>3, <1>4, <1>9, <1>10, <1>12, <1>14

\* Rotation notes what was unread as missed.
LEMMA RotateEffect ==
    ASSUME TailTypes, LogShape, OffsetShape, Rotate, dropped' = dropped
    PROVE  /\ TailTypes' /\ LogShape' /\ OffsetShape' /\ begun' = begun
           /\ missed \subseteq missed' /\ Unread \subseteq missed'
<1>1. /\ log' = <<>> /\ unseen' = TRUE
      /\ missed' = missed \cup LinesIn(IF unseen THEN 1 ELSE offset.at + 1, Len(log))
      /\ UNCHANGED <<source, begun, offset>>
  BY DEF Rotate
<1>2. PICK L \in Nat : L = Len(log)
  BY DEF TailTypes
<1>3. \A k \in 1..L : log[k][1] \in 1..begun
  BY <1>2 DEF LogShape
<1>4. PICK s \in Nat : missed' = missed \cup LinesIn(s + 1, L) /\ Unread = LinesIn(s + 1, L)
  <2>1. offset.at \in Nat /\ (~ offset.known => offset.at = 0)
    BY DEF TailTypes, OffsetShape
  <2>2. CASE unseen
    BY <1>1, <1>2, <2>2 DEF Unread
  <2>3. CASE ~ unseen
    BY <1>1, <1>2, <2>1, <2>3 DEF Unread
  <2> QED
    BY <2>2, <2>3
<1>5. LinesIn(s + 1, L) \subseteq 1..begun
  <2>1. \A k \in (s + 1)..L : k \in 1..L
    OBVIOUS
  <2> QED
    BY <1>3, <2>1 DEF LinesIn
<1>6. <<>> \in Seq(Nat \X {1, 2}) /\ Len(<<>>) = 0
  OBVIOUS
<1>7. TailTypes'
  BY <1>1, <1>4, <1>5, <1>6 DEF TailTypes
<1>8. LogShape'
  <2>1. begun \in Nat
    BY DEF TailTypes
  <2>2. ~ InLine'
    BY <1>1 DEF InLine
  <2> QED
    BY <1>1, <1>6, <2>1, <2>2 DEF LogShape
<1>9. OffsetShape'
  BY <1>1 DEF OffsetShape
<1> QED
  BY <1>1, <1>4, <1>7, <1>8, <1>9

\* Writers of the log and changes on the host keep the invariant.
LEMMA EnvironmentKept ==
    ASSUME RuntimeInv, Environment, UNCHANGED <<journalVars, workVars>>
    PROVE  Kept
<1>0. /\ JobInv /\ JournalInv /\ TailInv /\ DriftInv
      /\ UNCHANGED <<journalVars, up, job, dropped>>
  BY DEF RuntimeInv, workVars
<1>1. JournalGrows /\ Bodies' = Bodies /\ scarred' = scarred
  BY <1>0, JournalStays DEF journalVars, JobInv
<1>2. JobInv'
  BY <1>0 DEF JobInv, JobTypes, ServedLater, WorkerShape
<1>3. CASE (WriteHalf \/ Rotate) /\ UNCHANGED driftVars
  <2>1. /\ TailTypes' /\ LogShape' /\ OffsetShape' /\ begun <= begun'
        /\ missed \subseteq missed' /\ Unread \subseteq Unread' \cup missed'
        /\ \A l \in 1..begun' : l \in 1..begun \/ l \in Unread'
        /\ begun \in Nat /\ begun' \in Nat
    <3>1. TailTypes /\ LogShape /\ OffsetShape /\ begun \in Nat
      BY <1>0 DEF TailInv, TailTypes
    <3>2. CASE WriteHalf
      <4>1. /\ TailTypes' /\ LogShape' /\ OffsetShape' /\ begun <= begun'
            /\ missed' = missed /\ Unread \subseteq Unread'
            /\ \A l \in 1..begun' : l \in 1..begun \/ l \in Unread'
        BY <1>0, <3>1, <3>2, WriteHalfEffect
      <4>2. begun' \in Nat
        BY <4>1 DEF TailTypes
      <4> QED
        BY <3>1, <4>1, <4>2
    <3>3. CASE Rotate
      BY <1>0, <3>1, <3>3, RotateEffect
    <3> QED
      BY <1>3, <3>2, <3>3
  <2>2. RestShape'
    <3>1. Event("main")' = Event("main")
      BY <1>0 DEF Event
    <3> QED
      BY <1>0, <1>1, <2>1, <3>1 DEF TailInv, RestShape, LinesOf
  <2>3. TailedIsJournaled'
    BY <1>0, <1>1, <2>1 DEF TailInv, TailedIsJournaled, LinesOf
  <2>4. TailInv'
    BY <2>1, <2>2, <2>3 DEF TailInv
  <2>5. DriftInv'
    BY <1>0, <1>1, <1>3 DEF DriftInv, DriftTypes, driftVars, Covered, Reported, Event
  <2> QED
    BY <1>1, <1>2, <2>4, <2>5 DEF Kept, JournalGrows
<1>4. CASE HostChanges /\ UNCHANGED tailVars
  <2>1. /\ dropped' \subseteq 1..begun /\ ToSet(job["main"].rest) \subseteq Events
    BY <1>0, WorkersAre, TwoWorkers DEF TailInv, TailTypes
  <2>2. TailInv'
    BY <1>0, <1>1, <1>4, <2>1, TailKeeps DEF TailInv, RestShape, Event
  <2>3. DriftInv'
    <3>1. present' \subseteq Item /\ UNCHANGED <<previous, baseline, accepted>>
      BY <1>0, <1>4 DEF HostChanges, DriftInv, DriftTypes
    <3> QED
      BY <1>0, <1>1, <3>1 DEF DriftInv, DriftTypes, Covered, Reported, Event
  <2> QED
    BY <1>1, <1>2, <2>2, <2>3 DEF Kept, JournalGrows
<1> QED
  BY <1>3, <1>4 DEF Environment

-----------------------------------------------------------------------------
(***************************************************************************)
(* The invariant of the runtime.                                           *)
(***************************************************************************)
LEMMA StutterKept ==
    ASSUME RuntimeInv, UNCHANGED runtimeVars
    PROVE  Kept
<1>0. /\ JobInv /\ JournalInv /\ TailInv /\ DriftInv
      /\ UNCHANGED <<journalVars, tailVars, driftVars, up, job, dropped>>
  BY DEF RuntimeInv, runtimeVars, workVars
<1>1. JournalGrows /\ Bodies' = Bodies /\ scarred' = scarred
  BY <1>0, JournalStays DEF journalVars, JobInv
<1>2. JobInv'
  BY <1>0 DEF JobInv, JobTypes, ServedLater, WorkerShape
<1>3. TailInv'
  <2>1. dropped' \subseteq 1..begun /\ ToSet(job["main"].rest) \subseteq Events
    BY <1>0, WorkersAre, TwoWorkers DEF TailInv, TailTypes
  <2> QED
    BY <1>0, <1>1, <2>1, TailKeeps DEF TailInv, RestShape, Event
<1>4. DriftInv'
  BY <1>0, <1>1 DEF DriftInv, DriftTypes, driftVars, Covered, Reported, Event
<1> QED
  BY <1>1, <1>2, <1>3, <1>4 DEF Kept, JournalGrows

\* The invariant of the runtime holds at first.
LEMMA RuntimeStarts ==
    ASSUME RuntimeInit
    PROVE  RuntimeInv
<1>0. /\ lines = <<>> /\ torn = FALSE /\ head = NoHash /\ scarred = FALSE
      /\ source \in [fromStart : BOOLEAN, plain : BOOLEAN]
      /\ log = <<>> /\ begun = 0 /\ offset = NotKnown /\ unseen = FALSE /\ missed = {}
      /\ previous = NoSnapshot /\ baseline = NoSnapshot /\ accepted = {}
      /\ up = FALSE /\ job = [w \in Worker |-> Ready("off")] /\ dropped = {}
      /\ setup \in Setups /\ present \in setup.hosts
  BY DEF RuntimeInit, JournalInit, TailInit, DriftInit
<1>1. /\ Ready("off") \in Jobs /\ Ready("off").stage = "off" /\ Ready("off").pc = "ready"
      /\ Ready("off").rest = <<>> /\ Ready("off").todo = {}
  BY ReadyIsJob DEF Stages
<1>2. /\ job \in [Worker -> Jobs] /\ job["main"] = Ready("off") /\ job["api"] = Ready("off")
  BY <1>0, <1>1, TwoWorkers
<1>3. JobInv
  <2>1. WorkerShape("api", job["api"]) /\ WorkerShape("main", job["main"])
    BY <1>0, <1>1, <1>2, EmptyToSet DEF WorkerShape
  <2> QED
    BY <1>0, <1>1, <1>2, <2>1, TwoWorkers DEF JobInv, JobTypes, Jobs, ServedLater
<1>4. JournalInv
  <2>1. JournalTypes
    <3>1. NoHash \in Hashes
      BY DEF NoHash, Hashes, RecordBodies
    <3>2. <<>> \in Seq(Records)
      OBVIOUS
    <3> QED
      BY <1>0, <3>1, <3>2 DEF JournalTypes
  <2>2. VerifyFile
    BY <1>0 DEF VerifyFile
  <2> QED
    BY <1>0, <2>1, <2>2 DEF JournalInv, JournalSound
<1>5. TailInv
  <2>1. log \in Seq(Nat \X {1, 2}) /\ Len(log) = 0
    BY <1>0
  <2>2. TailTypes
    <3>1. NotKnown \in [known : BOOLEAN, at : Nat] /\ 0 \in 0..MaxLines
      BY FileTailAssumption DEF NotKnown
    <3> QED
      BY <1>0, <2>1, <3>1 DEF TailTypes
  <2>3. LogShape
    BY <1>0, <2>1 DEF LogShape, InLine
  <2>4. OffsetShape
    BY <1>0, FileTailAssumption DEF OffsetShape, NotKnown
  <2>5. RestShape
    BY <1>1, <1>2, EmptyToSet DEF RestShape
  <2>6. TailedIsJournaled
    BY <1>0 DEF TailedIsJournaled
  <2> QED
    BY <2>2, <2>3, <2>4, <2>5, <2>6 DEF TailInv
<1>6. DriftInv
  <2>1. present \subseteq Item
    BY <1>0, RuntimeAssumption
  <2>2. NoSnapshot \in Snapshot /\ NoSnapshot.items = {}
    BY DEF NoSnapshot, Snapshot
  <2> QED
    BY <1>0, <1>1, <1>2, <2>1, <2>2 DEF DriftInv, DriftTypes
<1> QED
  BY <1>3, <1>4, <1>5, <1>6 DEF RuntimeInv

\* The invariant of the runtime, in every state of the host.
LEMMA RuntimeInvariant == HostSpec => []RuntimeInv
<1>1. HostInit => RuntimeInv
  BY RuntimeStarts DEF HostInit
<1>2. ASSUME RuntimeInv, [HostNext]_hostVars PROVE RuntimeInv'
  <2>1. CASE UNCHANGED runtimeVars
    BY <1>2, <2>1, StutterKept DEF Kept, RuntimeInv
  <2>2. CASE RuntimeNext
    <3>1. Kept
      <4>1. CASE StartAgent \/ Started \/ Crash \/ Stop
        BY <1>2, <4>1, StartAgentKept, StartedKept, CrashKept, StopKept
      <4>2. ASSUME NEW w \in Worker,
                   RecordEvent(w) \/ Inspect(w) \/ RecordFinding(w) \/ RecordFails(w) \/ Queue(w)
            PROVE  Kept
        BY <1>2, <4>2, RecordEventKept, InspectKept, RecordFindingKept, RecordFailsKept, QueueKept
      <4>3. CASE Report \/ PollFiles \/ CollectInventory
        BY <1>2, <4>3, ReportKept, PollFilesKept, CollectInventoryKept
      <4>4. CASE NotDue \/ SaveBaseline \/ Ingest
        BY <1>2, <4>4, NotDueKept, SaveBaselineKept, IngestKept
      <4>5. CASE Environment /\ UNCHANGED <<journalVars, workVars>>
        BY <1>2, <4>5, EnvironmentKept
      <4> QED
        BY <2>2, <4>1, <4>2, <4>3, <4>4, <4>5 DEF RuntimeNext
    <3> QED
      BY <3>1 DEF Kept, RuntimeInv
  <2> QED
    BY <1>2, <2>1, <2>2 DEF HostNext, hostVars
<1> QED
  BY <1>1, <1>2, PTL DEF HostSpec

(***************************************************************************)
(* The journal can be opened again, through crashes and failed Appends     *)
(* that wrote nothing, for any number of records and workers' steps.       *)
(***************************************************************************)
THEOREM JournalOpensAlways == HostSpec => []JournalOpens
<1>1. RuntimeInv => JournalOpens
  BY DEF RuntimeInv, JournalInv, JournalSound, JournalOpens
<1> QED
  BY <1>1, RuntimeInvariant, PTL

(***************************************************************************)
(* A line of a log is in the journal, in hand, unread, missed by the       *)
(* tailer or dropped by process: it is never lost in another way, however  *)
(* the writer, the rotation, the polls and the crashes interleave.         *)
(***************************************************************************)
THEOREM TailedIsJournaledAlways == HostSpec => []TailedIsJournaled
<1>1. RuntimeInv => TailedIsJournaled
  BY DEF RuntimeInv, TailInv
<1> QED
  BY <1>1, RuntimeInvariant, PTL

(***************************************************************************)
(* What the baseline holds was reported, or became known where the code    *)
(* does not report, with inventories of the host and of the API between    *)
(* each other and crashes between a finding and the baseline.              *)
(***************************************************************************)
THEOREM DriftIsReportedAlways == HostSpec => []DriftIsReported
<1>1. RuntimeInv => DriftIsReported
  <2>1. SUFFICES ASSUME DriftInv, ~ scarred, NEW i \in baseline.items
                 PROVE  \/ i \in accepted \cup UNION job["api"].todo
                        \/ \E f \in SUBSET Item : i \in f /\ <<"finding", f>> \in Bodies
    BY DEF RuntimeInv, DriftIsReported
  <2>2. i \in Covered
    BY <2>1 DEF DriftInv
  <2> QED
    BY <2>2 DEF Covered, Reported
<1> QED
  BY <1>1, RuntimeInvariant, PTL

-----------------------------------------------------------------------------
(***************************************************************************)
(* The client of Central.  A batch whose answer was lost is sent again, so *)
(* Central may get an event after a later one; CentralInv says that what   *)
(* Run still holds is never news behind something later (Behind), that the *)
(* list and the channel ascend and that all of the channel is later than   *)
(* the rest.                                                               *)
(***************************************************************************)
\* In s, n comes before whatever is later than n.
Behind(s, n) == \A i \in DOMAIN s : n < s[i] => \E h \in 1..(i - 1) : s[h] = n

Ascends(s) == \A i, k \in DOMAIN s : i < k => s[i] < s[k]

Older(S, T) == \A m \in S, n \in T : m < n

InOrder(got, list, chan) ==
    /\ got \in Seq(Nat) /\ list \in Seq(Nat) /\ chan \in Seq(Nat)
    /\ Ascends(list) /\ Ascends(chan)
    /\ Older(ToSet(got) \cup ToSet(list), ToSet(chan))
    /\ \A n \in ToSet(got) \cup ToSet(list) : Behind(got, n)

Accounted(S) == S = (1..handed) \ given

CentralInv ==
    /\ handed \in Nat /\ given \subseteq 1..handed
    /\ InOrder(received, pending, queue)
    /\ Accounted(ToSet(received) \cup ToSet(pending) \cup ToSet(queue))

\* A member of a list is at one of its places.
LEMMA InRange ==
    ASSUME NEW S, NEW s \in Seq(S), NEW n
    PROVE  n \in ToSet(s) <=> \E i \in 1..Len(s) : s[i] = n
<1>1. DOMAIN s = 1..Len(s)
  OBVIOUS
<1> QED
  BY <1>1 DEF ToSet

\* What follows got is the front of an ascending list.
Extended(got, list, t, all) ==
    /\ got \in Seq(Nat) /\ list \in Seq(Nat) /\ t \in Seq(Nat) /\ all = got \o t
    /\ Ascends(list) /\ Len(t) <= Len(list) /\ \A i \in 1..Len(t) : t[i] = list[i]
    /\ \A n \in ToSet(got) \cup ToSet(list) : Behind(got, n)

\* A front of the ascending list brings nothing that is out of order.
LEMMA BehindExtends ==
    ASSUME NEW got, NEW list, NEW t, NEW all, Extended(got, list, t, all)
    PROVE  /\ all \in Seq(Nat) /\ ToSet(all) = ToSet(got) \cup ToSet(t)
           /\ \A n \in ToSet(got) \cup ToSet(list) : Behind(all, n)
<1>0. /\ got \in Seq(Nat) /\ list \in Seq(Nat) /\ t \in Seq(Nat) /\ all = got \o t
      /\ Ascends(list) /\ Len(t) <= Len(list) /\ \A i \in 1..Len(t) : t[i] = list[i]
      /\ \A n \in ToSet(got) \cup ToSet(list) : Behind(got, n)
  BY DEF Extended
<1>1. PICK m \in Nat, k \in Nat, z \in Nat :
         m = Len(got) /\ k = Len(t) /\ z = Len(list) /\ k <= z
  BY <1>0
<1>2. /\ all \in Seq(Nat) /\ Len(all) = m + k /\ DOMAIN all = 1..(m + k)
      /\ \A i \in 1..m : all[i] = got[i]
      /\ \A i \in 1..k : all[m + i] = t[i]
  <2>1. /\ got \o t \in Seq(Nat) /\ Len(got \o t) = Len(got) + Len(t)
        /\ \A i \in 1..(Len(got) + Len(t)) :
              (got \o t)[i] = IF i <= Len(got) THEN got[i] ELSE t[i - Len(got)]
    BY <1>0, ConcatProperties
  <2> QED
    BY <1>0, <1>1, <2>1
<1>3. \A n : /\ n \in ToSet(got) <=> \E i \in 1..m : got[i] = n
             /\ n \in ToSet(t) <=> \E i \in 1..k : t[i] = n
             /\ n \in ToSet(list) <=> \E i \in 1..z : list[i] = n
             /\ n \in ToSet(all) <=> \E i \in 1..(m + k) : all[i] = n
  <2>1. \A n : n \in ToSet(got) <=> \E i \in 1..Len(got) : got[i] = n
    BY <1>0, InRange
  <2>2. \A n : n \in ToSet(t) <=> \E i \in 1..Len(t) : t[i] = n
    BY <1>0, InRange
  <2>3. \A n : n \in ToSet(list) <=> \E i \in 1..Len(list) : list[i] = n
    BY <1>0, InRange
  <2>4. \A n : n \in ToSet(all) <=> \E i \in 1..(m + k) : all[i] = n
    BY <1>2, Zenon DEF ToSet
  <2> QED
    BY <1>0, <1>1, <1>2, <2>1, <2>2, <2>3, <2>4, Zenon
<1>4. \A i \in 1..(m + k) : i \in 1..m \/ (i - m \in 1..k /\ i = m + (i - m))
  OBVIOUS
<1>5. ToSet(all) = ToSet(got) \cup ToSet(t)
  <2>1. ASSUME NEW n \in ToSet(all) PROVE n \in ToSet(got) \cup ToSet(t)
    <3>1. PICK i \in 1..(m + k) : all[i] = n
      BY <1>3
    <3>2. CASE i \in 1..m
      BY <1>2, <1>3, <3>1, <3>2
    <3>3. CASE i - m \in 1..k /\ i = m + (i - m)
      <4>1. t[i - m] = n
        BY <1>2, <3>1, <3>3
      <4> QED
        BY <1>3, <3>3, <4>1
    <3> QED
      BY <1>4, <3>2, <3>3
  <2>2. ASSUME NEW n \in ToSet(got) \cup ToSet(t) PROVE n \in ToSet(all)
    <3>1. CASE n \in ToSet(got)
      <4>1. PICK i \in 1..m : got[i] = n
        BY <1>3, <3>1
      <4>2. i \in 1..(m + k) /\ all[i] = n
        BY <1>2, <4>1
      <4> QED
        BY <1>3, <4>2
    <3>2. CASE n \in ToSet(t)
      <4>1. PICK i \in 1..k : t[i] = n
        BY <1>3, <3>2
      <4>2. all[m + i] = n
        BY <1>2, <4>1
      <4>3. m + i \in 1..(m + k)
        BY <4>1
      <4> QED
        BY <1>3, <4>2, <4>3
    <3> QED
      BY <2>2, <3>1, <3>2
  <2> QED
    BY <2>1, <2>2
<1>6. ASSUME NEW n \in ToSet(got) \cup ToSet(list), NEW i \in 1..(m + k), n < all[i]
      PROVE  \E h \in 1..(i - 1) : all[h] = n
  <2>1. CASE i \in 1..m
    <3>1. Behind(got, n) /\ DOMAIN got = 1..m /\ n < got[i]
      BY <1>0, <1>1, <1>2, <1>6, <2>1
    <3>2. PICK h \in 1..(i - 1) : got[h] = n
      BY <2>1, <3>1 DEF Behind
    <3>3. h \in 1..m
      BY <2>1
    <3> QED
      BY <1>2, <3>2, <3>3
  <2>2. CASE i - m \in 1..k /\ i = m + (i - m)
    <3>1. CASE n \in ToSet(got)
      <4>1. PICK h \in 1..m : got[h] = n
        BY <1>3, <3>1
      <4>2. h \in 1..(i - 1) /\ all[h] = n
        BY <1>2, <2>2, <4>1
      <4> QED
        BY <4>2
    <3>2. CASE n \in ToSet(list)
      <4>1. PICK h \in 1..z : list[h] = n
        BY <1>3, <3>2
      <4>2. PICK j \in 1..k : j = i - m /\ i = m + j /\ n < t[j]
        BY <1>2, <1>6, <2>2
      <4>3. j \in 1..z /\ list[j] = t[j]
        <5>1. j \in 1..z
          BY <1>0, <1>1, <4>2
        <5>2. t[j] = list[j]
          BY <1>0, <1>1, <4>2
        <5> QED
          BY <5>1, <5>2
      <4>4. list[h] < list[j] /\ list[h] \in Nat /\ list[j] \in Nat
        BY <1>0, <1>1, <4>1, <4>2, <4>3
      <4>5. h < j
        <5>1. SUFFICES ASSUME ~ (h < j) PROVE FALSE
          OBVIOUS
        <5>2. h = j \/ j < h
          BY <5>1
        <5>3. j < h => list[j] < list[h]
          <6>1. DOMAIN list = 1..z
            BY <1>0, <1>1
          <6> QED
            BY <1>0, <4>1, <4>3, <6>1 DEF Ascends
        <5> QED
          BY <4>4, <5>2, <5>3
      <4>6. h \in 1..k /\ m + h \in 1..(i - 1) /\ all[m + h] = n
        <5>1. h \in 1..k /\ m + h \in 1..(i - 1)
          BY <4>2, <4>5
        <5>2. t[h] = list[h]
          BY <1>0, <1>1, <5>1
        <5> QED
          BY <1>2, <4>1, <5>1, <5>2
      <4> QED
        BY <4>6
    <3> QED
      BY <1>6, <3>1, <3>2
  <2> QED
    BY <1>4, <2>1, <2>2
<1>7. \A n \in ToSet(got) \cup ToSet(list) : Behind(all, n)
  BY <1>2, <1>6 DEF Behind
<1> QED
  BY <1>2, <1>5, <1>7

\* A batch takes no more than there is.
LEMMA TakeIs ==
    ASSUME NEW list \in Seq(Nat)
    PROVE  Take(list) \in 0..Len(list)
<1>1. PICK n \in Nat : n = Len(list)
  OBVIOUS
<1>2. CentralBatch \in Nat
  BY CentralAssumption
<1>3. \E m \in {n, CentralBatch} : \A k \in {n, CentralBatch} : m <= k
  BY <1>2
<1>4. Min({n, CentralBatch}) \in {n, CentralBatch}
      /\ \A k \in {n, CentralBatch} : Min({n, CentralBatch}) <= k
  BY <1>3 DEF Min
<1> QED
  BY <1>1, <1>2, <1>4 DEF Take

\* A batch and the rest of the list.
Batched(list, k, front, rest) ==
    /\ list \in Seq(Nat) /\ Ascends(list) /\ k \in 0..Len(list)
    /\ front = SubSeq(list, 1, k) /\ rest = SubSeq(list, k + 1, Len(list))

\* A batch and the rest are the list.
LEMMA BatchIs ==
    ASSUME NEW list, NEW k, NEW front, NEW rest, Batched(list, k, front, rest)
    PROVE  /\ front \in Seq(Nat) /\ Len(front) = k /\ \A i \in 1..k : front[i] = list[i]
           /\ rest \in Seq(Nat) /\ Ascends(rest)
           /\ ToSet(list) = ToSet(front) \cup ToSet(rest)
<1>0. list \in Seq(Nat) /\ Ascends(list) /\ k \in 0..Len(list)
  BY DEF Batched
<1>1. PICK z \in Nat : z = Len(list) /\ DOMAIN list = 1..z /\ k <= z /\ k \in Nat
  BY <1>0
<1>2. /\ front \in Seq(Nat) /\ DOMAIN front = 1..k /\ Len(front) = k
      /\ \A i \in 1..k : front[i] = list[i]
  BY <1>0, <1>1 DEF Batched
<1>3. /\ rest \in Seq(Nat) /\ DOMAIN rest = 1..(z - k)
      /\ \A i \in 1..(z - k) : rest[i] = list[k + i]
  BY <1>0, <1>1 DEF Batched
<1>4. Ascends(rest)
  <2>1. ASSUME NEW i \in 1..(z - k), NEW j \in 1..(z - k), i < j PROVE rest[i] < rest[j]
    <3>1. k + i \in 1..z /\ k + j \in 1..z /\ k + i < k + j
      BY <1>1, <2>1
    <3>2. list[k + i] < list[k + j]
      BY <1>0, <1>1, <3>1 DEF Ascends
    <3> QED
      BY <1>3, <3>2
  <2> QED
    BY <1>3, <2>1 DEF Ascends
<1>5. ToSet(list) = ToSet(front) \cup ToSet(rest)
  <2>1. ASSUME NEW i \in 1..z PROVE list[i] \in ToSet(front) \cup ToSet(rest)
    <3>1. CASE i <= k
      <4>1. i \in 1..k /\ front[i] = list[i]
        BY <1>2, <3>1
      <4> QED
        BY <1>2, <4>1 DEF ToSet
    <3>2. CASE ~ (i <= k)
      <4>1. i - k \in 1..(z - k) /\ k + (i - k) = i
        BY <1>1, <3>2
      <4>2. rest[i - k] = list[i]
        BY <1>3, <4>1
      <4> QED
        BY <1>3, <4>1, <4>2 DEF ToSet
    <3> QED
      BY <3>1, <3>2
  <2>2. ASSUME NEW i \in 1..k PROVE front[i] \in ToSet(list)
    <3>1. i \in 1..z /\ front[i] = list[i]
      BY <1>1, <1>2
    <3> QED
      BY <1>1, <3>1 DEF ToSet
  <2>3. ASSUME NEW i \in 1..(z - k) PROVE rest[i] \in ToSet(list)
    <3>1. k + i \in 1..z
      BY <1>1
    <3>2. rest[i] = list[k + i]
      BY <1>3
    <3> QED
      BY <1>1, <3>1, <3>2 DEF ToSet
  <2>4. /\ ToSet(list) = {list[i] : i \in 1..z} /\ ToSet(front) = {front[i] : i \in 1..k}
        /\ ToSet(rest) = {rest[i] : i \in 1..(z - k)}
    BY <1>1, <1>2, <1>3 DEF ToSet
  <2> QED
    BY <2>1, <2>2, <2>3, <2>4
<1> QED
  BY <1>2, <1>3, <1>4, <1>5

\* A later event at the end of an ascending list leaves it ascending.
LEMMA AppendIs ==
    ASSUME NEW s \in Seq(Nat), Ascends(s), NEW n \in Nat, Older(ToSet(s), {n}),
           NEW t, t = Append(s, n)
    PROVE  t \in Seq(Nat) /\ Ascends(t) /\ ToSet(t) = ToSet(s) \cup {n}
<1>1. PICK z \in Nat : z = Len(s) /\ DOMAIN s = 1..z
  OBVIOUS
<1>2. /\ t \in Seq(Nat) /\ DOMAIN t = 1..(z + 1) /\ t[z + 1] = n
      /\ \A i \in 1..z : t[i] = s[i]
  BY <1>1, AppendProperties
<1>3. \A i \in 1..(z + 1) : i \in 1..z \/ i = z + 1
  OBVIOUS
<1>4. ToSet(t) = ToSet(s) \cup {n}
  <2>1. \A i \in 1..z : i \in 1..(z + 1)
    OBVIOUS
  <2>2. z + 1 \in 1..(z + 1)
    OBVIOUS
  <2>3. ToSet(t) = {t[i] : i \in 1..(z + 1)} /\ ToSet(s) = {s[i] : i \in 1..z}
    BY <1>1, <1>2 DEF ToSet
  <2> QED
    BY <1>2, <1>3, <2>1, <2>2, <2>3
<1>5. ASSUME NEW i \in 1..(z + 1), NEW k \in 1..(z + 1), i < k PROVE t[i] < t[k]
  <2>1. i \in 1..z /\ t[i] = s[i] /\ s[i] \in ToSet(s)
    <3>1. i \in 1..z
      BY <1>5
    <3> QED
      BY <1>1, <1>2, <3>1 DEF ToSet
  <2>2. CASE k \in 1..z
    BY <1>1, <1>2, <1>5, <2>1, <2>2 DEF Ascends
  <2>3. CASE k = z + 1
    BY <1>2, <2>1, <2>3 DEF Older
  <2> QED
    BY <1>3, <2>2, <2>3
<1> QED
  BY <1>2, <1>4, <1>5 DEF Ascends

\* flush: what is sent goes behind what Central has, the rest keeps its place.
LEMMA FlushedKept ==
    ASSUME NEW list, NEW chan, InOrder(received, list, chan), Flushed(list)
    PROVE  /\ InOrder(received, pending, chan)'
           /\ ToSet(received)' \cup ToSet(pending)' = ToSet(received) \cup ToSet(list)
<1>1. /\ received \in Seq(Nat) /\ list \in Seq(Nat) /\ chan \in Seq(Nat)
      /\ Ascends(list) /\ Ascends(chan)
      /\ Older(ToSet(received) \cup ToSet(list), ToSet(chan))
      /\ \A n \in ToSet(received) \cup ToSet(list) : Behind(received, n)
  BY DEF InOrder
<1>2. PICK k \in 0..Len(list) : k = Take(list)
  BY <1>1, TakeIs
<1>3. PICK front, rest : front = SubSeq(list, 1, k) /\ rest = SubSeq(list, k + 1, Len(list))
  OBVIOUS
<1>4. /\ front \in Seq(Nat) /\ Len(front) = k /\ \A i \in 1..k : front[i] = list[i]
      /\ rest \in Seq(Nat) /\ Ascends(rest)
      /\ ToSet(list) = ToSet(front) \cup ToSet(rest)
  <2>1. Batched(list, k, front, rest)
    BY <1>1, <1>2, <1>3 DEF Batched
  <2> QED
    BY <2>1, BatchIs
<1>5. PICK all : all = received \o front
  OBVIOUS
<1>6. /\ all \in Seq(Nat) /\ ToSet(all) = ToSet(received) \cup ToSet(front)
      /\ \A n \in ToSet(received) \cup ToSet(list) : Behind(all, n)
  <2>1. Len(front) <= Len(list) /\ \A i \in 1..Len(front) : front[i] = list[i]
    BY <1>1, <1>4
  <2>2. Extended(received, list, front, all)
    BY <1>1, <1>4, <1>5, <2>1 DEF Extended
  <2> QED
    BY <2>2, BehindExtends
<1>7. PICK got, left : got = received' /\ left = pending'
  OBVIOUS
<1>8. /\ got = received \/ got = all
      /\ left = list \/ (left = rest /\ got = all)
  BY <1>2, <1>3, <1>5, <1>7 DEF Flushed, Unsent
<1>9. /\ got \in Seq(Nat) /\ left \in Seq(Nat) /\ Ascends(left)
      /\ ToSet(got) \cup ToSet(left) = ToSet(received) \cup ToSet(list)
      /\ \A n \in ToSet(received) \cup ToSet(list) : Behind(got, n)
  <2>1. CASE left = list /\ got = received
    BY <1>1, <2>1, Zenon
  <2>2. CASE left = list /\ got = all
    <3>1. ToSet(all) \cup ToSet(list) = ToSet(received) \cup ToSet(list)
      BY <1>4, <1>6, Zenon
    <3> QED
      BY <1>1, <1>6, <2>2, <3>1, Zenon
  <2>3. CASE left = rest /\ got = all
    <3>1. ToSet(all) \cup ToSet(rest) = ToSet(received) \cup ToSet(list)
      BY <1>4, <1>6, Zenon
    <3> QED
      BY <1>4, <1>6, <2>3, <3>1, Zenon
  <2> QED
    BY <1>8, <2>1, <2>2, <2>3
<1>10. InOrder(got, left, chan)
  BY <1>1, <1>9, Zenon DEF InOrder
<1> QED
  BY <1>7, <1>9, <1>10

\* Run takes the head of the channel.
Taken(list, chan, h, rest, more) ==
    chan # <<>> /\ h = Head(chan) /\ rest = Tail(chan) /\ more = Append(list, h)

\* The head of the channel is later than all before it, and earlier than the
\* rest.
LEMMA HeadIs ==
    ASSUME NEW got, NEW list, NEW chan, NEW h, NEW rest, NEW more,
           InOrder(got, list, chan), Taken(list, chan, h, rest, more)
    PROVE  /\ InOrder(got, list, rest) /\ InOrder(got, more, rest)
           /\ ToSet(chan) = ToSet(rest) \cup {h} /\ ToSet(more) = ToSet(list) \cup {h}
           /\ h \notin ToSet(got) \cup ToSet(list) \cup ToSet(rest)
<1>1. /\ got \in Seq(Nat) /\ list \in Seq(Nat) /\ chan \in Seq(Nat)
      /\ Ascends(list) /\ Ascends(chan)
      /\ Older(ToSet(got) \cup ToSet(list), ToSet(chan))
      /\ \A n \in ToSet(got) \cup ToSet(list) : Behind(got, n)
  BY DEF InOrder
<1>0. chan # <<>> /\ h = Head(chan) /\ rest = Tail(chan) /\ more = Append(list, h)
  BY DEF Taken
<1>2. h \in Nat /\ rest \in Seq(Nat) /\ ToSet(chan) = ToSet(rest) \cup {h}
  BY <1>0, <1>1, TailSet
<1>3. PICK z \in Nat : z = Len(chan) /\ DOMAIN chan = 1..z /\ z # 0
  BY <1>0, <1>1, EmptySeq
<1>4. /\ DOMAIN rest = 1..(z - 1) /\ h = chan[1]
      /\ \A i \in 1..(z - 1) : rest[i] = chan[i + 1]
  BY <1>0, <1>1, <1>3, HeadTailProperties
<1>5. \A i \in 1..(z - 1) : i + 1 \in 1..z /\ 1 < i + 1
  OBVIOUS
<1>6. Ascends(rest)
  <2>1. ASSUME NEW i \in 1..(z - 1), NEW k \in 1..(z - 1), i < k PROVE rest[i] < rest[k]
    <3>1. i + 1 < k + 1
      BY <2>1
    <3>2. chan[i + 1] < chan[k + 1]
      BY <1>1, <1>3, <1>5, <3>1 DEF Ascends
    <3> QED
      BY <1>4, <3>2
  <2> QED
    BY <1>4, <2>1 DEF Ascends
<1>7. Older({h}, ToSet(rest))
  <2>1. ASSUME NEW i \in 1..(z - 1) PROVE h < rest[i]
    <3>1. 1 \in 1..z
      BY <1>3
    <3>2. chan[1] < chan[i + 1]
      BY <1>1, <1>3, <1>5, <3>1 DEF Ascends
    <3> QED
      BY <1>4, <3>2
  <2> QED
    BY <1>4, <2>1 DEF Older, ToSet
<1>8. Older(ToSet(list), {h}) /\ Older(ToSet(got), {h})
  BY <1>1, <1>2, Zenon DEF Older
<1>9. more \in Seq(Nat) /\ Ascends(more) /\ ToSet(more) = ToSet(list) \cup {h}
  BY <1>0, <1>1, <1>2, <1>8, AppendIs
<1>10. Older(ToSet(got) \cup ToSet(list), ToSet(rest))
       /\ Older(ToSet(got) \cup ToSet(more), ToSet(rest))
  BY <1>1, <1>2, <1>7, <1>9, Zenon DEF Older
<1>11. Behind(got, h)
  <2>1. ASSUME NEW i \in DOMAIN got PROVE ~ (h < got[i])
    <3>1. got[i] \in ToSet(got) /\ got[i] \in Nat
      BY <1>1 DEF ToSet
    <3>2. got[i] < h
      BY <1>8, <3>1 DEF Older
    <3> QED
      BY <1>2, <3>1, <3>2
  <2> QED
    BY <2>1 DEF Behind
<1>12. InOrder(got, list, rest)
  BY <1>1, <1>2, <1>6, <1>10 DEF InOrder
<1>13. InOrder(got, more, rest)
  <2>1. \A n \in ToSet(got) \cup ToSet(more) : Behind(got, n)
    BY <1>1, <1>9, <1>11
  <2> QED
    BY <1>1, <1>2, <1>6, <1>9, <1>10, <2>1 DEF InOrder
<1>14. h \notin ToSet(got) \cup ToSet(list) \cup ToSet(rest)
  <2>1. ~ (h < h)
    BY <1>2
  <2> QED
    BY <1>7, <1>8, <2>1, Zenon DEF Older
<1> QED
  BY <1>2, <1>9, <1>12, <1>13, <1>14

\* Every step of the client of Central keeps its invariant.
LEMMA CentralKept ==
    ASSUME CentralInv, [CentralNext]_centralVars
    PROVE  CentralInv'
<1>1. /\ handed \in Nat /\ given \subseteq 1..handed
      /\ InOrder(received, pending, queue)
      /\ Accounted(ToSet(received) \cup ToSet(pending) \cup ToSet(queue))
  BY DEF CentralInv
<1>2. received \in Seq(Nat) /\ pending \in Seq(Nat) /\ queue \in Seq(Nat) /\ Ascends(queue)
  BY <1>1 DEF InOrder
<1>3. ASSUME UNCHANGED <<queue, pending, received, handed, given>> PROVE CentralInv'
  BY <1>1, <1>3 DEF CentralInv, InOrder, Accounted, Ascends, Older, Behind
<1>4. CASE Handed
  <2>1. PICK n : n = handed + 1
    OBVIOUS
  <2>2. n \in Nat /\ 1..n = (1..handed) \cup {n} /\ \A i \in 1..handed : i < n
    BY <1>1, <2>1
  <2>3. UNCHANGED <<pending, received>> /\ handed' = n
    BY <1>4, <2>1 DEF Handed
  <2>4. n \notin given /\ n \notin 1..handed
    BY <1>1, <2>1
  <2>5. CASE queue' = Append(queue, n) /\ UNCHANGED given
    <3>1. PICK more : more = queue' /\ more = Append(queue, n)
      BY <2>5
    <3>2. Older(ToSet(received) \cup ToSet(pending) \cup ToSet(queue), {n})
      BY <1>1, <2>2 DEF Accounted, Older
    <3>3. more \in Seq(Nat) /\ Ascends(more) /\ ToSet(more) = ToSet(queue) \cup {n}
      <4>1. Older(ToSet(queue), {n})
        BY <3>2 DEF Older
      <4> QED
        BY <1>2, <2>2, <3>1, <4>1, AppendIs
    <3>4. Older(ToSet(received) \cup ToSet(pending), ToSet(more))
      BY <1>1, <3>2, <3>3, Zenon DEF InOrder, Older
    <3>5. InOrder(received, pending, more)
      BY <1>1, <3>3, <3>4 DEF InOrder
    <3>6. ToSet(received) \cup ToSet(pending) \cup ToSet(more) = (1..n) \ given
      BY <1>1, <2>2, <2>4, <3>3 DEF Accounted
    <3>7. given \subseteq 1..n
      BY <1>1, <2>2
    <3> QED
      BY <2>2, <2>3, <2>5, <3>1, <3>5, <3>6, <3>7 DEF CentralInv, Accounted
  <2>6. CASE given' = given \cup {n} /\ UNCHANGED queue
    <3>1. (1..n) \ given' = (1..handed) \ given /\ given' \subseteq 1..n
      BY <1>1, <2>2, <2>4, <2>6
    <3> QED
      BY <1>1, <2>2, <2>3, <2>6, <3>1 DEF CentralInv, Accounted
  <2> QED
    BY <1>4, <2>1, <2>5, <2>6 DEF Handed
<1>5. CASE Register
  BY <1>3, <1>5 DEF Register
<1>6. CASE TakeQueued
  <2>1. PICK h, rest, more : h = Head(queue) /\ rest = Tail(queue) /\ more = Append(pending, h)
    OBVIOUS
  <2>2. /\ InOrder(received, pending, rest) /\ InOrder(received, more, rest)
        /\ ToSet(queue) = ToSet(rest) \cup {h} /\ ToSet(more) = ToSet(pending) \cup {h}
        /\ h \notin ToSet(received) \cup ToSet(pending) \cup ToSet(rest)
    <3>1. Taken(pending, queue, h, rest, more)
      BY <1>6, <2>1 DEF TakeQueued, Taken
    <3> QED
      BY <1>1, <2>1, <3>1, HeadIs
  <2>3. queue' = rest /\ UNCHANGED handed
    BY <1>6, <2>1 DEF TakeQueued
  <2>4. CASE given' = given \cup {h} /\ UNCHANGED <<pending, received>>
    <3>1. ToSet(received) \cup ToSet(pending) \cup ToSet(rest) = (1..handed) \ given'
      BY <1>1, <2>2, <2>4 DEF Accounted
    <3>2. given' \subseteq 1..handed
      BY <1>1, <2>2, <2>4 DEF Accounted
    <3> QED
      BY <1>1, <2>2, <2>3, <2>4, <3>1, <3>2 DEF CentralInv, Accounted
  <2>5. CASE Flushed(more) /\ UNCHANGED given
    <3>1. /\ InOrder(received, pending, rest)'
          /\ ToSet(received)' \cup ToSet(pending)' = ToSet(received) \cup ToSet(more)
      BY <2>2, <2>5, FlushedKept
    <3> QED
      BY <1>1, <2>2, <2>3, <2>5, <3>1 DEF CentralInv, Accounted
  <2>6. CASE pending' = more /\ UNCHANGED <<received, given>>
    BY <1>1, <2>2, <2>3, <2>6 DEF CentralInv, Accounted
  <2> QED
    BY <1>6, <2>1, <2>4, <2>5, <2>6 DEF TakeQueued
<1>7. CASE Flush
  <2>1. /\ InOrder(received, pending, queue)'
        /\ ToSet(received)' \cup ToSet(pending)' = ToSet(received) \cup ToSet(pending)
    BY <1>1, <1>7, FlushedKept DEF Flush
  <2> QED
    BY <1>1, <1>7, <2>1 DEF Flush, CentralInv, Accounted
<1>8. CASE Heartbeat
  BY <1>3, <1>8 DEF Heartbeat
<1>9. CASE CentralNew
  <2>1. PICK none : none = <<>> /\ none \in Seq(Nat) /\ DOMAIN none = {} /\ ToSet(none) = {}
    <3>1. <<>> \in Seq(Nat) /\ DOMAIN <<>> = {} /\ ToSet(<<>>) = {}
      BY DEF ToSet
    <3> QED
      BY <3>1
  <2>2. queue' = none /\ pending' = none /\ UNCHANGED <<received, handed>>
        /\ given' = given \cup ((ToSet(queue) \cup ToSet(pending)) \ ToSet(received))
    BY <1>9, <2>1 DEF CentralNew
  <2>3. InOrder(received, none, none)
    BY <1>1, <2>1 DEF InOrder, Ascends, Older
  <2>4. given' \subseteq 1..handed /\ ToSet(received) = (1..handed) \ given'
    BY <1>1, <2>2 DEF Accounted
  <2> QED
    BY <1>1, <2>1, <2>2, <2>3, <2>4 DEF CentralInv, Accounted
<1>10. CASE UNCHANGED centralVars
  BY <1>3, <1>10 DEF centralVars
<1> QED
  BY <1>4, <1>5, <1>6, <1>7, <1>8, <1>9, <1>10 DEF CentralNext

\* The invariant of the client of Central holds at first.
LEMMA CentralStarts == CentralInit => CentralInv
<1>1. PICK none : none = <<>> /\ none \in Seq(Nat) /\ DOMAIN none = {} /\ ToSet(none) = {}
  <2>1. <<>> \in Seq(Nat) /\ DOMAIN <<>> = {} /\ ToSet(<<>>) = {}
    BY DEF ToSet
  <2> QED
    BY <2>1
<1>2. InOrder(none, none, none)
  BY <1>1 DEF InOrder, Ascends, Older, Behind
<1>3. 1..0 = {}
  OBVIOUS
<1> QED
  BY <1>1, <1>2, <1>3 DEF CentralInit, CentralInv, Accounted

\* The invariant says that Central has what it has in order.
LEMMA InvIsInOrder ==
    ASSUME CentralInv
    PROVE  CentralInOrder
<1>1. /\ received \in Seq(Nat) /\ pending \in Seq(Nat) /\ queue \in Seq(Nat)
      /\ Ascends(pending) /\ Ascends(queue)
      /\ Older(ToSet(received) \cup ToSet(pending), ToSet(queue))
      /\ \A n \in ToSet(received) \cup ToSet(pending) : Behind(received, n)
      /\ Accounted(ToSet(received) \cup ToSet(pending) \cup ToSet(queue))
  BY DEF CentralInv, InOrder
<1>2. PICK some : some = received \o pending
  OBVIOUS
<1>3. /\ some \in Seq(Nat) /\ ToSet(some) = ToSet(received) \cup ToSet(pending)
      /\ \A n \in ToSet(received) \cup ToSet(pending) : Behind(some, n)
  <2>1. Extended(received, pending, pending, some)
    BY <1>1, <1>2 DEF Extended
  <2> QED
    BY <2>1, BehindExtends
<1>4. \A n \in ToSet(queue) : Behind(some, n)
  <2>1. ASSUME NEW n \in ToSet(queue), NEW i \in DOMAIN some PROVE ~ (n < some[i])
    <3>1. some[i] \in ToSet(some) /\ some[i] \in Nat
      BY <1>3 DEF ToSet
    <3>2. some[i] < n
      BY <1>1, <1>3, <3>1 DEF Older
    <3>3. n \in Nat
      BY <1>1 DEF ToSet
    <3> QED
      BY <3>1, <3>2, <3>3
  <2> QED
    BY <2>1 DEF Behind
<1>5. PICK all : all = some \o queue
  OBVIOUS
<1>6. /\ all \in Seq(Nat) /\ ToSet(all) = ToSet(some) \cup ToSet(queue)
      /\ \A n \in ToSet(some) \cup ToSet(queue) : Behind(all, n)
  <2>1. Extended(some, queue, queue, all)
    BY <1>1, <1>3, <1>4, <1>5 DEF Extended
  <2> QED
    BY <2>1, BehindExtends
<1>7. all = received \o pending \o queue
  BY <1>2, <1>5
<1>8. ToSet(all) = (1..handed) \ given
  BY <1>1, <1>3, <1>6 DEF Accounted
<1>9. \A i \in DOMAIN all, n \in ToSet(all) : n < all[i] => \E h \in 1..(i - 1) : all[h] = n
  BY <1>6 DEF Behind
<1> QED
  BY <1>7, <1>8, <1>9, Zenon DEF CentralInOrder

\* The invariant of the client of Central, in every state of the host.
LEMMA CentralInvariant == HostSpec => []CentralInv
<1>1. HostInit => CentralInv
  BY CentralStarts DEF HostInit
<1>2. ASSUME CentralInv, [HostNext]_hostVars PROVE CentralInv'
  <2>1. [CentralNext]_centralVars
    BY <1>2 DEF HostNext, hostVars
  <2> QED
    BY <1>2, <2>1, CentralKept
<1> QED
  BY <1>1, <1>2, PTL DEF HostSpec

(***************************************************************************)
(* Central gets what was handed over in that order, repetitions aside, and *)
(* all of it but what was given up, for queues and batches of any size and *)
(* any number of lost answers, refusals and restarts.                      *)
(***************************************************************************)
THEOREM CentralInOrderAlways == HostSpec => []CentralInOrder
<1>1. CentralInv => CentralInOrder
  BY InvIsInOrder
<1> QED
  BY <1>1, CentralInvariant, PTL

-----------------------------------------------------------------------------
(***************************************************************************)
(* The state of the tools and of the runtime keeps its types; a worker has *)
(* events and findings only while it is about to use them, and a tool      *)
(* holds a file only during its call.                                      *)
(***************************************************************************)
THEOREM HostTypeCorrect == HostSpec => []HostTypeOK
<1>1. ASSUME RuntimeInv PROVE RuntimeTypes
  <2>1. JobInv /\ JournalTypes /\ TailTypes /\ OffsetShape /\ DriftTypes
    BY <1>1 DEF RuntimeInv, JournalInv, TailInv, DriftInv
  <2>2. ASSUME NEW w \in Worker
        PROVE  /\ job[w].pc = "ready" => job[w].rest = <<>>
               /\ job[w].pc \in {"event", "inspect", "findings", "save"} => job[w].rest # <<>>
               /\ job[w].todo # {} => up /\ job[w].pc = "findings"
    BY <2>1, WorkersAre, InHand DEF WorkerShape
  <2>3. offset.at \in 0..(2 * MaxLines)
    BY <2>1, FileTailAssumption DEF TailTypes, OffsetShape
  <2> QED
    BY <2>1, <2>2, <2>3 DEF RuntimeTypes, JobInv, JournalTypes, TailTypes, DriftTypes
<1> QED
  BY <1>1, RuntimeInvariant, ToolsTypesAlways, PTL DEF HostTypeOK

=============================================================================
