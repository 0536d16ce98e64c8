---------------------------- MODULE ReplayLedger ----------------------------
(***************************************************************************)
(* The Agent's response replay ledger                                      *)
(* (agent/internal/responseexec/ledger.go): a map from action IDs to       *)
(* entries, kept in memory and rewritten as one signed file on every       *)
(* change.  Begin persists the intent to execute before the action runs,   *)
(* Complete persists its terminal result.  The file is replaced by the     *)
(* steps of replaceLedgerFile: write path.new, move path to path.bak, move *)
(* path.new to path, delete path.bak.  The process may crash between any   *)
(* two of these steps, and each file operation may fail.                   *)
(*                                                                         *)
(* The ledger's mutex is held for a whole call, so at most one call is in  *)
(* progress; its file steps are nevertheless separate actions because a    *)
(* crash can fall between them.  The signature over the file is abstracted *)
(* away: nobody but the Agent writes these files.                          *)
(***************************************************************************)
EXTENDS Naturals, FiniteSets

CONSTANTS ActionID,          \* IDs of response actions
          Digest,            \* policy action digests
          Result,            \* terminal result documents
          MaxLedgerEntries,  \* maxLedgerEntries in the code (4096)
          MaxClock,          \* bound: the clock stops here
          Absent,            \* "no such file"
          NoResult           \* the result of an entry that is only started

VARIABLES
    entries,   \* Ledger.entries, the map in memory
    path,      \* the ledger file, or Absent
    fresh,     \* path.new while a save is in progress; a leftover is never read
    bak,       \* path.bak, or Absent
    saving,    \* next step of replaceLedgerFile, "idle" outside saveLocked
    call,      \* the Begin or Complete that is saving
    reply,     \* outcome of the last call
    up,        \* the Agent process is running
    clock,     \* time.Now()
    \* history variables
    granted,   \* IDs for which Begin has allowed execution
    regranted, \* IDs for which it has done so more than once
    pruned,    \* IDs deleted by pruneLocked
    installed, \* a ledger file has been installed at least once
    lost       \* a crash found no file under the ledger's name after that

diskVars == <<path, fresh, bak>>
histVars == <<granted, regranted, pruned, installed, lost>>
ledgerVars == <<entries, path, fresh, bak, saving, call, reply, up, clock,
                granted, regranted, pruned, installed, lost>>

-----------------------------------------------------------------------------
NoCall == [op |-> "none"]

LedgerEntry ==
    [digest : Digest, status : {"started", "completed"},
     at : 0 .. MaxClock, result : Result \cup {NoResult}]

EmptyLedger == [i \in {} |-> NoResult]

Ledgers == UNION {[S -> LedgerEntry] : S \in SUBSET ActionID}

ASSUME LedgerAssumption == /\ MaxLedgerEntries \in Nat
                           /\ MaxClock \in Nat
                           /\ Absent \notin Ledgers

Call == {NoCall} \cup [op : {"begin", "complete"}, id : ActionID]

Replies == {"none", "go", "replay", "indeterminate", "conflict", "ok", "error"}

\* A crash leaves the ledger "vacant" when no file has its name although one had.
Vacant == installed /\ path = Absent

-----------------------------------------------------------------------------
LedgerInit ==
    /\ entries = EmptyLedger
    /\ path = Absent /\ fresh = EmptyLedger /\ bak = Absent
    /\ saving = "idle" /\ call = NoCall /\ reply = "none"
    /\ up = TRUE /\ clock = 0
    /\ granted = {} /\ regranted = {} /\ pruned = {}
    /\ installed = FALSE /\ lost = FALSE

Completed(es) == {i \in DOMAIN es : es[i].status = "completed"}

Without(es, D) == [i \in DOMAIN es \ D |-> es[i]]

Set(es, id, e) == [i \in DOMAIN es \cup {id} |-> IF i = id THEN e ELSE es[i]]

\* pruneLocked: the sets of entries it may delete.  Only completed entries are
\* candidates, earliest completion first, until the map fits or none is left.
\* sort.Slice is not stable: ties are broken arbitrarily.
PruneSets(es) ==
    LET done   == Completed(es)
        size   == Cardinality(DOMAIN es)
        excess == IF size <= MaxLedgerEntries THEN 0 ELSE size - MaxLedgerEntries
        count  == IF excess <= Cardinality(done) THEN excess ELSE Cardinality(done)
    IN  {D \in SUBSET done :
            /\ Cardinality(D) = count
            /\ \A d \in D, c \in done \ D : es[d].at <= es[c].at}

Idle == up /\ saving = "idle"

\* Begin for an ID the ledger knows: nothing is written.
BeginKnown(id, d) ==
    /\ Idle
    /\ id \in DOMAIN entries
    /\ reply' = CASE entries[id].digest # d            -> "conflict"
                  [] entries[id].digest = d
                     /\ entries[id].status = "completed" -> "replay"
                  [] OTHER                               -> "indeterminate"
    /\ UNCHANGED <<entries, diskVars, saving, call, up, clock, histVars>>

\* Begin for a new ID: record "started", prune, then save.
BeginNew(id, d) ==
    /\ Idle
    /\ id \notin DOMAIN entries
    /\ LET es == Set(entries, id, [digest |-> d, status |-> "started",
                                   at |-> clock, result |-> NoResult])
       IN \E D \in PruneSets(es) :
            /\ entries' = Without(es, D)
            /\ pruned' = pruned \cup D
    /\ call' = [op |-> "begin", id |-> id]
    /\ saving' = "write"
    /\ reply' = "none"
    /\ UNCHANGED <<diskVars, up, clock, granted, regranted, installed, lost>>

Begin(id, d) == BeginKnown(id, d) \/ BeginNew(id, d)

\* Mutant of Started: Complete no longer refuses a second result.
StartedOrDone(id, d) ==
    /\ id \in DOMAIN entries
    /\ entries[id].digest = d

Started(id, d) ==
    /\ id \in DOMAIN entries
    /\ entries[id].digest = d
    /\ entries[id].status = "started"

\* Complete when nothing is to be written: unknown ID, another digest, or
\* an entry that already has a terminal result.
CompleteKnown(id, d, r) ==
    /\ Idle
    /\ ~ Started(id, d)
    /\ reply' = IF /\ id \in DOMAIN entries
                   /\ entries[id].digest = d
                   /\ entries[id].result = r
                THEN "ok" ELSE "error"
    /\ UNCHANGED <<entries, diskVars, saving, call, up, clock, histVars>>

\* Complete of a started action: the result is set in memory, then saved.
CompleteNew(id, d, r) ==
    /\ Idle
    /\ Started(id, d)
    /\ entries' = [entries EXCEPT ![id] = [digest |-> d, status |-> "completed",
                                           at |-> clock, result |-> r]]
    /\ call' = [op |-> "complete", id |-> id]
    /\ saving' = "write"
    /\ reply' = "none"
    /\ UNCHANGED <<diskVars, up, clock, histVars>>

Complete(id, d, r) == CompleteKnown(id, d, r) \/ CompleteNew(id, d, r)

-----------------------------------------------------------------------------
(***************************************************************************)
(* saveLocked and replaceLedgerFile.                                       *)
(***************************************************************************)

\* The caller's code after saveLocked returned nil.
SaveOK ==
    /\ reply' = IF call.op = "begin" THEN "go" ELSE "ok"
    /\ granted' = IF call.op = "begin" THEN granted \cup {call.id} ELSE granted
    /\ regranted' = IF call.op = "begin" /\ call.id \in granted
                    THEN regranted \cup {call.id} ELSE regranted
    /\ saving' = "idle" /\ call' = NoCall
    /\ UNCHANGED <<entries, pruned>>

\* Mutants of SaveFailed: the error is ignored; Complete takes its entry back as
\* Begin does; the call is not ended.
SaveErrorIgnored == SaveOK

SaveFailedForgets ==
    /\ reply' = "error"
    /\ entries' = Without(entries, {call.id})
    /\ saving' = "idle" /\ call' = NoCall
    /\ UNCHANGED <<granted, regranted, pruned>>

SaveFailedCallKept ==
    /\ reply' = "error"
    /\ saving' = "idle"
    /\ UNCHANGED <<entries, call, granted, regranted, pruned>>

\* ... and after it returned an error: Begin removes the entry it had added
\* (not restoring what it pruned); Complete leaves the result in memory.
SaveFailed ==
    /\ reply' = "error"
    /\ entries' = IF call.op = "begin" THEN Without(entries, {call.id}) ELSE entries
    /\ saving' = "idle" /\ call' = NoCall
    /\ UNCHANGED <<granted, regranted, pruned>>

\* Write path.new.
SaveWrite(ok) ==
    /\ up /\ saving = "write"
    /\ IF ok
       THEN /\ fresh' = entries
            /\ saving' = "rotate"
            /\ UNCHANGED <<entries, call, reply, granted, regranted, pruned>>
       ELSE SaveFailed /\ fresh' = EmptyLedger
    /\ UNCHANGED <<path, bak, up, clock, installed, lost>>

\* Remove an old path.bak and, if path exists, rename it to path.bak.
SaveRotate(ok) ==
    /\ up /\ saving = "rotate"
    /\ IF ok \/ path = Absent
       THEN /\ bak' = path
            /\ path' = Absent
            /\ saving' = "install"
            /\ UNCHANGED <<fresh, entries, call, reply, granted, regranted, pruned>>
       ELSE SaveFailed /\ bak' = Absent /\ fresh' = EmptyLedger /\ UNCHANGED path
    /\ UNCHANGED <<up, clock, installed, lost>>

\* Rename path.new to path; on failure try to put path.bak back, whose own
\* error is ignored.
SaveInstall(ok, restored) ==
    /\ up /\ saving = "install"
    /\ IF ok
       THEN /\ path' = fresh
            /\ installed' = TRUE
            /\ saving' = "clean"
            /\ UNCHANGED <<bak, entries, call, reply, granted, regranted, pruned>>
       ELSE /\ SaveFailed
            /\ IF restored THEN path' = bak /\ bak' = Absent
                           ELSE UNCHANGED <<path, bak>>
            /\ UNCHANGED installed
    /\ fresh' = EmptyLedger
    /\ UNCHANGED <<up, clock, lost>>

\* Remove path.bak and set the mode of path; the result of chmod is returned.
SaveClean(ok) ==
    /\ up /\ saving = "clean"
    /\ bak' = Absent
    /\ IF ok THEN SaveOK ELSE SaveFailed
    /\ UNCHANGED <<path, fresh, up, clock, installed, lost>>

Save == \E ok \in BOOLEAN :
          \/ SaveWrite(ok)
          \/ SaveRotate(ok)
          \/ \E restored \in BOOLEAN : SaveInstall(ok, restored)
          \/ SaveClean(ok)

-----------------------------------------------------------------------------
\* The process dies: memory is gone, the files stay as they are.
Crash ==
    /\ up
    /\ up' = FALSE
    /\ entries' = EmptyLedger
    /\ fresh' = EmptyLedger
    /\ saving' = "idle" /\ call' = NoCall /\ reply' = "none"
    /\ lost' = (lost \/ Vacant)
    /\ UNCHANGED <<path, bak, clock, granted, regranted, pruned, installed>>

\* OpenLedger and load: a missing file is an empty ledger; path.bak is not read.
Restart ==
    /\ ~up
    /\ up' = TRUE
    /\ entries' = IF path = Absent THEN EmptyLedger ELSE path
    /\ UNCHANGED <<diskVars, saving, call, reply, clock, histVars>>

Tick ==
    /\ clock < MaxClock
    /\ clock' = clock + 1
    /\ UNCHANGED <<entries, diskVars, saving, call, reply, up, histVars>>

LedgerNext ==
    \/ \E id \in ActionID, d \in Digest :
          \/ Begin(id, d)
          \/ \E r \in Result : Complete(id, d, r)
    \/ Save
    \/ Crash
    \/ Restart
    \/ Tick

LedgerSpec == LedgerInit /\ [][LedgerNext]_ledgerVars

-----------------------------------------------------------------------------
(***************************************************************************)
(* Properties.                                                             *)
(***************************************************************************)

LedgerTypeOK ==
    /\ entries \in Ledgers
    /\ path \in Ledgers \cup {Absent}
    /\ fresh \in Ledgers
    /\ bak \in Ledgers \cup {Absent}
    /\ saving \in {"idle", "write", "rotate", "install", "clean"}
    /\ call \in Call
    /\ (call = NoCall) <=> (saving = "idle")
    /\ reply \in Replies
    /\ up \in BOOLEAN
    /\ clock \in 0 .. MaxClock
    /\ granted \subseteq ActionID
    /\ regranted \subseteq ActionID
    /\ pruned \subseteq ActionID
    /\ installed \in BOOLEAN
    /\ lost \in BOOLEAN

(***************************************************************************)
(* Begin never lets an action run twice ("the action becomes indeterminate *)
(* and is not executed again on restart", ledger.go:55-57), except in two  *)
(* cases, both named by a history variable: pruneLocked had deleted its    *)
(* completed entry, or the process died while no file carried the ledger's *)
(* name, between the two renames of replaceLedgerFile (or after both the   *)
(* second rename and the restoring one failed).                            *)
(***************************************************************************)
NoSecondGrant == regranted \subseteq pruned \/ lost

(***************************************************************************)
(* What Begin knows of an action it has allowed survives a crash at this   *)
(* very moment: unless a crash has already lost the ledger or would find   *)
(* its name vacant, the file a restart reads has an entry for every action *)
(* ever granted and not pruned.                                            *)
(***************************************************************************)
GrantsAreDurable ==
    \/ lost \/ path = Absent
    \/ granted \ pruned \subseteq DOMAIN path

(***************************************************************************)
(* The inductive invariant behind the two above.  Unless the ledger was    *)
(* lost, every granted and unpruned action is known to each copy a crash,  *)
(* a restart or the rest of a save can make current: the map in memory,    *)
(* the file, the file about to be installed and the backup a failed        *)
(* install puts back.  The action whose Begin is saving is not one of them *)
(* (Begin found no entry), and it is in everything this save writes.       *)
(***************************************************************************)
KnownGrants == granted \ pruned

GrantsEverywhere ==
    \/ lost
    \/ /\ up => KnownGrants \subseteq DOMAIN entries
       /\ path # Absent => KnownGrants \subseteq DOMAIN path
       /\ saving \in {"rotate", "install"} => KnownGrants \subseteq DOMAIN fresh
       /\ saving = "install" /\ bak # Absent => KnownGrants \subseteq DOMAIN bak
       /\ call.op = "begin" => call.id \notin KnownGrants

SaveWritesTheCall ==
    call.op = "begin" =>
        /\ call.id \in DOMAIN entries
        /\ saving \in {"rotate", "install"} => call.id \in DOMAIN fresh
        /\ saving = "clean" => call.id \in DOMAIN path

FileIsNamed ==
    /\ ~up => saving = "idle"
    /\ granted # {} => installed
    /\ saving = "clean" => installed /\ path # Absent
    /\ ~up /\ installed /\ ~lost => path # Absent

LedgerIInv == /\ LedgerTypeOK
              /\ GrantsEverywhere
              /\ SaveWritesTheCall
              /\ FileIsNamed
              /\ NoSecondGrant

(***************************************************************************)
(* A terminal result never changes while the process runs: the entry of a  *)
(* completed action stays as it is in memory until it is pruned            *)
(* (ledger.go:96-101 refuses a different result), whatever saves fail.     *)
(***************************************************************************)
ResultsAreFinal ==
    [][\A id \in Completed(entries) :
          up' => (id \in DOMAIN entries' /\ entries'[id] = entries[id])
                 \/ id \in pruned']_ledgerVars

(***************************************************************************)
(* The unconditional claim of the comment at ledger.go:55 and of           *)
(* docs/RESPONSE-BROKER.md: no action is ever allowed to run twice.        *)
(***************************************************************************)
NeverExecutedAgain == regranted = {}

=============================================================================
