---------------------------- MODULE AgentRuntime ----------------------------
(***************************************************************************)
(* The runtime of the Agent (agent/internal/agent/runtime.go): its main    *)
(* loop polls the log files and collects the inventory, and the local API  *)
(* ingests events beside it.  All three go through process, which writes   *)
(* the event to the journal, asks the detection rules, writes their        *)
(* findings and queues the event for the Control Plane.                    *)
(*                                                                         *)
(* process is not atomic: each Append is a step, and the process may die   *)
(* in any of them.  Findings are those of the inventory drift rule, the    *)
(* one rule that compares an event with an earlier one.  Native sources,   *)
(* polled after the files, and the outbox are in module Telemetry.         *)
(***************************************************************************)
EXTENDS Journal, FileTail, InventoryDrift

CONSTANTS Setups,        \* Agents: the sources they have, what their hosts may
                         \* have at first, and a bound on their faults, which
                         \* are errors, crashes and shutdowns
          Posted,        \* the item sets of inventories posted to the API
          MaxRuns,       \* bound: inventories collected
          MaxIngests     \* bound: events posted to the API

ASSUME RuntimeAssumption ==
    /\ Setups \subseteq [sources : SUBSET {"files", "inventory", "api"},
                       hosts : SUBSET SUBSET Item, faults : Nat]
    /\ Posted \subseteq SUBSET Item /\ {MaxRuns, MaxIngests} \subseteq Nat

VARIABLES setup,       \* this Agent
          up,          \* the process runs
          job,         \* what the main loop and the API handler are doing
          inventoried, \* lastInventoryNano is set
          dropped,     \* history: lines that were read and not processed
          faults, runs, ingests

\* What most steps leave alone.
fixed == <<setup, inventoried>>
workVars == <<fixed, up, job, dropped, faults, runs, ingests>>
runtimeVars == <<journalVars, tailVars, driftVars, workVars>>

Worker == {"main", "api"}

\* A worker's stage is where the main loop is; pc is where it is in that
\* stage; rest the events still to process, todo the findings to record.
Ready(stage) == [stage |-> stage, pc |-> "ready", rest |-> <<>>, todo |-> {}]

RuntimeInit ==
    /\ JournalInit /\ TailInit /\ DriftInit
    /\ setup \in Setups /\ present \in setup.hosts /\ inventoried = FALSE
    /\ "files" \notin setup.sources => source.fromStart /\ source.plain
    /\ up = FALSE /\ job = [w \in Worker |-> Ready("off")] /\ dropped = {}
    /\ faults = 0 /\ runs = 0 /\ ingests = 0

\* collectInventory and poll once, then poll and collectInventory at each tick.
After == [start |-> "first", first |-> "poll1", poll1 |-> "poll", poll |-> "inventory",
          inventory |-> "poll", serve |-> "serve"]

\* Mutant of Proceed: the events of the last stage are kept.
ProceedUncleared(w) ==
    job' = [job EXCEPT ![w].stage = After[job[w].stage], ![w].pc = "ready"]

Proceed(w) == job' = [job EXCEPT ![w] = Ready(After[job[w].stage])]

Enter(w, pc, rest, todo) ==
    job' = [job EXCEPT ![w].pc = pc, ![w].rest = rest, ![w].todo = todo]

\* The events that are left, or the next stage.
Continue(w, rest) == IF rest = <<>> THEN Proceed(w) ELSE Enter(w, "event", rest, {})

AtPoint(w, stages, pc) == up /\ job[w].stage \in stages /\ job[w].pc = pc

Fault == faults < setup.faults /\ faults' = faults + 1

LinesOf(events) == {e[2] : e \in {e \in ToSet(events) : e[1] \in {"event", "fragment"}}}

\* What an event is in the journal.
Body(e) == IF e[1] = "inventory" THEN <<"inventory", "host">> ELSE e

-----------------------------------------------------------------------------
(***************************************************************************)
(* Start and end of the process.                                           *)
(***************************************************************************)
\* New: the journal is verified, the baseline seeds the drift rule.
StartAgent ==
    /\ ~up /\ up' = TRUE /\ inventoried' = FALSE
    /\ OpenJournal /\ Seed
    /\ job' = [job EXCEPT !["main"] = Ready("start")]
    /\ UNCHANGED <<lines, torn, scarred, tailVars, present, changes, baseline, accepted,
                   setup, dropped, faults, runs, ingests>>

\* Run begins with a record; the API is served from then on.
Started ==
    /\ AtPoint("main", {"start"}, "ready")
    /\ Appended(<<"agent", "start">>)
    /\ job' = [main |-> Ready("first"), api |-> Ready("serve")]
    /\ UNCHANGED <<fixed, tailVars, driftVars, up, dropped, faults, runs, ingests>>

\* What the process was writing when it died.
Writing ==
    {Body(Head(job[w].rest)) : w \in {v \in Worker : job[v].pc = "event"}}
      \cup (UNION {{<<"finding", f>> : f \in job[w].todo} : w \in Worker})
      \cup (IF job["main"].stage = "start" THEN {<<"agent", "start">>} ELSE {})
      \cup (IF job["main"].pc = "report" THEN {<<"error", "collector">>} ELSE {})

\* Findings of a posted snapshot are lost with the process: the baseline may
\* have been saved with a snapshot that was compared with the posted one.
ProcessEnds ==
    /\ Fault
    /\ up' = FALSE /\ job' = [w \in Worker |-> Ready("off")]
    /\ dropped' = dropped \cup LinesOf(job["main"].rest)
    /\ accepted' = accepted \cup UNION job["api"].todo
    /\ TailerNew
    /\ UNCHANGED <<fixed, missed, head, present, changes, previous, baseline, runs, ingests>>

\* The process dies, or Run returns because its first record was not written.
Crash ==
    /\ up /\ ProcessEnds
    /\ \/ UNCHANGED <<lines, torn, scarred>>
       \/ \E body \in Writing : DiesInAppend(body)

\* The context is cancelled: a last record, and Run returns.
Stop ==
    /\ AtPoint("main", {"poll"}, "ready") /\ ProcessEnds
    /\ \/ DiesInAppend(<<"agent", "stop">>)
       \/ UNCHANGED <<lines, torn, scarred>>

-----------------------------------------------------------------------------
(***************************************************************************)
(* process.  An error of it drops a line and is an error report for the    *)
(* inventory; the caller of the API gets an error.                         *)
(***************************************************************************)
Event(w) == Head(job[w].rest)

Failed(w) ==
    /\ dropped' = IF job[w].pc = "event" THEN dropped \cup LinesOf(<<Event(w)>>) ELSE dropped
    /\ IF job[w].stage \in {"first", "inventory"} THEN Enter(w, "report", <<>>, {})
       ELSE Continue(w, Tail(job[w].rest))

\* Append of the event.
RecordEvent(w) ==
    /\ up /\ job[w].pc = "event"
    /\ Appended(Body(Event(w)))
    /\ Enter(w, "inspect", job[w].rest, {})
    /\ UNCHANGED <<fixed, tailVars, driftVars, up, dropped, faults, runs, ingests>>

Inspect(w) ==
    /\ up /\ job[w].pc = "inspect"
    /\ IF Event(w)[1] = "inventory"
       THEN \E found \in Findings(Event(w)[2]) :
                Evaluate(Event(w)[2], found) /\ Enter(w, "findings", job[w].rest, found)
       ELSE Enter(w, "findings", job[w].rest, {}) /\ UNCHANGED driftVars
    /\ UNCHANGED <<fixed, journalVars, tailVars, up, dropped, faults, runs, ingests>>

RecordFinding(w) ==
    /\ up /\ job[w].pc = "findings"
    /\ \E f \in job[w].todo :
          Appended(<<"finding", f>>) /\ Enter(w, "findings", job[w].rest, job[w].todo \ {f})
    /\ UNCHANGED <<fixed, tailVars, driftVars, up, dropped, faults, runs, ingests>>

\* An Append of either kind fails.
RecordFails(w) ==
    /\ up /\ Fault
    /\ \/ job[w].pc = "event" /\ AppendFailed(Body(Event(w))) /\ UNCHANGED driftVars
       \/ /\ job[w].pc = "findings"
          /\ \E f \in job[w].todo : AppendFailed(<<"finding", f>>)
          /\ Unrecorded(job[w].todo)
    /\ Failed(w)
    /\ UNCHANGED <<fixed, tailVars, up, runs, ingests>>

\* What follows the queueing of the event.
Processed(w, queued) ==
    IF ~queued THEN Failed(w)
    ELSE /\ IF job[w].stage \in {"first", "inventory"} THEN Enter(w, "save", job[w].rest, {})
            ELSE Continue(w, Tail(job[w].rest))
         /\ UNCHANGED dropped

\* Enqueue to the outbox, which may fail.
Queue(w) ==
    /\ up /\ job[w].pc = "findings" /\ job[w].todo = {}
    /\ \/ Processed(w, TRUE) /\ UNCHANGED faults
       \/ Fault /\ Processed(w, FALSE)
    /\ UNCHANGED <<fixed, journalVars, tailVars, driftVars, up, runs, ingests>>

-----------------------------------------------------------------------------
(***************************************************************************)
(* The main loop and the API.                                              *)
(***************************************************************************)
\* recordCollectorError: what Append returns is not looked at.
Report ==
    /\ up /\ job["main"].pc = "report"
    /\ \/ Appended(<<"error", "collector">>) /\ UNCHANGED faults
       \/ Fault /\ AppendFailed(<<"error", "collector">>)
    /\ Continue("main", job["main"].rest)
    /\ UNCHANGED <<fixed, tailVars, driftVars, up, dropped, runs, ingests>>

\* pollFiles; a line that does not parse is reported before the events are
\* processed.
PollFiles ==
    /\ AtPoint("main", {"poll1", "poll"}, "ready")
    /\ IF "files" \in setup.sources
       THEN /\ Poll
            /\ IF Unparsed(Start)
               THEN Enter("main", "report", Polled(Start), {})
               ELSE Continue("main", Polled(Start))
       ELSE Proceed("main") /\ UNCHANGED tailVars
    /\ UNCHANGED <<fixed, journalVars, driftVars, up, dropped, faults, runs, ingests>>

\* collectInventory is forced the first time; later the interval may not have
\* passed.
CollectInventory ==
    /\ AtPoint("main", {"first", "inventory"}, "ready")
    /\ "inventory" \in setup.sources /\ runs < MaxRuns
    /\ runs' = runs + 1
    /\ \/ UNCHANGED faults
          /\ \E snap \in Collected : Enter("main", "event", <<<<"inventory", snap>>>>, {})
       \/ Fault /\ Enter("main", "report", <<>>, {})
    /\ UNCHANGED <<fixed, journalVars, tailVars, driftVars, up, dropped, ingests>>

NotDue ==
    /\ AtPoint("main", {"first", "inventory"}, "ready")
    /\ "inventory" \in setup.sources => job["main"].stage = "inventory" /\ inventoried
    /\ Proceed("main")
    /\ UNCHANGED <<fixed, journalVars, tailVars, driftVars, up, dropped, faults, runs, ingests>>

SaveBaseline ==
    /\ AtPoint("main", {"first", "inventory"}, "save")
    /\ \/ Save(Event("main")[2]) /\ inventoried' = TRUE
          /\ Proceed("main") /\ UNCHANGED faults
       \/ Fault /\ Enter("main", "report", <<>>, {}) /\ UNCHANGED <<driftVars, inventoried>>
    /\ UNCHANGED <<setup, journalVars, tailVars, up, dropped, runs, ingests>>

\* What may be posted to the API: an event of any kind, an inventory as well.
Postable ==
    {<<"posted", "event">>}
      \cup {<<"inventory", [known |-> TRUE, items |-> s, truncated |-> {}]>> : s \in Posted}

Ingest ==
    /\ AtPoint("api", {"serve"}, "ready") /\ "api" \in setup.sources
    /\ ingests < MaxIngests /\ ingests' = ingests + 1
    /\ \E e \in Postable : Enter("api", "event", <<e>>, {})
    /\ UNCHANGED <<fixed, journalVars, tailVars, driftVars, up, dropped, faults, runs>>

\* The writer of the log, and the host.
Environment ==
    \/ "files" \in setup.sources /\ (WriteHalf \/ Rotate) /\ UNCHANGED driftVars
    \/ "inventory" \in setup.sources /\ HostChanges /\ UNCHANGED tailVars

RuntimeNext ==
    \/ StartAgent \/ Started \/ Crash \/ Stop
    \/ \E w \in Worker :
          RecordEvent(w) \/ Inspect(w) \/ RecordFinding(w) \/ RecordFails(w) \/ Queue(w)
    \/ Report \/ PollFiles \/ CollectInventory \/ NotDue \/ SaveBaseline \/ Ingest
    \/ Environment /\ UNCHANGED <<journalVars, workVars>>

-----------------------------------------------------------------------------
\* A worker has events and findings only while it is about to use them.
RuntimeTypes ==
    /\ up \in BOOLEAN /\ torn \in BOOLEAN /\ scarred \in BOOLEAN
    /\ \A w \in Worker :
          /\ job[w].pc = "ready" => job[w].rest = <<>>
          /\ job[w].pc \in {"event", "inspect", "findings", "save"} => job[w].rest # <<>>
          /\ job[w].todo # {} => up /\ job[w].pc = "findings"
    /\ offset.at \in 0..(2 * MaxLines) /\ missed \cup dropped \subseteq 1..begun
    /\ {previous, baseline} \subseteq Snapshot /\ accepted \subseteq Item

(***************************************************************************)
(* A line of a log file is in the journal, being processed, unread in the  *)
(* file, or one of two kinds of lost: missed by the tailer, because the    *)
(* file was replaced or the tailer began behind it, or dropped, because    *)
(* process failed or the process died with it.                             *)
(***************************************************************************)
Unread == LinesIn(IF unseen \/ ~offset.known THEN 1 ELSE offset.at + 1, Len(log))

TailedIsJournaled ==
    ~scarred =>
        \A l \in 1..begun :
            \/ <<"event", l>> \in Bodies
            \/ l \in LinesOf(job["main"].rest) \cup Unread \cup missed \cup dropped

(***************************************************************************)
(* What the baseline holds was reported as a finding, or became known      *)
(* where the code does not report: with the first snapshot, a truncated    *)
(* list, past the limit, or because process could not record the finding.  *)
(* A crash between a finding and the baseline does not lose the finding.   *)
(***************************************************************************)
DriftIsReported ==
    ~scarred =>
        \A i \in baseline.items :
            i \in accepted \cup UNION job["api"].todo 
              \/ \E f \in SUBSET Item : i \in f /\ <<"finding", f>> \in Bodies

=============================================================================
