----------------------------- MODULE Telemetry -----------------------------
(***************************************************************************)
(* The telemetry path: a native log source and its cursor file             *)
(* (agent/internal/collector/native), the runtime that processes a batch   *)
(* (agent/internal/agent/runtime.go), the disk outbox and the sender       *)
(* (agent/internal/transport), and the handler that takes the events       *)
(* (src/ntshield/app.py, engine/hunt.py).                                  *)
(*                                                                         *)
(* The log is a growing sequence of records, named by their position; the  *)
(* event of a record has an ID computed from it, so a record that is read  *)
(* twice gives the same event, and an event is its record here.  Two       *)
(* goroutines work on the outbox: the poll loop adds, the sender removes.  *)
(* The Agent may crash between any two steps and every file operation may  *)
(* fail; requests and answers may be lost or late.                         *)
(***************************************************************************)
EXTENDS Naturals, FiniteSets

CONSTANTS MaxRecords,  \* bound: records the log gets
          MaxBatch,    \* max_batch of the source
          BatchSize,   \* transport.batch_size
          FromStart,   \* from_start of the source
          Unwanted,    \* events refused for good: by the sender, because they carry
                       \* another identity, or by the Control Plane with 400, 413 or 422
          MaxClock,    \* bound: the clock stops here
          MaxCrashes   \* bound: crashes of the Agent

VARIABLES
    produced,  \* records in the log
    cursor,    \* the cursor file
    seen,      \* cursorFile.state, the cursor in memory
    poll,      \* what the poll loop is doing
    journaled, \* events in the evidence journal
    pending,   \* outbox/pending: queued event -> modification time
    dead,      \* outbox/dead-letter
    flush,     \* what the sender is doing
    late,      \* requests the sender no longer waits for
    stored,    \* the Control Plane's events table
    up, clock, crashes,
    \* history variables
    origin,    \* the tail that the first initialisation of the cursor recorded
    damaged    \* a commit of the cursor removed the file or failed after it

agentVars == <<cursor, seen, poll, journaled, pending, dead, flush>>
serverVars == <<late, stored>>
envVars == <<produced, up, clock, crashes>>
vars == <<produced, cursor, seen, poll, journaled, pending, dead, flush, late,
          stored, up, clock, crashes, origin, damaged>>

-----------------------------------------------------------------------------
Records == 1 .. MaxRecords

Unset == [initialized |-> FALSE, at |-> 0]

IdlePoll == [pc |-> "idle"]

IdleFlush == [pc |-> "idle"]

Answer == {"accepted", "rejected", "error"}

NoOrigin == MaxRecords + 1

ASSUME TelemetryAssumption ==
    /\ MaxRecords \in Nat /\ MaxClock \in Nat /\ MaxCrashes \in Nat
    /\ MaxBatch \in Nat \ {0} /\ BatchSize \in Nat \ {0}
    /\ FromStart \in BOOLEAN
    /\ Unwanted \subseteq Records

TelemetryInit ==
    /\ produced = 0
    /\ cursor = Unset /\ seen = Unset /\ poll = IdlePoll
    /\ journaled = {} /\ pending = [r \in {} |-> 0] /\ dead = {} /\ flush = IdleFlush
    /\ late = {} /\ stored = {}
    /\ up = TRUE /\ clock = 0 /\ crashes = 0
    /\ origin = NoOrigin /\ damaged = FALSE

-----------------------------------------------------------------------------
(***************************************************************************)
(* The poll loop: Source.Poll, process for each event, Acknowledge.        *)
(***************************************************************************)
Polling(pc) == up /\ poll.pc = pc

Least(a, b) == IF a <= b THEN a ELSE b

CommitOf(next) == [pc |-> "commit", next |-> next]

\* Poll without a cursor records where to begin, the tail or the start, and reads
\* nothing (journald and Windows do so from the start only if the log is empty).
PollFirst ==
    /\ Polling("idle") /\ ~ seen.initialized
    /\ poll' = CommitOf([initialized |-> TRUE,
                         at |-> IF FromStart THEN 0 ELSE produced])
    /\ UNCHANGED <<cursor, seen, journaled, pending, dead, flush, serverVars, envVars,
                   origin, damaged>>

\* Poll returns the records after the cursor, at most max_batch of them.
PollBatch ==
    /\ Polling("idle")
    /\ seen.initialized \/ FromStart
    /\ produced > seen.at
    /\ poll' = [pc |-> "journal", record |-> seen.at + 1,
                next |-> [initialized |-> TRUE, at |-> Least(produced, seen.at + MaxBatch)]]
    /\ UNCHANGED <<cursor, seen, journaled, pending, dead, flush, serverVars, envVars,
                   origin, damaged>>

\* Mutant of ProcessJournal: a failing journal does not stop process.
ProcessJournalUnchecked(ok) ==
    /\ Polling("journal")
    /\ journaled' = IF ok THEN journaled \cup {poll.record} ELSE journaled
    /\ poll' = [poll EXCEPT !.pc = "enqueue"]
    /\ UNCHANGED <<cursor, seen, pending, dead, flush, serverVars, envVars, origin, damaged>>

\* process, up to the journal: an error ends the batch without Acknowledge.
ProcessJournal(ok) ==
    /\ Polling("journal")
    /\ IF ok THEN /\ journaled' = journaled \cup {poll.record}
                  /\ poll' = [poll EXCEPT !.pc = "enqueue"]
             ELSE poll' = IdlePoll /\ UNCHANGED journaled
    /\ UNCHANGED <<cursor, seen, pending, dead, flush, serverVars, envVars, origin, damaged>>

Queued(r, at) ==
    [q \in DOMAIN pending \cup {r} |-> IF q \in DOMAIN pending THEN pending[q] ELSE at]

AfterRecord ==
    IF poll.record < poll.next.at THEN [poll EXCEPT !.pc = "journal", !.record = @ + 1]
                                  ELSE CommitOf(poll.next)

\* process, after the journal: the findings are journaled, and the event queued;
\* either may fail.  In Enqueue a file under this name is left alone, otherwise
\* the new one appears by one rename.
Enqueue(ok) ==
    /\ Polling("enqueue")
    /\ IF ok THEN /\ pending' = Queued(poll.record, clock)
                  /\ poll' = AfterRecord
             ELSE poll' = IdlePoll /\ UNCHANGED pending
    /\ UNCHANGED <<cursor, seen, journaled, dead, flush, serverVars, envVars, origin, damaged>>

\* The cursor file gets its new content; the first one says where this source
\* begins.
Install(next) ==
    /\ cursor' = next
    /\ origin' = IF origin = NoOrigin THEN (IF FromStart THEN 0 ELSE next.at) ELSE origin
    /\ poll' = [pc |-> "chmod", next |-> next]

\* Commit: write a temporary file and rename it; if that fails, remove the
\* cursor file ...
Commit(result) ==
    /\ Polling("commit")
    /\ \/ result = "failed" /\ poll' = IdlePoll /\ UNCHANGED <<cursor, origin, damaged>>
       \/ result = "renamed" /\ Install(poll.next) /\ UNCHANGED damaged
       \/ /\ result = "removed"
          /\ cursor' = Unset
          /\ damaged' = TRUE
          /\ poll' = [poll EXCEPT !.pc = "retry"]
          /\ UNCHANGED origin
    /\ UNCHANGED <<seen, journaled, pending, dead, flush, serverVars, envVars>>

\* ... and rename again.
CommitRetry(ok) ==
    /\ Polling("retry")
    /\ IF ok THEN Install(poll.next) ELSE poll' = IdlePoll /\ UNCHANGED <<cursor, origin>>
    /\ UNCHANGED <<seen, journaled, pending, dead, flush, serverVars, envVars, damaged>>

\* Only after chmod does the cursor in memory move.
CommitDone(ok) ==
    /\ Polling("chmod")
    /\ IF ok THEN seen' = poll.next /\ UNCHANGED damaged ELSE damaged' = TRUE /\ UNCHANGED seen
    /\ poll' = IdlePoll
    /\ UNCHANGED <<cursor, journaled, pending, dead, flush, serverVars, envVars, origin>>

-----------------------------------------------------------------------------
(***************************************************************************)
(* The sender: Flush and the Control Plane's ingest_agent_event.           *)
(***************************************************************************)
Flushing(pc) == up /\ flush.pc = pc

\* Oldest files first; files of one instant are in the order of their hashed
\* names, which is arbitrary.
OldestOf(S) == {r \in S : \A other \in S : pending[r] <= pending[other]}

\* Peek.
FlushStart ==
    /\ Flushing("idle")
    /\ \E items \in SUBSET DOMAIN pending :
          /\ Cardinality(items) = Least(Cardinality(DOMAIN pending), BatchSize)
          /\ \A r \in items, other \in DOMAIN pending \ items : pending[r] <= pending[other]
          /\ items # {}
          /\ flush' = [pc |-> "item", left |-> items]
    /\ UNCHANGED <<cursor, seen, poll, journaled, pending, dead, serverVars, envVars,
                   origin, damaged>>

\* Flush goes on with the rest of its items.
NextItem(left) == IF left = {} THEN IdleFlush ELSE [pc |-> "item", left |-> left]

Unqueue(r) == [q \in DOMAIN pending \ {r} |-> pending[q]]

\* Ack or DeadLetter of r; an error ends Flush.
Ack(r, ok, left) ==
    /\ IF ok THEN pending' = Unqueue(r) /\ flush' = NextItem(left)
             ELSE flush' = IdleFlush /\ UNCHANGED pending
    /\ UNCHANGED dead

\* DeadLetter moves the file and then writes the reason: it can fail after the
\* file has moved.
DeadLetter(r, ok, left) ==
    /\ flush' = IF ok THEN NextItem(left) ELSE IdleFlush
    /\ \/ pending' = Unqueue(r) /\ dead' = dead \cup {r}
       \/ ~ok /\ UNCHANGED <<pending, dead>>

\* The next item: an event of another identity is not sent, the others are.
FlushItem(ok) ==
    /\ Flushing("item")
    /\ \E r \in OldestOf(flush.left) :
          \/ r \in Unwanted /\ DeadLetter(r, ok, flush.left \ {r})
          \/ /\ flush' = [pc |-> "await", left |-> flush.left \ {r}, item |-> r]
             /\ UNCHANGED <<pending, dead>>
    /\ UNCHANGED <<cursor, seen, poll, journaled, serverVars, envVars, origin, damaged>>

\* The request fails or times out, or its answer is lost; the Control Plane may
\* still get it.
SendFails ==
    /\ Flushing("await")
    /\ late' \in {late, late \cup {flush.item}}
    /\ flush' = IdleFlush
    /\ UNCHANGED <<cursor, seen, poll, journaled, pending, dead, stored, envVars,
                   origin, damaged>>

\* ingest_agent_event: a malformed event is refused, a known one is accepted as a
\* duplicate, a new one is stored and then analysed (module Hunt); an exception
\* or a crash of the server can fall before or between the two.  The handler does not await
\* after reading the body, so requests are handled one at a time.
Ingest(r, answer) ==
    \/ r \in Unwanted /\ answer = "rejected" /\ UNCHANGED stored
    \/ r \in stored /\ answer = "accepted" /\ UNCHANGED stored
    \/ answer = "error" /\ UNCHANGED stored
    \/ /\ r \notin Unwanted \cup stored
       /\ answer \in {"accepted", "error"}
       /\ stored' = stored \cup {r}

Serve(answer) ==
    /\ flush.pc = "await"
    /\ Ingest(flush.item, answer)
    /\ flush' = [pc |-> "answered", left |-> flush.left, item |-> flush.item, answer |-> answer]
    /\ UNCHANGED <<cursor, seen, poll, journaled, pending, dead, late, envVars, origin, damaged>>

ServeLate(r, answer) ==
    /\ r \in late
    /\ late' = late \ {r}
    /\ Ingest(r, answer)
    /\ UNCHANGED <<agentVars, envVars, origin, damaged>>

\* Mutants of Answered: the event is removed whatever the answer; a temporary
\* failure does not stop Flush; a permanent failure counts as a temporary one.
AnsweredAny(ok) ==
    /\ Flushing("answered")
    /\ Ack(flush.item, ok, flush.left)
    /\ UNCHANGED <<cursor, seen, poll, journaled, serverVars, envVars, origin, damaged>>

AnsweredGoesOn(ok) ==
    /\ Flushing("answered")
    /\ \/ flush.answer = "accepted" /\ Ack(flush.item, ok, flush.left)
       \/ flush.answer = "rejected" /\ DeadLetter(flush.item, ok, flush.left)
       \/ flush.answer = "error" /\ flush' = NextItem(flush.left) /\ UNCHANGED <<pending, dead>>
    /\ UNCHANGED <<cursor, seen, poll, journaled, serverVars, envVars, origin, damaged>>

AnsweredRetriesRejected(ok) ==
    /\ Flushing("answered")
    /\ \/ flush.answer = "accepted" /\ Ack(flush.item, ok, flush.left)
       \/ flush.answer # "accepted" /\ flush' = IdleFlush /\ UNCHANGED <<pending, dead>>
    /\ UNCHANGED <<cursor, seen, poll, journaled, serverVars, envVars, origin, damaged>>

\* 2xx is acknowledged, a permanent failure is put aside, any other failure
\* ends Flush.
Answered(ok) ==
    /\ Flushing("answered")
    /\ \/ flush.answer = "accepted" /\ Ack(flush.item, ok, flush.left)
       \/ flush.answer = "rejected" /\ DeadLetter(flush.item, ok, flush.left)
       \/ flush.answer = "error" /\ flush' = IdleFlush /\ UNCHANGED <<pending, dead>>
    /\ UNCHANGED <<cursor, seen, poll, journaled, serverVars, envVars, origin, damaged>>

-----------------------------------------------------------------------------
Produce ==
    /\ produced < MaxRecords
    /\ produced' = produced + 1
    /\ UNCHANGED <<agentVars, serverVars, up, clock, crashes, origin, damaged>>

TelemetryTick ==
    /\ clock < MaxClock
    /\ clock' = clock + 1
    /\ UNCHANGED <<produced, agentVars, serverVars, up, crashes, origin, damaged>>

AgentCrash ==
    /\ up /\ crashes < MaxCrashes
    /\ up' = FALSE
    /\ crashes' = crashes + 1
    /\ seen' = Unset /\ poll' = IdlePoll /\ flush' = IdleFlush
    /\ late' \in {late, IF flush.pc = "await" THEN late \cup {flush.item} ELSE late}
    /\ UNCHANGED <<produced, cursor, journaled, pending, dead, stored, clock,
                   origin, damaged>>

\* openCursor: a missing file is an uninitialised cursor.
AgentRestart ==
    /\ ~up
    /\ up' = TRUE
    /\ seen' = cursor
    /\ UNCHANGED <<produced, cursor, poll, journaled, pending, dead, flush, serverVars,
                   clock, crashes, origin, damaged>>

PollStep(ok) == \/ PollFirst \/ PollBatch
                \/ ProcessJournal(ok) \/ Enqueue(ok)
                \/ CommitRetry(ok) \/ CommitDone(ok)

TelemetryNext ==
    \/ \E ok \in BOOLEAN : PollStep(ok) \/ FlushItem(ok) \/ Answered(ok)
    \/ \E result \in {"failed", "renamed", "removed"} : Commit(result)
    \/ FlushStart \/ SendFails
    \/ \E answer \in Answer : Serve(answer) \/ \E r \in late : ServeLate(r, answer)
    \/ Produce \/ TelemetryTick \/ AgentCrash \/ AgentRestart

TelemetrySpec == TelemetryInit /\ [][TelemetryNext]_vars

\* The sender keeps running, a crashed Agent is restarted, and what is tried with
\* an event again and again, sending it or putting its file away, works some time.
Takes(r) == /\ FlushItem(TRUE)
            /\ r \in flush.left
            /\ flush'.pc # "idle" => r \notin flush'.left

TelemetryFairness ==
    /\ WF_vars(AgentRestart)
    /\ WF_vars(FlushStart)
    /\ WF_vars(Answered(TRUE))
    /\ \A r \in Records :
          /\ SF_vars(Takes(r))
          /\ SF_vars(flush.pc = "await" /\ flush.item = r
                        /\ \E answer \in {"accepted", "rejected"} : Serve(answer))
          /\ SF_vars(flush.pc = "answered" /\ flush.item = r /\ flush.answer # "error"
                        /\ Answered(TRUE))

TelemetryLiveSpec == TelemetrySpec /\ TelemetryFairness

-----------------------------------------------------------------------------
(***************************************************************************)
(* Properties.                                                             *)
(***************************************************************************)
Kept == DOMAIN pending \cup dead \cup stored

(***************************************************************************)
(* At-least-once from the log to the Control Plane: every record that a    *)
(* restart would not read again (it is behind the cursor file) and that    *)
(* came after the first initialisation is in the outbox, in the            *)
(* dead-letter directory or in the Control Plane's table, through crashes, *)
(* failing writes, lost requests and lost answers; the one exception is a  *)
(* commit of the cursor that failed after removing or replacing the file.  *)
(***************************************************************************)
EvidenceNotLost ==
    \A r \in Records : origin < r /\ r <= cursor.at => r \in Kept \/ damaged

(***************************************************************************)
(* The Control Plane stores events in the order of the outbox: an event is *)
(* stored, also by a request the sender has given up, only while its file  *)
(* is in the outbox and no older file is.  Flush stops at the first        *)
(* temporary failure (sender.go:172).                                      *)
(***************************************************************************)
SentInOrder ==
    [][\A r \in stored' \ stored :
          /\ r \in DOMAIN pending
          /\ \A other \in DOMAIN pending : pending[r] <= pending[other]]_vars

(***************************************************************************)
(* Evidence first: what leaves the Agent, or is put aside, is in its       *)
(* journal (runtime.go:495 before 509).                                    *)
(***************************************************************************)
JournaledFirst == Kept \subseteq journaled

(***************************************************************************)
(* What is queued arrives: again and again, all that is in the outbox has  *)
(* reached the Control Plane or the dead-letter directory, although one    *)
(* event after the other may fail at the head of the outbox and records    *)
(* are read and queued again.                                              *)
(***************************************************************************)
EvidenceArrives == []<>(DOMAIN pending \subseteq stored \cup dead)

=============================================================================
