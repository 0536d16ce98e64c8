-------------------------- MODULE TelemetryProofs --------------------------
(***************************************************************************)
(* Proofs about Telemetry, for every number of records, batch size, crash  *)
(* and clock bound, with from_start and without.                           *)
(***************************************************************************)
EXTENDS Telemetry, TLAPS

Cursor == [initialized : BOOLEAN, at : 0 .. MaxRecords]

PollState ==
    {IdlePoll}
       \cup [pc : {"journal", "enqueue"}, record : Records, next : Cursor]
       \cup [pc : {"commit", "retry", "chmod"}, next : Cursor]

FlushState ==
    {IdleFlush}
       \cup [pc : {"item"}, left : SUBSET Records]
       \cup [pc : {"await"}, left : SUBSET Records, item : Records]
       \cup [pc : {"answered"}, left : SUBSET Records, item : Records, answer : Answer]

Outbox(p) == DOMAIN p \subseteq Records /\ p \in [DOMAIN p -> 0 .. MaxClock]

TelemetryTypeOK ==
    /\ produced \in 0 .. MaxRecords
    /\ cursor \in Cursor /\ seen \in Cursor /\ poll \in PollState
    /\ journaled \subseteq Records /\ Outbox(pending) /\ dead \subseteq Records
    /\ flush \in FlushState
    /\ late \subseteq Records /\ stored \subseteq Records
    /\ up \in BOOLEAN /\ clock \in 0 .. MaxClock /\ crashes \in 0 .. MaxCrashes
    /\ origin \in 0 .. NoOrigin /\ damaged \in BOOLEAN

-----------------------------------------------------------------------------
\* The item the sender has taken from its list and not put away yet.
InHand == IF flush.pc \in {"await", "answered"} THEN {flush.item} ELSE {}

Unsent == IF flush.pc = "idle" THEN {} ELSE flush.left

\* No file in the outbox is older than r's.
Oldest(r) == \A other \in DOMAIN pending : pending[r] <= pending[other]

\* What the sender works on is still in the outbox, oldest first, and nothing
\* queued since is older.
FlushInOrder ==
    /\ \A r \in DOMAIN pending : pending[r] <= clock
    /\ Unsent \cup InHand \subseteq DOMAIN pending /\ Unsent \cap InHand = {}
    /\ \A r \in InHand : Oldest(r)
    /\ \A r \in Unsent : \A other \in DOMAIN pending \ (Unsent \cup InHand) :
          pending[r] <= pending[other]

\* An answer says what happened to the event, and a request that is still on its
\* way is of the oldest file, if the event can be stored at all.
AnswerIsKnown ==
    /\ flush.pc = "answered" /\ flush.answer = "accepted" => flush.item \in stored
    /\ flush.pc = "answered" /\ flush.answer = "rejected" => flush.item \in Unwanted
    /\ \A r \in late : r \in stored \cup Unwanted \/ (r \in DOMAIN pending /\ Oldest(r))

SenderInv == FlushInOrder /\ AnswerIsKnown

\* The journal is ahead of the outbox.
JournalInv ==
    /\ JournaledFirst
    /\ poll.pc = "enqueue" => poll.record \in journaled

-----------------------------------------------------------------------------
\* Every record from the first initialisation up to n is kept.
Begin == IF FromStart THEN 0 ELSE origin

Covered(n) == \A r \in Records : Begin < r /\ r <= n => r \in Kept

\* Unless the cursor file was damaged, it is missing only before the first
\* commit, the cursor in memory is the file's except between rename and chmod,
\* and everything up to either of them, or up to the record being processed, is
\* kept.
CursorInv ==
    /\ origin = NoOrigin \/ (FromStart => origin = 0)
    /\ IF cursor.initialized THEN origin # NoOrigin /\ Covered(cursor.at)
                             ELSE origin = NoOrigin /\ cursor.at = 0
    /\ IF seen.initialized THEN origin # NoOrigin /\ Covered(seen.at)
                           ELSE /\ seen.at = 0
                                /\ up => origin = NoOrigin \/ poll.pc = "chmod"
    /\ poll.pc \in {"journal", "enqueue"} =>
          /\ FromStart \/ origin # NoOrigin
          /\ poll.record <= poll.next.at
          /\ Covered(poll.record - 1)
    /\ poll.pc \in {"commit", "chmod"} => Covered(poll.next.at)
    /\ poll.pc \in {"journal", "enqueue", "commit", "chmod"} => poll.next.initialized
    /\ poll.pc = "chmod" => origin # NoOrigin
    /\ poll.pc # "retry"

EvidenceInv == damaged \/ CursorInv

TelemetryInv == TelemetryTypeOK /\ SenderInv /\ JournalInv /\ EvidenceInv

-----------------------------------------------------------------------------
\* What the poll has in hand at each of its steps.
LEMMA PollShape ==
    ASSUME NEW p \in PollState
    PROVE  /\ p.pc \in {"idle", "journal", "enqueue", "commit", "retry", "chmod"}
           /\ p.pc \in {"journal", "enqueue"} =>
                 /\ p.record \in Records /\ p.next \in Cursor
                 /\ p = [pc |-> p.pc, record |-> p.record, next |-> p.next]
           /\ p.pc \in {"commit", "retry", "chmod"} =>
                 p.next \in Cursor /\ p = [pc |-> p.pc, next |-> p.next]
BY DEF PollState, IdlePoll

\* What the flush has in hand at each of its steps.
LEMMA FlushShape ==
    ASSUME NEW f \in FlushState
    PROVE  /\ f.pc \in {"idle", "item", "await", "answered"}
           /\ f.pc \in {"item", "await", "answered"} => f.left \subseteq Records
           /\ f.pc \in {"await", "answered"} => f.item \in Records
           /\ f.pc = "answered" => f.answer \in Answer
BY DEF FlushState, IdleFlush

\* The states the sender goes through are well-formed.
LEMMA FlushStates ==
    ASSUME NEW L \in SUBSET Records, NEW r \in Records, NEW a \in Answer
    PROVE  /\ IdleFlush \in FlushState /\ IdleFlush.pc = "idle"
           /\ [pc |-> "item", left |-> L] \in FlushState
           /\ [pc |-> "await", left |-> L, item |-> r] \in FlushState
           /\ [pc |-> "answered", left |-> L, item |-> r, answer |-> a] \in FlushState
           /\ NextItem(L) \in FlushState
           /\ NextItem(L).pc = IF L = {} THEN "idle" ELSE "item"
           /\ L # {} => NextItem(L).left = L
BY DEF FlushState, IdleFlush, NextItem

\* The states that the poll comes to are poll states.
LEMMA PollStates ==
    ASSUME NEW r \in Records, NEW n \in Cursor
    PROVE  /\ IdlePoll \in PollState /\ IdlePoll.pc = "idle"
           /\ [pc |-> "journal", record |-> r, next |-> n] \in PollState
           /\ [pc |-> "enqueue", record |-> r, next |-> n] \in PollState
           /\ CommitOf(n) \in PollState /\ CommitOf(n).pc = "commit" /\ CommitOf(n).next = n
           /\ [pc |-> "retry", next |-> n] \in PollState
           /\ [pc |-> "chmod", next |-> n] \in PollState
BY DEF PollState, IdlePoll, CommitOf

\* The poll loop goes on from a record of the batch.
LEMMA PollGoesOn ==
    ASSUME NEW p \in PollState, p.pc \in {"journal", "enqueue"}
    PROVE  /\ [p EXCEPT !.pc = "enqueue"] =
                 [pc |-> "enqueue", record |-> p.record, next |-> p.next]
           /\ [p EXCEPT !.pc = "journal", !.record = @ + 1] =
                 [pc |-> "journal", record |-> p.record + 1, next |-> p.next]
<1>1. p \in [pc : {"journal", "enqueue"}, record : Records, next : Cursor]
  BY DEF PollState, IdlePoll
<1>2. [p EXCEPT !.pc = "enqueue"] =
         [pc |-> "enqueue", record |-> p.record, next |-> p.next]
  BY <1>1
<1>3. [p EXCEPT !.pc = "journal", !.record = p.record + 1] =
         [pc |-> "journal", record |-> p.record + 1, next |-> p.next]
  <2> DEFINE k == p.record + 1
             S == [pc : {"journal"}, record : {k}, next : {p.next}]
             q == [p EXCEPT !.pc = "journal", !.record = k]
  <2> HIDE DEF k
  <2>1. q \in S
    BY <1>1
  <2>2. \A a \in S : a = [pc |-> "journal", record |-> k, next |-> p.next]
    OBVIOUS
  <2>3. q = [pc |-> "journal", record |-> k, next |-> p.next]
    BY <2>1, <2>2
  <2> QED
    BY <2>3 DEF k
<1> QED
  BY <1>2, <1>3

\* A cursor is a flag and a place among the records.
LEMMA CursorShape ==
    ASSUME NEW n \in Cursor
    PROVE  n.initialized \in BOOLEAN /\ n.at \in 0 .. MaxRecords /\ n.at \in Nat
BY TelemetryAssumption DEF Cursor

\* A missing cursor file reads as a cursor without a place.
LEMMA UnsetCursor == Unset \in Cursor /\ ~ Unset.initialized /\ Unset.at = 0
BY TelemetryAssumption DEF Unset, Cursor

\* Queueing keeps the times of what is queued; removing keeps the rest.
LEMMA QueuedOutbox ==
    ASSUME Outbox(pending), NEW r \in Records, NEW at \in 0 .. MaxClock
    PROVE  /\ Outbox(Queued(r, at))
           /\ DOMAIN Queued(r, at) = DOMAIN pending \cup {r}
           /\ \A q \in DOMAIN pending : Queued(r, at)[q] = pending[q]
           /\ r \notin DOMAIN pending => Queued(r, at)[r] = at
BY DEF Outbox, Queued

\* Taking a record from the outbox leaves the others in it, with their ages.
LEMMA UnqueueOutbox ==
    ASSUME Outbox(pending), NEW r
    PROVE  /\ Outbox(Unqueue(r))
           /\ DOMAIN Unqueue(r) = DOMAIN pending \ {r}
           /\ \A q \in DOMAIN pending \ {r} : Unqueue(r)[q] = pending[q]
BY DEF Outbox, Unqueue

\* Modification times are natural numbers.
LEMMA OutboxTimes ==
    ASSUME Outbox(pending), NEW r \in DOMAIN pending
    PROVE  r \in Records /\ pending[r] \in Nat
BY TelemetryAssumption DEF Outbox

-----------------------------------------------------------------------------
(***************************************************************************)
(* The sender.                                                             *)
(***************************************************************************)
\* Steps of the poll loop and of the environment that leave the outbox alone.
LEMMA OutboxUntouched ==
    ASSUME TelemetryTypeOK, SenderInv, UNCHANGED <<pending, flush, late, stored>>,
           clock' \in Nat, clock <= clock'
    PROVE  SenderInv'
<1>1. FlushInOrder'
  <2>1. \A r \in DOMAIN pending' : pending'[r] <= clock'
    BY OutboxTimes, TelemetryAssumption DEF SenderInv, FlushInOrder, TelemetryTypeOK
  <2> QED
    BY <2>1 DEF SenderInv, FlushInOrder, Unsent, InHand, Oldest
<1>2. AnswerIsKnown'
  BY DEF SenderInv, AnswerIsKnown, Oldest
<1> QED
  BY <1>1, <1>2 DEF SenderInv

\* A step of the sender that removes nothing from the outbox: what it has in its
\* hands afterwards must be in order, and known.
LEMMA SenderMoves ==
    ASSUME TelemetryTypeOK, SenderInv, UNCHANGED <<pending, clock>>,
           Unsent' \cup InHand' \subseteq DOMAIN pending, Unsent' \cap InHand' = {},
           \A r \in InHand' : Oldest(r),
           \A r \in Unsent' : \A other \in DOMAIN pending \ (Unsent' \cup InHand') :
              pending[r] <= pending[other],
           AnswerIsKnown'
    PROVE  SenderInv'
<1>1. FlushInOrder'
  BY DEF SenderInv, FlushInOrder, Oldest
<1> QED
  BY <1>1 DEF SenderInv

\* A record that is queued is not older than any in the outbox.
LEMMA EnqueueInOrder ==
    ASSUME TelemetryTypeOK, SenderInv, NEW ok \in BOOLEAN, Enqueue(ok)
    PROVE  SenderInv'
<1>0. UNCHANGED <<flush, late, stored, clock>> /\ clock \in Nat /\ clock \in 0 .. MaxClock
  BY TelemetryAssumption DEF Enqueue, serverVars, envVars, TelemetryTypeOK
<1>1. CASE ~ ok
  BY <1>0, <1>1, OutboxUntouched DEF Enqueue
<1>2. CASE ok
  <2>1. poll.record \in Records /\ pending' = Queued(poll.record, clock) /\ Outbox(pending)
    BY <1>2, PollShape DEF Enqueue, Polling, TelemetryTypeOK
  <2>2. PICK r \in Records : r = poll.record
    BY <2>1
  <2>3. /\ DOMAIN pending' = DOMAIN pending \cup {r}
        /\ \A q \in DOMAIN pending : pending'[q] = pending[q]
        /\ r \notin DOMAIN pending => pending'[r] = clock
    BY <1>0, <2>1, <2>2, QueuedOutbox
  <2>4. \A q \in DOMAIN pending : pending[q] <= clock /\ pending[q] \in Nat
    BY <2>1, OutboxTimes DEF SenderInv, FlushInOrder
  <2>5. \A q \in DOMAIN pending, other \in DOMAIN pending' :
           other \notin DOMAIN pending => pending'[q] <= pending'[other]
    BY <2>3, <2>4
  <2>6. \A q \in DOMAIN pending : Oldest(q) => Oldest(q)'
    BY <2>3, <2>5 DEF Oldest
  <2>7. Unsent' = Unsent /\ InHand' = InHand
    BY <1>0 DEF Unsent, InHand
  <2>8. FlushInOrder'
    <3>1. \A q \in DOMAIN pending' : pending'[q] <= clock'
      BY <1>0, <2>3, <2>4
    <3>2. /\ Unsent' \cup InHand' \subseteq DOMAIN pending' /\ Unsent' \cap InHand' = {}
          /\ \A q \in InHand' : Oldest(q)'
      BY <2>3, <2>6, <2>7 DEF SenderInv, FlushInOrder
    <3>3. \A q \in Unsent' : \A other \in DOMAIN pending' \ (Unsent' \cup InHand') :
             pending'[q] <= pending'[other]
      BY <2>3, <2>5, <2>7 DEF SenderInv, FlushInOrder
    <3> QED
      BY <3>1, <3>2, <3>3 DEF FlushInOrder
  <2>9. AnswerIsKnown'
    BY <1>0, <2>3, <2>6 DEF SenderInv, AnswerIsKnown
  <2> QED
    BY <2>8, <2>9 DEF SenderInv
<1> QED
  BY <1>1, <1>2

\* A flush takes the oldest records of the outbox.
LEMMA FlushStartInOrder ==
    ASSUME TelemetryTypeOK, SenderInv, FlushStart
    PROVE  SenderInv'
<1>1. PICK items \in SUBSET DOMAIN pending :
         /\ \A r \in items, other \in DOMAIN pending \ items : pending[r] <= pending[other]
         /\ flush' = [pc |-> "item", left |-> items]
  BY DEF FlushStart
<1>2. Unsent' = items /\ InHand' = {}
  BY <1>1 DEF Unsent, InHand
<1>3. UNCHANGED <<pending, clock, late, stored>>
  BY DEF FlushStart, serverVars, envVars
<1>4. AnswerIsKnown'
  BY <1>1, <1>3 DEF SenderInv, AnswerIsKnown, Oldest
<1> QED
  BY <1>1, <1>2, <1>3, <1>4, SenderMoves

\* Ack or DeadLetter of r, after which Flush goes on with the rest or ends.
LEMMA PutAway ==
    ASSUME TelemetryTypeOK, SenderInv, UNCHANGED <<clock, late, stored>>,
           NEW r, r \in stored \cup Unwanted, pending' = Unqueue(r),
           flush'.pc \in {"idle", "item"},
           \/ Unsent' = {}
           \/ Unsent' = (Unsent \cup InHand) \ {r} /\ InHand \subseteq {r}
    PROVE  SenderInv'
<1>1. /\ DOMAIN pending' = DOMAIN pending \ {r}
      /\ \A q \in DOMAIN pending \ {r} : pending'[q] = pending[q]
  BY UnqueueOutbox DEF TelemetryTypeOK
<1>2. InHand' = {}
  BY DEF InHand
<1>3. \A q \in DOMAIN pending' : Oldest(q) => Oldest(q)'
  BY <1>1 DEF Oldest
<1>4. FlushInOrder'
  <2>1. \A q \in DOMAIN pending' : pending'[q] <= clock'
    BY <1>1 DEF SenderInv, FlushInOrder
  <2>2. Unsent' \subseteq DOMAIN pending'
    BY <1>1 DEF SenderInv, FlushInOrder
  <2>3. \A q \in Unsent' : \A other \in DOMAIN pending' \ Unsent' : pending'[q] <= pending'[other]
    BY <1>1 DEF SenderInv, FlushInOrder
  <2> QED
    BY <1>2, <2>1, <2>2, <2>3 DEF FlushInOrder
<1>5. AnswerIsKnown'
  BY <1>1, <1>3 DEF SenderInv, AnswerIsKnown
<1> QED
  BY <1>4, <1>5 DEF SenderInv

\* A Flush that ends where it is.
LEMMA FlushEnds ==
    ASSUME TelemetryTypeOK, SenderInv, flush' = IdleFlush, UNCHANGED <<pending, clock, stored>>,
           late' \subseteq late \cup InHand
    PROVE  SenderInv'
<1>1. Unsent' = {} /\ InHand' = {} /\ flush'.pc = "idle"
  BY DEF Unsent, InHand, IdleFlush
<1>2. AnswerIsKnown'
  BY <1>1 DEF SenderInv, AnswerIsKnown, FlushInOrder, Oldest
<1> QED
  BY <1>1, <1>2, SenderMoves

\* What Ack and DeadLetter do: the file is put away, or nothing happens to it.
LEMMA AckEffect ==
    ASSUME NEW r, NEW ok \in BOOLEAN, NEW L, Ack(r, ok, L)
    PROVE  /\ dead' = dead
           /\ \/ pending' = Unqueue(r) /\ flush' \in {IdleFlush, NextItem(L)}
              \/ pending' = pending /\ flush' = IdleFlush
BY DEF Ack

\* A dead letter leaves the outbox and the flush goes on, or nothing moves and
\* the flush ends.
LEMMA DeadLetterEffect ==
    ASSUME NEW r, NEW ok \in BOOLEAN, NEW L, DeadLetter(r, ok, L)
    PROVE  \/ /\ pending' = Unqueue(r) /\ dead' = dead \cup {r}
              /\ flush' \in {IdleFlush, NextItem(L)}
           \/ pending' = pending /\ dead' = dead /\ flush' = IdleFlush
BY DEF DeadLetter

\* Where the sender is after it has put r away.
LEMMA NextItemUnsent ==
    ASSUME NEW L, flush' \in {IdleFlush, NextItem(L)}
    PROVE  /\ flush'.pc \in {"idle", "item"}
           /\ Unsent' \in {{}, L}
BY DEF IdleFlush, NextItem, Unsent

\* A flush takes the oldest of its items, or sets it aside.
LEMMA FlushItemInOrder ==
    ASSUME TelemetryTypeOK, SenderInv, NEW ok \in BOOLEAN, FlushItem(ok)
    PROVE  SenderInv'
<1>1. flush.pc = "item" /\ UNCHANGED <<late, stored, clock>>
  BY DEF FlushItem, Flushing, serverVars, envVars
<1>2. InHand = {} /\ Unsent = flush.left
  BY <1>1 DEF InHand, Unsent
<1>3. PICK r \in OldestOf(flush.left) :
         \/ r \in Unwanted /\ DeadLetter(r, ok, flush.left \ {r})
         \/ /\ flush' = [pc |-> "await", left |-> flush.left \ {r}, item |-> r]
            /\ UNCHANGED <<pending, dead>>
  BY DEF FlushItem
<1>4. CASE r \in Unwanted /\ DeadLetter(r, ok, flush.left \ {r})
  <2>1. CASE pending' = pending /\ flush' = IdleFlush
    BY <1>1, <2>1, FlushEnds
  <2>2. CASE pending' = Unqueue(r) /\ flush' \in {IdleFlush, NextItem(flush.left \ {r})}
    <3>1. flush'.pc \in {"idle", "item"} /\ Unsent' \in {{}, flush.left \ {r}}
      BY <2>2, NextItemUnsent
    <3> QED
      BY <1>1, <1>2, <1>4, <2>2, <3>1, PutAway
  <2> QED
    BY <1>4, <2>1, <2>2, DeadLetterEffect
<1>5. CASE /\ flush' = [pc |-> "await", left |-> flush.left \ {r}, item |-> r]
           /\ UNCHANGED <<pending, dead>>
  <2>1. Unsent' = flush.left \ {r} /\ InHand' = {r}
    BY <1>5 DEF Unsent, InHand
  <2>2. r \in flush.left /\ \A other \in flush.left : pending[r] <= pending[other]
    BY <1>3 DEF OldestOf
  <2>3. Oldest(r)
    BY <1>2, <2>2 DEF Oldest, SenderInv, FlushInOrder
  <2>4. AnswerIsKnown'
    BY <1>1, <1>5 DEF SenderInv, AnswerIsKnown, Oldest
  <2>5. \A q \in Unsent' : \A other \in DOMAIN pending \ (Unsent' \cup InHand') :
           pending[q] <= pending[other]
    BY <1>2, <2>1, <2>2 DEF SenderInv, FlushInOrder
  <2>6. Unsent' \cup InHand' \subseteq DOMAIN pending /\ Unsent' \cap InHand' = {}
    BY <1>2, <2>1, <2>2 DEF SenderInv, FlushInOrder
  <2> QED
    BY <1>1, <1>5, <2>1, <2>3, <2>4, <2>5, <2>6, SenderMoves
<1> QED
  BY <1>3, <1>4, <1>5

\* A request that failed and may still arrive is of the oldest record.
LEMMA SendFailsInOrder ==
    ASSUME TelemetryTypeOK, SenderInv, SendFails
    PROVE  SenderInv'
<1>1. flush.pc = "await" /\ late' \subseteq late \cup {flush.item}
  BY DEF SendFails, Flushing
<1>2. late' \subseteq late \cup InHand
  BY <1>1 DEF InHand
<1> QED
  BY <1>2, FlushEnds DEF SendFails, envVars

\* After a crash only a request that may still arrive is left of a flush.
LEMMA CrashInOrder ==
    ASSUME TelemetryTypeOK, SenderInv, AgentCrash
    PROVE  SenderInv'
<1>1. late' \subseteq late \cup InHand
  BY DEF AgentCrash, InHand
<1> QED
  BY <1>1, FlushEnds DEF AgentCrash

\* What a handled request stores is the oldest event of the outbox.
LEMMA IngestEffect ==
    ASSUME NEW r, NEW answer \in Answer, Ingest(r, answer)
    PROVE  /\ stored \subseteq stored'
           /\ stored' \subseteq stored \cup {r}
           /\ answer = "accepted" => r \in stored'
           /\ answer = "rejected" => r \in Unwanted
           /\ r \in Unwanted => stored' = stored
BY DEF Ingest, Answer

\* The server's answer says what it has done with the record.
LEMMA ServeInOrder ==
    ASSUME TelemetryTypeOK, SenderInv, NEW answer \in Answer, Serve(answer)
    PROVE  SenderInv'
<1>1. /\ flush.pc = "await" /\ Ingest(flush.item, answer)
      /\ flush' = [pc |-> "answered", left |-> flush.left, item |-> flush.item, answer |-> answer]
      /\ UNCHANGED <<pending, late, clock>>
  BY DEF Serve, envVars
<1>2. Unsent' = Unsent /\ InHand' = InHand
  BY <1>1 DEF Unsent, InHand
<1>3. /\ stored \subseteq stored'
      /\ answer = "accepted" => flush.item \in stored'
      /\ answer = "rejected" => flush.item \in Unwanted
  BY <1>1, IngestEffect
<1>4. AnswerIsKnown'
  BY <1>1, <1>3 DEF SenderInv, AnswerIsKnown, Oldest
<1> QED
  BY <1>1, <1>2, <1>4, SenderMoves DEF SenderInv, FlushInOrder

\* A late request stores a record or changes nothing.
LEMMA ServeLateInOrder ==
    ASSUME TelemetryTypeOK, SenderInv, NEW r \in late, NEW answer \in Answer,
           ServeLate(r, answer)
    PROVE  SenderInv'
<1>1. Ingest(r, answer) /\ late' = late \ {r} /\ UNCHANGED <<pending, flush, clock>>
  BY DEF ServeLate, agentVars, envVars
<1>2. stored \subseteq stored'
  BY <1>1, IngestEffect
<1>3. Unsent' = Unsent /\ InHand' = InHand
  BY <1>1 DEF Unsent, InHand
<1>4. AnswerIsKnown'
  BY <1>1, <1>2 DEF SenderInv, AnswerIsKnown, Oldest
<1> QED
  BY <1>1, <1>3, <1>4, SenderMoves DEF SenderInv, FlushInOrder

\* A record leaves the outbox only when it is stored or cannot be.
LEMMA AnsweredInOrder ==
    ASSUME TelemetryTypeOK, SenderInv, NEW ok \in BOOLEAN, Answered(ok)
    PROVE  SenderInv'
<1>1. flush.pc = "answered" /\ UNCHANGED <<late, stored, clock>>
  BY DEF Answered, Flushing, serverVars, envVars
<1>2. Unsent = flush.left /\ InHand = {flush.item} /\ flush.item \notin flush.left
  BY <1>1 DEF InHand, Unsent, SenderInv, FlushInOrder
<1>3. \/ flush' = IdleFlush /\ pending' = pending
      \/ /\ pending' = Unqueue(flush.item)
         /\ flush' \in {IdleFlush, NextItem(flush.left)}
         /\ flush.item \in stored \cup Unwanted
  BY <1>1, AckEffect, DeadLetterEffect DEF Answered, SenderInv, AnswerIsKnown
<1>4. CASE flush' = IdleFlush /\ pending' = pending
  BY <1>1, <1>4, FlushEnds
<1>5. CASE /\ pending' = Unqueue(flush.item)
           /\ flush' \in {IdleFlush, NextItem(flush.left)}
           /\ flush.item \in stored \cup Unwanted
  <2>1. flush'.pc \in {"idle", "item"} /\ Unsent' \in {{}, flush.left}
    BY <1>5, NextItemUnsent
  <2>2. PICK r : r = flush.item
    OBVIOUS
  <2> QED
    BY <1>1, <1>2, <1>5, <2>1, <2>2, PutAway
<1> QED
  BY <1>3, <1>4, <1>5

-----------------------------------------------------------------------------
(***************************************************************************)
(* Types.                                                                  *)
(***************************************************************************)
\* Steps of the sender and of the Control Plane.
LEMMA SenderTypes ==
    ASSUME TelemetryTypeOK, SenderInv, NEW ok \in BOOLEAN, NEW answer \in Answer,
           \/ FlushStart \/ FlushItem(ok) \/ SendFails \/ Serve(answer) \/ Answered(ok)
           \/ \E r \in late : ServeLate(r, answer)
    PROVE  TelemetryTypeOK'
<1>1. Outbox(pending) /\ DOMAIN pending \subseteq Records
  BY DEF TelemetryTypeOK, Outbox
<1>2. UNCHANGED <<produced, cursor, seen, poll, journaled, up, clock, crashes, origin, damaged>>
  BY DEF FlushStart, FlushItem, SendFails, Serve, Answered, ServeLate, envVars, agentVars
<1>3. CASE FlushStart
  BY <1>1, <1>2, <1>3, FlushStates DEF FlushStart, TelemetryTypeOK, serverVars
<1>4. CASE FlushItem(ok)
  <2>1. PICK r \in flush.left :
           \/ DeadLetter(r, ok, flush.left \ {r})
           \/ /\ flush' = [pc |-> "await", left |-> flush.left \ {r}, item |-> r]
              /\ UNCHANGED <<pending, dead>>
    BY <1>4 DEF FlushItem, OldestOf
  <2>2. r \in Records /\ flush.left \ {r} \subseteq Records
    BY <1>4, FlushShape DEF FlushItem, Flushing, TelemetryTypeOK
  <2>3. /\ IdleFlush \in FlushState /\ NextItem(flush.left \ {r}) \in FlushState
        /\ [pc |-> "await", left |-> flush.left \ {r}, item |-> r] \in FlushState
    BY <2>2, FlushStates
  <2>4. /\ \/ flush' \in {IdleFlush, NextItem(flush.left \ {r})}
           \/ flush' = [pc |-> "await", left |-> flush.left \ {r}, item |-> r]
        /\ pending' \in {pending, Unqueue(r)}
        /\ dead' \subseteq dead \cup {r}
    BY <2>1, DeadLetterEffect
  <2>5. flush' \in FlushState /\ Outbox(pending') /\ dead' \subseteq Records
    BY <1>1, <2>2, <2>3, <2>4, UnqueueOutbox DEF TelemetryTypeOK
  <2> QED
    BY <1>2, <1>4, <2>5 DEF FlushItem, TelemetryTypeOK, serverVars
<1>5. CASE SendFails
  <2>1. late' \subseteq Records /\ IdleFlush \in FlushState
    BY <1>5, FlushShape DEF SendFails, Flushing, TelemetryTypeOK, FlushState
  <2> QED
    BY <1>2, <1>5, <2>1 DEF SendFails, TelemetryTypeOK
<1>6. CASE Serve(answer)
  <2>1. flush.item \in Records /\ flush.left \subseteq Records
    BY <1>6, FlushShape DEF Serve, TelemetryTypeOK
  <2>2. stored' \subseteq Records
    BY <1>6, <2>1, IngestEffect DEF Serve, TelemetryTypeOK
  <2>3. [pc |-> "answered", left |-> flush.left, item |-> flush.item, answer |-> answer]
           \in FlushState
    BY <2>1, FlushStates
  <2> QED
    BY <1>2, <1>6, <2>2, <2>3 DEF Serve, TelemetryTypeOK
<1>7. CASE Answered(ok)
  <2>1. flush.item \in Records /\ flush.left \subseteq Records
    BY <1>7, FlushShape DEF Answered, Flushing, TelemetryTypeOK
  <2>2. IdleFlush \in FlushState /\ NextItem(flush.left) \in FlushState
    BY <2>1, FlushStates DEF Answer
  <2>3. \/ Ack(flush.item, ok, flush.left)
        \/ DeadLetter(flush.item, ok, flush.left)
        \/ flush' = IdleFlush /\ UNCHANGED <<pending, dead>>
    BY <1>7 DEF Answered
  <2>4. /\ flush' \in {IdleFlush, NextItem(flush.left)}
        /\ pending' \in {pending, Unqueue(flush.item)}
        /\ dead' \subseteq dead \cup {flush.item}
    BY <2>3, AckEffect, DeadLetterEffect
  <2>5. flush' \in FlushState /\ Outbox(pending') /\ dead' \subseteq Records
    BY <1>1, <2>1, <2>2, <2>4, UnqueueOutbox DEF TelemetryTypeOK
  <2> QED
    BY <1>2, <1>7, <2>5 DEF Answered, TelemetryTypeOK, serverVars
<1>8. ASSUME NEW r \in late, ServeLate(r, answer)
      PROVE  TelemetryTypeOK'
  <2>1. stored' \subseteq Records /\ late' \subseteq Records
    BY <1>8, IngestEffect DEF ServeLate, TelemetryTypeOK
  <2> QED
    BY <1>2, <1>8, <2>1 DEF ServeLate, TelemetryTypeOK, agentVars
<1> QED
  BY <1>3, <1>4, <1>5, <1>6, <1>7, <1>8

\* Steps of the poll loop.
LEMMA PollTypes ==
    ASSUME TelemetryTypeOK, NEW ok \in BOOLEAN, PollStep(ok)
    PROVE  TelemetryTypeOK'
<1>1. UNCHANGED <<produced, dead, flush, late, stored, up, clock, crashes>>
  BY DEF PollStep, PollFirst, PollBatch, ProcessJournal, Enqueue, CommitRetry, CommitDone,
         serverVars, envVars
<1> USE TelemetryAssumption
<1>2. CASE PollFirst
  <2>1. [initialized |-> TRUE, at |-> IF FromStart THEN 0 ELSE produced] \in Cursor
    BY DEF TelemetryTypeOK, Cursor
  <2>2. poll' \in PollState
    BY <1>2, <2>1 DEF PollFirst, PollState, CommitOf
  <2> QED
    BY <1>1, <1>2, <2>2 DEF PollFirst, TelemetryTypeOK
<1>3. CASE PollBatch
  <2>1. seen.at \in Nat /\ produced \in 0 .. MaxRecords /\ produced > seen.at
    BY <1>3, CursorShape DEF PollBatch, TelemetryTypeOK
  <2>2. seen.at + 1 \in Records
    BY <2>1 DEF Records
  <2>3. Least(produced, seen.at + MaxBatch) \in 0 .. MaxRecords
    BY <2>1 DEF Least
  <2>4. [initialized |-> TRUE, at |-> Least(produced, seen.at + MaxBatch)] \in Cursor
    BY <2>3 DEF Cursor
  <2>5. poll' \in PollState
    BY <1>3, <2>2, <2>4, PollStates DEF PollBatch
  <2> QED
    BY <1>1, <1>3, <2>5 DEF PollBatch, TelemetryTypeOK
<1>4. CASE ProcessJournal(ok)
  <2>1. /\ poll.record \in Records /\ poll.next \in Cursor
        /\ poll = [pc |-> poll.pc, record |-> poll.record, next |-> poll.next]
    BY <1>4, PollShape DEF ProcessJournal, Polling, TelemetryTypeOK
  <2>2. [poll EXCEPT !.pc = "enqueue"] =
           [pc |-> "enqueue", record |-> poll.record, next |-> poll.next]
    BY <1>4, PollGoesOn DEF ProcessJournal, Polling, TelemetryTypeOK
  <2>3. /\ IdlePoll \in PollState
        /\ [pc |-> "enqueue", record |-> poll.record, next |-> poll.next] \in PollState
    BY <2>1, PollStates
  <2>4. poll' \in PollState /\ journaled' \subseteq Records
    BY <1>4, <2>1, <2>2, <2>3 DEF ProcessJournal, TelemetryTypeOK
  <2> QED
    BY <1>1, <1>4, <2>4 DEF ProcessJournal, TelemetryTypeOK
<1>5. CASE Enqueue(ok)
  <2>1. /\ poll.record \in Records /\ poll.next \in Cursor
        /\ poll = [pc |-> poll.pc, record |-> poll.record, next |-> poll.next]
    BY <1>5, PollShape DEF Enqueue, Polling, TelemetryTypeOK
  <2>2. AfterRecord \in PollState
    <3>1. CASE poll.record < poll.next.at
      <4>1. poll.record + 1 \in Records
        BY <2>1, <3>1, CursorShape DEF Records
      <4>2. [poll EXCEPT !.pc = "journal", !.record = @ + 1] =
               [pc |-> "journal", record |-> poll.record + 1, next |-> poll.next]
        BY <1>5, PollGoesOn DEF Enqueue, Polling, TelemetryTypeOK
      <4>3. [pc |-> "journal", record |-> poll.record + 1, next |-> poll.next] \in PollState
        BY <2>1, <4>1, PollStates
      <4> QED
        BY <3>1, <4>2, <4>3 DEF AfterRecord
    <3>2. CASE ~(poll.record < poll.next.at)
      BY <2>1, <3>2, PollStates DEF AfterRecord
    <3> QED
      BY <3>1, <3>2
  <2>3. Outbox(Queued(poll.record, clock))
    BY <2>1, QueuedOutbox DEF TelemetryTypeOK
  <2>4. poll' \in PollState /\ Outbox(pending')
    BY <1>5, <2>1, <2>2, <2>3, PollStates DEF Enqueue, TelemetryTypeOK
  <2> QED
    BY <1>1, <1>5, <2>4 DEF Enqueue, TelemetryTypeOK
<1>6. CASE CommitRetry(ok)
  <2>1. poll.next \in Cursor /\ poll.next.at \in 0 .. MaxRecords
    BY <1>6, PollShape, CursorShape DEF CommitRetry, Polling, TelemetryTypeOK
  <2>2. IdlePoll \in PollState /\ [pc |-> "chmod", next |-> poll.next] \in PollState
    BY <2>1 DEF PollState
  <2>3. cursor' \in Cursor /\ poll' \in PollState /\ origin' \in 0 .. NoOrigin
    BY <1>6, <2>1, <2>2 DEF CommitRetry, Install, TelemetryTypeOK, NoOrigin
  <2> QED
    BY <1>1, <1>6, <2>3 DEF CommitRetry, TelemetryTypeOK
<1>7. CASE CommitDone(ok)
  <2>1. poll.next \in Cursor /\ IdlePoll \in PollState
    BY <1>7, PollShape DEF CommitDone, Polling, TelemetryTypeOK, PollState
  <2> QED
    BY <1>1, <1>7, <2>1 DEF CommitDone, TelemetryTypeOK
<1> QED
  BY <1>2, <1>3, <1>4, <1>5, <1>6, <1>7 DEF PollStep

\* A commit keeps the types, whichever file operation fails.
LEMMA CommitTypes ==
    ASSUME TelemetryTypeOK, NEW result \in {"failed", "renamed", "removed"}, Commit(result)
    PROVE  TelemetryTypeOK'
<1> USE TelemetryAssumption
<1>1. UNCHANGED <<produced, seen, journaled, pending, dead, flush, late, stored, up, clock, crashes>>
  BY DEF Commit, serverVars, envVars
<1>2. /\ poll.next \in Cursor /\ poll.next.at \in 0 .. MaxRecords
      /\ poll = [pc |-> "commit", next |-> poll.next]
  BY PollShape, CursorShape DEF Commit, Polling, TelemetryTypeOK
<1>3. /\ IdlePoll \in PollState
      /\ [pc |-> "chmod", next |-> poll.next] \in PollState
      /\ [pc |-> "retry", next |-> poll.next] \in PollState
  BY <1>2 DEF PollState
<1>4. [poll EXCEPT !.pc = "retry"] = [pc |-> "retry", next |-> poll.next]
  BY <1>2
<1>5. /\ cursor' \in Cursor /\ poll' \in PollState
      /\ origin' \in 0 .. NoOrigin /\ damaged' \in BOOLEAN
  <2>1. CASE result = "failed"
    BY <1>3, <2>1 DEF Commit, TelemetryTypeOK
  <2>2. CASE result = "renamed"
    BY <1>2, <1>3, <2>2 DEF Commit, Install, TelemetryTypeOK, NoOrigin
  <2>3. CASE result = "removed"
    BY <1>3, <1>4, <2>3, UnsetCursor DEF Commit, TelemetryTypeOK
  <2> QED
    BY <2>1, <2>2, <2>3
<1> QED
  BY <1>1, <1>5 DEF TelemetryTypeOK

\* The log, the clock, a crash and a restart keep the types.
LEMMA EnvironmentTypes ==
    ASSUME TelemetryTypeOK, \/ Produce \/ TelemetryTick \/ AgentCrash \/ AgentRestart
    PROVE  TelemetryTypeOK'
<1> USE TelemetryAssumption
<1>1. CASE Produce
  BY <1>1 DEF Produce, TelemetryTypeOK, agentVars, serverVars
<1>2. CASE TelemetryTick
  BY <1>2 DEF TelemetryTick, TelemetryTypeOK, agentVars, serverVars
<1>3. CASE AgentCrash
  <2>1. IdlePoll \in PollState /\ IdleFlush \in FlushState
    BY DEF PollState, FlushState
  <2>2. late' \subseteq Records
    BY <1>3, FlushShape DEF AgentCrash, TelemetryTypeOK
  <2>3. seen' \in Cursor /\ poll' \in PollState /\ flush' \in FlushState
    BY <1>3, <2>1, UnsetCursor DEF AgentCrash
  <2>4. crashes < MaxCrashes /\ crashes' = crashes + 1 /\ crashes \in 0 .. MaxCrashes
    BY <1>3 DEF AgentCrash, TelemetryTypeOK
  <2>5. crashes' \in 0 .. MaxCrashes
    BY <2>4
  <2> QED
    BY <1>3, <2>2, <2>3, <2>5 DEF AgentCrash, TelemetryTypeOK
<1>4. CASE AgentRestart
  BY <1>4 DEF AgentRestart, TelemetryTypeOK, serverVars
<1> QED
  BY <1>1, <1>2, <1>3, <1>4

-----------------------------------------------------------------------------
(***************************************************************************)
(* The journal and the cursor.                                             *)
(***************************************************************************)
\* A step of the sender or of the Control Plane moves events from the outbox to
\* where they belong; none is added and none is lost.
LEMMA SenderKeeps ==
    ASSUME TelemetryTypeOK, SenderInv, NEW ok \in BOOLEAN, NEW answer \in Answer,
           \/ FlushStart \/ FlushItem(ok) \/ SendFails \/ Serve(answer) \/ Answered(ok)
           \/ \E r \in late : ServeLate(r, answer)
    PROVE  Kept' = Kept
<1>1. CASE FlushStart \/ SendFails
  BY <1>1 DEF FlushStart, SendFails, serverVars, Kept
<1>2. CASE FlushItem(ok)
  <2>1. PICK r \in flush.left :
           \/ DeadLetter(r, ok, flush.left \ {r})
           \/ UNCHANGED <<pending, dead>>
    BY <1>2 DEF FlushItem, OldestOf
  <2>2. r \in DOMAIN pending /\ stored' = stored
    BY <1>2 DEF FlushItem, Flushing, SenderInv, FlushInOrder, Unsent, serverVars
  <2>3. \/ pending' = Unqueue(r) /\ dead' = dead \cup {r}
        \/ pending' = pending /\ dead' = dead
    BY <2>1, DeadLetterEffect
  <2>4. DOMAIN Unqueue(r) = DOMAIN pending \ {r}
    BY DEF Unqueue
  <2> QED
    BY <2>2, <2>3, <2>4 DEF Kept
<1>3. CASE Serve(answer)
  <2>1. /\ flush.item \in DOMAIN pending
        /\ stored \subseteq stored' /\ stored' \subseteq stored \cup {flush.item}
    BY <1>3, IngestEffect DEF Serve, SenderInv, FlushInOrder, InHand
  <2> QED
    BY <1>3, <2>1 DEF Serve, Kept
<1>4. CASE Answered(ok)
  <2>1. /\ stored' = stored
        /\ \/ pending' = Unqueue(flush.item) /\ dead' = dead /\ flush.item \in stored
           \/ pending' = Unqueue(flush.item) /\ dead' = dead \cup {flush.item}
           \/ pending' = pending /\ dead' = dead
        /\ flush.item \in DOMAIN pending
    BY <1>4, AckEffect, DeadLetterEffect
       DEF Answered, Flushing, serverVars, SenderInv, AnswerIsKnown, FlushInOrder, InHand
  <2>2. DOMAIN Unqueue(flush.item) = DOMAIN pending \ {flush.item}
    BY DEF Unqueue
  <2> QED
    BY <2>1, <2>2 DEF Kept
<1>5. ASSUME NEW r \in late, ServeLate(r, answer)
      PROVE  Kept' = Kept
  <2>1. /\ stored \subseteq stored' /\ stored' \subseteq stored \cup {r}
        /\ r \in Unwanted => stored' = stored
        /\ UNCHANGED <<pending, dead>>
    BY <1>5, IngestEffect DEF ServeLate, agentVars
  <2>2. r \in stored \cup Unwanted \cup DOMAIN pending
    BY DEF SenderInv, AnswerIsKnown
  <2> QED
    BY <2>1, <2>2 DEF Kept
<1> QED
  BY <1>1, <1>2, <1>3, <1>4, <1>5

\* Whatever keeps the cursor, the poll loop and the events keeps their invariant.
LEMMA CursorUntouched ==
    ASSUME EvidenceInv, UNCHANGED <<cursor, seen, poll, up, origin, damaged>>,
           Kept \subseteq Kept'
    PROVE  EvidenceInv'
<1>1. \A n : Covered(n) => Covered(n)'
  BY DEF Covered, Begin
<1> QED
  BY <1>1 DEF EvidenceInv, CursorInv

\* The steps of the poll loop that do not commit leave the cursor alone.
LEMMA PollFirstKeeps ==
    ASSUME TelemetryInv, PollFirst
    PROVE  JournalInv' /\ EvidenceInv'
<1>1. /\ UNCHANGED <<cursor, seen, journaled, pending, dead, stored, up, origin, damaged>>
      /\ poll.pc = "idle" /\ up /\ ~ seen.initialized
      /\ poll' = CommitOf([initialized |-> TRUE, at |-> IF FromStart THEN 0 ELSE produced])
  BY DEF PollFirst, Polling, serverVars, envVars
<1>2. /\ poll'.pc = "commit" /\ poll'.next.initialized
      /\ poll'.next.at = IF FromStart THEN 0 ELSE produced
  BY <1>1 DEF CommitOf
<1>3. Kept' = Kept
  BY <1>1 DEF Kept
<1>4. JournalInv'
  BY <1>1, <1>2, <1>3 DEF TelemetryInv, JournalInv, JournaledFirst
<1>5. EvidenceInv'
  <2> SUFFICES ASSUME ~ damaged PROVE CursorInv'
    BY <1>1 DEF EvidenceInv
  <2>1. CursorInv
    BY DEF TelemetryInv, EvidenceInv
  <2>2. \A n : Covered(n)' <=> Covered(n)
    BY <1>1, <1>3 DEF Covered, Begin
  <2>3. origin = NoOrigin
    BY <1>1, <2>1 DEF CursorInv
  <2>4. Covered(poll'.next.at)
    BY <1>2, <2>3, TelemetryAssumption
       DEF Covered, Begin, NoOrigin, Records, TelemetryInv, TelemetryTypeOK
  <2> QED
    BY <1>1, <1>2, <2>1, <2>2, <2>4 DEF CursorInv
<1> QED
  BY <1>4, <1>5

\* A batch begins after the cursor, up to which all is kept.
LEMMA PollBatchKeeps ==
    ASSUME TelemetryInv, PollBatch
    PROVE  JournalInv' /\ EvidenceInv'
<1>1. /\ UNCHANGED <<cursor, seen, journaled, pending, dead, stored, up, origin, damaged>>
      /\ poll.pc = "idle" /\ up
      /\ seen.initialized \/ FromStart
      /\ produced > seen.at
      /\ poll' = [pc |-> "journal", record |-> seen.at + 1,
                  next |-> [initialized |-> TRUE, at |-> Least(produced, seen.at + MaxBatch)]]
  BY DEF PollBatch, Polling, serverVars, envVars
<1>2. /\ poll'.pc = "journal" /\ poll'.record = seen.at + 1 /\ poll'.next.initialized
      /\ poll'.next.at = Least(produced, seen.at + MaxBatch)
  BY <1>1
<1>3. Kept' = Kept
  BY <1>1 DEF Kept
<1>4. JournalInv'
  BY <1>1, <1>2, <1>3 DEF TelemetryInv, JournalInv, JournaledFirst
<1>5. seen.at \in Nat /\ produced \in Nat
  BY CursorShape, TelemetryAssumption DEF TelemetryInv, TelemetryTypeOK
<1>6. poll'.record <= poll'.next.at /\ poll'.record - 1 = seen.at
  BY <1>1, <1>2, <1>5, TelemetryAssumption DEF Least
<1>7. EvidenceInv'
  <2> SUFFICES ASSUME ~ damaged PROVE CursorInv'
    BY <1>1 DEF EvidenceInv
  <2>1. CursorInv
    BY DEF TelemetryInv, EvidenceInv
  <2>2. \A n : Covered(n)' <=> Covered(n)
    BY <1>1, <1>3 DEF Covered, Begin
  <2>3. Covered(seen.at)
    <3>1. CASE seen.initialized
      BY <2>1, <3>1 DEF CursorInv
    <3>2. CASE ~ seen.initialized
      BY <1>1, <2>1, <3>2 DEF CursorInv, Covered, Begin, Records
    <3> QED
      BY <3>1, <3>2
  <2>4. FromStart \/ origin # NoOrigin
    BY <1>1, <2>1 DEF CursorInv
  <2>5. Covered(poll.record - 1)'
    BY <1>1, <1>3, <1>6, <2>3 DEF Covered, Begin
  <2> QED
    BY <1>1, <1>2, <1>6, <2>1, <2>2, <2>4, <2>5 DEF CursorInv
<1> QED
  BY <1>4, <1>7

\* The poll loop stops where it is, before it has replaced the cursor file.
LEMMA PollStops ==
    ASSUME TelemetryInv, poll' = IdlePoll, poll.pc # "chmod",
           UNCHANGED <<cursor, seen, journaled, pending, dead, stored, up, origin, damaged>>
    PROVE  JournalInv' /\ EvidenceInv'
<1>1. Kept' = Kept /\ poll'.pc = "idle"
  BY DEF Kept, IdlePoll
<1>2. JournalInv'
  BY <1>1 DEF TelemetryInv, JournalInv, JournaledFirst
<1>3. \A n : Covered(n)' <=> Covered(n)
  BY <1>1 DEF Covered, Begin
<1>4. EvidenceInv'
  BY <1>1, <1>3 DEF TelemetryInv, EvidenceInv, CursorInv
<1> QED
  BY <1>2, <1>4

\* A record goes on to the outbox only when it is in the journal.
LEMMA ProcessJournalKeeps ==
    ASSUME TelemetryInv, NEW ok \in BOOLEAN, ProcessJournal(ok)
    PROVE  JournalInv' /\ EvidenceInv'
<1>1. /\ UNCHANGED <<cursor, seen, pending, dead, stored, up, origin, damaged>>
      /\ poll.pc = "journal"
  BY DEF ProcessJournal, Polling, serverVars, envVars
<1>2. CASE ~ ok
  BY <1>1, <1>2, PollStops DEF ProcessJournal
<1>3. CASE ok
  <2>1. /\ journaled' = journaled \cup {poll.record}
        /\ poll' = [pc |-> "enqueue", record |-> poll.record, next |-> poll.next]
    BY <1>1, <1>3, PollGoesOn DEF ProcessJournal, TelemetryInv, TelemetryTypeOK
  <2>2. Kept' = Kept
    BY <1>1 DEF Kept
  <2>3. JournalInv'
    BY <2>1, <2>2 DEF TelemetryInv, JournalInv, JournaledFirst
  <2>4. \A n : Covered(n)' <=> Covered(n)
    BY <1>1, <2>2 DEF Covered, Begin
  <2>5. EvidenceInv'
    BY <1>1, <2>1, <2>4 DEF TelemetryInv, EvidenceInv, CursorInv
  <2> QED
    BY <2>3, <2>5
<1> QED
  BY <1>2, <1>3

\* A record that is queued is kept, so that the cursor may pass it.
LEMMA EnqueueKeeps ==
    ASSUME TelemetryInv, NEW ok \in BOOLEAN, Enqueue(ok)
    PROVE  JournalInv' /\ EvidenceInv'
<1>1. /\ UNCHANGED <<cursor, seen, journaled, dead, stored, up, origin, damaged>>
      /\ poll.pc = "enqueue"
  BY DEF Enqueue, Polling, serverVars, envVars
<1>2. CASE ~ ok
  BY <1>1, <1>2, PollStops DEF Enqueue
<1>3. CASE ok
  <2>1. /\ poll.record \in Records /\ poll.record \in Nat
        /\ poll.next \in Cursor /\ poll.next.at \in Nat
    BY <1>1, PollShape, CursorShape, TelemetryAssumption
       DEF TelemetryInv, TelemetryTypeOK, Records
  <2>2. pending' = Queued(poll.record, clock) /\ poll' = AfterRecord
    BY <1>3 DEF Enqueue
  <2>3. DOMAIN pending' = DOMAIN pending \cup {poll.record}
    BY <2>2 DEF Queued
  <2>4. Kept' = Kept \cup {poll.record}
    BY <1>1, <2>3 DEF Kept
  <2>5. \/ /\ poll.record < poll.next.at
           /\ poll' = [pc |-> "journal", record |-> poll.record + 1, next |-> poll.next]
        \/ /\ ~(poll.record < poll.next.at)
           /\ poll' = [pc |-> "commit", next |-> poll.next]
    BY <1>1, <2>2, PollGoesOn DEF AfterRecord, CommitOf, TelemetryInv, TelemetryTypeOK
  <2>6. JournalInv'
    BY <1>1, <2>4, <2>5 DEF TelemetryInv, JournalInv, JournaledFirst
  <2>7. EvidenceInv'
    <3> SUFFICES ASSUME ~ damaged PROVE CursorInv'
      BY <1>1 DEF EvidenceInv
    <3>1. CursorInv
      BY DEF TelemetryInv, EvidenceInv
    <3>2. \A n : Covered(n) => Covered(n)'
      BY <1>1, <2>4 DEF Covered, Begin
    <3>3. Covered(poll.record - 1) /\ poll.record <= poll.next.at /\ poll.next.initialized
      BY <1>1, <3>1 DEF CursorInv
    <3>4. ASSUME NEW r \in Records, Begin < r, r <= poll.record
          PROVE  r \in Kept'
      <4>1. r \in Nat
        BY DEF Records
      <4>2. r = poll.record \/ r <= poll.record - 1
        BY <2>1, <3>4, <4>1
      <4> QED
        BY <2>4, <3>3, <3>4, <4>2 DEF Covered
    <3>5. CASE /\ poll.record < poll.next.at
               /\ poll' = [pc |-> "journal", record |-> poll.record + 1, next |-> poll.next]
      <4>1. /\ poll'.pc = "journal" /\ poll'.record - 1 = poll.record
            /\ poll'.record <= poll'.next.at /\ poll'.next.initialized
        BY <2>1, <3>3, <3>5
      <4>2. Covered(poll.record - 1)'
        <5>1. Begin' = Begin
          BY <1>1 DEF Begin
        <5>2. \A r \in Records : Begin < r /\ r <= poll'.record - 1 => r \in Kept'
          BY <3>4, <4>1
        <5> QED
          BY <5>1, <5>2 DEF Covered
      <4> QED
        BY <1>1, <3>1, <3>2, <4>1, <4>2 DEF CursorInv
    <3>6. CASE /\ ~(poll.record < poll.next.at)
               /\ poll' = [pc |-> "commit", next |-> poll.next]
      <4>1. poll.next.at = poll.record
        BY <2>1, <3>3, <3>6
      <4> QED
        BY <1>1, <3>1, <3>2, <3>3, <3>4, <3>6, <4>1 DEF CursorInv, Covered, Begin
    <3> QED
      BY <2>5, <3>5, <3>6
  <2> QED
    BY <2>6, <2>7
<1> QED
  BY <1>2, <1>3

\* Renaming the new cursor over the old one: everything before it is kept.
LEMMA InstallKeeps ==
    ASSUME TelemetryInv, poll.pc \in {"commit", "retry"}, up, Install(poll.next),
           UNCHANGED <<seen, journaled, pending, dead, stored, up, damaged>>
    PROVE  JournalInv' /\ EvidenceInv'
<1>1. /\ poll.next \in Cursor /\ poll.next.at \in 0 .. MaxRecords /\ poll.next.at \in Nat
      /\ origin \in 0 .. NoOrigin
  BY PollShape, CursorShape DEF TelemetryInv, TelemetryTypeOK
<1>2. /\ cursor' = poll.next /\ poll'.pc = "chmod" /\ poll'.next = poll.next
      /\ origin' = IF origin = NoOrigin THEN (IF FromStart THEN 0 ELSE poll.next.at) ELSE origin
  BY DEF Install
<1>3. Kept' = Kept
  BY DEF Kept
<1>4. JournalInv'
  BY <1>2, <1>3 DEF TelemetryInv, JournalInv, JournaledFirst
<1>5. EvidenceInv'
  <2> SUFFICES ASSUME ~ damaged PROVE CursorInv'
    BY DEF EvidenceInv
  <2>1. CursorInv /\ poll.pc = "commit"
    BY DEF TelemetryInv, EvidenceInv, CursorInv
  <2>2. Covered(poll.next.at) /\ poll.next.initialized
    BY <2>1 DEF CursorInv
  <2>3. origin' # NoOrigin
    BY <1>1, <1>2, TelemetryAssumption DEF NoOrigin
  <2>4. origin' = NoOrigin \/ (FromStart => origin' = 0)
    BY <1>2, <2>1 DEF CursorInv
  <2>5. CASE origin = NoOrigin
    <3>1. ~ seen.initialized /\ seen.at = 0
      BY <2>1, <2>5 DEF CursorInv
    <3>2. ASSUME NEW r \in Records, Begin' < r, r <= poll.next.at
          PROVE  r \in Kept'
      <4>1. CASE FromStart
        BY <1>3, <2>2, <3>2, <4>1 DEF Covered, Begin
      <4>2. CASE ~ FromStart
        BY <1>1, <1>2, <2>5, <3>2, <4>2, TelemetryAssumption DEF Begin, Records
      <4> QED
        BY <4>1, <4>2
    <3>3. Covered(cursor.at)' /\ Covered(poll.next.at)'
      BY <1>2, <3>2 DEF Covered
    <3> QED
      BY <1>2, <2>2, <2>3, <2>4, <3>1, <3>3 DEF CursorInv
  <2>6. CASE origin # NoOrigin
    <3>1. origin' = origin
      BY <1>2, <2>6
    <3>2. \A n : Covered(n)' <=> Covered(n)
      BY <1>3, <3>1 DEF Covered, Begin
    <3> QED
      BY <1>2, <2>1, <2>2, <2>3, <2>4, <3>2 DEF CursorInv
  <2> QED
    BY <2>5, <2>6
<1> QED
  BY <1>4, <1>5

\* The new cursor file is one up to which all is kept; a removed one is damage.
LEMMA CommitKeeps ==
    ASSUME TelemetryInv, NEW result \in {"failed", "renamed", "removed"}, Commit(result)
    PROVE  JournalInv' /\ EvidenceInv'
<1>1. /\ UNCHANGED <<seen, journaled, pending, dead, stored, up>>
      /\ poll.pc = "commit" /\ up
  BY DEF Commit, Polling, serverVars, envVars
<1>2. CASE result = "failed"
  BY <1>1, <1>2, PollStops DEF Commit
<1>3. CASE result = "renamed"
  BY <1>1, <1>3, InstallKeeps DEF Commit
<1>4. CASE result = "removed"
  <2>1. damaged' /\ Kept' = Kept /\ poll'.pc = "retry"
    BY <1>1, <1>4, PollShape DEF Commit, Kept, TelemetryInv, TelemetryTypeOK
  <2> QED
    BY <1>1, <2>1 DEF TelemetryInv, JournalInv, JournaledFirst, EvidenceInv
<1> QED
  BY <1>2, <1>3, <1>4

\* The second rename comes only after damage.
LEMMA CommitRetryKeeps ==
    ASSUME TelemetryInv, NEW ok \in BOOLEAN, CommitRetry(ok)
    PROVE  JournalInv' /\ EvidenceInv'
<1>1. /\ UNCHANGED <<seen, journaled, pending, dead, stored, up, damaged>>
      /\ poll.pc = "retry" /\ up
  BY DEF CommitRetry, Polling, serverVars, envVars
<1>2. CASE ok
  BY <1>1, <1>2, InstallKeeps DEF CommitRetry
<1>3. CASE ~ ok
  BY <1>1, <1>3, PollStops DEF CommitRetry
<1> QED
  BY <1>2, <1>3

\* The cursor in memory becomes that of the file; a chmod that fails is damage.
LEMMA CommitDoneKeeps ==
    ASSUME TelemetryInv, NEW ok \in BOOLEAN, CommitDone(ok)
    PROVE  JournalInv' /\ EvidenceInv'
<1>1. /\ UNCHANGED <<cursor, journaled, pending, dead, stored, up, origin>>
      /\ poll.pc = "chmod" /\ poll' = IdlePoll
  BY DEF CommitDone, Polling, serverVars, envVars
<1>2. Kept' = Kept /\ poll'.pc = "idle"
  BY <1>1 DEF Kept, IdlePoll
<1>3. JournalInv'
  BY <1>1, <1>2 DEF TelemetryInv, JournalInv, JournaledFirst
<1>4. CASE ~ ok
  BY <1>3, <1>4 DEF CommitDone, EvidenceInv
<1>5. CASE ok
  <2>1. seen' = poll.next /\ damaged' = damaged
    BY <1>5 DEF CommitDone
  <2>2. \A n : Covered(n)' <=> Covered(n)
    BY <1>1, <1>2 DEF Covered, Begin
  <2>3. ASSUME ~ damaged PROVE CursorInv'
    <3>1. CursorInv
      BY <2>3 DEF TelemetryInv, EvidenceInv
    <3>2. Covered(poll.next.at) /\ poll.next.initialized /\ origin # NoOrigin
      BY <1>1, <3>1 DEF CursorInv
    <3> QED
      BY <1>1, <1>2, <2>1, <2>2, <3>1, <3>2 DEF CursorInv
  <2> QED
    BY <1>3, <2>1, <2>3 DEF EvidenceInv
<1> QED
  BY <1>4, <1>5

\* The log, the clock, a crash and a restart take no record from those kept.
LEMMA EnvironmentKeeps ==
    ASSUME TelemetryInv, \/ Produce \/ TelemetryTick \/ AgentCrash \/ AgentRestart
    PROVE  JournalInv' /\ EvidenceInv'
<1>1. UNCHANGED <<journaled, pending, dead, stored, cursor, origin, damaged>>
  BY DEF Produce, TelemetryTick, AgentCrash, AgentRestart, agentVars, serverVars
<1>2. Kept' = Kept
  BY <1>1 DEF Kept
<1>3. CASE Produce \/ TelemetryTick
  <2>1. UNCHANGED <<poll, seen, up>>
    BY <1>3 DEF Produce, TelemetryTick, agentVars
  <2> QED
    BY <1>1, <1>2, <2>1, CursorUntouched DEF TelemetryInv, JournalInv, JournaledFirst
<1>4. \A n : Covered(n)' <=> Covered(n)
  BY <1>1, <1>2 DEF Covered, Begin
<1>5. CASE AgentCrash
  <2>1. poll'.pc = "idle" /\ ~ up' /\ ~ seen'.initialized /\ seen'.at = 0
    BY <1>5, UnsetCursor DEF AgentCrash, IdlePoll
  <2> QED
    BY <1>1, <1>2, <1>4, <2>1
       DEF TelemetryInv, JournalInv, JournaledFirst, EvidenceInv, CursorInv
<1>6. CASE AgentRestart
  <2>1. seen' = cursor /\ poll' = poll
    BY <1>6 DEF AgentRestart
  <2> QED
    BY <1>1, <1>2, <1>4, <2>1
       DEF TelemetryInv, JournalInv, JournaledFirst, EvidenceInv, CursorInv
<1> QED
  BY <1>3, <1>5, <1>6

-----------------------------------------------------------------------------
\* The inductive invariant.
LEMMA TelemetryInvariant == TelemetrySpec => []TelemetryInv
<1>1. TelemetryInit => TelemetryInv
  <2> SUFFICES ASSUME TelemetryInit PROVE TelemetryInv
    OBVIOUS
  <2>1. IdlePoll \in PollState /\ IdleFlush \in FlushState
    BY DEF PollState, FlushState
  <2>2. poll.pc = "idle" /\ flush.pc = "idle" /\ DOMAIN pending = {}
    BY DEF TelemetryInit, IdlePoll, IdleFlush
  <2>3. Outbox(pending)
    BY DEF TelemetryInit, Outbox
  <2>4. TelemetryTypeOK
    <3>1. /\ 0 \in 0 .. MaxRecords /\ 0 \in 0 .. MaxClock /\ 0 \in 0 .. MaxCrashes
          /\ NoOrigin \in 0 .. NoOrigin
      BY TelemetryAssumption DEF NoOrigin
    <3> QED
      BY <2>1, <2>3, <3>1, UnsetCursor DEF TelemetryInit, TelemetryTypeOK
  <2>5. SenderInv
    BY <2>2 DEF TelemetryInit, SenderInv, FlushInOrder, AnswerIsKnown, Unsent, InHand
  <2>6. JournalInv
    BY <2>2 DEF TelemetryInit, JournalInv, JournaledFirst, Kept
  <2>7. EvidenceInv
    BY <2>2, UnsetCursor DEF TelemetryInit, EvidenceInv, CursorInv
  <2> QED
    BY <2>4, <2>5, <2>6, <2>7 DEF TelemetryInv
<1>2. TelemetryInv /\ [TelemetryNext]_vars => TelemetryInv'
  <2> SUFFICES ASSUME TelemetryInv, [TelemetryNext]_vars
               PROVE  TelemetryInv'
    OBVIOUS
  <2>0. TelemetryTypeOK /\ SenderInv /\ JournalInv /\ EvidenceInv
    BY DEF TelemetryInv
  <2>1. ASSUME NEW ok \in BOOLEAN, PollStep(ok)
        PROVE  TelemetryInv'
    <3>1. TelemetryTypeOK'
      BY <2>0, <2>1, PollTypes
    <3>2. JournalInv' /\ EvidenceInv'
      BY <2>1, PollFirstKeeps, PollBatchKeeps, ProcessJournalKeeps, EnqueueKeeps,
         CommitRetryKeeps, CommitDoneKeeps DEF PollStep
    <3>3. SenderInv'
      <4>1. CASE Enqueue(ok)
        BY <2>0, <4>1, EnqueueInOrder
      <4>2. CASE ~ Enqueue(ok)
        <5>1. UNCHANGED <<pending, flush, late, stored, clock>>
          BY <2>1, <4>2 DEF PollStep, PollFirst, PollBatch, ProcessJournal, CommitRetry,
                           CommitDone, serverVars, envVars
        <5> QED
          BY <2>0, <5>1, OutboxUntouched, TelemetryAssumption DEF TelemetryTypeOK
      <4> QED
        BY <4>1, <4>2
    <3> QED
      BY <3>1, <3>2, <3>3 DEF TelemetryInv
  <2>2. ASSUME NEW result \in {"failed", "renamed", "removed"}, Commit(result)
        PROVE  TelemetryInv'
    <3>1. UNCHANGED <<pending, flush, late, stored, clock>>
      BY <2>2 DEF Commit, serverVars, envVars
    <3>2. SenderInv'
      BY <2>0, <3>1, OutboxUntouched, TelemetryAssumption DEF TelemetryTypeOK
    <3> QED
      BY <2>0, <2>2, <3>2, CommitTypes, CommitKeeps DEF TelemetryInv
  <2>3. ASSUME NEW ok \in BOOLEAN, NEW answer \in Answer,
               \/ FlushStart \/ FlushItem(ok) \/ SendFails \/ Serve(answer) \/ Answered(ok)
               \/ \E r \in late : ServeLate(r, answer)
        PROVE  TelemetryInv'
    <3>1. TelemetryTypeOK'
      BY <2>0, <2>3, SenderTypes
    <3>2. SenderInv'
      BY <2>0, <2>3, FlushStartInOrder, FlushItemInOrder, SendFailsInOrder, ServeInOrder,
         ServeLateInOrder, AnsweredInOrder
    <3>3. Kept' = Kept
      BY <2>0, <2>3, SenderKeeps
    <3>4. UNCHANGED <<cursor, seen, poll, journaled, up, origin, damaged>>
      BY <2>3 DEF FlushStart, FlushItem, SendFails, Serve, Answered, ServeLate, envVars, agentVars
    <3>5. JournalInv' /\ EvidenceInv'
      BY <2>0, <3>3, <3>4, CursorUntouched DEF JournalInv, JournaledFirst
    <3> QED
      BY <3>1, <3>2, <3>5 DEF TelemetryInv
  <2>4. CASE Produce \/ TelemetryTick \/ AgentCrash \/ AgentRestart
    <3>1. SenderInv'
      <4>1. CASE AgentCrash
        BY <2>0, <4>1, CrashInOrder
      <4>2. CASE ~ AgentCrash
        <5>1. UNCHANGED <<pending, flush, late, stored>> /\ clock' \in Nat /\ clock <= clock'
          BY <2>0, <2>4, <4>2, TelemetryAssumption
             DEF Produce, TelemetryTick, AgentRestart, agentVars, serverVars, TelemetryTypeOK
        <5> QED
          BY <2>0, <5>1, OutboxUntouched
      <4> QED
        BY <4>1, <4>2
    <3> QED
      BY <2>0, <2>4, <3>1, EnvironmentTypes, EnvironmentKeeps DEF TelemetryInv
  <2>5. CASE UNCHANGED vars
    <3>1. TelemetryTypeOK'
      BY <2>0, <2>5 DEF vars, TelemetryTypeOK
    <3>2. SenderInv'
      BY <2>0, <2>5, OutboxUntouched, TelemetryAssumption DEF vars, TelemetryTypeOK
    <3>3. JournalInv' /\ EvidenceInv'
      BY <2>0, <2>5, CursorUntouched DEF vars, Kept, JournalInv, JournaledFirst
    <3> QED
      BY <3>1, <3>2, <3>3 DEF TelemetryInv
  <2> QED
    BY <2>1, <2>2, <2>3, <2>4, <2>5 DEF TelemetryNext, Answer
<1> QED
  BY <1>1, <1>2, PTL DEF TelemetrySpec

(***************************************************************************)
(* Evidence first, for every log, batch and outbox size: nothing is        *)
(* queued, sent or put aside that is not in the journal (runtime.go:495    *)
(* before 509), because process ends the batch when the journal fails.     *)
(***************************************************************************)
THEOREM JournaledFirstAlways == TelemetrySpec => []JournaledFirst
BY TelemetryInvariant, PTL DEF TelemetryInv, JournalInv

(***************************************************************************)
(* At-least-once, for every number of records, crashes and failures: what  *)
(* the cursor file has passed is in the outbox, put aside or stored,       *)
(* unless a commit of the cursor removed the file or failed after it.  The *)
(* sender removes a file only for an answer it has been given, and the     *)
(* cursor is committed only after the whole batch.                         *)
(***************************************************************************)
THEOREM EvidenceNotLostAlways == TelemetrySpec => []EvidenceNotLost
<1>1. TelemetryInv => EvidenceNotLost
  <2> SUFFICES ASSUME TelemetryInv, NEW r \in Records, origin < r, r <= cursor.at, ~ damaged
               PROVE  r \in Kept
    BY DEF EvidenceNotLost
  <2>1. CursorInv
    BY DEF TelemetryInv, EvidenceInv
  <2>2. r \in Nat /\ 0 < r
    BY TelemetryAssumption DEF Records
  <2>3. cursor.initialized
    BY <2>1, <2>2 DEF CursorInv
  <2>4. Begin < r
    BY <2>2 DEF Begin
  <2> QED
    BY <2>1, <2>3, <2>4 DEF CursorInv, Covered
<1> QED
  BY <1>1, TelemetryInvariant, PTL

(***************************************************************************)
(* First in, first out, for every outbox and every request that is handled *)
(* late: an event is stored only while its file is the oldest in the       *)
(* outbox (sender.go:172).                                                 *)
(***************************************************************************)
THEOREM SentInOrderAlways == TelemetrySpec => SentInOrder
<1> DEFINE InOrder == \A r \in stored' \ stored :
                         /\ r \in DOMAIN pending
                         /\ \A other \in DOMAIN pending : pending[r] <= pending[other]
<1>1. ASSUME TelemetryInv, NEW answer \in Answer, Serve(answer)
      PROVE  InOrder
  <2>1. flush.pc = "await" /\ stored' \subseteq stored \cup {flush.item}
    BY <1>1, IngestEffect DEF Serve
  <2> QED
    BY <1>1, <2>1 DEF TelemetryInv, SenderInv, FlushInOrder, InHand, Oldest
<1>2. ASSUME TelemetryInv, NEW answer \in Answer, NEW r \in late, ServeLate(r, answer)
      PROVE  InOrder
  <2>1. stored' \subseteq stored \cup {r} /\ (r \in Unwanted => stored' = stored)
    BY <1>2, IngestEffect DEF ServeLate
  <2> QED
    BY <1>2, <2>1 DEF TelemetryInv, SenderInv, AnswerIsKnown, Oldest
<1>3. ASSUME TelemetryInv, TelemetryNext
      PROVE  InOrder
  <2>1. \/ \E answer \in Answer : Serve(answer) \/ \E r \in late : ServeLate(r, answer)
        \/ stored' = stored
    BY <1>3 DEF TelemetryNext, PollStep, PollFirst, PollBatch, ProcessJournal, Enqueue,
                CommitRetry, CommitDone, FlushItem, Answered, Commit, FlushStart, SendFails,
                Produce, TelemetryTick, AgentCrash, AgentRestart, serverVars
  <2> QED
    BY <1>1, <1>2, <1>3, <2>1
<1>4. TelemetryInv /\ [TelemetryNext]_vars => [InOrder]_vars
  BY <1>3
<1> QED
  BY <1>4, TelemetryInvariant, PTL DEF TelemetrySpec, SentInOrder

=============================================================================
