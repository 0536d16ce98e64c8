---------------------------- MODULE CentralClient ---------------------------
(***************************************************************************)
(* The optional client of a Central server                                 *)
(* (agent/internal/central/client.go).                                     *)
(*                                                                         *)
(* process hands events to a bounded channel and never waits.  One         *)
(* goroutine moves them to a bounded list and sends the front of the list  *)
(* in batches; a batch that is not acknowledged is sent again, under a new *)
(* idempotency key.  Nothing of this survives the process but the API key. *)
(* Events are named by the order in which they were handed over.           *)
(***************************************************************************)
EXTENDS Naturals, Sequences, SequencesExt, FiniteSets, FiniteSetsExt

CONSTANTS QueueSize, CentralBatch,   \* cfg.QueueSize, cfg.MaxBatch
          MaxHanded, MaxReceived     \* bounds: events handed over, events got

ASSUME CentralAssumption ==
    {QueueSize, CentralBatch} \subseteq Nat \ {0} /\ {MaxHanded, MaxReceived} \subseteq Nat

VARIABLES queue,        \* the channel
          pending,      \* what Run has taken from it
          registered,
          apiKey,       \* there is a key, in the file as in memory
          received,     \* what Central has got, in this order
          handed,       \* history: the number of events handed over
          given         \* history: events that were given up

centralVars == <<queue, pending, registered, apiKey, received, handed, given>>

CentralInit ==
    /\ queue = <<>> /\ pending = <<>> /\ registered = FALSE /\ apiKey = FALSE
    /\ received = <<>> /\ handed = 0 /\ given = {}

\* Enqueue: a full channel refuses the event.
Handed ==
    /\ handed < MaxHanded /\ handed' = handed + 1
    /\ IF Len(queue) < QueueSize
       THEN queue' = Append(queue, handed + 1) /\ UNCHANGED given
       ELSE given' = given \cup {handed + 1} /\ UNCHANGED queue
    /\ UNCHANGED <<pending, registered, apiKey, received>>

\* Register, when it succeeds: the answer has a key or has none.
Register ==
    /\ ~registered /\ registered' = TRUE
    /\ apiKey' \in {apiKey, TRUE}
    /\ UNCHANGED <<queue, pending, received, handed, given>>

Take(list) == Min({Len(list), CentralBatch})

\* How a batch may be answered: acknowledged; taken by Central with the answer
\* lost; refused with 401 or 403; or not sent at all.
Answers(list) ==
    {"none"} \cup
        (IF registered /\ apiKey /\ list # <<>> /\ Len(received) + Take(list) <= MaxReceived
         THEN {"acknowledged", "lost", "unauthorized"} ELSE {})

\* Mutant of Unsent: the batch goes whether or not it was acknowledged.
UnsentNothing(list, reply) == SubSeq(list, Take(list) + 1, Len(list))

Unsent(list, reply) ==
    IF reply = "acknowledged" THEN SubSeq(list, Take(list) + 1, Len(list)) ELSE list

\* flush, of the list given.
Flushed(list) ==
    \E reply \in Answers(list) :
        /\ pending' = Unsent(list, reply)
        /\ received' = IF reply \in {"acknowledged", "lost"}
                       THEN received \o SubSeq(list, 1, Take(list)) ELSE received
        /\ registered' = (registered /\ reply # "unauthorized")

\* Run takes an event, and flushes a list that makes a batch; a full list
\* gives the event up.
TakeQueued ==
    /\ queue # <<>> /\ queue' = Tail(queue)
    /\ LET list == Append(pending, Head(queue))
       IN  IF Len(pending) >= QueueSize
           THEN given' = given \cup {Head(queue)} /\ UNCHANGED <<pending, registered, received>>
           ELSE /\ IF Len(list) >= CentralBatch THEN Flushed(list)
                   ELSE pending' = list /\ UNCHANGED <<registered, received>>
                /\ UNCHANGED given
    /\ UNCHANGED <<apiKey, handed>>

\* The batch ticker.
Flush ==
    /\ registered /\ pending # <<>> /\ Flushed(pending)
    /\ UNCHANGED <<queue, apiKey, handed, given>>

\* A heartbeat is answered 401 or 403.
Heartbeat ==
    /\ registered /\ apiKey /\ registered' = FALSE
    /\ UNCHANGED <<queue, pending, apiKey, received, handed, given>>

\* The process ends; a new one reads the key from its file.
CentralNew ==
    /\ queue # <<>> \/ pending # <<>> \/ registered
    /\ queue' = <<>> /\ pending' = <<>> /\ registered' = FALSE
    /\ given' = given \cup ((ToSet(queue) \cup ToSet(pending)) \ ToSet(received))
    /\ UNCHANGED <<apiKey, received, handed>>

CentralNext == Handed \/ Register \/ TakeQueued \/ Flush \/ Heartbeat \/ CentralNew

-----------------------------------------------------------------------------
(***************************************************************************)
(* What was handed over is at Central, on its way there or given up, and   *)
(* in the order in which it was handed over: however often batches are     *)
(* sent again, before an event come all that are older and not given up.   *)
(* An event is given up only because a queue was full or the process       *)
(* ended.                                                                  *)
(***************************************************************************)
CentralInOrder ==
    LET all == received \o pending \o queue
    IN  /\ ToSet(all) = (1..handed) \ given
        /\ \A i \in DOMAIN all, n \in ToSet(all) :
              n < all[i] => \E h \in 1..(i - 1) : all[h] = n

=============================================================================
