------------------------------ MODULE FileTail ------------------------------
(***************************************************************************)
(* The file tailer (agent/internal/collector/filetail/tailer.go).          *)
(*                                                                         *)
(* The file is a sequence of half lines: <<l, 1>> is the first half of     *)
(* line l, <<l, 2>> the second one with the newline.  A writer appends     *)
(* them one by one, and something else may empty the file or put a new one *)
(* in its place.  The tailer knows the file by its path and its size only. *)
(***************************************************************************)
EXTENDS Naturals, Sequences, SequencesExt, FiniteSets, FiniteSetsExt

CONSTANTS MaxRead,       \* maxReadPerPoll, in half lines
          MaxBatch,      \* cfg.MaxBatch
          MaxLines,      \* bound: lines written
          MaxRotations   \* bound

ASSUME FileTailAssumption ==
    {MaxRead, MaxBatch, MaxLines} \subseteq Nat \ {0} /\ MaxRotations \in Nat

VARIABLES source,      \* its configuration: FromStart, and whether its parser
                       \* makes an event of any text (or an error of a fragment)
          log,         \* the file
          begun,       \* lines the writer has begun
          offset,      \* offsets[path]
          rotations,
          unseen,      \* history: the file was replaced after the last poll
          missed       \* history: lines that the tailer could not get whole

tailVars == <<source, log, begun, offset, rotations, unseen, missed>>

NotKnown == [known |-> FALSE, at |-> 0]

TailInit ==
    /\ source \in [fromStart : BOOLEAN, plain : BOOLEAN]
    /\ log = <<>> /\ begun = 0 /\ offset = NotKnown
    /\ rotations = 0 /\ unseen = FALSE /\ missed = {}

\* The lines with a half in the file at positions i..j.
LinesIn(i, j) == {log[k][1] : k \in i..j}

-----------------------------------------------------------------------------
(***************************************************************************)
(* The writer and the rotation.                                            *)
(***************************************************************************)
InLine == log # <<>> /\ log[Len(log)][2] = 1

WriteHalf ==
    /\ IF InLine
       THEN log' = Append(log, <<log[Len(log)][1], 2>>) /\ UNCHANGED begun
       ELSE begun < MaxLines /\ log' = Append(log, <<begun + 1, 1>>) /\ begun' = begun + 1
    /\ UNCHANGED <<source, offset, rotations, unseen, missed>>

Rotate ==
    /\ log # <<>> /\ rotations < MaxRotations
    /\ log' = <<>> /\ rotations' = rotations + 1
    /\ unseen' = TRUE
    /\ missed' = missed \cup LinesIn(IF unseen THEN 1 ELSE offset.at + 1, Len(log))
    /\ UNCHANGED <<source, begun, offset>>

-----------------------------------------------------------------------------
(***************************************************************************)
(* pollFile.                                                               *)
(***************************************************************************)
\* Where it reads from: a file seen for the first time, a file that has
\* become shorter, or where it stopped.
Start ==
    IF ~offset.known THEN IF source.fromStart THEN 0 ELSE Len(log)
    ELSE IF Len(log) < offset.at THEN 0 ELSE offset.at

\* The newlines within what it reads.
Newlines(o) == {k \in (o + 1)..Min({Len(log), o + MaxRead}) : log[k][2] = 2}

\* The event of the line that ends at k; a fragment when it begins before o.
EventAt(o, k) == <<IF k - 1 > o THEN "event" ELSE "fragment", log[k][1]>>

\* The lines of one poll, by their ends: as many as make MaxBatch events.
Ends(o) ==
    LET cut == {k \in Newlines(o) : EventAt(o, k)[1] = "fragment" /\ ~source.plain}
    IN  {k \in Newlines(o) : Cardinality({n \in Newlines(o) \ cut : n < k}) < MaxBatch}

Unparsed(o) ==
    ~source.plain /\ \E k \in Ends(o) : EventAt(o, k)[1] = "fragment"

\* The number of S that has i - 1 smaller ones beside it.
Nth(S, i) == CHOOSE k \in S : Cardinality({n \in S : n <= k}) = i

PolledEnds(o) == {k \in Ends(o) : source.plain \/ EventAt(o, k)[1] = "event"}

Polled(o) ==
    [i \in 1..Cardinality(PolledEnds(o)) |-> EventAt(o, Nth(PolledEnds(o), i))]

\* Mutant of Consumed: an unfinished line is passed over as well.
ConsumedAll(o) == Min({Len(log), o + MaxRead})

Consumed(o) == Max({o} \cup Ends(o))

\* Poll moves the offset before anything is done with the events.
Poll ==
    LET o == Start
    IN  /\ offset' = [known |-> TRUE, at |-> Consumed(o)]
        /\ unseen' = FALSE
        /\ missed' = IF unseen \/ ~offset.known
                     THEN missed \cup LinesIn(1, o) ELSE missed
        /\ UNCHANGED <<source, log, begun, rotations>>

\* A new process has seen no file.
TailerNew == offset' = NotKnown /\ UNCHANGED <<source, log, begun, rotations, unseen>>

=============================================================================
