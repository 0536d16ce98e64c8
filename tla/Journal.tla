------------------------------ MODULE Journal -------------------------------
(***************************************************************************)
(* The evidence journal (agent/internal/store/journal.go): one record per  *)
(* line, numbered and chained by hash, appended under a mutex and verified *)
(* as a whole when the Agent starts.                                       *)
(*                                                                         *)
(* Append is one step for the other goroutines.  A write may be cut short, *)
(* by an error or by the death of the process, anywhere in the line: just  *)
(* before its newline as well, where the record is complete but the next   *)
(* one is glued to it.                                                     *)
(***************************************************************************)
EXTENDS Naturals, Sequences

CONSTANT LongLine     \* log lines whose record is longer than VerifyFile reads

VARIABLES lines,      \* the lines of the file, the last one perhaps torn
          torn,       \* the last line has no newline
          head,       \* the open journal: sequence and lastHash
          scarred     \* history: a line was not written as it should be

journalVars == <<lines, torn, head, scarred>>

\* A hash stands for the record it was taken of: its sequence and its body.
Hash(r) == <<r.seq, r.body>>
NoHash == <<0, <<"none", "none">>>>

Junk == [seq |-> 0, body |-> <<"junk", "junk">>, prev |-> NoHash]

TooLong(body) == body[1] \in {"event", "fragment"} /\ body[2] \in LongLine

JournalInit == lines = <<>> /\ torn = FALSE /\ head = NoHash /\ scarred = FALSE

\* What VerifyFile finds, and where an open journal continues.
Previous(i) == IF i = 1 THEN NoHash ELSE Hash(lines[i - 1])

VerifyFile ==
    \A i \in 1..Len(lines) :
        lines[i].seq = i /\ lines[i].prev = Previous(i) /\ ~TooLong(lines[i].body)

OpenJournal == VerifyFile /\ head' = Previous(Len(lines) + 1)

Record(body) == [seq |-> head[1] + 1, body |-> body, prev |-> head]

\* file.Write, of the whole line or without its newline.
Write(r, newline) ==
    /\ lines' = IF torn THEN [lines EXCEPT ![Len(lines)] = Junk] ELSE Append(lines, r)
    /\ torn' = ~newline

Written(body) == Write(Record(body), TRUE) /\ scarred' = (scarred \/ torn \/ TooLong(body))

\* Append returns the record.
Appended(body) == Written(body) /\ head' = Hash(Record(body))

\* A write that was cut short, or not synced.
Cut(body) ==
    /\ \/ Write(Junk, FALSE)
       \/ Write(Record(body), FALSE)
       \/ Write(Record(body), TRUE)
    /\ scarred' = TRUE

\* Mutant of AppendFailed: the record counts although it was not written.
AppendFailedCounts(body) ==
    head' = Hash(Record(body)) /\ UNCHANGED <<lines, torn, scarred>>

\* Append returns an error: from the encoder or the write, or from Sync after
\* all of the line was written.
AppendFailed(body) ==
    /\ UNCHANGED head
    /\ Cut(body) \/ UNCHANGED <<lines, torn, scarred>>

\* The process dies in Append.
DiesInAppend(body) == Cut(body) \/ Written(body)

Bodies == {lines[i].body : i \in 1..Len(lines)}

-----------------------------------------------------------------------------
(***************************************************************************)
(* The journal can be opened again, so the Agent can start again, through  *)
(* crashes between records and failed Appends that wrote nothing.  What    *)
(* closes it for good is a write that was cut short, a Sync that failed    *)
(* after the write, and a record longer than VerifyFile reads: Append does *)
(* not undo the first two and does not refuse the third.                   *)
(***************************************************************************)
JournalOpens == ~scarred => VerifyFile

=============================================================================
