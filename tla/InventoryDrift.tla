--------------------------- MODULE InventoryDrift ---------------------------
(***************************************************************************)
(* Inventory drift (agent/internal/detection/inventory_drift.go and        *)
(* agent/internal/baseline/store.go).                                      *)
(*                                                                         *)
(* A snapshot of the host is compared with the one before it, and every    *)
(* item that is new is a finding.  The snapshot before is kept in memory;  *)
(* a signed file holds the last one that was processed to the end, and a   *)
(* new process starts from that file.                                      *)
(*                                                                         *)
(* An item is what the rule reports at most once: a service (again when it *)
(* becomes automatic), a listener that is reachable from outside, a        *)
(* software package, or a suspicious pair of a process and its parent.     *)
(* Pairs are reported without a snapshot to compare with and whether or    *)
(* not a list was truncated; new software is one finding together.         *)
(***************************************************************************)
EXTENDS Naturals, Sequences, SequencesExt, FiniteSets, FiniteSetsExt

CONSTANTS Item,
          Kind,           \* the kind of each item
          MaxDelta,       \* maxInventoryDeltaFindings
          MaxChanges      \* bound: changes of the host

Kinds == {"service", "listener", "software", "pair"}

ASSUME InventoryAssumption ==
    /\ IsFiniteSet(Item) /\ Kind \in [Item -> Kinds]
    /\ MaxDelta \in Nat \ {0} /\ MaxChanges \in Nat

VARIABLES present,     \* what the host has now
          changes,
          previous,    \* the drift rule's previous snapshot
          baseline,    \* the signed file
          accepted     \* history: items known without a finding, by design

driftVars == <<present, changes, previous, baseline, accepted>>

Snapshot == [known : BOOLEAN, items : SUBSET Item, truncated : SUBSET Kinds]

NoSnapshot == [known |-> FALSE, items |-> {}, truncated |-> {}]

DriftInit ==
    /\ changes = 0
    /\ previous = NoSnapshot /\ baseline = NoSnapshot /\ accepted = {}

HostChanges ==
    /\ changes < MaxChanges /\ changes' = changes + 1
    /\ \E i \in Item : present' = IF i \in present THEN present \ {i} ELSE present \cup {i}
    /\ UNCHANGED <<previous, baseline, accepted>>

Of(kind, items) == {i \in items : Kind[i] = kind}

\* What Collect may return: each list whole; cut at its limit and marked so;
\* or empty with a warning that nothing reads, when its command failed.
Collected ==
    {snap \in [known : {TRUE}, items : SUBSET present, truncated : SUBSET Kinds] :
        \A k \in Kinds :
            LET got == Of(k, snap.items) all == Of(k, present)
            IN  IF k \in snap.truncated THEN got # {} /\ got # all ELSE got \in {{}, all}}

\* The new items of a kind that the rule looks at.
New(k, snap) ==
    IF k = "pair" \/ (previous.known /\ k \notin previous.truncated \cup snap.truncated)
    THEN Of(k, snap.items \ previous.items) ELSE {}

\* MaxDelta of them at most, in an order that is not modelled.
Some(s) == kSubset(Min({MaxDelta, Cardinality(s)}), s)

\* A finding is the set of items it names: one item, or the new software.
Singles(k, snap) == {{{i} : i \in s} : s \in Some(New(k, snap))}

\* The possible findings of a snapshot.
Findings(snap) ==
    {({New("software", snap)} \ {{}}) \cup a \cup b \cup c :
        a \in Singles("service", snap), b \in Singles("listener", snap),
        c \in Singles("pair", snap)}

\* What is not reported by design: past the limit, or, of all but the pairs,
\* what is in a first or a truncated list or follows one.
Silent(i, snap) ==
    \/ Cardinality(Of(Kind[i], snap.items \ previous.items)) > MaxDelta
          /\ Kind[i] # "software"
    \/ /\ Kind[i] # "pair"
       /\ ~previous.known \/ Kind[i] \in previous.truncated \cup snap.truncated

\* Mutant of Evaluate: the snapshot is made the baseline at once.
EvaluateAndSave(snap, found) ==
    /\ found \in Findings(snap)
    /\ previous' = snap /\ baseline' = snap
    /\ accepted' = accepted \cup
           {i \in snap.items \ (previous.items \cup UNION found) : Silent(i, snap)}
    /\ UNCHANGED <<present, changes>>

\* Evaluate remembers the snapshot, whatever becomes of its findings.
Evaluate(snap, found) ==
    /\ found \in Findings(snap)
    /\ previous' = snap
    /\ accepted' = accepted \cup
           {i \in snap.items \ (previous.items \cup UNION found) : Silent(i, snap)}
    /\ UNCHANGED <<present, changes, baseline>>

\* Findings that process could not record are not made again.
Unrecorded(found) ==
    /\ accepted' = accepted \cup UNION found
    /\ UNCHANGED <<present, changes, previous, baseline>>

\* Save, by rename.
Save(snap) == baseline' = snap /\ UNCHANGED <<present, changes, previous, accepted>>

\* Load and SeedInventoryBaseline.
Seed == previous' = baseline

=============================================================================
