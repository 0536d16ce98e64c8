------------------------------- MODULE MCHunt -------------------------------
EXTENDS Hunt, TLC

MCField == {"pid"}
MCVariable == {"child_pid"}

\* Two rules of one family: the longer one has all events of the shorter one.
\* The shorter asks for an anomalous event, and for the same pid in both steps;
\* the longer binds in its second step what its third requires, and had bound the
\* variable in its first.
MCRules == <<
    [steps |-> <<{1, 3}, {2}>>, within |-> <<None, None>>, window |-> 2,
     bind |-> <<[child_pid |-> "pid"], <<>>>>, where |-> <<<<>>, [pid |-> "child_pid"]>>,
     minimum |-> 1, family |-> "f", base_score |-> 2],
    [steps |-> <<{1}, {3}, {2}>>, within |-> <<None, 1, 1>>, window |-> 2,
     bind |-> <<[child_pid |-> "pid"], [child_pid |-> "pid"], <<>>>>,
     where |-> <<<<>>, <<>>, [pid |-> "child_pid"]>>,
     minimum |-> 0, family |-> "f", base_score |-> 3] >>

\* The events in the order they happen; they arrive in any order.
MCEvent == 1..4

Feature(name, value) == [name |-> name, value |-> value]
Says(kind, asset, at, pid) ==
    [kind |-> kind, asset |-> asset, role |-> 1, at |-> at, field |-> [pid |-> pid],
     features |-> <<Feature("event_type", kind)>>,
     entities |-> {<<"asset", asset>>} \cup (IF kind = 2 THEN {<<"network", "c2">>} ELSE {})]

MCData == << Says(1, 1, 0, 1), Says(3, 1, 1, 2), Says(2, 1, 2, 2), Says(2, 2, 7, 1) >>

Sym == Permutations(Worker)

=============================================================================
