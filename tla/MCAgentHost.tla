---------------------------- MODULE MCAgentHost -----------------------------
EXTENDS AgentHost, TLC

CONSTANTS s1, s2, w1, q1

MCItem == {s1, s2, w1, q1}
MCKind ==
    [i \in MCItem |-> CASE i = q1 -> "pair" [] i = w1 -> "software" [] OTHER -> "service"]
MCPosted == {MCItem}

MCSetups ==
    {[sources |-> {"files"}, hosts |-> {{}}, faults |-> 2],
     [sources |-> {"files", "api"}, hosts |-> {{}}, faults |-> 0],
     [sources |-> {"inventory"}, hosts |-> {{}, {s1, s2, w1}, {w1, q1}}, faults |-> 2],
     [sources |-> {"inventory", "api"}, hosts |-> {{s1, s2}}, faults |-> 1]}

Sym == Permutations(Content) \cup Permutations({s1, s2})

=============================================================================
