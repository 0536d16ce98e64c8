----------------------------- MODULE AgentHost ------------------------------
(***************************************************************************)
(* The parts of one Agent that share no state with each other: the runtime *)
(* with its journal, the client of Central, to which the runtime hands     *)
(* events without learning anything back, and the response tools.  What    *)
(* one part does is invisible to the others, so a behaviour is one of one  *)
(* part, and the others keep their initial state.                          *)
(***************************************************************************)
EXTENDS ResponseTools, AgentRuntime, CentralClient

VARIABLE part

hostVars == <<toolsVars, runtimeVars, centralVars, part>>

\* The other parts' choices are fixed, so that a state is counted once.
HostInit ==
    /\ part \in {"runtime", "central", "tools"}
    /\ ToolsInit /\ RuntimeInit /\ CentralInit
    /\ part # "tools" => family = "files"
    /\ part # "runtime" =>
          setup.sources = {"files"} /\ source.fromStart /\ source.plain

HostNext ==
    \/ part = "tools" /\ ToolsNext /\ UNCHANGED <<runtimeVars, centralVars, part>>
    \/ part = "runtime" /\ RuntimeNext /\ UNCHANGED <<toolsVars, centralVars, part>>
    \/ part = "central" /\ CentralNext /\ UNCHANGED <<toolsVars, runtimeVars, part>>

HostSpec == HostInit /\ [][HostNext]_hostVars

-----------------------------------------------------------------------------
\* The types of the tools' and of the runtime's state; a worker of the runtime
\* has events and findings only while it is about to use them, and a tool
\* holds a file only during its call.
HostTypeOK == ToolsTypes /\ RuntimeTypes

=============================================================================
