--------------------------- MODULE ResponseTools ----------------------------
(***************************************************************************)
(* The response tools of one Agent.  A host has the nftables or the netsh  *)
(* backend, and every host has the quarantine.  The backend and the        *)
(* quarantine have no file, no table and no variable in common and are     *)
(* called one at a time, so a behaviour uses one of the three: family says *)
(* which, and the others keep their initial state.                         *)
(***************************************************************************)
EXTENDS NftContainment, NetshContainment, Quarantine

VARIABLE family

toolsVars == <<callVars, nftVars, quarantineVars, netshVars, family>>

ToolsInit ==
    /\ family \in {"nft", "netsh", "files"}
    /\ CallInit /\ NftInit /\ QuarantineInit /\ NetshInit

\* What the Control Plane may ask for, by family.
Requests ==
    ({"host.isolate"} \X {"", "isolate", "release"} \X {"host"})
      \cup ({"firewall.block"} \X {"", "block", "unblock"} \X Addr)
      \cup ({"firewall.port"} \X {"", "open", "close"} \X Port)

FileRequests ==
    ({"file.quarantine"} \X {"", "quarantine"} \X (Content \cup {"any"}))
      \cup ({"file.quarantine"} \X {"restore"} \X Content)

ExecuteTool ==
    /\ \E r \in IF family = "files" THEN FileRequests ELSE Requests :
          Execute(r[1], r[2], r[3])
    /\ UNCHANGED <<nftVars, quarantineVars, netshVars, family>>

NftNext == family = "nft" /\ NftStep /\ UNCHANGED <<quarantineVars, netshVars, family>>

NetshNext == family = "netsh" /\ NetshStep /\ UNCHANGED <<nftVars, quarantineVars, family>>

FilesNext == family = "files" /\ QuarantineStep /\ UNCHANGED <<nftVars, netshVars, family>>

ToolsNext == ExecuteTool \/ NftNext \/ NetshNext \/ FilesNext

ToolsSpec == ToolsInit /\ [][ToolsNext]_toolsVars

-----------------------------------------------------------------------------
\* The types of the three families' state.
ToolsTypes ==
    /\ call = Idle
         \/ call \in [pc : {"start", "save", "create", "undo", "drop", "add", "delete",
                          "forget", "export", "unpass", "pass", "dns", "block",
                          "rollback", "clear", "import", "disown", "copy", "check",
                          "manifest", "remove", "fill", "dropObject", "dropManifest"},
                    op : {Operations[t][i] : t \in DOMAIN Operations, i \in {1, 2}},
                    arg : {"host", "any"} \cup Target \cup Content, fresh : BOOLEAN]
    /\ ctx \in {"live", "cancelled"} /\ unsettled \in BOOLEAN /\ calls \in 0..MaxCalls
    /\ table \subseteq {"isolation", "block"} /\ state \subseteq {"isolation", "block"}
    /\ blocked \subseteq Addr /\ (blocked # {} => "block" \in table)
    /\ policy \in Policies /\ isolation \in Policies \cup {None}
    /\ backup \in Policies \cup {None}
    /\ owner \in [Target -> (1..MaxCalls) \cup {None}] /\ reverted \subseteq Target
    /\ file \in Content \cup {Nothing, Partial}
    /\ object \subseteq Content /\ manifest \subseteq Content
    /\ (call = Idle => held = NotHeld)

(***************************************************************************)
(* What the Agent has put in force it owns: a table without its signed     *)
(* file is refused by release and unblock for good, and a rule that no     *)
(* file names is not found by unblock and close.  Crashes, reboots and     *)
(* failing steps cannot separate the two; NftContainment and               *)
(* NetshContainment name what can.                                         *)
(***************************************************************************)
ContainmentIsOwned ==
    /\ family = "nft" => TableIsOwned
    /\ family = "netsh" => RuleIsOwned

(***************************************************************************)
(* What the Agent reports of a containment action to the Control Plane is  *)
(* so, on either platform.                                                 *)
(***************************************************************************)
AnswerIsTrue ==
    /\ family = "nft" => NftAnswerIsTrue
    /\ family = "netsh" => NetshAnswerIsTrue

=============================================================================
