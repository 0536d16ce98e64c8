--------------------------- MODULE NftContainment ---------------------------
(***************************************************************************)
(* Host isolation and address blocks on Linux                              *)
(* (agent/internal/tools/containment_linux.go).                            *)
(*                                                                         *)
(* Each of the two nftables tables has a signed file in the data directory *)
(* that says the Agent owns it.  The file is written before the table is   *)
(* made and removed after the table is gone.  Reading is one step with the *)
(* decision it leads to: nobody else writes these files and tables.  A     *)
(* listing that fails for any reason counts as "there is no such table".   *)
(* Tables do not survive a reboot of the host; files do.                   *)
(***************************************************************************)
EXTENDS ToolCall

VARIABLES table,        \* nftables tables of the Agent that are in force
          state,        \* tables whose signed ownership file exists
          blocked       \* the elements of the block table's two sets

nftVars == <<table, state, blocked>>

NftInit == table = {} /\ state = {} /\ blocked = {}

\* The table a call works on.
Table == IF call.op \in {"isolate", "release"} THEN "isolation" ELSE "block"

\* nft list table: seen only if it is there; not seeing one that is there
\* is the failure every caller takes for its absence.
Listed(seen) ==
    /\ seen => Table \in table
    /\ ~seen /\ Table \notin table => UNCHANGED <<ctx, unsettled>>
    /\ ~seen /\ Table \in table => CleanupFails
    /\ seen => Succeeds

NftDone(ok) == Answer(ok) /\ UNCHANGED nftVars
NftGoto(pc) == Goto(pc) /\ UNCHANGED nftVars

-----------------------------------------------------------------------------
(***************************************************************************)
(* Isolate, and Block with ensureBlockTable(create = true).                *)
(***************************************************************************)
\* nft is missing, or the Control Plane's name does not resolve.
EstablishFails ==
    /\ call.pc = "start"
    /\ Fails /\ NftDone(FALSE)

EstablishLook ==
    /\ call.pc = "start"
    /\ \E seen \in BOOLEAN :
          /\ Listed(seen)
          /\ \/ seen /\ Table \notin state /\ NftDone(FALSE)
             \/ seen /\ Table \in state /\ call.op = "isolate" /\ NftDone(TRUE)
             \/ seen /\ Table \in state /\ call.op = "block" /\ NftGoto("drop")
             \/ ~seen /\ NftGoto(IF Table \in state THEN "create" ELSE "save")

\* Mutant of EstablishSave: the table is created first.
EstablishSaveLater ==
    /\ call.pc = "save"
    /\ FileStep
    /\ GotoFresh("create") /\ UNCHANGED nftVars

\* saveSignedContainmentState.  The last step of writePrivateFile, the chmod
\* of a file that has its name already, may fail as well.
EstablishSave ==
    /\ call.pc = "save"
    /\ FileStep
    /\ \/ state' = state \cup {Table} /\ GotoFresh("create")
       \/ state' = state /\ Answer(FALSE)
       \/ state' = state \cup {Table} /\ Answer(FALSE)
    /\ UNCHANGED <<table, blocked>>

\* Mutant of EstablishCreate: a script that fails is not an error.
EstablishCreateAnyway ==
    /\ call.pc = "create"
    /\ \/ Succeeds /\ table' = table \cup {Table}
       \/ Fails /\ table' = table
    /\ IF call.op = "isolate" THEN Answer(TRUE) ELSE Goto("drop")
    /\ UNCHANGED <<state, blocked>>

\* nft -f: all of the script or nothing.  Only a state this call has
\* written is taken back when it fails.
EstablishCreate ==
    /\ call.pc = "create"
    /\ \/ /\ Succeeds
          /\ table' = table \cup {Table}
          /\ IF call.op = "isolate" THEN Answer(TRUE) ELSE Goto("drop")
       \/ /\ \/ Fails /\ table' = table
             \/ KilledAfterEffect /\ table' = table \cup {Table}
          /\ IF call.fresh THEN Goto("undo") ELSE Answer(FALSE)
    /\ UNCHANGED <<state, blocked>>

EstablishUndo ==
    /\ call.pc = "undo"
    /\ FileStep
    /\ state' \in {state, state \ {Table}}
    /\ Answer(FALSE)
    /\ UNCHANGED <<table, blocked>>

-----------------------------------------------------------------------------
(***************************************************************************)
(* The rest of Block: the element is deleted, whatever comes of it, and    *)
(* added again.                                                            *)
(***************************************************************************)
BlockDrop ==
    /\ At("block", "drop")
    /\ \/ Succeeds /\ blocked' = blocked \ {call.arg}
       \/ Fails /\ blocked' = blocked
       \/ KilledAfterEffect /\ blocked' = blocked \ {call.arg}
    /\ Goto("add")
    /\ UNCHANGED <<table, state>>

BlockAdd ==
    /\ At("block", "add")
    /\ \/ Succeeds /\ blocked' = blocked \cup {call.arg} /\ Answer(TRUE)
       \/ Fails /\ blocked' = blocked /\ Answer(FALSE)
       \/ KilledAfterEffect /\ blocked' = blocked \cup {call.arg} /\ Answer(FALSE)
    /\ UNCHANGED <<table, state>>

-----------------------------------------------------------------------------
(***************************************************************************)
(* Release, and Unblock with ensureBlockTable(create = false).             *)
(***************************************************************************)
WithdrawLook ==
    /\ call.pc = "start"
    /\ \E seen \in BOOLEAN :
          /\ Listed(seen)
          /\ \/ seen /\ Table \notin state /\ NftDone(FALSE)
             \/ seen /\ Table \in state /\ NftGoto("delete")
             \/ ~seen /\ Table \notin state /\ NftDone(TRUE)
             \/ ~seen /\ Table \in state /\ NftGoto("forget")

\* Release deletes the table and then its state; Unblock deletes one
\* element, which has to be there, and keeps the table.
WithdrawDelete ==
    /\ call.pc = "delete"
    /\ \/ /\ Fails /\ Answer(FALSE) /\ UNCHANGED <<table, blocked>>
       \/ /\ call.op = "release"
          /\ table' = table \ {Table} /\ UNCHANGED blocked
          /\ \/ Succeeds /\ Goto("forget")
             \/ KilledAfterEffect /\ Answer(FALSE)
       \/ /\ call.op = "unblock" /\ call.arg \in blocked
          /\ blocked' = blocked \ {call.arg} /\ UNCHANGED table
          /\ \/ Succeeds /\ Answer(TRUE)
             \/ KilledAfterEffect /\ Answer(FALSE)
    /\ UNCHANGED state

WithdrawForget ==
    /\ call.pc = "forget"
    /\ FileStep
    /\ \/ state' = state \ {Table} /\ Answer(TRUE)
       \/ state' = state /\ Answer(FALSE)
    /\ UNCHANGED <<table, blocked>>

\* OpenPort and ClosePort.
PortRefused ==
    /\ call.pc = "start" /\ call.op \in {"open", "close"}
    /\ FileStep /\ NftDone(FALSE)

NftRestart == Restarted /\ UNCHANGED nftVars

\* nftables tables are kept in the kernel only.
NftReboot ==
    /\ call' = Idle /\ ctx' = "live" /\ answer' = NoAnswer
    /\ table # {} /\ table' = {} /\ blocked' = {}
    /\ UNCHANGED <<state, calls, unsettled>>

NftEstablish ==
    EstablishFails \/ EstablishLook \/ EstablishSave \/ EstablishCreate \/ EstablishUndo
NftWithdraw == WithdrawLook \/ WithdrawDelete \/ WithdrawForget

NftIsolate == call.pc # "idle" /\ call.op = "isolate" /\ NftEstablish
NftBlock == call.pc # "idle" /\ call.op = "block" /\ (NftEstablish \/ BlockDrop \/ BlockAdd)
NftRelease == call.pc # "idle" /\ call.op = "release" /\ NftWithdraw
NftUnblock == call.pc # "idle" /\ call.op = "unblock" /\ NftWithdraw

NftStep ==
    \/ NftIsolate \/ NftBlock \/ NftRelease \/ NftUnblock \/ PortRefused
    \/ NftRestart \/ NftReboot

-----------------------------------------------------------------------------
(***************************************************************************)
(* Every table in force has its signed owner, so that a later release or   *)
(* unblock can take it away: both tools refuse a table without one, for    *)
(* good.  Crashes, reboots and failing steps cannot separate the two; only *)
(* a shutdown in the middle of a command, or a listing that failed on an   *)
(* existing table, can.                                                    *)
(***************************************************************************)
TableIsOwned == ~unsettled => table \subseteq state

(***************************************************************************)
(* A success the Agent reports is so when it reports it.  For isolate and  *)
(* block this holds even when commands were unsettled; release and       *)
(* unblock believe a listing that failed.                                  *)
(***************************************************************************)
NftAnswerIsTrue ==
    answer.ok =>
      CASE answer.op = "isolate" -> "isolation" \in table
        [] answer.op = "block"   -> "block" \in table /\ answer.arg \in blocked
        [] answer.op = "release" -> "isolation" \in table => unsettled
        [] answer.op = "unblock" -> answer.arg \in blocked => unsettled
        [] OTHER -> FALSE

=============================================================================
