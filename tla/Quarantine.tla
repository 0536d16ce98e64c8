----------------------------- MODULE Quarantine -----------------------------
(***************************************************************************)
(* file.quarantine and its restore                                         *)
(* (agent/internal/tools/quarantine_tools.go).                             *)
(*                                                                         *)
(* The file is copied, the copy gets a name made of the path and the       *)
(* content, a signed manifest is written, and then the file is removed by  *)
(* its path.  Other processes go on using that path: they write to the     *)
(* file in place, put another one there, or delete it.  The re-stat after  *)
(* the copy is made on the open file, so it sees writes in place only.     *)
(* Manifests and objects are not changed by anyone else.                   *)
(***************************************************************************)
EXTENDS ToolCall

CONSTANTS Content,      \* what a file can hold
          Nothing,      \* no file
          Partial,      \* a restored file that is not complete
          MaxWrites     \* bound: changes other processes make

ASSUME QuarantineAssumption ==
    /\ MaxWrites \in Nat
    /\ Nothing \notin Content /\ Partial \notin Content /\ Nothing # Partial

VARIABLES file,         \* what is at the path: a content, Partial or Nothing
          object,       \* contents that have a quarantine object (.bin)
          manifest,     \* contents that have a signed manifest (.json)
          held,         \* what the call holds: [content, same, linked]
          meant,        \* history: what other processes last put at the path
          raced,        \* history: the path got another file after the tool
                        \* had looked at it
          writes

quarantineVars == <<file, object, manifest, held, meant, raced, writes>>

\* content: of the open file; same: no write in place since it was opened;
\* linked: the path still names that file.
NotHeld == [content |-> Nothing, same |-> TRUE, linked |-> TRUE]

QuarantineInit ==
    /\ file \in Content
    /\ object = {} /\ manifest = {}
    /\ held = NotHeld
    /\ meant = file /\ raced = FALSE /\ writes = 0

QuarantineDone(ok) ==
    Answer(ok) /\ FileStep /\ held' = NotHeld /\ UNCHANGED <<meant, raced, writes>>

QuarantineGoto(pc) ==
    Goto(pc) /\ FileStep /\ UNCHANGED <<meant, raced, writes>>

-----------------------------------------------------------------------------
(***************************************************************************)
(* Other processes.                                                        *)
(***************************************************************************)
Holding == call # Idle /\ held.content # Nothing

\* Written in place, through the file that has the path now.
WriteInPlace(c) ==
    /\ writes < MaxWrites /\ file # Nothing /\ file # c
    /\ file' = c /\ meant' = c /\ writes' = writes + 1
    /\ held' = [held EXCEPT !.same = @ /\ ~(Holding /\ held.linked)]
    /\ raced' = (raced \/ (Holding /\ call.pc \notin {"copy", "check"}))
    /\ UNCHANGED <<object, manifest, callVars>>

\* Another file, or none, takes the path.
Replace(c) ==
    /\ writes < MaxWrites /\ file # c
    /\ file' = c /\ meant' = c /\ writes' = writes + 1
    /\ held' = [held EXCEPT !.linked = @ /\ ~Holding]
    /\ raced' = (raced \/ Holding)
    /\ UNCHANGED <<object, manifest, callVars>>

-----------------------------------------------------------------------------
(***************************************************************************)
(* FileQuarantine.Execute.                                                 *)
(***************************************************************************)
QuarantineOpen ==
    /\ At("quarantine", "start")
    /\ \/ QuarantineDone(FALSE)       \* outside the roots, missing, not regular
       \/ /\ file # Nothing
          /\ held' = [content |-> file, same |-> TRUE, linked |-> TRUE]
          /\ QuarantineGoto("copy")
    /\ UNCHANGED <<file, object, manifest>>

\* The bytes are the open file's own, however often it was written before.
QuarantineCopy ==
    /\ At("quarantine", "copy")
    /\ \/ QuarantineDone(FALSE)
       \/ /\ held' = [held EXCEPT !.content = IF held.linked THEN file ELSE @]
          /\ QuarantineGoto("check")
    /\ UNCHANGED <<file, object, manifest>>

\* Mutant of QuarantineCheck: the file is not looked at again.
QuarantineUnchecked ==
    /\ At("quarantine", "check")
    /\ held.content # Partial
    /\ held.content \notin manifest
    /\ object' = object \cup {held.content}
    /\ QuarantineGoto("manifest") /\ UNCHANGED <<held, file, manifest>>

\* The re-stat, the expected digest, the object that exists already, and the
\* rename that gives the copy its name.
QuarantineCheck ==
    /\ At("quarantine", "check")
    /\ \/ QuarantineDone(FALSE) /\ UNCHANGED object
       \/ /\ held.same /\ held.content # Partial
          /\ call.arg \in {"any", held.content}
          /\ held.content \notin manifest
          /\ object' = object \cup {held.content}
          /\ QuarantineGoto("manifest") /\ UNCHANGED held
    /\ UNCHANGED <<file, manifest>>

\* saveQuarantineManifest: the chmod that ends it may fail when the manifest
\* has its name; the object is removed then, too, if it can be.
QuarantineManifest ==
    /\ At("quarantine", "manifest")
    /\ \/ /\ manifest' = manifest \cup {held.content} /\ UNCHANGED <<object, held>>
          /\ QuarantineGoto("remove")
       \/ /\ manifest' \in {manifest, manifest \cup {held.content}}
          /\ object' \in {object, object \ {held.content}}
          /\ QuarantineDone(FALSE)
    /\ UNCHANGED file

\* os.Remove by path.  When it fails the manifest and the object go, if they
\* can be removed.
QuarantineRemove ==
    /\ At("quarantine", "remove")
    /\ \/ /\ file # Nothing
          /\ file' = Nothing /\ UNCHANGED <<object, manifest>>
          /\ QuarantineDone(TRUE)
       \/ /\ manifest' \in {manifest, manifest \ {held.content}}
          /\ object' \in {object, object \ {held.content}}
          /\ UNCHANGED file
          /\ QuarantineDone(FALSE)

-----------------------------------------------------------------------------
(***************************************************************************)
(* FileRestore.Execute.                                                    *)
(***************************************************************************)
\* The manifest, the object, and the file created only if none is there.
RestoreOpen ==
    /\ At("restore", "start")
    /\ \/ QuarantineDone(FALSE) /\ UNCHANGED file
       \/ /\ call.arg \in manifest /\ call.arg \in object
          /\ file = Nothing /\ file' = Partial
          /\ held' = [content |-> call.arg, same |-> TRUE, linked |-> TRUE]
          /\ QuarantineGoto("fill")
    /\ UNCHANGED <<object, manifest>>

\* The copy, its sync and the comparison with the manifest.  A failure
\* removes whatever has the path.
RestoreFill ==
    /\ At("restore", "fill")
    /\ \/ /\ file' = IF held.linked THEN held.content ELSE file
          /\ QuarantineGoto("dropObject") /\ UNCHANGED held
       \/ file' \in {file, Nothing} /\ QuarantineDone(FALSE)
    /\ UNCHANGED <<object, manifest>>

RestoreDropObject ==
    /\ At("restore", "dropObject")
    /\ \/ /\ object' = object \ {held.content}
          /\ QuarantineGoto("dropManifest") /\ UNCHANGED held
       \/ object' = object /\ QuarantineDone(FALSE)
    /\ UNCHANGED <<file, manifest>>

RestoreDropManifest ==
    /\ At("restore", "dropManifest")
    /\ \/ manifest' = manifest \ {held.content} /\ QuarantineDone(TRUE)
       \/ manifest' = manifest /\ QuarantineDone(FALSE)
    /\ UNCHANGED <<file, object>>

QuarantineRestart ==
    /\ Restarted
    /\ held' = NotHeld
    /\ UNCHANGED <<file, object, manifest, meant, raced, writes>>

QuarantineStep ==
    \/ \E c \in Content : WriteInPlace(c)
    \/ \E c \in Content \cup {Nothing} : Replace(c)
    \/ QuarantineOpen \/ QuarantineCopy \/ QuarantineCheck
    \/ QuarantineManifest \/ QuarantineRemove
    \/ RestoreOpen \/ RestoreFill \/ RestoreDropObject \/ RestoreDropManifest
    \/ QuarantineRestart

-----------------------------------------------------------------------------
(***************************************************************************)
(* What another process left at the path is never lost: it is there, or it *)
(* is in quarantine, complete and with its manifest, through every failing *)
(* step and crash, unless the path was given another file while the tool   *)
(* worked on it.                                                           *)
(***************************************************************************)
ContentIsKept ==
    meant # Nothing /\ ~raced => file = meant \/ meant \in object \cap manifest

=============================================================================
