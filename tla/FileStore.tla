------------------------------ MODULE FileStore -----------------------------
(***************************************************************************)
(* FileStore.Save (internal/state/file.go:134-181), system call by system  *)
(* call, over a file system that may lose what was not synced.             *)
(*                                                                         *)
(* path is the content the state file's name refers to; after a power loss *)
(* it is one of durable: a rename that the directory was not synced after  *)
(* may be lost, and data that was renamed before it was synced may be torn.*)
(* A process crash loses neither.  Every call can fail.                    *)
(***************************************************************************)
CONSTANTS
  Docs,   \* complete state documents
  Empty   \* the document a missing file stands for

VARIABLES
  pc,      \* the system call Save is about to make
  doc,     \* the document being saved
  temp,    \* content of the temporary file
  synced,  \* the temporary file's content was synced
  path,    \* content of the state file
  durable, \* contents the state file may have after a power loss
  reply    \* how the latest save ended

saveVars == <<pc, doc, temp, synced, path, durable, reply>>

Torn == "torn"          \* a partly written document
NoFile == "no file"
NoDoc == "no document"

ASSUME DocsAssumption ==
  /\ Empty \in Docs
  /\ Docs \cap {Torn, NoFile, NoDoc} = {}

BeforeRename == {"create", "chmod", "encode", "sync", "close", "rename"}
AfterRename == {"opendir", "syncdir"}

SaveTypeOK ==
  /\ pc \in {"idle", "mkdir"} \cup BeforeRename \cup AfterRename
  /\ doc \in Docs \cup {NoDoc}
  /\ temp \in Docs \cup {Torn, NoFile}
  /\ synced \in BOOLEAN
  /\ path \in Docs
  /\ durable \in SUBSET Docs
  /\ reply \in {"none", "ok", "error"}

SaveInit ==
  /\ pc = "idle"
  /\ doc = NoDoc
  /\ temp = NoFile
  /\ synced = FALSE
  /\ path = Empty
  /\ durable = {Empty}
  /\ reply = "none"

\* The call at `from` succeeds; Save goes on to `to`.
Goes(from, to) ==
  /\ pc = from
  /\ pc' = to
  /\ UNCHANGED <<doc, reply>>

\* The ledger calls Save.
Call ==
  /\ pc = "idle"
  /\ pc' = "mkdir"
  /\ doc' \in Docs
  /\ reply' = "none"
  /\ UNCHANGED <<temp, synced, path, durable>>

MkdirAll == Goes("mkdir", "create") /\ UNCHANGED <<temp, synced, path, durable>>

CreateTemp ==
  /\ Goes("create", "chmod")
  /\ temp' = Torn
  /\ synced' = FALSE
  /\ UNCHANGED <<path, durable>>

Chmod == Goes("chmod", "encode") /\ UNCHANGED <<temp, synced, path, durable>>

\* The whole document is written to the temporary file.
Encode ==
  /\ Goes("encode", "sync")
  /\ temp' = doc
  /\ UNCHANGED <<synced, path, durable>>

\* Fault: the temporary file is closed without being synced.
SyncSkipped == Goes("sync", "close") /\ UNCHANGED <<temp, synced, path, durable>>

SyncFile ==
  /\ Goes("sync", "close")
  /\ synced' = TRUE
  /\ UNCHANGED <<temp, path, durable>>

CloseFile == Goes("close", "rename") /\ UNCHANGED <<temp, synced, path, durable>>

\* The temporary file takes the state file's name.
Rename ==
  /\ Goes("rename", "opendir")
  /\ path' = temp
  /\ durable' = durable \cup {temp} \cup IF synced THEN {} ELSE {Torn}
  /\ temp' = NoFile
  /\ UNCHANGED synced

\* Fault: the save is acknowledged without syncing the directory.
AcknowledgeUnsynced ==
  /\ pc = "opendir"
  /\ pc' = "idle"
  /\ doc' = NoDoc
  /\ reply' = "ok"
  /\ UNCHANGED <<temp, synced, path, durable>>

OpenDir == Goes("opendir", "syncdir") /\ UNCHANGED <<temp, synced, path, durable>>

\* The directory is synced and Save returns nil.
SyncDir ==
  /\ pc = "syncdir"
  /\ pc' = "idle"
  /\ doc' = NoDoc
  /\ durable' = {path}
  /\ reply' = "ok"
  /\ UNCHANGED <<temp, synced, path>>

\* The call about to be made fails: the temporary file is removed, if it
\* still has that name, and Save returns the error.
Fail ==
  /\ pc # "idle"
  /\ pc' = "idle"
  /\ doc' = NoDoc
  /\ temp' = NoFile
  /\ reply' = "error"
  /\ UNCHANGED <<synced, path, durable>>

\* The process dies; a temporary file it leaves is never read again.
Crash ==
  /\ pc' = "idle"
  /\ doc' = NoDoc
  /\ temp' = NoFile
  /\ reply' = "none"
  /\ UNCHANGED <<synced, path, durable>>

\* The machine dies.
PowerLoss ==
  /\ path' \in durable
  /\ durable' = {path'}
  /\ pc' = "idle"
  /\ doc' = NoDoc
  /\ temp' = NoFile
  /\ reply' = "none"
  /\ UNCHANGED synced

SaveNext ==
  \/ Call \/ MkdirAll \/ CreateTemp \/ Chmod \/ Encode \/ SyncFile \/ CloseFile
  \/ Rename \/ OpenDir \/ SyncDir
  \/ Fail \/ Crash \/ PowerLoss

SaveSpec == SaveInit /\ [][SaveNext]_saveVars

-----------------------------------------------------------------------------
(* Properties.                                                             *)

(* Save promises a document that is replaced as a whole, and one that      *)
(* survives once Save returned nil.                                        *)
Atomic == INSTANCE AtomicStore WITH stored <- path, saving <- doc

ReplacedAsAWhole == Atomic!Spec

(* Whatever Load finds, after a crash or a power loss at any system call,  *)
(* is a complete document some Save was given: it never has to fail closed *)
(* on a file the program itself wrote.                                     *)
NeverTorn == path # Torn /\ Torn \notin durable

(* When Save returned nil a power loss cannot bring an older document      *)
(* back, not even after several saves that failed half way.                *)
AckSurvivesPowerLoss == reply = "ok" => durable = {path}

=============================================================================
