------------------------------ MODULE StateLock -----------------------------
(***************************************************************************)
(* Several onomazo processes on one state file (internal/state/file.go:    *)
(* NewLockedFileStore, Load and its migration, Close; internal/app/        *)
(* build.go: Build, buildStore; the plan, apply and run commands of        *)
(* cmd/onomazo/command.go).  A writer takes the lock beside the file,      *)
(* without waiting, before it loads the file; a read-only plan loads it    *)
(* without the lock.                                                       *)
(*                                                                         *)
(* What a writer does with its records is Ledger.tla's subject: here each  *)
(* device wants one name, and a save replaces the file (FileStore.tla) and *)
(* does not fail.                                                          *)
(***************************************************************************)
EXTENDS Naturals, Sequences

CONSTANTS Processes, Keys, Nobody

ASSUME LockAssumption == Nobody \notin Processes

Settled3 == {"submitted", "failed"}
Status3 == {"none", "retrying"} \cup Settled3
Settled2 == {"pending", "stalled", "failed"}
Status2 == {"none"} \cup Settled2

\* What the state file can hold: nothing yet, a document of this or the
\* previous version, or something that cannot be read.
Document3 == [version : {"3"}, intents : [Keys -> Status3]]
Document2 == [version : {"2"}, intents : [Keys -> Status2]]
Missing == [version |-> "missing"]
Unreadable == {[version |-> "4"], [version |-> "malformed"]}

Nothing == [k \in Keys |-> "none"]

VARIABLES
  file,      \* the state file
  lock,      \* the process that holds the lock file's flock, or Nobody
  mode,      \* what each process runs: "apply" (or run), "plan", or "off"
  opening,   \* what is left of opening the store, in order
  memory,    \* the records each process loaded
  inflight   \* the devices each process has a rename request out for

vars == <<file, lock, mode, opening, memory, inflight>>

TypeOK ==
  /\ file \in {Missing} \cup Unreadable \cup Document2 \cup Document3
  /\ lock \in Processes \cup {Nobody}
  /\ mode \in [Processes -> {"off", "apply", "plan"}]
  /\ opening \in [Processes -> {<<>>, <<"load">>, <<"lock", "load">>}]
  /\ memory \in [Processes -> [Keys -> Status3]]
  /\ inflight \in [Processes -> SUBSET Keys]
  /\ \A p \in Processes : lock = p => mode[p] = "apply"

Init ==
  /\ file \in {Missing} \cup Unreadable \cup Document2 \cup Document3
  /\ lock = Nobody
  /\ mode = [p \in Processes |-> "off"]
  /\ opening = [p \in Processes |-> <<>>]
  /\ memory = [p \in Processes |-> Nothing]
  /\ inflight = [p \in Processes |-> {}]

-----------------------------------------------------------------------------
\* The process is gone, and the kernel drops its lock.
Exit(p) ==
  /\ mode' = [mode EXCEPT ![p] = "off"]
  /\ lock' = IF lock = p THEN Nobody ELSE lock
  /\ opening' = [opening EXCEPT ![p] = <<>>]
  /\ memory' = [memory EXCEPT ![p] = Nothing]
  /\ inflight' = [inflight EXCEPT ![p] = {}]
  /\ UNCHANGED file

\* Fault: the file is loaded before the lock is taken.
OpenStepsLoadFirst(m) == IF m = "apply" THEN <<"load", "lock">> ELSE <<"load">>

OpenSteps(m) == IF m = "apply" THEN <<"lock", "load">> ELSE <<"load">>

\* buildStore: who is going to write takes the lock, who plans does not.
Start(p) ==
  /\ mode[p] = "off"
  /\ \E m \in {"apply", "plan"} :
       /\ mode' = [mode EXCEPT ![p] = m]
       /\ opening' = [opening EXCEPT ![p] = OpenSteps(m)]
  /\ UNCHANGED <<file, lock, memory, inflight>>

Doing(p, step) == opening[p] # <<>> /\ Head(opening[p]) = step
Done(p) == opening' = [opening EXCEPT ![p] = Tail(opening[p])]

LockFree == lock = Nobody

TakeLock(p) ==
  /\ Doing(p, "lock") /\ LockFree
  /\ lock' = p
  /\ Done(p)
  /\ UNCHANGED <<file, mode, memory, inflight>>

\* "state file is locked by another process": the command fails.
LockHeld(p) ==
  /\ Doing(p, "lock") /\ ~LockFree
  /\ Exit(p)

\* Fault: what was accepted under version 2 is taken for a failed attempt.
MigratedRetrying(status) == IF status \in {"pending", "stalled"} THEN "retrying" ELSE status

Migrated(status) == IF status \in {"pending", "stalled"} THEN "submitted" ELSE status

\* Fault: what cannot be read is taken for an empty store.
ReadableAlways == TRUE

Readable == file \notin Unreadable

\* What Load returns for a file that it can read.
Contents ==
  IF file.version = "3" THEN file.intents
  ELSE IF file.version = "2" THEN [k \in Keys |-> Migrated(file.intents[k])]
  ELSE Nothing

Load(p) ==
  /\ Doing(p, "load") /\ Readable
  /\ memory' = [memory EXCEPT ![p] = Contents]
  /\ Done(p)
  /\ UNCHANGED <<file, lock, mode, inflight>>

\* Malformed or of an unknown version: the command fails.
LoadFails(p) ==
  /\ Doing(p, "load") /\ ~Readable
  /\ Exit(p)

-----------------------------------------------------------------------------
Writing(p) == mode[p] = "apply" /\ opening[p] = <<>>

\* The record of a device changes, and the whole snapshot is saved.
Put(p, k, status) ==
  /\ memory' = [memory EXCEPT ![p][k] = status]
  /\ file' = [version |-> "3", intents |-> memory'[p]]

\* Prepare grants an attempt, saved before the request goes out.
Submit(p, k) ==
  /\ Writing(p) /\ k \notin inflight[p]
  /\ memory[p][k] \in {"none", "retrying"}
  /\ Put(p, k, "retrying")
  /\ inflight' = [inflight EXCEPT ![p] = @ \cup {k}]
  /\ UNCHANGED <<lock, mode, opening>>

\* The provider's answer is recorded: accepted, failed for now, or for good.
Answered(p, k) ==
  /\ k \in inflight[p]
  /\ \E status \in {"submitted", "retrying", "failed"} : Put(p, k, status)
  /\ inflight' = [inflight EXCEPT ![p] = @ \ {k}]
  /\ UNCHANGED <<lock, mode, opening>>

\* The device shows the name it was given: its record is dropped.
Observe(p, k) ==
  /\ Writing(p) /\ k \notin inflight[p]
  /\ memory[p][k] # "none"
  /\ Put(p, k, "none")
  /\ UNCHANGED <<lock, mode, opening, inflight>>

\* The command is done, its workers joined: Close releases the lock.
Close(p) ==
  /\ mode[p] # "off" /\ opening[p] = <<>> /\ inflight[p] = {}
  /\ Exit(p)

\* The process is killed, or exits on a second signal.
Die(p) ==
  /\ mode[p] # "off"
  /\ Exit(p)

Next == \E p \in Processes :
  \/ Start(p) \/ TakeLock(p) \/ LockHeld(p) \/ Load(p) \/ LoadFails(p)
  \/ Close(p) \/ Die(p)
  \/ \E k \in Keys : Submit(p, k) \/ Answered(p, k) \/ Observe(p, k)

Spec == Init /\ [][Next]_vars

-----------------------------------------------------------------------------
(* Properties.                                                             *)

(* No writer works on records that another one has changed since: what it  *)
(* is about to save differs from the file only in its own change.          *)
WriterIsCurrent == \A p \in Processes : Writing(p) => memory[p] = Contents

(* A file that cannot be read, malformed or of another version, fails      *)
(* closed: no process ever replaces it.                                    *)
FailClosed == [][(file \in Unreadable) => (file' = file)]_vars

\* What the file says of a device, whatever version it is of.
Settled(k) ==
  \/ file.version = "3" /\ file.intents[k] \in Settled3
  \/ file.version = "2" /\ file.intents[k] \in Settled2

(* No process submits a rename that any process has recorded as settled    *)
(* (accepted or failed), a release that wrote version 2 included.          *)
SettledNotResent ==
  [][\A p \in Processes, k \in Keys :
       k \in inflight'[p] \ inflight[p] => ~Settled(k)]_vars

(* While a request is out, the file says so, whoever else starts, loads,   *)
(* fails or closes meanwhile: a crash at any time leaves its record.       *)
InFlightOnFile ==
  \A p \in Processes : \A k \in inflight[p] : file.version = "3" /\ file.intents[k] = "retrying"

=============================================================================
