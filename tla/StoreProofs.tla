------------------------------ MODULE StoreProofs ---------------------------
(***************************************************************************)
(* Theorems about the state file.                                          *)
(*                                                                         *)
(* About FileStore, one save, for every set of documents: the file is      *)
(* never torn, an acknowledged save survives power loss, and Save          *)
(* implements the atomic store the ledger relies on.                       *)
(*                                                                         *)
(* About StateLock, for any number of processes and devices: writers       *)
(* exclude each other from before they load the file, so that none         *)
(* overwrites what it has not read; nothing settled is submitted again;    *)
(* and a file that cannot be read is left alone.                           *)
(***************************************************************************)
EXTENDS FileStore, StateLock, TLAPS

-----------------------------------------------------------------------------
(* Saving.                                                                 *)

(* What holds at each system call: the temporary file is complete once     *)
(* encoded and synced once its sync returned, so that the rename publishes *)
(* the whole document; after it the state file is that document.           *)
SaveProgress ==
  /\ pc = "idle" <=> doc = NoDoc
  /\ pc # "idle" => reply = "none"
  /\ pc \in {"sync", "close", "rename"} => temp = doc
  /\ pc \in {"close", "rename"} => synced
  /\ pc \in AfterRename => path = doc

SaveIInv ==
  /\ SaveTypeOK
  /\ SaveProgress
  /\ path \in durable
  /\ AckSurvivesPowerLoss

\* NoDoc and Torn are not documents.
LEMMA Markers == NoDoc \notin Docs /\ Torn \notin Docs /\ Empty \in Docs
BY DocsAssumption

LEMMA SaveInitHolds == SaveInit => SaveIInv
BY Markers
   DEF SaveInit, SaveIInv, SaveTypeOK, SaveProgress, AckSurvivesPowerLoss, AfterRename

LEMMA SaveStepHolds == SaveIInv /\ [SaveNext]_saveVars => SaveIInv'
<1> SUFFICES ASSUME SaveIInv, [SaveNext]_saveVars PROVE SaveIInv'
  OBVIOUS
<1> USE Markers DEF SaveIInv, SaveTypeOK, SaveProgress, AckSurvivesPowerLoss,
                    BeforeRename, AfterRename, Goes
<1>1. CASE Call
  BY <1>1 DEF Call
<1>2. CASE MkdirAll \/ CreateTemp \/ Chmod
  BY <1>2 DEF MkdirAll, CreateTemp, Chmod
<1>3. CASE Encode
  BY <1>3 DEF Encode
<1>4. CASE SyncFile \/ CloseFile
  BY <1>4 DEF SyncFile, CloseFile
<1>5. CASE Rename
  <2>1. temp = doc /\ synced /\ doc \in Docs
    BY <1>5 DEF Rename
  <2>2. QED
    BY <1>5, <2>1 DEF Rename
<1>6. CASE OpenDir
  BY <1>6 DEF OpenDir
<1>7. CASE SyncDir
  BY <1>7 DEF SyncDir
<1>8. CASE Fail
  BY <1>8 DEF Fail
<1>9. CASE Crash
  BY <1>9 DEF Crash
<1>10. CASE PowerLoss
  BY <1>10 DEF PowerLoss
<1>11. CASE UNCHANGED saveVars
  BY <1>11 DEF saveVars
<1>12. QED
  BY <1>1, <1>2, <1>3, <1>4, <1>5, <1>6, <1>7, <1>8, <1>9, <1>10, <1>11 DEF SaveNext

\* The inductive invariant holds in every reachable state.
THEOREM SaveInvariance == SaveSpec => []SaveIInv
BY SaveInitHolds, SaveStepHolds, PTL DEF SaveSpec

(* The variables of a save keep their types.                               *)
THEOREM SaveTypeCorrect == SaveSpec => []SaveTypeOK
<1>1. SaveIInv => SaveTypeOK
  BY DEF SaveIInv
<1>2. QED
  BY <1>1, SaveInvariance, PTL

(* No crash or power loss leaves a torn state file.                        *)
THEOREM FileNeverTorn == SaveSpec => []NeverTorn
<1>1. SaveIInv => NeverTorn
  BY Markers DEF SaveIInv, SaveTypeOK, NeverTorn
<1>2. QED
  BY <1>1, SaveInvariance, PTL

(* An acknowledged document survives power loss.                           *)
THEOREM AcknowledgedSurvives == SaveSpec => []AckSurvivesPowerLoss
<1>1. SaveIInv => AckSurvivesPowerLoss
  BY DEF SaveIInv
<1>2. QED
  BY <1>1, SaveInvariance, PTL

(* Save implements the atomic store: its rename is the replacement, its    *)
(* directory sync the acknowledgement, and its other calls stutter.        *)
THEOREM SaveIsAtomic == SaveSpec => ReplacedAsAWhole
<1>1. SaveInit => Atomic!Init
  BY DEF SaveInit, Atomic!Init, NoDoc, Atomic!NoDoc
<1>2. SaveIInv /\ [SaveNext]_saveVars => [Atomic!Next]_(Atomic!vars)
  <2> SUFFICES ASSUME SaveIInv, [SaveNext]_saveVars PROVE [Atomic!Next]_(Atomic!vars)
    OBVIOUS
  <2> USE DEF SaveIInv, SaveTypeOK, SaveProgress, AfterRename, BeforeRename, Goes,
              Atomic!vars, Atomic!NoDoc, NoDoc
  <2>1. CASE Call
    <3>1. Atomic!Request
      BY <2>1 DEF Call, Atomic!Request
    <3>2. QED
      BY <3>1 DEF Atomic!Next
  <2>2. CASE \/ MkdirAll \/ CreateTemp \/ Chmod \/ Encode \/ SyncFile
             \/ CloseFile \/ OpenDir \/ UNCHANGED saveVars
    BY <2>2 DEF MkdirAll, CreateTemp, Chmod, Encode, SyncFile, CloseFile,
                OpenDir, saveVars
  <2>3. CASE Rename
    <3>1. Atomic!Replace
      BY <2>3 DEF Rename, Atomic!Replace
    <3>2. QED
      BY <3>1 DEF Atomic!Next
  <2>4. CASE SyncDir
    <3>1. Atomic!Acknowledge
      BY <2>4 DEF SyncDir, Atomic!Acknowledge
    <3>2. QED
      BY <3>1 DEF Atomic!Next
  <2>5. CASE Fail
    <3>1. Atomic!Refuse
      BY <2>5 DEF Fail, Atomic!Refuse
    <3>2. QED
      BY <3>1 DEF Atomic!Next
  <2>6. CASE Crash
    <3>1. Atomic!Die
      BY <2>6 DEF Crash, Atomic!Die
    <3>2. QED
      BY <3>1 DEF Atomic!Next
  <2>7. CASE PowerLoss
    <3>1. Atomic!PowerLoss
      BY <2>7 DEF PowerLoss, Atomic!PowerLoss
    <3>2. QED
      BY <3>1 DEF Atomic!Next
  <2>8. QED
    BY <2>1, <2>2, <2>3, <2>4, <2>5, <2>6, <2>7 DEF SaveNext
<1>3. QED
  BY <1>1, <1>2, SaveInvariance, PTL DEF SaveSpec, ReplacedAsAWhole, Atomic!Spec

-----------------------------------------------------------------------------
(* Locking and loading.                                                    *)

\* Whoever got past the lock holds it; only a writer has requests out; and no
\* writer works on a file that it could not have read.
Protocol ==
  \A p \in Processes :
    /\ opening[p] = <<"lock", "load">> => mode[p] = "apply"
    /\ opening[p] # <<>> => mode[p] # "off"
    /\ mode[p] = "apply" /\ opening[p] \in {<<>>, <<"load">>} => lock = p
    /\ inflight[p] # {} => Writing(p)
    /\ Writing(p) => file \notin Unreadable

IInv == TypeOK /\ Protocol /\ WriterIsCurrent /\ InFlightOnFile

\* How a store is opened: the lock first, then the file.
LEMMA Orders ==
  /\ Head(<<"lock", "load">>) = "lock" /\ Tail(<<"lock", "load">>) = <<"load">>
  /\ Head(<<"load">>) = "load" /\ Tail(<<"load">>) = <<>>
  /\ <<"load">> # <<>> /\ <<"lock", "load">> # <<>>
  /\ <<"lock", "load">> # <<"load">>
OBVIOUS

\* What Load returns, migrated or not, is a document of the current version.
LEMMA ContentsTyped ==
  ASSUME TypeOK PROVE Contents \in [Keys -> Status3]
<1>1. CASE file.version = "3"
  <2>1. file \in Document3
    BY <1>1 DEF TypeOK, Document2, Document3, Missing, Unreadable
  <2>2. QED
    BY <1>1, <2>1 DEF Contents, Document3
<1>2. CASE file.version = "2"
  <2>1. file \in Document2
    BY <1>2 DEF TypeOK, Document2, Document3, Missing, Unreadable
  <2>2. ASSUME NEW k \in Keys PROVE Migrated(file.intents[k]) \in Status3
    BY <2>1 DEF Document2, Status2, Settled2, Status3, Settled3, Migrated
  <2>3. QED
    BY <1>2, <2>2 DEF Contents
<1>3. CASE file.version \notin {"2", "3"}
  BY <1>3 DEF Contents, Nothing, Status3
<1>4. QED
  BY <1>1, <1>2, <1>3

LEMMA InitHolds == Init => IInv
<1> SUFFICES ASSUME Init PROVE IInv
  OBVIOUS
<1>1. TypeOK
  BY LockAssumption DEF Init, TypeOK, Nothing, Status3
<1>2. Protocol /\ WriterIsCurrent /\ InFlightOnFile
  BY DEF Init, Protocol, WriterIsCurrent, InFlightOnFile, Writing
<1>3. QED
  BY <1>1, <1>2 DEF IInv

\* A process that ends takes nothing with it but its lock.
LEMMA ExitHolds ==
  ASSUME IInv, NEW p \in Processes, Exit(p) PROVE IInv'
<1> USE DEF IInv, Exit
<1>1. TypeOK'
  BY LockAssumption DEF TypeOK, Nothing, Status3
<1>2. ASSUME NEW q \in Processes, q # p
      PROVE /\ mode'[q] = mode[q] /\ opening'[q] = opening[q]
            /\ memory'[q] = memory[q] /\ inflight'[q] = inflight[q]
            /\ lock = q => lock' = q
  BY <1>2 DEF TypeOK
<1>3. /\ mode'[p] = "off" /\ opening'[p] = <<>> /\ inflight'[p] = {}
      /\ file' = file /\ Contents' = Contents
  BY DEF TypeOK, Contents
<1>4. Protocol'
  BY <1>2, <1>3, Orders DEF Protocol, Writing
<1>5. WriterIsCurrent'
  BY <1>2, <1>3 DEF WriterIsCurrent, Writing
<1>6. InFlightOnFile'
  BY <1>2, <1>3 DEF InFlightOnFile
<1>7. QED
  BY <1>1, <1>4, <1>5, <1>6

\* A writer's save: the others have none of their own to lose.
LEMMA PutHolds ==
  ASSUME IInv, NEW p \in Processes, NEW k \in Keys, NEW status \in Status3,
         Writing(p), Put(p, k, status),
         inflight' = [inflight EXCEPT ![p] = inflight'[p]],
         inflight'[p] \subseteq inflight[p] \cup {k},
         k \in inflight'[p] => status = "retrying",
         UNCHANGED <<lock, mode, opening>>
  PROVE  IInv'
<1> USE DEF IInv, Put
<1>1. memory'[p] \in [Keys -> Status3] /\ memory'[p] = [memory[p] EXCEPT ![k] = status]
  BY DEF TypeOK
<1>2. file' \in Document3 /\ file'.version = "3" /\ file'.intents = memory'[p]
  BY <1>1 DEF Document3
<1>3. TypeOK'
  BY <1>1, <1>2 DEF TypeOK
<1>4. lock = p
  BY DEF Protocol, Writing
<1>5. ASSUME NEW q \in Processes, q # p
      PROVE ~Writing(q)' /\ inflight'[q] = inflight[q] /\ inflight[q] = {}
  BY <1>4, <1>5 DEF Protocol, Writing, TypeOK
<1>6. Contents' = memory'[p]
  BY <1>2 DEF Contents
<1>7. file' \notin Unreadable
  BY <1>2 DEF Unreadable
<1>8. Protocol'
  <2>1. Writing(p)'
    BY DEF Writing
  <2>2. QED
    BY <1>5, <1>7, <2>1 DEF Protocol, Writing
<1>9. WriterIsCurrent'
  BY <1>5, <1>6 DEF WriterIsCurrent
<1>10. InFlightOnFile'
  <2>1. ASSUME NEW j \in inflight'[p] PROVE file'.intents[j] = "retrying"
    <3>1. CASE j = k
      BY <1>1, <1>2, <2>1, <3>1
    <3>2. CASE j # k
      <4>1. j \in inflight[p] /\ j \in Keys
        BY <2>1, <3>2 DEF TypeOK
      <4>2. memory[p] = Contents /\ file.version = "3" /\ file.intents[j] = "retrying"
        BY <4>1 DEF WriterIsCurrent, InFlightOnFile
      <4>3. memory[p][j] = "retrying"
        BY <4>2 DEF Contents
      <4>4. QED
        BY <1>1, <1>2, <3>2, <4>1, <4>3
    <3>3. QED
      BY <3>1, <3>2
  <2>2. QED
    BY <1>2, <1>5, <2>1 DEF InFlightOnFile
<1>11. QED
  BY <1>3, <1>8, <1>9, <1>10

\* A process that is opening its store has no requests out yet.
LEMMA OpeningHolds ==
  ASSUME IInv, NEW p \in Processes, mode[p] # "off", opening[p] # <<>>,
         Done(p), UNCHANGED <<file, mode, inflight>>,
         \/ Doing(p, "lock") /\ LockFree /\ lock' = p /\ UNCHANGED memory
         \/ /\ Doing(p, "load") /\ Readable /\ UNCHANGED lock
            /\ memory' = [memory EXCEPT ![p] = Contents]
  PROVE  IInv'
<1> USE Orders DEF IInv, Done, Doing
<1>1. \/ /\ opening[p] = <<"lock", "load">> /\ opening'[p] = <<"load">>
         /\ LockFree /\ lock' = p /\ UNCHANGED memory
      \/ /\ opening[p] = <<"load">> /\ opening'[p] = <<>>
         /\ Readable /\ UNCHANGED lock
         /\ memory' = [memory EXCEPT ![p] = Contents]
  BY DEF TypeOK
<1>2. Contents \in [Keys -> Status3] /\ Contents' = Contents
  BY ContentsTyped DEF Contents
<1>3. ASSUME NEW q \in Processes, q # p
      PROVE opening'[q] = opening[q] /\ memory'[q] = memory[q] /\ Writing(q)' = Writing(q)
  BY <1>1, <1>3 DEF TypeOK, Writing
<1>4. TypeOK'
  <2>1. \A q \in Processes : lock' = q => mode'[q] = "apply"
    <3>1. CASE opening[p] = <<"lock", "load">>
      BY <1>1, <3>1 DEF TypeOK, Protocol
    <3>2. CASE opening[p] # <<"lock", "load">>
      BY <1>1, <3>2 DEF TypeOK
    <3>3. QED
      BY <3>1, <3>2
  <2>2. QED
    BY <1>1, <1>2, <2>1 DEF TypeOK
<1>5. Protocol'
  BY <1>1, <1>3, LockAssumption DEF Protocol, Writing, LockFree, Readable
<1>6. WriterIsCurrent'
  BY <1>1, <1>2, <1>3 DEF WriterIsCurrent, Writing, TypeOK
<1>7. InFlightOnFile'
  BY DEF InFlightOnFile
<1>8. QED
  BY <1>4, <1>5, <1>6, <1>7

\* Every step of every process preserves the invariant.
LEMMA StepHolds == IInv /\ [Next]_vars => IInv'
<1> SUFFICES ASSUME IInv, [Next]_vars PROVE IInv'
  OBVIOUS
<1>1. CASE UNCHANGED vars
  BY <1>1 DEF vars, IInv, TypeOK, Protocol, WriterIsCurrent, InFlightOnFile, Writing, Contents
<1>2. ASSUME NEW p \in Processes, Start(p) PROVE IInv'
  <2>1. PICK m \in {"apply", "plan"} :
          /\ mode' = [mode EXCEPT ![p] = m]
          /\ opening' = [opening EXCEPT ![p] = OpenSteps(m)]
    BY <1>2 DEF Start
  <2>2. OpenSteps(m) = IF m = "apply" THEN <<"lock", "load">> ELSE <<"load">>
    BY DEF OpenSteps
  <2>3. lock # p
    BY <1>2 DEF Start, IInv, TypeOK
  <2>4. inflight[p] = {}
    BY <1>2 DEF Start, IInv, Protocol, Writing
  <2>5. TypeOK'
    BY <1>2, <2>1, <2>2, <2>3 DEF Start, IInv, TypeOK
  <2>6. ASSUME NEW q \in Processes, q # p
        PROVE /\ mode'[q] = mode[q] /\ opening'[q] = opening[q]
              /\ memory'[q] = memory[q] /\ inflight'[q] = inflight[q]
    BY <1>2, <2>1, <2>6 DEF Start, IInv, TypeOK
  <2>7. mode'[p] = m /\ opening'[p] = OpenSteps(m) /\ inflight'[p] = {}
    BY <1>2, <2>1, <2>4 DEF Start, IInv, TypeOK
  <2>8. lock' = lock /\ file' = file /\ Contents' = Contents
    BY <1>2 DEF Start, Contents
  <2>9. opening'[p] # <<>> /\ ~Writing(p)' /\ m # "off"
    BY <2>1, <2>2, <2>7, Orders DEF Writing
  <2>10. \A q \in Processes :
           Writing(q)' => q # p /\ Writing(q)
    BY <2>6, <2>9 DEF Writing
  <2>11. Protocol'
    <3> SUFFICES ASSUME NEW q \in Processes
                 PROVE /\ opening'[q] = <<"lock", "load">> => mode'[q] = "apply"
                       /\ opening'[q] # <<>> => mode'[q] # "off"
                       /\ mode'[q] = "apply" /\ opening'[q] \in {<<>>, <<"load">>}
                            => lock' = q
                       /\ inflight'[q] # {} => Writing(q)'
                       /\ Writing(q)' => file' \notin Unreadable
      BY DEF Protocol
    <3>1. CASE q = p
      BY <3>1, <2>1, <2>2, <2>7, <2>9, Orders
    <3>2. CASE q # p
      BY <3>2, <2>6, <2>8 DEF IInv, Protocol, Writing
    <3>3. QED
      BY <3>1, <3>2
  <2>12. WriterIsCurrent'
    BY <2>6, <2>8, <2>10 DEF IInv, WriterIsCurrent
  <2>13. InFlightOnFile'
    BY <2>6, <2>7, <2>8 DEF IInv, InFlightOnFile
  <2>14. QED
    BY <2>5, <2>11, <2>12, <2>13 DEF IInv
<1>3. ASSUME NEW p \in Processes, TakeLock(p) \/ Load(p) PROVE IInv'
  <2>1. mode[p] # "off"
    BY <1>3, Orders DEF TakeLock, Load, Doing, IInv, Protocol
  <2>2. QED
    BY <1>3, <2>1, OpeningHolds DEF TakeLock, Load, Doing
<1>4. ASSUME NEW p \in Processes, LockHeld(p) \/ LoadFails(p) \/ Close(p) \/ Die(p)
      PROVE IInv'
  BY <1>4, ExitHolds DEF LockHeld, LoadFails, Close, Die
<1>5. ASSUME NEW p \in Processes, NEW k \in Keys, Submit(p, k) PROVE IInv'
  BY <1>5, PutHolds DEF Submit, Status3, IInv, TypeOK
<1>6. ASSUME NEW p \in Processes, NEW k \in Keys, Answered(p, k) PROVE IInv'
  <2>1. PICK status \in {"submitted", "retrying", "failed"} : Put(p, k, status)
    BY <1>6 DEF Answered
  <2>2. Writing(p) /\ status \in Status3
    BY <1>6 DEF Answered, IInv, Protocol, Status3, Settled3
  <2>3. inflight'[p] = inflight[p] \ {k}
    BY <1>6 DEF Answered, IInv, TypeOK
  <2>4. QED
    BY <1>6, <2>1, <2>2, <2>3, PutHolds DEF Answered
<1>7. ASSUME NEW p \in Processes, NEW k \in Keys, Observe(p, k) PROVE IInv'
  BY <1>7, PutHolds DEF Observe, Status3, IInv, TypeOK
<1>8. QED
  BY <1>1, <1>2, <1>3, <1>4, <1>5, <1>6, <1>7 DEF Next

LEMMA Invariant == Spec => []IInv
BY InitHolds, StepHolds, PTL DEF Spec

(* Every reachable state is well typed, whatever version the file is of.   *)
THEOREM TypeCorrect == Spec => []TypeOK
BY Invariant, PTL DEF IInv

(* No writer overwrites what another one saved since it loaded the file.   *)
THEOREM WritersAreCurrent == Spec => []WriterIsCurrent
BY Invariant, PTL DEF IInv

(* A crash at any time finds a request that is out on the file.            *)
THEOREM RequestsAreOnFile == Spec => []InFlightOnFile
BY Invariant, PTL DEF IInv

\* Only writers save, and they have read the file.
LEMMA UnreadableKept ==
  IInv /\ [Next]_vars => (file \in Unreadable => file' = file)
BY DEF IInv, Protocol, Next, vars, Start, TakeLock, LockHeld, Load, LoadFails, Close,
       Die, Exit, Submit, Answered, Observe

(* A file that cannot be read is never replaced.                           *)
THEOREM UnreadableFailsClosed == Spec => FailClosed
<1>1. IInv /\ [Next]_vars => [(file \in Unreadable) => (file' = file)]_vars
  BY UnreadableKept
<1>2. QED
  BY <1>1, Invariant, PTL DEF Spec, FailClosed

\* What a writer submits is not settled on the file it loaded.
LEMMA SubmittedOpen ==
  ASSUME IInv, NEW p \in Processes, NEW k \in Keys, Submit(p, k)
  PROVE  ~Settled(k)
<1>1. Contents[k] \in {"none", "retrying"}
  BY DEF Submit, IInv, WriterIsCurrent
<1>2. QED
  BY <1>1 DEF Contents, Settled, Settled2, Settled3, Migrated

LEMMA StepSubmitsOpen ==
  IInv /\ [Next]_vars => \A p \in Processes, k \in Keys :
    k \in inflight'[p] \ inflight[p] => ~Settled(k)
<1> SUFFICES ASSUME IInv, [Next]_vars, NEW p \in Processes, NEW k \in Keys,
                    k \in inflight'[p] \ inflight[p]
             PROVE  ~Settled(k)
  OBVIOUS
<1>1. inflight \in [Processes -> SUBSET Keys]
  BY DEF IInv, TypeOK
<1>2. PICK q \in Processes, j \in Keys : Submit(q, j)
  BY <1>1 DEF Next, vars, Start, TakeLock, LockHeld, Load, LoadFails, Close, Die, Exit,
              Answered, Observe
<1>3. q = p /\ j = k
  BY <1>1, <1>2 DEF Submit
<1>4. QED
  BY <1>2, <1>3, SubmittedOpen

(* No process submits what any process, of this release or the one before, *)
(* recorded as settled.                                                    *)
THEOREM SettledStaysSettled == Spec => SettledNotResent
<1>1. IInv /\ [Next]_vars =>
        [\A p \in Processes, k \in Keys :
           k \in inflight'[p] \ inflight[p] => ~Settled(k)]_vars
  BY StepSubmitsOpen
<1>2. QED
  BY <1>1, Invariant, PTL DEF Spec, SettledNotResent

=============================================================================
