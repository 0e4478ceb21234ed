------------------------------- MODULE Ledger -------------------------------
(***************************************************************************)
(* The rename ledger (internal/state/ledger.go) over the file store        *)
(* (internal/state/file.go), seen one mutex-protected method at a time.    *)
(*                                                                         *)
(* intents is the map the process works on and disk is what Load would     *)
(* return after a restart.  Every change saves the whole map; a save can   *)
(* succeed, fail with the old file still in place, or fail LATE: the file  *)
(* was already replaced (os.Rename) when opening or syncing the directory  *)
(* failed, so memory rolls back while disk keeps the new content.          *)
(*                                                                         *)
(* told and outstanding are not state of the program: they record what the *)
(* callers were told to do, so that promises about past answers can be     *)
(* stated.                                                                 *)
(***************************************************************************)
EXTENDS Integers

CONSTANTS
  Keys,         \* device keys: source, namespace and provider ID
  Serials,      \* state serial numbers a key may report over time
  Names,        \* device names, current or desired
  RetryAfter,   \* reconcile.rename_retry_after
  MaxAttempts,  \* reconcile.rename_max_attempts
  MaxTime       \* bound on the clock

ASSUME RetryAssumption ==
  /\ RetryAfter \in Nat \ {0}
  /\ MaxAttempts \in Nat \ {0}
  /\ MaxTime \in Nat

VARIABLES
  intents,      \* Ledger.intents
  disk,         \* the document a restart would load
  clock,        \* the latest `now` a caller has passed
  told,         \* history: the latest submission each device was granted
  outstanding   \* history: granted submissions whose outcome is not reported yet

vars == <<intents, disk, clock, told, outstanding>>

-----------------------------------------------------------------------------
Statuses == {"retrying", "submitted", "failed"}
Failures == {"none", "provider", "attempts"}
Outcomes == {"ok", "failed", "late"}
Answers  == {"open", "accepted", "rejected", "unsure"}

Intent == [serial : Serials, desired : Names, attemptedAt : Nat,
           attempts : Nat \ {0}, status : Statuses, failure : Failures]

NoIntent == [status |-> "none"]

Grant == [serial : Serials, desired : Names, at : Nat, count : Nat \ {0},
          answer : Answers]

NoGrant == [answer |-> "none"]

Request == [key : Keys, serial : Serials, desired : Names]

TypeOK ==
  /\ intents \in [Keys -> Intent \cup {NoIntent}]
  /\ disk \in [Keys -> Intent \cup {NoIntent}]
  /\ clock \in Nat
  /\ told \in [Keys -> Grant \cup {NoGrant}]
  /\ outstanding \in SUBSET Request

\* x records serial s and desired name d.
Matches(x, s, d) == x.serial = s /\ x.desired = d

Init ==
  /\ intents = [k \in Keys |-> NoIntent]
  /\ disk = [k \in Keys |-> NoIntent]
  /\ clock = 0
  /\ told = [k \in Keys |-> NoGrant]
  /\ outstanding = {}

-----------------------------------------------------------------------------
(* Saving.  putLocked and deleteLocked differ only in the value written.   *)

\* Fault: the save replaces one device's record in the file, not the document.
SaveOneRecord(base, file, k, v, o) ==
  /\ intents' = IF o = "ok" THEN [base EXCEPT ![k] = v] ELSE base
  /\ disk' = IF o = "failed" THEN file ELSE [file EXCEPT ![k] = v]

\* Fault: the save is left to a later one.
SaveDeferred(base, file, k, v, o) ==
  /\ intents' = [base EXCEPT ![k] = v]
  /\ disk' = file

Save(base, file, k, v, o) ==
  LET next == [base EXCEPT ![k] = v] IN
  /\ intents' = IF o = "ok" THEN next ELSE base
  /\ disk' = IF o = "failed" THEN file ELSE next

-----------------------------------------------------------------------------
(* Prepare.  A record of another serial is dropped and saved first; the    *)
(* rest of the method works on the map and the file that leaves.           *)

Stale(k, s) == intents[k] # NoIntent /\ intents[k].serial # s

Base(k, s) == IF Stale(k, s) THEN [intents EXCEPT ![k] = NoIntent] ELSE intents

File(k, s) == IF Stale(k, s) THEN Base(k, s) ELSE disk

\* The caller asks for another name or serial: the earlier promise is over.
Released(k, s, d) ==
  IF told[k] # NoGrant /\ ~Matches(told[k], s, d)
  THEN [told EXCEPT ![k] = NoGrant] ELSE told

\* The record Prepare stores for attempt n made at now.
Attempt(s, d, now, n) ==
  [serial |-> s, desired |-> d, attemptedAt |-> now, attempts |-> n,
   status |-> "retrying", failure |-> "none"]

\* Fault: the caller is told to submit before the save is known to succeed.
GrantedUnsaved(k, s, d, now, o) ==
  /\ told' = [told EXCEPT ![k] =
       [serial |-> s, desired |-> d, at |-> now, answer |-> "open", count |-> 1]]
  /\ outstanding' = outstanding \cup {[key |-> k, serial |-> s, desired |-> d]}

\* The caller is told to submit, unless the save reported an error.
Granted(k, s, d, now, o) ==
  IF o # "ok"
  THEN /\ told' = Released(k, s, d)
       /\ UNCHANGED outstanding
  ELSE /\ told' = [told EXCEPT ![k] =
             [serial |-> s, desired |-> d, at |-> now, answer |-> "open",
              count |-> IF told[k] # NoGrant /\ Matches(told[k], s, d)
                        THEN told[k].count + 1 ELSE 1]]
       /\ outstanding' = outstanding \cup {[key |-> k, serial |-> s, desired |-> d]}

\* Deleting the record of another serial fails: the error is returned.
PrepareDropFails(k, s, d, o) ==
  /\ o # "ok"
  /\ Stale(k, s)
  /\ Save(intents, disk, k, NoIntent, o)
  /\ told' = Released(k, s, d)
  /\ UNCHANGED outstanding

\* The desired name is already visible (DispositionObserved).
PrepareObserved(k, s, current, d, o) ==
  /\ current = d
  /\ IF Base(k, s)[k] = NoIntent
     THEN intents' = Base(k, s) /\ disk' = File(k, s)
     ELSE Save(Base(k, s), File(k, s), k, NoIntent, o)
  /\ told' = [told EXCEPT ![k] = NoGrant]
  /\ UNCHANGED outstanding

\* No record, or one for another name: a first attempt (DispositionSubmit).
PrepareFirst(k, s, current, d, now, o) ==
  /\ current # d
  /\ Base(k, s)[k] # NoIntent => Base(k, s)[k].desired # d
  /\ Save(Base(k, s), File(k, s), k, Attempt(s, d, now, 1), o)
  /\ Granted(k, s, d, now, o)

\* The same request was recorded before, and is not yet visible.
Known(k, s, current, d) ==
  /\ current # d
  /\ intents[k] # NoIntent
  /\ Matches(intents[k], s, d)

RetryAt(k) == intents[k].attemptedAt + RetryAfter

\* Accepted by the provider, or still cooling down (DispositionPending).
PreparePending(k, s, current, d, now) ==
  /\ Known(k, s, current, d)
  /\ \/ intents[k].status = "submitted"
     \/ intents[k].status = "retrying" /\ now < RetryAt(k)
  /\ UNCHANGED <<intents, disk, told, outstanding>>

\* Rejected earlier (DispositionFailed without a save).
PrepareFailed(k, s, current, d) ==
  /\ Known(k, s, current, d)
  /\ intents[k].status = "failed"
  /\ UNCHANGED <<intents, disk, told, outstanding>>

\* Fault: an accepted rename becomes due again like any other.
RetryDueAnyStatus(k, now) == now >= RetryAt(k)

\* Fault: the cooldown ends one tick early.
RetryDueTooEarly(k, now) ==
  intents[k].status = "retrying" /\ now + 1 >= RetryAt(k)

RetryDue(k, now) == intents[k].status = "retrying" /\ now >= RetryAt(k)

\* Attempts are used up: the record becomes failed (DispositionFailed).
PrepareExhausted(k, s, current, d, now, o) ==
  /\ Known(k, s, current, d)
  /\ RetryDue(k, now)
  /\ intents[k].attempts >= MaxAttempts
  /\ Save(intents, disk, k,
          [intents[k] EXCEPT !.status = "failed",
                             !.failure = IF @ = "none" THEN "attempts" ELSE @], o)
  /\ UNCHANGED <<told, outstanding>>

\* Fault: one attempt too many.
AttemptsLeftOffByOne(k) == intents[k].attempts <= MaxAttempts

AttemptsLeft(k) == intents[k].attempts < MaxAttempts

\* Another attempt is recorded, then granted (DispositionSubmit).
PrepareRetry(k, s, current, d, now, o) ==
  /\ Known(k, s, current, d)
  /\ RetryDue(k, now)
  /\ AttemptsLeft(k)
  /\ Save(intents, disk, k, Attempt(s, d, now, intents[k].attempts + 1), o)
  /\ Granted(k, s, d, now, o)

Prepare(k, s, current, d, now, o) ==
  \/ PrepareDropFails(k, s, d, o)
  \/ PrepareObserved(k, s, current, d, o)
  \/ PrepareFirst(k, s, current, d, now, o)
  \/ PreparePending(k, s, current, d, now)
  \/ PrepareFailed(k, s, current, d)
  \/ PrepareExhausted(k, s, current, d, now, o)
  \/ PrepareRetry(k, s, current, d, now, o)

-----------------------------------------------------------------------------
(* MarkSubmitted, MarkRetrying and MarkFailed: the outcome of a submission *)
(* is recorded if the completed request is still the current one.          *)

StatusAfter(answer) ==
  IF answer = "accepted" THEN "submitted"
  ELSE IF answer = "rejected" THEN "failed" ELSE "retrying"

FailureAfter(answer) == IF answer = "accepted" THEN "none" ELSE "provider"

\* Fault: whatever record the device has takes the outcome.
CurrentAnyRequest(k, s, d) == intents[k] # NoIntent

Current(k, s, d) == intents[k] # NoIntent /\ Matches(intents[k], s, d)

Mark(k, s, d, answer, o) ==
  /\ IF Current(k, s, d)
     THEN /\ Save(intents, disk, k,
                  [intents[k] EXCEPT !.status = StatusAfter(answer),
                                     !.failure = FailureAfter(answer)], o)
          /\ told' = IF o = "ok" /\ told[k] # NoGrant /\ Matches(told[k], s, d)
                     THEN [told EXCEPT ![k].answer = answer] ELSE told
     ELSE UNCHANGED <<intents, disk, told>>
  /\ outstanding' = outstanding \ {[key |-> k, serial |-> s, desired |-> d]}

-----------------------------------------------------------------------------
(* Observe and Cancel.                                                     *)

\* Observe clears the record once its name is visible or the serial changed.
Observe(k, s, current, o) ==
  /\ IF intents[k] # NoIntent
        /\ (intents[k].serial # s \/ intents[k].desired = current)
     THEN Save(intents, disk, k, NoIntent, o)
     ELSE UNCHANGED <<intents, disk>>
  /\ told' = IF told[k] # NoGrant
                /\ (told[k].serial # s \/ told[k].desired = current)
             THEN [told EXCEPT ![k] = NoGrant] ELSE told
  /\ UNCHANGED outstanding

Cancel(k, o) ==
  /\ IF intents[k] # NoIntent
     THEN Save(intents, disk, k, NoIntent, o)
     ELSE UNCHANGED <<intents, disk>>
  /\ told' = [told EXCEPT ![k] = NoGrant]
  /\ UNCHANGED outstanding

-----------------------------------------------------------------------------
(* The process dies and Open loads the file again; calls in flight are     *)
(* never reported.                                                         *)
Restart ==
  /\ intents' = disk
  /\ outstanding' = {}
  /\ UNCHANGED <<disk, clock, told>>

\* A caller gives up submissions it was granted: apply returns on an error or
\* a cancellation before its workers run, or a worker skips its job.
Abandon ==
  /\ \E kept \in SUBSET outstanding : outstanding' = kept
  /\ UNCHANGED <<intents, disk, clock, told>>

\* Callers pass the start time of their cycle; cycles are sequential.
Tick ==
  /\ clock < MaxTime
  /\ \E t \in 1 .. MaxTime : clock < t /\ clock' = t
  /\ UNCHANGED <<intents, disk, told, outstanding>>

(* A caller does not repeat a request whose own submission is in flight:   *)
(* Service.apply waits for its workers before the next cycle prepares.     *)
PrepareAny ==
  \E k \in Keys, s \in Serials, current, d \in Names, o \in Outcomes :
    /\ [key |-> k, serial |-> s, desired |-> d] \notin outstanding
    /\ Prepare(k, s, current, d, clock, o)
    /\ UNCHANGED clock

MarkAny ==
  \E r \in outstanding, answer \in Answers \ {"open"}, o \in Outcomes :
    /\ Mark(r.key, r.serial, r.desired, answer, o)
    /\ UNCHANGED clock

ObserveAny ==
  \E k \in Keys, s \in Serials, current \in Names, o \in Outcomes :
    /\ Observe(k, s, current, o)
    /\ UNCHANGED clock

CancelAny ==
  \E k \in Keys, o \in Outcomes : Cancel(k, o) /\ UNCHANGED clock

Next ==
  \/ PrepareAny \/ MarkAny \/ ObserveAny \/ CancelAny
  \/ Restart \/ Abandon \/ Tick

Spec == Init /\ [][Next]_vars

-----------------------------------------------------------------------------
(* Properties.                                                             *)

\* In file f, the record of k covers the latest submission granted for it.
Covers(f, k) ==
  /\ f[k] # NoIntent
  /\ Matches(f[k], told[k].serial, told[k].desired)
  /\ told[k].at <= f[k].attemptedAt
  /\ told[k].count <= f[k].attempts

(* Prepare persists a rename attempt before telling the caller to submit   *)
(* it, and nothing that happens later, to this device or to another, loses *)
(* the record while the request stands: a restart at any moment still      *)
(* knows of every granted submission, how many there were and when.        *)
PromisesDurable ==
  \A k \in Keys : told[k] # NoGrant => Covers(intents, k) /\ Covers(disk, k)

(* However saves fail and however often the process restarts, a standing   *)
(* request is granted at most rename_max_attempts submissions.             *)
BoundedSubmissions ==
  \A k \in Keys : told[k] # NoGrant => told[k].count <= MaxAttempts

(* Memory and file never drift apart by more than one device: a late save  *)
(* failure leaves the file ahead for the device being saved, and every     *)
(* earlier difference is gone because each save writes the whole map.      *)
OneRecordApart ==
  \A j, k \in Keys : intents[j] # disk[j] /\ intents[k] # disk[k] => j = k

(* An outcome the ledger acknowledged is in memory and in the file, so no  *)
(* restart and no other device's failed save turns an accepted or rejected *)
(* rename back into one to retry.                                          *)
OutcomeKept ==
  \A k \in Keys :
    told[k].answer \in {"accepted", "rejected"} =>
      /\ intents[k].status = StatusAfter(told[k].answer)
      /\ disk[k].status = StatusAfter(told[k].answer)

(* A failed record says why, and says "failed after n attempts" only when  *)
(* rename_max_attempts attempts were recorded (ledger.go:106-112).         *)
FailureExplained ==
  \A k \in Keys, f \in {intents, disk} :
    f[k].status = "failed" =>
      /\ f[k].failure # "none"
      /\ f[k].failure = "attempts" => f[k].attempts >= MaxAttempts

\* A further submission of a standing request waits for its cooldown.
CooldownKept ==
  \A k \in Keys :
    told[k] # NoGrant /\ told'[k] # NoGrant /\ told'[k].count > told[k].count
      => told'[k].at >= told[k].at + RetryAfter

(* Two submissions of the same standing request are granted no closer than *)
(* rename_retry_after, whatever failed or restarted in between.            *)
CooldownRespected == [][CooldownKept]_vars

\* A request whose outcome is settled is only ever let go.
SettledKept ==
  \A k \in Keys :
    told[k].answer \in {"accepted", "rejected"} =>
      \/ told'[k] \in {told[k], NoGrant}
      \/ ~Matches(told'[k], told[k].serial, told[k].desired)

(* Once the ledger acknowledged that the provider accepted or rejected a   *)
(* rename, the same request is never granted again: only a different name  *)
(* or serial, or seeing the name, ends its standing.                       *)
SettledForGood == [][SettledKept]_vars

(* The outcome of a submission settles only the record of its own request: *)
(* an answer that arrives after the device was given another name or       *)
(* serial leaves the newer record to be submitted and retried.  (A restart *)
(* reports nothing: it only reloads the file.)                             *)
LateOutcomeIgnored ==
  [][\A r \in outstanding \ outstanding' :
       LET k == r.key IN
       intents'[k] # intents[k] /\ intents'[k].status \in {"submitted", "failed"}
         => \/ Matches(intents'[k], r.serial, r.desired)
            \/ intents' = disk]_vars

=============================================================================
