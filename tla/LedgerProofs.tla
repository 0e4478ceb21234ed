---------------------------- MODULE LedgerProofs ----------------------------
(***************************************************************************)
(* Theorems about the rename ledger, for every set of devices, serials and *)
(* names and every retry policy.                                           *)
(*                                                                         *)
(* The inductive invariant IInv says, record by record, what a stored      *)
(* intent owes the latest submission granted for its device (RecordOK);    *)
(* that memory and file differ for one device at most; and that a request  *)
(* in flight has no outcome yet.                                           *)
(***************************************************************************)
EXTENDS Ledger, TLAPS

Stored == Intent \cup {NoIntent}

\* What record x must say when g is the latest submission granted.
RecordOK(x, g) ==
  /\ x # NoIntent => x.attempts <= MaxAttempts
  /\ x.status = "failed" =>
       /\ x.failure # "none"
       /\ x.failure = "attempts" => x.attempts >= MaxAttempts
  /\ g # NoGrant =>
       /\ x # NoIntent
       /\ Matches(x, g.serial, g.desired)
       /\ g.at <= x.attemptedAt
       /\ g.count <= x.attempts
  /\ g.answer \in {"accepted", "rejected"} => x.status = StatusAfter(g.answer)

Records ==
  \A k \in Keys : RecordOK(intents[k], told[k]) /\ RecordOK(disk[k], told[k])

InFlightOpen ==
  \A r \in outstanding :
    told[r.key] # NoGrant /\ Matches(told[r.key], r.serial, r.desired)
      => told[r.key].answer = "open"

IInv == TypeOK /\ Records /\ OneRecordApart /\ InFlightOpen

-----------------------------------------------------------------------------
\* The placeholders are not records of their kind.
LEMMA Placeholders ==
  /\ NoIntent \notin Intent
  /\ NoGrant \notin Grant
  /\ NoIntent.status = "none"
  /\ NoGrant.answer = "none"
BY DEF NoIntent, NoGrant, Intent, Grant, Statuses, Answers

\* What a save leaves in memory and in the file, record by record.
LEMMA SaveEffect ==
  ASSUME NEW base \in [Keys -> Stored], NEW file \in [Keys -> Stored],
         NEW k \in Keys, NEW v \in Stored, NEW o,
         Save(base, file, k, v, o)
  PROVE  /\ intents' \in [Keys -> Stored]
         /\ disk' \in [Keys -> Stored]
         /\ \A j \in Keys \ {k} :
              intents'[j] = base[j] /\ disk'[j] \in {base[j], file[j]}
         /\ o = "ok" => intents'[k] = v /\ disk'[k] = v
         /\ o # "ok" => intents'[k] = base[k] /\ disk'[k] \in {file[k], v}
BY DEF Save

(* A save never leaves two devices apart: it either changes nothing in the *)
(* file or rewrites all of it from the map (ledger.go:208-230).            *)
LEMMA SaveApart ==
  ASSUME NEW base \in [Keys -> Stored], NEW file \in [Keys -> Stored],
         NEW k \in Keys, NEW v \in Stored, NEW o,
         \A i, j \in Keys : base[i] # file[i] /\ base[j] # file[j] => i = j,
         Save(base, file, k, v, o)
  PROVE  OneRecordApart'
<1>1. CASE o = "failed"
  BY <1>1 DEF Save, OneRecordApart
<1>2. CASE o # "failed"
  <2>1. \A j \in Keys \ {k} : intents'[j] = disk'[j]
    BY <1>2 DEF Save
  <2>2. QED
    BY <2>1 DEF OneRecordApart
<1>3. QED
  BY <1>1, <1>2

(* A save keeps every record in order if the record written and, unless    *)
(* the save succeeds, the ones it starts from suit the device's grant.     *)
LEMMA SaveRecords ==
  ASSUME NEW base \in [Keys -> Stored], NEW file \in [Keys -> Stored],
         NEW k \in Keys, NEW v \in Stored, NEW o,
         Records,
         \A j \in Keys \ {k} : base[j] = intents[j] /\ file[j] \in {intents[j], disk[j]},
         \A j \in Keys \ {k} : told'[j] = told[j],
         RecordOK(v, told'[k]),
         o # "ok" => RecordOK(base[k], told'[k]) /\ RecordOK(file[k], told'[k]),
         Save(base, file, k, v, o)
  PROVE  Records'
<1> SUFFICES ASSUME NEW j \in Keys
             PROVE  RecordOK(intents'[j], told'[j]) /\ RecordOK(disk'[j], told'[j])
  BY DEF Records, RecordOK
<1>1. CASE j = k
  BY <1>1, SaveEffect
<1>2. CASE j # k
  <2>1. intents'[j] \in {intents[j], disk[j]} /\ disk'[j] \in {intents[j], disk[j]}
    BY <1>2, SaveEffect
  <2>2. QED
    BY <1>2, <2>1 DEF Records
<1>3. QED
  BY <1>1, <1>2

-----------------------------------------------------------------------------
\* Releasing a promise asks no more of a record than keeping it.
LEMMA Weaken ==
  ASSUME NEW x \in Stored, NEW g \in Grant \cup {NoGrant}, RecordOK(x, g)
  PROVE  RecordOK(x, NoGrant)
BY Placeholders DEF RecordOK

\* The first record of a request suits a grant of it.
LEMMA AttemptOK ==
  ASSUME NEW s \in Serials, NEW d \in Names, NEW now \in Nat, NEW n \in Nat \ {0},
         n <= MaxAttempts
  PROVE  /\ Attempt(s, d, now, n) \in Intent
         /\ RecordOK(Attempt(s, d, now, n), NoGrant)
         /\ \A g \in Grant : /\ Matches(g, s, d)
                             /\ g.at <= now
                             /\ g.count <= n
                             /\ g.answer = "open"
                             => RecordOK(Attempt(s, d, now, n), g)
<1>1. Attempt(s, d, now, n) \in Intent
  BY DEF Attempt, Intent, Statuses, Failures
<1>2. Attempt(s, d, now, n) # NoIntent
  BY <1>1, Placeholders
<1>3. QED
  BY <1>1, <1>2, Placeholders DEF Attempt, RecordOK, Matches, Grant

\* What dropping the record of another serial leaves to work on.
LEMMA DropEffect ==
  ASSUME IInv, NEW k \in Keys, NEW s \in Serials
  PROVE  /\ Base(k, s) \in [Keys -> Stored]
         /\ File(k, s) \in [Keys -> Stored]
         /\ \A j \in Keys \ {k} : /\ Base(k, s)[j] = intents[j]
                                  /\ File(k, s)[j] \in {intents[j], disk[j]}
         /\ \A i, j \in Keys : Base(k, s)[i] # File(k, s)[i]
                               /\ Base(k, s)[j] # File(k, s)[j] => i = j
         /\ RecordOK(Base(k, s)[k], NoGrant)
         /\ RecordOK(File(k, s)[k], NoGrant)
<1> USE DEF IInv, TypeOK, Stored
<1>1. RecordOK(NoIntent, NoGrant)
  BY Placeholders DEF RecordOK
<1>2. RecordOK(intents[k], NoGrant) /\ RecordOK(disk[k], NoGrant)
  BY Weaken DEF Records
<1>3. CASE Stale(k, s)
  BY <1>1, <1>3 DEF Base, File
<1>4. CASE ~Stale(k, s)
  BY <1>2, <1>4 DEF Base, File, OneRecordApart
<1>5. QED
  BY <1>3, <1>4

\* While a promise stands, both records are for its request.
LEMMA PromiseMatches ==
  ASSUME IInv, NEW k \in Keys, told[k] # NoGrant
  PROVE  /\ intents[k] \in Intent
         /\ disk[k] \in Intent
         /\ Matches(intents[k], told[k].serial, told[k].desired)
         /\ Matches(disk[k], told[k].serial, told[k].desired)
         /\ told[k] \in Grant
BY DEF IInv, TypeOK, Records, RecordOK

\* What granting a submission tells the caller.
LEMMA GrantEffect ==
  ASSUME IInv, NEW k \in Keys, NEW s \in Serials, NEW d \in Names,
         NEW now \in Nat, NEW o, Granted(k, s, d, now, o)
  PROVE  /\ told' \in [Keys -> Grant \cup {NoGrant}]
         /\ outstanding' \in SUBSET Request
         /\ \A j \in Keys \ {k} : told'[j] = told[j]
         /\ InFlightOpen'
         /\ o # "ok" => told'[k] = NoGrant \/ told'[k] = told[k]
         /\ o # "ok" /\ ~Matches(told[k], s, d) => told'[k] = NoGrant
         /\ o = "ok" => /\ told'[k] \in Grant
                        /\ Matches(told'[k], s, d)
                        /\ told'[k].at = now
                        /\ told'[k].answer = "open"
                        /\ told[k] = NoGrant \/ ~Matches(told[k], s, d)
                             => told'[k].count = 1
                        /\ told[k] # NoGrant /\ Matches(told[k], s, d)
                             => told'[k].count = told[k].count + 1
<1> USE DEF IInv, TypeOK
<1>1. CASE o # "ok"
  <2>1. told' = Released(k, s, d) /\ outstanding' = outstanding
    BY <1>1 DEF Granted
  <2>2. \A j \in Keys : told'[j] \in {NoGrant, told[j]}
    BY <2>1 DEF Released
  <2>3. InFlightOpen'
    BY <2>1, <2>2 DEF InFlightOpen, Request
  <2>4. QED
    BY <1>1, <2>1, <2>3, Placeholders DEF Released
<1>2. CASE o = "ok"
  <2> DEFINE n == IF told[k] # NoGrant /\ Matches(told[k], s, d)
                  THEN told[k].count + 1 ELSE 1
             g == [serial |-> s, desired |-> d, at |-> now, answer |-> "open",
                   count |-> n]
             r == [key |-> k, serial |-> s, desired |-> d]
  <2>1. told' = [told EXCEPT ![k] = g] /\ outstanding' = outstanding \cup {r}
    BY <1>2 DEF Granted
  <2>2. n \in Nat \ {0}
    BY Placeholders DEF Grant
  <2>3. g \in Grant
    BY <2>2 DEF Grant, Answers
  <2>4. r \in Request
    BY DEF Request
  <2>5. InFlightOpen'
    <3> SUFFICES ASSUME NEW q \in outstanding',
                        told'[q.key] # NoGrant,
                        Matches(told'[q.key], q.serial, q.desired)
                 PROVE  told'[q.key].answer = "open"
      BY DEF InFlightOpen
    <3>1. q \in Request
      BY <2>1, <2>4
    <3>2. CASE q.key = k
      BY <2>1, <3>2
    <3>3. CASE q.key # k
      BY <2>1, <3>1, <3>3 DEF InFlightOpen, Request
    <3>4. QED
      BY <3>2, <3>3
  <2>6. QED
    BY <1>2, <2>1, <2>3, <2>4, <2>5 DEF Matches
<1>3. QED
  BY <1>1, <1>2

-----------------------------------------------------------------------------
(* Prepare, disposition by disposition.                                    *)

StepOK == TypeOK' /\ Records' /\ OneRecordApart' /\ InFlightOpen'

\* Deleting a record, whatever its save does, when no promise is left on it.
LEMMA ClearStep ==
  ASSUME IInv, NEW k \in Keys, NEW o \in Outcomes,
         Save(intents, disk, k, NoIntent, o),
         told' \in [Keys -> Grant \cup {NoGrant}],
         told'[k] = NoGrant,
         \A j \in Keys \ {k} : told'[j] = told[j],
         UNCHANGED <<clock, outstanding>>
  PROVE  StepOK
<1> USE DEF IInv, TypeOK
<1>1. RecordOK(NoIntent, NoGrant) /\ RecordOK(intents[k], NoGrant)
      /\ RecordOK(disk[k], NoGrant)
  BY Weaken, Placeholders DEF Records, RecordOK, Stored
<1>2. intents \in [Keys -> Stored] /\ disk \in [Keys -> Stored] /\ NoIntent \in Stored
  BY DEF Stored
<1>3. Records'
  BY <1>1, <1>2, SaveRecords
<1>4. OneRecordApart'
  BY <1>2, SaveApart DEF OneRecordApart
<1>5. TypeOK'
  BY <1>2, SaveEffect DEF Stored
<1>6. InFlightOpen'
  BY Placeholders DEF InFlightOpen, Request
<1>7. QED
  BY <1>3, <1>4, <1>5, <1>6 DEF StepOK

LEMMA DropFailsStep ==
  ASSUME IInv, NEW k \in Keys, NEW s \in Serials, NEW d \in Names,
         NEW o \in Outcomes, PrepareDropFails(k, s, d, o), UNCHANGED clock
  PROVE  StepOK
<1>1. told[k] = NoGrant \/ ~Matches(told[k], s, d)
  BY PromiseMatches DEF Stale, Matches, PrepareDropFails
<1>2. told' \in [Keys -> Grant \cup {NoGrant}]
      /\ told'[k] = NoGrant
      /\ \A j \in Keys \ {k} : told'[j] = told[j]
  BY <1>1 DEF Released, PrepareDropFails, IInv, TypeOK
<1>3. Save(intents, disk, k, NoIntent, o) /\ UNCHANGED <<clock, outstanding>>
  BY DEF PrepareDropFails
<1>4. QED
  BY <1>2, <1>3, ClearStep

LEMMA ObservedStep ==
  ASSUME IInv, NEW k \in Keys, NEW s \in Serials, NEW current \in Names,
         NEW d \in Names, NEW o \in Outcomes,
         PrepareObserved(k, s, current, d, o), UNCHANGED clock
  PROVE  StepOK
<1> USE DEF IInv, TypeOK
<1>1. told' = [told EXCEPT ![k] = NoGrant] /\ outstanding' = outstanding
  BY DEF PrepareObserved
<1>2. told' \in [Keys -> Grant \cup {NoGrant}]
      /\ told'[k] = NoGrant
      /\ \A j \in Keys \ {k} : told'[j] = told[j]
  BY <1>1
<1>3. InFlightOpen'
  BY <1>1, <1>2 DEF InFlightOpen, Request
<1>4. RecordOK(NoIntent, NoGrant) /\ NoIntent \in Stored
  BY Placeholders DEF RecordOK, Stored
<1>5. CASE Base(k, s)[k] = NoIntent
  <2>1. intents' = Base(k, s) /\ disk' = File(k, s)
    BY <1>5 DEF PrepareObserved
  <2>2. TypeOK' /\ OneRecordApart'
    BY <1>1, <1>2, <2>1, DropEffect DEF Stored, OneRecordApart
  <2>3. Records'
    <3> SUFFICES ASSUME NEW j \in Keys
                 PROVE  RecordOK(intents'[j], told'[j]) /\ RecordOK(disk'[j], told'[j])
      BY DEF Records, RecordOK
    <3>1. CASE j = k
      BY <1>2, <2>1, <3>1, DropEffect
    <3>2. CASE j # k
      BY <1>2, <2>1, <3>2, DropEffect DEF Records
    <3>3. QED
      BY <3>1, <3>2
  <2>4. QED
    BY <1>3, <2>2, <2>3 DEF StepOK
<1>6. CASE Base(k, s)[k] # NoIntent
  <2>1. Save(Base(k, s), File(k, s), k, NoIntent, o)
    BY <1>6 DEF PrepareObserved
  <2>2. /\ RecordOK(NoIntent, told'[k])
        /\ RecordOK(Base(k, s)[k], told'[k]) /\ RecordOK(File(k, s)[k], told'[k])
    BY <1>2, <1>4, DropEffect
  <2>3. /\ Base(k, s) \in [Keys -> Stored] /\ File(k, s) \in [Keys -> Stored]
        /\ \A j \in Keys \ {k} : /\ Base(k, s)[j] = intents[j]
                                 /\ File(k, s)[j] \in {intents[j], disk[j]}
    BY DropEffect
  <2>4. Records'
    BY <1>2, <1>4, <2>1, <2>2, <2>3, SaveRecords
  <2>5. OneRecordApart'
    BY <1>4, <2>1, DropEffect, SaveApart
  <2>6. TypeOK'
    BY <1>1, <1>2, <1>4, <2>1, <2>3, SaveEffect DEF Stored
  <2>7. QED
    BY <1>3, <2>4, <2>5, <2>6 DEF StepOK
<1>7. QED
  BY <1>5, <1>6

\* A first attempt follows no promise of the same request.
LEMMA FirstIsNew ==
  ASSUME IInv, NEW k \in Keys, NEW s \in Serials, NEW current \in Names,
         NEW d \in Names, NEW o \in Outcomes,
         PrepareFirst(k, s, current, d, clock, o)
  PROVE  told[k] = NoGrant \/ ~Matches(told[k], s, d)
<1> SUFFICES ASSUME told[k] # NoGrant, Matches(told[k], s, d) PROVE FALSE
  OBVIOUS
<1>1. intents[k] \in Intent /\ Matches(intents[k], s, d)
  BY PromiseMatches DEF Matches
<1>2. Base(k, s) = intents /\ intents[k] # NoIntent
  BY <1>1, Placeholders DEF Base, Stale, Matches
<1>3. QED
  BY <1>1, <1>2 DEF PrepareFirst, Matches

LEMMA FirstStep ==
  ASSUME IInv, NEW k \in Keys, NEW s \in Serials, NEW current \in Names,
         NEW d \in Names, NEW o \in Outcomes,
         PrepareFirst(k, s, current, d, clock, o), UNCHANGED clock
  PROVE  StepOK
<1> USE DEF IInv, TypeOK
<1> DEFINE v == Attempt(s, d, clock, 1)
<1>1. Save(Base(k, s), File(k, s), k, v, o) /\ Granted(k, s, d, clock, o)
  BY DEF PrepareFirst
<1>2. told[k] = NoGrant \/ ~Matches(told[k], s, d)
  BY FirstIsNew
<1>3. o # "ok" => told'[k] = NoGrant
  BY <1>1, <1>2, GrantEffect
<1>4. v \in Stored /\ RecordOK(v, told'[k])
  BY <1>1, <1>2, <1>3, GrantEffect, AttemptOK, RetryAssumption DEF Stored
<1>5. Records'
  <2>1. \A j \in Keys \ {k} : told'[j] = told[j]
    BY <1>1, GrantEffect
  <2>2. o # "ok" => /\ RecordOK(Base(k, s)[k], told'[k])
                    /\ RecordOK(File(k, s)[k], told'[k])
    BY <1>3, DropEffect
  <2>3. /\ Base(k, s) \in [Keys -> Stored]
        /\ File(k, s) \in [Keys -> Stored]
        /\ \A j \in Keys \ {k} : /\ Base(k, s)[j] = intents[j]
                                 /\ File(k, s)[j] \in {intents[j], disk[j]}
    BY DropEffect
  <2>4. QED
    BY <1>1, <1>4, <2>1, <2>2, <2>3, SaveRecords
<1>6. OneRecordApart'
  BY <1>1, <1>4, DropEffect, SaveApart
<1>7. TypeOK'
  BY <1>1, <1>4, DropEffect, GrantEffect, SaveEffect DEF Stored
<1>8. QED
  BY <1>1, <1>5, <1>6, <1>7, GrantEffect DEF StepOK

LEMMA ExhaustedStep ==
  ASSUME IInv, NEW k \in Keys, NEW s \in Serials, NEW current \in Names,
         NEW d \in Names, NEW o \in Outcomes,
         PrepareExhausted(k, s, current, d, clock, o), UNCHANGED clock
  PROVE  StepOK
<1> USE DEF IInv, TypeOK
<1> DEFINE v == [intents[k] EXCEPT !.status = "failed",
                   !.failure = IF @ = "none" THEN "attempts" ELSE @]
<1>1. Save(intents, disk, k, v, o) /\ told' = told /\ outstanding' = outstanding
  BY DEF PrepareExhausted
<1>2. intents[k] \in Intent /\ intents[k].status = "retrying"
      /\ intents[k].attempts >= MaxAttempts
  BY Placeholders DEF PrepareExhausted, Known, RetryDue
<1>3. v \in Intent /\ v \in Stored
  BY <1>2 DEF Intent, Statuses, Failures, Stored
<1>4. RecordOK(v, told[k])
  <2>1. RecordOK(intents[k], told[k])
    BY DEF Records
  <2>2. /\ v.serial = intents[k].serial /\ v.desired = intents[k].desired
        /\ v.attempts = intents[k].attempts
        /\ v.attemptedAt = intents[k].attemptedAt
        /\ v.status = "failed" /\ v.failure # "none"
    BY <1>2 DEF Intent
  <2>3. told[k].answer \notin {"accepted", "rejected"}
    BY <1>2, <2>1 DEF RecordOK, StatusAfter
  <2>4. v # NoIntent /\ intents[k] # NoIntent
    BY <1>2, <1>3, Placeholders
  <2>5. QED
    BY <1>2, <2>1, <2>2, <2>3, <2>4 DEF RecordOK, Matches
<1>5. intents \in [Keys -> Stored] /\ disk \in [Keys -> Stored]
  BY DEF Stored
<1>6. Records'
  BY <1>1, <1>3, <1>4, <1>5, SaveRecords DEF Records
<1>7. OneRecordApart'
  BY <1>1, <1>3, <1>5, SaveApart DEF OneRecordApart
<1>8. TypeOK'
  BY <1>1, <1>3, <1>5, SaveEffect DEF Stored
<1>9. InFlightOpen'
  BY <1>1 DEF InFlightOpen
<1>10. QED
  BY <1>6, <1>7, <1>8, <1>9 DEF StepOK

\* Facts a retry starts from: the record is covered by its own promise.
LEMMA RetryFacts ==
  ASSUME IInv, NEW k \in Keys, NEW s \in Serials, NEW current \in Names,
         NEW d \in Names, NEW o \in Outcomes,
         PrepareRetry(k, s, current, d, clock, o)
  PROVE  /\ intents[k] \in Intent
         /\ intents[k].attempts + 1 \in Nat \ {0}
         /\ intents[k].attempts + 1 <= MaxAttempts
         /\ told[k] # NoGrant =>
              /\ told[k] \in Grant
              /\ Matches(told[k], s, d)
              /\ told[k].answer \notin {"accepted", "rejected"}
              /\ told[k].at + RetryAfter <= clock
              /\ told[k].count <= intents[k].attempts
<1> USE DEF IInv, TypeOK
<1>1. /\ intents[k] \in Intent
      /\ intents[k].status = "retrying"
      /\ clock >= intents[k].attemptedAt + RetryAfter
      /\ intents[k].attempts < MaxAttempts
      /\ Matches(intents[k], s, d)
  BY DEF PrepareRetry, Known, RetryDue, RetryAt, AttemptsLeft
<1>2. intents[k].attempts \in Nat \ {0} /\ intents[k].attemptedAt \in Nat
  BY <1>1 DEF Intent
<1>3. ASSUME told[k] # NoGrant
      PROVE  /\ told[k] \in Grant
             /\ Matches(told[k], s, d)
             /\ told[k].answer \notin {"accepted", "rejected"}
             /\ told[k].at + RetryAfter <= clock
             /\ told[k].count <= intents[k].attempts
  <2>1. told[k] \in Grant /\ RecordOK(intents[k], told[k])
    BY <1>3 DEF Records
  <2>2. told[k].at \in Nat /\ told[k].count \in Nat
    BY <2>1 DEF Grant
  <2>3. /\ Matches(told[k], s, d)
        /\ told[k].at <= intents[k].attemptedAt
        /\ told[k].count <= intents[k].attempts
    BY <1>1, <1>3, <2>1 DEF RecordOK, Matches
  <2>4. told[k].answer \notin {"accepted", "rejected"}
    BY <1>1, <2>1 DEF RecordOK, StatusAfter
  <2>5. QED
    BY <1>1, <1>2, <2>1, <2>2, <2>3, <2>4, RetryAssumption
<1>4. QED
  BY <1>1, <1>2, <1>3, RetryAssumption

LEMMA RetryStep ==
  ASSUME IInv, NEW k \in Keys, NEW s \in Serials, NEW current \in Names,
         NEW d \in Names, NEW o \in Outcomes,
         PrepareRetry(k, s, current, d, clock, o), UNCHANGED clock
  PROVE  StepOK
<1> USE DEF IInv, TypeOK
<1> DEFINE n == intents[k].attempts + 1
           v == Attempt(s, d, clock, n)
<1>1. Save(intents, disk, k, v, o) /\ Granted(k, s, d, clock, o)
  BY DEF PrepareRetry
<1>2. n \in Nat \ {0} /\ n <= MaxAttempts
  BY RetryFacts
<1>3. v \in Stored /\ RecordOK(v, NoGrant)
  BY <1>2, AttemptOK DEF Stored
<1>4. RecordOK(v, told'[k])
  <2>1. CASE o = "ok"
    <3>1. told'[k] \in Grant /\ Matches(told'[k], s, d) /\ told'[k].at = clock
          /\ told'[k].answer = "open"
      BY <1>1, <2>1, GrantEffect
    <3>2. told'[k].count <= n
      <4>1. CASE told[k] = NoGrant
        BY <1>1, <1>2, <2>1, <4>1, GrantEffect
      <4>2. CASE told[k] # NoGrant
        <5>1. told'[k].count = told[k].count + 1
          BY <1>1, <2>1, <4>2, GrantEffect, RetryFacts
        <5>2. told[k].count <= intents[k].attempts
              /\ told[k].count \in Nat /\ intents[k].attempts \in Nat
          BY <4>2, RetryFacts DEF Grant, Intent
        <5>3. QED
          BY <5>1, <5>2
      <4>3. QED
        BY <4>1, <4>2
    <3>3. QED
      BY <1>2, <3>1, <3>2, AttemptOK
  <2>2. CASE o # "ok"
    <3>1. CASE told'[k] = NoGrant
      BY <1>3, <3>1
    <3>2. CASE told'[k] # NoGrant
      <4>1. told'[k] = told[k] /\ told[k] \in Grant
        BY <1>1, <2>2, <3>2, GrantEffect
      <4>2. /\ Matches(told[k], s, d)
            /\ told[k].answer \notin {"accepted", "rejected"}
            /\ told[k].at + RetryAfter <= clock
            /\ told[k].count <= intents[k].attempts
            /\ intents[k].attempts \in Nat
        BY <3>2, <4>1, RetryFacts DEF Intent
      <4>3. told[k].at <= clock /\ told[k].count <= n
        BY <4>1, <4>2, RetryAssumption DEF Grant
      <4>4. v # NoIntent
        BY <1>2, AttemptOK, Placeholders
      <4>5. QED
        BY <1>3, <4>1, <4>2, <4>3, <4>4 DEF RecordOK, Attempt, Matches
    <3>3. QED
      BY <3>1, <3>2
  <2>3. QED
    BY <2>1, <2>2
<1>5. intents \in [Keys -> Stored] /\ disk \in [Keys -> Stored]
  BY DEF Stored
<1>6. \A j \in Keys \ {k} : told'[j] = told[j]
  BY <1>1, GrantEffect
<1>7. o # "ok" => RecordOK(intents[k], told'[k]) /\ RecordOK(disk[k], told'[k])
  <2>1. RecordOK(intents[k], told[k]) /\ RecordOK(disk[k], told[k])
    BY DEF Records
  <2>2. RecordOK(intents[k], NoGrant) /\ RecordOK(disk[k], NoGrant)
    BY <1>5, <2>1, Weaken
  <2>3. o # "ok" => told'[k] \in {NoGrant, told[k]}
    BY <1>1, GrantEffect
  <2>4. QED
    BY <2>1, <2>2, <2>3
<1>8. Records'
  BY <1>1, <1>3, <1>4, <1>5, <1>6, <1>7, SaveRecords
<1>9. OneRecordApart'
  BY <1>1, <1>3, <1>5, SaveApart DEF OneRecordApart
<1>10. TypeOK'
  BY <1>1, <1>3, <1>5, GrantEffect, SaveEffect DEF Stored
<1>11. QED
  BY <1>1, <1>8, <1>9, <1>10, GrantEffect DEF StepOK

-----------------------------------------------------------------------------
(* The other methods.                                                      *)

LEMMA MarkStep ==
  ASSUME IInv, NEW r \in outstanding, NEW answer \in Answers \ {"open"},
         NEW o \in Outcomes, Mark(r.key, r.serial, r.desired, answer, o),
         UNCHANGED clock
  PROVE  StepOK
<1> USE DEF IInv, TypeOK
<1> DEFINE k == r.key
           s == r.serial
           d == r.desired
           v == [intents[k] EXCEPT !.status = StatusAfter(answer),
                                   !.failure = FailureAfter(answer)]
<1>1. /\ k \in Keys /\ s \in Serials /\ d \in Names
      /\ r = [key |-> k, serial |-> s, desired |-> d]
  BY DEF Request
<1>2. outstanding' = outstanding \ {r}
  BY <1>1 DEF Mark
<1>3. CASE ~Current(k, s, d)
  <2>1. UNCHANGED <<intents, disk, told>>
    BY <1>3 DEF Mark
  <2>2. QED
    BY <1>2, <2>1 DEF StepOK, Records, RecordOK, OneRecordApart, InFlightOpen
<1>4. CASE Current(k, s, d)
  <2>1. Save(intents, disk, k, v, o)
    BY <1>4 DEF Mark
  <2>2. told' = IF o = "ok" /\ told[k] # NoGrant /\ Matches(told[k], s, d)
                THEN [told EXCEPT ![k].answer = answer] ELSE told
    BY <1>4 DEF Mark
  <2>3. intents[k] \in Intent /\ intents[k] # NoIntent
    BY <1>1, <1>4 DEF Current
  <2>4. /\ v \in Intent /\ v \in Stored
        /\ v.serial = intents[k].serial /\ v.desired = intents[k].desired
        /\ v.attempts = intents[k].attempts
        /\ v.attemptedAt = intents[k].attemptedAt
        /\ v.status = StatusAfter(answer)
        /\ v.failure = FailureAfter(answer)
    BY <2>3 DEF Intent, Statuses, Failures, Stored, StatusAfter, FailureAfter
  <2>5. told[k] # NoGrant => told[k] \in Grant /\ told[k].answer = "open"
    BY <1>1, <1>4, PromiseMatches DEF InFlightOpen, Current, Matches
  <2>6. /\ told' \in [Keys -> Grant \cup {NoGrant}]
        /\ \A j \in Keys \ {k} : told'[j] = told[j]
        /\ told'[k] # NoGrant =>
             /\ told'[k].serial = told[k].serial
             /\ told'[k].desired = told[k].desired
             /\ told'[k].at = told[k].at
             /\ told'[k].count = told[k].count
             /\ told'[k].answer \in {"open", answer}
             /\ told[k] # NoGrant
    BY <1>1, <2>2, <2>5 DEF Grant, Answers
  <2>7. RecordOK(intents[k], told[k]) /\ RecordOK(disk[k], told[k])
    BY <1>1 DEF Records
  <2>8. RecordOK(v, told'[k])
    <3>1. v # NoIntent
      BY <2>4, Placeholders
    <3>2. v.status = "failed" => v.failure = "provider"
      BY <2>4 DEF StatusAfter, FailureAfter
    <3>3. told'[k].answer \in {"accepted", "rejected"} =>
            v.status = StatusAfter(told'[k].answer)
      BY <2>4, <2>6, Placeholders
    <3>4. QED
      BY <2>3, <2>4, <2>6, <2>7, <3>1, <3>2, <3>3 DEF RecordOK, Matches
  <2>9. o # "ok" => told' = told
    BY <2>2
  <2>10. intents \in [Keys -> Stored] /\ disk \in [Keys -> Stored]
    BY DEF Stored
  <2>11. Records'
    BY <1>1, <2>1, <2>4, <2>6, <2>7, <2>8, <2>9, <2>10, SaveRecords
  <2>12. OneRecordApart'
    BY <1>1, <2>1, <2>4, <2>10, SaveApart DEF OneRecordApart
  <2>13. TypeOK'
    BY <1>1, <1>2, <2>1, <2>4, <2>6, <2>10, SaveEffect DEF Stored
  <2>14. InFlightOpen'
    <3> SUFFICES ASSUME NEW q \in outstanding',
                        told'[q.key] # NoGrant,
                        Matches(told'[q.key], q.serial, q.desired)
                 PROVE  told'[q.key].answer = "open"
      BY DEF InFlightOpen
    <3>1. q \in outstanding /\ q \in Request /\ q # r
      BY <1>2
    <3>2. q.key \in Keys /\ q = [key |-> q.key, serial |-> q.serial, desired |-> q.desired]
      BY <3>1 DEF Request
    <3>3. CASE q.key = k
      <4>1. Matches(told[k], q.serial, q.desired)
        BY <2>6, <3>3 DEF Matches
      <4>2. ~Matches(told[k], s, d)
        BY <1>1, <3>1, <3>2, <3>3, <4>1 DEF Matches
      <4>3. told' = told
        BY <2>2, <4>2
      <4>4. QED
        BY <3>1, <4>3 DEF InFlightOpen
    <3>4. CASE q.key # k
      BY <2>6, <3>1, <3>2, <3>4 DEF InFlightOpen
    <3>5. QED
      BY <3>3, <3>4
  <2>15. QED
    BY <2>11, <2>12, <2>13, <2>14 DEF StepOK
<1>5. QED
  BY <1>3, <1>4

LEMMA ObserveStep ==
  ASSUME IInv, NEW k \in Keys, NEW s \in Serials, NEW current \in Names,
         NEW o \in Outcomes, Observe(k, s, current, o), UNCHANGED clock
  PROVE  StepOK
<1> DEFINE Clears == /\ intents[k] # NoIntent
                     /\ intents[k].serial # s \/ intents[k].desired = current
<1>1. CASE Clears
  <2>1. Save(intents, disk, k, NoIntent, o) /\ UNCHANGED <<clock, outstanding>>
    BY <1>1 DEF Observe
  <2>2. told[k] # NoGrant => told[k].serial # s \/ told[k].desired = current
    BY <1>1, PromiseMatches DEF Matches
  <2>3. told' \in [Keys -> Grant \cup {NoGrant}]
        /\ told'[k] = NoGrant
        /\ \A j \in Keys \ {k} : told'[j] = told[j]
    BY <2>2 DEF Observe, IInv, TypeOK
  <2>4. QED
    BY <2>1, <2>3, ClearStep
<1>2. CASE ~Clears
  <2>1. told[k] # NoGrant => ~(told[k].serial # s \/ told[k].desired = current)
    BY <1>2, PromiseMatches, Placeholders DEF Matches
  <2>2. UNCHANGED vars
    BY <1>2, <2>1 DEF Observe, vars
  <2>3. QED
    BY <2>2 DEF vars, StepOK, IInv, TypeOK, Records, RecordOK, OneRecordApart,
                InFlightOpen
<1>3. QED
  BY <1>1, <1>2

LEMMA CancelStep ==
  ASSUME IInv, NEW k \in Keys, NEW o \in Outcomes, Cancel(k, o), UNCHANGED clock
  PROVE  StepOK
<1>1. told' \in [Keys -> Grant \cup {NoGrant}]
      /\ told'[k] = NoGrant
      /\ \A j \in Keys \ {k} : told'[j] = told[j]
  BY DEF Cancel, IInv, TypeOK
<1>2. CASE intents[k] # NoIntent
  BY <1>1, <1>2, ClearStep DEF Cancel
<1>3. CASE intents[k] = NoIntent
  <2>1. told[k] = NoGrant
    BY <1>3, PromiseMatches, Placeholders
  <2>2. UNCHANGED vars
    BY <1>3, <2>1 DEF Cancel, vars, IInv, TypeOK
  <2>3. QED
    BY <2>2 DEF vars, StepOK, IInv, TypeOK, Records, RecordOK, OneRecordApart,
                InFlightOpen
<1>4. QED
  BY <1>2, <1>3

LEMMA PrepareStep ==
  ASSUME IInv, NEW k \in Keys, NEW s \in Serials, NEW current \in Names,
         NEW d \in Names, NEW o \in Outcomes,
         Prepare(k, s, current, d, clock, o), UNCHANGED clock
  PROVE  StepOK
<1>1. CASE PreparePending(k, s, current, d, clock) \/ PrepareFailed(k, s, current, d)
  BY <1>1 DEF PreparePending, PrepareFailed, StepOK, IInv, TypeOK, Records,
              RecordOK, OneRecordApart, InFlightOpen
<1>2. QED
  BY <1>1, DropFailsStep, ObservedStep, FirstStep, ExhaustedStep, RetryStep
     DEF Prepare

\* Initially nothing is recorded and nothing is promised.
LEMMA InitHolds == Init => IInv
<1> SUFFICES ASSUME Init PROVE IInv
  OBVIOUS
<1>1. TypeOK
  BY DEF Init, TypeOK, Request
<1>2. \A k \in Keys : RecordOK(intents[k], told[k]) /\ RecordOK(disk[k], told[k])
  BY Placeholders DEF Init, RecordOK
<1>3. QED
  BY <1>1, <1>2 DEF Init, IInv, Records, OneRecordApart, InFlightOpen

\* Every step preserves the inductive invariant.
LEMMA StepHolds == IInv /\ [Next]_vars => IInv'
<1> SUFFICES ASSUME IInv, [Next]_vars PROVE StepOK
  BY DEF StepOK, IInv
<1>1. CASE PrepareAny
  BY <1>1, PrepareStep DEF PrepareAny
<1>2. CASE MarkAny
  BY <1>2, MarkStep DEF MarkAny
<1>3. CASE ObserveAny
  BY <1>3, ObserveStep DEF ObserveAny
<1>4. CASE CancelAny
  BY <1>4, CancelStep DEF CancelAny
<1>5. CASE Restart
  BY <1>5 DEF Restart, StepOK, IInv, TypeOK, Records, RecordOK, OneRecordApart,
              InFlightOpen
<1>6. CASE Tick \/ Abandon
  BY <1>6, RetryAssumption
     DEF Tick, Abandon, StepOK, IInv, TypeOK, Records, RecordOK, OneRecordApart, InFlightOpen
<1>7. CASE UNCHANGED vars
  BY <1>7 DEF vars, StepOK, IInv, TypeOK, Records, RecordOK, OneRecordApart,
              InFlightOpen
<1>8. QED
  BY <1>1, <1>2, <1>3, <1>4, <1>5, <1>6, <1>7 DEF Next

\* The inductive invariant holds in every reachable state.
THEOREM Invariance == Spec => []IInv
BY InitHolds, StepHolds, PTL DEF Spec

-----------------------------------------------------------------------------
(* The ledger's variables keep their types.                                *)
THEOREM TypeCorrect == Spec => []TypeOK
<1>1. IInv => TypeOK
  BY DEF IInv
<1>2. QED
  BY <1>1, Invariance, PTL

(* Every granted submission is recorded in memory and in the file for as   *)
(* long as the request stands.                                             *)
THEOREM PromisesAreDurable == Spec => []PromisesDurable
<1>1. IInv => PromisesDurable
  BY DEF IInv, Records, RecordOK, PromisesDurable, Covers
<1>2. QED
  BY <1>1, Invariance, PTL

(* A standing request is granted at most MaxAttempts submissions.          *)
THEOREM SubmissionsAreBounded == Spec => []BoundedSubmissions
<1>1. IInv => BoundedSubmissions
  <2> SUFFICES ASSUME IInv, NEW k \in Keys, told[k] # NoGrant
               PROVE  told[k].count <= MaxAttempts
    BY DEF BoundedSubmissions
  <2>1. told[k] \in Grant /\ intents[k] \in Intent
    BY PromiseMatches
  <2>2. told[k].count <= intents[k].attempts /\ intents[k].attempts <= MaxAttempts
    BY <2>1 DEF IInv, Records, RecordOK
  <2>3. QED
    BY <2>1, <2>2, RetryAssumption DEF Grant, Intent
<1>2. QED
  BY <1>1, Invariance, PTL

(* Memory and file differ for one device at most.                          *)
THEOREM FileIsOneRecordBehind == Spec => []OneRecordApart
<1>1. IInv => OneRecordApart
  BY DEF IInv
<1>2. QED
  BY <1>1, Invariance, PTL

(* An acknowledged outcome survives restarts and other devices' failures.  *)
THEOREM OutcomesAreKept == Spec => []OutcomeKept
<1>1. IInv => OutcomeKept
  BY DEF IInv, Records, RecordOK, OutcomeKept
<1>2. QED
  BY <1>1, Invariance, PTL

(* Failed records are explained, and truthfully about the attempts made.   *)
THEOREM FailuresAreExplained == Spec => []FailureExplained
<1>1. IInv => FailureExplained
  BY DEF IInv, Records, RecordOK, FailureExplained
<1>2. QED
  BY <1>1, Invariance, PTL

-----------------------------------------------------------------------------
(* How one step changes what the caller of a device was told: it is kept,  *)
(* let go, answered, granted anew, or granted again after its cooldown.    *)
ToldChange(k) ==
  \/ told'[k] \in {told[k], NoGrant}
  \/ /\ told[k].answer = "open"
     /\ told'[k].count = told[k].count
  \/ /\ told[k] = NoGrant \/ ~Matches(told[k], told'[k].serial, told'[k].desired)
     /\ told'[k].count = 1
  \/ /\ told[k].answer \notin {"accepted", "rejected"}
     /\ told'[k].at >= told[k].at + RetryAfter

LEMMA PrepareTold ==
  ASSUME IInv, NEW k \in Keys, NEW s \in Serials, NEW current \in Names,
         NEW d \in Names, NEW o \in Outcomes,
         Prepare(k, s, current, d, clock, o)
  PROVE  ToldChange(k) /\ \A j \in Keys \ {k} : told'[j] = told[j]
<1> USE DEF ToldChange
<1>1. CASE PrepareDropFails(k, s, d, o)
  BY <1>1 DEF PrepareDropFails, Released, IInv, TypeOK
<1>2. CASE PrepareObserved(k, s, current, d, o)
  BY <1>2 DEF PrepareObserved, IInv, TypeOK
<1>3. CASE PrepareFirst(k, s, current, d, clock, o)
  <2>1. Granted(k, s, d, clock, o) /\ clock \in Nat
    BY <1>3 DEF PrepareFirst, IInv, TypeOK
  <2>2. told[k] = NoGrant \/ ~Matches(told[k], s, d)
    BY <1>3, FirstIsNew
  <2>3. CASE o = "ok"
    BY <2>1, <2>2, <2>3, GrantEffect DEF Matches
  <2>4. CASE o # "ok"
    BY <2>1, <2>4, GrantEffect
  <2>5. QED
    BY <2>3, <2>4
<1>4. CASE PreparePending(k, s, current, d, clock) \/ PrepareFailed(k, s, current, d)
  BY <1>4 DEF PreparePending, PrepareFailed
<1>5. CASE PrepareExhausted(k, s, current, d, clock, o)
  BY <1>5 DEF PrepareExhausted
<1>6. CASE PrepareRetry(k, s, current, d, clock, o)
  <2>1. Granted(k, s, d, clock, o) /\ clock \in Nat
    BY <1>6 DEF PrepareRetry, IInv, TypeOK
  <2>2. CASE told[k] = NoGrant
    BY <2>1, <2>2, GrantEffect
  <2>3. CASE told[k] # NoGrant
    <3>1. /\ told[k].answer \notin {"accepted", "rejected"}
          /\ clock >= told[k].at + RetryAfter
      BY <1>6, <2>3, RetryFacts, RetryAssumption DEF Grant
    <3>2. QED
      BY <2>1, <3>1, GrantEffect
  <2>4. QED
    BY <2>2, <2>3
<1>7. QED
  BY <1>1, <1>2, <1>3, <1>4, <1>5, <1>6 DEF Prepare

LEMMA MarkTold ==
  ASSUME IInv, NEW r \in outstanding, NEW answer \in Answers \ {"open"},
         NEW o \in Outcomes, Mark(r.key, r.serial, r.desired, answer, o)
  PROVE  \A j \in Keys : ToldChange(j)
<1> SUFFICES ASSUME NEW j \in Keys PROVE ToldChange(j)
  OBVIOUS
<1>1. CASE told' = told
  BY <1>1 DEF ToldChange
<1>2. CASE told' # told
  <2>1. /\ told' = [told EXCEPT ![r.key].answer = answer]
        /\ told[r.key] # NoGrant
        /\ Matches(told[r.key], r.serial, r.desired)
    BY <1>2 DEF Mark
  <2>2. r.key \in Keys
    BY DEF IInv, TypeOK, Request
  <2>3. told[r.key] \in Grant /\ told[r.key].answer = "open"
    BY <2>1, <2>2 DEF IInv, TypeOK, InFlightOpen
  <2>4. told'[r.key].count = told[r.key].count
    BY <2>1, <2>2, <2>3 DEF IInv, TypeOK, Grant
  <2>5. QED
    BY <2>1, <2>2, <2>3, <2>4 DEF ToldChange, IInv, TypeOK
<1>3. QED
  BY <1>1, <1>2

LEMMA ToldSteps ==
  ASSUME IInv, [Next]_vars
  PROVE  \A j \in Keys : ToldChange(j)
<1> SUFFICES ASSUME NEW j \in Keys PROVE ToldChange(j)
  OBVIOUS
<1>1. CASE PrepareAny
  BY <1>1, PrepareTold DEF PrepareAny, ToldChange
<1>2. CASE MarkAny
  BY <1>2, MarkTold DEF MarkAny
<1>3. CASE ObserveAny
  BY <1>3 DEF ObserveAny, Observe, ToldChange, IInv, TypeOK
<1>4. CASE CancelAny
  BY <1>4 DEF CancelAny, Cancel, ToldChange, IInv, TypeOK
<1>5. CASE Restart \/ Abandon \/ Tick \/ UNCHANGED vars
  BY <1>5 DEF Restart, Abandon, Tick, vars, ToldChange
<1>6. QED
  BY <1>1, <1>2, <1>3, <1>4, <1>5 DEF Next

(* Submissions of one standing request are at least RetryAfter apart.      *)
THEOREM CooldownIsRespected == Spec => CooldownRespected
<1>1. IInv /\ [Next]_vars => [CooldownKept]_vars
  <2> SUFFICES ASSUME IInv, [Next]_vars, NEW k \in Keys,
                      told[k] # NoGrant, told'[k] # NoGrant,
                      told'[k].count > told[k].count
               PROVE  told'[k].at >= told[k].at + RetryAfter
    BY DEF CooldownKept
  <2>1. told[k] \in Grant /\ told[k].count \in Nat \ {0}
    BY DEF IInv, TypeOK, Grant
  <2>2. ToldChange(k)
    BY ToldSteps
  <2>3. QED
    BY <2>1, <2>2 DEF ToldChange
<1>2. QED
  BY <1>1, Invariance, PTL DEF Spec, CooldownRespected

(* A settled request is never granted again.                               *)
THEOREM SettledIsForGood == Spec => SettledForGood
<1>1. IInv /\ [Next]_vars => [SettledKept]_vars
  <2> SUFFICES ASSUME IInv, [Next]_vars, NEW k \in Keys,
                      told[k].answer \in {"accepted", "rejected"}
               PROVE  \/ told'[k] \in {told[k], NoGrant}
                      \/ ~Matches(told'[k], told[k].serial, told[k].desired)
    BY DEF SettledKept
  <2>1. told[k] # NoGrant
    BY Placeholders
  <2>2. ToldChange(k)
    BY ToldSteps
  <2>3. QED
    BY <2>1, <2>2 DEF ToldChange, Matches
<1>2. QED
  BY <1>1, Invariance, PTL DEF Spec, SettledForGood

(* An outcome settles only the record of its own request.                  *)
THEOREM LateOutcomesAreIgnored == Spec => LateOutcomeIgnored
<1> DEFINE Own == \A r \in outstanding \ outstanding' :
             LET k == r.key IN
             intents'[k] # intents[k] /\ intents'[k].status \in {"submitted", "failed"}
               => \/ Matches(intents'[k], r.serial, r.desired)
                  \/ intents' = disk
<1>1. IInv /\ [Next]_vars => [Own]_vars
  <2> SUFFICES ASSUME IInv, [Next]_vars PROVE Own
    OBVIOUS
  <2>1. CASE outstanding \subseteq outstanding'
    BY <2>1
  <2>2. CASE intents' \in {intents, disk}
    BY <2>2
  <2>3. CASE MarkAny
    <3>1. PICK r \in outstanding, answer \in Answers \ {"open"}, o \in Outcomes :
            Mark(r.key, r.serial, r.desired, answer, o)
      BY <2>3 DEF MarkAny
    <3>2. /\ r.key \in Keys /\ r = [key |-> r.key, serial |-> r.serial, desired |-> r.desired]
          /\ intents \in [Keys -> Intent \cup {NoIntent}]
      BY DEF IInv, TypeOK, Request
    <3>3. outstanding \ outstanding' \subseteq {r}
      BY <3>1, <3>2 DEF Mark
    <3>4. CASE ~Current(r.key, r.serial, r.desired)
      BY <2>2, <3>1, <3>4 DEF Mark
    <3>5. CASE Current(r.key, r.serial, r.desired)
      <4>1. intents[r.key] \in Intent /\ Matches(intents[r.key], r.serial, r.desired)
        BY <3>2, <3>5 DEF Current
      <4>2. PICK v \in Intent : /\ Matches(v, r.serial, r.desired)
                                /\ Save(intents, disk, r.key, v, o)
        <5> DEFINE v == [intents[r.key] EXCEPT !.status = StatusAfter(answer),
                                               !.failure = FailureAfter(answer)]
        <5>1. v \in Intent /\ v.serial = intents[r.key].serial /\ v.desired = intents[r.key].desired
          BY <4>1 DEF Intent, Statuses, Failures, StatusAfter, FailureAfter
        <5>2. Save(intents, disk, r.key, v, o)
          BY <3>1, <3>5 DEF Mark
        <5> HIDE DEF v
        <5>3. QED
          BY <4>1, <5>1, <5>2 DEF Matches
      <4>3. intents' = intents \/ intents'[r.key] = v
        BY <3>2, <4>2 DEF Save
      <4>4. QED
        BY <3>3, <4>2, <4>3
    <3>6. QED
      BY <3>4, <3>5
  <2>4. CASE PrepareAny \/ ObserveAny \/ CancelAny
    <3>1. ASSUME NEW k, NEW s, NEW current, NEW d, NEW o, Prepare(k, s, current, d, clock, o)
          PROVE  outstanding \subseteq outstanding'
      <4>1. Granted(k, s, d, clock, o) => outstanding \subseteq outstanding'
        BY DEF Granted
      <4>2. QED
        BY <3>1, <4>1, Zenon DEF Prepare, PrepareDropFails, PrepareObserved, PrepareFirst,
          PreparePending, PrepareFailed, PrepareExhausted, PrepareRetry
    <3>2. ObserveAny \/ CancelAny => outstanding' = outstanding
      BY DEF ObserveAny, CancelAny, Observe, Cancel
    <3>3. QED
      BY <2>1, <2>4, <3>1, <3>2 DEF PrepareAny
  <2>5. QED
    BY <2>2, <2>3, <2>4 DEF Next, Restart, Abandon, Tick, vars
<1>2. QED
  BY <1>1, Invariance, PTL DEF Spec, LateOutcomeIgnored

=============================================================================
