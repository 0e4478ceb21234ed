--------------------------- MODULE ReconcileProofs --------------------------
(***************************************************************************)
(* Theorems about Reconcile, for any number of devices and workers and any *)
(* plans: the service keeps its ledger's contract, so that what is proved  *)
(* of Ledger holds for it; a command in flight is on record; the provider  *)
(* is never called too often, nor again after an acceptance was recorded;  *)
(* and a report says what is so.                                           *)
(***************************************************************************)
EXTENDS Reconcile, TLAPS

\* The proofs of the ledger, for the ledger of the service.
P == INSTANCE LedgerProofs WITH Keys <- Devices, Serials <- {Serial}, clock <- now

\* A worker has a job and has not called the provider, or has.
Before == {"taken", "passed"}
After == {"calling", "landed", "accepted", "rejected", "unsure"}

Steps == {"idle"} \cup Before \cup After

Shape ==
  /\ now \in Nat
  /\ phase \in {"idle", "list", "prepare", "work", "done", "stopped"}
  /\ phase \in {"prepare", "work"} => item \in [Devices -> Plans]
  /\ next \in 1 .. N + 1
  /\ jobs \in Seq(Devices)
  /\ worker \in [Workers -> [step : Steps, device : Devices \cup {0}]]
  /\ result \in [Devices -> [action : {"none", "planned", "pending", "submitted", "failed"},
                             error : BOOLEAN, retryAt : Nat]]
  /\ sent \in [Devices -> [count : Nat, accepted : {"no", "answered", "recorded"}]]

In(d, q) == \E i \in 1 .. Len(q) : q[i] = d

Distinct(q) == \A i, j \in 1 .. Len(q) : q[i] = q[j] => i = j

Queued(d) == In(d, jobs)

Holds(w, d) == worker[w].step # "idle" /\ worker[w].device = d

Pending(d) == Queued(d) \/ \E w \in Workers : Holds(w, d)

At(d, steps) == \E w \in Workers : worker[w].step \in steps /\ worker[w].device = d

Uncalled(d) == Queued(d) \/ At(d, Before)

\* Between cycles nothing is left of the last one.
Quiet ==
  /\ phase # "work" => \A w \in Workers : worker[w].step = "idle"
  /\ phase \in {"idle", "list", "stopped"} =>
       /\ next = 1 /\ jobs = <<>> /\ outstanding = {}
       /\ result = [d \in Devices |-> Blank]

\* Each device that was granted a submission is in one place.
OnePlace ==
  /\ Distinct(jobs)
  /\ \A w \in Workers : worker[w].step # "idle" =>
       worker[w].device \in Devices /\ ~Queued(worker[w].device)
  /\ \A v, w \in Workers :
       worker[v].step # "idle" /\ worker[w].step # "idle" /\ worker[v].device = worker[w].device
         => v = w

\* The loop has granted, and said something of, only what it has passed.
Passed ==
  /\ \A d \in Devices : Queued(d) => d < next
  /\ phase = "prepare" => \A r \in outstanding : r.key < next
  /\ phase = "prepare" => \A d \in Devices :
       d >= next => result[d] = IF item[d].rename THEN Planned ELSE Blank

RequestOf(d) == [key |-> d, serial |-> Serial, desired |-> item[d].desired]

\* What the ledger and the report know of a device whose submission is pending.
OnRecord(d) ==
  /\ RequestOf(d) \in outstanding
  /\ told[d] # L!NoGrant /\ told[d].desired = item[d].desired
  /\ \A f \in {intents, disk} : f[d].status = "retrying" /\ f[d].attemptedAt = now
  /\ result[d] = [action |-> "planned", error |-> FALSE, retryAt |-> now + RetryAfter]
  /\ Uncalled(d) => sent[d].count < told[d].count

Recorded == phase \in {"prepare", "work"} => \A d \in Devices : Pending(d) => OnRecord(d)

AnswerHeard ==
  \A w \in Workers : worker[w].step = "accepted" => sent[worker[w].device].accepted # "no"

\* Calls are counted against the ledger's grants.
CountedAt(d) ==
  IF told[d] = L!NoGrant THEN sent[d] = NoCall
  ELSE /\ sent[d].count <= told[d].count
       /\ sent[d].accepted = "recorded" => told[d].answer = "accepted"

Counted == \A d \in Devices : CountedAt(d)

\* What the report says of a device is so from the moment it is said.
Truth(d) ==
  /\ result[d].action = "submitted" => sent[d].accepted # "no"
  /\ result[d].action = "submitted" /\ ~result[d].error
       => intents[d].status = "submitted" /\ disk[d].status = "submitted"
  /\ result[d].action = "pending" /\ result[d].retryAt = Never
       => intents[d].status = "submitted"
  /\ result[d].action = "failed" => intents[d].status = "failed" /\ result[d].error
  /\ result[d].action = "pending" /\ result[d].retryAt # Never
       => intents[d].status = "retrying" /\ result[d].retryAt = intents[d].attemptedAt + RetryAfter

Truthful == \A d \in Devices : Truth(d)

\* What is owed to a request that was granted and for which nobody called.
Owed(r) ==
  /\ told[r.key] # L!NoGrant /\ told[r.key].desired = r.desired
  /\ sent[r.key].count < told[r.key].count
  /\ \A f \in {intents, disk} : f[r.key].status = "retrying"
  /\ \/ result[r.key].action = "planned"
     \/ cancelled /\ result[r.key].action = "pending" /\ result[r.key].error

Kept ==
  \A r \in outstanding :
    /\ phase \in {"prepare", "work"} => r = RequestOf(r.key)
    /\ At(r.key, After) \/ Owed(r)

\* Nothing is said of a device only while its submission is pending.
Attended ==
  /\ phase \in {"prepare", "work"} => \A d \in Devices :
       d < next /\ item[d].rename /\ result[d].action = "planned" => Pending(d)
  /\ phase = "done" /\ next > N => \A d \in Devices :
       item[d].rename => result[d].action # "planned"

\* The parts that are about the cycle and not the ledger.
Cycle ==
  /\ Shape /\ Quiet /\ OnePlace /\ Passed /\ Recorded /\ AnswerHeard /\ Counted /\ Truthful
  /\ Kept /\ Attended

IInv == P!IInv /\ Cycle

-----------------------------------------------------------------------------
(* The ledger of the service.                                              *)

LEMMA Assumed == P!RetryAssumption
BY ReconcileAssumption DEF P!RetryAssumption

LEMMA SameLedger == (L!Init => P!Init) /\ ([L!Next]_(L!vars) => [P!Next]_(P!vars))
<1>1. L!NoIntent = P!NoIntent /\ L!NoGrant = P!NoGrant /\ L!vars = P!vars
  BY DEF L!NoIntent, P!NoIntent, L!NoGrant, P!NoGrant, L!vars, P!vars
<1>2. L!Init => P!Init
  BY <1>1 DEF L!Init, P!Init
<1>3. \A k, s, c, d, t, o : L!Prepare(k, s, c, d, t, o) <=> P!Prepare(k, s, c, d, t, o)
  <2> TAKE k, s, c, d, t, o
  <2>1. L!PrepareExhausted(k, s, c, d, t, o) <=> P!PrepareExhausted(k, s, c, d, t, o)
    BY Zenon DEF L!PrepareExhausted, P!PrepareExhausted, L!Known, P!Known, L!Matches, P!Matches,
      L!RetryDue, P!RetryDue, L!RetryAt, P!RetryAt, L!Save, P!Save, L!NoIntent, P!NoIntent
  <2>2. L!PrepareRetry(k, s, c, d, t, o) <=> P!PrepareRetry(k, s, c, d, t, o)
    BY Zenon DEF L!PrepareRetry, P!PrepareRetry, L!Known, P!Known, L!Matches, P!Matches,
      L!RetryDue, P!RetryDue, L!RetryAt, P!RetryAt, L!AttemptsLeft, P!AttemptsLeft,
      L!Attempt, P!Attempt, L!Granted, P!Granted, L!Released, P!Released,
      L!Save, P!Save, L!NoIntent, P!NoIntent, L!NoGrant, P!NoGrant
  <2>3. L!PrepareFirst(k, s, c, d, t, o) <=> P!PrepareFirst(k, s, c, d, t, o)
    <3>1. L!Base(k, s) = P!Base(k, s) /\ L!File(k, s) = P!File(k, s)
      BY Zenon DEF L!Base, P!Base, L!File, P!File, L!Stale, P!Stale, L!NoIntent, P!NoIntent
    <3>2. \A base, file, v : L!Save(base, file, k, v, o) <=> P!Save(base, file, k, v, o)
      BY Zenon DEF L!Save, P!Save
    <3>3. L!Granted(k, s, d, t, o) <=> P!Granted(k, s, d, t, o)
      BY Zenon DEF L!Granted, P!Granted, L!Released, P!Released, L!Matches, P!Matches,
        L!NoGrant, P!NoGrant
    <3>4. L!Attempt(s, d, t, 1) = P!Attempt(s, d, t, 1) /\ L!NoIntent = P!NoIntent
      BY DEF L!Attempt, P!Attempt, L!NoIntent, P!NoIntent
    <3>5. QED
      BY <3>1, <3>2, <3>3, <3>4, Zenon DEF L!PrepareFirst, P!PrepareFirst
  <2>4. L!PrepareObserved(k, s, c, d, o) <=> P!PrepareObserved(k, s, c, d, o)
    BY Zenon DEF L!PrepareObserved, P!PrepareObserved, L!Base, P!Base, L!File, P!File,
      L!Stale, P!Stale, L!Save, P!Save, L!NoIntent, P!NoIntent, L!NoGrant, P!NoGrant
  <2>5. L!PrepareDropFails(k, s, d, o) <=> P!PrepareDropFails(k, s, d, o)
    BY Zenon DEF L!PrepareDropFails, P!PrepareDropFails, L!Stale, P!Stale, L!Save, P!Save,
      L!Released, P!Released, L!Matches, P!Matches, L!NoIntent, P!NoIntent, L!NoGrant, P!NoGrant
  <2>6. /\ L!PreparePending(k, s, c, d, t) <=> P!PreparePending(k, s, c, d, t)
        /\ L!PrepareFailed(k, s, c, d) <=> P!PrepareFailed(k, s, c, d)
    BY Zenon DEF L!PreparePending, P!PreparePending, L!PrepareFailed, P!PrepareFailed,
      L!Known, P!Known, L!Matches, P!Matches, L!RetryAt, P!RetryAt, L!NoIntent, P!NoIntent
  <2>7. QED
    BY <2>1, <2>2, <2>3, <2>4, <2>5, <2>6, Zenon DEF L!Prepare, P!Prepare
<1>4. \A k, s, d, answer, o : L!Mark(k, s, d, answer, o) <=> P!Mark(k, s, d, answer, o)
  <2> TAKE k, s, d, answer, o
  <2>1. \A base, file, v : L!Save(base, file, k, v, o) <=> P!Save(base, file, k, v, o)
    BY Zenon DEF L!Save, P!Save
  <2>2. /\ L!Current(k, s, d) <=> P!Current(k, s, d)
        /\ L!Matches(told[k], s, d) <=> P!Matches(told[k], s, d)
    BY Zenon DEF L!Current, P!Current, L!Matches, P!Matches, L!NoIntent, P!NoIntent
  <2>3. /\ L!StatusAfter(answer) = P!StatusAfter(answer)
        /\ L!FailureAfter(answer) = P!FailureAfter(answer)
    BY DEF L!StatusAfter, P!StatusAfter, L!FailureAfter, P!FailureAfter
  <2>4. QED
    BY <2>1, <2>2, <2>3, <1>1, Zenon DEF L!Mark, P!Mark
<1>5. \A k, s, c, o : L!Observe(k, s, c, o) <=> P!Observe(k, s, c, o)
  BY Zenon DEF L!Observe, P!Observe, L!Save, P!Save, L!NoIntent, P!NoIntent, L!NoGrant, P!NoGrant
<1>6. \A k, o : L!Cancel(k, o) <=> P!Cancel(k, o)
  BY Zenon DEF L!Cancel, P!Cancel, L!Save, P!Save, L!NoIntent, P!NoIntent, L!NoGrant, P!NoGrant
<1>7. L!Outcomes = P!Outcomes /\ L!Answers = P!Answers
  BY DEF L!Outcomes, P!Outcomes, L!Answers, P!Answers
<1>8. L!PrepareAny => P!PrepareAny
  BY <1>3, <1>7, Zenon DEF L!PrepareAny, P!PrepareAny
<1>9. L!MarkAny => P!MarkAny
  BY <1>4, <1>7, Zenon DEF L!MarkAny, P!MarkAny
<1>10. L!ObserveAny => P!ObserveAny
  BY <1>5, <1>7, Zenon DEF L!ObserveAny, P!ObserveAny
<1>11. L!CancelAny => P!CancelAny
  BY <1>6, <1>7, Zenon DEF L!CancelAny, P!CancelAny
<1>12. /\ L!Restart => P!Restart
       /\ L!Abandon => P!Abandon
       /\ L!Tick => P!Tick
  BY DEF L!Restart, P!Restart, L!Abandon, P!Abandon, L!Tick, P!Tick
<1>13. L!Next => P!Next
  BY <1>8, <1>9, <1>10, <1>11, <1>12 DEF L!Next, P!Next
<1>14. QED
  BY <1>2, <1>13 DEF L!vars, P!vars

LEMMA LedgerInit == L!Init => P!IInv
BY Assumed, SameLedger, P!InitHolds

LEMMA LedgerStep == P!IInv /\ [L!Next]_(L!vars) => P!IInv'
BY Assumed, SameLedger, P!StepHolds

\* What the proofs of the ledger say that matters here, for devices of one serial.
LedgerSays ==
  /\ L!TypeOK
  /\ \A d \in Devices : told[d] # L!NoGrant =>
       /\ told[d].serial = Serial
       /\ \A f \in {intents, disk} :
            /\ f[d] # L!NoIntent /\ f[d].serial = Serial
            /\ f[d].desired = told[d].desired /\ told[d].count <= f[d].attempts
  /\ \A d \in Devices : intents[d] # L!NoIntent =>
       intents[d].serial = Serial /\ intents[d].attempts <= MaxAttempts
  /\ \A d \in Devices : told[d].answer = "accepted" => intents[d].status = "submitted"
  /\ \A r \in outstanding :
       /\ r.key \in Devices
       /\ told[r.key] # L!NoGrant /\ told[r.key].desired = r.desired
            => told[r.key].answer = "open"

LEMMA LedgerSaid == P!IInv => LedgerSays
<1> SUFFICES ASSUME P!IInv PROVE LedgerSays
  OBVIOUS
<1> USE DEF P!IInv
<1>1. L!NoIntent = P!NoIntent /\ L!NoGrant = P!NoGrant
  BY DEF L!NoIntent, P!NoIntent, L!NoGrant, P!NoGrant
<1>2. L!TypeOK
  BY <1>1 DEF P!TypeOK, L!TypeOK, P!Intent, L!Intent, P!Grant, L!Grant, P!Request, L!Request,
    P!Statuses, L!Statuses, P!Failures, L!Failures, P!Answers, L!Answers
<1>3. ASSUME NEW d \in Devices, told[d] # L!NoGrant
      PROVE  /\ told[d].serial = Serial
             /\ \A f \in {intents, disk} :
                  /\ f[d] # L!NoIntent /\ f[d].serial = Serial
                  /\ f[d].desired = told[d].desired /\ told[d].count <= f[d].attempts
  <2>1. told[d] \in L!Grant
    BY <1>2, <1>3 DEF L!TypeOK
  <2>2. told[d].serial = Serial
    BY <2>1 DEF L!Grant
  <2>3. QED
    BY <1>1, <1>3, <2>2 DEF P!Records, P!RecordOK, P!Matches
<1>4. ASSUME NEW d \in Devices, intents[d] # L!NoIntent
      PROVE  intents[d].serial = Serial /\ intents[d].attempts <= MaxAttempts
  <2>1. intents[d] \in L!Intent
    BY <1>2, <1>4 DEF L!TypeOK
  <2>2. intents[d].attempts <= MaxAttempts
    BY <1>1, <1>4 DEF P!Records, P!RecordOK
  <2>3. QED
    BY <2>1, <2>2 DEF L!Intent
<1>5. ASSUME NEW d \in Devices, told[d].answer = "accepted"
      PROVE  intents[d].status = "submitted"
  BY <1>5 DEF P!Records, P!RecordOK, P!StatusAfter
<1>6. ASSUME NEW r \in outstanding
      PROVE  /\ r.key \in Devices
             /\ told[r.key] # L!NoGrant /\ told[r.key].desired = r.desired
                  => told[r.key].answer = "open"
  <2>1. r.key \in Devices /\ r.serial = Serial
    BY <1>2, <1>6 DEF L!TypeOK, L!Request
  <2>2. QED
    BY <1>1, <1>3, <1>6, <2>1 DEF P!InFlightOpen, P!Matches
<1>7. QED
  BY <1>2, <1>3, <1>4, <1>5, <1>6 DEF LedgerSays

-----------------------------------------------------------------------------
(* Steps that leave the ledger alone.                                      *)

LEMMA CycleInit == Init => Cycle
<1> SUFFICES ASSUME Init PROVE Cycle
  OBVIOUS
<1> USE DEF Init, L!Init
<1>1. \A d \in Devices : result[d] = Blank /\ sent[d] = NoCall /\ told[d] = L!NoGrant
  OBVIOUS
<1>2. \A w \in Workers : worker[w].step = "idle"
  BY DEF Idle
<1>3. Shape
  BY ReconcileAssumption DEF Shape, Blank, NoCall, Never, Idle, Steps
<1>4. Quiet
  BY <1>2 DEF Quiet
<1>5. OnePlace /\ Passed
  BY <1>1, <1>2 DEF OnePlace, Passed, Queued, In, Distinct, Blank
<1>6. Recorded /\ AnswerHeard
  BY <1>2 DEF Recorded, AnswerHeard
<1>7. Counted
  BY <1>1 DEF Counted, CountedAt
<1>8. Truthful
  BY <1>1 DEF Truthful, Truth, Blank
<1>9. Kept /\ Attended
  BY DEF Kept, Attended
<1>10. QED
  BY <1>3, <1>4, <1>5, <1>6, <1>7, <1>8, <1>9 DEF Cycle

\* The cycle goes on to its next phase.
LEMMA PhaseHolds ==
  ASSUME Cycle,
         UNCHANGED <<intents, disk, now, told, outstanding, item, next, jobs, worker, result, sent>>,
         cancelled => cancelled',
         \/ phase' = phase
         \/ phase = "list" /\ phase' = "done"
         \/ phase = "prepare" /\ phase' = "work"
         \/ phase = "prepare" /\ phase' = "done" /\ next <= N
         \/ phase = "work" /\ phase' = "done" /\ jobs = <<>> /\ \A w \in Workers : worker[w].step = "idle"
         \/ phase = "idle" /\ phase' = "stopped"
  PROVE  Cycle'
<1> USE DEF Cycle
<1>1. Shape'
  BY DEF Shape
<1>2. Quiet'
  BY DEF Quiet
<1>3. OnePlace'
  BY DEF OnePlace, Queued
<1>4. Passed'
  BY DEF Passed, Queued
<1>5. Recorded'
  BY DEF Recorded, Pending, Queued, Holds, OnRecord, RequestOf, Uncalled, At
<1>6. AnswerHeard' /\ Counted' /\ Truthful'
  BY DEF AnswerHeard, Counted, CountedAt, Truthful, Truth
<1>7. Kept'
  BY DEF Kept, Owed, At, RequestOf, Quiet
<1>8. Attended'
  <2>1. /\ phase \in {"prepare", "work"} => \A d \in Devices :
             d < next /\ item[d].rename /\ result[d].action = "planned" => Pending(d)
        /\ phase = "done" /\ next > N => \A d \in Devices :
             item[d].rename => result[d].action # "planned"
    BY DEF Attended
  <2>2. \A d \in Devices : Pending(d)' = Pending(d)
    BY DEF Pending, Queued, Holds
  <2>3. phase = "list" => ~(next > N)
    BY ReconcileAssumption DEF Quiet
  <2>4. ASSUME phase = "work", phase' = "done", jobs = <<>>, \A w \in Workers : worker[w].step = "idle",
               next > N, NEW d \in Devices, item[d].rename
        PROVE  result[d].action # "planned"
    <3>1. ~Pending(d)
      BY <2>4 DEF Pending, Queued, In, Holds
    <3>2. d < next
      BY <2>4, ReconcileAssumption DEF Devices, Shape
    <3>3. QED
      BY <2>1, <2>4, <3>1, <3>2
  <2>5. phase = "prepare" /\ phase' = "done" => ~(next > N)
    BY ReconcileAssumption DEF Shape
  <2>6. QED
    BY <2>1, <2>2, <2>3, <2>4, <2>5 DEF Attended
<1>9. QED
  BY <1>1, <1>2, <1>3, <1>4, <1>5, <1>6, <1>7, <1>8

\* A cycle is over and forgotten, in its process or with it.
LEMMA ResetHolds ==
  ASSUME Cycle, phase' \in {"idle", "stopped"}, outstanding' = {},
         item' = [d \in Devices |-> NoItem], next' = 1, jobs' = <<>>,
         worker' = [w \in Workers |-> Idle], result' = [d \in Devices |-> Blank],
         UNCHANGED <<now, told, sent>>
  PROVE  Cycle'
<1> USE DEF Cycle
<1>1. \A d \in Devices : result'[d] = Blank
  OBVIOUS
<1>2. \A w \in Workers : worker'[w].step = "idle"
  BY DEF Idle
<1>3. Shape'
  BY ReconcileAssumption DEF Shape, Blank, Never, Idle, Steps
<1>4. Quiet'
  BY <1>2 DEF Quiet
<1>5. OnePlace' /\ Passed'
  BY <1>1, <1>2 DEF OnePlace, Passed, Queued, In, Distinct, Blank
<1>6. Recorded' /\ AnswerHeard'
  BY <1>2 DEF Recorded, AnswerHeard
<1>7. Counted'
  BY DEF Counted, CountedAt
<1>8. Truthful'
  BY <1>1 DEF Truthful, Truth, Blank
<1>9. Kept' /\ Attended'
  BY DEF Kept, Attended
<1>10. QED
  BY <1>3, <1>4, <1>5, <1>6, <1>7, <1>8, <1>9

LEMMA BeginHolds ==
  ASSUME Cycle, Begin PROVE Cycle'
<1> USE DEF Cycle, Begin
<1>1. Shape' /\ Quiet'
  BY DEF Shape, Quiet
<1>2. OnePlace' /\ Passed'
  BY DEF OnePlace, Passed, Queued
<1>3. Recorded' /\ AnswerHeard' /\ Counted' /\ Truthful'
  BY DEF Recorded, AnswerHeard, Counted, CountedAt, Truthful, Truth
<1>4. Kept' /\ Attended'
  BY DEF Kept, Attended, Quiet
<1>5. QED
  BY <1>1, <1>2, <1>3, <1>4

LEMMA PlanHolds ==
  ASSUME Cycle, PlanMade PROVE Cycle'
<1> USE DEF Cycle, PlanMade, ledgerVars
<1>1. \A d \in Devices : result'[d] = IF item'[d].rename THEN Planned ELSE Blank
  OBVIOUS
<1>2. \A d \in Devices : /\ result'[d].action \in {"none", "planned"}
                          /\ ~result'[d].error /\ result'[d].retryAt = Never
                          /\ result'[d] \in [action : {"none", "planned"}, error : BOOLEAN, retryAt : Nat]
  BY <1>1 DEF Blank, Planned, Never
<1>3. next = 1 /\ jobs = <<>> /\ outstanding = {} /\ \A w \in Workers : worker[w].step = "idle"
  BY DEF Quiet
<1>4. Shape'
  <2>1. result' \in [Devices -> [action : {"none", "planned", "pending", "submitted", "failed"},
                                 error : BOOLEAN, retryAt : Nat]]
    BY <1>2
  <2>2. QED
    BY <2>1 DEF Shape
<1>5. Quiet' /\ OnePlace'
  BY <1>3 DEF Quiet, OnePlace, Queued, In, Distinct
<1>6. Passed'
  BY <1>1, <1>3 DEF Passed, Queued, In
<1>7. Recorded' /\ AnswerHeard'
  BY <1>3 DEF Recorded, Pending, Queued, In, Holds, AnswerHeard
<1>8. Counted'
  BY DEF Counted, CountedAt
<1>9. Truthful'
  BY <1>2 DEF Truthful, Truth
<1>10. Kept' /\ Attended'
  BY <1>3 DEF Kept, Attended, Devices
<1>11. QED
  BY <1>4, <1>5, <1>6, <1>7, <1>8, <1>9, <1>10

-----------------------------------------------------------------------------
(* The prepare loop.                                                       *)

\* A device joins the end of the queue, or leaves its head.
LEMMA Joined ==
  ASSUME NEW S, NEW q \in Seq(S), NEW x \in S
  PROVE  /\ Append(q, x) \in Seq(S)
         /\ \A e : In(e, Append(q, x)) <=> In(e, q) \/ e = x
         /\ Distinct(q) /\ ~In(x, q) => Distinct(Append(q, x))
<1> DEFINE n == Len(q)
           r == Append(q, x)
<1>1. /\ r \in Seq(S) /\ n \in Nat /\ Len(r) = n + 1 /\ r[n + 1] = x
      /\ \A i \in 1 .. n : r[i] = q[i]
  OBVIOUS
<1>2. /\ \A e : In(e, q) <=> \E i \in 1 .. n : q[i] = e
      /\ \A e : In(e, r) <=> \E i \in 1 .. Len(r) : r[i] = e
  BY DEF In
<1>3. /\ Distinct(q) <=> \A i, j \in 1 .. n : q[i] = q[j] => i = j
      /\ Distinct(r) <=> \A i, j \in 1 .. Len(r) : r[i] = r[j] => i = j
  BY DEF Distinct
<1> HIDE DEF n, r
<1>4. \A e : In(e, r) <=> In(e, q) \/ e = x
  BY <1>1, <1>2
<1>5. Distinct(q) /\ ~In(x, q) => Distinct(r)
  BY <1>1, <1>2, <1>3
<1>6. QED
  BY <1>1, <1>4, <1>5 DEF r

LEMMA Left ==
  ASSUME NEW S, NEW q \in Seq(S), q # <<>>
  PROVE  /\ Tail(q) \in Seq(S) /\ Head(q) \in S
         /\ \A e : In(e, q) <=> e = Head(q) \/ In(e, Tail(q))
         /\ Distinct(q) => Distinct(Tail(q)) /\ ~In(Head(q), Tail(q))
<1> DEFINE n == Len(q)
           r == Tail(q)
<1>1. /\ r \in Seq(S) /\ n \in Nat \ {0} /\ Len(r) = n - 1 /\ q[1] = Head(q) /\ Head(q) \in S
      /\ \A i \in 1 .. n - 1 : r[i] = q[i + 1]
  OBVIOUS
<1>2. /\ \A e : In(e, q) <=> \E i \in 1 .. n : q[i] = e
      /\ \A e : In(e, r) <=> \E i \in 1 .. Len(r) : r[i] = e
  BY DEF In
<1>3. /\ Distinct(q) <=> \A i, j \in 1 .. n : q[i] = q[j] => i = j
      /\ Distinct(r) <=> \A i, j \in 1 .. Len(r) : r[i] = r[j] => i = j
  BY DEF Distinct
<1> HIDE DEF n, r
<1>4. \A e : In(e, r) => In(e, q)
  BY <1>1, <1>2
<1>5. \A e : In(e, q) => e = Head(q) \/ In(e, r)
  <2> TAKE e
  <2>1. SUFFICES ASSUME NEW i \in 1 .. n, q[i] = e, i # 1 PROVE In(e, r)
    BY <1>1, <1>2
  <2>2. i - 1 \in 1 .. Len(r) /\ r[i - 1] = e
    BY <1>1, <2>1
  <2>3. QED
    BY <1>2, <2>2
<1>6. In(Head(q), q)
  BY <1>1, <1>2
<1>7. ASSUME Distinct(q) PROVE Distinct(r) /\ ~In(Head(q), r)
  <2>1. \A i \in 1 .. n - 1 : i + 1 \in 1 .. n /\ i + 1 # 1 /\ r[i] = q[i + 1]
    BY <1>1
  <2>2. QED
    BY <1>1, <1>2, <1>3, <1>7, <2>1
<1>8. QED
  BY <1>1, <1>4, <1>5, <1>6, <1>7 DEF r

\* A step for the next device d leaves the others as they are.
LEMMA PreparedHolds ==
  ASSUME Cycle, phase = "prepare", NEW d \in Devices, d = next,
         \A r \in outstanding : r.key \in Devices,
         UNCHANGED <<now, item, worker, cancelled>>,
         \A e \in Devices \ {d} :
           /\ intents'[e] = intents[e] /\ disk'[e] \in {disk[e], intents[e]}
           /\ told'[e] = told[e] /\ sent'[e] = sent[e] /\ result'[e] = result[e],
         sent' \in [Devices -> [count : Nat, accepted : {"no", "answered", "recorded"}]],
         result' \in [Devices -> [action : {"none", "planned", "pending", "submitted", "failed"},
                                 error : BOOLEAN, retryAt : Nat]],
         \/ phase' = "prepare" /\ next' = next + 1
         \/ phase' = "done" /\ next' = next,
         \/ /\ jobs' = jobs /\ outstanding' = outstanding
            /\ next' = next + 1 => ~item[d].rename \/ result'[d].action # "planned"
         \/ /\ jobs' = Append(jobs, d) /\ outstanding' = outstanding \cup {RequestOf(d)}
            /\ next' = next + 1 /\ OnRecord(d)',
         CountedAt(d)', Truth(d)'
  PROVE  Cycle'
<1> USE DEF Cycle
<1>1. d \in Nat /\ next' \in 1 .. N + 1 /\ next' >= next
  <2>1. N \in Nat /\ next \in 1 .. N + 1
    BY ReconcileAssumption DEF Shape
  <2>2. d \in Nat /\ d <= N /\ d = next /\ next' \in {next, next + 1}
    BY <2>1 DEF Devices
  <2>3. QED
    BY <2>1, <2>2
<1>2. jobs \in Seq(Devices)
  BY DEF Shape
<1>3. \A w \in Workers : worker[w].step = "idle" /\ worker'[w].step = "idle"
  BY DEF Quiet
<1>4. \A e \in Devices : Queued(e) => e < next
  BY DEF Passed
<1>b. /\ jobs' \in Seq(Devices)
      /\ \A e \in Devices : Queued(e)' => Queued(e) \/ (e = d /\ OnRecord(d)' /\ next' = next + 1)
      /\ \A e \in Devices : Queued(e) => Queued(e)'
      /\ Distinct(jobs')
  <2>1. CASE jobs' = jobs
    BY <1>2, <2>1 DEF Queued, OnePlace
  <2>2. CASE jobs' = Append(jobs, d) /\ next' = next + 1 /\ OnRecord(d)'
    <3>1. ~In(d, jobs) /\ Distinct(jobs)
      BY <1>1, <1>4 DEF Queued, OnePlace
    <3>2. QED
      BY <1>2, <2>2, <3>1, Joined DEF Queued
  <2>3. QED
    BY <2>1, <2>2
<1>c. /\ outstanding \subseteq outstanding' /\ RequestOf(d).key = d
      /\ \A r \in outstanding' : r \in outstanding \/ (r = RequestOf(d) /\ OnRecord(d)')
  BY DEF RequestOf
<1>5. Shape'
  BY <1>1, <1>b DEF Shape
<1>6. Quiet'
  BY <1>3 DEF Quiet
<1>7. OnePlace'
  BY <1>3, <1>b DEF OnePlace
<1>8. Passed'
  <2>1. \A r \in outstanding' : phase' = "prepare" => r.key < next'
    BY <1>1, <1>c DEF Passed, Devices
  <2>2. \A e \in Devices : phase' = "prepare" /\ e >= next' =>
          result'[e] = IF item'[e].rename THEN Planned ELSE Blank
    BY <1>1 DEF Passed, Devices
  <2>3. \A e \in Devices : Queued(e)' => e < next'
    BY <1>1, <1>4, <1>b DEF Devices
  <2>4. QED
    BY <2>1, <2>2, <2>3 DEF Passed
<1>9. Recorded'
  <2>1. SUFFICES ASSUME NEW e \in Devices, Queued(e)', phase' = "prepare" PROVE OnRecord(e)'
    BY <1>3 DEF Recorded, Pending, Holds
  <2>2. CASE e = d
    BY <1>1, <1>4, <1>b, <2>1, <2>2
  <2>3. CASE e # d
    <3>1. Queued(e) /\ OnRecord(e)
      BY <1>b, <2>1, <2>3 DEF Recorded, Pending
    <3>2. /\ RequestOf(e)' = RequestOf(e) /\ result'[e] = result[e] /\ told'[e] = told[e]
          /\ intents'[e] = intents[e] /\ disk'[e] \in {disk[e], intents[e]}
          /\ sent'[e] = sent[e] /\ now' = now /\ item' = item
      BY <2>3 DEF RequestOf
    <3>3. /\ disk'[e].status = "retrying" /\ disk'[e].attemptedAt = now
          /\ intents'[e].status = "retrying" /\ intents'[e].attemptedAt = now
      BY <3>1, <3>2 DEF OnRecord
    <3>4. RequestOf(e)' \in outstanding'
      BY <1>c, <3>1, <3>2 DEF OnRecord
    <3>5. Uncalled(e)
      BY <3>1 DEF Uncalled
    <3>6. QED
      BY <2>1, <3>1, <3>2, <3>3, <3>4, <3>5 DEF OnRecord
  <2>4. QED
    BY <2>2, <2>3
<1>10. AnswerHeard'
  BY <1>3 DEF AnswerHeard
<1>11. Counted'
  <2>1. ASSUME NEW e \in Devices, e # d PROVE CountedAt(e)'
    <3>1. CountedAt(e) /\ told'[e] = told[e] /\ sent'[e] = sent[e]
      BY <2>1 DEF Counted
    <3>2. QED
      BY <3>1 DEF CountedAt
  <2>2. QED
    BY <2>1 DEF Counted
<1>12. Truthful'
  <2>1. ASSUME NEW e \in Devices, e # d PROVE Truth(e)'
    <3>1. Truth(e)
      BY DEF Truthful
    <3>2. /\ result'[e] = result[e] /\ sent'[e] = sent[e]
          /\ intents'[e] = intents[e] /\ disk'[e] \in {disk[e], intents[e]}
      BY <2>1
    <3>3. QED
      BY <3>1, <3>2 DEF Truth
  <2>2. QED
    BY <2>1 DEF Truthful
<1>13. Kept'
  <2> SUFFICES ASSUME NEW r \in outstanding'
               PROVE  r = RequestOf(r.key)' /\ Owed(r)'
    BY DEF Kept
  <2>1. CASE r \in outstanding
    <3>1. r.key \in Devices \ {d} /\ r = RequestOf(r.key) /\ ~At(r.key, After) /\ Owed(r)
      BY <1>3, <2>1 DEF Kept, Passed, At, After, Devices
    <3>2. PICK e \in Devices \ {d} : e = r.key
      BY <3>1
    <3>3. /\ result'[e] = result[e] /\ told'[e] = told[e] /\ sent'[e] = sent[e]
          /\ intents'[e] = intents[e] /\ disk'[e] \in {disk[e], intents[e]}
          /\ cancelled' = cancelled
      BY <3>2
    <3>4. Owed(r)'
      BY <3>1, <3>2, <3>3 DEF Owed
    <3>5. QED
      BY <3>1, <3>4 DEF RequestOf
  <2>2. CASE r = RequestOf(d) /\ OnRecord(d)' /\ r \notin outstanding
    <3>1. r.key = d /\ r.desired = item[d].desired /\ r = RequestOf(r.key)'
      BY <2>2 DEF RequestOf
    <3>2. jobs' = Append(jobs, d)
      BY <2>2
    <3>3. Queued(d)'
      BY <1>2, <3>2, Joined DEF Queued
    <3>4. QED
      BY <2>2, <3>1, <3>3 DEF OnRecord, Owed, Uncalled
  <2>3. QED
    BY <1>c, <2>1, <2>2
<1>14. Attended'
  <2>1. ~(next > N)
    BY ReconcileAssumption DEF Devices
  <2>2. \A e \in Devices : phase' = "prepare" /\ e < next' /\ e # d => e < next
    BY <1>1 DEF Devices
  <2>3. \A e \in Devices : Pending(e) => Pending(e)'
    BY <1>3, <1>b DEF Pending, Holds
  <2>4. ASSUME phase' = "prepare", item[d].rename, result'[d].action = "planned" PROVE Pending(d)'
    <3>1. jobs' = Append(jobs, d)
      BY <2>4
    <3>2. QED
      BY <1>2, <3>1, Joined DEF Pending, Queued
  <2>5. QED
    BY <2>1, <2>2, <2>3, <2>4 DEF Attended
<1>15. QED
  BY <1>5, <1>6, <1>7, <1>8, <1>9, <1>10, <1>11, <1>12, <1>13, <1>14

\* What saving the record of device d leaves of every record.
LEMMA SaveHere ==
  ASSUME LedgerSays, NEW d \in Devices, NEW v, NEW o, L!Save(intents, disk, d, v, o)
  PROVE  /\ \A e \in Devices \ {d} : intents'[e] = intents[e] /\ disk'[e] \in {disk[e], intents[e]}
         /\ o = "ok" => intents'[d] = v /\ disk'[d] = v
         /\ o # "ok" => intents'[d] = intents[d]
BY DEF L!Save, LedgerSays, L!TypeOK

LEMMA NeverStale ==
  ASSUME LedgerSays, NEW d \in Devices
  PROVE  L!Base(d, Serial) = intents /\ L!File(d, Serial) = disk
BY DEF LedgerSays, L!Base, L!File, L!Stale

\* A change of what the report says of one device.
LEMMA Reported1 ==
  ASSUME Cycle, NEW d \in Devices,
         NEW r \in [action : {"none", "planned", "pending", "submitted", "failed"},
                    error : BOOLEAN, retryAt : Nat],
         result' = [result EXCEPT ![d] = r]
  PROVE  /\ result' \in [Devices -> [action : {"none", "planned", "pending", "submitted", "failed"},
                                     error : BOOLEAN, retryAt : Nat]]
         /\ result'[d] = r /\ \A e \in Devices \ {d} : result'[e] = result[e]
BY DEF Cycle, Shape

LEMMA RecountHolds ==
  ASSUME Cycle, LedgerSays, Recount, NEW d \in Devices,
         \A e \in Devices \ {d} : told'[e] = told[e]
  PROVE  /\ sent' \in [Devices -> [count : Nat, accepted : {"no", "answered", "recorded"}]]
         /\ \A e \in Devices \ {d} : sent'[e] = sent[e]
         /\ sent'[d] = IF told'[d] # L!NoGrant /\ told[d] # L!NoGrant
                          /\ told'[d].desired = told[d].desired
                       THEN sent[d] ELSE NoCall
<1>1. NoCall \in [count : Nat, accepted : {"no", "answered", "recorded"}]
  BY DEF NoCall
<1>2. sent \in [Devices -> [count : Nat, accepted : {"no", "answered", "recorded"}]]
  BY DEF Cycle, Shape
<1>3. \A e \in Devices : told[e] = L!NoGrant => sent[e] = NoCall
  BY DEF Cycle, Counted, CountedAt
<1>4. QED
  BY <1>1, <1>2, <1>3 DEF Recount

\* The error of a device, and nothing else of it, is set.
LEMMA ErrorSet ==
  ASSUME Cycle, NEW d \in Devices, NEW b \in BOOLEAN,
         result' = [result EXCEPT ![d].error = b]
  PROVE  /\ result' \in [Devices -> [action : {"none", "planned", "pending", "submitted", "failed"},
                                     error : BOOLEAN, retryAt : Nat]]
         /\ result'[d].action = result[d].action
         /\ \A e \in Devices \ {d} : result'[e] = result[e]
<1>1. result \in [Devices -> [action : {"none", "planned", "pending", "submitted", "failed"},
                             error : BOOLEAN, retryAt : Nat]]
  BY DEF Cycle, Shape
<1>2. QED
  BY <1>1

LEMMA RetrySet ==
  ASSUME Cycle, NEW d \in Devices, NEW t \in Nat, result[d] = Planned,
         result' = [result EXCEPT ![d].retryAt = t]
  PROVE  /\ result' \in [Devices -> [action : {"none", "planned", "pending", "submitted", "failed"},
                                     error : BOOLEAN, retryAt : Nat]]
         /\ result'[d] = [action |-> "planned", error |-> FALSE, retryAt |-> t]
         /\ \A e \in Devices \ {d} : result'[e] = result[e]
<1>1. result[d].action = "planned" /\ result[d].error = FALSE
  BY DEF Planned
<1>2. /\ result' \in [Devices -> [action : {"none", "planned", "pending", "submitted", "failed"},
                                 error : BOOLEAN, retryAt : Nat]]
      /\ result'[d].action = result[d].action /\ result'[d].error = result[d].error
      /\ result'[d].retryAt = t /\ \A e \in Devices \ {d} : result'[e] = result[e]
  BY DEF Cycle, Shape
<1>3. QED
  BY <1>1, <1>2

LEMMA ObserveHolds ==
  ASSUME Cycle, LedgerSays, NEW o \in SaveResults, ObserveItem(o), NEW d \in Devices, d = next
  PROVE  Cycle'
<1>1. /\ phase = "prepare" /\ Recount
      /\ L!Observe(d, Serial, item[d].current, o)
      /\ result' = [result EXCEPT ![d].error = (o # "ok")]
      /\ jobs' = jobs /\ UNCHANGED <<now, item, worker, cancelled>> /\ outstanding' = outstanding
      /\ phase' = IF o = "ok" THEN "prepare" ELSE "done"
      /\ next' = IF o = "ok" THEN next + 1 ELSE next
      /\ ~item[d].rename
  BY DEF ObserveItem, Looping, LoopAfter, L!Observe
<1>2. \A e \in Devices \ {d} : intents'[e] = intents[e] /\ disk'[e] \in {disk[e], intents[e]}
  <2>1. CASE L!Save(intents, disk, d, L!NoIntent, o)
    BY <2>1, SaveHere
  <2>2. CASE UNCHANGED <<intents, disk>>
    BY <2>2
  <2>3. QED
    BY <1>1, <2>1, <2>2 DEF L!Observe
<1>3. told'[d] \in {told[d], L!NoGrant} /\ \A e \in Devices \ {d} : told'[e] = told[e]
  BY <1>1 DEF L!Observe, LedgerSays, L!TypeOK
<1>4. /\ sent' \in [Devices -> [count : Nat, accepted : {"no", "answered", "recorded"}]]
      /\ \A e \in Devices \ {d} : sent'[e] = sent[e]
      /\ sent'[d] = IF told'[d] # L!NoGrant /\ told[d] # L!NoGrant
                       /\ told'[d].desired = told[d].desired
                    THEN sent[d] ELSE NoCall
  BY <1>1, <1>3, RecountHolds
<1>5. CountedAt(d)'
  <2>1. CountedAt(d)
    BY DEF Cycle, Counted
  <2>2. QED
    BY <1>3, <1>4, <2>1 DEF CountedAt
<1>6. result[d] = Blank
  BY <1>1 DEF Cycle, Passed, Devices
<1>7. PICK b \in BOOLEAN : result' = [result EXCEPT ![d].error = b]
  BY <1>1, Zenon
<1>8. /\ result' \in [Devices -> [action : {"none", "planned", "pending", "submitted", "failed"},
                                 error : BOOLEAN, retryAt : Nat]]
      /\ result'[d].action = "none" /\ \A e \in Devices \ {d} : result'[e] = result[e]
  <2>1. result[d].action = "none"
    BY <1>6 DEF Blank
  <2>2. QED
    BY <1>7, <2>1, ErrorSet
<1>9. Truth(d)'
  BY <1>8 DEF Truth
<1>10. \A r \in outstanding : r.key \in Devices
  BY DEF LedgerSays
<1>11. QED
  BY <1>1, <1>2, <1>3, <1>4, <1>5, <1>8, <1>9, <1>10, PreparedHolds

\* The caller is told to submit: the promise is counted on, or begun.
LEMMA GrantHere ==
  ASSUME Cycle, LedgerSays, NEW d \in Devices, NEW D \in Names,
         L!Granted(d, Serial, D, now, "ok"), Recount,
         told[d] # L!NoGrant /\ told[d].desired = D => told[d].answer # "accepted"
  PROVE  /\ \A e \in Devices \ {d} : told'[e] = told[e]
         /\ told'[d] # L!NoGrant /\ told'[d].desired = D
         /\ CountedAt(d)' /\ sent'[d].count < told'[d].count
         /\ outstanding' = outstanding \cup {[key |-> d, serial |-> Serial, desired |-> D]}
<1> DEFINE again == told[d] # L!NoGrant /\ told[d].desired = D
           c == IF again THEN told[d].count + 1 ELSE 1
           g == [serial |-> Serial, desired |-> D, at |-> now, answer |-> "open", count |-> c]
<1>1. told[d] # L!NoGrant => told[d] \in L!Grant /\ told[d].serial = Serial /\ told[d].count \in Nat
  BY DEF LedgerSays, L!TypeOK, L!Grant
<1>2. /\ told' = [told EXCEPT ![d] = g]
      /\ outstanding' = outstanding \cup {[key |-> d, serial |-> Serial, desired |-> D]}
  BY <1>1 DEF L!Granted, L!Matches
<1>3. told'[d] = g /\ \A e \in Devices \ {d} : told'[e] = told[e]
  BY <1>2 DEF LedgerSays, L!TypeOK
<1>4. g # L!NoGrant /\ g.desired = D /\ g.count = c /\ g.answer = "open"
  BY DEF L!NoGrant
<1>5. sent'[d] = IF told'[d] # L!NoGrant /\ told[d] # L!NoGrant
                   /\ told'[d].desired = told[d].desired
                THEN sent[d] ELSE NoCall
  BY <1>3, RecountHolds
<1>6. CountedAt(d) /\ sent[d].count \in Nat
  BY DEF Cycle, Counted, Shape
<1>7. sent'[d].count < c /\ sent'[d].accepted # "recorded"
  <2>1. CASE again
    BY <1>1, <1>3, <1>4, <1>5, <1>6, <2>1 DEF CountedAt
  <2>2. CASE ~again
    BY <1>3, <1>4, <1>5, <2>2 DEF NoCall
  <2>3. QED
    BY <2>1, <2>2
<1>8. sent'[d].count \in Nat
  BY <1>5, <1>6 DEF NoCall
<1>9. c \in Nat
  BY <1>1
<1> HIDE DEF g, c
<1>10. QED
  BY <1>2, <1>3, <1>4, <1>7, <1>8, <1>9 DEF CountedAt

LEMMA SubmitHolds ==
  ASSUME Cycle, LedgerSays, NEW o \in SaveResults, PrepareSubmit(o), NEW d \in Devices, d = next
  PROVE  Cycle'
<1> DEFINE D == item[d].desired
<1>1. /\ phase = "prepare" /\ Recount /\ item[d].rename
      /\ result' = IF o = "ok" THEN [result EXCEPT ![d].retryAt = now + RetryAfter]
                   ELSE [result EXCEPT ![d].error = TRUE]
      /\ jobs' = IF o = "ok" THEN Append(jobs, d) ELSE jobs
      /\ UNCHANGED <<now, item, worker, cancelled>>
      /\ phase' = IF o = "ok" THEN "prepare" ELSE "done"
      /\ next' = IF o = "ok" THEN next + 1 ELSE next
  BY DEF PrepareSubmit, Looping, LoopAfter
<1>2. D \in Names /\ now \in Nat /\ now + RetryAfter \in Nat
  BY <1>1, ReconcileAssumption DEF Cycle, Shape, Plans, Items, LedgerSays, L!TypeOK
<1>3. PICK n : /\ L!Save(intents, disk, d, L!Attempt(Serial, D, now, n), o)
               /\ L!Granted(d, Serial, D, now, o)
               /\ told[d] # L!NoGrant /\ told[d].desired = D => told[d].answer # "accepted"
  <2>1. CASE L!PrepareFirst(d, Serial, item[d].current, D, now, o)
    <3>1. /\ L!Save(intents, disk, d, L!Attempt(Serial, D, now, 1), o)
          /\ L!Granted(d, Serial, D, now, o)
          /\ intents[d] # L!NoIntent => intents[d].desired # D
      BY <2>1, NeverStale DEF L!PrepareFirst
    <3>2. told[d] # L!NoGrant => intents[d] # L!NoIntent /\ intents[d].desired = told[d].desired
      BY DEF LedgerSays
    <3>3. QED
      BY <3>1, <3>2
  <2>2. CASE L!PrepareRetry(d, Serial, item[d].current, D, now, o)
    <3>1. /\ L!Save(intents, disk, d, L!Attempt(Serial, D, now, intents[d].attempts + 1), o)
          /\ L!Granted(d, Serial, D, now, o)
          /\ intents[d].status = "retrying"
      BY <2>2 DEF L!PrepareRetry, L!RetryDue
    <3>2. told[d].answer # "accepted"
      BY <3>1 DEF LedgerSays
    <3>3. QED
      BY <3>1, <3>2
  <2>3. QED
    BY <2>1, <2>2 DEF PrepareSubmit
<1>4. /\ \A e \in Devices \ {d} : intents'[e] = intents[e] /\ disk'[e] \in {disk[e], intents[e]}
      /\ o = "ok" => /\ intents'[d] = L!Attempt(Serial, D, now, n)
                     /\ disk'[d] = L!Attempt(Serial, D, now, n)
  BY <1>3, SaveHere
<1>5. result[d] = Planned
  BY <1>1 DEF Cycle, Passed, Devices
<1>6. \A r \in outstanding : r.key \in Devices
  BY DEF LedgerSays
<1>7. CASE o = "ok"
  <2>1. /\ \A e \in Devices \ {d} : told'[e] = told[e]
        /\ told'[d] # L!NoGrant /\ told'[d].desired = D
        /\ CountedAt(d)' /\ sent'[d].count < told'[d].count
        /\ outstanding' = outstanding \cup {[key |-> d, serial |-> Serial, desired |-> D]}
    BY <1>1, <1>2, <1>3, <1>7, GrantHere
  <2>2. /\ sent' \in [Devices -> [count : Nat, accepted : {"no", "answered", "recorded"}]]
        /\ \A e \in Devices \ {d} : sent'[e] = sent[e]
    BY <1>1, <2>1, RecountHolds
  <2>5. /\ result' \in [Devices -> [action : {"none", "planned", "pending", "submitted", "failed"},
                                   error : BOOLEAN, retryAt : Nat]]
        /\ result'[d] = [action |-> "planned", error |-> FALSE, retryAt |-> now + RetryAfter]
        /\ \A e \in Devices \ {d} : result'[e] = result[e]
    BY <1>1, <1>2, <1>5, <1>7, RetrySet
  <2>6. \A f \in {intents', disk'} : f[d].status = "retrying" /\ f[d].attemptedAt = now
    BY <1>4, <1>7 DEF L!Attempt
  <2>7. OnRecord(d)'
    BY <1>1, <2>1, <2>5, <2>6 DEF OnRecord, RequestOf
  <2>8. Truth(d)'
    BY <2>5 DEF Truth
  <2>9. outstanding' = outstanding \cup {RequestOf(d)}
    BY <2>1 DEF RequestOf
  <2>10. /\ jobs' = Append(jobs, d) /\ next' = next + 1 /\ phase' = "prepare" /\ phase = "prepare"
         /\ UNCHANGED <<now, item, worker, cancelled>>
    BY <1>1, <1>7
  <2>11. \A e \in Devices \ {d} :
           /\ intents'[e] = intents[e] /\ disk'[e] \in {disk[e], intents[e]}
           /\ told'[e] = told[e] /\ sent'[e] = sent[e] /\ result'[e] = result[e]
    BY <1>4, <2>1, <2>2, <2>5
  <2>12. CountedAt(d)'
    BY <2>1
  <2>13. QED
    BY <1>6, <2>2, <2>5, <2>7, <2>8, <2>9, <2>10, <2>11, <2>12, PreparedHolds
<1>8. CASE o # "ok"
  <2>1. /\ told'[d] \in {told[d], L!NoGrant} /\ \A e \in Devices \ {d} : told'[e] = told[e]
        /\ outstanding' = outstanding
    BY <1>3, <1>8 DEF L!Granted, L!Released, LedgerSays, L!TypeOK
  <2>2. /\ sent' \in [Devices -> [count : Nat, accepted : {"no", "answered", "recorded"}]]
        /\ \A e \in Devices \ {d} : sent'[e] = sent[e]
        /\ sent'[d] = IF told'[d] # L!NoGrant /\ told[d] # L!NoGrant
                         /\ told'[d].desired = told[d].desired
                      THEN sent[d] ELSE NoCall
    BY <1>1, <2>1, RecountHolds
  <2>3. CountedAt(d)'
    <3>1. CountedAt(d)
      BY DEF Cycle, Counted
    <3>2. QED
      BY <2>1, <2>2, <3>1 DEF CountedAt
  <2>4. result[d].action = "planned"
    BY <1>5 DEF Planned
  <2>5. /\ result' \in [Devices -> [action : {"none", "planned", "pending", "submitted", "failed"},
                                   error : BOOLEAN, retryAt : Nat]]
        /\ result'[d].action = "planned" /\ \A e \in Devices \ {d} : result'[e] = result[e]
    BY <1>1, <1>8, <2>4, ErrorSet
  <2>6. Truth(d)'
    BY <2>5 DEF Truth
  <2>7. \A e \in Devices \ {d} :
          /\ intents'[e] = intents[e] /\ disk'[e] \in {disk[e], intents[e]}
          /\ told'[e] = told[e] /\ sent'[e] = sent[e] /\ result'[e] = result[e]
    BY <1>4, <2>1, <2>2, <2>5
  <2>8. /\ phase' = "done" /\ next' = next /\ ~(next' = next + 1) /\ jobs' = jobs /\ phase = "prepare"
        /\ UNCHANGED <<now, item, worker, cancelled>>
    BY <1>1, <1>8 DEF Cycle, Shape
  <2>9. /\ outstanding' = outstanding
        /\ sent' \in [Devices -> [count : Nat, accepted : {"no", "answered", "recorded"}]]
    BY <2>1, <2>2
  <2>10. QED
    BY <1>6, <2>3, <2>5, <2>6, <2>7, <2>8, <2>9, PreparedHolds
<1>9. QED
  BY <1>7, <1>8

\* The ledger lets the device wait, or has given up on it: nothing is promised.
LEMMA RefusedHolds ==
  ASSUME Cycle, LedgerSays, NEW d \in Devices, d = next, phase = "prepare",
         NEW r \in [action : {"none", "planned", "pending", "submitted", "failed"},
                    error : BOOLEAN, retryAt : Nat],
         result' = [result EXCEPT ![d] = r],
         \A e \in Devices \ {d} : intents'[e] = intents[e] /\ disk'[e] \in {disk[e], intents[e]},
         UNCHANGED <<now, told, outstanding, item, worker, jobs, sent, cancelled>>,
         \/ phase' = "prepare" /\ next' = next + 1 /\ r.action # "planned"
         \/ phase' = "done" /\ next' = next,
         Truth(d)'
  PROVE  Cycle'
<1>1. /\ result' \in [Devices -> [action : {"none", "planned", "pending", "submitted", "failed"},
                                 error : BOOLEAN, retryAt : Nat]]
      /\ \A e \in Devices \ {d} : result'[e] = result[e]
  BY Reported1
<1>2. sent' \in [Devices -> [count : Nat, accepted : {"no", "answered", "recorded"}]]
  BY DEF Cycle, Shape
<1>3. CountedAt(d)'
  BY DEF Cycle, Counted, CountedAt
<1>4. /\ \A r2 \in outstanding : r2.key \in Devices
      /\ next' = next + 1 => result'[d].action # "planned"
  <2>1. next \in Nat
    BY ReconcileAssumption DEF Cycle, Shape
  <2>2. result'[d] = r
    BY Reported1
  <2>3. QED
    BY <2>1, <2>2 DEF LedgerSays
<1>5. \A e \in Devices \ {d} :
        /\ intents'[e] = intents[e] /\ disk'[e] \in {disk[e], intents[e]}
        /\ told'[e] = told[e] /\ sent'[e] = sent[e] /\ result'[e] = result[e]
  BY <1>1
<1>6. jobs' = jobs /\ outstanding' = outstanding /\ UNCHANGED <<now, item, worker, cancelled>>
  OBVIOUS
<1>7. QED
  BY <1>1, <1>2, <1>3, <1>4, <1>5, <1>6, PreparedHolds

LEMMA PendingHolds ==
  ASSUME Cycle, LedgerSays, PreparePending, NEW d \in Devices, d = next
  PROVE  Cycle'
<1> DEFINE t == IF intents[d].status = "submitted" THEN Never ELSE intents[d].attemptedAt + RetryAfter
           r == [action |-> "pending", error |-> FALSE, retryAt |-> t]
<1>1. /\ phase = "prepare" /\ phase' = "prepare" /\ next' = next + 1
      /\ UNCHANGED <<intents, disk, now, told, outstanding, item, worker, jobs, sent, cancelled>>
      /\ result' = [result EXCEPT ![d] = r]
      /\ intents[d] # L!NoIntent
      /\ intents[d].status \in {"submitted", "retrying"}
  BY DEF PreparePending, Looping, LoopAfter, L!PreparePending, L!Known, L!RetryAt
<1>2. intents[d].attemptedAt \in Nat
  BY <1>1 DEF LedgerSays, L!TypeOK, L!Intent
<1>3. t \in Nat /\ (intents[d].status = "retrying" => t # Never)
  BY <1>2, ReconcileAssumption DEF Never
<1>4. r \in [action : {"none", "planned", "pending", "submitted", "failed"},
             error : BOOLEAN, retryAt : Nat]
  BY <1>3
<1>5. result'[d] = r
  BY <1>1, <1>4, Reported1
<1>6. Truth(d)' /\ r.action # "planned"
  BY <1>1, <1>3, <1>5 DEF Truth
<1> HIDE DEF r, t
<1>7. QED
  BY <1>1, <1>4, <1>6, RefusedHolds

LEMMA FailedHolds ==
  ASSUME Cycle, LedgerSays, NEW o \in SaveResults, PrepareFailed(o), NEW d \in Devices, d = next
  PROVE  Cycle'
<1> DEFINE r == [action |-> IF o = "ok" THEN "failed" ELSE "planned", error |-> TRUE, retryAt |-> Never]
<1>1. /\ phase = "prepare" /\ item[d].rename
      /\ UNCHANGED <<now, item, worker, jobs, sent, cancelled>>
      /\ phase' = IF o = "ok" THEN "prepare" ELSE "done"
      /\ next' = IF o = "ok" THEN next + 1 ELSE next
  BY DEF PrepareFailed, Looping, LoopAfter
<1>2. result[d] = Planned
  BY <1>1 DEF Cycle, Passed, Devices
<1>3. result' = [result EXCEPT ![d] = r]
  <2>1. /\ result \in [Devices -> [action : {"none", "planned", "pending", "submitted", "failed"},
                                  error : BOOLEAN, retryAt : Nat]]
        /\ result' = [result EXCEPT ![d].error = TRUE,
                                     ![d].action = IF o = "ok" THEN "failed" ELSE @]
    BY DEF PrepareFailed, Cycle, Shape
  <2>2. /\ result'[d].action = (IF o = "ok" THEN "failed" ELSE result[d].action)
        /\ result'[d].error = TRUE /\ result'[d].retryAt = result[d].retryAt
        /\ result'[d] \in [action : {"none", "planned", "pending", "submitted", "failed"},
                           error : BOOLEAN, retryAt : Nat]
        /\ result' \in [Devices -> [action : {"none", "planned", "pending", "submitted", "failed"},
                                   error : BOOLEAN, retryAt : Nat]]
        /\ \A e \in Devices \ {d} : result'[e] = result[e]
    BY <2>1
  <2>3. result[d].action = "planned" /\ result[d].retryAt = Never
    BY <1>2 DEF Planned
  <2>4. result'[d] = r
    BY <2>2, <2>3
  <2> HIDE DEF r
  <2>5. QED
    BY <2>1, <2>2, <2>4
<1>4. r \in [action : {"none", "planned", "pending", "submitted", "failed"},
             error : BOOLEAN, retryAt : Nat]
  BY DEF Never
<1>5. /\ UNCHANGED <<told, outstanding>>
      /\ \A e \in Devices \ {d} : intents'[e] = intents[e] /\ disk'[e] \in {disk[e], intents[e]}
      /\ o = "ok" => intents'[d].status = "failed"
  <2>1. CASE L!PrepareFailed(d, Serial, item[d].current, item[d].desired)
    BY <2>1 DEF L!PrepareFailed
  <2>2. CASE L!PrepareExhausted(d, Serial, item[d].current, item[d].desired, now, o)
    <3> DEFINE v == [intents[d] EXCEPT !.status = "failed",
                       !.failure = IF @ = "none" THEN "attempts" ELSE @]
    <3>1. L!Save(intents, disk, d, v, o) /\ UNCHANGED <<told, outstanding>>
      BY <2>2 DEF L!PrepareExhausted
    <3>2. v.status = "failed"
      <4>1. intents[d] \in L!Intent
        BY <2>2 DEF L!PrepareExhausted, L!Known, LedgerSays, L!TypeOK
      <4>2. QED
        BY <4>1 DEF L!Intent
    <3> HIDE DEF v
    <3>3. QED
      BY <3>1, <3>2, SaveHere
  <2>3. QED
    BY <2>1, <2>2 DEF PrepareFailed
<1>6. result'[d] = r
  BY <1>3, <1>4, Reported1
<1>7. Truth(d)' /\ (o = "ok" => r.action # "planned")
  BY <1>5, <1>6 DEF Truth
<1> HIDE DEF r
<1>8. QED
  BY <1>1, <1>3, <1>4, <1>5, <1>7, RefusedHolds

-----------------------------------------------------------------------------
(* The workers.                                                            *)

\* A worker gets on with the device it holds.
LEMMA MovesHolds ==
  ASSUME Cycle, LedgerSays, phase = "work", NEW w \in Workers, NEW s,
         \/ s \in Before /\ worker[w].step \in Before
         \/ s \in After /\ worker[w].step \in After,
         worker' = [worker EXCEPT ![w].step = s],
         \/ sent' = [sent EXCEPT ![worker[w].device].accepted = "answered"]
         \/ sent' = sent /\ s # "accepted",
         UNCHANGED <<intents, disk, now, told, outstanding, phase, item, next, jobs, result, cancelled>>
  PROVE  Cycle'
<1> USE DEF Cycle
<1>0. s \in Steps \ {"idle"} /\ worker[w].step # "idle"
  BY DEF Steps, Before, After
<1>1. PICK d \in Devices : d = worker[w].device
  BY <1>0 DEF OnePlace
<1>2. /\ worker \in [Workers -> [step : Steps, device : Devices \cup {0}]]
      /\ sent \in [Devices -> [count : Nat, accepted : {"no", "answered", "recorded"}]]
  BY DEF Shape
<1>3. /\ worker' \in [Workers -> [step : Steps, device : Devices \cup {0}]]
      /\ worker'[w].step = s /\ worker'[w].device = d
      /\ \A v \in Workers : /\ worker'[v].device = worker[v].device
                            /\ worker'[v].step = "idle" <=> worker[v].step = "idle"
                            /\ v # w => worker'[v].step = worker[v].step
  BY <1>0, <1>1, <1>2
<1>3a. /\ \A e : At(e, Before)' <=> At(e, Before)
       /\ \A e : At(e, After)' <=> At(e, After)
  <2>1. /\ s \in Before <=> worker[w].step \in Before
        /\ s \in After <=> worker[w].step \in After
    BY DEF Before, After
  <2>2. ASSUME NEW v \in Workers
        PROVE  /\ worker'[v].step \in Before <=> worker[v].step \in Before
               /\ worker'[v].step \in After <=> worker[v].step \in After
    <3>1. CASE v = w
      BY <1>3, <2>1, <3>1
    <3>2. CASE v # w
      BY <1>3, <3>2
    <3>3. QED
      BY <3>1, <3>2
  <2>3. QED
    BY <1>3, <2>2 DEF At
<1>4. /\ sent' \in [Devices -> [count : Nat, accepted : {"no", "answered", "recorded"}]]
      /\ \A e \in Devices : /\ sent'[e].count = sent[e].count
                            /\ sent'[e].accepted \in {sent[e].accepted, "answered"}
                            /\ e # d => sent'[e] = sent[e]
      /\ s = "accepted" => sent'[d].accepted = "answered"
  BY <1>1, <1>2
<1>5. Shape'
  BY <1>3, <1>4 DEF Shape
<1>6. Quiet'
  BY DEF Quiet
<1>7. OnePlace'
  BY <1>3 DEF OnePlace, Queued
<1>8. Passed'
  BY DEF Passed, Queued
<1>9. Recorded'
  <2>1. SUFFICES ASSUME NEW e \in Devices, Pending(e)' PROVE OnRecord(e)'
    BY DEF Recorded
  <2>2. OnRecord(e)
    BY <1>3, <2>1 DEF Recorded, Pending, Holds, Queued
  <2>3. QED
    BY <1>3a, <1>4, <2>2 DEF OnRecord, RequestOf, Queued, Uncalled
<1>10. AnswerHeard'
  <2>1. SUFFICES ASSUME NEW v \in Workers, worker'[v].step = "accepted"
                 PROVE  sent'[worker'[v].device].accepted # "no"
    BY DEF AnswerHeard
  <2>2. CASE v = w
    BY <1>3, <1>4, <2>1, <2>2
  <2>3. CASE v # w
    BY <1>3, <1>4, <2>1, <2>3 DEF AnswerHeard, OnePlace
  <2>4. QED
    BY <2>2, <2>3
<1>11. Counted'
  <2>1. told[d] # L!NoGrant
    BY <1>0, <1>1 DEF Recorded, Pending, Holds, OnRecord
  <2>2. \A e \in Devices : CountedAt(e)
    BY DEF Counted
  <2>3. ASSUME NEW e \in Devices PROVE CountedAt(e)'
    BY <1>4, <2>1, <2>2 DEF CountedAt
  <2>4. QED
    BY <2>3 DEF Counted
<1>12. Truthful'
  BY <1>4 DEF Truthful, Truth
<1>13. Kept'
  <2>1. ASSUME NEW r \in outstanding, Owed(r) PROVE Owed(r)'
    <3>1. sent'[r.key].count = sent[r.key].count
      BY <1>4, <2>1 DEF LedgerSays
    <3>2. QED
      BY <2>1, <3>1 DEF Owed
  <2>2. QED
    BY <1>3a, <2>1 DEF Kept, RequestOf
<1>14. Attended'
  BY <1>3 DEF Attended, Pending, Queued, Holds
<1>15. QED
  BY <1>5, <1>6, <1>7, <1>8, <1>9, <1>10, <1>11, <1>12, <1>13, <1>14

LEMMA AnsweredHolds ==
  ASSUME Cycle, LedgerSays, NEW w \in Workers, PassCheck(w) \/ RenameLands(w) \/ Answered(w)
  PROVE  Cycle'
<1>1. PICK s :
        /\ phase = "work" /\ worker' = [worker EXCEPT ![w].step = s]
        /\ \/ s \in Before /\ worker[w].step \in Before
           \/ s \in After /\ worker[w].step \in After
        /\ \/ sent' = [sent EXCEPT ![worker[w].device].accepted = "answered"]
           \/ sent' = sent /\ s # "accepted"
        /\ UNCHANGED <<intents, disk, now, told, outstanding, phase, item, next, jobs, result, cancelled>>
  <2>1. CASE PassCheck(w)
    BY <2>1 DEF PassCheck, Working, Before, ledgerVars
  <2>2. CASE RenameLands(w)
    BY <2>2 DEF RenameLands, Working, After, ledgerVars
  <2>3. CASE Answered(w)
    BY <2>3 DEF Answered, Working, After, ledgerVars
  <2>4. QED
    BY <2>1, <2>2, <2>3
<1>2. QED
  BY <1>1, MovesHolds

\* The head of the queue is a device nobody else has.
LEMMA HeadAlone ==
  ASSUME Cycle, phase = "work", jobs # <<>>, NEW d, d = Head(jobs), jobs' = Tail(jobs)
  PROVE  /\ d \in Devices /\ jobs' \in Seq(Devices) /\ Distinct(jobs') /\ ~Queued(d)'
         /\ \A e \in Devices : Queued(e) <=> e = d \/ Queued(e)'
         /\ \A v \in Workers : ~Holds(v, d)
         /\ OnRecord(d)
<1> USE DEF Cycle
<1>1. jobs \in Seq(Devices) /\ Distinct(jobs)
  BY DEF Shape, OnePlace
<1>2. /\ jobs' \in Seq(Devices) /\ d \in Devices
      /\ \A e : In(e, jobs) <=> e = d \/ In(e, jobs')
      /\ Distinct(jobs') /\ ~In(d, jobs')
  BY <1>1, Left
<1>3. Queued(d)
  BY <1>2 DEF Queued
<1>4. QED
  BY <1>2, <1>3 DEF Queued, OnePlace, Holds, Recorded, Pending

LEMMA TakeHolds ==
  ASSUME Cycle, NEW w \in Workers, TakeJob(w) PROVE Cycle'
<1> USE DEF Cycle
<1>1. /\ phase = "work" /\ jobs # <<>> /\ jobs' = Tail(jobs) /\ worker[w].step = "idle"
      /\ UNCHANGED <<intents, disk, now, told, outstanding, phase, item, next, result, sent, cancelled>>
  BY DEF TakeJob, Working, ledgerVars
<1>2. PICK d : d = Head(jobs)
  OBVIOUS
<1>3. /\ d \in Devices /\ jobs' \in Seq(Devices) /\ Distinct(jobs') /\ ~Queued(d)'
      /\ \A e \in Devices : Queued(e) <=> e = d \/ Queued(e)'
      /\ \A v \in Workers : ~Holds(v, d)
      /\ OnRecord(d)
  BY <1>1, <1>2, HeadAlone
<1>4. /\ worker' \in [Workers -> [step : Steps, device : Devices \cup {0}]]
      /\ worker'[w].step = "taken" /\ worker'[w].device = d
      /\ \A v \in Workers \ {w} : worker'[v] = worker[v]
  BY <1>2, <1>3 DEF TakeJob, Shape, Steps, Before
<1>5. \A e \in Devices : /\ Pending(e)' <=> Pending(e)
                         /\ Uncalled(e)' => Uncalled(e)
                         /\ At(e, After)' <=> At(e, After)
  <2>1. ASSUME NEW e \in Devices PROVE Pending(e)' <=> Pending(e)
    BY <1>1, <1>3, <1>4 DEF Pending, Holds
  <2>2. ASSUME NEW e \in Devices PROVE Uncalled(e)' => Uncalled(e)
    BY <1>3, <1>4 DEF Uncalled, At
  <2>3. ASSUME NEW e \in Devices PROVE At(e, After)' <=> At(e, After)
    BY <1>1, <1>4 DEF At, After
  <2>4. QED
    BY <2>1, <2>2, <2>3
<1>6. Shape'
  BY <1>1, <1>3, <1>4 DEF Shape
<1>7. Quiet'
  BY <1>1 DEF Quiet
<1>8. OnePlace'
  <2>1. \A v \in Workers \ {w} : worker[v].step # "idle" => worker[v].device # d
    BY <1>3 DEF Holds
  <2>2. \A v \in Workers : worker'[v].step # "idle" =>
          worker'[v].device \in Devices /\ ~In(worker'[v].device, jobs')
    <3>1. ~In(d, jobs') /\ \A e \in Devices : In(e, jobs') => In(e, jobs)
      BY <1>3 DEF Queued
    <3>2. QED
      BY <1>3, <1>4, <3>1 DEF OnePlace, Queued
  <2>3. \A u, v \in Workers :
          worker'[u].step # "idle" /\ worker'[v].step # "idle"
            /\ worker'[u].device = worker'[v].device => u = v
    BY <1>4, <2>1 DEF OnePlace
  <2>4. QED
    BY <1>3, <2>2, <2>3 DEF OnePlace, Queued
<1>9. Passed'
  BY <1>1, <1>3 DEF Passed
<1>10. Recorded'
  <2>1. SUFFICES ASSUME NEW e \in Devices, Pending(e)' PROVE OnRecord(e)'
    BY DEF Recorded
  <2>2. OnRecord(e)
    BY <1>1, <1>5, <2>1 DEF Recorded
  <2>3. QED
    BY <1>1, <1>5, <2>2 DEF OnRecord, RequestOf
<1>11. AnswerHeard' /\ Counted' /\ Truthful'
  BY <1>1, <1>4 DEF AnswerHeard, Counted, CountedAt, Truthful, Truth
<1>12. Kept'
  <2>1. \A r \in outstanding : r = RequestOf(r.key) /\ (At(r.key, After) \/ Owed(r))
    BY <1>1 DEF Kept
  <2>2. \A e : At(e, After) => At(e, After)'
    BY <1>1, <1>4 DEF At, After
  <2>3. \A r : Owed(r)' = Owed(r) /\ RequestOf(r.key)' = RequestOf(r.key)
    BY <1>1 DEF Owed, RequestOf
  <2>4. QED
    BY <1>1, <2>1, <2>2, <2>3 DEF Kept
<1>13. Attended'
  BY <1>1, <1>5 DEF Attended
<1>14. QED
  BY <1>6, <1>7, <1>8, <1>9, <1>10, <1>11, <1>12, <1>13

\* What a worker that takes its hands off device d leaves of the others.
LEMMA LetGo ==
  ASSUME Cycle, phase = "work", NEW w \in Workers, NEW d \in Devices, d = worker[w].device,
         worker[w].step # "idle", worker' = [worker EXCEPT ![w] = Idle], jobs' = jobs
  PROVE  /\ worker' \in [Workers -> [step : Steps, device : Devices \cup {0}]]
         /\ worker'[w].step = "idle" /\ \A u \in Workers \ {w} : worker'[u] = worker[u]
         /\ ~Pending(d)'
         /\ \A e \in Devices \ {d} : /\ Pending(e)' <=> Pending(e)
                                     /\ Uncalled(e)' <=> Uncalled(e)
                                     /\ At(e, After)' <=> At(e, After)
         /\ OnRecord(d)
<1> USE DEF Cycle
<1>1. /\ worker' \in [Workers -> [step : Steps, device : Devices \cup {0}]]
      /\ worker'[w].step = "idle" /\ \A u \in Workers \ {w} : worker'[u] = worker[u]
  BY DEF Idle, Shape, Steps
<1>2. ~Pending(d)'
  BY <1>1 DEF Pending, Holds, OnePlace, Queued
<1>3. ASSUME NEW e \in Devices \ {d}
      PROVE  /\ Pending(e)' <=> Pending(e)
             /\ Uncalled(e)' <=> Uncalled(e)
             /\ At(e, After)' <=> At(e, After)
  BY <1>1 DEF Pending, Holds, Queued, Uncalled, At, Before, After
<1>4. OnRecord(d)
  BY DEF Recorded, Pending, Holds
<1>5. QED
  BY <1>1, <1>2, <1>3, <1>4

LEMMA SkipHolds ==
  ASSUME Cycle, LedgerSays, NEW w \in Workers, SkipJob(w) PROVE Cycle'
<1> USE DEF Cycle
<1>1. /\ phase = "work" /\ worker[w].step = "taken" /\ worker' = [worker EXCEPT ![w] = Idle]
      /\ cancelled /\ cancelled'
      /\ UNCHANGED <<intents, disk, now, told, outstanding, phase, item, next, jobs, sent>>
  BY DEF SkipJob, Working, ledgerVars
<1>2. PICK d \in Devices : d = worker[w].device
  BY <1>1 DEF OnePlace
<1>3. /\ worker' \in [Workers -> [step : Steps, device : Devices \cup {0}]]
      /\ worker'[w].step = "idle" /\ \A u \in Workers \ {w} : worker'[u] = worker[u]
      /\ ~Pending(d)'
      /\ \A e \in Devices \ {d} : /\ Pending(e)' <=> Pending(e)
                                  /\ Uncalled(e)' <=> Uncalled(e)
                                  /\ At(e, After)' <=> At(e, After)
      /\ OnRecord(d)
  BY <1>1, <1>2, LetGo
<1>4. /\ result \in [Devices -> [action : {"none", "planned", "pending", "submitted", "failed"},
                                error : BOOLEAN, retryAt : Nat]]
      /\ result' = [result EXCEPT ![d].action = "pending", ![d].error = TRUE]
  BY <1>2 DEF SkipJob, Shape
<1>5. /\ result' \in [Devices -> [action : {"none", "planned", "pending", "submitted", "failed"},
                                 error : BOOLEAN, retryAt : Nat]]
      /\ result'[d].action = "pending" /\ result'[d].error /\ result'[d].retryAt = result[d].retryAt
      /\ \A e \in Devices \ {d} : result'[e] = result[e]
  BY <1>4
<1>6. Shape'
  BY <1>1, <1>3, <1>5 DEF Shape
<1>7. Quiet'
  BY <1>1 DEF Quiet
<1>8. OnePlace' /\ Passed'
  BY <1>1, <1>3 DEF OnePlace, Passed, Queued
<1>9. Recorded'
  <2>1. SUFFICES ASSUME NEW e \in Devices, Pending(e)' PROVE OnRecord(e)'
    BY DEF Recorded
  <2>2. e # d /\ Pending(e) /\ (Uncalled(e)' => Uncalled(e))
    BY <1>3, <2>1
  <2>3. OnRecord(e) /\ result'[e] = result[e]
    BY <1>1, <1>5, <2>2 DEF Recorded
  <2>4. QED
    BY <1>1, <2>2, <2>3 DEF OnRecord, RequestOf
<1>10. AnswerHeard' /\ Counted'
  BY <1>1, <1>3 DEF AnswerHeard, Counted, CountedAt
<1>11. Truthful'
  <2>1. result[d].retryAt = now + RetryAfter
    BY <1>3 DEF OnRecord
  <2>2. Truth(d)'
    <3>1. result'[d].retryAt = intents[d].attemptedAt + RetryAfter /\ intents[d].status = "retrying"
      BY <1>3, <1>5, <2>1 DEF OnRecord
    <3>2. result'[d].retryAt # Never
      BY <1>5, <2>1, ReconcileAssumption DEF Shape, Never
    <3>3. QED
      BY <1>1, <1>5, <3>1, <3>2 DEF Truth
  <2>3. ASSUME NEW e \in Devices, e # d PROVE Truth(e)'
    BY <1>1, <1>5, <2>3 DEF Truthful, Truth
  <2>4. QED
    BY <2>2, <2>3 DEF Truthful
<1>12. Kept'
  <2> SUFFICES ASSUME NEW r \in outstanding PROVE r = RequestOf(r.key)' /\ (At(r.key, After)' \/ Owed(r)')
    BY <1>1 DEF Kept
  <2>1. r = RequestOf(r.key)' /\ (At(r.key, After) \/ Owed(r)) /\ r.key \in Devices
    BY <1>1 DEF Kept, RequestOf, LedgerSays
  <2>2. CASE r.key = d
    <3>1. ~At(d, After)
      BY <1>1, <1>2 DEF At, After, OnePlace
    <3>2. Owed(r)
      BY <2>1, <2>2, <3>1
    <3>3. QED
      BY <1>1, <1>5, <2>1, <2>2, <3>2 DEF Owed
  <2>3. CASE r.key # d
    <3>1. result'[r.key] = result[r.key]
      BY <1>5, <2>1, <2>3
    <3>2. Owed(r) => Owed(r)'
      BY <1>1, <3>1 DEF Owed
    <3>3. QED
      BY <1>3, <2>1, <2>3, <3>2
  <2>4. QED
    BY <2>2, <2>3
<1>13. Attended'
  BY <1>1, <1>3, <1>5 DEF Attended
<1>14. QED
  BY <1>6, <1>7, <1>8, <1>9, <1>10, <1>11, <1>12, <1>13

LEMMA CallHolds ==
  ASSUME Cycle, LedgerSays, NEW w \in Workers, CallProvider(w) PROVE Cycle'
<1> USE DEF Cycle
<1>1. /\ phase = "work" /\ worker[w].step = "passed" /\ worker' = [worker EXCEPT ![w].step = "calling"]
      /\ UNCHANGED <<intents, disk, now, told, outstanding, phase, item, next, jobs, result, cancelled>>
  BY DEF CallProvider, Working, ledgerVars
<1>2. PICK d \in Devices : d = worker[w].device
  BY <1>1 DEF OnePlace
<1>3. OnRecord(d) /\ ~Queued(d) /\ sent[d].count < told[d].count
  BY <1>1, <1>2 DEF Recorded, Pending, Holds, OnePlace, OnRecord, Uncalled, At, Before
<1>4. /\ worker' \in [Workers -> [step : Steps, device : Devices \cup {0}]]
      /\ worker'[w].step = "calling" /\ worker'[w].device = d
      /\ \A v \in Workers \ {w} : worker'[v] = worker[v]
  BY <1>1, <1>2 DEF Shape, Steps, After
<1>5. sent \in [Devices -> [count : Nat, accepted : {"no", "answered", "recorded"}]]
  BY DEF Shape
<1>5a. PICK n \in Nat : n = sent[d].count + 1 /\ sent' = [sent EXCEPT ![d].count = n]
  <2>1. sent' = [sent EXCEPT ![d].count = @ + 1]
    BY <1>2 DEF CallProvider
  <2>2. sent[d].count + 1 \in Nat
    BY <1>5
  <2>3. QED
    BY <2>1, <2>2
<1>6. /\ sent' \in [Devices -> [count : Nat, accepted : {"no", "answered", "recorded"}]]
      /\ sent'[d].count = sent[d].count + 1 /\ sent'[d].accepted = sent[d].accepted
      /\ \A e \in Devices \ {d} : sent'[e] = sent[e]
  BY <1>5, <1>5a
<1>7. /\ \A e \in Devices : Pending(e)' <=> Pending(e)
      /\ \A e \in Devices \ {d} : Uncalled(e)' <=> Uncalled(e)
      /\ ~Uncalled(d)'
      /\ \A e \in Devices : At(e, After)' <=> e = d \/ At(e, After)
  <2>1. ASSUME NEW e \in Devices PROVE Pending(e)' <=> Pending(e)
    BY <1>1, <1>2, <1>4 DEF Pending, Queued, Holds
  <2>2. ASSUME NEW e \in Devices \ {d} PROVE Uncalled(e)' <=> Uncalled(e)
    BY <1>1, <1>2, <1>4 DEF Uncalled, Queued, At, Before
  <2>3. ~Uncalled(d)'
    BY <1>1, <1>2, <1>3, <1>4 DEF Uncalled, Queued, At, Before, OnePlace
  <2>4. ASSUME NEW e \in Devices PROVE At(e, After)' <=> e = d \/ At(e, After)
    BY <1>1, <1>2, <1>4 DEF At, After
  <2>5. QED
    BY <2>1, <2>2, <2>3, <2>4
<1>8. Shape'
  BY <1>1, <1>4, <1>6 DEF Shape
<1>9. Quiet'
  BY <1>1 DEF Quiet
<1>10. OnePlace'
  BY <1>1, <1>2, <1>4 DEF OnePlace, Queued
<1>11. Passed'
  BY <1>1 DEF Passed, Queued
<1>12. Recorded'
  <2>1. SUFFICES ASSUME NEW e \in Devices, Pending(e)' PROVE OnRecord(e)'
    BY DEF Recorded
  <2>2. CASE e = d
    BY <1>1, <1>3, <1>7, <2>2 DEF OnRecord, RequestOf
  <2>3. CASE e # d
    <3>1. OnRecord(e) /\ sent'[e] = sent[e] /\ (Uncalled(e)' => Uncalled(e))
      BY <1>1, <1>6, <1>7, <2>1, <2>3 DEF Recorded
    <3>2. QED
      BY <1>1, <3>1 DEF OnRecord, RequestOf
  <2>4. QED
    BY <2>2, <2>3
<1>13. AnswerHeard'
  <2>1. SUFFICES ASSUME NEW v \in Workers, worker'[v].step = "accepted"
                 PROVE  sent'[worker'[v].device].accepted # "no"
    BY DEF AnswerHeard
  <2>2. v # w /\ worker'[v] = worker[v] /\ worker[v].device \in Devices
    BY <1>4, <2>1 DEF OnePlace
  <2>3. sent'[worker[v].device].accepted = sent[worker[v].device].accepted
    BY <1>6, <2>2
  <2>4. QED
    BY <2>1, <2>2, <2>3 DEF AnswerHeard
<1>14. Counted'
  <2>1. told[d] # L!NoGrant /\ told[d].count \in Nat
    BY <1>3 DEF OnRecord, LedgerSays, L!TypeOK, L!Grant
  <2>2. sent[d].count \in Nat
    BY <1>5
  <2>3. CountedAt(d)'
    BY <1>1, <1>3, <1>6, <2>1, <2>2 DEF CountedAt, Counted
  <2>4. ASSUME NEW e \in Devices, e # d PROVE CountedAt(e)'
    BY <1>1, <1>6, <2>4 DEF CountedAt, Counted
  <2>5. QED
    BY <2>3, <2>4 DEF Counted
<1>15. Truthful'
  <2>1. \A e \in Devices : sent'[e].accepted = sent[e].accepted
    BY <1>6
  <2>2. QED
    BY <1>1, <2>1 DEF Truthful, Truth
<1>16. Kept'
  <2> SUFFICES ASSUME NEW r \in outstanding PROVE r = RequestOf(r.key)' /\ (At(r.key, After)' \/ Owed(r)')
    BY <1>1 DEF Kept
  <2>1. r = RequestOf(r.key)' /\ (At(r.key, After) \/ Owed(r)) /\ r.key \in Devices
    BY <1>1 DEF Kept, RequestOf, LedgerSays
  <2>2. r.key # d => (Owed(r) => Owed(r)')
    BY <1>1, <1>6, <2>1 DEF Owed
  <2>3. QED
    BY <1>7, <2>1, <2>2
<1>17. Attended'
  BY <1>1, <1>7 DEF Attended
<1>18. QED
  BY <1>8, <1>9, <1>10, <1>11, <1>12, <1>13, <1>14, <1>15, <1>16, <1>17

LEMMA RecordHolds ==
  ASSUME Cycle, LedgerSays, NEW w \in Workers, NEW o \in SaveResults, Record(w, o)
  PROVE  Cycle'
<1> USE DEF Cycle
<1>1. PICK answer \in {"accepted", "rejected", "unsure"} : answer = worker[w].step
  BY DEF Record
<1>2. PICK d \in Devices : d = worker[w].device
  BY <1>1 DEF OnePlace
<1>3. /\ phase = "work" /\ L!Mark(d, Serial, item[d].desired, answer, o)
      /\ result' = [result EXCEPT ![d] = Reported(result[d], answer, o)]
      /\ worker' = [worker EXCEPT ![w] = Idle]
      /\ sent' = IF answer = "accepted" /\ o = "ok"
                 THEN [sent EXCEPT ![d].accepted = "recorded"] ELSE sent
      /\ UNCHANGED <<now, phase, item, next, jobs, cancelled>>
  BY <1>1, <1>2 DEF Record
<1>4. Holds(w, d) /\ OnRecord(d) /\ ~Queued(d)
  BY <1>1, <1>2, <1>3 DEF Holds, Recorded, Pending, OnePlace
<1> DEFINE D == item[d].desired
           v == [intents[d] EXCEPT !.status = L!StatusAfter(answer),
                                   !.failure = L!FailureAfter(answer)]
<1>5. /\ told[d] # L!NoGrant /\ told[d] \in L!Grant /\ told[d].serial = Serial /\ told[d].desired = D
      /\ intents[d] # L!NoIntent /\ intents[d] \in L!Intent
      /\ intents[d].serial = Serial /\ intents[d].desired = D
      /\ intents[d].status = "retrying" /\ intents[d].attemptedAt = now
      /\ result[d] = [action |-> "planned", error |-> FALSE, retryAt |-> now + RetryAfter]
  BY <1>4 DEF OnRecord, LedgerSays, L!TypeOK
<1>6. /\ L!Save(intents, disk, d, v, o)
      /\ told' = IF o = "ok" THEN [told EXCEPT ![d].answer = answer] ELSE told
      /\ outstanding' = outstanding \ {RequestOf(d)}
  BY <1>3, <1>5 DEF L!Mark, L!Current, L!Matches, RequestOf
<1>7. v.status = L!StatusAfter(answer) /\ v.attemptedAt = now
  BY <1>5 DEF L!Intent
<1> HIDE DEF v
<1>8. /\ \A e \in Devices \ {d} : intents'[e] = intents[e] /\ disk'[e] \in {disk[e], intents[e]}
      /\ o = "ok" => intents'[d] = v /\ disk'[d] = v
      /\ o # "ok" => intents'[d] = intents[d]
  BY <1>6, SaveHere
<1>9. /\ \A e \in Devices \ {d} : told'[e] = told[e]
      /\ told'[d] # L!NoGrant /\ told'[d].count = told[d].count
      /\ o = "ok" => told'[d].answer = answer
      /\ o # "ok" => told' = told
  BY <1>5, <1>6 DEF LedgerSays, L!TypeOK, L!Grant, L!NoGrant
<1>10. /\ worker' \in [Workers -> [step : Steps, device : Devices \cup {0}]]
       /\ worker'[w].step = "idle" /\ \A u \in Workers \ {w} : worker'[u] = worker[u]
       /\ ~Pending(d)'
       /\ \A e \in Devices \ {d} : /\ Pending(e)' <=> Pending(e)
                                   /\ Uncalled(e)' <=> Uncalled(e)
                                   /\ At(e, After)' <=> At(e, After)
  BY <1>1, <1>2, <1>3, LetGo
<1>11. /\ sent \in [Devices -> [count : Nat, accepted : {"no", "answered", "recorded"}]]
       /\ sent' \in [Devices -> [count : Nat, accepted : {"no", "answered", "recorded"}]]
       /\ sent'[d].count = sent[d].count
       /\ \A e \in Devices \ {d} : sent'[e] = sent[e]
       /\ sent'[d].accepted = IF answer = "accepted" /\ o = "ok" THEN "recorded" ELSE sent[d].accepted
  BY <1>3 DEF Shape
<1> DEFINE r == [action |-> IF answer = "accepted" THEN "submitted"
                           ELSE IF answer = "rejected" /\ o = "ok" THEN "failed" ELSE "pending",
                 error |-> answer # "accepted" \/ o # "ok",
                 retryAt |-> IF answer # "unsure" /\ o = "ok" THEN Never ELSE now + RetryAfter]
<1>12. r = Reported(result[d], answer, o)
  BY <1>5 DEF Reported
<1>13. r \in [action : {"none", "planned", "pending", "submitted", "failed"},
              error : BOOLEAN, retryAt : Nat]
  <2>1. now + RetryAfter \in Nat
    BY ReconcileAssumption DEF Shape
  <2>2. QED
    BY <2>1 DEF Never
<1>14. /\ result' \in [Devices -> [action : {"none", "planned", "pending", "submitted", "failed"},
                                  error : BOOLEAN, retryAt : Nat]]
       /\ result'[d] = r /\ \A e \in Devices \ {d} : result'[e] = result[e]
  <2> HIDE DEF r
  <2>1. QED
    BY <1>3, <1>12, <1>13, Reported1
<1>15. Shape'
  BY <1>3, <1>10, <1>11, <1>14 DEF Shape
<1>16. Quiet'
  BY <1>3 DEF Quiet
<1>17. OnePlace'
  BY <1>3, <1>10 DEF OnePlace, Queued
<1>18. Passed'
  BY <1>3 DEF Passed, Queued
<1>19. Recorded'
  <2>1. SUFFICES ASSUME NEW e \in Devices, Pending(e)' PROVE OnRecord(e)'
    BY DEF Recorded
  <2>2. e # d
    BY <1>10, <2>1
  <2>3. Pending(e) /\ (Uncalled(e)' => Uncalled(e))
    BY <1>10, <2>1, <2>2
  <2>4. OnRecord(e)
    BY <1>3, <2>3 DEF Recorded
  <2>5. RequestOf(e) \in outstanding' /\ RequestOf(e)' = RequestOf(e)
    BY <1>3, <1>6, <2>2, <2>4 DEF OnRecord, RequestOf
  <2>6. /\ disk'[e].status = "retrying" /\ disk'[e].attemptedAt = now
        /\ intents'[e].status = "retrying" /\ intents'[e].attemptedAt = now
    BY <1>8, <2>2, <2>4 DEF OnRecord
  <2>7. /\ told'[e] = told[e] /\ sent'[e] = sent[e] /\ result'[e] = result[e]
        /\ now' = now /\ item' = item /\ jobs' = jobs
    BY <1>3, <1>9, <1>11, <1>14, <2>2
  <2>8. QED
    BY <2>3, <2>4, <2>5, <2>6, <2>7 DEF OnRecord
<1>20. AnswerHeard'
  <2>1. SUFFICES ASSUME NEW u \in Workers, worker'[u].step = "accepted"
                 PROVE  sent'[worker'[u].device].accepted # "no"
    BY DEF AnswerHeard
  <2>2. worker'[u] = worker[u] /\ worker[u].device \in Devices /\ sent[worker[u].device].accepted # "no"
    BY <1>10, <2>1 DEF AnswerHeard, OnePlace
  <2>3. QED
    BY <1>11, <2>2
<1>21. Counted'
  <2>1. CountedAt(d)'
    <3>1. CountedAt(d)
      BY DEF Counted
    <3>2. told[d].answer = "accepted" => intents[d].status = "submitted"
      BY DEF LedgerSays
    <3>3. sent[d].accepted # "recorded"
      BY <1>5, <3>1, <3>2 DEF CountedAt
    <3>4. QED
      BY <1>5, <1>9, <1>11, <3>1, <3>3 DEF CountedAt
  <2>2. ASSUME NEW e \in Devices, e # d PROVE CountedAt(e)'
    BY <1>9, <1>11, <2>2 DEF Counted, CountedAt
  <2>3. QED
    BY <2>1, <2>2 DEF Counted
<1>22. Truthful'
  <2>1. Truth(d)'
    <3>1. answer = "accepted" => sent'[d].accepted # "no"
      BY <1>1, <1>2, <1>11 DEF AnswerHeard
    <3>2. now + RetryAfter # Never
      BY ReconcileAssumption DEF Shape, Never
    <3>3. /\ L!StatusAfter("accepted") = "submitted" /\ L!StatusAfter("rejected") = "failed"
          /\ L!StatusAfter("unsure") = "retrying"
      BY DEF L!StatusAfter
    <3>4. o = "ok" => /\ intents'[d].status = L!StatusAfter(answer)
                     /\ disk'[d].status = L!StatusAfter(answer)
                     /\ intents'[d].attemptedAt = now
      BY <1>7, <1>8
    <3>5. o # "ok" => intents'[d].status = "retrying" /\ intents'[d].attemptedAt = now
      BY <1>5, <1>8
    <3>6. QED
      BY <1>14, <3>1, <3>2, <3>3, <3>4, <3>5 DEF Truth
  <2>2. ASSUME NEW e \in Devices, e # d PROVE Truth(e)'
    BY <1>8, <1>11, <1>14, <2>2 DEF Truthful, Truth
  <2>3. QED
    BY <2>1, <2>2 DEF Truthful
<1>23. Kept'
  <2> SUFFICES ASSUME NEW q \in outstanding'
               PROVE  q = RequestOf(q.key)' /\ (At(q.key, After)' \/ Owed(q)')
    BY <1>3 DEF Kept
  <2>1. q \in outstanding /\ q # RequestOf(d)
    BY <1>6
  <2>2. q = RequestOf(q.key) /\ q = RequestOf(q.key)' /\ (At(q.key, After) \/ Owed(q)) /\ q.key \in Devices
    BY <1>3, <2>1 DEF Kept, RequestOf, LedgerSays
  <2>3. PICK e \in Devices \ {d} : e = q.key
    BY <2>1, <2>2
  <2>4. /\ intents'[e] = intents[e] /\ disk'[e] \in {disk[e], intents[e]}
        /\ told'[e] = told[e] /\ sent'[e] = sent[e] /\ result'[e] = result[e] /\ cancelled' = cancelled
    BY <1>3, <1>8, <1>9, <1>11, <1>14
  <2>5. Owed(q) => Owed(q)'
    BY <2>3, <2>4 DEF Owed
  <2>6. QED
    BY <1>10, <2>2, <2>3, <2>5
<1>24. Attended'
  <2>1. result'[d].action # "planned"
    BY <1>14
  <2>2. QED
    BY <1>3, <1>10, <1>14, <2>1 DEF Attended
<1>25. QED
  BY <1>15, <1>16, <1>17, <1>18, <1>19, <1>20, <1>21, <1>22, <1>23, <1>24

-----------------------------------------------------------------------------
(* Every step of the service is a step of its ledger, or none.             *)

LEMMA LoopIsLedgers ==
  ASSUME Cycle, LedgerSays, NEW o \in SaveResults, phase = "prepare", NEW d \in Devices, d = next,
         \/ ObserveItem(o)
         \/ PrepareSubmit(o)
         \/ PrepareFailed(o)
         \/ PreparePending
  PROVE  L!Next
<1>1. item[d].current \in Names /\ item[d].desired \in Names /\ now' = now
  BY DEF Cycle, Shape, Plans, Items, ObserveItem, PrepareSubmit, PrepareFailed, PreparePending, LoopAfter
<1>2. o \in L!Outcomes
  BY ReconcileAssumption DEF L!Outcomes
<1>3. [key |-> d, serial |-> Serial, desired |-> item[d].desired] \notin outstanding
  <2>1. \A r \in outstanding : r.key < next
    BY DEF Cycle, Passed
  <2>2. SUFFICES ASSUME NEW r \in outstanding, r.key = d PROVE FALSE
    OBVIOUS
  <2>3. QED
    BY <2>1, <2>2 DEF Devices
<1>4. CASE ObserveItem(o)
  <2>1. L!Observe(d, Serial, item[d].current, o)
    BY <1>4 DEF ObserveItem
  <2>2. L!ObserveAny
    BY <1>1, <1>2, <2>1 DEF L!ObserveAny
  <2>3. QED
    BY <2>2 DEF L!Next
<1>5. ASSUME NEW p \in L!Outcomes, L!Prepare(d, Serial, item[d].current, item[d].desired, now, p)
      PROVE  L!Next
  <2>1. L!PrepareAny
    BY <1>1, <1>3, <1>5 DEF L!PrepareAny
  <2>2. QED
    BY <2>1 DEF L!Next
<1>6. CASE PrepareSubmit(o)
  BY <1>2, <1>5, <1>6 DEF PrepareSubmit, L!Prepare
<1>7. CASE PrepareFailed(o)
  BY <1>2, <1>5, <1>7 DEF PrepareFailed, L!Prepare
<1>8. CASE PreparePending
  BY <1>2, <1>5, <1>8 DEF PreparePending, L!Prepare
<1>9. QED
  BY <1>4, <1>6, <1>7, <1>8

LEMMA RecordIsLedgers ==
  ASSUME Cycle, LedgerSays, NEW w \in Workers, NEW o \in SaveResults, Record(w, o)
  PROVE  L!Next
<1>1. PICK answer \in {"accepted", "rejected", "unsure"} : answer = worker[w].step
  BY DEF Record
<1>2. PICK d \in Devices : d = worker[w].device
  BY <1>1 DEF Cycle, OnePlace
<1>3. phase = "work" /\ now' = now /\ L!Mark(d, Serial, item[d].desired, answer, o)
  BY <1>1, <1>2 DEF Record
<1>4. PICK r \in outstanding : r = RequestOf(d)
  BY <1>1, <1>2, <1>3 DEF Cycle, Recorded, Pending, Holds, OnRecord
<1>5. r.key = d /\ r.serial = Serial /\ r.desired = item[d].desired
  BY <1>4 DEF RequestOf
<1>6. o \in L!Outcomes /\ answer \in L!Answers \ {"open"}
  BY ReconcileAssumption DEF L!Outcomes, L!Answers
<1>7. L!MarkAny
  BY <1>3, <1>5, <1>6 DEF L!MarkAny
<1>8. QED
  BY <1>7 DEF L!Next

LEMMA StepHolds ==
  ASSUME IInv, [Next]_vars
  PROVE  [L!Next]_(L!vars) /\ IInv'
<1>1. Cycle /\ LedgerSays
  BY LedgerSaid DEF IInv
<1>2. SUFFICES [L!Next]_(L!vars) /\ Cycle'
  BY LedgerStep DEF IInv
<1>3. CASE Begin
  <2>1. now \in Nat
    BY <1>1 DEF LedgerSays, L!TypeOK
  <2>2. L!Tick \/ UNCHANGED L!vars
    BY <1>3, <2>1, ReconcileAssumption DEF Begin, L!Tick, L!vars
  <2>3. QED
    BY <1>1, <1>3, <2>2, BeginHolds DEF L!Next
<1>4. CASE PlanMade
  BY <1>1, <1>4, PlanHolds DEF PlanMade, ledgerVars, L!vars
<1>5. CASE CycleFails \/ PrepareCancelled \/ StartWorkers \/ Join \/ Stop \/ Signal
           \/ UNCHANGED vars
  BY <1>1, <1>5, PhaseHolds DEF CycleFails, PrepareCancelled, StartWorkers, Join, PoolDrained,
    Stop, Signal, vars, ledgerVars, cycleVars, L!vars
<1>6. CASE Finish
  <2>1. L!Abandon
    BY <1>6 DEF Finish, L!Abandon
  <2>2. Cycle'
    BY <1>1, <1>6, ResetHolds DEF Finish
  <2>3. QED
    BY <2>1, <2>2 DEF L!Next
<1>7. CASE Restart
  <2>1. L!Restart
    BY <1>7 DEF Restart
  <2>2. Cycle'
    BY <1>1, <1>7, ResetHolds DEF Restart, L!Restart
  <2>3. QED
    BY <2>1, <2>2 DEF L!Next
<1>8. CASE PreparePending \/ \E o \in SaveResults : ObserveItem(o) \/ PrepareSubmit(o) \/ PrepareFailed(o)
  <2>1. phase = "prepare" /\ next \in Devices
    BY <1>1, <1>8, ReconcileAssumption DEF PreparePending, ObserveItem, PrepareSubmit, PrepareFailed, Looping,
      Cycle, Shape, Devices
  <2>2. PICK d \in Devices : d = next
    BY <2>1
  <2>3. CASE PreparePending
    <3>1. Cycle'
      BY <1>1, <2>2, <2>3, PendingHolds
    <3>2. UNCHANGED L!vars
      BY <2>3 DEF PreparePending, LoopAfter, L!PreparePending, L!vars
    <3>3. QED
      BY <3>1, <3>2
  <2>4. ASSUME NEW o \in SaveResults, ObserveItem(o) \/ PrepareSubmit(o) \/ PrepareFailed(o)
        PROVE  L!Next /\ Cycle'
    BY <1>1, <2>1, <2>2, <2>4, LoopIsLedgers, ObserveHolds, SubmitHolds, FailedHolds
  <2>5. QED
    BY <1>8, <2>3, <2>4
<1>9. CASE \E w \in Workers : \/ TakeJob(w) \/ SkipJob(w) \/ PassCheck(w) \/ CallProvider(w)
                            \/ Answered(w) \/ RenameLands(w)
  <2>1. PICK w \in Workers : \/ TakeJob(w) \/ SkipJob(w) \/ PassCheck(w) \/ CallProvider(w)
                            \/ Answered(w) \/ RenameLands(w)
    BY <1>9
  <2>2. UNCHANGED L!vars
    BY <2>1 DEF TakeJob, SkipJob, PassCheck, CallProvider, Answered, RenameLands, ledgerVars, L!vars
  <2>3. Cycle'
    BY <1>1, <2>1, TakeHolds, SkipHolds, CallHolds, AnsweredHolds
  <2>4. QED
    BY <2>2, <2>3
<1>10. CASE \E w \in Workers, o \in SaveResults : Record(w, o)
  BY <1>1, <1>10, RecordIsLedgers, RecordHolds
<1>11. QED
  BY <1>3, <1>4, <1>5, <1>6, <1>7, <1>8, <1>9, <1>10 DEF Next, Process, Environment, Prepare, Work

LEMMA Inductive == Spec => []IInv
<1>1. Init => IInv
  BY CycleInit, LedgerInit DEF Init, IInv
<1>2. IInv /\ [Next]_vars => IInv'
  BY StepHolds
<1>3. QED
  BY <1>1, <1>2, PTL DEF Spec

-----------------------------------------------------------------------------
(* The service keeps its ledger's contract, whatever its plans, signals,   *)
(* failures and restarts: everything proved of Ledger holds for it.        *)
THEOREM ServiceKeepsContract == Spec => LedgerContract
<1>1. Init => L!Init
  BY DEF Init
<1>2. IInv /\ [Next]_vars => [L!Next]_(L!vars)
  BY StepHolds
<1>3. QED
  BY <1>1, <1>2, Inductive, PTL DEF Spec, LedgerContract, L!Spec

(* No worker outlives the cycle that started it.                           *)
THEOREM NobodyStraggles == Spec => []NoStragglers
<1>1. IInv => NoStragglers
  BY DEF IInv, Cycle, Quiet, NoStragglers
<1>2. QED
  BY <1>1, Inductive, PTL

(* A rename command in flight is on disk, as one to retry.                 *)
THEOREM InFlightOnDisk == Spec => []WriteAhead
<1>1. IInv => WriteAhead
  <2> SUFFICES ASSUME IInv, NEW w \in Workers, worker[w].step # "idle"
               PROVE  LET d == worker[w].device IN
                      /\ disk[d].status = "retrying"
                      /\ disk[d].desired = item[d].desired
                      /\ disk[d].attempts >= sent[d].count
                      /\ disk[d].attemptedAt = now
    BY DEF WriteAhead
  <2>1. Cycle /\ LedgerSays
    BY LedgerSaid DEF IInv
  <2>2. PICK d \in Devices : d = worker[w].device
    BY <2>1 DEF Cycle, OnePlace
  <2>3. OnRecord(d)
    BY <2>1, <2>2 DEF Cycle, Quiet, Recorded, Pending, Holds
  <2>4. /\ disk[d] # L!NoIntent /\ disk[d].desired = told[d].desired
        /\ told[d].count <= disk[d].attempts
    BY <2>1, <2>3 DEF OnRecord, LedgerSays
  <2>5. sent[d].count <= told[d].count
    BY <2>1, <2>3 DEF Cycle, Counted, CountedAt, OnRecord
  <2>6. sent[d].count \in Nat /\ told[d].count \in Nat /\ disk[d].attempts \in Nat
    BY <2>1, <2>3, <2>4 DEF Cycle, Shape, LedgerSays, L!TypeOK, L!Grant, L!Intent, OnRecord
  <2>7. QED
    BY <2>2, <2>3, <2>4, <2>5, <2>6 DEF OnRecord
<1>2. QED
  BY <1>1, Inductive, PTL

(* The provider is called at most MaxAttempts times for one request.       *)
THEOREM CallsAreBounded == Spec => []BoundedCalls
<1>1. IInv => BoundedCalls
  <2> SUFFICES ASSUME IInv, NEW d \in Devices PROVE sent[d].count <= MaxAttempts
    BY DEF BoundedCalls
  <2>1. Cycle /\ LedgerSays
    BY LedgerSaid DEF IInv
  <2>2. CASE told[d] = L!NoGrant
    <3>1. sent[d] = NoCall
      BY <2>1, <2>2 DEF Cycle, Counted, CountedAt
    <3>2. QED
      BY <3>1, ReconcileAssumption DEF NoCall
  <2>3. CASE told[d] # L!NoGrant
    <3>1. sent[d].count <= told[d].count
      BY <2>1, <2>3 DEF Cycle, Counted, CountedAt
    <3>2. told[d].count <= intents[d].attempts /\ intents[d].attempts <= MaxAttempts
      BY <2>1, <2>3 DEF LedgerSays
    <3>3. sent[d].count \in Nat /\ told[d].count \in Nat /\ intents[d].attempts \in Nat
      BY <2>1, <2>3 DEF Cycle, Shape, LedgerSays, L!TypeOK, L!Grant, L!Intent
    <3>4. QED
      BY <3>1, <3>2, <3>3, ReconcileAssumption
  <2>4. QED
    BY <2>2, <2>3
<1>2. QED
  BY <1>1, Inductive, PTL

(* What a cycle's report says of each device is so.                        *)
THEOREM ReportsAreTrue == Spec => []ReportTruthful
<1>1. IInv => ReportTruthful
  BY DEF IInv, Cycle, Truthful, Truth, ReportTruthful, L!RetryAt
<1>2. QED
  BY <1>1, Inductive, PTL

(* A submission that was granted and not made is still to be made: its     *)
(* request is on disk, with more attempts counted than calls made, and the *)
(* report owns up to it; a cycle whose pool ran leaves no device without   *)
(* an outcome.  A worker may call the provider after the signal, if it     *)
(* looked at the context before.                                           *)
THEOREM NothingGrantedIsLost == Spec => []NoSubmissionLost
<1>1. IInv => NoSubmissionLost
  <2> SUFFICES ASSUME IInv, phase = "done"
               PROVE  /\ \A r \in outstanding :
                           /\ disk[r.key].status = "retrying" /\ disk[r.key].desired = r.desired
                           /\ sent[r.key].count < disk[r.key].attempts
                           /\ \/ result[r.key].action = "planned"
                              \/ cancelled /\ result[r.key].action = "pending" /\ result[r.key].error
                      /\ next > N => \A d \in Devices : item[d].rename => result[d].action # "planned"
    BY DEF NoSubmissionLost
  <2>1. Cycle /\ LedgerSays
    BY LedgerSaid DEF IInv
  <2>2. ASSUME NEW r \in outstanding
        PROVE  /\ disk[r.key].status = "retrying" /\ disk[r.key].desired = r.desired
               /\ sent[r.key].count < disk[r.key].attempts
               /\ \/ result[r.key].action = "planned"
                  \/ cancelled /\ result[r.key].action = "pending" /\ result[r.key].error
    <3>1. PICK d \in Devices : d = r.key
      BY <2>1 DEF LedgerSays
    <3>2. ~At(d, After)
      BY <2>1 DEF Cycle, Quiet, At, After
    <3>3. Owed(r)
      BY <2>1, <3>1, <3>2 DEF Cycle, Kept
    <3>4. /\ told[d] # L!NoGrant /\ told[d].desired = r.desired /\ sent[d].count < told[d].count
          /\ disk[d].status = "retrying"
          /\ \/ result[d].action = "planned"
             \/ cancelled /\ result[d].action = "pending" /\ result[d].error
      BY <3>1, <3>3 DEF Owed
    <3>5. /\ disk[d] # L!NoIntent /\ disk[d].desired = told[d].desired
          /\ told[d].count <= disk[d].attempts
      BY <2>1, <3>4 DEF LedgerSays
    <3>6. sent[d].count \in Nat /\ told[d].count \in Nat /\ disk[d].attempts \in Nat
      BY <2>1, <3>4, <3>5 DEF Cycle, Shape, LedgerSays, L!TypeOK, L!Grant, L!Intent
    <3>7. QED
      BY <3>1, <3>4, <3>5, <3>6
  <2>3. next > N => \A d \in Devices : item[d].rename => result[d].action # "planned"
    BY <2>1 DEF Cycle, Attended
  <2>4. QED
    BY <2>2, <2>3
<1>2. QED
  BY <1>1, Inductive, PTL

-----------------------------------------------------------------------------
(* What a step may never do.                                               *)

LEMMA CallIsNew ==
  ASSUME Cycle, LedgerSays, NEW w \in Workers, CallProvider(w)
  PROVE  \E d \in Devices :
           /\ sent[d].accepted # "recorded"
           /\ \A e \in Devices \ {d} : sent'[e] = sent[e]
<1>1. phase = "work" /\ worker[w].step = "passed"
  BY DEF CallProvider, Working
<1>2. PICK d \in Devices : d = worker[w].device
  BY <1>1 DEF Cycle, OnePlace
<1>3. OnRecord(d)
  BY <1>1, <1>2 DEF Cycle, Recorded, Pending, Holds
<1>4. told[d].answer = "open"
  BY <1>3 DEF OnRecord, RequestOf, LedgerSays
<1>5. sent[d].accepted # "recorded"
  BY <1>3, <1>4 DEF Cycle, Counted, CountedAt, OnRecord
<1>6. \A e \in Devices \ {d} : sent'[e] = sent[e]
  BY <1>2 DEF CallProvider, Cycle, Shape
<1>7. QED
  BY <1>3, <1>5, <1>6

LEMMA OthersCallNot ==
  ASSUME Cycle, [Next]_vars, ~\E w \in Workers : CallProvider(w), NEW d \in Devices
  PROVE  sent'[d].count <= sent[d].count
<1>1. sent \in [Devices -> [count : Nat, accepted : {"no", "answered", "recorded"}]]
  BY DEF Cycle, Shape
<1>2. CASE UNCHANGED sent
  BY <1>1, <1>2
<1>3. CASE \E w \in Workers : Answered(w) \/ \E o \in SaveResults : Record(w, o)
  <2>1. PICK e, a : sent' = [sent EXCEPT ![e].accepted = a] \/ sent' = sent
    BY <1>3 DEF Answered, Record
  <2>2. QED
    BY <1>1, <2>1
<1>4. CASE Recount
  BY <1>1, <1>4 DEF Recount, NoCall
<1>5. QED
  BY <1>2, <1>3, <1>4 DEF Next, Process, Environment, Prepare, Work, vars, ledgerVars, cycleVars,
    Begin, CycleFails, PlanMade, PrepareCancelled, ObserveItem, PrepareSubmit, PreparePending,
    PrepareFailed, StartWorkers, TakeJob, SkipJob, PassCheck, RenameLands, Join, Finish, Stop,
    Signal, Restart

(* A rename whose acceptance was recorded is not sent again while its      *)
(* request stands, however often plans repeat it and processes restart.    *)
THEOREM AcceptedStaysSent == Spec => AcceptedNotResent
<1>1. IInv /\ [Next]_vars =>
        \A d \in Devices : sent'[d].count > sent[d].count => sent[d].accepted # "recorded"
  <2> SUFFICES ASSUME IInv, [Next]_vars, NEW d \in Devices, sent'[d].count > sent[d].count
               PROVE  sent[d].accepted # "recorded"
    OBVIOUS
  <2>1. Cycle /\ LedgerSays
    BY LedgerSaid DEF IInv
  <2>2. sent[d].count \in Nat
    BY <2>1 DEF Cycle, Shape
  <2>2a. Cycle'
    BY StepHolds DEF IInv
  <2>2b. sent'[d].count \in Nat
    BY <2>2a DEF Cycle, Shape
  <2>3. PICK w \in Workers : CallProvider(w)
    BY <2>1, <2>2, <2>2b, OthersCallNot
  <2>4. PICK e \in Devices : /\ sent[e].accepted # "recorded"
                             /\ \A f \in Devices \ {e} : sent'[f] = sent[f]
    BY <2>1, <2>3, CallIsNew
  <2>5. d = e
    BY <2>2, <2>4
  <2>6. QED
    BY <2>4, <2>5
<1>2. QED
  BY <1>1, Inductive, PTL DEF Spec, AcceptedNotResent

=============================================================================
