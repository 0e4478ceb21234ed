------------------------------ MODULE Reconcile -----------------------------
(***************************************************************************)
(* Apply cycles of the reconciliation service (internal/app/service.go)    *)
(* over the rename ledger: one process runs one cycle at a time; the       *)
(* prepare loop asks the ledger about each planned device in order, then a *)
(* pool of workers submits what was granted to the provider and records    *)
(* the outcome.  A shutdown signal, a failed save or a crash can come at   *)
(* any point, and the provider may have taken a rename it never confirmed. *)
(*                                                                         *)
(* The plan of each cycle is arbitrary: inventories, policy and other      *)
(* people change names at will between cycles.  Ledger supplies the        *)
(* ledger's methods; its clock is the `now` a cycle captured at its start. *)
(***************************************************************************)
EXTENDS Integers, Sequences

CONSTANTS
  N,            \* devices are 1 .. N, in the order the plan lists them
  Names,        \* device names
  Targets,      \* the names policy may want, a subset of Names
  Workers,      \* reconcile.concurrency worker goroutines
  RetryAfter, MaxAttempts,
  MaxTime,      \* bound on the times at which cycles start
  SaveResults   \* the save outcomes considered, a subset of Ledger's Outcomes

Devices == 1 .. N

ASSUME ReconcileAssumption ==
  /\ N \in Nat \ {0}
  /\ Targets \subseteq Names
  /\ RetryAfter \in Nat \ {0} /\ MaxAttempts \in Nat \ {0} /\ MaxTime \in Nat
  /\ SaveResults \subseteq {"ok", "failed", "late"}

VARIABLES
  intents, disk, now, told, outstanding,  \* Ledger (now is Ledger's clock)
  cancelled,    \* the context is cancelled
  phase,        \* where Reconcile is: idle, list, prepare, work, done, stopped
  item,         \* the plan of the cycle, one item per device
  next,         \* the prepare loop's index
  jobs,         \* the job channel: devices granted a submission, in order
  worker,       \* each worker: its step, its device, the provider's answer
  result,       \* the report: what is said about each device
  sent          \* history: provider calls made for the standing request

ledgerVars == <<intents, disk, now, told, outstanding>>
cycleVars == <<phase, item, next, jobs, worker, result>>
vars == <<ledgerVars, cancelled, cycleVars, sent>>

Serial == "serial"   \* a device keeps its serial here; Ledger varies it

L == INSTANCE Ledger WITH Keys <- Devices, Serials <- {Serial}, clock <- now

-----------------------------------------------------------------------------
Items == [rename : BOOLEAN, current : Names, desired : Names]

\* A rename changes the name; any other item has none to give.
Plans == {i \in Items : /\ i.rename <=> i.current # i.desired
                        /\ i.rename => i.desired \in Targets}

NoItem == CHOOSE i \in Plans : ~i.rename

\* No retry time; retry times are positive.
Never == 0

Blank == [action |-> "none", error |-> FALSE, retryAt |-> Never]

Planned == [action |-> "planned", error |-> FALSE, retryAt |-> Never]

Idle == [step |-> "idle", device |-> 0]

NoCall == [count |-> 0, accepted |-> "no"]

Init ==
  /\ L!Init
  /\ cancelled = FALSE
  /\ phase = "idle"
  /\ item = [d \in Devices |-> NoItem]
  /\ next = 1
  /\ jobs = <<>>
  /\ worker = [w \in Workers |-> Idle]
  /\ result = [d \in Devices |-> Blank]
  /\ sent = [d \in Devices |-> NoCall]

-----------------------------------------------------------------------------
(* A cycle starts, the first one or when the timer fired, even if the      *)
(* context was cancelled meanwhile; now is read before anything is fetched.*)
Begin ==
  /\ phase = "idle"
  /\ phase' = "list"
  /\ now' \in now .. MaxTime
  /\ UNCHANGED <<intents, disk, told, outstanding, cancelled, item, next,
                 jobs, worker, result, sent>>

(* Listing, resolving or planning fails: the cycle ends with no results.   *)
CycleFails ==
  /\ phase = "list"
  /\ phase' = "done"
  /\ UNCHANGED <<ledgerVars, cancelled, item, next, jobs, worker, result, sent>>

(* A complete snapshot was fetched and planned.                            *)
PlanMade ==
  /\ phase = "list"
  /\ phase' = "prepare"
  /\ item' \in [Devices -> Plans]
  /\ result' = [d \in Devices |-> IF item'[d].rename THEN Planned ELSE Blank]
  /\ UNCHANGED <<ledgerVars, cancelled, next, jobs, worker, sent>>

-----------------------------------------------------------------------------
(* The prepare loop.                                                       *)

\* Calls are counted for the request that stands in the ledger's promises.
Recount ==
  sent' = [d \in Devices |->
             IF told'[d] # L!NoGrant /\ told[d] # L!NoGrant
                /\ told'[d].desired = told[d].desired
             THEN sent[d] ELSE NoCall]

Looping == phase = "prepare" /\ next <= N /\ ~cancelled

\* The loop sees the cancelled context before its next device and returns.
PrepareCancelled ==
  /\ phase = "prepare" /\ next <= N /\ cancelled
  /\ phase' = "done"
  /\ UNCHANGED <<ledgerVars, cancelled, item, next, jobs, worker, result, sent>>

\* Where the loop goes after its ledger call's save ended with o: on, or out.
LoopAfter(o) ==
  /\ phase' = IF o = "ok" THEN "prepare" ELSE "done"
  /\ next' = IF o = "ok" THEN next + 1 ELSE next
  /\ UNCHANGED <<cancelled, now, item, worker>>

ObserveItem(o) ==
  /\ Looping
  /\ ~item[next].rename
  /\ L!Observe(next, Serial, item[next].current, o)
  /\ Recount
  /\ result' = [result EXCEPT ![next].error = (o # "ok")]
  /\ LoopAfter(o)
  /\ UNCHANGED jobs

PrepareSubmit(o) ==
  /\ Looping
  /\ item[next].rename
  /\ \/ L!PrepareFirst(next, Serial, item[next].current, item[next].desired, now, o)
     \/ L!PrepareRetry(next, Serial, item[next].current, item[next].desired, now, o)
  /\ Recount
  /\ result' = IF o = "ok"
               THEN [result EXCEPT ![next].retryAt = now + RetryAfter]
               ELSE [result EXCEPT ![next].error = TRUE]
  /\ jobs' = IF o = "ok" THEN Append(jobs, next) ELSE jobs
  /\ LoopAfter(o)

PreparePending ==
  /\ Looping
  /\ item[next].rename
  /\ L!PreparePending(next, Serial, item[next].current, item[next].desired, now)
  /\ result' = [result EXCEPT ![next] =
       [action |-> "pending", error |-> FALSE,
        retryAt |-> IF intents[next].status = "submitted" THEN Never
                    ELSE L!RetryAt(next)]]
  /\ LoopAfter("ok")
  /\ UNCHANGED <<jobs, sent>>

PrepareFailed(o) ==
  /\ Looping
  /\ item[next].rename
  /\ \/ /\ L!PrepareFailed(next, Serial, item[next].current, item[next].desired)
        /\ o = "ok"
     \/ L!PrepareExhausted(next, Serial, item[next].current, item[next].desired, now, o)
  /\ result' = [result EXCEPT ![next].error = TRUE,
                              ![next].action = IF o = "ok" THEN "failed" ELSE @]
  /\ LoopAfter(o)
  /\ UNCHANGED <<jobs, sent>>

\* Every device is prepared: the job channel is filled and the pool starts.
StartWorkers ==
  /\ phase = "prepare" /\ next = N + 1
  /\ phase' = "work"
  /\ UNCHANGED <<ledgerVars, cancelled, item, next, jobs, worker, result, sent>>

-----------------------------------------------------------------------------
(* The workers.                                                            *)

Working(w, step) == phase = "work" /\ worker[w].step = step

\* A worker takes the next job off the channel.
TakeJob(w) ==
  /\ Working(w, "idle")
  /\ jobs # <<>>
  /\ jobs' = Tail(jobs)
  /\ worker' = [worker EXCEPT ![w] = [step |-> "taken", device |-> Head(jobs)]]
  /\ UNCHANGED <<ledgerVars, cancelled, phase, item, next, result, sent>>

\* Fault: a cancelled worker puts its job back for another one.
SkipJobRequeued(w) ==
  /\ Working(w, "taken")
  /\ cancelled
  /\ worker' = [worker EXCEPT ![w] = Idle]
  /\ jobs' = Append(jobs, worker[w].device)
  /\ UNCHANGED <<ledgerVars, cancelled, phase, item, next, result, sent>>

\* Fault: a cancelled worker passes over its job without a word.
SkipJobSilently(w) ==
  /\ Working(w, "taken")
  /\ cancelled
  /\ worker' = [worker EXCEPT ![w] = Idle]
  /\ UNCHANGED <<ledgerVars, cancelled, phase, item, next, jobs, result, sent>>

\* The worker sees the cancelled context: it reports the job as pending, with
\* the context's error, and drops it.
SkipJob(w) ==
  /\ Working(w, "taken")
  /\ cancelled
  /\ worker' = [worker EXCEPT ![w] = Idle]
  /\ result' = [result EXCEPT ![worker[w].device].action = "pending",
                              ![worker[w].device].error = TRUE]
  /\ UNCHANGED <<ledgerVars, cancelled, phase, item, next, jobs, sent>>

\* The worker sees the context in order, and goes on to submit.
PassCheck(w) ==
  /\ Working(w, "taken")
  /\ ~cancelled
  /\ worker' = [worker EXCEPT ![w].step = "passed"]
  /\ UNCHANGED <<ledgerVars, cancelled, phase, item, next, jobs, result, sent>>

\* The worker calls the provider, though the signal may have come meanwhile.
CallProvider(w) ==
  /\ Working(w, "passed")
  /\ worker' = [worker EXCEPT ![w].step = "calling"]
  /\ sent' = [sent EXCEPT ![worker[w].device].count = @ + 1]
  /\ UNCHANGED <<ledgerVars, cancelled, phase, item, next, jobs, result>>

\* The provider takes the rename; its answer is still to come.  (A call made on
\* a cancelled context may land too: where a provider looks at it is left open.)
RenameLands(w) ==
  /\ Working(w, "calling")
  /\ worker' = [worker EXCEPT ![w].step = "landed"]
  /\ UNCHANGED <<ledgerVars, cancelled, phase, item, next, jobs, result, sent>>

\* Rename returns: accepted only if it landed, rejected (one of five statuses)
\* only if it did not, and unsure (any other error, or cancelled) in any case.
Answered(w) ==
  /\ \/ /\ Working(w, "landed")
        /\ worker' = [worker EXCEPT ![w].step = "accepted"]
        /\ sent' = [sent EXCEPT ![worker[w].device].accepted = "answered"]
     \/ /\ Working(w, "calling")
        /\ worker' = [worker EXCEPT ![w].step = "rejected"]
        /\ UNCHANGED sent
     \/ /\ Working(w, "calling") \/ Working(w, "landed")
        /\ worker' = [worker EXCEPT ![w].step = "unsure"]
        /\ UNCHANGED sent
  /\ UNCHANGED <<ledgerVars, cancelled, phase, item, next, jobs, result>>

\* Fault: a rejection that could not be recorded is reported as final all the same.
ReportedFinal(r, answer, o) ==
  [action |-> IF answer = "accepted" THEN "submitted"
              ELSE IF answer = "rejected" THEN "failed" ELSE "pending",
   error |-> answer # "accepted" \/ o # "ok",
   retryAt |-> IF answer # "unsure" THEN Never ELSE r.retryAt]

\* What the report says after a call answered `answer`, recorded or not.
Reported(r, answer, o) ==
  [action |-> IF answer = "accepted" THEN "submitted"
              ELSE IF answer = "rejected" /\ o = "ok" THEN "failed" ELSE "pending",
   error |-> answer # "accepted" \/ o # "ok",
   retryAt |-> IF answer # "unsure" /\ o = "ok" THEN Never ELSE r.retryAt]

\* The outcome is recorded in the ledger and in the report.
Record(w, o) ==
  LET d == worker[w].device
      answer == worker[w].step IN
  /\ phase = "work"
  /\ answer \in {"accepted", "rejected", "unsure"}
  /\ L!Mark(d, Serial, item[d].desired, answer, o)
  /\ result' = [result EXCEPT ![d] = Reported(@, answer, o)]
  /\ worker' = [worker EXCEPT ![w] = Idle]
  /\ sent' = IF answer = "accepted" /\ o = "ok"
             THEN [sent EXCEPT ![d].accepted = "recorded"] ELSE sent
  /\ UNCHANGED <<now, cancelled, phase, item, next, jobs>>

\* Fault: apply returns once the channel is empty, not once the workers end.
PoolDrainedEarly == jobs = <<>>

PoolDrained == jobs = <<>> /\ \A w \in Workers : worker[w].step = "idle"

\* The last worker returned (waitGroup.Wait).
Join ==
  /\ phase = "work"
  /\ PoolDrained
  /\ phase' = "done"
  /\ UNCHANGED <<ledgerVars, cancelled, item, next, jobs, worker, result, sent>>

-----------------------------------------------------------------------------
\* Fault: the jobs a cancelled cycle left behind are submitted by the next one.
FinishKeepsJobs ==
  /\ phase = "done"
  /\ phase' = IF cancelled THEN "stopped" ELSE "idle"
  /\ item' = [d \in Devices |-> NoItem]
  /\ next' = 1
  /\ worker' = [w \in Workers |-> Idle]
  /\ result' = [d \in Devices |-> Blank]
  /\ UNCHANGED <<intents, disk, now, told, outstanding, cancelled, jobs, sent>>

\* Fault: the run loop does not look at the context after a cycle.
FinishRunsOn ==
  /\ phase = "done"
  /\ phase' = "idle"
  /\ outstanding' = {}
  /\ item' = [d \in Devices |-> NoItem]
  /\ next' = 1
  /\ jobs' = <<>>
  /\ worker' = [w \in Workers |-> Idle]
  /\ result' = [d \in Devices |-> Blank]
  /\ UNCHANGED <<intents, disk, now, told, cancelled, sent>>

(* The cycle returned: its report is written, and what it was granted but  *)
(* did not submit is forgotten.  A run that sees itself cancelled returns. *)
Finish ==
  /\ phase = "done"
  /\ phase' = IF cancelled THEN "stopped" ELSE "idle"
  /\ outstanding' = {}
  /\ item' = [d \in Devices |-> NoItem]
  /\ next' = 1
  /\ jobs' = <<>>
  /\ worker' = [w \in Workers |-> Idle]
  /\ result' = [d \in Devices |-> Blank]
  /\ UNCHANGED <<intents, disk, now, told, cancelled, sent>>

(* The run loop sees the cancelled context while it waits for its timer.   *)
Stop ==
  /\ phase = "idle"
  /\ cancelled
  /\ phase' = "stopped"
  /\ UNCHANGED <<ledgerVars, cancelled, item, next, jobs, worker, result, sent>>

(* SIGINT or SIGTERM cancels the context.                                  *)
Signal ==
  /\ ~cancelled
  /\ cancelled' = TRUE
  /\ UNCHANGED <<ledgerVars, cycleVars, sent>>

(* The process ends, by a crash at any point or after a cancelled cycle,   *)
(* and another one opens the state file.                                   *)
Restart ==
  /\ L!Restart
  /\ cancelled' = FALSE
  /\ phase' = "idle"
  /\ item' = [d \in Devices |-> NoItem]
  /\ next' = 1
  /\ jobs' = <<>>
  /\ worker' = [w \in Workers |-> Idle]
  /\ result' = [d \in Devices |-> Blank]
  /\ UNCHANGED sent

Prepare ==
  \/ PrepareCancelled \/ PreparePending \/ StartWorkers
  \/ \E o \in SaveResults : ObserveItem(o) \/ PrepareSubmit(o) \/ PrepareFailed(o)

Work(w) ==
  \/ TakeJob(w) \/ SkipJob(w) \/ PassCheck(w) \/ CallProvider(w) \/ Answered(w)
  \/ \E o \in SaveResults : Record(w, o)

\* The steps the process itself keeps taking.
Process ==
  \/ CycleFails \/ PlanMade \/ Prepare \/ Join \/ Finish \/ Stop
  \/ \E w \in Workers : Work(w)

Environment == Signal \/ Restart \/ \E w \in Workers : RenameLands(w)

Next == Begin \/ Process \/ Environment

Spec == Init /\ [][Next]_vars

FairSpec == Spec /\ WF_vars(Process)

-----------------------------------------------------------------------------
(* Properties.                                                             *)

(* Every rename command in flight, or about to be, has a record on disk    *)
(* for exactly its request, still marked to be retried: a crash now leaves *)
(* a process that knows the command may have been sent.                    *)
WriteAhead ==
  \A w \in Workers :
    worker[w].step # "idle" =>
      LET d == worker[w].device IN
      /\ disk[d].status = "retrying"
      /\ disk[d].desired = item[d].desired
      /\ disk[d].attempts >= sent[d].count
      /\ disk[d].attemptedAt = now

(* The provider is never called more than rename_max_attempts times for a  *)
(* standing request, whatever crashes, cancellations and lost answers do.  *)
BoundedCalls == \A d \in Devices : sent[d].count <= MaxAttempts

(* What the report says is so (output.go:100-113): "accepted" only after   *)
(* the provider accepted and, without an error, with the record on disk;   *)
(* "no further submissions" only when the record is failed; a retry time   *)
(* only for a record still marked as retrying, and the one it holds.  That *)
(* the device is eligible then is more, see RetryTimesMeanEligible.        *)
ReportTruthful ==
  phase = "done" => \A d \in Devices :
    /\ result[d].action = "submitted" => sent[d].accepted # "no"
    /\ result[d].action = "submitted" /\ ~result[d].error
         => disk[d].status = "submitted"
    /\ result[d].action = "pending" /\ result[d].retryAt = Never
         => intents[d].status = "submitted"
    /\ result[d].action = "failed" => intents[d].status = "failed" /\ result[d].error
    /\ result[d].action = "pending" /\ result[d].retryAt # Never
         => /\ intents[d].status = "retrying"
            /\ result[d].retryAt = L!RetryAt(d)

(* When a cycle has returned no worker is left in a provider call: the     *)
(* ledger may be closed, and the state file unlocked.                      *)
NoStragglers ==
  phase \in {"idle", "done", "stopped"} => \A w \in Workers : worker[w].step = "idle"

(* However a cycle ends, a submission that was granted and not made is not *)
(* lost.  Its request stays on disk, to be retried, with more attempts     *)
(* counted than calls made; and the report owns up to it: as not submitted *)
(* if the cycle never got to its pool, or as pending, with an error, if a  *)
(* worker saw the signal before calling (service.go:361).  Once the pool   *)
(* ran, each device it was to rename has an outcome, also one whose worker *)
(* called the provider after the signal.                                   *)
NoSubmissionLost ==
  phase = "done" =>
    /\ \A r \in outstanding :
         LET d == r.key IN
         /\ disk[d].status = "retrying" /\ disk[d].desired = r.desired
         /\ sent[d].count < disk[d].attempts
         /\ \/ result[d].action = "planned"
            \/ cancelled /\ result[d].action = "pending" /\ result[d].error
    /\ next > N => \A d \in Devices : item[d].rename => result[d].action # "planned"

(* A rename whose acceptance was recorded is not sent again while the      *)
(* request stands, however often plans repeat it and processes restart.    *)
AcceptedNotResent ==
  [][\A d \in Devices :
       sent'[d].count > sent[d].count => sent[d].accepted # "recorded"]_vars

(* The service uses its ledger as Ledger's callers must, and every step it *)
(* takes on it is one of the ledger's own: all that is proved of Ledger    *)
(* holds for the running service.                                          *)
LedgerContract == L!Spec

(* Every cycle ends, with workers pending, jobs queued or the context      *)
(* cancelled, provided the provider's calls return.                        *)
CyclesEnd == phase = "list" ~> phase \in {"idle", "stopped"}

(* After the shutdown signal the process comes to an end, wherever its     *)
(* cycle was: it is not kept alive by a cycle that starts all the same.    *)
ShutdownEnds == cancelled ~> phase = "stopped" \/ ~cancelled

-----------------------------------------------------------------------------
(* What the repository says of the program and the code does not keep.     *)

(* ledger.go:109: a record that failed "after n attempts" was submitted.   *)
AttemptsWereSubmitted ==
  \A d \in Devices : disk[d].status = "failed" /\ disk[d].failure = "attempts"
                     => sent[d].count > 0

(* README.md:90 and output.go:104: a device reported with a retry time is  *)
(* eligible for another submission then, so its attempts are not used up.  *)
RetryTimesMeanEligible ==
  phase = "done" => \A d \in Devices :
    result[d].action = "pending" /\ result[d].retryAt # Never => L!AttemptsLeft(d)

=============================================================================
