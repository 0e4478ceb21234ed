# onomazo verification

TLA+ models of onomazo, the TLC configurations that check them on small
instances, and TLAPS proofs of what the models promise for every instance.

onomazo gives managed devices the names a policy wants. In each cycle it lists
the devices of Intune and Jamf, resolves their users in Entra ID, evaluates the
naming policy, resolves collisions into a plan of unique names, and submits the
renames that its ledger permits. Renames are asynchronous: an accepted one shows
in a later inventory, if ever. The ledger, a small map saved to a file, is all
that keeps onomazo from sending a rename again and again, or losing track of
one when it is interrupted.

- [1. The system](#1-the-system)
- [2. Modules](#2-modules)
- [3. Runs](#3-runs)
- [4. Bounds](#4-bounds)
- [5. Fairness and assumptions](#5-fairness-and-assumptions)
- [6. Proofs](#6-proofs)
- [7. Where code and words differ](#7-where-code-and-words-differ)
- [8. Not modelled](#8-not-modelled)
- [9. Plan](#9-plan)

To check a run: `tlc -config MCLedger.cfg MCLedger`. To check the proofs:
`tlapm LedgerProofs.tla`. `PROJECT.json` lists the runs, the lines each
definition stands for, the hazards and the mutants.

## 1. The system

| component | state it keeps | operations | what makes it correct |
|---|---|---|---|
| Rename ledger (`internal/state/ledger.go`) | one intent per device: serial, wanted name, time and number of attempts, status | `Prepare` (is a submission due?), `MarkSubmitted/Retrying/Failed`, `Observe`, `Cancel`, `Snapshot`, `Open` | what it grants is saved first and stays known; attempts are bounded and spaced; what is settled stays settled; late answers settle nothing else |
| File store (`internal/state/file.go`) | the state file, its lock file | `Save` (temporary file, sync, rename, directory sync), `Load` with migration of version 2, `NewLockedFileStore`, `Close` | a save replaces the document as a whole; an acknowledged save survives a power loss; one writer at a time, from before it loads; unreadable files are left alone |
| Reconciliation service (`internal/app/service.go`) | caches of device details and users; the report of a cycle | `Reconcile` = list, refresh, resolve, plan, apply; a pool of `reconcile.concurrency` workers in `apply` | plans are made of current data; commands in flight are on file; the report is true; the pool is joined |
| Run loop and signals (`cmd/onomazo/loop.go`, `main.go`) | a timer, a context that SIGINT or SIGTERM cancels | cycle after cycle until cancelled | what a cut-short cycle was granted and did not submit is kept and owned up to; the process ends |
| Planner: policy (`internal/planner/planner.go`, `internal/expression`, `internal/config/validate.go`) | none between plans | validate and compile the naming section; `evaluate` each record; `evaluateRanks`; order what competes | each device gets what the policy as a whole means for it; a failing program costs one device its name and never the process; the order of competitors is strict, so that a plan does not depend on the order of listings |
| Planner: collisions (`internal/planner/planner.go`) | none between plans | `resolveCollisions` | names of a plan are unique up to case, spare unmanaged devices, honour fixed names, and settle |
| Jamf client (`internal/provider/jamf/client.go`) | a cached access token behind a mutex | `request`, `token`, `invalidateToken` | one token request at a time; a good token is kept; a request has its effect at most once |
| Jamf inventory (`internal/provider/jamf/inventory.go`) | none between listings | page after page, validated | an inventory that moves under the listing is never taken for complete by mistake |
| Entra client (`internal/provider/microsoft/entra.go`) | none | `ResolveUsers`, concurrently | all stale users or an error |
| Intune client (`internal/provider/microsoft/intune.go`) | none | list, rename through the Graph SDK | (not in this repository) |
| Display of a finite command (`cmd/onomazo/progress.go`, `diagnostics.go`) | the rows of active stages, the frame on the screen, two mutexes and a ticker goroutine | handle a log record, tick, stop, write the report | what was written stays whole; nothing is painted over or after the report; stopping returns |
| Configuration | none after start-up | load, merge, validate, compile | what it lets through is what the rest may assume |

**Interaction.** The command (`plan`, `apply` or `run`) builds the store, for
`apply` and `run` under its lock, opens the ledger over it and hands it to the service.
The service calls sources and the resolver concurrently, the planner as a
pure function, then, for each planned device in order and from one goroutine,
`Ledger.Prepare` or `Ledger.Observe`. Granted submissions go into a channel
that is filled and closed before the pool starts; each worker calls the
provider and then one of `Ledger.Mark*`. The ledger's methods hold its mutex for
their whole length, the save included. The loop starts the next cycle only
after the previous one, with all its workers, returned.

The display hangs on the logger: every log record of the service and the sources is handled by
`activityHandler` on the goroutine that logs it, while a ticker repaints. The command stops the
display, waiting for the ticker, before it writes its report.

**What is hard.** Saves that fail after the file was replaced; crashes and
cancellations between recording an attempt, sending it and recording its
outcome; answers that arrive for a request that has been superseded; a
timer that fires together with the signal; caches that survive failed cycles;
tokens revoked, expired or replaced while requests that use them are out;
inventories that change between two pages; plans that change the very ranking
they were made from; programs of a policy that fail for one device in the middle of a plan;
a last tick after the display was stopped; two commands on one state file. `PROJECT.json` lists them
under `hazards`, each at its line.

## 2. Modules

| module | models | composed of |
|---|---|---|
| `Ledger` | the ledger's methods over a store whose saves succeed, fail, or fail late | |
| `AtomicStore` | what the ledger relies on in a store: documents replaced as a whole | |
| `FileStore` | `Save` system call by system call; implements `AtomicStore` | `INSTANCE AtomicStore` |
| `Reconcile` | apply cycles, the worker pool, cancellation, restarts, the run loop; every ledger step is a step of `Ledger` | `INSTANCE Ledger` |
| `StateLock` | several processes that lock, load, migrate and write one state file | |
| `Policy` | validation of the naming section, evaluation of every record, ranks and their order | |
| `Planner` | `resolveCollisions`, over rounds of applied plans, from any outcome of `Policy` | |
| `Snapshot` | listing, details and user caches over failing cycles | |
| `JamfClient` | concurrent requests that share an access token | |
| `JamfPages` | a listing by pages while the inventory changes | |
| `Progress` | the display of a finite command: loggers, ticker, stop, report | |
| `*Proofs` | theorems about the module they are named after; `StoreProofs` about `FileStore` and `StateLock`, `JamfProofs` about `JamfClient` and `JamfPages` | extend it and `TLAPS`; `ReconcileProofs` has an `INSTANCE` of `LedgerProofs` |
| `MC*` | values, scopes and symmetry for TLC | extend the module; `MCJamf` extends `JamfClient` and `JamfPages` |

Each module also holds a few operators marked *Fault*. They are mistakes the code
could have made, one for each property that is checked; nothing uses them, but
each one makes its property fail when it replaces the operator of the same
name without the suffix (`PROJECT.json`, `mutants`).

**Ledger.** `intents` is the map in memory, `disk` what `Load` would return. One
action per method and disposition: `PrepareObserved`, `PrepareFirst`,
`PreparePending`, `PrepareFailed`, `PrepareExhausted`, `PrepareRetry`,
`PrepareDropFails` (the dropped record of another serial could not be saved),
`Mark`, `Observe`, `Cancel`. `Save` is `putLocked`/`deleteLocked`: the *whole* map is
written, and rolled back in memory if `Store.Save` fails. A failure is `"failed"`
when the file is still the old one, `"late"` when the rename took place and
opening or syncing the directory failed: then memory is behind the file until
the next save. `Prepare` of a device with another serial saves twice
(`Base`, `File` are what the first save leaves). `told` and `outstanding` are history:
the latest submission each device was granted, and those not reported yet.
Callers are free, except that they do not repeat a request whose own
submission is in flight; `Reconcile` shows that the service is such a caller.

**FileStore.** `pc` is the call `Save` is about to make; each can fail
(`Fail` removes the temporary file), the process can die (`Crash`) and so can the
machine (`PowerLoss`, which leaves one of `durable`). A rename whose directory was
not synced may be lost; data renamed before it was synced may be torn.
`Rename` is `AtomicStore`'s `Replace`, `SyncDir` its `Acknowledge`, every other call stutters.

**Reconcile.** `phase` is where `Reconcile`/`apply` is: `list`, `prepare` (with `next`, the
loop's index), `work` (with `jobs`, the channel, and one `worker` record per
goroutine), `done`. A worker takes a job off the channel (`taken`), looks at the context
(`PassCheck` or `SkipJob`) and only then calls the provider (`CallProvider`): the signal may
fall between any two of these, so that a call may be made on a cancelled context.
Its `step` also separates the moment the provider takes
the rename (`RenameLands`, external) from its answer (`Answered`), because the answer can
be lost. `result` is the report. `Plan` items are arbitrary in each cycle: other
people rename devices, and policy changes. `Begin` reads the clock before anything is
listed, as the code does, also if the context was cancelled meanwhile (the
select of `loop.go:25` may take the timer). `sent` is history: provider calls made
for the standing request, and whether an acceptance was answered or recorded.

**StateLock.** `opening` is what is left of opening the store, in the order of
`buildStore`: a writer locks, then loads; a plan only loads. The lock is tried
once (`LockHeld` fails the command). The file may start missing, at version 2 or 3,
malformed or at a later version. Writers change one record at a time and save
the whole of what they loaded; one wanted name per device and saves that
do not fail keep the module small, since the ledger's own behaviour is
`Ledger`'s subject.

**Policy.** A naming section is a record of overrides, variables, rules and ranks, as it is read and
before it is validated: `Policies` holds malformed ones too, and `Validate` is `validateNaming`'s
verdict. A CEL program is what it answers for a record (`answer`): `expression.Compile`
fixes the type of the result, so a condition says yes or no, a name or variable is a
string, a rank is comparable, and any of them may fail. Then `Plan` goes from record
to record: `Refuse` or `Admit` (the duplicate check), the overrides, the
variables with all their cases, the rules, each branch of `evaluate` an action that goes on
or `Ends` the record, and last `Rank`, `evaluateRanks`, for what competes. `RuleReply`
models a rule that reads a variable which has no value: it fails, unless it asks
with `has` before. `Before` is `compareCandidates`. Names equal up to case are equal here; `Planner` has the folding.

**Planner.** Devices are numbered by collision rank, so that `d < e` is the order of
ranks with ties broken by identity; `Fold` is `foldName`; `Suffixes` lists the sequence names that
satisfy the pattern in the order they are tried. What `Policy` shows, a status or a candidate
for each device and a strict order of competitors, is what the module starts from, and all
combinations of it are considered: a fixed name, a rule's name, or a device outside the plan.
The groups are taken in key order, one action per branch of the loop
(`FixedConflict`, `FixedReserved`, `FixedWins`, `RuleWins`, `NoWinner`), then the losers
in group order (`Suffix`, `SuffixExhausted`). `Replan` applies the renames and plans again.

**Snapshot.** Sources answer in any order and with anything; `Refresh` is
`refreshDevices` and the choice of stale users, `Answer` one directory lookup,
`ResolveFails` discards the batch and leaves the device cache refreshed, as the code
does. A record's fields stand for the groups of fields the code treats alike: what
identifies the cached details (serial and platform; user), what is always
taken from the listing (name, last seen), and all the rest. `shown` and `told` are
history: what was listed and answered, with the cycle's time.

**JamfClient.** `TokenCached` and `TokenFetch` take the mutex, the second holds it
across the HTTP call; `Issue`, `Revoke`, `Accepts` are the server. A request may be carried
out although its response is lost (`Served`).

**Progress.** The screen is a sequence of lines; a frame is painted without a final line break and
erased by clearing as many lines as it is said to have (`shown`). `oMu` is `commandOutput`'s
mutex and `pMu` `terminalProgress`'s, taken in that order by everyone but the ticker, which takes
`pMu` alone. A logger is at `idle`, `handling` a record with `oMu` held, or, between clearing the frame and
writing a warning, `writing` with both. `ticker` separates the tick that was received from its being served,
since the display may be stopped in between; `main` goes through the three calls of `stop`, before the
report, by the report and at the end, each of which finds a display (`StopEnters`,
`StopDisplay`, `StopReturns`) or none. `interactive` and `enabled` are the two ways of showing stages: by
repainting, or by milestones (`plain`) on a terminal that cannot. When a row becomes due is a matter
of time and arbitrary.

**JamfPages.** `NextPage` asks for page `page` of what the server has now,
`BadPage` is any of the checks failing: total below what was seen, total
changed, an empty page too early, an id seen before.

## 3. Runs

| run | shows |
|---|---|
| `ledger` | `PromisesDurable`: after a caller was told to submit, memory and file hold a record of that request with at least its time and count, whatever fails later for this or another device. `BoundedSubmissions`, `CooldownRespected`: at most `rename_max_attempts` grants per standing request, at least `rename_retry_after` apart. `OneRecordApart`: a late save failure puts the file ahead for one device at most. `SettledForGood`: an accepted or rejected request is not granted again. `LateOutcomeIgnored`: an answer settles only its own request; its callers may be late, while the present service joins its pool before anything can supersede what it submitted. |
| `file_save` | `AckSurvivesPowerLoss`, and `ReplacedAsAWhole`, the refinement of `AtomicStore` |
| `reconcile` | Cycles over two devices with failing saves, the signal and restarts anywhere. `LedgerContract`: the service refines `Ledger!Spec`, so that the ledger's theorems apply. `WriteAhead`: a command in flight is on disk, still marked to be retried. `AcceptedNotResent`. `ReportTruthful`: what the report says of a device is what the ledger holds. `NoStragglers`: no worker outlives its cycle, so closing the ledger is safe. `NoSubmissionLost`: however the cycle ends, by the signal at any point of the loop or of a worker or by a failed save, a submission that was granted and not made is on disk with an attempt more than calls were made, the report says that it was not made, and after the pool ran every device has an outcome. Two liveness properties, `CyclesEnd` and `ShutdownEnds`. |
| `state_lock` | `WriterIsCurrent` (a writer never overwrites what it has not read), `FailClosed`, `SettledNotResent` (across processes, and across the migration) |
| `policy` | `EvaluationMeets`: the walk through overrides, variables and rules gives each device what `Meaning`, a definition of the policy as a whole, says, and a failing program costs no other device its name. `NothingPanics`: what validation accepted never reaches the places where the code would dereference nothing or compare the incomparable. `StrictlyOrdered`: competitors are strictly and transitively ordered, with ranks that tie, names that are preserved, and either direction. |
| `planner` | `UniqueNames`, `UnmanagedRespected`, `FixedNamesExact`, and `Converges`: carrying plans out leaves nothing to rename in the end, after one plan without `preserve_existing`, and with it after as many as there are devices at most |
| `snapshot` | `PlanIsCurrent`, `DetailsCoherent`, `UsersCoherent`: a plan is never made from the details of a predecessor under the same id, nor from data older than its TTL, failed cycles in between or not |
| `jamf` | Of concurrent requests: `AtMostOnce`, `FetchNeeded`, `GoodTokenKept`, `CachedNotExpired`, and `RequestsReturn` (liveness). Of the pages of a listing: `CountedOnce`, `MissesPaidFor` (what a listing misses is no more than what was deleted meanwhile; nothing, if the inventory stands still). The two do not read each other's state, and a behaviour is about one of them (`scope`). |
| `progress` | `ScreenIntact`: every line written to stay is there, whole and in order, above the frame the display believes in. `ReportUndisturbed`: from the report on nothing is painted or announced, however late a tick or a stage comes. `EndedStagesVanish`, and `CommandEnds`: stopping, which waits for the ticker with a mutex held, returns (liveness) |
| `planner_kept`, `attempts_text`, `retry_times` | counterexamples, see section 7 |

Type invariants are proved (section 6) and not run again.

`CHECK_DEADLOCK FALSE` is given where the modelled activity ends: a plan that settled
(`planner`), an evaluation that ended (`policy`), a command that is done
(`progress`), a clock at its bound (`snapshot`). Where a listing ended, `jamf` stutters by name (`ListingOver`),
so that a request that hangs still shows.

## 4. Bounds

| bound | value | why it is enough |
|---|---|---|
| ledger: keys, serials, names | 2, 2, 2 | two devices let the save of one disturb the other; two names let a request be superseded and restored. `InFocus` (in `MCLedger`) leaves out only the combination of two devices *and* changing serials: methods read one device's record, and the other one matters through the save alone. |
| `RetryAfter` 1, `MaxAttempts` 2, `MaxTime` 2 | | a request is granted, retried at exactly its retry time, and exhausted |
| file store: documents | 3 | the old one, one whose save failed late, a new one |
| reconcile: devices, workers, names | 2, 2, 2 | two workers race on the channel and on the ledger, for one device each |
| reconcile: scopes | `pool`, `records` | two devices over all plans, times and saves are too many. Each behaviour has one of two scopes (`MCReconcile`): in `pool` both devices may be renamed, to one name, at times 0 and 1, and no save fails late; in `records` only the first may, to any name, at any time, with late failures. What is said of one device's record depends on another's only through saves, which `ledger` covers for two. The theorems of `ReconcileProofs` need no scope. |
| state lock: processes, devices | 3, 2 | a writer, one that tries, and a plan; another writer changes the record one is not looking at |
| planner: devices, keys, names | 3, 4, 7 | two that compete, one in their way; two bases, the first of which also in lower case, with its two sequence names; a platform with room for only one of these |
| planner: rounds | 4 | as many plans as there are devices may rename, and the fourth must not. The platform with little room is the last device's, which is what makes a third plan rename at all: a bound of two plans, stated here before, is false. |
| policy: records, policies | 3; 4 accepted and 8 malformed | three records for transitivity; the accepted policies exercise the overrides, the variables (two, with two cases and one, read by a rule that asks and one that does not) and two ranks in both directions, with and without `preserve_existing`; the malformed ones break one check each. Programs answer freely for one record where only it is concerned, and ranks freely for all. |
| policy: names, lengths | 4; limit 15 (Windows) | the empty name, a good one, one that only Windows finds too long, one that does not match |
| snapshot: devices, TTLs, times | 2, 2, 4 | one device per source, sharing a user or not; data fresh, one cycle old and expired, with a failing cycle between |
| Jamf, requests: callers, tokens, times | 2, 2, 3 | one refreshes while the other is refused; the second token is refused too; a token of lifetime 3 expires |
| Jamf, pages: ids, page size, changes | 5, 2, 4 | three pages; an addition that hides a deletion before and behind the cursor |
| progress: loggers, labels, records | 2, 2, 3 and 1 | a stage that begins, advances and ends while another goroutine logs anything, a stage of the same label included |
| progress: rows shown, times due | 1, 1 | one row fits and one does not; a milestone is announced once |

Clocks, rounds, tokens, records and changes are capped by guards with these constants
(`Tick`, `Begin`, `Replan`, `Issue`, `Add`, `Delete`, `Log`, `Due`); nothing else is. Symmetry is used for
the ledger only, on model values that no operator orders, and without liveness.

## 5. Fairness and assumptions

- **`Reconcile`: `WF(Process)`.** The steps of the process itself are taken eventually. A worker's provider
  call is among them because every call returns: Jamf's client has a timeout of 30
  seconds, and all calls end when the context is cancelled. That a cycle
  *begins*, a signal, a restart and the moment a rename lands are not fair. `CyclesEnd` and
  `ShutdownEnds` do not need fairness per worker: while one of them can step, the process can.
- **`JamfClient`: `SF(Proceed(c))`.** The token mutex may be free and taken by another again
  and again, so weak fairness would not do; Go's mutex hands itself over to a
  goroutine that has starved for a millisecond, which is what strong fairness says. HTTP calls end within `Timeout`.
- **`Progress`: `WF(Ends)`, `WF(Handle(g))`, `WF(Ticks)`, `SF(Quit)`.** The command and the goroutines run on; the ticker
  fires. `Quit` needs strong fairness, because a select that finds both a tick and the closed channel takes either:
  Go chooses at random, and a tick only comes every 100 milliseconds. That anything is logged is not fair, nor that a row
  becomes due.
- The clock the service reads does not go back. The code records `time.Now()` in
  the state file, so a restart with a clock set back can only lengthen a cooldown.
- The Jamf server issues every token afresh and does not accept one after its lifetime.
  `Timeout <= Leeway` (30 seconds each, `client.go:18-19`) is an assumption
  of `JamfClient`; `CachedNotExpired` fails without it.
- `validateRequest` passes: the service only calls the ledger with complete requests.
- `rename` replaces a file atomically, and `fsync` of file and directory do what POSIX says.
- The lock file's `flock` is released by the kernel when its process ends.
- Everything about restarts is said of the file store. The memory store, the
  default, starts empty and promises nothing across restarts.
- What policy wants of a device, and its ranks, do not depend on the device's present name. A CEL program may read
  `device.current_name`; with one that does, plans need not settle, and `Converges` says nothing of them.

## 6. Proofs

TLC agrees with each theorem's formula on the instances above; the proofs hold for every
value of the constants that satisfies the modules' assumptions. They are of one form: an inductive invariant
`IInv`, `Init => IInv`, `IInv /\ [Next]_vars => IInv'` with one step or lemma per
action, and what follows from `IInv`.

- **`LedgerProofs`**, for any devices, serials, names, retry window and
  attempt limit. `PromisesDurable` is not inductive: that a retry may raise count and time
  needs to know what the stored record says of both, in memory *and* in the file, since a
  restart may make either the other. `RecordOK(x, g)` says what a stored record
  `x` owes the latest grant `g`; `Records` says it of both copies of each device;
  `OneRecordApart` is needed because a save for one device writes the others' records from
  memory; `InFlightOpen` says that a submission in flight has no outcome
  yet, so that its answer may be recorded. About saves there are
  three lemmas (`SaveEffect`, `SaveApart`, `SaveRecords`), used by every action that saves.
  Theorems: `TypeCorrect`, `PromisesAreDurable`, `SubmissionsAreBounded`,
  `FileIsOneRecordBehind`, `OutcomesAreKept`, `FailuresAreExplained`, `CooldownIsRespected`, `SettledIsForGood`, `LateOutcomesAreIgnored`.
- **`ReconcileProofs`**, for any number of devices and workers and any plans. The ledger inside
  `Reconcile` is an instance of `Ledger`, so `LedgerProofs` is taken by `INSTANCE` with the same
  substitution, and `IInv` is its invariant together with `Cycle`, which is about the rest: each granted
  submission is in one place, the channel or one worker (`OnePlace`); the loop has only granted what it has passed
  (`Passed`); a submission that is pending is outstanding in the ledger and on disk as one to retry, at
  this cycle's time (`Recorded`); calls are counted against grants (`Counted`); what the report says is so from the
  moment it is said (`Truthful`); a submission the ledger waits for is past its worker's check or still owed, with an attempt more
  than calls on record and in the report as not made (`Kept`, `Owed`); and the report is silent about a device only while its submission is pending
  (`Attended`). Each step is shown to be a step of the ledger, or none, under the ledger's
  contract: a request is not repeated while its own submission is in flight, because of `Passed`. The ledger's half of the
  invariant then comes from `LedgerProofs` and only `Cycle` is left to prove. Theorems: `ServiceKeepsContract`
  (so that every theorem about `Ledger` holds for the service, without a bound), `InFlightOnDisk`, `AcceptedStaysSent`,
  `CallsAreBounded`, `ReportsAreTrue`, `NothingGrantedIsLost`, `NobodyStraggles`.
- **`PlannerProofs`**, for any devices, names, folding and sequence names. `UniqueNames` is not inductive: it needs
  `Covered` (after the groups, `occupied` holds every key that is reserved or given) and `WinnersCompete` (a winner competed for its
  key, which no device outside the plan has); `UnmanagedRespected` needs `Reservations` (the keys of those devices are
  reserved from the start, and others only for devices found invalid). `FixedSettled` and `FixedKept` say when the
  fate of a fixed name is decided and what can keep it from being given. `Converges` is about several plans, while an invariant
  speaks of one state. So a finished plan is described as a whole, by what decides each group (`Decides`) and what each loser
  finds taken (`Taken`): `FirstPassed` and `SecondPassed` say at each step how far the plan that is being made is that plan, and
  `Foreseen` that the names of a round are those a plan like it left (`Settled`), with nothing to change any more (`Calm`) or at most
  `N - round` losers that have the base names of their groups (`Lingering`). The devices the first pass finds invalid and the winners
  are then the same in every plan (`FirstPassRepeats`: the first group decided otherwise would have the same names reserved).
  A plan with its losers in the order of the plan before repeats it (`CalmPlansRepeat`: the first loser to be
  given another name would find the same keys taken). A loser's place depends on the plan before only by whether it has
  its base name, and one that was given a sequence name never has it again, so that those that have it become fewer otherwise
  (`LosersShrink`). The firsts come from the well-foundedness of `<`, a theorem of the library (`LeastNatural`), since
  induction over data is out of reach. Theorems: `TypeCorrect`,
  `NamesAreUnique`, `OthersKeepTheirNames`, `FixedNamesStand`, `PlansConverge`.
- **`SnapshotProofs`**, for any devices, sources, records and ages. `DetailsKnown` and `UsersKnown` say that a cached entry
  that is not expired was listed, or answered, in the cycle it is dated to, for the same device with the same identity or
  the same user; the histories only forget what is expired. Failing cycles keep the caches and so the invariant. Theorems:
  `PlansAreCurrent`, `DetailsAreCoherent`, `UsersAreCoherent`.
- **`JamfProofs`**. The pages, for any ids, page size and changes: a device that was there all along is passed by if it is
  in front of the next page and was never seen (`PassedBy`); a deletion moves at most one device across that edge, since ranks
  differ, and an addition none. When the listing ends, the records seen are as many as the server has, so that no device is
  behind the edge. Theorems: `EachCountedOnce`, `MissesAreBounded`. The client, for any callers and token lifetimes:
  `Exclusion` ties the mutex to the one
  caller that fetches; `Known` and `Fresh` say that a token on its way is one nobody has
  seen, so that a second refusal is of another token (`Attempts`); `Timely` that the
  cache is at most `Timeout` too optimistic, which the leeway absorbs; `Refusals` that what was refused
  stays unacceptable until the cache is cleared. Theorems: `TypeCorrect`, `EffectAtMostOnce`, `TwoTokensRefused`,
  `FetchesAreNeeded`, `GoodTokensStay`, `LiveTokensOnly`.
- **`StoreProofs`**. Saving, for any set of documents: the invariant says what the temporary
  file holds at each call, and that it was synced from the call after the sync on.
  Theorems: `SaveTypeCorrect`, `FileNeverTorn`, `AcknowledgedSurvives`, and `SaveIsAtomic`, the
  refinement of `AtomicStore`. Locking, for any processes and devices: `Protocol` says that
  whoever got past the lock holds it, that only such a process has requests out, and that it has
  read the file. `WriterIsCurrent` is then inductive, because no two processes
  are past the lock. Theorems: `TypeCorrect`, `WritersAreCurrent`, `RequestsAreOnFile`,
  `UnreadableFailsClosed`, `SettledStaysSettled`.
- **`ProgressProofs`**, for any number of loggers, stages and records, and frames of any height. `ScreenIntact` needs to know that
  nobody paints between a logger's clearing the frame and its writing the warning, which is
  `Exclusion`: whoever is at a step that writes holds the mutex of that step, and a mutex has one holder. `Frameless` says
  when no frame is on the screen, `Ending` what the command has taken down at each of its steps (no display, no
  ticker that still runs), `Reported` that the report comes after the stop and milestones before it. The `n`-th due row, which
  a frame is made of, is defined by counting smaller ones; that there is exactly one (`NthIsDue`) is proved from the
  theorems about cardinality, by a least counterexample. Theorems: `TypeCorrect`, `WritersExclude`, `ScreenStaysIntact`,
  `ReportStandsUndisturbed`.
- **`PolicyProofs`**, for any number of records and any policy of the shape the schema gives it (`Naming`: this is the
  one assumption on `Policies`, and says nothing of whether they are valid). The walk and the meaning of a policy are two readings of one
  program, the first step by step and the second as a whole. `Walked` joins them: at override `at`, those before it said
  no; at variable `at`, those before it have the values they are meant to have, and `found` is what the cases before `nth` gave; at rule
  `at`, those before it said no. `Draft` says what an item must look like between its evaluation and its ranks, and `Meant` that what is
  finished has its meaning. That the first of several things decides, which the meaning says with a set of least elements, is
  `OneDecides`. That some rank decides between two competitors whose ranks differ needs a least index; induction over
  data is out of reach, but the well-foundedness of `<` is a theorem of the library and gives it (`LeastNatural`).
  Theorems: `TypeCorrect`, `EvaluationMeetsMeaning`, `NeverPanics`, `CompetitorsOrdered`.

Only model-checked is liveness, which is out of the prover's reach: `CyclesEnd`, `ShutdownEnds`, `RequestsReturn`,
`EndedStagesVanish`, `CommandEnds`. Every safety invariant and action property of the passing runs is a theorem.

A formula was checked by TLC before it was proved. For `Converges` that refuted a bound of two plans, and the invariant of its proof was
checked on all of `planner`'s states with the plan before kept in three more variables.

## 7. Where code and words differ

- **A kept name is given away** (`planner_kept`, `planner.go:254`, also 258, 291, 297).
  A device whose collision is invalid keeps its name, and the planner
  reserves it so that nobody else gets it, but only when it reaches that group: a group
  with a smaller key may have given the name to its winner before. Both devices then
  have one name.
- **Attempts that were not made** (`attempts_text`, `ledger.go:109`). "rename submission failed after n attempts"
  may be said of a request that was never submitted: attempts are counted before the pool starts, and a cycle
  that is cancelled or whose later save fails drops them.

- **A retry time without a retry** (`retry_times`, `ledger.go:128`). "Retry times indicate eligibility on a subsequent
  `apply` or `run` cycle" (`README.md:90`), and the report says "Eligible after" (`output.go:104`). The last
  submission the ledger permits is granted with a retry time as well; if it is not made, or not
  answered, the report gives that time, and the first cycle at it or later declares the request failed
  (`ledger.go:106`). `ReportTruthful` only says that a reported time is the one the record holds.

A remark that no run is about: an explicit zero for `rename_max_attempts` or `concurrency` is not rejected but read as the default.

## 8. Not modelled

- *CEL itself* (the part of `internal/expression` that calls the library, and the library): a program is what it answers.
- *Microsoft Graph and Intune*: calls into the vendored SDK; how they end is the environment of `Reconcile` and `Snapshot`.
- *Configuration* but for the naming section: reading, merging and defaulting happen once at start-up and keep no state; what
  validation guarantees is assumed of the constants.
- *Layout of rows, reports and JSON logs*: formatting. What a report may say is checked on `Reconcile`'s `result`, what the display
  keeps on `Progress`. A terminal that wraps the lines of a frame when it is resized is outside `Progress`, which takes a
  line for a row of the screen.
- *Memory store*: a copy of a slice.
- A service without an identity resolver (`s.identity == nil`): it plans without users
  and has no user cache; `Snapshot` models the one that has a resolver.
- The second signal, which kills the process, is `Restart` in `Reconcile` and `Die` in `StateLock`.
- Creating and securing the lock file: a failure ends the command as a held lock does.
- *Which errors of the directory mean that a user is absent* (status 404, `entra.go:63`): `Snapshot` takes that for an
  answer like others and everything else for a failure, so that `UsersCoherent` tells answers from failures but not
  an absent user from one that was misread.

Hazards without a property are listed with the reason in `PROJECT.json`. Most of them are by design
(a rename the inventory never shows stays pending; names that flap start new requests).

## 9. Plan

Done, in this order: `Ledger` and its proofs; `FileStore` over `AtomicStore` and its proofs; `Reconcile` over
`Ledger`; `Planner`; `Snapshot`; `JamfClient`, `JamfPages`; `StateLock`; proofs about `StateLock` and `JamfClient`; `Policy`;
`Progress`; proofs about `Planner`, `Reconcile`, `Snapshot`, `JamfPages`, `Progress` and `Policy`.

Next, by what it would tell:

1. `FileStore` as the store of `Ledger` by refinement, and `StateLock` over `FileStore`'s late failures.
2. `Snapshot` without an identity resolver.
