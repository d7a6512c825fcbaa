# A TLA+ model of laravel-queue-go

The Go library under `src/` lets Go programs produce and consume the jobs of a
Laravel application's Redis queues. This directory holds TLA+ modules that
model it, TLC configurations that check them on small instances, and proofs of
the main safety properties that TLAPS checks for all instances.

`PROJECT.json` is the index: components, runs, mutants, the map from
definitions to source lines, findings, hazards and theorems.

## 1. Inventory

| Component | State it keeps | Operations | Talks to |
|---|---|---|---|
| Redis queue (`pkg/queue/lua.go`, `keys.go`) | per queue: the list of ready payloads, the sorted sets `delayed` and `reserved`, the list `notify` of wake-up tokens | `luaPush`, `luaLater`, `luaPop`, `luaRelease`, `luaDelete`, `luaMigrate`, `luaClear`, each atomic | called by the driver |
| Redis driver (`redis_driver.go`) | the throttle `lastMigratedAt` | `Push`, `Later`, `Pop` (migrate, block, pop: up to four calls), `Delete`, `Release`, `Clear`, `Size` | Redis, over a connection that fails |
| Worker loop (`worker.go`: `Run`, `Stop`, `fetchJob`, `runSingle`, `runConcurrent`) | `stopRequested`, `fetchCancel`, the loop's locals, the job goroutines, semaphore and wait group | `Run`, `Stop`, cancellation of the parent context | pops through the driver, starts one goroutine per job |
| Job lifecycle (`worker.go`: `process`, `handleFailure`; `job.go`; `payload.go`) | the payload with its `attempts` | parse, run the pipeline, delete, release, record as failed | the driver and the failed-job store |
| Dispatcher (`dispatcher.go`) | none | `Dispatch`, `Later`, `DispatchWithOptions` | the driver |
| Lock middleware (`middleware/unique.go`) | one Redis key per lock | `SET NX`, run, `DEL` | Redis |
| Rate limiter (`middleware/rate_limit.go`) | one Redis counter per limiter | increment with expiry, run, decrement | Redis |
| Exception throttle (`middleware/throttle.go`) | one Redis counter per key | run, increment with expiry, delete | Redis |
| Timeout (`middleware/timeout.go`) | a goroutine per job | run with a deadline | the worker |
| Pipeline (`middleware/pipeline.go`) | a slice of middleware | `Use`, `Then` | every middleware, the handler |
| Manager (`manager.go`) | handlers, the slice of middleware, the event bus | `Register`, `Use`, `On`, `Worker` | hands all three to every worker |
| Batch repository (`pkg/batch`) | a row of `job_batches` | create, decrement, report a failure, cancel, prune, progress | a SQL database |
| Failed-job store (`pkg/failed`) | the `failed_jobs` table | log, find, all, forget, flush | a SQL database |
| Event bus (`pkg/events`) | listeners by event type | on, fire, clear | the worker |
| PHP codec (`pkg/phpserialize`), accessors (`job.go`) | none; the decoder's reference slots while it runs | decode, encode, typed getters | dispatcher, `ParseJob`, handlers |
| Configuration, `cmd/lqworker` | none after start | | |

What is hard here, and hard to test: workers in several processes share the
keys and see each other's half-finished `Pop`; a Redis call may fail before or
after it took effect, and the client may then send it again; a worker may die, or outlive the visibility timeout, with
a job in hand; `Stop` may come at any point of `Run`; keys with a TTL expire
under their users. The hazards are listed line by line in `PROJECT.json`.

What makes each part correct:

* driver: at-least-once delivery; no copies and one holder inside the
  visibility timeout; nothing delivered early; no lost wake-up;
* lifecycle: a job leaves the queue only when it was handled, could not be
  handled, or was recorded as failed; it gets all its tries;
* loop: `Stop` is never missed and lets at most one more job in; `Run` drains
  and returns; `MaxJobs` is respected up to the jobs in flight;
* lock: mutual exclusion while no holder outlives the TTL and no delete is
  sent twice, also behind a Timeout that leaves handlers running;
* limiter and throttle: the limit per window, no permanent lock-out, no back-off
  for old errors;
* event bus: a `Fire` calls exactly the listeners of its snapshot;
* manager: workers share what they should and nothing else;
* codec: what a handler reads is what was dispatched, or visibly nothing;
* batch: finished exactly when nothing is pending, seen by someone, failures
  counted, honest progress.

## 2. Modules

| Module | Models | Correspondence |
|---|---|---|
| `RedisQueue` | the keys of one queue and the Lua scripts | a sorted set is a function from members to scores; ties of equal score are left open; a script is one action |
| `RedisDriver` (extends `RedisQueue`) | `Pop` as the caller's goroutine executes it | `pc[c]` is the call goroutine `c` makes next, `stamp[c]` the clock it read for it, `raw[c]` the body of the `RawJob` it got, `until[c]` the score of the reservation it made; `lastMigratedAt` per driver instance; `unanswered` the pushes the client will send again |
| `DriverClients` (extends `RedisDriver`) | all users of one queue: producers, consumers that acknowledge or release, `Clear` | the histories `sent`, `settled`, `loose` say what was promised; a consumer at `"delete"` or `"release"` waits for its call to be sent again |
| `JobLifecycle` (extends `RedisDriver`) | `process` and `handleFailure`, the failed-job table with `Forget` and `Flush` | a payload is `[job, attempts]`; `Release` re-encodes the body (`Reencode`) and then runs the script; a handler returns, and may call `Delete` and `Release` of its job before it does |
| `WorkerLoop` | `Run`, `Stop`, the fetch loop, job goroutines | goroutines are counted by the place they are in; the queue is a number of jobs |
| `LeaseQueue` | what the `Driver` interface promises | accepted payloads are live until settled or purged, a lease is exclusive unless in doubt, and there are four ways into doubt; `DriverClients` implements it |
| `Pipeline` | `Pipeline.Then` | an execution is a position in the stack and a direction, inwards or outwards with an error; each worker has the goroutine of `Then` and the one Timeout may start |
| `TimeoutMiddleware`, `LockMiddleware`, `RateLimiter`, `ExceptionThrottle` (each extends `Pipeline`) | one middleware each, for one key | the steps before and after `next()`, each Redis call a step; a lock key is the time it expires |
| `ExpiringCounter` | `luaRateLimit`, `luaThrottle`, `DECR`, `DEL`, expiry | a value and an expiry time per key |
| `MiddlewareStack` | the composition of the five | any stack of `Stacks`, chosen at the start |
| `GoSlices` | Go slices and `append` | a heap of arrays; a slice is a reference and a length |
| `EventBus` | `Bus` | a step per critical section and per listener called |
| `ListenerTable` | what the bus promises | sequences of listeners per event type, and what each call of `Fire` has still to call; `EventBus` implements it |
| `Manager` (extends `EventBus`) | `Manager`, `newWorker`, `Use`, `Register` | slices over the heap; maps as references |
| `ScalarCodec` | the values of one token: encoder, readers, JSON, the number and string getters | no recursion, so that it can be proved about |
| `PhpSerialize` (extends it) | encoder and decoder of the values that hold others | a text is a sequence of tokens; lengths are part of a token and are compared on reading |
| `JobCodec` | the dispatcher's commands and chains, `ParseJob`, JSON around both, PHP's own `serialize` | three steps: dispatched, queued, parsed |
| `JobAccessors` | getters, model identifiers, chained jobs | operators over the parsed job |
| `BatchRepository` | one batch row | one action per SQL statement |
| `MCDriver`, `MCLifecycle`, `MCMiddleware`, `MCManager`, `MCCodec` | instances for TLC | |
| `RedisProofs` (extends `RedisDriver`) | lemmas about the scripts and the steps of `Pop` | for any set of payloads and any places a consumer can be, so that both users of the driver share them |
| `DriverProofs` | theorems about `DriverClients` | extends `RedisProofs` |
| `LifecycleProofs` | theorems about `JobLifecycle` | extends `RedisProofs` |
| `WorkerLoopProofs`, `MiddlewareProofs`, `ManagerProofs`, `BatchProofs`, `CodecProofs` | theorems about `WorkerLoop`, `MiddlewareStack`, `Manager` with `EventBus`, `BatchRepository`, `ScalarCodec` | |

Every failed call is modelled both ways, as not executed and as executed with
its reply lost, where the difference shows in the state. go-redis sends a
command whose reply was lost again, with the same arguments, so after a lost
reply the caller sees an error or the command is executed once more, and other
processes may act in between: a push or `luaLater` (`unanswered`, `SendAgain`,
`DispatchAgain`), the steps of `Pop` (`Reply`), `luaDelete` and `luaRelease`
(`Waits` in `DriverClients`, the stuttering branches of `DeleteRaw` and
`Release` in `JobLifecycle`), `SET NX`, `DEL`, `DECR` and the counting scripts
(`SetNX`, `DelResent`, `Attempt`, `DecrResent`, `FailedResent`, `DelCounter`).
`MaxFaults` bounds lost replies, failed calls and crashes together. A crash
takes all goroutines of a process and its driver instance. Times are whole
seconds, which is what the driver passes to Redis (`Unix()`); the one-second
throttle compares finer instants, so at a distance of one second both outcomes
are allowed. There is one clock: the processes, each of which reads its own
`time.Now()`, are taken to agree on the second.

`until[c]` is the score `popFromQueue` passed to `luaPop`. The code computes
`RawJob.ReservedUntil` from a second clock reading after the reply; nothing in
the repository reads that field, and it is not modelled.

**Composition.** `DriverClients` and `JobLifecycle` build on the same
`RedisDriver`. `MiddlewareStack` nests the middleware as a worker's pipeline
does: Timeout outside a lock leaves a goroutine that still holds it, Timeout
inside gives it back too early, a throttle below the limiter turns errors into
releases that are not refunded.

**Refinement.** `DriverClients` has `Lease == INSTANCE LeaseQueue WITH ...` and
the property `IsLeaseQueue == Lease!Spec`. The mapping forgets the keys: `live` is
what is stored in any of them, `hand` what a consumer got from `Pop`,
`unconfirmed` the payloads whose push will be sent again, `unsure` the payloads
whose reservation ran out in somebody's hand, that were cleared while held, or
of which a push or a release was executed twice. `LeaseQueue` has an action for
each of these (`RunOut`, `Purge`, `AcceptAgain`, `Persist`), beside a `Take`
that comes too late, and no other makes a payload unsure. Migrations, wake-up
tokens and blocking are stuttering steps; a `Pop` is one `Take`; a crash is
`Lose`.

`EventBus` has `Table == INSTANCE ListenerTable WITH ...` in the same way. There
the mapping forgets the arrays: `table` is the contents of the slices, `todo`
the rest of the slice that a call of `Fire` goes through. This refinement is
proved and not part of a run, since a listener of the table may be any number.

Operators introduced by the comment "Mutant" are variants of the definition
after them with one plausible mistake each. They are used by no specification;
replacing the definition by the variant must make TLC find a violation, which
shows that the property can fail.

## 3. Runs

| Run | Checks | Shows |
|---|---|---|
| `driver_mixed` | `TypeOK`, `NoBodyLost`, `OneCopy`, `Exclusive`, `NoLostWakeup`, `NoEarlyDelivery`, `IsLeaseQueue` | two processes, one blocking in `BLPop` and one polling, batch size 1, one fault: a call that fails, is lost or is sent twice, or a crash |
| `driver_live` | `ReadyIsServed` | every ready payload is served, also after a lost token |
| `lifecycle_jobs` | `TypeOK`, `NoJobLost`, `NoSilentDrop`, `ExhaustedBeforeFailed`, `AttemptsAreErrors`, `FirstSuccessIsFinal` | two goroutines of one process that share the throttle, and one job: with limited tries, with a deadline, not JSON, or without handler; it may be released by middleware, deleted and released by its handler, and its failure record removed; one fault |
| `loop_stop` | `StopIsSeen`, `AtMostOneLateJob`, `MaxJobsBound`, `Drained`, `ClaimsBounded`, `StopEnds`, `CancelEnds` | concurrency 3, `MaxJobs = 2`, two runs, `Stop` and cancellation at any point |
| `middleware_stacks` | `TypeOK`, `KeyIsHeld`, `ExclusiveUnlessDisowned`, `NeverStuck`, `WindowBound`, `BacksOffOnRecentFailures` | two workers, four goroutines, five stacks, one fault |
| `codec_jobs` | `ArgumentsArrive`, `AccessorsReadBack`, `ChainInOrder`, `LaravelJobsArrive`, `ModelsReadBack` | some 1700 jobs in both formats: scalars of every kind and at the limits of their type, lists, maps, nested objects, chains, model identifiers, non-public properties |
| `manager_shared` | `FireCallsSnapshot`, `HandlersAreOwn`, `ManagerOnly` | a manager, two workers, a goroutine that fires while listeners come and go |
| `batch_standard` | `TypeOK`, `FinishedWhenZero`, `FinishIsSeen`, `FailuresCounted`, `ProgressHonest` | four jobs, one failed statement |

Four more runs show where the code and what is said of it disagree
(section 5).

**Bounds.** Two consumers are the smallest number that interleaves, and a
reservation only ever involves its holder and one competitor. Two payloads make order and the batch limit visible (with
`BatchSize = 1` a due payload is left behind). The clock (`MaxNow`) reaches the
second in which a reservation made at 1 runs out, with `RetryAfter = 1`, so
holders overrun and payloads are popped, migrated and popped again. `MaxFaults`
is 1 in every passing run that has it: every single failed, lost or repeated call and
every crash, at every point; the theorems are about any number. Jobs do not
interact in the lifecycle, so one is dispatched (`MaxSent`), of every kind in
turn; `MaxErrors = 2` lets the job with one try be retried, fail again and be
recorded. `WorkerLoop` has more jobs (`Supply`) than `MaxJobs + Concurrency`,
so its bound is not met for lack of jobs, and `MaxRuns = 2`, so a `Stop` in one
run is seen by the next; the serial worker is covered by the theorems. In
`middleware_stacks` two workers make four goroutines, since each may leave one
behind; the timeout (`Limit = 1`) is shorter than the TTL and the decay (2), so
both a goroutine left behind inside its TTL and one that overran occur before
`MaxNow = 3`; `MaxAttempts = 1` and `MaxExceptions = 2` are the smallest limits
that two goroutines reach. A worker starts a job only when the goroutine that
Timeout left behind in an earlier one is done, a bound on goroutines and not a
guard of the code; with the other worker there is still a handler left behind
beside a new one. In `manager_shared`, `MaxUse = 4` fills an array
of two, leaves room in one of four and writes there; in `manager_use` it takes
five. In the codec `MaxInt = 3` and `MaxExact = 2` stand for 2^63 - 1 and 2^53:
there is an integer beyond what a float64 holds, and an unsigned one beyond
int64. Values are nested to depth two, and to depth three inside a list; the code treats every depth alike.
Symmetry is used for payloads, workers, the goroutines of one process and event
types, only in runs without liveness.

**Fairness.** `driver_live` assumes that a consumer that can take a step of
`Pop` does (BLPop times out after `BlockFor`, the Go scheduler runs it, the
worker loop calls `Pop` again) and that a handler returns. Nothing is assumed
of producers, the clock, faults or `Clear`. `loop_stop` assumes that the loop's
goroutine and the job goroutines are scheduled and that handlers return.

**Deadlock** is checked in every run. `BatchRepository` has an action `Done`
that stutters once every goroutine has finished, since the system may stop
there, and `JobCodec` one (`Idle`) once the job is parsed or refused.

## 4. Proofs

| Module | Theorems | State |
|---|---|---|
| `DriverProofs` | `DriverTypeOK`, `AtLeastOnce` | `TypeOK`, `NoBodyLost` of `DriverClients` |
| | `LeasesAreExclusive`, `NoCopies`, `WakeupsAreNotLost` | `Exclusive`, `OneCopy`, `NoLostWakeup` |
| | `NothingEarly` | the action property `NoEarlyDelivery` |
| | `UnreadTokensPileUp` | with `BlockFor` = 0 the notify list only grows, until `Clear` |
| | `DriverIsLeaseQueue` | the refinement, `Spec => IsLeaseQueue` |
| `LifecycleProofs` | `LifecycleTypeOK`, `JobsAreNotLost`, `DropsAreAccounted`, `FailedMeansExhausted`, `AttemptsAreEarned`, `FirstSuccessEnds` | `TypeOK`, `NoJobLost`, `NoSilentDrop`, `ExhaustedBeforeFailed`, `AttemptsAreErrors`, `FirstSuccessIsFinal` of `JobLifecycle` |
| | `TriesAreKept`, `CopiesAreBounded` | how often a job is re-encoded, and how many payloads of it there are |
| | `SingleBackoffHolds`, `BackoffIsNotLonger` | `ProgressiveBackoff` for a single delay; an upper bound for growing delays |
| `WorkerLoopProofs` | `InvHolds` | `Spec => []Inv` of `WorkerLoop` |
| | `StopNeverMissed`, `OneLateJob`, `OvershootBounded`, `RunDrains`, `ClaimsStayBounded` | `StopIsSeen`, `AtMostOneLateJob`, `MaxJobsBound`, `Drained`, `ClaimsBounded` |
| | `RunWindsDown`, `RunIsNeverStuck` | the safety half of `StopEnds` and `CancelEnds` |
| `MiddlewareProofs` | `MiddlewareTypeOK`, `LockIsHeld`, `LockExcludes`, `CountersExpire`, `LimiterBounds` | `TypeOK`, `KeyIsHeld`, `ExclusiveUnlessDisowned`, `NeverStuck`, `WindowBound` of `MiddlewareStack` |
| | `BackOffIsEarned` | the action property `BacksOffOnRecentFailures` |
| `ManagerProofs` | `FireIsASnapshot`, `HandlersStayApart`, `ManagerUseIsSafe` | `FireCallsSnapshot`, `HandlersAreOwn`, `ManagerOnly` of `Manager` |
| | `BusIsListenerTable` | the refinement, `Spec => IsListenerTable` |
| | `SlotsAreNeverEmpty` | what a pipeline holds when `PipelineIsOwn` fails |
| `BatchProofs` | `BatchTypeOK`, `BatchFailuresCounted`, `BatchFinishedWhenZero`, `BatchFinishIsSeen`, `BatchProgressHonest` | `TypeOK`, `FailuresCounted`, `FinishedWhenZero`, `FinishIsSeen`, `ProgressHonest` of `BatchRepository` |
| | `BatchFinishedMeansAll`, `BatchFinishedOneEarly` | when a batch is finished, on either kind of database |
| `CodecProofs` | `ScalarsArrive` | what the decoder returns for a scalar the encoder wrote, through the JSON of the payload |
| | `IntegersReadBack` | that `GetInt` and `GetFloat` do not depend on the command's format |

They hold for every value of the constants, the bounds of the runs included,
under the named assumptions of the modules: `DriverAssumption` and
`ClientsAssumption` (positive `RetryAfter` and `BatchSize`, natural delays, a
finite set of payloads, `NoBody` is none of them), `LifecycleAssumption`
(options that are numbers or unset, natural delays, `NoBody` is no payload),
`LoopAssumption` (positive `Concurrency`), `PipelineAssumption` (a finite set
of workers, stacks that hold a middleware once), `TimeoutAssumption`,
`LockAssumption`, `CounterAssumption`, `LimiterAssumption` and
`ThrottleAssumption` (positive limits and times, in whole seconds),
`BusAssumption` and `ManagerAssumption` (the manager is not one of its
workers), `BatchAssumption` (a finite set of jobs), `ScalarAssumption` (`MaxInt`
and `MaxExact` are natural numbers). Some theorems have hypotheses of their
own. `WakeupsAreNotLost` is about finitely many consumers, since it counts them. `BatchFinishedWhenZero` and
`BatchFinishedMeansAll` are about databases that evaluate `SET` against the old
row, `BatchFinishedOneEarly` about the others, which is MySQL (section 5); the
first two and `BatchProgressHonest` are about batches with a job, because a
batch created without any has nothing pending and is never marked finished.
`UnreadTokensPileUp` is about deployments in which no driver blocks.
`TriesAreKept` is about deployments in which neither a middleware nor a handler
releases jobs: a `ReleaseError` costs an attempt and `HasFailed` is not asked, so with one the
attempts do go beyond `MaxTries`. `SingleBackoffHolds` is about backoffs of one
number and `BackoffIsNotLonger` about lists of growing delays. `IntegersReadBack`
is about the integers up to 2^53 in size, beyond which JSON rounds.

*Scripts.* `RedisProofs` goes from data to actions: the elements of `Append`,
`\o` and `Tail`; that `LuaMigrate` moves exactly the members it removes, that
they were due, and that it copies none; what every script does to `Stored`, to
a payload without copies (`Single`) and to one with a holder (`Leased`); then
what each step of `Pop` does, with its failed calls and lost replies.

*At-least-once.* `NoBodyLost` says that what was sent and not settled is in the
store. The inductive invariant `DriverInv` adds the types, `Punctual` (no
consumer has read a clock that is ahead) and `OnlySentBodies`: a payload
that is popped or migrated is one that was sent, and a consumer past `Pop` has
one, so what `Delete` settles is what it removes.

*Leases.* `LeaseInv` says of every payload that is not in doubt: it has one
copy, it is reserved with the score its holder's `Pop` gave it while it is held,
it has one holder, and it is in no key once it is settled; and a holder whose
time ran out, or whose release is to be sent again, is in doubt. `Exclusive` and `OneCopy` are about different parts of
this and neither is inductive without the other: a second copy would be popped
by a second consumer, and a holder without its reservation would leave a copy
behind when it is done. `NoEarlyDelivery` then follows from what the steps of
`Pop` add to the list of ready payloads, given `Punctual`.

*Wake-ups.* `NoLostWakeup` is inductive with the types: a push adds a payload
and a token, a migration as many of each, `BLPop` turns a token into a consumer
that is about to pop, and a pop takes a payload and such a consumer. A fault
can take at most every consumer with it, which is what the property allows.
Without a blocking driver no consumer reaches `BLPop` (`BlockedBlock`), which is
the only reader of the list (`UnreadTokensPileUp`).

*Refinement.* `DriverIsLeaseQueue` maps steps to steps by groups: producers
(`ProducerRefines`), `Pop` (`PopRefines`: everything before the pop is a
stutter, the pop is a `Take`), `Delete` and `Release` (`SettleRefines`), and
`Clear`, the clock and crashes (`OtherRefines`). `LeaseInv` is what shows that
a taken payload is in no other hand; `HeldIsInTime` is that nothing comes into
doubt by a step that changes neither the clock nor who holds what.

*Lifecycle.* `LifeInv` has five parts. `Basic`: types, and every payload in
the queue, in a hand or in the table belongs to a dispatched job. `NoJobLost`.
`Counted`: a payload's attempts are at most the job's errors, to which the
releases its handler calls are added, fewer while a worker handles an error of it, and a worker on its way to the failed-job table
has found the job exhausted (`Stage`), which stays true as errors and the clock
only grow. `NoSilentDrop`. `Fresh`: a job without errors that no holder was
late with and whose push was not sent twice is one payload, in one place, gone
once it is settled; this is what `FirstSuccessIsFinal` needs, and it ends with the first error because `Release`
then leaves the old payload behind (section 5).

What that costs is bounded. `TriesInv` says that a payload, stored or in a hand,
is within `MaxTries`, and strictly below it in the hand of a worker that is
going to release it; second deliveries of an old payload only repeat numbers
that were reached before. The payloads of a job differ in their attempts, which
`Counted` bounds by the errors, so there are at most one more of them
(`CopiesAreBounded`). And the index into the backoff list is behind the one that
is due, never ahead (`DelayOfRetry`).

*Worker loop.* `Inv` adds to the four properties: a stop request is remembered
between Run's critical section and its cancel (`StopIsRemembered`); after a
late job the loop cannot reach `Pop` again (`LateLoop`); every popped job is
counted, in a goroutine or waiting for a slot (`JobsAccounted`); how many
goroutines each place holds (`Slots`); and what the stale copy of the counter
still says (`CountIsRecent`).

`RunWindsDown` is the measure behind the liveness properties: `StepsLeft` counts
what the loop can do before it is out when the fetch context is done, and three
steps per goroutine. Every step of a stopping `Run` lowers it, a `Stop` or a
cancellation leaves it, and `RunIsNeverStuck` shows that a step is always there
to take. What the prover cannot do is conclude from both, with fairness, that
`Run` returns; that conclusion is `StopEnds` and `CancelEnds` in the run
`loop_stop`.

*Middleware.* `MiddlewareInv` adds to the types five parts. `Control`: a
goroutine never returns past the place it was started at, the top of the stack
or the place below a Timeout, so a handler below the lock is inside it unless
Timeout is between. `KeyIsHeld`, from which `ExclusiveUnlessDisowned` then
follows. `TtlInv`: a key without TTL has a count of zero or less (`DECR` may
create one, but the increment that makes it positive sets the expiry), and a TTL
is pending. `LimiterInv`: what the window let through, plus the goroutines that
were turned away and have not yet decremented, is at most the counter plus the
stray decrements of the window, so an increment that returns at most the limit keeps
`WindowBound`; the count of those goroutines is why the set of workers is
assumed finite. `ThrottleInv`: as many of the last errors as the throttle's
counter says, less the counts of scripts that were sent twice (`recounted`), were
counted since its TTL was started, which with `TtlInv` is within the last decay;
deletes and the expiry only make the counter say less. A `DEL` that is sent again
ends what `KeyIsHeld` says, since the key names no owner; a `SET NX` that is sent
again does not, because it finds its own key.

*Event bus and manager.* `BusInv`: every slice lies in its array, and a call of
`Fire` that is not done has called the first listeners of the snapshot its
slice still holds; `On` copies, so it adds an array and changes none
(`AllocateAdds`). `HandlersInv`: no two owners refer to one map.
`MiddlewareInv` of `ManagerProofs`: as long as every worker has a prefix of the
manager's middleware, its slice is no longer than the manager's, and `append`
writes behind it (`AppendToAdds`); once a worker is given a middleware of its
own the premise of `ManagerOnly` is false for good, because no other owner ever
gets that one. After that, `SlotsInv` still holds: a write through a shared array
puts a middleware at the place its owner got it, so every place of every pipeline
holds one that some owner was given there (`AppendToFills`).

`BusIsListenerTable` maps `On`, `Clear`, `ClearAll`, `Fire` and each call of a
listener to one step of the table each, and the return of `Fire` to none; what
it needs of `BusInv` is that slices lie in their arrays.

*Batch.* `BatchInv`: `pending_jobs` is the number of jobs less the counted
ones, a counted job is past its `UPDATE` and a reported one has ended, and no
goroutine has read an id that was not reported. `FinishedWhenZero` then needs
that a decrement from one is the last, and `FinishedOneEarly`, the same for
MySQL, that a decrement to one happens once; `ProgressHonest` is arithmetic about the
rounded-down quotient.

*Codec.* Of the five properties of `codec_jobs` the part that does not recurse is
proved: for one scalar, any width of integer, any string and any place in a text.
The reader takes exactly the token the encoder wrote and one reference slot, so
what stands behind it is not shifted; it refuses an unsigned integer beyond
int64 and a string in which JSON replaced a byte, whose length no longer fits.

Only model-checked:

* all liveness (`ReadyIsServed`, `StopEnds`, `CancelEnds`): fairness is out of
  the prover's reach, though not the measure that the last two rest on
  (`RunWindsDown`);
* the codec's five properties (`ArgumentsArrive`, `AccessorsReadBack`,
  `ChainInOrder`, `LaravelJobsArrive`, `ModelsReadBack`), which are about whole
  jobs: the operators for values that hold others are recursive, and the provers
  neither take recursive operators nor find inductions over data. `CodecProofs`
  has the scalars.

Every other property of a passing run is a theorem.

## 5. Where the code and its documentation disagree

| Run | What happens |
|---|---|
| `lifecycle_release` | `Job.Release` re-encodes the payload first, so the script removes nothing from `reserved`: the job is there twice and runs once more when the old reservation expires |
| `lifecycle_backoff` | the first delay of a progressive backoff is used twice |
| `batch_mysql` | on MySQL a batch is marked finished with one job pending |
| `manager_use` | middleware given to one worker replaces the middleware given to another, since their slices share an array |

How far each of these goes is proved, for every value of the constants. The
copies of a released job are at most one per error or release by its handler
(`CopiesAreBounded`), and without releasing middleware or handlers none of them goes beyond `MaxTries`
(`TriesAreKept`). A backoff of one number is not affected (`SingleBackoffHolds`),
and growing delays only get shorter (`BackoffIsNotLonger`). On MySQL a batch is
finished exactly from one pending job on, and a batch of one job is never
finished (`BatchFinishedOneEarly`). A pipeline never loses a place, only the
middleware in it is another's (`SlotsAreNeverEmpty`), and nothing is replaced as
long as only the manager is given middleware (`ManagerUseIsSafe`).

Three properties are stated in the weaker form the code has:

* `MaxJobsBound`: a job is counted when it ends, so a concurrent worker takes up
  to `MaxJobs + Concurrency` jobs, where the README says "stop after N jobs".
* `WindowBound`: the README says that `RateLimited` "throttles processing to N
  jobs per decay window". A decrement that takes back nothing the window counted
  lets one more job in: a refund that arrives after its window ended, which
  takes no fault, or a `DECR` that is executed twice. The history `strayed` counts
  them, per window; with `used <= MaxAttempts` in place of the property TLC finds
  a run that breaks it.
* `BacksOffOnRecentFailures`: the comment of `ThrottlesExceptions` says "too many
  consecutive exceptions". The property says that they lie within a decay, not
  that they are consecutive: a success never resets the counter, and releases by
  inner middleware count as errors. A `luaThrottle` that is executed twice counts
  one error twice, so a back-off may come one error early (`recounted`).

`MaxTries` is the number of retries, not of runs, which is what
`ExhaustedBeforeFailed` says.

Some properties have a premise for the same reason:

* `Exclusive`, `OneCopy` and `IsLeaseQueue` leave out payloads in doubt, and
  `FirstSuccessIsFinal` jobs in doubt. A push that is sent twice puts the payload
  into the list twice; a `luaRelease` that is sent twice may find the payload
  with its next holder, whose reservation it removes and beside whom it delays a
  copy. `FirstSuccessIsFinal` also leaves out jobs that their handler released:
  the worker deletes the re-encoded body after a nil, which is not the reserved
  one, so both the delayed and the reserved copy run again.
* `KeyIsHeld` and `ExclusiveUnlessDisowned` end with the first job that outlived
  the TTL and the first `DEL` that is sent twice: `DEL` does not look at who set
  the key, so a late delete frees the key of the next job. The second also
  excludes stacks with Timeout inside the lock, where the handler that timed out
  runs on while the lock is given back. For the same reason `Run` may return
  while a handler that timed out still runs (`Drained` is about the job
  goroutines). A `SET NX` that is sent twice is turned away by its own key: under
  `Unique` that job returns nil and is deleted without having run, which no
  property forbids, since `Unique` skips jobs silently.
* `AccessorsReadBack` leaves out enums and integers beyond 2^53 in JSON
  commands, where the getters do not "work identically regardless of command
  format".
* `LaravelJobsArrive` is checked for jobs in which no object occurs twice. PHP
  writes the second occurrence as `r:n`, counting values; the decoder counts
  keys too and resolves it to another value. `JobCodec` models both counts, and
  TLC finds the wrong value for the smallest job of that kind
  (`SharedOrders` in `MCCodec`).

Reading the code also shows that `WorkerStopping` is fired only when the
cancellation is noticed at the head of `fetchJob`, not in `Pop`, in the sleep,
or at a limit.

## 6. Not modelled

* The text of PHP and JSON: tokens and values are modelled, not characters, so
  of malformed texts only a wrong length is covered.
* Which events are fired when, logging, key names, configuration and
  `cmd/lqworker`, which read the environment once and keep no state.
* Manager setters that replace a single value.
* A decay below one second, which the limiter passes to `EXPIRE` as 0.
* Several queues: they share no keys and a worker reads one.
* Clocks that differ between processes. `Release`, `Later` and the reservations
  use the time of the calling process and the migrations that of another, so a
  skew shortens or lengthens every delay and visibility timeout by itself.
* A command that reaches Redis after the client has given it up: what is
  executed is executed before the caller goes on.
* A job of a batch that is reported twice. The queue delivers at least once, and
  `DecrementPendingJobs` and `IncrementFailedJobs` would count a second delivery
  again; nothing in the repository calls them, so reporting a job once is an
  assumption about the application (`JobEnds`). With a second report the batch
  would be finished a job early and `pending_jobs` go below zero.
* Two concurrent calls of `Run` on one `Worker`.
* Laravel's own workers on the same keys: they use the same scripts, so they
  are further consumers, except that their `attempts` handling differs.
* `Size`, `Close`, `IsCancelled` and the read operations of the failed-job
  store change no state.

## 7. Plan

1. Done: the driver with its refinement to `LeaseQueue`, the lifecycle with the
   failed-job store, the worker loop, the middleware and its composition, the
   event bus and the manager, the batch, the codec; the proofs above.
2. Further compositions: `WorkerLoop` over `RedisDriver`, where a popped job
   waits for a slot while its reservation runs out (`ClaimsBounded` bounds how
   many do); `MiddlewareStack` inside `JobLifecycle`, where a release by
   middleware costs an attempt.
3. Theorems: every safety property of the passing runs but the codec's, of which
   the scalars are, is proved, and so is what remains of the four properties that fail. What is left
   is a proof for the compositions of item 2, and the lemmas of `RedisProofs`
   restated for a module of their own if a further user of the driver is
   modelled.
