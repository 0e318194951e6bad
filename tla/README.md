# Verification of the delayed-order SMS pipeline

This directory holds TLA+ models of the delayed-order pipeline, the TLC
configurations that check them and the TLAPS proofs about them. Paths below are
relative to the repository root.

- [1. The system](#1-the-system): inventory of the parts
- [2. Modules](#2-modules): what models what, and how
- [3. Runs](#3-runs): what TLC checks, with which bounds
- [4. Proofs](#4-proofs): what TLAPS proves
- [5. Where code and documents differ](#5-where-code-and-documents-differ)
- [6. Not modelled](#6-not-modelled)
- [7. Plan](#7-plan)

## 1. The system

Order snapshots arrive on a Kafka topic. A Flink job keeps one state per order
and sends an SMS command when an order is still under way at its expected
delivery time (ETA). A simulator produces the snapshots, and an end-to-end
script drives both and counts the commands.

```
simulator --Orders--> source -> parse -> keyBy(orderId) -> detector --> sms-commands
(thread pool,         (position)  |                        (state, TTL,
 producer buffer)                 +--> dead-letter-events <-- timers)
                      checkpoints: position + state + timers, not the sinks' buffers
```

| Part | State | Operations | Hard because |
| --- | --- | --- | --- |
| Keyed delay detector (`processor/DelayedOrderProcessFunction.java`, `model/`) | per order: status, ETA, `lastUpdatedAt`, `delaySmsEmitted`, `registeredTimerTime`, expiry; processing-time timers | `processElement`, `onTimer` | timer and state must agree through every reschedule; state expires, timers do not; snapshots out of order or repeated; ETA equal to now |
| Streaming job (`DelayedOrderSmsJob.java`, sink schemas) | source position, checkpoint, sink buffers, restart count | read, parse, checkpoint, fail, restart, cancel, submit | failure between any two steps; sinks without delivery guarantee; restart budget; a new submission starts at the end of the topic |
| Parsing and dead letters (`serde/`) | none | parse or dead letter | the `try` encloses the downstream collector |
| Job configuration (`config/JobConfig.java`) | none | environment over argument over default | the opposite precedence to the simulator's |
| Order simulator (`simulator/src/order_simulator`, entry `run_scenario.py`) | configuration, pool of workers, published payloads per order, producer buffer | read configuration, load files, assign scenarios, play scripts, pause, publish, flush | concurrent workers; an exception in one of them; a full producer queue; exit while work is pending; a file found missing half-way |
| Time expressions, templates (`time_utils.py`, `template_renderer.py`) | none | resolve expressions, offsets, placeholders | which malformed expression is copied, which warned about, which raises in a worker |
| End-to-end runner (`e2e-tests/run_e2e.py`) | containers, cumulative SMS count, results | start, poll, build, submit, run scenario, count, judge, report, tear down | it sees only exit codes and counts; SMS come late, twice or not at all; leftovers of an earlier run; a job that still starts |
| Deployment, schemas, documents, tests | - | - | - |

What makes each part correct:

- *Detector*: an order that waits always has a timer for exactly its ETA; no
  SMS before the ETA; one SMS per order while its state lives, and a
  time-to-live between two SMS of an order otherwise; no timer without an
  owner; a waiting order is settled in the end. In one sentence: it implements
  the timer-free `DelayAlert`.
- *Job*: after any number of failures, the state is what the records read so
  far say, each taken once; restored orders are armed; duplicates are bounded
  by the number of incarnations; an alert that a completed checkpoint records is
  never repeated; a waiting order is settled unless the job is stopped.
- *Simulator*: every order gets its scenario in proportion; "completed" means
  that every event was delivered or reported; failures are not hidden;
  duplicates repeat the step they name; the ETAs of an order move as its script
  moves them and not with the publication; no event runs ahead of its delays;
  nothing is published of a mix that cannot be played whole, or of a dry run;
  the run ends.
- *End-to-end runner*: no SMS is counted twice, passes are earned by late orders
  played so far, a late order whose scenario passed has its SMS, and the runner
  ends.

## 2. Modules

| Module | Models |
| --- | --- |
| `DelayAlert` | the promise of the detector, abstractly: hear a snapshot, raise an alert, forget after `Retention` |
| `DelayedOrderProcessFunction` | the detector |
| `DelayedOrderProcessFunctionProofs` | theorems about the detector |
| `DelayAlertProofs` | the theorem that the detector implements `DelayAlert` (EXTENDS the former) |
| `DelayedOrderSmsJob` | the job around the detector (EXTENDS it) |
| `DelayedOrderSmsJobProofs` | theorems about the job (EXTENDS the detector's as well) |
| `ScenarioAssignment` | the pure largest-remainder assignment |
| `TimeExpressions` | time expressions, offsets, placeholders and the payloads built from them |
| `SimulatorSetup` | configuration and scenario files of a simulator run (EXTENDS the two above) |
| `OrderSimulator` | the simulator (EXTENDS the setup) |
| `FiniteSums` | lemmas about sums over finite sets, with the induction they need |
| `ScenarioAssignmentProofs` | the theorem about the assignment (EXTENDS `FiniteSums`) |
| `OrderSimulatorProofs` | theorems about the simulator (EXTENDS the former) |
| `EndToEndRun` | the end-to-end runner, with simulator, job and topics as its environment (EXTENDS the assignment) |
| `EndToEndRunProofs` | theorems about the runner (EXTENDS `FiniteSums`) |
| `MCDelayedOrderProcessFunction`, `MCDelayedOrderSmsJob`, `MCOrderSimulator`, `MCEndToEndRun` | constants for TLC |

Definitions called `Faulty...` are not part of any specification. Each stands
before a definition and is that definition with a slip a programmer could make;
substituting it makes one of the properties fail, which shows that the property
is sensitive to the code.

### Detector

`orderState[o]` is the value state of key `o` with the timestamp the state
backend stores for expiry (`lastAccess`); `Live(o)` is
`orderState.value() != null` under `NeverReturnExpired`. `timers[o]` is a set
because Flink deduplicates timers by key and time. `processElement` is one
action for each way through the method (`RejectInvalid`, `IgnoreStale`,
`ApplyTerminal`, `ApplyAfterSms`, `EmitOverdue`, `Schedule`), `onTimer` is
`TimerAlerts` or `TimerIsIdle`. The final `orderState.update` of every path is
in the action. `Tick` is the system clock.

Abstractions: metric counters are left out; `storeId` goes wherever
`customerId` goes; times are natural numbers; the clock does not run backwards
and is read once per callback (the code reads it for the comparison and again
for `createdAt`, both within one callback). A due timer fires earliest first,
and any number of elements may be processed before it does, which includes
everything the mailbox of the Flink task can do.

### Job

`DelayedOrderSmsJob` reuses the detector's actions. `commands` and
`deadLetters` become the buffers of the sinks' producers, emptied by
`DeliverSms` and `DeliverDeadLetter`. `Consume` reads, parses and processes one
record: a record in flight between source and operator is dropped by a failure
and separated by the checkpoint barrier exactly as an unread one. A checkpoint
is triggered and completed in two steps with anything in between; it holds
position, state and timers. The sinks are built without
`setDeliveryGuarantee`, whose default is NONE: no checkpoint flushes them.
`Fail` is the loss of the process (memory and buffers); a softer failure, in
which the producers are closed first, is `DeliverSms` steps followed by `Fail`.
The restart budget of `fixedDelayRestart` counts for the life of a submission.
A restart without a checkpoint resumes from the offset found when the job was
submitted; a new submission (`Resubmit`) starts empty at the end of the topic.
A document without an `orderId` makes `keyBy` raise inside `out.collect`, which
the deserializer catches: `IsParseError`.

Abstractions: one partition and parallelism 1 (orders are independent keys, and
one key never spans two partitions); JSON is well-formed or not; tombstones are
left out, as no producer in the repository writes them.

### Simulator

`environment`, `arguments` and `config` are what `main` starts from:
`ReadConfiguration` is `from_env().override(...)`, `RejectConfiguration` a
number that cannot be read, `MissScenario` a file that cannot be loaded (all
files of a mix are loaded before anything else happens). `mainPhase` is the
position of `SimulatorRunner.run`, `phase[o]` that of `_run_single_order` for an
order: `QUEUED`, `SLEEPING` (delay before an event), `PAUSED`, `READY` (about to
publish), `DONE`, `FAILED`. The pool starts orders in the order of submission,
at most `max(1, max_workers)` at a time. An exception of a task surfaces in
`future.result()`; leaving the `with` block waits for all tasks, queued ones too
(`SeeFailure`, `Abort`). The producer is shared: `produce()` raises when its
queue is full, delivery and its failure happen in the background, `flush` waits
for both; a dry run has none.

`Payload(o)` is the value `_build_event_value` returns, or that of the step an
event duplicates, and `Null` where the code raises. A string of a template is a
time expression cut into the groups of the regular expression, the placeholder
`{{orderId}}`, or another text (`TimeExpressions`); `parse_dynamic_time` and
`parse_offset` differ in what they accept, `CannotBuild` is what neither catches
(an offset that is no string, a time outside the range of a datetime).

`CreatedAt` gives each order the reading of the clock its context was created
with (`BaseTime`): any numbers, because the code reads the wall clock for each
order anew. `EtaDoesNotDrift` therefore compares events of one order.
`EVENT_DELAY_MULTIPLIER` is a `float`: a double is the rational number
`num / den` it stands for, and `AdjustedDelay` cuts the product off as `int()`
does, so each event may come up to a millisecond early. `float()` also reads
`inf` and `nan`, which have `den = 0`: `int()` raises on them at the first event,
in the worker (`CanStart`, `FailToStart`).

Abstractions: a payload has only string fields and is flat; customer, store,
bootstrap servers, topic, order id prefix and random seed are left out; topic
and buffer are sets, because the client may reorder when it retries with several
requests in flight; the clock moves only while some worker sleeps and
starts when all orders have been created; it counts in units of its own, payload
times in milliseconds (they meet nowhere); the product of delay and multiplier
is exact (the code's is rounded to a double, which may reach the next whole
number and then makes the delay a millisecond longer), and no delay is too long
for `time.sleep` or a double; rankings with equal fractions are all
possible, because the code compares floating-point remainders. Random assignment
(no weights) is any assignment.

### End-to-end runner

`phase` is the position of `main`; each action is a step of it that ends with a
subprocess: `TearDownPrevious`, `ComposeUp`, `PollHealthy` / `PollAgain` /
`PollTimesOut` (the loop of `poll_healthy`, `polls` is what its deadline
leaves; a line of `docker compose ps` that cannot be decoded is skipped), `BuildJar`, `CopyJar` (also into a container that has exited),
`SubmitJob`, for each scenario `RunScenario` or
`RunScenarioFails` and then `CountSms` (`consume_sms_count`, the difference to
`previousTotal`, `validate_sms_count`), and `Report` with the last tear-down.
Every early return is an action of its own.

Simulator, job and topics are the runner's environment, reduced to what it can
see. `RunScenario` plays the orders of a scenario; some of their last snapshots
may be lost, since the simulator exits with 0 all the same (`OrderSimulator`,
`Acknowledge`). The job (`Publish`) sees all of it, or, while it starts at the
latest offset, any part, or nothing. A late order is alerted unless it was
before; its SMS comes later (`SendSms`), perhaps twice (`RepeatSms`). An order
whose last snapshot is lost stays open and is alerted some day (`OpenIsLate`).
`JobConfig.get` is `Setting`: a variable of the Flink containers beats the
topics the runner passes as arguments. Faults (failing tear-down, undecodable
line, failing or lossy simulator run, a short read of the topic, a repeated
record) are counted
in `faults`. `strays` is a history variable: orders whose SMS no scenario
expects.

Abstractions: waiting times are left out, so SMS may come arbitrarily late; the
job is up to date with closing snapshots before an on-time order's ETA (minutes
against seconds); `--max-messages` and the polls of the deadline are constants;
a job of an earlier run that could not be torn down is replaced by the new one.

## 3. Runs

| Run | Configuration | Shows |
| --- | --- | --- |
| `operator_long_ttl` | 1 order, 23 snapshots, time-to-live 9 beyond the horizon 4 | `TypeOK`, `AwaitingIsArmed`, `AtMostOneSms`, `NoLeakedTimer`, `AwaitingIsSettled`, `ImplementsDelayAlert` |
| `operator_short_ttl` | 2 orders, 5 snapshots, time-to-live 2, horizon 4 | `AwaitingIsArmed`, `NeverEarly`, `SmsSpacing`, `ImplementsDelayAlert` through several expiries |
| `job_restarts` | 1 order, 3 snapshots, topic of 3, horizon 3, 2 restarts | `JobTypeOK`, `StateMatchesTopic`, `WaitingIsArmedInJob`, `DeliveredNotEarly`, `DuplicatesBounded`, `CheckpointedAlertIsFinal` |
| `job_resubmits` | 2 orders, bad records, topic of 2, horizon 2, 1 restart, 1 resubmission | `StateMatchesTopic`, `DuplicatesBounded`, `WaitingIsSettledInJob` |
| `simulator_runs` | up to 3 orders, 2 workers, 12 command lines in 4 environments, orders created at different times, multipliers 1, 3/2, none and `nan`, scripts that work, fail in each way or are empty, mixes with ties, missing and weightless scenarios, queue of 2, 1 lost record | `TypeOK`, `CompletedIsPublished`, `ExitTellsTheOutcome`, `MixedRunIsAllOrNothing`, `DryRunPublishesNothing`, `DuplicateRepeatsItsStep`, `AssignmentIsProportional`, `EtaDoesNotDrift`, `NeverAheadOfScript`, `Terminates` |
| `e2e_runs` | 4 scenarios (two late, one on time, one mixed) of 2 orders, 2 containers, 3 configurations, 2 polls, reads of at most 5 records, 1 fault | `TypeOK`, `PassesAreEarned`, `LateOrdersAreAlerted`, `NoSmsIsCountedTwice`, `Terminates` |
| `operator_equal_timestamp`, `operator_expired_twice`, `job_lost_sms`, `job_resubmit_forgets`, `simulator_pause`, `e2e_mixed_count` | small | one counterexample each, see section 5 |

**Bounds.** `MaxTime` bounds the clock, `MaxLog` the topic, `MaxResubmits` the
submissions, `MaxLosses` the failed deliveries, `MaxOrders` the orders of a
simulator run, `PollLimit` the polls within the deadline, `MaxFaults` the faults
of an end-to-end run; `MaxRestarts` is the code's own `restart.attempts`.

- Operator runs put no bound on the number of snapshots: with a finite alphabet
  and clock the state space is finite. `DeepInputs` has ETAs at the
  start of the clock and at each step before the horizon, so that at arrival an
  ETA lies before, at or after the clock; three update times (so
  older, equal and newer all occur against each other), statuses from both
  classes, and a snapshot for each missing required field. One order is enough
  there because the operator never reads another key; the second run has two.
- A time-to-live of 2 within a horizon of 4 lets a state expire, be created
  anew and expire again while old timers are still pending.
- Three records and two restarts let a checkpoint lie before, between and after
  the records, a replay overlap new records, and the budget run out.
- Three orders on two workers make one order wait for a worker; a queue of two
  fills up. Each script of `MCFiles` exists for one way a task can end. An
  assumption of `MCOrderSimulator` checks the assignment for all weights up to 4
  of four scenarios.
- The suite of `MCEndToEndRun` keeps one scenario of each kind the runner can
  tell apart, but two late ones, so that one could pass on the SMS of the other,
  with an on-time one between them where late SMS would show. Two orders make a
  scenario partly alerted; four SMS and one repeated record reach the limit of
  the consumer. One fault is enough to break each of the runner's steps; the
  theorem has any number. The expected counts are those of `OrdersCount` orders,
  as those of `EXPECTED_SMS` are for the default of `--orders-count`.

**Fairness.** `FairSpec` of the detector: the clock advances and a due timer is
fired, as Flink's timer service does. `FairJobSpec` adds: the source reads what
is there, the producers send what they hold, a failed job within its budget is
restarted. Nothing obliges anybody to publish, to complete a checkpoint before
the next failure or to resubmit; failures are bounded by the budget, after
which the job is stopped, which `WaitingIsSettledInJob` admits. Simulator:
threads run, sleeps end, and for each buffered record the broker answers or the
client gives up (librdkafka's `message.timeout.ms`). End-to-end runner: only
the runner is fair, that is, every command it starts returns (docker, maven, the
simulator, which `Terminates` of `OrderSimulator` shows, and the console
consumer, which has a timeout); containers, job and SMS may do nothing for ever.

**Deadlock** is checked for the detector. The job configurations turn it off:
with the topic at its bound, the clock at its bound and the job stopped nothing
is left to do. The simulator and the end-to-end runner end by design.

## 4. Proofs

### Detector

`DelayedOrderProcessFunctionProofs` proves, for every set of orders, customers
and snapshots, every time-to-live and every horizon, with only the named
assumptions of the module (`Inputs` are snapshots, the time-to-live is a
positive number, `Null` is neither a number nor a record nor a status):

| Theorem | Statement |
| --- | --- |
| `TypeCorrect` | `Spec => []TypeOK` |
| `WaitingIsArmed` | `Spec => []AwaitingIsArmed` |
| `NoSmsIsEarly` | `Spec => []NeverEarly` |
| `SmsAreSpaced` | `Spec => []SmsSpacing` |
| `OneSmsWithoutExpiry` | `StateTtl > MaxTime => (Spec => []AtMostOneSms)` |
| `NoTimerLeaks` | `StateTtl > MaxTime => (Spec => []NoLeakedTimer)` |
| `DetectorImplementsDelayAlert` | `Spec => Alert!Spec` |

None of the invariants is inductive alone. The argument has three layers, each
proved with one step per action:

1. *Types* (`StateTypeStep`), from the lemmas on the helpers (`CurrentType`,
   `AlertedType`, `DelaySmsType`, `EmitType`).
2. *Timers* (`TimersAgree`): a state that names a timer has it registered, and
   a waiting order names its ETA. The first half is what makes the early return
   of `registerOrUpdateTimer` safe; it must hold of expired states too, since an
   expired value is replaced and not read. `AwaitingIsArmed` follows.
3. *Commands* (`CommandsGuarded`): every command was created at or after its
   ETA, commands of one order are spaced, and for each command either a
   time-to-live has passed since it or the state still says that the order was
   alerted (the state was accessed at or after the command, so it cannot have
   expired earlier). The third part carries the induction: a new command for an
   order needs a state without the flag, so the older one is a time-to-live old.
   `NeverEarly` and `SmsSpacing` follow, and `AtMostOneSms` when the horizon is
   shorter than the time-to-live.

`NoTimerLeaks` has its own invariant over layers 1 and 2, using that a stored
state is live when the time-to-live exceeds the horizon.

`DetectorImplementsDelayAlert` (in `DelayAlertProofs`) rests on layer 1. The
refinement mapping `Memory` shows the `View` of each live state and `Null` for
the others, so that the expiry of a state under `Tick` is the forgetting of
`Pass` (`TickIsPass`). A snapshot that is accepted is a `Hear`, with or without
an SMS at once (`HeardIsCurrent`, `QuietHear`, `EmitIsSend`); a timer that
alerts is a `Raise`; invalid and stale snapshots and idle timers leave the
abstract state alone, and so do all timers, which the promise does not know.
The sending steps set the flag, the view and the command together.

### Job

`DelayedOrderSmsJobProofs`, for every set of records, any length of the topic,
any number of restarts, resubmissions and failures at any step (assumptions:
those of the detector, the records are snapshots or malformed, `Malformed` is no
snapshot, the bounds are numbers):

| Theorem | Statement |
| --- | --- |
| `JobIsWellTyped` | `JobSpec => []JobTypeOK` |
| `WaitingIsArmedAfterRestarts` | `JobSpec => []WaitingIsArmedInJob` |
| `NoDeliveredSmsIsEarly` | `JobSpec => []DeliveredNotEarly` |
| `CheckpointedAlertsAreFinal` | `StateTtl > MaxTime => (JobSpec => CheckpointedAlertIsFinal)` |
| `DuplicatesAreBounded` | `StateTtl > MaxTime => (JobSpec => []DuplicatesBounded)` |
| `StateIsExactlyOnce` | `StateTtl > MaxTime => (JobSpec => []StateMatchesTopic)` |

To the detector a step of the job is one of its own steps, a stutter, a
delivery, a loss of everything or a restore (`JobStepKinds`), so that the lemmas
about its steps are used again. What the invariants add is that a checkpoint is
a state of the job at an earlier time:

- *Types* (`JobTypeInv`): checkpoints are typed, and a job that is restarting
  has a restart left, which keeps the count within the budget.
- *Timers* (`JobTimerInv`): `TimerInv` of the detector holds of the pending and
  the completed checkpoint too, at the present clock. Time may pass between cut
  and restore, but it can only expire a state (`ArmedLater`).
- *Alerts* (`AlertInv`): a running job knows every alert that the pending or the
  completed checkpoint knows, and the pending every one of the completed. A
  command needs an order that is not alerted and marks it (`CommandMarks`), and
  no later step of the detector takes the mark back (`AlertStays`).
- *Duplicates* (`DuplicatesInv`): the account of an order. An SMS that is still
  buffered, or that the job may still collect because it does not know of an
  alert, fits into the number of incarnations beside those on the topic. A
  restart or resubmission adds one (`IncarnationGrows`), a failure empties the
  buffer.
- *State* (`CopyInv`): the state of a running job is what the topic holds up to
  its position, and a checkpoint's is what it holds up to the position stored
  with it; that both come from one cut is what the restart needs. Reading one
  record keeps this (`ReadHolds`), and a topic that only grows does
  (`HoldsLater`). `NewestOf` then chooses the snapshot, as there is only one
  newest (`NewestIsUnique`).

### Assignment

`ScenarioAssignmentProofs` proves `LargestRemainderIsProportional`: for every
distribution with a positive weight, every number of orders and every ranking of
the fractions (which one of equal fractions comes first is the order of a
dictionary), `_assign_scenarios` gives every order a scenario and every scenario
its exact share rounded down or up; a whole share is kept, and no scenario is
rounded up before one with a larger fraction.

What the rounding down leaves over is fewer orders than there are scenarios, and
the fractions add up to exactly that (`RemainingIsSmall`). So the first
`Remaining` of the ranking get one more each (`AssignedCounts`, through the
lengths of the parts that `FlattenSeq` joins). None of them has fraction zero
(`RoundedUpHasFraction`): if one had, so would all behind it in the ranking, and
the fractions of those before it are too small to add up to the remainder.

The sums are `SumFunctionOnSet`, a fold over a set. The library's induction
theorems take an operator and cannot be instantiated here; `FiniteSums`
therefore proves that every non-empty set of numbers has a least one
(`LeastNumber`, from the well-foundedness of `<`), and does induction with the
*set* of numbers that have a property (`Induction`, `SubsetInduction`). From
the equation of a sum (`SumEquation`) follow the facts used here: removing a
member, equal and smaller summands, linear combinations, renumbering.

### Simulator

`OrderSimulatorProofs`, for all scenario files, environments, command lines,
workers and queue sizes. The assumptions are those of `SimulatorSetup`,
`OrderSimulator` and `TimeExpressions`: the files are scenario files, as
`scenario_loader.py` checks them, and include finitely many others; `Null` and
`NotANumber` are no numbers; a missing variable is not "yes"; a numeric setting
is a number, missing or unreadable, and a scenario setting a name, empty or
missing (`SettingsAssumption`), where the multiplier may be any fraction, `inf`
or `nan`; the queue has room for a record; the clock readings `CreatedAt` are
numbers, one for each order.

| Theorem | Statement |
| --- | --- |
| `OutcomeIsTold` | `Spec => []ExitTellsTheOutcome` |
| `NothingIsPublishedInPart` | `Spec => []MixedRunIsAllOrNothing` |
| `DryRunIsDry` | `Spec => []DryRunPublishesNothing` |
| `EtaIsAnchored` | `Spec => EtaDoesNotDrift` |
| `OrdersAreSpread` | `Spec => AssignmentIsProportional` |
| `TypeCorrect` | `Spec => []TypeOK` |
| `CompletionIsTold` | `Spec => []CompletedIsPublished` |
| `DuplicatesAreFaithful` | `Spec => []DuplicateRepeatsItsStep` |
| `DelaysAreWaitedFor` | `Spec => NeverAheadOfScript` |

The first invariant, `IInv`, says what the main thread's position implies:
nothing is assigned or published before loading, the configuration is the one of
the environment and the command line from then on, what was loaded stays
loadable (`SetUpInv`); what is published comes from submitted orders of a run
that is not dry (`PublishedInv`); the main thread flushes only over tasks that
are done and unwinds only over one that failed, which no later step takes back,
because a finished task takes none (`OutcomeInv`, with `TaskStep`).
`EtaIsAnchored` adds `EtaInv`: the ETA of each record is the offset of its event
applied to the time its order was created, which names the ETA by the order and
the script alone; that of two records of an order cancels out of the difference.

`SettingsInv` adds that the settings were readable, so that they are numbers
(`ConfigurationIsReadable`), and that every order has a loadable scenario.
`OrdersAreSpread` follows with the theorem about the assignment, as what was
loaded for a mixed run has a distribution (`LoadedDistribution`).

The other theorems rest on `WorkInv`, which follows each task through its script
and has five parts:

- `TasksInv`: a task at work is at an event of its script, and one that is done
  is behind the last.
- `LimitsInv`: the pool and the producer's queue are within their limits, and
  nothing is buffered after the last flush. Starting needs a free worker, and a
  task that ends frees one.
- `RecordsInv`: the records of an order, buffered, delivered or lost, are those
  of the events its task has behind it, and none of these is missing.
- `MemoryInv`: what a task remembers of a step is the payload of a record of
  that step.
- `DelaysInv`: a task sleeps at least until the delays up to its event are over,
  and is behind that time once it is awake. With the next event the sum of
  delays grows by one summand (`NextDelay`) and the sleep starts at the clock,
  which pauses and other workers can only have moved further. Both sides are
  multiplied by the denominator of the multiplier, so that the account stays
  within whole numbers: each `int()` cuts off at most `den - 1` parts of a
  millisecond (`CutOff`, `CutOffsAdd`).

`CompletionIsTold` puts the first three together: completion needs every task
done, hence every event published, and an empty buffer leaves delivered and
undelivered records only. `DuplicatesAreFaithful` is inductive over `MemoryInv`,
as records are never taken back (`RecordsStep`), and `DelaysAreWaitedFor` is
`DelaysInv` at the moment of publication. `TypeCorrect` is the types of these
parts and the limits.

### End-to-end runner

`EndToEndRunProofs`, for every suite, number of orders, configuration, number of
polls, faults and records left over:

| Theorem | Statement |
| --- | --- |
| `RunnerIsWellTyped` | `Spec => []TypeOK` |
| `PassesAreEarnedAlways` | `Spec => []PassesAreEarned` |
| `LateOrdersAreAlertedIfExpected` | `Spec => []LateOrdersAreAlerted`, if `Expected[s][1] >= OrdersCount` for each late scenario |
| `EachSmsIsCountedOnce` | `Spec => []NoSmsIsCountedTwice` |

`PassesAreEarned` is not inductive: that a passed scenario's orders are in the
topic follows from a count only. The argument has two accounts.
`SmsAreAccounted`: before the mixed scenario, every SMS in the topic or due
belongs to a late order of a scenario already begun or to a stray.
`PassesAreCounted`: the SMS the passes together had to show (`PassMark`) are no
more than the orders so accounted for in the topic, and no more than the last
total. A scenario that passes lifts the total by at least its own share, a total
is a number of orders in the topic, and these are all accounted for
(`PassIsEarned`); a scenario that fails, counted or not, adds nothing to the
mark, and leaves the total no lower unless its count is negative, which a short
read may make it. Where that happened the property says nothing: the runner then
counts the same SMS for a second time, and the sum in `NoSmsIsCountedTwice`
only stays right because the negative count is in it.

`LateOrdersAreAlertedIfExpected` adds the condition that a late scenario is
expected to show an SMS for each of its orders, which `EXPECTED_SMS` fulfils up
to `--orders-count 5`. If all have passed, the mark is then at least the number
of late orders (`LateOrdersBounded`); without strays the topic holds no others,
and a set of orders with as many members as the set it is part of is that set.
Without the condition the statement is false: with one order more than expected
a late scenario passes while one of its SMS is still due (section 5).

`EachSmsIsCountedOnce` needs no such account and no passing scenario. The counts
recorded so far add up to the last total (`CountsAddUp`), because a count is the
difference of two totals and a scenario that failed changes neither; the last
total is at most the number of orders with an SMS in the topic, which only grows
until the topic is deleted at the end (`TotalIsInTopic`). A count may be
negative, when a consumer reads less than the one before: the sum still holds.

### Only model-checked

Liveness under fairness (`AwaitingIsSettled`, `WaitingIsSettledInJob`, both
`Terminates`) and the fair part of `ImplementsDelayAlert`, which the prover does
not treat. Every other property of the passing runs is a theorem.

## 5. Where code and documents differ

Each is a run whose counterexample shows what the code does.

| Run | Document | Code |
| --- | --- | --- |
| `operator_equal_timestamp` | `docs/rfc/delayed-order-detection-rfc.md:93`: a snapshot with `lastUpdatedAt` equal to the state's is skipped | `isStaleUpdate` is strict: it replaces the ETA and can reopen a delivered order |
| `operator_expired_twice` | `docs/adr/0002-sms-idempotency-strategy.md:36`: one SMS per order in a job's lifecycle | the flag expires with the state |
| `job_lost_sms` | `docs/rfc/delayed-order-detection-rfc.md:127`: at-least-once | the sink has no delivery guarantee: a command recorded as emitted in a checkpoint but still buffered is lost with the process |
| `job_resubmit_forgets` | `e2e-tests/README.md:176`: a resubmitted job restores from the latest checkpoint | it starts empty at the end of the topic |
| `simulator_pause` | `simulator/README.md:171`: pause after the step | the pause precedes the step's publication |
| `e2e_mixed_count` | `simulator/scenarios/mixed-orders.json:27`: the SMS count matches the delayed orders of the mix | its orders have the ids of the scenarios played before and are alerted already: late ones bring no new SMS (the runner passes 0, as its range begins there) |

Divergences the models have but no run is spent on:

- The RFC (line 187) says that a timer of a terminal order does nothing. After a
  restart the timer may fire before the replay reaches the terminal snapshot
  (`Restart`, then `FireTimer` before `Consume`).
- The RFC (line 221) says that a null `orderId` fails validation. It is caught
  as a parse error (`IsParseError`).
- `run_e2e.py:4` says "clean up afterwards". Every early return, and an
  exception of `docker cp`, leaves the infrastructure up, and the exit code of
  `docker compose down -v` is not looked at (`ComposeFails`, `PollTimesOut`,
  `NoJarToSubmit`, `Report`).
- `poll_healthy` promises "until all services report healthy/running". An exited
  container is not listed and is not missed (`Listed`).
- A scenario is judged by the difference of two totals. Once an earlier one has
  failed, late SMS of that one can make a later one pass or fail:
  `PassesAreEarned` therefore speaks of all passes together, and
  `LateOrdersAreAlerted` needs all before to have passed.
- `EXPECTED_SMS` is for five orders, `--orders-count` may be any number. With
  fewer a correct pipeline fails. With more a broken one passes: given
  `--orders-count 10`, `delayed-orders` passes with five of its ten SMS missing,
  although `e2e-tests/README.md:164` asks for as many SMS as there are unique
  order ids. TLC finds this with `OrdersCount` above the expected counts as a
  violation of `LateOrdersAreAlerted`, without a fault; `PassesAreEarned` holds
  all the same, for it speaks of the counts that were asked for.
- A negative `--orders-count` plays nothing in a single scenario, but the
  truncation and the slice of `_assign_scenarios` can still hand out orders in a
  mixed run (`Increased`, `Assigned`).
- `e2e-tests/README.md:155` gives `now+2s` as the ETA of delayed-orders; the
  scenario file sets `etaOffset` to `-30s`, so that the detector alerts on
  arrival.

## 6. Not modelled

- `JobConfig`: the settings other than the two topics; they are constants of the
  job's module.
- `run_e2e.py`: `submit_flink_job` and `poll_job_running`, which nothing calls;
  creating topics and changing the owner of volumes, whose outcome the runner
  does not look at; `expected_str` and the layout of the report.
- `run_scenario.py` only calls `main`.
- Deployment files, schemas, documents and tests: read beside the code.
- The contents of messages (JSON layout, headers, metrics), the SMS service.
- Several partitions or parallel instances.

## 7. Plan

Order of work, most important behaviour first; all of it is done.

1. `DelayedOrderProcessFunction` and `DelayAlert`, with the two operator runs.
2. Proofs of the detector's invariants.
3. `DelayedOrderSmsJob` composed from it, with failures and resubmission.
4. `ScenarioAssignment`, `TimeExpressions`, `SimulatorSetup`, `OrderSimulator`.
5. `EndToEndRun`: the runner's protocol against late SMS and partial failures.
6. Proofs of `OrderSimulator` and `EndToEndRun`.
7. Proofs about the job: every safety property of its runs.
8. Proof that each step of the detector maps to a step of `DelayAlert` or
   leaves it unchanged.
9. Proofs of the remaining properties of the simulator and the runner:
   `TypeOK`, `CompletedIsPublished`, `DuplicateRepeatsItsStep`,
   `NeverAheadOfScript`, `AssignmentIsProportional` and `NoSmsIsCountedTwice`.

Left: lemmas about the operators of `TimeExpressions`, which no theorem has
needed so far beyond `OffsetGivesEta`; `JobConfig` in full.
