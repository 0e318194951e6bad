--------------------------- MODULE OrderSimulator ---------------------------
(***************************************************************************)
(* The order simulator (main.py, runner.py and kafka_producer.py): a main  *)
(* thread that reads the configuration, loads the scenarios, assigns one   *)
(* to every order and hands the orders to a thread pool, the workers that  *)
(* play the scripts of their orders, and the Kafka producer they share,    *)
(* which delivers in the background.                                       *)
(*                                                                         *)
(* The clock counts from the moment the orders have been created.  It      *)
(* moves only while a worker sleeps: the rest of the work takes no time,   *)
(* but may be arbitrarily late.  With several requests in flight the       *)
(* producer may reorder, so what is buffered and what is in the topic are  *)
(* sets.                                                                   *)
(***************************************************************************)
EXTENDS SimulatorSetup

CONSTANTS
    CreatedAt,    \* order -> utc_now() when it was created
    QueueLimit,   \* records the producer buffers before produce() raises
    MaxLosses,    \* bound: the records the producer fails to deliver
    MaxOrders     \* bound: the orders of a run

ASSUME BoundsAssumption ==
    QueueLimit \in Nat \ {0} /\ MaxLosses \in Nat /\ MaxOrders \in Nat

(* Each order reads the wall clock for itself, and a wall clock may jump.  *)
ASSUME CreatedAtAssumption == CreatedAt \in [1..MaxOrders -> Int]

VARIABLES
    environment,      \* the environment variables of the process
    arguments,        \* its command line
    config,           \* the configuration, Null until it is read
    clock,            \* time since all orders were created
    mainPhase,        \* where the main thread is
    assignment,       \* order -> its scenario, <<>> before the start
    phase,            \* order -> where its task is
    eventNo,          \* order -> the event its task is at
    wakeAt,           \* order -> the end of its sleep or pause, else 0
    publishedByStep,  \* order -> step -> the payload built for it
    buffer,           \* the records the producer holds
    ordersTopic,      \* the records delivered
    undelivered       \* the records reported as failed

setupVars    == <<environment, arguments, config>>
taskVars     == <<phase, eventNo, wakeAt, publishedByStep>>
producerVars == <<buffer, ordersTopic, undelivered>>
vars == <<setupVars, clock, mainPhase, assignment, taskVars, producerVars>>

Orders       == 1..MaxOrders
Submitted    == DOMAIN assignment
Script(o)    == Load(assignment[o]).events
Event(o)     == Script(o)[eventNo[o]]
OrderId(o)   == [scenario |-> Stem[assignment[o]], index |-> o]

(* base_time *)
FaultyBaseTime(o) == clock
BaseTime(o)       == CreatedAt[o]

Init ==
    /\ environment \in Environments
    /\ arguments \in CommandLines
    /\ config = Null
    /\ clock = 0
    /\ mainPhase = "STARTING"
    /\ assignment = <<>>
    /\ phase = [o \in Orders |-> "QUEUED"]
    /\ eventNo = [o \in Orders |-> 0]
    /\ wakeAt = [o \in Orders |-> 0]
    /\ publishedByStep = [o \in Orders |-> <<>>]
    /\ buffer = {} /\ ordersTopic = {} /\ undelivered = {}

----------------------------------------------------------------------------
(* The main thread *)

MainGoes(from, to) == mainPhase = from /\ mainPhase' = to

(* (Faulty definitions are not used by the specification: each is the      *)
(* definition after it with a slip a programmer could make.)               *)
ReadConfiguration ==
    /\ MainGoes("STARTING", "LOADING")
    /\ IsReadable(environment, arguments)
    /\ config' = Configuration(environment, arguments)
    /\ UNCHANGED <<environment, arguments, clock, assignment, taskVars, producerVars>>

RejectConfiguration ==
    /\ MainGoes("STARTING", "ABORTED")
    /\ ~IsReadable(environment, arguments)
    /\ UNCHANGED <<setupVars, clock, assignment, taskVars, producerVars>>

MissScenario ==
    /\ MainGoes("LOADING", "ABORTED")
    /\ ~CanLoad(config.scenario)
    /\ UNCHANGED <<setupVars, clock, assignment, taskVars, producerVars>>

(* Every order is given its scenario and submitted to the pool. *)
FaultySubmitTasks ==
    /\ MainGoes("LOADING", "WAITING")
    /\ CanLoad(config.scenario)
    /\ LET d == Load(config.scenario).distribution   \* the sort forgotten
       IN  assignment' \in {Assigned(d, config.ordersCount, r) :
                                r \in SetToSeqs(Weighted(d))}
    /\ UNCHANGED <<setupVars, clock, taskVars, producerVars>>
SubmitTasks ==
    /\ MainGoes("LOADING", "WAITING")
    /\ CanLoad(config.scenario)
    /\ assignment' \in PlannedAssignments(config)
    /\ DOMAIN assignment' \subseteq Orders
    /\ UNCHANGED <<setupVars, clock, taskVars, producerVars>>

(* future.result() of every task has returned. *)
Finished(o) == phase[o] \in {"DONE", "FAILED"}
AllFinished == \A o \in Submitted : Finished(o)

FaultyAllSucceeded == AllFinished
AllSucceeded == \A o \in Submitted : phase[o] = "DONE"

CollectResults ==
    /\ MainGoes("WAITING", "FLUSHING")
    /\ AllSucceeded
    /\ UNCHANGED <<setupVars, clock, assignment, taskVars, producerVars>>

(* future.result() raises the exception of a task; leaving the with block  *)
(* waits for all tasks, the queued ones included, before it spreads.       *)
FaultySeeFailure ==
    /\ MainGoes("WAITING", "UNWINDING")
    /\ AllFinished /\ Submitted # {} /\ phase[Len(assignment)] = "FAILED"
    /\ UNCHANGED <<setupVars, clock, assignment, taskVars, producerVars>>
SeeFailure ==
    /\ MainGoes("WAITING", "UNWINDING")
    /\ \E o \in Submitted : phase[o] = "FAILED"
    /\ UNCHANGED <<setupVars, clock, assignment, taskVars, producerVars>>

HasShutDown == AllFinished

Abort ==
    /\ MainGoes("UNWINDING", "ABORTED")
    /\ HasShutDown
    /\ UNCHANGED <<setupVars, clock, assignment, taskVars, producerVars>>

(* producer.flush() returns when every record is delivered or has failed; *)
(* a dry run has no producer and holds no records.                         *)
FaultyIsFlushed == TRUE
IsFlushed == buffer = {}

Flush ==
    /\ MainGoes("FLUSHING", "COMPLETED")
    /\ IsFlushed
    /\ UNCHANGED <<setupVars, clock, assignment, taskVars, producerVars>>

Exited == mainPhase \in {"COMPLETED", "ABORTED"}

----------------------------------------------------------------------------
(* The workers: _run_single_order *)

Busy == {o \in Submitted : phase[o] \notin {"QUEUED", "DONE", "FAILED"}}
FaultyPoolSize == config.maxWorkers + 1
PoolSize       == IF config.maxWorkers < 1 THEN 1 ELSE config.maxWorkers

Multiplier == config.eventDelayMultiplier

(* int() cuts the product off; that of two doubles may first be rounded up *)
(* to the next whole number, which only makes the delay longer.            *)
AdjustedDelay(e) ==
    IF e.delay * Multiplier.num > 0
    THEN (e.delay * Multiplier.num) \div Multiplier.den ELSE 0

(* The task goes on to event n: it first sleeps for the event's delay. *)
EnterEvent(o, n) ==
    /\ eventNo' = [eventNo EXCEPT ![o] = n]
    /\ IF n > Len(Script(o))
       THEN /\ phase' = [phase EXCEPT ![o] = "DONE"]
            /\ wakeAt' = [wakeAt EXCEPT ![o] = 0]
       ELSE /\ phase' = [phase EXCEPT ![o] = "SLEEPING"]
            /\ wakeAt' = [wakeAt EXCEPT ![o] = clock + AdjustedDelay(Script(o)[n])]

TaskFails(o) ==
    /\ phase' = [phase EXCEPT ![o] = "FAILED"]
    /\ UNCHANGED <<setupVars, clock, mainPhase, assignment, eventNo, wakeAt,
                   publishedByStep, producerVars>>

IsNextTask(o) ==
    /\ phase[o] = "QUEUED"
    /\ \A p \in 1..(o - 1) : phase[p] # "QUEUED"
    /\ Cardinality(Busy) < PoolSize

(* A free worker takes the next order.  A script without events is an      *)
(* error; so is a first delay multiplied by inf or nan, for int() raises.  *)
CanStart(o) == Script(o) # <<>> /\ Multiplier.den # 0

StartOrder(o) ==
    /\ IsNextTask(o)
    /\ CanStart(o)
    /\ EnterEvent(o, 1)
    /\ UNCHANGED <<setupVars, clock, mainPhase, assignment, publishedByStep,
                   producerVars>>

FailToStart(o) ==
    /\ IsNextTask(o)
    /\ ~CanStart(o)
    /\ TaskFails(o)

FaultyIsAwake(o) == TRUE
IsAwake(o) == wakeAt[o] <= clock

PausesAt(e) ==
    /\ config.pauseAfterStep # 0 /\ e.step = config.pauseAfterStep
    /\ config.pauseDuration > 0

WakeUp(o) ==
    /\ phase[o] = "SLEEPING"
    /\ IsAwake(o)
    /\ IF PausesAt(Event(o))
       THEN /\ phase' = [phase EXCEPT ![o] = "PAUSED"]
            /\ wakeAt' = [wakeAt EXCEPT ![o] = clock + config.pauseDuration]
       ELSE /\ phase' = [phase EXCEPT ![o] = "READY"]
            /\ wakeAt' = [wakeAt EXCEPT ![o] = 0]
    /\ UNCHANGED <<setupVars, clock, mainPhase, assignment, eventNo,
                   publishedByStep, producerVars>>

ResumeAfterPause(o) ==
    /\ phase[o] = "PAUSED"
    /\ IsAwake(o)
    /\ phase' = [phase EXCEPT ![o] = "READY"]
    /\ wakeAt' = [wakeAt EXCEPT ![o] = 0]
    /\ UNCHANGED <<setupVars, clock, mainPhase, assignment, eventNo,
                   publishedByStep, producerVars>>

OwnPayload(o) ==
    BuildEventValue(Event(o).value, Event(o).etaOffset, OrderId(o), BaseTime(o))

(* The payload of the current event: that of the step it duplicates, or    *)
(* its own.  Null where the code raises.                                   *)
FaultyPayload(o) ==
    LET e == Event(o)
    IN  IF e.duplicateOfStep = Null
        THEN IF e.value = Null THEN Null ELSE OwnPayload(o)
        ELSE IF publishedByStep[o] # <<>>   \* the last step, not the named one
        THEN publishedByStep[o][CHOOSE s \in DOMAIN publishedByStep[o] :
                                  \A t \in DOMAIN publishedByStep[o] : t <= s]
        ELSE Null
Payload(o) ==
    LET e == Event(o)
    IN  IF e.duplicateOfStep = Null
        THEN IF e.value = Null THEN Null ELSE OwnPayload(o)
        ELSE IF e.duplicateOfStep \in DOMAIN publishedByStep[o]
        THEN publishedByStep[o][e.duplicateOfStep]
        ELSE Null

QueueIsFull == ~config.dryRun /\ Cardinality(buffer) >= QueueLimit

(* producer.publish: a dry run only prints. *)
Publish(o, value) ==
    buffer' = IF config.dryRun THEN buffer
              ELSE buffer \cup {[orderIndex |-> o, event |-> eventNo[o],
                                 value |-> value]}

Remember(o, value) ==
    LET step == Event(o).step
    IN  publishedByStep' = IF Event(o).duplicateOfStep # Null
                           THEN publishedByStep
                           ELSE [publishedByStep EXCEPT
                                   ![o] = [s \in DOMAIN @ \cup {step} |->
                                             IF s = step THEN value ELSE @[s]]]

(* The payload is built, remembered unless it is a duplicate, and handed   *)
(* to the producer.                                                        *)
PublishEvent(o) ==
    /\ phase[o] = "READY"
    /\ ~QueueIsFull
    /\ \E value \in {Payload(o)} \ {Null} :
          Publish(o, value) /\ Remember(o, value)
    /\ EnterEvent(o, eventNo[o] + 1)
    /\ UNCHANGED <<setupVars, clock, mainPhase, assignment, ordersTopic,
                   undelivered>>

(* Nothing to publish, or produce() raises because its queue is full: the  *)
(* exception ends the task.                                                *)
FailEvent(o) ==
    /\ phase[o] = "READY"
    /\ QueueIsFull \/ Payload(o) = Null
    /\ TaskFails(o)

RunSingleOrder(o) ==
    /\ o \in Submitted
    /\ \/ StartOrder(o) \/ FailToStart(o)
       \/ WakeUp(o) \/ ResumeAfterPause(o)
       \/ PublishEvent(o) \/ FailEvent(o)

----------------------------------------------------------------------------
(* The producer's background thread works until the process exits; what it *)
(* could not deliver it reports, and the report is only printed.           *)
Acknowledge ==
    /\ ~Exited
    /\ \E r \in buffer :
          /\ buffer' = buffer \ {r}
          /\ \/ ordersTopic' = ordersTopic \cup {r} /\ UNCHANGED undelivered
             \/ /\ Cardinality(undelivered) < MaxLosses
                /\ undelivered' = undelivered \cup {r}
                /\ UNCHANGED ordersTopic
    /\ UNCHANGED <<setupVars, clock, mainPhase, assignment, taskVars>>

Tick ==
    /\ \E o \in Submitted :
          phase[o] \in {"SLEEPING", "PAUSED"} /\ wakeAt[o] > clock
    /\ clock' = clock + 1
    /\ UNCHANGED <<setupVars, mainPhase, assignment, taskVars, producerVars>>

MainThread ==
    \/ ReadConfiguration \/ RejectConfiguration \/ MissScenario
    \/ SubmitTasks \/ CollectResults \/ SeeFailure \/ Abort \/ Flush

Next ==
    \/ MainThread
    \/ \E o \in Orders : RunSingleOrder(o)
    \/ Acknowledge
    \/ Tick

(* Threads run, sleeps end, and the broker answers or the client gives up. *)
Fairness ==
    /\ WF_vars(MainThread)
    /\ \A o \in Orders : WF_vars(RunSingleOrder(o))
    /\ WF_vars(Acknowledge)
    /\ WF_vars(Tick)

Spec     == Init /\ [][Next]_vars
FairSpec == Spec /\ Fairness

----------------------------------------------------------------------------
(* Properties *)

TaskPhases == {"QUEUED", "SLEEPING", "PAUSED", "READY", "DONE", "FAILED"}

Records == buffer \cup ordersTopic \cup undelivered

TypeOK ==
    /\ clock \in Nat
    /\ mainPhase \in {"STARTING", "LOADING", "WAITING", "UNWINDING",
                      "FLUSHING", "COMPLETED", "ABORTED"}
    /\ assignment \in Seq(Names)
    /\ phase \in [Orders -> TaskPhases]
    /\ eventNo \in [Orders -> Nat] /\ wakeAt \in [Orders -> Nat]
    /\ \A r \in Records : /\ DOMAIN r = {"orderIndex", "event", "value"}
                          /\ r.orderIndex \in Submitted
                          /\ r.event \in DOMAIN Script(r.orderIndex)
    /\ Busy # {} => Cardinality(Busy) \in 0..1 \cup 0..config.maxWorkers
    /\ Cardinality(buffer) <= QueueLimit

(* "completed" is printed only when each event of each order has been      *)
(* delivered or reported as failed, unless the run was a dry one: no       *)
(* worker and no buffer is forgotten.                                      *)
CompletedIsPublished ==
    mainPhase = "COMPLETED" /\ ~config.dryRun =>
        \A o \in Submitted :
            {r.event : r \in {x \in ordersTopic \cup undelivered :
                                 x.orderIndex = o}} = DOMAIN Script(o)

(* A run in which a task raised does not complete, and only such a run or  *)
(* one that could not be set up aborts; in all cases no task is still at   *)
(* work when the process exits.                                            *)
ExitTellsTheOutcome ==
    /\ mainPhase = "COMPLETED" => \A o \in Submitted : phase[o] = "DONE"
    /\ mainPhase = "ABORTED" /\ assignment # <<>> =>
          AllFinished /\ \E o \in Submitted : phase[o] = "FAILED"

(* A mixed scenario that names a missing file publishes nothing at all,    *)
(* also when the missing one would have got no order.                      *)
MixedRunIsAllOrNothing ==
    Records # {} =>
        \A s \in Load(config.scenario).includedScenarios :
            Stem[s] \in DOMAIN Files

(* Whoever asks for a dry run, on the command line or in the environment,  *)
(* gets one: nothing reaches the producer, whatever else is configured.    *)
DryRunPublishesNothing ==
    arguments.dryRun \/ environment["DRY_RUN"] \in {"1", "true", "yes", "y"}
        => Records = {}

(* A duplicate carries what its order published at the step it names, not  *)
(* what came last or from another order.                                   *)
DuplicateRepeatsItsStep ==
    \A r \in Records :
        LET d == Script(r.orderIndex)[r.event].duplicateOfStep
        IN  d # Null =>
              \E q \in Records :
                  /\ q.orderIndex = r.orderIndex /\ q.event < r.event
                  /\ Script(q.orderIndex)[q.event].step = d
                  /\ q.value = r.value

(* Whatever the weights and however ties are ranked, the orders of a mixed *)
(* run get one scenario each and every scenario gets its share.            *)
AssignmentIsProportional ==
    [][MainGoes("LOADING", "WAITING") /\ IsMixedScenario(config.scenario)
          /\ config.ordersCount >= 0 =>
          LET d == Load(config.scenario).distribution
          IN  IF Weighted(d) = {} THEN Len(assignment') = config.ordersCount
              ELSE IsProportional(d, config.ordersCount, assignment')]_vars

(* The ETA of an order moves exactly as far as its script moves it: the    *)
(* expectedDeliveryTimes of two of its events, published however far apart *)
(* and by an order started however late, are as far apart as the two       *)
(* etaOffsets.                                                             *)
MovesEta(r) ==
    LET e == Script(r.orderIndex)[r.event]
    IN  /\ e.duplicateOfStep = Null /\ IsOffset(e.etaOffset)
        /\ "expectedDeliveryTime" \in DOMAIN r.value

EtaOffset(r) == Script(r.orderIndex)[r.event].etaOffset

EtaDoesNotDrift ==
    [][\A q \in buffer' \ buffer, r \in Records :
          q.orderIndex = r.orderIndex /\ MovesEta(q) /\ MovesEta(r) =>
              q.value["expectedDeliveryTime"].at - r.value["expectedDeliveryTime"].at
                  = ParseOffset(EtaOffset(q)) - ParseOffset(EtaOffset(r))]_vars

(* No event is published before the delays its script puts in front of it, *)
(* multiplied, are over, however the workers interleave.  What int() cuts  *)
(* off is lost to each event anew: less than a millisecond, that is, at    *)
(* most den - 1 of its den parts.                                          *)
NeverAheadOfScript ==
    [][\A r \in buffer' \ buffer :
          LET s == Script(r.orderIndex)
          IN  Multiplier.num * SumFunctionOnSet([i \in DOMAIN s |-> s[i].delay],
                                                1..r.event)
                  <= Multiplier.den * clock + (Multiplier.den - 1) * r.event]_vars

(* The simulator comes to an end, also when tasks fail: whichever task     *)
(* raises, it frees its worker, the orders behind it are still played, and *)
(* the main thread learns of it.                                           *)
Terminates == <>Exited

(* simulator/README.md:171: PAUSE_AFTER_STEP is the step number to pause   *)
(* after.  A paused order has published the event of that step.            *)
PauseFollowsStep ==
    \A o \in Submitted :
        phase[o] = "PAUSED" =>
            \E r \in Records : /\ r.orderIndex = o
                               /\ Script(o)[r.event].step = config.pauseAfterStep

=============================================================================
