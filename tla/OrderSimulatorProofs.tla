------------------------ MODULE OrderSimulatorProofs ------------------------
(***************************************************************************)
(* Theorems about OrderSimulator, for all scenario files, environments and *)
(* command lines, every number of orders and workers, and every queue.     *)
(***************************************************************************)
EXTENDS OrderSimulator, ScenarioAssignmentProofs

(* Nothing is assigned before the configuration is read and the scenarios  *)
(* are loaded, and no order is outside the bound.                          *)
SetUpInv ==
    /\ phase \in [Orders -> TaskPhases]
    /\ Submitted \subseteq Orders
    /\ mainPhase \in {"STARTING", "LOADING"} => assignment = <<>>
    /\ mainPhase \in {"STARTING", "LOADING"} => Records = {}
    /\ mainPhase # "STARTING" /\ (mainPhase = "ABORTED" => assignment # <<>>) =>
          config = Configuration(environment, arguments)
    /\ assignment # <<>> => CanLoad(config.scenario)

(* Whatever is published belongs to a submitted order of a run that is not *)
(* dry.                                                                    *)
PublishedInv ==
    Records # {} => assignment # <<>> /\ ~config.dryRun /\ mainPhase # "STARTING"

(* What the main thread has seen of the tasks when it goes on.             *)
OutcomeInv ==
    /\ mainPhase \in {"FLUSHING", "COMPLETED"} => AllSucceeded
    /\ mainPhase = "UNWINDING" => \E o \in Submitted : phase[o] = "FAILED"
    /\ mainPhase = "ABORTED" /\ assignment # <<>> =>
          AllFinished /\ \E o \in Submitted : phase[o] = "FAILED"

IInv == SetUpInv /\ PublishedInv /\ OutcomeInv

(* A step of a task changes only the phase of its own order, which has not *)
(* ended.                                                                  *)
LEMMA TaskStep ==
  ASSUME SetUpInv, NEW o \in Orders, RunSingleOrder(o)
  PROVE  /\ o \in Submitted /\ phase[o] \notin {"DONE", "FAILED"}
         /\ phase' \in [Orders -> TaskPhases]
         /\ \A p \in Orders \ {o} : phase'[p] = phase[p]
         /\ UNCHANGED <<setupVars, mainPhase, assignment>>
         /\ UNCHANGED <<ordersTopic, undelivered>>
         /\ buffer' # buffer => ~config.dryRun
<1> USE DEF SetUpInv, TaskPhases
<1>1. o \in Submitted
  BY DEF RunSingleOrder
<1>2. CASE StartOrder(o)
  BY <1>1, <1>2 DEF StartOrder, IsNextTask, EnterEvent, producerVars
<1>3. CASE FailToStart(o)
  BY <1>1, <1>3 DEF FailToStart, IsNextTask, TaskFails, producerVars
<1>4. CASE WakeUp(o)
  BY <1>1, <1>4 DEF WakeUp, producerVars
<1>5. CASE ResumeAfterPause(o)
  BY <1>1, <1>5 DEF ResumeAfterPause, producerVars
<1>6. CASE PublishEvent(o)
  <2>1. PICK value : Publish(o, value)
    BY <1>6 DEF PublishEvent
  <2>2. buffer' # buffer => ~config.dryRun
    BY <2>1 DEF Publish
  <2> QED
    BY <1>1, <1>6, <2>2 DEF PublishEvent, EnterEvent
<1>7. CASE FailEvent(o)
  BY <1>1, <1>7 DEF FailEvent, TaskFails, producerVars
<1> QED
  BY <1>2, <1>3, <1>4, <1>5, <1>6, <1>7 DEF RunSingleOrder

(* Every step keeps the invariant. *)
LEMMA InvariantKept ==
  ASSUME IInv, [Next]_vars
  PROVE  IInv'
<1> USE DEF IInv
<1>1. CASE UNCHANGED vars
  BY <1>1 DEF vars, setupVars, taskVars, producerVars, SetUpInv, PublishedInv, OutcomeInv,
              Records, Submitted, AllSucceeded, AllFinished, Finished
<1>2. CASE ReadConfiguration \/ RejectConfiguration \/ MissScenario
  BY <1>2 DEF ReadConfiguration, RejectConfiguration, MissScenario, MainGoes, setupVars,
              taskVars, producerVars, SetUpInv, PublishedInv, OutcomeInv, Records, Submitted
<1>3. CASE SubmitTasks
  BY <1>3 DEF SubmitTasks, MainGoes, setupVars, taskVars, producerVars, SetUpInv,
              PublishedInv, OutcomeInv, Records, Submitted
<1>4. CASE CollectResults \/ SeeFailure \/ Abort \/ Flush
  <2>1. /\ UNCHANGED <<setupVars, assignment, taskVars, producerVars>>
        /\ mainPhase \notin {"STARTING", "LOADING", "ABORTED"}
        /\ mainPhase' \notin {"STARTING", "LOADING"}
    BY <1>4 DEF CollectResults, SeeFailure, Abort, Flush, MainGoes
  <2>2. SetUpInv' /\ PublishedInv'
    BY <2>1 DEF setupVars, taskVars, producerVars, SetUpInv, PublishedInv, Records,
                Submitted
  <2>3. OutcomeInv'
    BY <1>4, <2>1 DEF CollectResults, SeeFailure, Abort, Flush, MainGoes, HasShutDown,
                      taskVars, OutcomeInv, Submitted, AllSucceeded, AllFinished, Finished
  <2> QED
    BY <2>2, <2>3
<1>5. ASSUME NEW o \in Orders, RunSingleOrder(o) PROVE IInv'
  <2>1. /\ o \in Submitted /\ phase[o] \notin {"DONE", "FAILED"}
        /\ phase' \in [Orders -> TaskPhases]
        /\ \A p \in Orders \ {o} : phase'[p] = phase[p]
        /\ UNCHANGED <<setupVars, mainPhase, assignment>>
        /\ UNCHANGED <<ordersTopic, undelivered>>
        /\ buffer' # buffer => ~config.dryRun
    BY <1>5, TaskStep
  <2>2. assignment # <<>>
    BY <2>1 DEF Submitted
  <2>3. SetUpInv'
    BY <2>1, <2>2 DEF SetUpInv, setupVars, Submitted
  <2>4. PublishedInv'
    BY <2>1, <2>2 DEF PublishedInv, SetUpInv, setupVars, Records
  <2>5. OutcomeInv'
    BY <2>1, <2>2 DEF OutcomeInv, SetUpInv, Submitted, AllSucceeded, AllFinished, Finished
  <2> QED
    BY <2>3, <2>4, <2>5
<1>6. CASE Acknowledge
  <2>1. /\ UNCHANGED <<setupVars, mainPhase, assignment, taskVars>>
        /\ Records' = Records
    BY <1>6 DEF Acknowledge, Records
  <2> QED
    BY <2>1 DEF setupVars, taskVars, SetUpInv, PublishedInv, OutcomeInv, Submitted,
                AllSucceeded, AllFinished, Finished
<1>7. CASE Tick
  BY <1>7 DEF Tick, setupVars, taskVars, producerVars, SetUpInv, PublishedInv, OutcomeInv,
              Records, Submitted, AllSucceeded, AllFinished, Finished
<1> QED
  BY <1>1, <1>2, <1>3, <1>4, <1>5, <1>6, <1>7 DEF Next, MainThread

(* The invariant holds of every reachable state. *)
LEMMA InvariantAlways == Spec => []IInv
<1>1. Init => IInv
  BY DEF Init, IInv, SetUpInv, PublishedInv, OutcomeInv, Records, Submitted, TaskPhases
<1>2. IInv /\ [Next]_vars => IInv'
  BY InvariantKept
<1> QED
  BY <1>1, <1>2, PTL DEF Spec

(* A run in which a task raised does not complete, a run that completes    *)
(* has played every order, and one that aborts after its orders were       *)
(* submitted has waited for all of them and has a failed one to show.      *)
THEOREM OutcomeIsTold == Spec => []ExitTellsTheOutcome
<1>1. IInv => ExitTellsTheOutcome
  BY DEF IInv, OutcomeInv, ExitTellsTheOutcome, AllSucceeded
<1> QED
  BY <1>1, InvariantAlways, PTL

(* Nothing is published unless every file of the mix could be loaded.      *)
THEOREM NothingIsPublishedInPart == Spec => []MixedRunIsAllOrNothing
<1>1. IInv => MixedRunIsAllOrNothing
  BY DEF IInv, SetUpInv, PublishedInv, MixedRunIsAllOrNothing, CanLoad, IsLoadable
<1> QED
  BY <1>1, InvariantAlways, PTL

(* A dry run asked for on the command line or in the environment reaches   *)
(* neither the producer's buffer nor the topic.                            *)
THEOREM DryRunIsDry == Spec => []DryRunPublishesNothing
<1>1. IInv => DryRunPublishesNothing
  <2> SUFFICES ASSUME IInv, Records # {},
                      arguments.dryRun \/ environment["DRY_RUN"] \in {"1", "true", "yes", "y"}
               PROVE  FALSE
    BY DEF DryRunPublishesNothing
  <2>1. config = Configuration(environment, arguments) /\ ~config.dryRun
    BY DEF IInv, SetUpInv, PublishedInv
  <2>2. Configuration(environment, arguments).dryRun =
          (EnvBool(environment, "DRY_RUN", FALSE) \/ arguments.dryRun)
    BY DEF Configuration, Override, FromEnv
  <2>3. environment["DRY_RUN"] \in {"1", "true", "yes", "y"} =>
          EnvBool(environment, "DRY_RUN", FALSE)
    BY SimulatorSetupAssumption DEF EnvBool
  <2> QED
    BY <2>1, <2>2, <2>3
<1> QED
  BY <1>1, InvariantAlways, PTL

----------------------------------------------------------------------------
(* The expected delivery time *)

(* An offset replaces the expected delivery time of the template, whatever *)
(* expression stood there.                                                 *)
LEMMA OffsetGivesEta ==
  ASSUME NEW template, NEW offset, NEW orderId, NEW base, NEW value,
         value = BuildEventValue(template, offset, orderId, base), value # Null,
         IsOffset(offset), "expectedDeliveryTime" \in DOMAIN value
  PROVE  value["expectedDeliveryTime"] = IsoZ(base + ParseOffset(offset))
BY DEF BuildEventValue

(* An offset is a number. *)
LEMMA OffsetType ==
  ASSUME NEW offset, IsOffset(offset)
  PROVE  ParseOffset(offset) \in Int
<1>1. /\ offset.sign \in {"+", "-", Null}
      /\ offset.amount \in Nat \cup {Null}
      /\ offset.unit \in DOMAIN Milliseconds \cup {Null}
  BY DEF IsOffset, Expressions
<1>2. \A u \in DOMAIN Milliseconds : Milliseconds[u] \in Nat
  BY DEF Milliseconds
<1>3. "s" \in DOMAIN Milliseconds
  BY DEF Milliseconds
<1>4. Delta(offset) \in Int
  <2> DEFINE a == IF offset.amount = Null THEN 0 ELSE offset.amount
             b == Milliseconds[IF offset.unit = Null THEN "s" ELSE offset.unit]
  <2>1. a \in Nat /\ b \in Nat
    BY <1>1, <1>2, <1>3
  <2>2. Delta(offset) = a * b
    BY DEF Delta
  <2> HIDE DEF a, b
  <2> QED
    BY <2>1, <2>2
<1>5. Null \notin {"+", "-"}
  BY TimeExpressionsAssumption
<1> QED
  BY <1>1, <1>4, <1>5 DEF ParseOffset

(* The ETA of every record is its offset after the moment its order was    *)
(* created.                                                                *)
EtaInv ==
    \A r \in Records :
        MovesEta(r) =>
            /\ r.orderIndex \in Orders
            /\ r.value["expectedDeliveryTime"]
                  = IsoZ(BaseTime(r.orderIndex) + ParseOffset(EtaOffset(r)))

(* Every record whose ETA the script moves has it from the base time of    *)
(* its order, and every step keeps this.                                   *)
LEMMA EtaKept ==
  ASSUME IInv, EtaInv, [Next]_vars
  PROVE  EtaInv' /\ (buffer' \ buffer # {} => assignment' = assignment)
<1>1. CASE Records' \subseteq Records /\ assignment' = assignment
  BY <1>1 DEF EtaInv, MovesEta, EtaOffset, Script, BaseTime
<1>2. CASE Records = {} /\ UNCHANGED producerVars
  BY <1>2 DEF EtaInv, Records, producerVars
<1>3. ASSUME NEW o \in Orders, PublishEvent(o)
      PROVE  EtaInv' /\ assignment' = assignment
  <2>1. PICK value \in {Payload(o)} \ {Null} : Publish(o, value)
    BY <1>3 DEF PublishEvent
  <2>2. UNCHANGED <<assignment, ordersTopic, undelivered>>
    BY <1>3 DEF PublishEvent
  <2> DEFINE r == [orderIndex |-> o, event |-> eventNo[o], value |-> value]
  <2>3. Records' \subseteq Records \cup {r}
    BY <2>1, <2>2 DEF Publish, Records
  <2>4. ASSUME MovesEta(r)
        PROVE  value["expectedDeliveryTime"]
                  = IsoZ(BaseTime(o) + ParseOffset(EtaOffset(r)))
    <3>1. Event(o).duplicateOfStep = Null /\ IsOffset(Event(o).etaOffset)
          /\ "expectedDeliveryTime" \in DOMAIN value
      BY <2>4 DEF MovesEta, Event
    <3>2. value = OwnPayload(o)
      BY <2>1, <3>1 DEF Payload
    <3>3. value = BuildEventValue(Event(o).value, Event(o).etaOffset, OrderId(o),
                                  BaseTime(o))
      BY <3>2 DEF OwnPayload
    <3>4. value["expectedDeliveryTime"] = IsoZ(BaseTime(o) + ParseOffset(Event(o).etaOffset))
      BY <2>1, <3>1, <3>3, OffsetGivesEta
    <3> QED
      BY <3>4 DEF EtaOffset, Event
  <2>5. \A q \in Records \cup {r} :
            MovesEta(q) =>
                /\ q.orderIndex \in Orders
                /\ q.value["expectedDeliveryTime"]
                      = IsoZ(BaseTime(q.orderIndex) + ParseOffset(EtaOffset(q)))
    BY <2>4 DEF EtaInv
  <2> HIDE DEF r
  <2> QED
    BY <2>2, <2>3, <2>5 DEF EtaInv, MovesEta, EtaOffset, Script, BaseTime
<1>4. CASE UNCHANGED vars
  BY <1>1, <1>4 DEF vars, producerVars, Records
<1>5. CASE MainThread
  <2>1. UNCHANGED producerVars
    BY <1>5 DEF MainThread, ReadConfiguration, RejectConfiguration, MissScenario,
                SubmitTasks, CollectResults, SeeFailure, Abort, Flush
  <2>2. assignment' = assignment \/ Records = {}
    BY <1>5 DEF MainThread, ReadConfiguration, RejectConfiguration, MissScenario,
                SubmitTasks, CollectResults, SeeFailure, Abort, Flush, MainGoes, IInv,
                SetUpInv
  <2> QED
    BY <1>1, <1>2, <2>1, <2>2 DEF producerVars, Records
<1>6. ASSUME NEW o \in Orders, RunSingleOrder(o), ~PublishEvent(o)
      PROVE  EtaInv' /\ assignment' = assignment
  <2>1. UNCHANGED producerVars /\ assignment' = assignment
    BY <1>6 DEF RunSingleOrder, StartOrder, FailToStart, WakeUp, ResumeAfterPause,
                FailEvent, TaskFails
  <2> QED
    BY <1>1, <2>1 DEF producerVars, Records
<1>7. CASE Acknowledge
  BY <1>1, <1>7 DEF Acknowledge, Records
<1>8. CASE Tick
  BY <1>1, <1>8 DEF Tick, producerVars, Records
<1> QED
  BY <1>3, <1>4, <1>5, <1>6, <1>7, <1>8 DEF Next, vars, producerVars

(* Between two events of an order the ETA moves as far as the script moves *)
(* it, however far apart they are published: the base time of an order is  *)
(* read once.                                                              *)
THEOREM EtaIsAnchored == Spec => EtaDoesNotDrift
<1> DEFINE Eta(r) == r.value["expectedDeliveryTime"].at
           Anchored == \A q \in buffer' \ buffer, r \in Records :
               q.orderIndex = r.orderIndex /\ MovesEta(q) /\ MovesEta(r) =>
                   Eta(q) - Eta(r) = ParseOffset(EtaOffset(q)) - ParseOffset(EtaOffset(r))
<1>1. Init => EtaInv
  BY DEF Init, EtaInv, Records
<1>2. IInv /\ EtaInv /\ [Next]_vars => EtaInv'
  BY EtaKept
<1>3. IInv /\ EtaInv /\ [Next]_vars => [Anchored]_vars
  <2> SUFFICES ASSUME IInv, EtaInv, [Next]_vars, NEW q \in buffer' \ buffer,
                      NEW r \in Records, q.orderIndex = r.orderIndex,
                      MovesEta(q), MovesEta(r)
               PROVE  Eta(q) - Eta(r) = ParseOffset(EtaOffset(q)) - ParseOffset(EtaOffset(r))
    OBVIOUS
  <2>1. EtaInv' /\ assignment' = assignment
    BY EtaKept
  <2>2. q.value["expectedDeliveryTime"]
          = IsoZ(BaseTime(r.orderIndex) + ParseOffset(EtaOffset(q)))
    BY <2>1 DEF EtaInv, Records, MovesEta, EtaOffset, Script, BaseTime
  <2>3. /\ r.orderIndex \in Orders
        /\ r.value["expectedDeliveryTime"]
              = IsoZ(BaseTime(r.orderIndex) + ParseOffset(EtaOffset(r)))
    BY DEF EtaInv
  <2>4. /\ Eta(q) = BaseTime(r.orderIndex) + ParseOffset(EtaOffset(q))
        /\ Eta(r) = BaseTime(r.orderIndex) + ParseOffset(EtaOffset(r))
    BY <2>2, <2>3 DEF IsoZ
  <2>5. BaseTime(r.orderIndex) \in Int
    BY <2>3, CreatedAtAssumption DEF BaseTime, Orders
  <2>6. ParseOffset(EtaOffset(q)) \in Int /\ ParseOffset(EtaOffset(r)) \in Int
    BY OffsetType DEF MovesEta, EtaOffset
  <2> QED
    BY <2>4, <2>5, <2>6
<1> QED
  BY <1>1, <1>2, <1>3, InvariantAlways, PTL DEF Spec, EtaDoesNotDrift

----------------------------------------------------------------------------
(* The settings and the assignment *)

(* What can be read has numbers where the program computes, and a scenario *)
(* name.                                                                   *)
LEMMA ConfigurationIsReadable ==
  ASSUME NEW env \in Environments, NEW args \in CommandLines, NEW c,
         IsReadable(env, args), c = Configuration(env, args)
  PROVE  /\ c.scenario \in Names
         /\ c.ordersCount \in Int /\ c.eventDelayMultiplier \in Doubles
         /\ c.maxWorkers \in Int /\ c.pauseAfterStep \in Int /\ c.pauseDuration \in Int
<1>1. /\ \A v \in Integral : env[v] \in Int \cup {Null}
      /\ env["EVENT_DELAY_MULTIPLIER"] \in Doubles \cup {Null}
  BY SettingsAssumption DEF IsReadable, Numbers
<1>2. /\ \A v \in Integral, k \in Int : Getenv(env, v, k) \in Int
      /\ \A d \in Doubles : Getenv(env, "EVENT_DELAY_MULTIPLIER", d) \in Doubles
  BY <1>1 DEF Getenv
<1>3. Getenv(env, "SCENARIO", "mixed-orders") \in Names
  BY SettingsAssumption DEF Getenv
<1>4. ScenarioArgument(env, args) \in Names \cup {Null, ""}
  BY SettingsAssumption DEF ScenarioArgument
<1>5. args.ordersCount \in Int \cup {Null}
  BY SettingsAssumption DEF IsReadable
<1> DEFINE e == FromEnv(env)
<1>6. /\ e.scenario \in Names
      /\ e.ordersCount \in Int /\ e.eventDelayMultiplier \in Doubles
      /\ e.maxWorkers \in Int /\ e.pauseAfterStep \in Int /\ e.pauseDuration \in Int
  <2>1. [num |-> 1, den |-> 1] \in Doubles
    BY DEF Doubles
  <2> QED
    BY <1>2, <1>3, <2>1 DEF FromEnv, Integral
<1>7. /\ c.scenario = IF ScenarioArgument(env, args) \in {Null, ""} THEN e.scenario
                      ELSE ScenarioArgument(env, args)
      /\ c.ordersCount = IF args.ordersCount = Null THEN e.ordersCount
                         ELSE args.ordersCount
      /\ c.eventDelayMultiplier = e.eventDelayMultiplier
      /\ c.maxWorkers = e.maxWorkers /\ c.pauseAfterStep = e.pauseAfterStep
      /\ c.pauseDuration = e.pauseDuration
  BY DEF Configuration, Override, FromEnv
<1> QED
  BY <1>4, <1>5, <1>6, <1>7

(* The values of a function on the first n numbers are a sequence.         *)
LEMMA NumberedIsSequence ==
  ASSUME NEW S, NEW n \in Int, NEW f \in [1..n -> S]
  PROVE  /\ f \in Seq(S) /\ \A i \in DOMAIN f : f[i] \in S
         /\ n >= 0 => Len(f) = n
<1>1. CASE n >= 0
  BY <1>1
<1>2. CASE ~ (n >= 0)
  <2>1. 1..n = 1..0
    BY <1>2
  <2>2. f \in [1..0 -> S]
    BY <2>1
  <2>3. f \in Seq(S)
    BY <2>2
  <2> QED
    BY <1>2, <2>3
<1> QED
  BY <1>1, <1>2

(* The weights of a scenario that could be loaded. *)
LEMMA LoadedDistribution ==
  ASSUME NEW name \in Names, IsLoadable(name)
  PROVE  /\ Load(name).events \in Seq(Events)
         /\ Load(name).includedScenarios \subseteq Names
         /\ DOMAIN Load(name).distribution = Load(name).includedScenarios
         /\ Weighted(Load(name).distribution) # {} =>
               IsDistribution(Load(name).distribution)
<1>1. IsScenarioFile(Load(name))
  BY SimulatorSetupAssumption DEF IsLoadable, Load
<1> DEFINE f == Load(name)
<1> HIDE DEF f
<1>2. IsScenarioFile(f)
  BY <1>1 DEF f
<1>3. /\ f.events \in Seq(Events) /\ f.includedScenarios \subseteq Names
      /\ DOMAIN f.distribution = f.includedScenarios
      /\ Weighted(f.distribution) # {} => IsDistribution(f.distribution)
  BY <1>2 DEF IsScenarioFile, IsDistribution
<1> QED
  BY <1>3 DEF f

(* Every order of a run is assigned a scenario whose file is there.        *)
LEMMA PlannedOrdersAreLoadable ==
  ASSUME NEW c, c.scenario \in Names, c.ordersCount \in Int, CanLoad(c.scenario),
         NEW a \in PlannedAssignments(c)
  PROVE  a \in Seq(Names) /\ \A o \in DOMAIN a : IsLoadable(a[o])
<1> DEFINE name == c.scenario
           n == c.ordersCount
           d == Load(name).distribution
           Good == {s \in Names : IsLoadable(s)}
<1>1. SUFFICES a \in Seq(Good)
  <2>1. \A s \in Good : s \in Names /\ IsLoadable(s)
    OBVIOUS
  <2> HIDE DEF Good
  <2> QED
    BY <1>1, <2>1
<1>2. IsLoadable(name) /\ \A s \in Load(name).includedScenarios : IsLoadable(s)
  BY DEF CanLoad
<1>3. /\ Load(name).includedScenarios \subseteq Names
      /\ DOMAIN d = Load(name).includedScenarios
      /\ Weighted(d) # {} => IsDistribution(d)
  BY <1>2, LoadedDistribution
<1>4. DOMAIN d \subseteq Good /\ Weighted(d) \subseteq Good /\ name \in Good
  BY <1>2, <1>3 DEF Weighted
<1>5. a \in IF IsMixedScenario(name) THEN Assignments(d, n) ELSE {[o \in 1..n |-> name]}
  BY DEF PlannedAssignments
<1> HIDE DEF name, n, d, Good
<1>6. n \in Int
  BY DEF n
<1>7. CASE ~IsMixedScenario(name)
  <2>1. a = [o \in 1..n |-> name]
    BY <1>5, <1>7
  <2>2. a \in [1..n -> Good]
    BY <1>4, <2>1
  <2> QED
    BY <1>6, <2>2, NumberedIsSequence
<1>8. CASE IsMixedScenario(name) /\ Weighted(d) = {}
  <2>1. a \in [1..n -> DOMAIN d]
    BY <1>5, <1>8 DEF Assignments
  <2>2. a \in [1..n -> Good]
    BY <1>4, <2>1
  <2> QED
    BY <1>6, <2>2, NumberedIsSequence
<1>9. CASE IsMixedScenario(name) /\ Weighted(d) # {}
  <2>1. PICK r \in SetToSeqs(Weighted(d)) : a = Assigned(d, n, r)
    BY <1>5, <1>9 DEF Assignments, Rankings
  <2>2. a \in Seq(Weighted(d))
    BY <1>3, <1>6, <1>9, <2>1, AssignedIsFlattened
  <2> DEFINE W == Weighted(d)
  <2>3. a \in Seq(W) /\ W \subseteq Good
    BY <1>4, <2>2
  <2> HIDE DEF W
  <2> QED
    BY <2>3
<1> QED
  BY <1>7, <1>8, <1>9

(* The configuration is the one that was asked for. *)
Settled == mainPhase # "STARTING" /\ (mainPhase = "ABORTED" => assignment # <<>>)

(* The settings are those the program was started with, they could be read *)
(* when they are used, and every order has a script.                       *)
SettingsInv ==
    /\ environment \in Environments /\ arguments \in CommandLines
    /\ mainPhase \in {"STARTING", "LOADING", "WAITING", "UNWINDING",
                      "FLUSHING", "COMPLETED", "ABORTED"}
    /\ Settled => IsReadable(environment, arguments)
    /\ assignment \in Seq(Names)
    /\ \A o \in Submitted : IsLoadable(assignment[o])

(* The configuration has its types as soon as it is used. *)
LEMMA ConfigIsTyped ==
  ASSUME IInv, SettingsInv, Settled
  PROVE  /\ config.scenario \in Names
         /\ config.ordersCount \in Int /\ config.eventDelayMultiplier \in Doubles
         /\ config.maxWorkers \in Int /\ config.pauseAfterStep \in Int
         /\ config.pauseDuration \in Int
         /\ PoolSize \in Nat \ {0}
         /\ Multiplier.num \in Int /\ Multiplier.den \in Nat
<1>1. /\ environment \in Environments /\ arguments \in CommandLines
      /\ IsReadable(environment, arguments)
      /\ config = Configuration(environment, arguments)
  BY DEF IInv, SetUpInv, SettingsInv, Settled
<1>2. /\ config.scenario \in Names
      /\ config.ordersCount \in Int /\ config.eventDelayMultiplier \in Doubles
      /\ config.maxWorkers \in Int /\ config.pauseAfterStep \in Int
      /\ config.pauseDuration \in Int
  BY ONLY <1>1, ConfigurationIsReadable
<1> QED
  BY <1>2 DEF PoolSize, Multiplier, Doubles

LEMMA SettingsKept ==
  ASSUME IInv, SettingsInv, [Next]_vars
  PROVE  SettingsInv'
<1> USE DEF SettingsInv, Settled
<1>1. CASE UNCHANGED <<setupVars, mainPhase, assignment>>
  BY <1>1 DEF setupVars, Submitted
<1>2. CASE ReadConfiguration \/ RejectConfiguration \/ MissScenario
  <2>1. assignment = <<>>
    BY <1>2 DEF IInv, SetUpInv, ReadConfiguration, RejectConfiguration, MissScenario,
                MainGoes
  <2> QED
    BY <1>2, <2>1 DEF ReadConfiguration, RejectConfiguration, MissScenario, MainGoes,
                      setupVars, Submitted
<1>3. CASE SubmitTasks
  <2>1. /\ mainPhase = "LOADING" /\ mainPhase' = "WAITING" /\ CanLoad(config.scenario)
        /\ assignment' \in PlannedAssignments(config)
        /\ UNCHANGED <<environment, arguments, config>>
    BY <1>3 DEF SubmitTasks, MainGoes, setupVars
  <2>2. config.scenario \in Names /\ config.ordersCount \in Int
    BY <2>1, ConfigIsTyped
  <2>3. assignment' \in Seq(Names) /\ \A o \in DOMAIN assignment' : IsLoadable(assignment'[o])
    BY <2>1, <2>2, PlannedOrdersAreLoadable
  <2> QED
    BY <2>1, <2>3 DEF Submitted
<1>4. CASE CollectResults \/ SeeFailure \/ Abort \/ Flush
  BY <1>4 DEF CollectResults, SeeFailure, Abort, Flush, MainGoes, setupVars, Submitted
<1>5. ASSUME NEW o \in Orders, RunSingleOrder(o) PROVE SettingsInv'
  BY <1>1, <1>5, TaskStep DEF IInv
<1>6. CASE Acknowledge \/ Tick
  BY <1>1, <1>6 DEF Acknowledge, Tick
<1>7. CASE UNCHANGED vars
  BY <1>1, <1>7 DEF vars
<1> QED
  BY <1>2, <1>3, <1>4, <1>5, <1>6, <1>7 DEF Next, MainThread

LEMMA SettingsAlways == Spec => []SettingsInv
<1>1. Init => SettingsInv
  BY DEF Init, SettingsInv, Settled, Submitted
<1>2. IInv /\ SettingsInv /\ [Next]_vars => SettingsInv'
  BY SettingsKept
<1> QED
  BY <1>1, <1>2, InvariantAlways, PTL DEF Spec

(* The orders of every mixed run are spread over the scenarios as their    *)
(* weights say, up to the rounding (see LargestRemainderIsProportional).   *)
THEOREM OrdersAreSpread == Spec => AssignmentIsProportional
<1> DEFINE Spread ==
      MainGoes("LOADING", "WAITING") /\ IsMixedScenario(config.scenario)
        /\ config.ordersCount >= 0 =>
        LET d == Load(config.scenario).distribution
        IN  IF Weighted(d) = {} THEN Len(assignment') = config.ordersCount
            ELSE IsProportional(d, config.ordersCount, assignment')
<1>1. IInv /\ SettingsInv /\ [Next]_vars => [Spread]_vars
  <2> SUFFICES ASSUME IInv, SettingsInv, Next, MainGoes("LOADING", "WAITING"),
                      IsMixedScenario(config.scenario), config.ordersCount >= 0
               PROVE  LET d == Load(config.scenario).distribution
                      IN  IF Weighted(d) = {} THEN Len(assignment') = config.ordersCount
                          ELSE IsProportional(d, config.ordersCount, assignment')
    OBVIOUS
  <2> DEFINE d == Load(config.scenario).distribution
             n == config.ordersCount
             a == assignment'
  <2>1. SubmitTasks
    <3>1. mainPhase = "LOADING" /\ mainPhase' = "WAITING"
      BY DEF MainGoes
    <3>2. ASSUME NEW o \in Orders, RunSingleOrder(o) PROVE FALSE
      BY <3>1, <3>2, TaskStep DEF IInv
    <3>3. ~Acknowledge /\ ~Tick
      BY <3>1 DEF Acknowledge, Tick
    <3> QED
      BY <3>1, <3>2, <3>3 DEF Next, MainThread, ReadConfiguration, RejectConfiguration,
                              MissScenario, CollectResults, SeeFailure, Abort, Flush,
                              MainGoes
  <2>2. config.scenario \in Names /\ n \in Nat /\ IsLoadable(config.scenario)
    <3>1. Settled
      BY DEF Settled, MainGoes
    <3>2. config.scenario \in Names /\ n \in Int
      BY <3>1, ConfigIsTyped
    <3>3. IsLoadable(config.scenario)
      BY <2>1 DEF SubmitTasks, CanLoad
    <3> QED
      BY <3>2, <3>3
  <2>3. a \in Assignments(d, n)
    BY <2>1 DEF SubmitTasks, PlannedAssignments
  <2>4. Weighted(d) # {} => IsDistribution(d)
    BY <2>2, LoadedDistribution
  <2> HIDE DEF d, n, a
  <2>5. CASE Weighted(d) = {}
    <3>1. a \in [1..n -> DOMAIN d]
      BY <2>3, <2>5 DEF Assignments
    <3>2. Len(a) = n
      BY <2>2, <3>1, NumberedIsSequence
    <3> QED
      BY <2>5, <3>2 DEF d, n, a
  <2>6. CASE Weighted(d) # {}
    <3>1. IsProportional(d, n, a)
      BY <2>2, <2>3, <2>4, <2>6, LargestRemainderIsProportional
    <3> QED
      BY <2>6, <3>1 DEF d, n, a
  <2> QED
    BY <2>5, <2>6
<1> QED
  BY <1>1, InvariantAlways, SettingsAlways, PTL DEF Spec, AssignmentIsProportional

----------------------------------------------------------------------------
(* The tasks and their records *)

AtWork(o) == phase[o] \in {"SLEEPING", "PAUSED", "READY"}

(* Where a task is in its script. *)
TasksInv ==
    /\ clock \in Nat
    /\ eventNo \in [Orders -> Nat] /\ wakeAt \in [Orders -> Nat]
    /\ \A o \in Orders \ Submitted : phase[o] = "QUEUED"
    /\ \A o \in Orders : phase[o] = "QUEUED" => eventNo[o] = 0
    /\ \A o \in Submitted :
          /\ AtWork(o) => eventNo[o] \in DOMAIN Script(o) /\ Multiplier.den # 0
          /\ phase[o] = "DONE" => eventNo[o] = Len(Script(o)) + 1

(* The limits of the pool and of the producer's queue are kept, and        *)
(* nothing is buffered after the last flush.                               *)
LimitsInv ==
    /\ Busy # {} => Cardinality(Busy) <= PoolSize
    /\ IsFiniteSet(buffer) /\ Cardinality(buffer) <= QueueLimit
    /\ mainPhase = "COMPLETED" => buffer = {}

(* The records are those of the events the tasks have behind them: no      *)
(* other, and, unless the run is a dry one, each of them.                  *)
RecordsInv ==
    /\ \A r \in Records :
          /\ DOMAIN r = {"orderIndex", "event", "value"}
          /\ r.orderIndex \in Submitted
          /\ r.event \in DOMAIN Script(r.orderIndex)
          /\ r.event < eventNo[r.orderIndex]
    /\ \A o \in Submitted : ~config.dryRun =>
          \A e \in 1..(eventNo[o] - 1) :
              \E r \in Records : r.orderIndex = o /\ r.event = e

(* What a task remembers of a step was published for that step.            *)
MemoryInv ==
    /\ DOMAIN publishedByStep = Orders
    /\ \A o \in Orders : \A s \in DOMAIN publishedByStep[o] :
          /\ o \in Submitted
          /\ ~config.dryRun =>
                \E q \in Records :
                    /\ q.orderIndex = o /\ q.event < eventNo[o]
                    /\ Script(o)[q.event].step = s
                    /\ q.value = publishedByStep[o][s]

(* The delays of the first n events of a script s. *)
DelaysOf(s, n) == SumFunctionOnSet([i \in DOMAIN s |-> s[i].delay], 1..n)

(* By time t the delays of the first n events of s are over, but for what  *)
(* int() has cut off of each.                                              *)
AreOver(s, n, t) ==
    Multiplier.num * DelaysOf(s, n) <= Multiplier.den * t + (Multiplier.den - 1) * n

(* The delays in front of the event a task is at are over when it wakes.   *)
IsDue(o, t) == AreOver(Script(o), eventNo[o], t)

DelaysInv ==
    \A o \in Submitted :
        /\ phase[o] = "SLEEPING" => IsDue(o, wakeAt[o])
        /\ phase[o] \in {"PAUSED", "READY"} => IsDue(o, clock)

WorkInv == TasksInv /\ LimitsInv /\ RecordsInv /\ MemoryInv /\ DelaysInv

(* A submitted order has a script of events. *)
LEMMA ScriptsAreTyped ==
  ASSUME SettingsInv, NEW o \in Submitted
  PROVE  /\ Script(o) \in Seq(Events)
         /\ Len(Script(o)) \in Nat /\ DOMAIN Script(o) = 1..Len(Script(o))
         /\ \A i \in DOMAIN Script(o) : Script(o)[i].delay \in Nat
<1>1. assignment[o] \in Names /\ IsLoadable(assignment[o])
  BY DEF SettingsInv, Submitted
<1>2. Script(o) \in Seq(Events)
  BY <1>1, LoadedDistribution DEF Script
<1> DEFINE s == Script(o)
<1> HIDE DEF s
<1>3. s \in Seq(Events)
  BY <1>2 DEF s
<1>4. \A i \in DOMAIN s : s[i].delay \in Nat
  <2>1. \A e \in Events : e.delay \in Nat
    BY DEF Events
  <2>2. \A i \in DOMAIN s : s[i] \in Events
    BY <1>3
  <2> QED
    BY <2>1, <2>2
<1> QED
  BY <1>3, <1>4 DEF s

(* What is cut off of a division is less than the divisor.                 *)
LEMMA CutOff ==
  ASSUME NEW p \in Int, NEW k \in Nat, k # 0
  PROVE  /\ p \div k \in Int
         /\ k * (p \div k) <= p
         /\ p <= k * (p \div k) + k - 1
OBVIOUS

(* A delay that is slept is a number of milliseconds, and less than one of *)
(* them shorter than the delay multiplied.                                 *)
LEMMA DelayType ==
  ASSUME NEW e, e.delay \in Nat, Multiplier.num \in Int, Multiplier.den \in Nat,
         Multiplier.den # 0
  PROVE  /\ AdjustedDelay(e) \in Nat
         /\ Multiplier.num * e.delay
              <= Multiplier.den * AdjustedDelay(e) + Multiplier.den - 1
<1> DEFINE k == Multiplier.den
           p == e.delay * Multiplier.num
           q == p \div k
<1>1. k \in Nat /\ k # 0 /\ p \in Int /\ Multiplier.num * e.delay = p
  OBVIOUS
<1>2. AdjustedDelay(e) = IF p > 0 THEN q ELSE 0
  BY DEF AdjustedDelay
<1> HIDE DEF p, k
<1>3. q \in Int /\ k * q <= p /\ p <= k * q + k - 1
  BY <1>1, CutOff
<1> HIDE DEF q
<1>4. CASE p > 0
  <2>1. q >= 0
    <3>1. ASSUME q <= 0 - 1 PROVE FALSE
      <4>1. k * q <= k * (0 - 1)
        BY <1>1, <1>3, <3>1
      <4>2. k * (0 - 1) = 0 - k
        BY <1>1
      <4> DEFINE kq == k * q
      <4>3. kq \in Int /\ kq <= 0 - k /\ p <= kq + k - 1
        BY <1>1, <1>3, <4>1, <4>2
      <4> HIDE DEF kq
      <4> QED
        BY <1>1, <1>4, <4>3
    <3> QED
      BY <1>3, <3>1
  <2> QED
    BY <1>1, <1>2, <1>3, <1>4, <2>1 DEF k
<1>5. CASE ~(p > 0)
  <2>1. k * 0 = 0
    BY <1>1
  <2> QED
    BY <1>1, <1>2, <1>5, <2>1 DEF k
<1> QED
  BY <1>4, <1>5

(* Entering an event. *)
LEMMA Entering ==
  ASSUME IInv, SettingsInv, TasksInv, NEW o \in Submitted, EnterEvent(o, eventNo[o] + 1),
         eventNo[o] \in 0..Len(Script(o)), eventNo[o] = 0 => Script(o) # <<>>,
         Multiplier.den # 0, UNCHANGED <<clock, assignment, config>>, Settled
  PROVE  /\ TasksInv'
         /\ eventNo' = [eventNo EXCEPT ![o] = @ + 1]
         /\ phase'[o] \in {"SLEEPING", "DONE"}
         /\ \A p \in Orders \ {o} : wakeAt'[p] = wakeAt[p] /\ phase'[p] = phase[p]
         /\ phase'[o] = "SLEEPING" =>
              /\ eventNo[o] + 1 \in DOMAIN Script(o)
              /\ wakeAt'[o] = clock + AdjustedDelay(Script(o)[eventNo[o] + 1])
<1> DEFINE s == Script(o)
           n == eventNo[o] + 1
<1>1. /\ o \in Orders /\ Submitted' = Submitted /\ \A p : Script(p)' = Script(p)
      /\ phase \in [Orders -> TaskPhases] /\ Submitted \subseteq Orders
  BY DEF IInv, SetUpInv, Submitted, Script
<1>2. s \in Seq(Events) /\ Len(s) \in Nat /\ DOMAIN s = 1..Len(s)
      /\ \A i \in DOMAIN s : s[i].delay \in Nat
  BY ScriptsAreTyped
<1>3. n \in Nat /\ n - 1 = eventNo[o] /\ n \in 1..(Len(s) + 1)
  BY <1>1, <1>2 DEF TasksInv
<1>4. n = 1 => Len(s) # 0
  BY <1>2
<1>5. /\ eventNo' = [eventNo EXCEPT ![o] = n]
      /\ n > Len(s) => /\ phase' = [phase EXCEPT ![o] = "DONE"]
                       /\ wakeAt' = [wakeAt EXCEPT ![o] = 0]
      /\ ~(n > Len(s)) =>
            /\ phase' = [phase EXCEPT ![o] = "SLEEPING"]
            /\ wakeAt' = [wakeAt EXCEPT ![o] = clock + AdjustedDelay(s[n])]
  BY DEF EnterEvent
<1>6. ~(n > Len(s)) => AdjustedDelay(s[n]) \in Nat
  <2>1. ~(n > Len(s)) => s[n].delay \in Nat
    BY <1>2, <1>3
  <2> HIDE DEF s, n
  <2> QED
    BY <2>1, DelayType, ConfigIsTyped
<1> HIDE DEF s, n
<1>7. /\ eventNo' \in [Orders -> Nat] /\ wakeAt' \in [Orders -> Nat] /\ clock' \in Nat
  <2> DEFINE w == IF n > Len(s) THEN 0 ELSE clock + AdjustedDelay(s[n])
  <2>1. wakeAt' = [wakeAt EXCEPT ![o] = w]
    BY <1>5
  <2>2. w \in Nat
    BY <1>6 DEF TasksInv
  <2> HIDE DEF w
  <2>3. wakeAt' \in [Orders -> Nat]
    BY <1>1, <2>1, <2>2 DEF TasksInv
  <2>4. eventNo' \in [Orders -> Nat] /\ clock' \in Nat
    BY <1>1, <1>3, <1>5 DEF TasksInv
  <2> QED
    BY <2>3, <2>4
<1>8. /\ eventNo'[o] = n /\ \A p \in Orders \ {o} : eventNo'[p] = eventNo[p]
      /\ phase'[o] = IF n > Len(s) THEN "DONE" ELSE "SLEEPING"
      /\ \A p \in Orders \ {o} : phase'[p] = phase[p] /\ wakeAt'[p] = wakeAt[p]
      /\ ~(n > Len(s)) => wakeAt'[o] = clock + AdjustedDelay(s[n])
  BY <1>1, <1>5 DEF TasksInv
<1>9. \A p \in Orders \ Submitted' : phase'[p] = "QUEUED"
  BY <1>1, <1>8 DEF TasksInv
<1>10. \A p \in Orders : phase'[p] = "QUEUED" => eventNo'[p] = 0
  BY <1>8 DEF TasksInv
<1>11. n > Len(s) => n = Len(s) + 1
  BY <1>2, <1>3
<1>12. ~(n > Len(s)) => n \in DOMAIN s
  BY <1>2, <1>3
<1>13. ASSUME NEW p \in Submitted
       PROVE  /\ phase'[p] \in {"SLEEPING", "PAUSED", "READY"} =>
                   eventNo'[p] \in DOMAIN Script(p) /\ Multiplier.den # 0
              /\ phase'[p] = "DONE" => eventNo'[p] = Len(Script(p)) + 1
  <2>1. CASE p = o
    BY <1>8, <1>11, <1>12, <2>1 DEF s
  <2>2. CASE p # o
    BY <1>1, <1>8, <2>2 DEF TasksInv, AtWork
  <2> QED
    BY <2>1, <2>2
<1>14. TasksInv'
  BY <1>1, <1>7, <1>9, <1>10, <1>13 DEF TasksInv, AtWork, Multiplier
<1> QED
  BY <1>5, <1>8, <1>12, <1>14 DEF s, n

(* The delays grow by that of the next event. *)
LEMMA NextDelay ==
  ASSUME NEW s \in Seq(Events), NEW n \in Nat, n + 1 \in DOMAIN s, NEW m \in Int
  PROVE  /\ DelaysOf(s, n) \in Int /\ DelaysOf(s, n + 1) \in Int
         /\ DelaysOf(s, n + 1) = DelaysOf(s, n) + s[n + 1].delay
         /\ DelaysOf(s, 0) = 0
<1> DEFINE f == [i \in DOMAIN s |-> s[i].delay]
<1>1. DOMAIN s = 1..Len(s) /\ Len(s) \in Nat
  OBVIOUS
<1>2. \A i \in 1..(n + 1) : i \in DOMAIN s
  BY <1>1
<1>3. \A i \in DOMAIN s : f[i] = s[i].delay /\ f[i] \in Nat
  <2>1. \A e \in Events : e.delay \in Nat
    BY DEF Events
  <2>2. \A i \in DOMAIN s : s[i] \in Events
    OBVIOUS
  <2> QED
    BY <2>1, <2>2
<1>4. \A k : DelaysOf(s, k) = SumFunctionOnSet(f, 1..k)
  BY DEF DelaysOf
<1> HIDE DEF f
<1>5. \A i \in 1..(n + 1) : f[i] \in Int
  BY <1>2, <1>3
<1>6. SumFunctionOnSet(f, 1..(n + 1)) = f[n + 1] + SumFunctionOnSet(f, 1..n)
  BY <1>5, SumToNext
<1>7. IsFiniteSet(1..n) /\ \A i \in 1..n : f[i] \in Int
  BY <1>5, NumbersTo
<1>8. SumFunctionOnSet(f, 1..n) \in Int
  BY <1>7, SumType
<1>9. SumFunctionOnSet(f, 1..0) = 0
  <2>1. 1..0 = {}
    OBVIOUS
  <2> QED
    BY <2>1, SumEmpty
<1>10. f[n + 1] = s[n + 1].delay /\ f[n + 1] \in Int
  BY <1>3
<1> HIDE DEF f
<1> QED
  BY <1>4, <1>6, <1>8, <1>9, <1>10

(* Orders are played only after the set-up. *)
LEMMA PlayedIsSettled ==
  ASSUME IInv, SettingsInv, NEW o \in Submitted
  PROVE  Settled /\ o \in Orders
BY DEF IInv, SetUpInv, SettingsInv, Settled, Submitted

(* What is due stays due. *)
LEMMA DueStays ==
  ASSUME IInv, SettingsInv, TasksInv, NEW o \in Submitted, AtWork(o),
         NEW t \in Int, NEW u \in Int, t <= u, IsDue(o, t)
  PROVE  IsDue(o, u)
<1>0. o \in Orders /\ Settled
  BY PlayedIsSettled
<1>1. eventNo[o] \in DOMAIN Script(o) /\ eventNo[o] \in Nat
  BY <1>0 DEF TasksInv
<1>2. Multiplier.num \in Int /\ Multiplier.den \in Nat
  BY <1>0, ConfigIsTyped
<1>3. Script(o) \in Seq(Events) /\ DOMAIN Script(o) = 1..Len(Script(o))
  BY ScriptsAreTyped
<1>4. eventNo[o] - 1 \in Nat /\ (eventNo[o] - 1) + 1 = eventNo[o]
  BY <1>1, <1>3
<1>5. DelaysOf(Script(o), eventNo[o]) \in Int
  BY <1>1, <1>3, <1>4, NextDelay
<1> DEFINE due  == Multiplier.num * DelaysOf(Script(o), eventNo[o])
           lost == (Multiplier.den - 1) * eventNo[o]
           dt   == Multiplier.den * t
           du   == Multiplier.den * u
<1>6. due \in Int /\ lost \in Int /\ dt \in Int /\ du \in Int
  BY <1>1, <1>2, <1>5
<1>7. dt <= du
  <2> DEFINE k == Multiplier.den
             v == u - t
  <2>1. k \in Nat /\ v \in Nat
    BY <1>2
  <2>2. u = t + v
    OBVIOUS
  <2> HIDE DEF k, v
  <2>3. k * (t + v) = k * t + k * v /\ k * v \in Nat /\ k * t \in Int
    BY <2>1
  <2> QED
    BY <2>2, <2>3 DEF k
<1>8. due <= dt + lost
  BY DEF IsDue, AreOver
<1> HIDE DEF due, lost, dt, du
<1>9. due <= du + lost
  BY <1>6, <1>7, <1>8
<1> QED
  BY <1>9 DEF due, lost, du, IsDue, AreOver

(* A worker takes an order only when the pool has one free.                *)
LEMMA PoolKept ==
  ASSUME IInv, SettingsInv, LimitsInv, NEW o \in Orders, RunSingleOrder(o)
  PROVE  Busy' # {} => Cardinality(Busy') <= PoolSize'
<1>1. /\ o \in Submitted /\ phase[o] \notin {"DONE", "FAILED"}
      /\ phase' \in [Orders -> TaskPhases]
      /\ \A p \in Orders \ {o} : phase'[p] = phase[p]
      /\ UNCHANGED <<setupVars, mainPhase, assignment>>
  BY TaskStep DEF IInv
<1>2. /\ Submitted' = Submitted /\ PoolSize' = PoolSize /\ Submitted \subseteq Orders
      /\ PoolSize \in Nat \ {0}
  BY <1>1, ConfigIsTyped, PlayedIsSettled DEF Submitted, PoolSize, setupVars, IInv, SetUpInv
<1>3. IsFiniteSet(Busy) /\ Cardinality(Busy) \in Nat
  <2>1. IsFiniteSet(Orders)
    BY BoundsAssumption, NumbersTo DEF Orders
  <2> QED
    BY <1>2, <2>1, FS_Subset, FS_CardinalityType DEF Busy
<1>4. Busy' \subseteq Busy \cup {o}
  BY <1>1, <1>2 DEF Busy
<1>5. CASE o \in Busy
  <2>1. Busy' \subseteq Busy
    BY <1>4, <1>5
  <2>2. Cardinality(Busy') <= Cardinality(Busy) /\ Cardinality(Busy') \in Nat
    BY <1>3, <2>1, FS_Subset, FS_CardinalityType
  <2> QED
    BY <1>2, <1>3, <1>5, <2>2 DEF LimitsInv
<1>6. CASE o \notin Busy
  <2>1. phase[o] = "QUEUED"
    BY <1>1, <1>6 DEF Busy
  <2>2. IsNextTask(o)
    BY <2>1 DEF RunSingleOrder, StartOrder, FailToStart, WakeUp, ResumeAfterPause,
                PublishEvent, FailEvent
  <2>3. IsFiniteSet(Busy \cup {o}) /\ Cardinality(Busy \cup {o}) = Cardinality(Busy) + 1
    BY <1>3, <1>6, FS_AddElement
  <2>4. Cardinality(Busy') <= Cardinality(Busy \cup {o}) /\ Cardinality(Busy') \in Nat
    BY <1>4, <2>3, FS_Subset, FS_CardinalityType
  <2> QED
    BY <1>2, <1>3, <2>2, <2>3, <2>4 DEF IsNextTask
<1> QED
  BY <1>5, <1>6

(* A step without a publication leaves what is known of the records.       *)
LEMMA RecordsUntouched ==
  ASSUME RecordsInv, MemoryInv, Records' = Records,
         UNCHANGED <<eventNo, publishedByStep, assignment, config>>
  PROVE  RecordsInv' /\ MemoryInv'
<1>1. Submitted' = Submitted /\ \A o : Script(o)' = Script(o)
  BY DEF Submitted, Script
<1>2. RecordsInv'
  BY <1>1 DEF RecordsInv
<1>3. MemoryInv'
  BY <1>1 DEF MemoryInv
<1> QED
  BY <1>2, <1>3

(* A task that wakes, goes on after a pause, or fails.                     *)
LEMMA QuietTaskStep ==
  ASSUME IInv, SettingsInv, WorkInv, NEW o \in Submitted,
         WakeUp(o) \/ ResumeAfterPause(o) \/ FailToStart(o) \/ FailEvent(o)
  PROVE  WorkInv'
<1>0. o \in Orders /\ Settled /\ RunSingleOrder(o)
  BY PlayedIsSettled DEF RunSingleOrder
<1>1. UNCHANGED <<setupVars, clock, mainPhase, assignment, eventNo, publishedByStep,
                  producerVars>>
  BY DEF WakeUp, ResumeAfterPause, FailToStart, FailEvent, TaskFails
<1>2. /\ Submitted' = Submitted /\ Submitted \subseteq Orders
      /\ \A p : Script(p)' = Script(p)
      /\ \A p, t : IsDue(p, t)' = IsDue(p, t)
      /\ phase \in [Orders -> TaskPhases]
      /\ config' = config /\ Multiplier' = Multiplier
  BY <1>1 DEF IInv, SetUpInv, Submitted, Script, IsDue, AreOver, DelaysOf, Multiplier, setupVars
<1>3. /\ \A p \in Orders \ {o} : phase'[p] = phase[p] /\ wakeAt'[p] = wakeAt[p]
      /\ wakeAt' \in [Orders -> Nat]
      /\ phase'[o] \in {"PAUSED", "READY", "FAILED"}
      /\ phase'[o] \in {"PAUSED", "READY"} =>
            /\ phase[o] \in {"SLEEPING", "PAUSED"}
            /\ clock >= wakeAt[o] \/ phase[o] = "PAUSED"
  <2>1. CASE WakeUp(o)
    <3>1. config.pauseDuration \in Int
      BY <1>0, ConfigIsTyped
    <3>2. PausesAt(Event(o)) => config.pauseDuration > 0
      BY DEF PausesAt
    <3>3. PausesAt(Event(o)) => clock + config.pauseDuration \in Nat
      BY <3>1, <3>2 DEF WorkInv, TasksInv
    <3> DEFINE w == IF PausesAt(Event(o)) THEN clock + config.pauseDuration ELSE 0
               ph == IF PausesAt(Event(o)) THEN "PAUSED" ELSE "READY"
    <3>4. phase' = [phase EXCEPT ![o] = ph] /\ wakeAt' = [wakeAt EXCEPT ![o] = w]
      BY <2>1 DEF WakeUp
    <3>5. w \in Nat /\ ph \in {"PAUSED", "READY"}
      BY <3>3
    <3> HIDE DEF w, ph
    <3>6. clock >= wakeAt[o] /\ phase[o] = "SLEEPING"
      BY <1>0, <2>1 DEF WakeUp, IsAwake, WorkInv, TasksInv
    <3> QED
      BY <1>0, <1>2, <3>4, <3>5, <3>6 DEF WorkInv, TasksInv
  <2>2. CASE ResumeAfterPause(o)
    BY <1>0, <1>2, <2>2 DEF ResumeAfterPause, IsAwake, WorkInv, TasksInv
  <2>3. CASE FailToStart(o) \/ FailEvent(o)
    BY <1>0, <1>2, <2>3 DEF FailToStart, FailEvent, TaskFails, WorkInv, TasksInv
  <2> QED
    BY <2>1, <2>2, <2>3
<1>4. TasksInv'
  <2>1. clock' \in Nat /\ eventNo' \in [Orders -> Nat] /\ wakeAt' \in [Orders -> Nat]
    BY <1>1, <1>3 DEF WorkInv, TasksInv
  <2>2. \A p \in Orders \ Submitted' : phase'[p] = "QUEUED"
    BY <1>2, <1>3 DEF WorkInv, TasksInv
  <2>3. \A p \in Orders : phase'[p] = "QUEUED" => eventNo'[p] = 0
    BY <1>1, <1>3 DEF WorkInv, TasksInv
  <2>4. \A p \in Submitted' :
           /\ phase'[p] \in {"SLEEPING", "PAUSED", "READY"} =>
                eventNo'[p] \in DOMAIN Script(p)' /\ Multiplier'.den # 0
           /\ phase'[p] = "DONE" => eventNo'[p] = Len(Script(p)') + 1
    BY <1>1, <1>2, <1>3 DEF WorkInv, TasksInv, AtWork
  <2> QED
    BY <2>1, <2>2, <2>3, <2>4 DEF TasksInv, AtWork
<1>5. LimitsInv'
  <2>1. mainPhase' = mainPhase /\ buffer' = buffer
    BY <1>1 DEF producerVars
  <2> QED
    BY <1>0, <2>1, PoolKept DEF WorkInv, LimitsInv
<1>6. RecordsInv' /\ MemoryInv'
  <2>1. Records' = Records
    BY <1>1 DEF Records, producerVars
  <2> QED
    BY <1>1, <1>2, <2>1, RecordsUntouched DEF WorkInv
<1>7. DelaysInv'
  <2>1. ASSUME NEW p \in Submitted
        PROVE  /\ phase'[p] = "SLEEPING" => IsDue(p, wakeAt'[p])
               /\ phase'[p] \in {"PAUSED", "READY"} => IsDue(p, clock)
    <3>1. CASE p # o
      BY <1>2, <1>3, <3>1 DEF WorkInv, DelaysInv
    <3>2. CASE p = o
      <4>1. ASSUME phase'[o] \in {"PAUSED", "READY"} PROVE IsDue(o, clock)
        <5>1. CASE phase[o] = "PAUSED"
          BY <5>1 DEF WorkInv, DelaysInv
        <5>2. CASE phase[o] = "SLEEPING" /\ clock >= wakeAt[o]
          <6>1. IsDue(o, wakeAt[o]) /\ wakeAt[o] \in Int /\ clock \in Int
            BY <1>0, <5>2 DEF WorkInv, DelaysInv, TasksInv
          <6> QED
            BY <5>2, <6>1, DueStays DEF WorkInv, AtWork
        <5> QED
          BY <1>3, <4>1, <5>1, <5>2
      <4> QED
        BY <1>3, <3>2, <4>1
    <3> QED
      BY <3>1, <3>2
  <2> QED
    BY <1>1, <1>2, <2>1 DEF DelaysInv
<1> QED
  BY <1>4, <1>5, <1>6, <1>7 DEF WorkInv

(* One more delay, waited for up to a cut-off. *)
LEMMA CutOffsAdd ==
  ASSUME NEW m \in Int, NEW k \in Nat, k # 0, NEW a \in Int, NEW x \in Nat,
         NEW b, b = a + x, NEW w \in Nat, NEW c \in Nat, NEW n \in Nat,
         m * x <= k * w + k - 1,
         n # 0 => m * a <= k * c + (k - 1) * n, n = 0 => a = 0
  PROVE  m * b <= k * (c + w) + (k - 1) * (n + 1)
<1> DEFINE ma == m * a
           mx == m * x
           kc == k * c
           kw == k * w
           j  == k - 1
           jn == j * n
<1>1. ma \in Int /\ mx \in Int /\ kw \in Int /\ kc \in Nat /\ j \in Nat /\ jn \in Int
  OBVIOUS
<1>2. m * b = ma + mx
  OBVIOUS
<1>3. k * (c + w) = kc + kw
  OBVIOUS
<1>4. (k - 1) * (n + 1) = jn + j
  <2>1. j * (n + 1) = j * n + j
    <3> HIDE DEF j
    <3> QED
      BY <1>1
  <2> QED
    BY <2>1
<1>5. ma <= kc + jn
  <2>1. CASE n = 0
    <3>1. m * 0 = 0 /\ j * 0 = 0
      OBVIOUS
    <3> QED
      BY <1>1, <2>1, <3>1
  <2> QED
    BY <2>1
<1>6. mx <= kw + j
  BY <1>1
<1>7. ma + mx <= (kc + kw) + (jn + j)
  <2> HIDE DEF ma, mx, kc, kw, jn, j
  <2> QED
    BY <1>1, <1>5, <1>6
<1> HIDE DEF ma, mx, kc, kw, jn
<1> QED
  BY <1>2, <1>3, <1>4, <1>7

(* What entering an event does to the delays and the memory of the others. *)
LEMMA DelaysKept ==
  ASSUME IInv, SettingsInv, WorkInv, NEW o \in Submitted,
         EnterEvent(o, eventNo[o] + 1),
         eventNo[o] \in 0..Len(Script(o)), eventNo[o] = 0 => Script(o) # <<>>,
         eventNo[o] # 0 => IsDue(o, clock), Multiplier.den # 0,
         UNCHANGED <<clock, assignment, config>>
  PROVE  DelaysInv'
<1> DEFINE s == Script(o)
           n == eventNo[o]
           m == Multiplier.num
           k == Multiplier.den
<1>1. /\ o \in Orders /\ Settled /\ Submitted' = Submitted /\ Submitted \subseteq Orders
      /\ \A p : Script(p)' = Script(p)
      /\ Multiplier' = Multiplier
  BY PlayedIsSettled DEF IInv, SetUpInv, Submitted, Script, Multiplier
<1>2. /\ eventNo' = [eventNo EXCEPT ![o] = @ + 1]
      /\ phase'[o] \in {"SLEEPING", "DONE"}
      /\ \A p \in Orders \ {o} : wakeAt'[p] = wakeAt[p] /\ phase'[p] = phase[p]
      /\ phase'[o] = "SLEEPING" =>
           /\ n + 1 \in DOMAIN s
           /\ wakeAt'[o] = clock + AdjustedDelay(s[n + 1])
  BY <1>1, Entering DEF WorkInv
<1>3. /\ eventNo'[o] = n + 1 /\ n \in Nat /\ clock \in Nat
      /\ \A p \in Orders \ {o} : eventNo'[p] = eventNo[p]
  BY <1>1, <1>2 DEF WorkInv, TasksInv
<1>4. s \in Seq(Events) /\ m \in Int /\ k \in Nat /\ k # 0 /\ \A i \in DOMAIN s : s[i].delay \in Nat
  BY <1>1, ScriptsAreTyped, ConfigIsTyped
<1>5. ASSUME phase'[o] = "SLEEPING"
      PROVE  AreOver(s, n + 1, wakeAt'[o])
  <2> DEFINE A == DelaysOf(s, n)
             B == DelaysOf(s, n + 1)
             x == s[n + 1].delay
             w == AdjustedDelay(s[n + 1])
  <2>1. n + 1 \in DOMAIN s /\ wakeAt'[o] = clock + w
    BY <1>2, <1>5
  <2>2. A \in Int /\ B \in Int /\ B = A + x /\ DelaysOf(s, 0) = 0 /\ x \in Nat
    BY <1>3, <1>4, <2>1, NextDelay
  <2>3. w \in Nat /\ m * x <= k * w + k - 1
    BY <1>4, <2>2, DelayType
  <2>4. n # 0 => m * A <= k * clock + (k - 1) * n
    BY DEF IsDue, AreOver
  <2>5. n = 0 => A = 0
    BY <2>2
  <2> HIDE DEF A, B, x, w, s, n, m, k
  <2>6. m * B <= k * (clock + w) + (k - 1) * (n + 1)
    BY <1>3, <1>4, <2>2, <2>3, <2>4, <2>5, CutOffsAdd
  <2> QED
    BY <2>1, <2>6 DEF AreOver, B, n, s, m, k
<1>6. ASSUME NEW p \in Submitted
      PROVE  /\ phase'[p] = "SLEEPING" => IsDue(p, wakeAt[p])'
             /\ phase'[p] \in {"PAUSED", "READY"} => IsDue(p, clock)'
  <2>0. \A t, i : AreOver(Script(p), i, t)' = AreOver(Script(p), i, t)
    BY <1>1 DEF AreOver, DelaysOf
  <2>1. CASE p = o
    <3>1. IsDue(o, wakeAt[o])' <=> AreOver(s, n + 1, wakeAt'[o])
      BY <1>1, <1>3 DEF IsDue, AreOver, DelaysOf
    <3> QED
      BY <1>2, <1>5, <2>1, <3>1
  <2>2. CASE p # o
    <3>1. /\ IsDue(p, wakeAt[p])' <=> IsDue(p, wakeAt[p])
          /\ IsDue(p, clock)' <=> IsDue(p, clock)
      BY <1>1, <1>2, <1>3, <2>2 DEF IsDue, AreOver, DelaysOf
    <3> QED
      BY <1>1, <1>2, <2>2, <3>1 DEF WorkInv, DelaysInv
  <2> QED
    BY <2>1, <2>2
<1> QED
  BY <1>1, <1>6 DEF DelaysInv

(* The first event of an order. *)
LEMMA StartStep ==
  ASSUME IInv, SettingsInv, WorkInv, NEW o \in Submitted, StartOrder(o)
  PROVE  WorkInv'
<1>1. /\ o \in Orders /\ Settled /\ RunSingleOrder(o) /\ Submitted \subseteq Orders
  BY PlayedIsSettled DEF RunSingleOrder, IInv, SetUpInv
<1>2. /\ UNCHANGED <<setupVars, clock, mainPhase, assignment, publishedByStep, producerVars>>
      /\ Script(o) # <<>> /\ Multiplier.den # 0
      /\ eventNo[o] = 0 /\ EnterEvent(o, 1)
  BY <1>1 DEF StartOrder, CanStart, IsNextTask, WorkInv, TasksInv
<1>3. Len(Script(o)) \in Nat
  BY ScriptsAreTyped
<1>4. /\ EnterEvent(o, eventNo[o] + 1) /\ eventNo[o] \in 0..Len(Script(o))
      /\ UNCHANGED <<clock, assignment, config>>
  BY <1>2, <1>3 DEF setupVars
<1>5. TasksInv' /\ eventNo' = [eventNo EXCEPT ![o] = @ + 1]
  BY <1>1, <1>2, <1>4, Entering DEF WorkInv
<1>6. DelaysInv'
  BY <1>2, <1>4, DelaysKept
<1>7. LimitsInv'
  <2>1. mainPhase' = mainPhase /\ buffer' = buffer
    BY <1>2 DEF producerVars
  <2> QED
    BY <1>1, <2>1, PoolKept DEF WorkInv, LimitsInv
<1>8. /\ Submitted' = Submitted /\ Records' = Records
      /\ config' = config /\ publishedByStep' = publishedByStep
      /\ \A p : Script(p)' = Script(p)
  BY <1>2 DEF Submitted, Script, Records, producerVars, setupVars
<1>9. /\ eventNo'[o] = 1 /\ eventNo[o] = 0
      /\ \A p \in Orders \ {o} : eventNo'[p] = eventNo[p]
  BY <1>1, <1>2, <1>5 DEF WorkInv, TasksInv
<1>10. \A r \in Records : r.orderIndex # o
  <2>1. ASSUME NEW r \in Records, r.orderIndex = o PROVE FALSE
    <3>1. r.event \in DOMAIN Script(o) /\ r.event < eventNo[o]
      BY <2>1 DEF WorkInv, RecordsInv
    <3>2. DOMAIN Script(o) = 1..Len(Script(o))
      BY ScriptsAreTyped
    <3> QED
      BY <1>3, <1>9, <3>1, <3>2
  <2> QED
    BY <2>1
<1>11. RecordsInv'
  <2>1. ASSUME NEW r \in Records
        PROVE  /\ DOMAIN r = {"orderIndex", "event", "value"}
               /\ r.orderIndex \in Submitted
               /\ r.event \in DOMAIN Script(r.orderIndex)
               /\ r.event < eventNo'[r.orderIndex]
    BY <1>1, <1>9, <1>10 DEF WorkInv, RecordsInv
  <2>2. ASSUME NEW p \in Submitted, ~config.dryRun, NEW e \in 1..(eventNo'[p] - 1)
        PROVE  \E r \in Records : r.orderIndex = p /\ r.event = e
    <3>1. CASE p = o
      <4>1. 1..(eventNo'[p] - 1) = {}
        BY <1>9, <3>1
      <4> QED
        BY <4>1
    <3>2. CASE p # o
      BY <1>1, <1>9, <2>2, <3>2 DEF WorkInv, RecordsInv
    <3> QED
      BY <3>1, <3>2
  <2> QED
    BY <1>8, <2>1, <2>2 DEF RecordsInv
<1>12. MemoryInv'
  <2>1. ASSUME NEW p \in Orders, ~config.dryRun, NEW s \in DOMAIN publishedByStep[p]
        PROVE  \E q \in Records :
                  /\ q.orderIndex = p /\ q.event < eventNo'[p]
                  /\ Script(p)[q.event].step = s
                  /\ q.value = publishedByStep[p][s]
    <3>1. PICK q \in Records :
                  /\ q.orderIndex = p /\ q.event < eventNo[p]
                  /\ Script(p)[q.event].step = s
                  /\ q.value = publishedByStep[p][s]
      BY <2>1 DEF WorkInv, MemoryInv
    <3>2. p # o
      BY <1>10, <3>1
    <3>3. eventNo'[p] = eventNo[p]
      BY <1>1, <1>9, <3>2
    <3> QED
      BY <3>1, <3>3
  <2>2. DOMAIN publishedByStep' = Orders
        /\ \A p \in Orders : DOMAIN publishedByStep[p] # {} => p \in Submitted
    BY <1>8 DEF WorkInv, MemoryInv
  <2> QED
    BY <1>8, <2>1, <2>2 DEF MemoryInv
<1> QED
  BY <1>5, <1>6, <1>7, <1>11, <1>12 DEF WorkInv

(* A published event: its record joins the others, the task remembers it   *)
(* unless it is a duplicate, and goes on.                                  *)
LEMMA PublishStep ==
  ASSUME IInv, SettingsInv, WorkInv, NEW o \in Submitted, PublishEvent(o)
  PROVE  WorkInv'
<1>1. /\ o \in Orders /\ Settled /\ RunSingleOrder(o) /\ Submitted \subseteq Orders
  BY PlayedIsSettled DEF RunSingleOrder, IInv, SetUpInv
<1>2. PICK value \in {Payload(o)} \ {Null} : Publish(o, value) /\ Remember(o, value)
  BY DEF PublishEvent
<1>3. /\ UNCHANGED <<setupVars, clock, mainPhase, assignment, ordersTopic, undelivered>>
      /\ phase[o] = "READY" /\ ~QueueIsFull /\ EnterEvent(o, eventNo[o] + 1)
  BY DEF PublishEvent
<1> DEFINE n == eventNo[o]
           r == [orderIndex |-> o, event |-> n, value |-> value]
<1>4. /\ Len(Script(o)) \in Nat /\ n \in DOMAIN Script(o) /\ n \in Nat
      /\ n # 0 /\ n \in 0..Len(Script(o)) /\ IsDue(o, clock) /\ Multiplier.den # 0
  <2>1. n \in DOMAIN Script(o) /\ IsDue(o, clock) /\ Multiplier.den # 0
    BY <1>3 DEF WorkInv, TasksInv, AtWork, DelaysInv
  <2> DEFINE l == Len(Script(o))
  <2>2. DOMAIN Script(o) = 1..l /\ l \in Nat
    BY ScriptsAreTyped
  <2> HIDE DEF n, l
  <2>3. n \in 1..l
    BY <2>1, <2>2
  <2>4. n \in Nat /\ n # 0 /\ n \in 0..l
    BY <2>2, <2>3
  <2> QED
    BY <2>1, <2>2, <2>4 DEF l
<1>5. UNCHANGED <<clock, assignment, config>>
  BY <1>3 DEF setupVars
<1>6. TasksInv' /\ eventNo' = [eventNo EXCEPT ![o] = @ + 1]
  BY <1>1, <1>3, <1>4, <1>5, Entering DEF WorkInv
<1>7. DelaysInv'
  BY <1>3, <1>4, <1>5, DelaysKept
<1>8. /\ Submitted' = Submitted /\ \A p : Script(p)' = Script(p)
      /\ config' = config
  BY <1>5 DEF Submitted, Script
<1>9. /\ eventNo'[o] = n + 1
      /\ \A p \in Orders \ {o} : eventNo'[p] = eventNo[p]
      /\ \A p \in Orders : eventNo[p] \in Nat /\ eventNo'[p] \in Nat
  BY <1>1, <1>6 DEF WorkInv, TasksInv
<1>10. /\ config.dryRun => Records' = Records /\ buffer' = buffer
       /\ ~config.dryRun => Records' = Records \cup {r} /\ buffer' = buffer \cup {r}
  BY <1>2, <1>3 DEF Publish, Records
<1>11. /\ DOMAIN r = {"orderIndex", "event", "value"}
       /\ r.orderIndex = o /\ r.event = n /\ r.value = value
  OBVIOUS
<1> HIDE DEF r, n
<1>12. LimitsInv'
  <2>1. Busy' # {} => Cardinality(Busy') <= PoolSize'
    BY <1>1, PoolKept DEF WorkInv
  <2>2. IsFiniteSet(buffer') /\ Cardinality(buffer') <= QueueLimit
    <3>1. IsFiniteSet(buffer) /\ Cardinality(buffer) <= QueueLimit
      BY DEF WorkInv, LimitsInv
    <3>2. CASE config.dryRun
      BY <1>10, <3>1, <3>2
    <3>3. CASE ~config.dryRun
      <4>1. ~(Cardinality(buffer) >= QueueLimit)
        BY <1>3, <3>3 DEF QueueIsFull
      <4>2. IsFiniteSet(buffer \cup {r}) /\ Cardinality(buffer \cup {r})
              = IF r \in buffer THEN Cardinality(buffer) ELSE Cardinality(buffer) + 1
        BY <3>1, FS_AddElement
      <4>3. Cardinality(buffer) \in Nat /\ QueueLimit \in Nat
        BY <3>1, FS_CardinalityType, BoundsAssumption
      <4> QED
        BY <1>10, <3>3, <4>1, <4>2, <4>3
    <3> QED
      BY <3>2, <3>3
  <2>3. mainPhase' # "COMPLETED"
    <3>1. ASSUME mainPhase = "COMPLETED" PROVE FALSE
      <4>1. phase[o] = "DONE"
        BY <3>1 DEF IInv, OutcomeInv, AllSucceeded
      <4> QED
        BY <1>3, <4>1
    <3> QED
      BY <1>3, <3>1
  <2> QED
    BY <2>1, <2>2, <2>3 DEF LimitsInv
<1>13. RecordsInv'
  <2>1. ASSUME NEW q \in Records'
        PROVE  /\ DOMAIN q = {"orderIndex", "event", "value"}
               /\ q.orderIndex \in Submitted
               /\ q.event \in DOMAIN Script(q.orderIndex)
               /\ q.event < eventNo'[q.orderIndex]
    <3>1. CASE q = r
      BY <1>4, <1>9, <1>11, <3>1
    <3>2. CASE q \in Records
      <4>1. /\ DOMAIN q = {"orderIndex", "event", "value"}
            /\ q.orderIndex \in Submitted
            /\ q.event \in DOMAIN Script(q.orderIndex)
            /\ q.event < eventNo[q.orderIndex]
        BY <3>2 DEF WorkInv, RecordsInv
      <4> DEFINE p == q.orderIndex
                 e == q.event
      <4>2. e \in Int
        <5>1. DOMAIN Script(p) = 1..Len(Script(p))
          BY <4>1, ScriptsAreTyped
        <5> HIDE DEF p, e
        <5> QED
          BY <4>1, <5>1 DEF p, e
      <4>3. eventNo'[p] = eventNo[p] \/ (p = o /\ eventNo'[p] = eventNo[p] + 1)
        BY <1>1, <1>9, <4>1 DEF n
      <4>4. eventNo[p] \in Nat
        BY <1>1, <1>9, <4>1
      <4> QED
        BY <4>1, <4>2, <4>3, <4>4
    <3> QED
      BY <1>10, <3>1, <3>2
  <2>2. ASSUME NEW p \in Submitted, ~config.dryRun, NEW e \in 1..(eventNo'[p] - 1)
        PROVE  \E q \in Records' : q.orderIndex = p /\ q.event = e
    <3>1. CASE p = o /\ e = n
      BY <1>10, <1>11, <2>2, <3>1
    <3>2. CASE ~(p = o /\ e = n)
      <4>1. e \in 1..(eventNo[p] - 1)
        BY <1>1, <1>4, <1>9, <3>2 DEF n
      <4>2. PICK q \in Records : q.orderIndex = p /\ q.event = e
        BY <2>2, <4>1 DEF WorkInv, RecordsInv
      <4> QED
        BY <1>10, <2>2, <4>2
    <3> QED
      BY <3>1, <3>2
  <2> QED
    BY <1>8, <2>1, <2>2 DEF RecordsInv
<1>14. MemoryInv'
  <2>1. DOMAIN publishedByStep' = Orders
        /\ \A p \in Orders \ {o} : publishedByStep'[p] = publishedByStep[p]
    BY <1>2 DEF Remember, WorkInv, MemoryInv
  <2>2. /\ Event(o).duplicateOfStep # Null => publishedByStep'[o] = publishedByStep[o]
        /\ Event(o).duplicateOfStep = Null =>
             publishedByStep'[o] =
               [s \in DOMAIN publishedByStep[o] \cup {Event(o).step} |->
                  IF s = Event(o).step THEN value ELSE publishedByStep[o][s]]
    BY <1>1, <1>2 DEF Remember, WorkInv, MemoryInv
  <2>4. ASSUME NEW p \in Orders, NEW s \in DOMAIN publishedByStep'[p]
        PROVE  p \in Submitted
    BY <2>1, <2>4 DEF WorkInv, MemoryInv
  <2>3. ASSUME NEW p \in Orders, ~config.dryRun, NEW s \in DOMAIN publishedByStep'[p]
        PROVE  \E q \in Records' :
                  /\ q.orderIndex = p /\ q.event < eventNo'[p]
                  /\ Script(p)[q.event].step = s
                  /\ q.value = publishedByStep'[p][s]
    <3>1. CASE s \in DOMAIN publishedByStep[p]
               /\ publishedByStep'[p][s] = publishedByStep[p][s]
      <4>1. PICK q \in Records :
                  /\ q.orderIndex = p /\ q.event < eventNo[p]
                  /\ Script(p)[q.event].step = s
                  /\ q.value = publishedByStep[p][s]
        BY <2>3, <3>1 DEF WorkInv, MemoryInv
      <4>2. q \in Records' /\ q.event < eventNo'[p]
        BY <1>10, <1>13, <2>3, <4>1 DEF RecordsInv
      <4> QED
        BY <3>1, <4>1, <4>2
    <3>2. CASE ~(s \in DOMAIN publishedByStep[p]
                 /\ publishedByStep'[p][s] = publishedByStep[p][s])
      <4>1. p = o
        BY <1>1, <2>1, <3>2
      <4>2. publishedByStep'[o] =
              [t \in DOMAIN publishedByStep[o] \cup {Event(o).step} |->
                 IF t = Event(o).step THEN value ELSE publishedByStep[o][t]]
        BY <2>2, <2>3, <3>2, <4>1
      <4>3. s = Event(o).step /\ publishedByStep'[o][s] = value
        BY <2>3, <3>2, <4>1, <4>2
      <4>4. r \in Records' /\ n < eventNo'[o]
        BY <1>4, <1>9, <1>10, <2>3
      <4>5. Script(o)[n].step = s
        BY <4>3 DEF Event, n
      <4> QED
        BY <1>11, <4>1, <4>3, <4>4, <4>5
    <3> QED
      BY <3>1, <3>2
  <2> QED
    BY <1>8, <2>1, <2>3, <2>4 DEF MemoryInv
<1> QED
  BY <1>6, <1>7, <1>12, <1>13, <1>14 DEF WorkInv

(* Before the orders are submitted nothing is at work and nothing is       *)
(* published; submitting them starts none.                                 *)
LEMMA SetUpStep ==
  ASSUME IInv, SettingsInv, WorkInv,
         ReadConfiguration \/ RejectConfiguration \/ MissScenario \/ SubmitTasks
  PROVE  WorkInv'
<1>1. /\ mainPhase \in {"STARTING", "LOADING"} /\ mainPhase' # "COMPLETED"
      /\ UNCHANGED <<clock, taskVars, producerVars>>
      /\ assignment' = assignment \/ DOMAIN assignment' \subseteq Orders
  BY DEF ReadConfiguration, RejectConfiguration, MissScenario, SubmitTasks, MainGoes
<1>2. /\ Submitted = {} /\ Records = {}
      /\ Submitted' \subseteq Orders
  BY <1>1 DEF IInv, SetUpInv, Submitted
<1>3. /\ \A o \in Orders : phase'[o] = "QUEUED" /\ eventNo'[o] = 0
      /\ \A o \in Orders : DOMAIN publishedByStep'[o] = {}
      /\ DOMAIN publishedByStep' = Orders
      /\ Records' = {} /\ buffer' = buffer
  BY <1>1, <1>2 DEF taskVars, producerVars, Records, WorkInv, TasksInv, MemoryInv
<1>4. TasksInv'
  BY <1>1, <1>2, <1>3 DEF taskVars, WorkInv, TasksInv, AtWork
<1>5. LimitsInv'
  <2>1. Busy' = {}
    BY <1>2, <1>3 DEF Busy
  <2> QED
    BY <1>1, <1>3, <2>1 DEF WorkInv, LimitsInv
<1>6. RecordsInv' /\ MemoryInv'
  <2>1. \A o \in Submitted' : 1..(eventNo'[o] - 1) = {}
    BY <1>2, <1>3
  <2> QED
    BY <1>2, <1>3, <2>1 DEF RecordsInv, MemoryInv
<1>7. DelaysInv'
  BY <1>2, <1>3 DEF DelaysInv
<1> QED
  BY <1>4, <1>5, <1>6, <1>7 DEF WorkInv

(* The main thread, the producer and the clock leave the tasks as they are.*)
LEMMA OtherStep ==
  ASSUME IInv, SettingsInv, WorkInv,
         \/ CollectResults \/ SeeFailure \/ Abort \/ Flush
         \/ Acknowledge \/ Tick
         \/ UNCHANGED vars
  PROVE  WorkInv'
<1>1. /\ UNCHANGED <<setupVars, assignment, taskVars>>
      /\ clock' \in Nat /\ clock' >= clock /\ clock \in Nat
  BY DEF CollectResults, SeeFailure, Abort, Flush, Acknowledge, Tick, vars, WorkInv, TasksInv
<1>2. Records' = Records /\ buffer' \subseteq buffer
  <2>1. CASE Acknowledge
    BY <2>1 DEF Acknowledge, Records
  <2>2. CASE ~Acknowledge
    BY <2>2 DEF CollectResults, SeeFailure, Abort, Flush, Tick, vars, producerVars, Records
  <2> QED
    BY <2>1, <2>2
<1>3. mainPhase' = "COMPLETED" => buffer = {}
  BY DEF CollectResults, SeeFailure, Abort, Flush, MainGoes, IsFlushed, Acknowledge, Tick,
         Exited, vars, WorkInv, LimitsInv
<1>4. /\ Submitted' = Submitted /\ \A o : Script(o)' = Script(o)
      /\ \A o, t : IsDue(o, t)' = IsDue(o, t)
      /\ Multiplier' = Multiplier
      /\ config' = config /\ phase' = phase /\ eventNo' = eventNo /\ wakeAt' = wakeAt
      /\ publishedByStep' = publishedByStep
  BY <1>1 DEF setupVars, taskVars, Submitted, Script, Multiplier, IsDue, AreOver, DelaysOf
<1>5. TasksInv'
  BY <1>1, <1>4 DEF WorkInv, TasksInv, AtWork
<1>6. LimitsInv'
  <2>1. Busy' = Busy /\ PoolSize' = PoolSize
    BY <1>4 DEF Busy, PoolSize
  <2>2. IsFiniteSet(buffer) /\ Cardinality(buffer) <= QueueLimit
    BY DEF WorkInv, LimitsInv
  <2>3. IsFiniteSet(buffer') /\ Cardinality(buffer') <= Cardinality(buffer)
        /\ Cardinality(buffer') \in Nat /\ Cardinality(buffer) \in Nat
    BY <1>2, <2>2, FS_Subset, FS_CardinalityType
  <2>4. Cardinality(buffer') <= QueueLimit
    BY <2>2, <2>3, BoundsAssumption
  <2> QED
    BY <1>2, <1>3, <2>1, <2>3, <2>4 DEF WorkInv, LimitsInv
<1>7. RecordsInv' /\ MemoryInv'
  BY <1>1, <1>2, <1>4, RecordsUntouched DEF WorkInv
<1>8. DelaysInv'
  <2>1. ASSUME NEW o \in Submitted, phase[o] \in {"PAUSED", "READY"} PROVE IsDue(o, clock')
    <3>1. IsDue(o, clock)
      BY <2>1 DEF WorkInv, DelaysInv
    <3> QED
      BY <1>1, <2>1, <3>1, DueStays DEF WorkInv, AtWork
  <2> QED
    BY <1>4, <2>1 DEF WorkInv, DelaysInv
<1> QED
  BY <1>5, <1>6, <1>7, <1>8 DEF WorkInv

LEMMA WorkKept ==
  ASSUME IInv, SettingsInv, WorkInv, [Next]_vars
  PROVE  WorkInv'
<1>1. CASE MainThread
  BY <1>1, SetUpStep, OtherStep DEF MainThread
<1>2. ASSUME NEW o \in Orders, RunSingleOrder(o) PROVE WorkInv'
  BY <1>2, StartStep, PublishStep, QuietTaskStep DEF RunSingleOrder
<1>3. CASE Acknowledge \/ Tick \/ UNCHANGED vars
  BY <1>3, OtherStep
<1> QED
  BY <1>1, <1>2, <1>3 DEF Next

LEMMA WorkAlways == Spec => [](IInv /\ SettingsInv /\ WorkInv)
<1>1. Init => WorkInv
  <2> SUFFICES ASSUME Init PROVE WorkInv
    OBVIOUS
  <2>1. Submitted = {} /\ Records = {} /\ Busy = {} /\ buffer = {}
    BY DEF Init, Submitted, Records, Busy
  <2>2. TasksInv
    BY <2>1 DEF Init, TasksInv
  <2>3. LimitsInv
    BY <2>1, FS_EmptySet, BoundsAssumption DEF Init, LimitsInv
  <2>4. RecordsInv /\ MemoryInv /\ DelaysInv
    BY <2>1 DEF Init, RecordsInv, MemoryInv, DelaysInv
  <2> QED
    BY <2>2, <2>3, <2>4 DEF WorkInv
<1>2. IInv /\ SettingsInv /\ WorkInv /\ [Next]_vars => WorkInv'
  BY WorkKept
<1> QED
  BY <1>1, <1>2, InvariantAlways, SettingsAlways, PTL DEF Spec

(* The types of the state; the workers never outnumber the pool, nor the   *)
(* buffered records the queue, and a record belongs to a submitted order.  *)
THEOREM TypeCorrect == Spec => []TypeOK
<1>1. IInv /\ SettingsInv /\ WorkInv => TypeOK
  <2> SUFFICES ASSUME IInv, SettingsInv, WorkInv PROVE TypeOK
    OBVIOUS
  <2>1. /\ clock \in Nat /\ assignment \in Seq(Names)
        /\ mainPhase \in {"STARTING", "LOADING", "WAITING", "UNWINDING",
                          "FLUSHING", "COMPLETED", "ABORTED"}
        /\ phase \in [Orders -> TaskPhases]
        /\ eventNo \in [Orders -> Nat] /\ wakeAt \in [Orders -> Nat]
    BY DEF IInv, SetUpInv, SettingsInv, WorkInv, TasksInv
  <2>2. \A r \in Records : /\ DOMAIN r = {"orderIndex", "event", "value"}
                           /\ r.orderIndex \in Submitted
                           /\ r.event \in DOMAIN Script(r.orderIndex)
    BY DEF WorkInv, RecordsInv
  <2>3. Cardinality(buffer) <= QueueLimit
    BY DEF WorkInv, LimitsInv
  <2>4. ASSUME Busy # {}
        PROVE  Cardinality(Busy) \in 0..1 \cup 0..config.maxWorkers
    <3>1. PICK o \in Busy : o \in Submitted
      BY <2>4 DEF Busy
    <3>2. Settled /\ config.maxWorkers \in Int /\ PoolSize \in Nat
      BY <3>1, PlayedIsSettled, ConfigIsTyped
    <3>3. IsFiniteSet(Busy)
      <4>1. IsFiniteSet(Orders)
        BY BoundsAssumption, NumbersTo DEF Orders
      <4>2. Busy \subseteq Orders
        BY DEF Busy, IInv, SetUpInv
      <4> QED
        BY <4>1, <4>2, FS_Subset
    <3>4. Cardinality(Busy) \in Nat /\ Cardinality(Busy) <= PoolSize
      BY <2>4, <3>3, FS_CardinalityType DEF WorkInv, LimitsInv
    <3> QED
      BY <3>2, <3>4 DEF PoolSize
  <2> QED
    BY <2>1, <2>2, <2>3, <2>4 DEF TypeOK
<1> QED
  BY <1>1, WorkAlways, PTL

(* When a run completes, each event of each order has been delivered or    *)
(* reported as failed.                                                     *)
THEOREM CompletionIsTold == Spec => []CompletedIsPublished
<1>1. IInv /\ SettingsInv /\ WorkInv => CompletedIsPublished
  <2> SUFFICES ASSUME IInv, SettingsInv, WorkInv, mainPhase = "COMPLETED", ~config.dryRun,
                      NEW o \in Submitted
               PROVE  {r.event : r \in {x \in ordersTopic \cup undelivered :
                                          x.orderIndex = o}} = DOMAIN Script(o)
    BY DEF CompletedIsPublished
  <2>1. o \in Orders /\ phase[o] = "DONE" /\ buffer = {}
    BY PlayedIsSettled DEF IInv, OutcomeInv, AllSucceeded, WorkInv, LimitsInv
  <2>2. eventNo[o] = Len(Script(o)) + 1
    BY <2>1 DEF WorkInv, TasksInv
  <2>3. DOMAIN Script(o) = 1..(eventNo[o] - 1)
    BY <2>2, ScriptsAreTyped
  <2>4. Records = ordersTopic \cup undelivered
    BY <2>1 DEF Records
  <2>5. ASSUME NEW e \in DOMAIN Script(o)
        PROVE  \E r \in Records : r.orderIndex = o /\ r.event = e
    BY <2>3 DEF WorkInv, RecordsInv
  <2>6. ASSUME NEW r \in Records, r.orderIndex = o
        PROVE  r.event \in DOMAIN Script(o)
    BY <2>6 DEF WorkInv, RecordsInv
  <2> QED
    BY <2>4, <2>5, <2>6
<1> QED
  BY <1>1, WorkAlways, PTL

(* What a step does to the records: a publication adds one, every other    *)
(* step keeps them, and the orders change only while there are none.       *)
LEMMA RecordsStep ==
  ASSUME IInv, [Next]_vars
  PROVE  \/ Records' = Records /\ buffer' \subseteq buffer
              /\ (assignment' = assignment \/ Records = {})
         \/ \E o \in Submitted : PublishEvent(o)
<1>1. CASE MainThread
  <2>1. UNCHANGED producerVars
    BY <1>1 DEF MainThread, ReadConfiguration, RejectConfiguration, MissScenario,
                SubmitTasks, CollectResults, SeeFailure, Abort, Flush
  <2>2. assignment' = assignment \/ Records = {}
    BY <1>1 DEF MainThread, ReadConfiguration, RejectConfiguration, MissScenario,
                SubmitTasks, CollectResults, SeeFailure, Abort, Flush, MainGoes, IInv,
                SetUpInv
  <2> QED
    BY <2>1, <2>2 DEF producerVars, Records
<1>2. ASSUME NEW o \in Orders, RunSingleOrder(o), ~PublishEvent(o)
      PROVE  Records' = Records /\ buffer' = buffer /\ assignment' = assignment
  BY <1>2 DEF RunSingleOrder, StartOrder, FailToStart, WakeUp, ResumeAfterPause,
              FailEvent, TaskFails, producerVars, Records
<1>3. CASE Acknowledge
  BY <1>3 DEF Acknowledge, Records
<1>4. CASE Tick \/ UNCHANGED vars
  BY <1>4 DEF Tick, vars, producerVars, Records
<1>5. \A o \in Orders : RunSingleOrder(o) => o \in Submitted
  BY DEF RunSingleOrder
<1> QED
  BY <1>1, <1>2, <1>3, <1>4, <1>5 DEF Next

(* The record of a publication. *)
LEMMA PublishedRecord ==
  ASSUME IInv, WorkInv, NEW o \in Submitted, PublishEvent(o)
  PROVE  /\ assignment' = assignment /\ phase[o] = "READY"
         /\ Payload(o) # Null
         /\ \/ config.dryRun /\ Records' = Records /\ buffer' = buffer
            \/ /\ ~config.dryRun
               /\ Records' = Records \cup {[orderIndex |-> o, event |-> eventNo[o],
                                            value |-> Payload(o)]}
               /\ buffer' = buffer \cup {[orderIndex |-> o, event |-> eventNo[o],
                                          value |-> Payload(o)]}
BY DEF PublishEvent, Publish, Records

LEMMA DuplicatesKept ==
  ASSUME IInv, WorkInv, DuplicateRepeatsItsStep, [Next]_vars
  PROVE  DuplicateRepeatsItsStep'
<1>1. CASE Records' = Records /\ (assignment' = assignment \/ Records = {})
  BY <1>1 DEF DuplicateRepeatsItsStep, Script
<1>2. ASSUME NEW o \in Submitted, PublishEvent(o)
      PROVE  DuplicateRepeatsItsStep'
  <2> DEFINE r == [orderIndex |-> o, event |-> eventNo[o], value |-> Payload(o)]
             Repeats(x, R) ==
                LET d == Script(x.orderIndex)[x.event].duplicateOfStep
                IN  d # Null =>
                      \E q \in R :
                          /\ q.orderIndex = x.orderIndex /\ q.event < x.event
                          /\ Script(q.orderIndex)[q.event].step = d
                          /\ q.value = x.value
  <2>1. /\ assignment' = assignment /\ Payload(o) # Null
        /\ \/ config.dryRun /\ Records' = Records
           \/ ~config.dryRun /\ Records' = Records \cup {r}
    BY <1>2, PublishedRecord
  <2>2. ASSUME NEW x \in Records PROVE Repeats(x, Records')
    BY <2>1 DEF DuplicateRepeatsItsStep
  <2>3. ASSUME ~config.dryRun PROVE Repeats(r, Records')
    <3> DEFINE d == Event(o).duplicateOfStep
    <3>1. SUFFICES ASSUME d # Null
                   PROVE  \E q \in Records :
                              /\ q.orderIndex = o /\ q.event < eventNo[o]
                              /\ Script(o)[q.event].step = d
                              /\ q.value = Payload(o)
      BY <2>1, <3>1 DEF Event
    <3>2. d \in DOMAIN publishedByStep[o] /\ Payload(o) = publishedByStep[o][d]
      BY <2>1, <3>1 DEF Payload
    <3>3. o \in Orders
      BY DEF IInv, SetUpInv
    <3> HIDE DEF d
    <3> QED
      BY <2>3, <3>2, <3>3 DEF WorkInv, MemoryInv
  <2> HIDE DEF r
  <2>4. \A x \in Records' : Repeats(x, Records')
    BY <2>1, <2>2, <2>3
  <2> QED
    BY <2>1, <2>4 DEF DuplicateRepeatsItsStep, Script
<1> QED
  BY <1>1, <1>2, RecordsStep

(* A duplicate repeats the payload its order published at the step it      *)
(* names.                                                                  *)
THEOREM DuplicatesAreFaithful == Spec => []DuplicateRepeatsItsStep
<1>1. Init => DuplicateRepeatsItsStep
  BY DEF Init, DuplicateRepeatsItsStep, Records
<1>2. IInv /\ WorkInv /\ DuplicateRepeatsItsStep /\ [Next]_vars => DuplicateRepeatsItsStep'
  BY DuplicatesKept
<1> QED
  BY <1>1, <1>2, WorkAlways, PTL DEF Spec

(* An event is published when the delays up to it, multiplied, are over at *)
(* the earliest, but for what int() has cut off of each.                   *)
THEOREM DelaysAreWaitedFor == Spec => NeverAheadOfScript
<1> DEFINE NotAhead ==
      \A r \in buffer' \ buffer :
          LET s == Script(r.orderIndex)
          IN  Multiplier.num * SumFunctionOnSet([i \in DOMAIN s |-> s[i].delay], 1..r.event)
                  <= Multiplier.den * clock + (Multiplier.den - 1) * r.event
<1>1. IInv /\ WorkInv /\ [Next]_vars => [NotAhead]_vars
  <2> SUFFICES ASSUME IInv, WorkInv, [Next]_vars, NEW r \in buffer' \ buffer
               PROVE  AreOver(Script(r.orderIndex), r.event, clock)
    BY DEF AreOver, DelaysOf
  <2>1. PICK o \in Submitted : PublishEvent(o)
    BY RecordsStep
  <2>2. /\ phase[o] = "READY"
        /\ r = [orderIndex |-> o, event |-> eventNo[o], value |-> Payload(o)]
    BY <2>1, PublishedRecord
  <2>3. IsDue(o, clock)
    BY <2>2 DEF WorkInv, DelaysInv
  <2> QED
    BY <2>2, <2>3 DEF IsDue
<1> QED
  BY <1>1, WorkAlways, PTL DEF Spec, NeverAheadOfScript

=============================================================================
