------------------------- MODULE EndToEndRunProofs -------------------------
(***************************************************************************)
(* Theorems about EndToEndRun, for every suite, every number of orders,    *)
(* every limit of the consumer and every number of faults.                 *)
(***************************************************************************)
EXTENDS EndToEndRun, FiniteSums

----------------------------------------------------------------------------
(* Type correctness *)

(* Whatever is appended to the results while a scenario of the suite is    *)
(* played keeps them in their type, and the runner goes on as long as      *)
(* there are scenarios left.                                               *)
LEMMA ResultAppended ==
  ASSUME TypeOK, Len(results) < Len(Suite),
         NEW passed \in BOOLEAN, NEW count \in Int, NEW error \in BOOLEAN,
         results' = Append(results, Result(Scenario, passed, count, error)),
         phase' = AfterScenario
  PROVE  /\ results' \in Seq(Results)
         /\ Len(results') = Len(results) + 1
         /\ Len(results') <= Len(Suite)
         /\ phase' \in {"SIMULATING", "REPORTING"}
         /\ phase' = "SIMULATING" => Len(results') < Len(Suite)
<1>1. results \in Seq(Results) /\ Len(results) \in Nat
  BY DEF TypeOK, ResultsTypeOK
<1>2. Suite \in Seq(DOMAIN Expected) /\ Len(Suite) \in Nat
  BY SuiteAssumption
<1>3. Scenario \in DOMAIN Expected
  BY <1>1, <1>2 DEF Scenario
<1>4. Result(Scenario, passed, count, error) \in Results
  BY <1>3 DEF Result, Results
<1>5. results' \in Seq(Results) /\ Len(results') = Len(results) + 1
  BY <1>1, <1>4
<1> QED
  BY <1>1, <1>2, <1>5 DEF AfterScenario

(* The commandIds of a finite set of records are finitely many. *)
LEMMA CommandIdsFinite ==
  ASSUME NEW records, IsFiniteSet(records)
  PROVE  IsFiniteSet(CommandIds(records)) /\ Cardinality(CommandIds(records)) \in Nat
<1> DEFINE f == [r \in records |-> r.order]
<1>1. f \in Surjection(records, CommandIds(records))
  BY DEF CommandIds, Surjection
<1> HIDE DEF f
<1>2. IsFiniteSet(CommandIds(records))
  BY <1>1, FS_Surjection
<1> QED
  BY <1>2, FS_CardinalityType

(* A record more leaves the topic finite. *)
LEMMA WriteFinite ==
  ASSUME IsFiniteSet(smsTopic), NEW o, Write(o)
  PROVE  IsFiniteSet(smsTopic')
BY FS_AddElement DEF Write

(* A scenario has as many orders as it is asked for, none if it is asked   *)
(* for a negative number.                                                  *)
LEMMA OrdersFinite ==
  ASSUME NEW s
  PROVE  /\ IsFiniteSet(OrdersOf(s))
         /\ Cardinality(OrdersOf(s)) \in Nat
         /\ OrdersCount >= 0 => Cardinality(OrdersOf(s)) <= OrdersCount
         /\ OrdersCount < 0 => Cardinality(OrdersOf(s)) = 0
<1>1. IsFiniteSet(1..OrdersCount)
      /\ Cardinality(1..OrdersCount) = (IF 1 > OrdersCount THEN 0 ELSE OrdersCount-1+1)
  <2>1. 1 \in Int /\ OrdersCount \in Int
    BY SuiteAssumption
  <2> QED
    BY ONLY <2>1, FS_Interval, Zenon
<1>2. IsFiniteSet(OrdersOf(s)) /\ Cardinality(OrdersOf(s)) <= Cardinality(1..OrdersCount)
  <2> DEFINE f == [i \in 1..OrdersCount |-> OrderId(s, i)]
  <2>1. f \in Surjection(1..OrdersCount, OrdersOf(s))
    BY DEF OrdersOf, Surjection
  <2> HIDE DEF f
  <2> QED
    BY <1>1, <2>1, FS_Surjection
<1>3. Cardinality(OrdersOf(s)) \in Nat
  BY <1>2, FS_CardinalityType
<1> QED
  BY <1>1, <1>2, <1>3, SuiteAssumption

(* A consumer never counts more than the topic holds. *)
LEMMA ConsumedCount ==
  ASSUME IsFiniteSet(smsTopic), NEW total, ConsumeSmsCount(total)
  PROVE  total \in Nat /\ total <= Cardinality(CommandIds(smsTopic))
<1>1. PICK read \in SUBSET smsTopic : total = Cardinality(CommandIds(read))
  BY DEF ConsumeSmsCount
<1>2. IsFiniteSet(read)
  BY FS_Subset
<1>3. IsFiniteSet(CommandIds(read)) /\ Cardinality(CommandIds(read)) \in Nat
      /\ IsFiniteSet(CommandIds(smsTopic))
  BY <1>2, CommandIdsFinite
<1>4. CommandIds(read) \subseteq CommandIds(smsTopic)
  BY DEF CommandIds
<1> QED
  BY <1>1, <1>3, <1>4, FS_Subset

(* Each step of the runner and of the pipeline keeps the types. *)
LEMMA TypeInvariant ==
  ASSUME TypeOK, [Next]_vars
  PROVE  TypeOK'
<1> USE SuiteAssumption DEF TypeOK
<1>1. CASE UNCHANGED vars
  BY <1>1 DEF vars, pipelineVars, judgedVars, RunnerTypeOK, PipelineTypeOK, ResultsTypeOK
<1>2. CASE TearDownPrevious
  <2>1. RunnerTypeOK'
    BY <1>2 DEF RunnerTypeOK, TearDownPrevious, RunnerGoes, FaultStrikes, StartPhases
  <2>2. PipelineTypeOK'
    BY <1>2, FS_EmptySet DEF PipelineTypeOK, TearDownPrevious, ComposeDown, pipelineVars
  <2>3. ResultsTypeOK'
    BY <1>2 DEF ResultsTypeOK, TearDownPrevious, RunnerGoes, judgedVars, StartPhases
  <2> QED
    BY <2>1, <2>2, <2>3
<1>3. CASE ComposeUp
  BY <1>3 DEF ComposeUp, RunnerGoes, pipelineVars, judgedVars, RunnerTypeOK,
              PipelineTypeOK, ResultsTypeOK, StartPhases
<1>4. CASE ComposeFails \/ PollTimesOut \/ NoJarToSubmit
  BY <1>4 DEF ComposeFails, PollTimesOut, NoJarToSubmit, Exit, pipelineVars, judgedVars,
              RunnerTypeOK, PipelineTypeOK, ResultsTypeOK, StartPhases
<1>5. CASE PollHealthy \/ BuildJar \/ CopyJar
  <2>1. UNCHANGED <<containers, pipelineVars, judgedVars>>
        /\ phase \in StartPhases /\ phase' \in StartPhases /\ polls' \in {polls, PollLimit}
        /\ faults' \in {faults} \cup 0..MaxFaults
    BY <1>5 DEF PollHealthy, BuildJar, CopyJar, RunnerGoes, FaultStrikes, StartPhases
  <2> QED
    BY <2>1 DEF pipelineVars, judgedVars, RunnerTypeOK, PipelineTypeOK, ResultsTypeOK,
                StartPhases
<1>6. CASE PollAgain
  BY <1>6 DEF PollAgain, pipelineVars, judgedVars, RunnerTypeOK, PipelineTypeOK,
              ResultsTypeOK
<1>7. CASE SubmitJob
  <2>1. RunnerTypeOK' /\ PipelineTypeOK'
    BY <1>7 DEF SubmitJob, RunnerGoes, RunnerTypeOK, PipelineTypeOK
  <2>2. ResultsTypeOK'
    BY <1>7 DEF SubmitJob, RunnerGoes, judgedVars, ResultsTypeOK, StartPhases
  <2> QED
    BY <2>1, <2>2
<1>8. CASE RunScenario
  <2>1. RunnerGoes("SIMULATING", "COUNTING")
        /\ UNCHANGED <<polls, containers, judgedVars, job, smsTopic>>
    BY <1>8 DEF RunScenario, Publish
  <2>2. faults' \in 0..MaxFaults
    BY <1>8 DEF RunScenario, FaultStrikes
  <2>3. RunnerTypeOK' /\ PipelineTypeOK'
    BY <2>1, <2>2 DEF RunnerGoes, RunnerTypeOK, PipelineTypeOK
  <2>4. ResultsTypeOK'
    BY <2>1 DEF RunnerGoes, judgedVars, ResultsTypeOK, StartPhases
  <2> QED
    BY <2>3, <2>4
<1>9. CASE RunScenarioFails
  <2>1. /\ phase = "SIMULATING" /\ phase' = AfterScenario
        /\ results' = Append(results, Result(Scenario, FALSE, 0 - 1, TRUE))
        /\ FaultStrikes(1)
        /\ UNCHANGED <<polls, containers, previousTotal, job, smsTopic>>
    BY <1>9 DEF RunScenarioFails, Publish
  <2>2. Len(results) < Len(Suite)
    BY <2>1 DEF ResultsTypeOK
  <2>3. /\ results' \in Seq(Results)
        /\ Len(results') <= Len(Suite)
        /\ phase' \in {"SIMULATING", "REPORTING"}
        /\ phase' = "SIMULATING" => Len(results') < Len(Suite)
    BY <2>1, <2>2, ResultAppended, 0 - 1 \in Int
  <2>4. RunnerTypeOK' /\ PipelineTypeOK'
    BY <2>1, <2>3 DEF FaultStrikes, RunnerTypeOK, PipelineTypeOK
  <2>5. ResultsTypeOK'
    BY <2>1, <2>3 DEF ResultsTypeOK, StartPhases
  <2> QED
    BY <2>4, <2>5
<1>10. CASE CountSms
  <2>1. PICK total : ConsumeSmsCount(total) /\ Judge(total)
    BY <1>10 DEF CountSms
  <2>2. /\ phase = "COUNTING" /\ phase' = AfterScenario
        /\ UNCHANGED <<polls, containers, job, smsTopic>>
    BY <1>10 DEF CountSms, pipelineVars
  <2>3. total \in Nat /\ previousTotal' = total /\ total - previousTotal \in Int
    BY <2>1, ConsumedCount DEF PipelineTypeOK, ResultsTypeOK, Judge
  <2>4. /\ results' = Append(results, Result(Scenario, Passes(Scenario, total - previousTotal),
                                            total - previousTotal, FALSE))
        /\ Passes(Scenario, total - previousTotal) \in BOOLEAN
    BY <2>1 DEF Judge, Passes
  <2>5. Len(results) < Len(Suite)
    BY <2>2 DEF ResultsTypeOK
  <2>6. /\ results' \in Seq(Results)
        /\ Len(results') <= Len(Suite)
        /\ phase' \in {"SIMULATING", "REPORTING"}
        /\ phase' = "SIMULATING" => Len(results') < Len(Suite)
    BY <2>2, <2>3, <2>4, <2>5, ResultAppended
  <2>7. faults' \in 0..MaxFaults
    BY <2>1 DEF ConsumeSmsCount, FaultStrikes
  <2>8. RunnerTypeOK' /\ PipelineTypeOK'
    BY <2>2, <2>6, <2>7 DEF RunnerTypeOK, PipelineTypeOK
  <2>9. ResultsTypeOK'
    BY <2>3, <2>6 DEF ResultsTypeOK, StartPhases
  <2> QED
    BY <2>8, <2>9
<1>11. CASE Report
  <2>1. phase' = "EXITED" /\ UNCHANGED <<polls, judgedVars>>
    BY <1>11 DEF Report, Exit
  <2>2. faults' = faults \/ FaultStrikes(1)
    BY <1>11 DEF Report
  <2>3. RunnerTypeOK'
    BY <2>1, <2>2 DEF RunnerTypeOK, FaultStrikes
  <2>4. PipelineTypeOK'
    BY <1>11, FS_EmptySet DEF PipelineTypeOK, Report, ComposeDown, pipelineVars
  <2>5. ResultsTypeOK'
    BY <2>1 DEF ResultsTypeOK, judgedVars, StartPhases
  <2> QED
    BY <2>3, <2>4, <2>5
<1>12. CASE ContainerMoves
  BY <1>12 DEF ContainerMoves, pipelineVars, judgedVars, RunnerTypeOK, PipelineTypeOK,
               ResultsTypeOK
<1>13. CASE Pipeline
  <2>1. UNCHANGED <<phase, polls, containers, judgedVars>>
    BY <1>13 DEF Pipeline
  <2>2. faults' = faults \/ FaultStrikes(1)
    BY <1>13 DEF Pipeline, JobStarts, OpenIsLate, SendSms, RepeatSms
  <2>3. job' \in {job, "RUNNING"}
    BY <1>13 DEF Pipeline, JobStarts, OpenIsLate, SendSms, RepeatSms
  <2>4. IsFiniteSet(smsTopic')
    BY <1>13, WriteFinite DEF Pipeline, JobStarts, OpenIsLate, SendSms, RepeatSms,
                              PipelineTypeOK
  <2>5. RunnerTypeOK'
    BY <2>1, <2>2 DEF RunnerTypeOK, FaultStrikes
  <2>6. PipelineTypeOK'
    BY <2>1, <2>3, <2>4 DEF PipelineTypeOK
  <2>7. ResultsTypeOK'
    BY <2>1 DEF ResultsTypeOK, judgedVars
  <2> QED
    BY <2>5, <2>6, <2>7
<1> QED
  BY <1>1, <1>2, <1>3, <1>4, <1>5, <1>6, <1>7, <1>8, <1>9, <1>10, <1>11, <1>12, <1>13
  DEF Next, Runner

(* The runner starts with proper values. *)
LEMMA InitTyped ==
  ASSUME Init
  PROVE  TypeOK
<1>1. RunnerTypeOK
  BY SuiteAssumption DEF Init, RunnerTypeOK, StartPhases
<1>2. PipelineTypeOK
  BY SuiteAssumption, FS_EmptySet DEF Init, PipelineTypeOK
<1>3. ResultsTypeOK
  BY SuiteAssumption DEF Init, ResultsTypeOK, StartPhases
<1> QED
  BY <1>1, <1>2, <1>3 DEF TypeOK

(* The runner is in one of its phases, plays the scenarios of the suite    *)
(* one after the other and no others, and what it counts are numbers.      *)
THEOREM RunnerIsWellTyped == Spec => []TypeOK
<1>1. Init => TypeOK
  BY InitTyped
<1>2. TypeOK /\ [Next]_vars => TypeOK'
  BY TypeInvariant
<1> QED
  BY <1>1, <1>2, PTL DEF Spec

----------------------------------------------------------------------------
(* Passing means what it says *)

(* One scenario more adds its orders, if they are late. *)
LEMMA LateOrdersGrow ==
  ASSUME NEW k \in Nat
  PROVE  /\ LateOrders(k) \subseteq LateOrders(k + 1)
         /\ Suite[k + 1] \in LateScenarios =>
               LateOrders(k + 1) = LateOrders(k) \cup OrdersOf(Suite[k + 1])
         /\ Suite[k + 1] \notin LateScenarios => LateOrders(k + 1) = LateOrders(k)
<1>1. 1..(k + 1) = 1..k \cup {k + 1}
  OBVIOUS
<1>2. Suite[k + 1] \in LateScenarios =>
        {i \in 1..(k + 1) : Suite[i] \in LateScenarios}
            = {i \in 1..k : Suite[i] \in LateScenarios} \cup {k + 1}
  BY <1>1
<1>3. Suite[k + 1] \notin LateScenarios =>
        {i \in 1..(k + 1) : Suite[i] \in LateScenarios}
            = {i \in 1..k : Suite[i] \in LateScenarios}
  BY <1>1
<1> QED
  BY <1>2, <1>3 DEF LateOrders

(* Before the first scenario there are none. *)
LEMMA NoLateOrders == LateOrders(0) = {}
BY DEF LateOrders

(* The scenarios whose orders have been published. *)
Begun == IF phase = "COUNTING" THEN Len(results) + 1 ELSE Len(results)

(* No SMS but those of the late orders of these scenarios and of strays is *)
(* in the topic or on its way.                                             *)
SmsAreAccounted ==
    /\ phase \in StartPhases => due = {} /\ open = {}
    /\ phase \notin {"STARTING", "EXITED"} =>
          /\ open \subseteq strays
          /\ NoneMixed(Begun) =>
                CommandIds(smsTopic) \cup due \subseteq LateOrders(Begun) \cup strays

(* What PassesAreEarned says, and that the last total covers it. *)
PassesAreCounted ==
    phase # "EXITED" =>
        \A k \in 0..Len(results) :
            NoneMixed(k) /\ NoneNegative(k) =>
                /\ PassMark(k) <= Cardinality(CommandIds(smsTopic)
                                                \cap (LateOrders(k) \cup strays))
                /\ k = Len(results) => PassMark(k) <= previousTotal

(* A scenario that has passed was counted. *)
PassedWereCounted ==
    \A j \in DOMAIN results : results[j].passed => results[j].actualSmsCount >= 0

IInv == TypeOK /\ SmsAreAccounted /\ PassesAreCounted /\ PassedWereCounted

(* Publishing the orders of a scenario that is not the mixed one makes at  *)
(* most its late orders due; those left open are strays.                   *)
LEMMA PublishAccounted ==
  ASSUME NEW orders \in PlannedOrders(Scenario), NEW lost \in SUBSET orders,
         Publish(orders, lost)
  PROVE  /\ strays \subseteq strays'
         /\ open \subseteq strays => open' \subseteq strays'
         /\ Scenario # Mixed /\ Scenario \in LateScenarios =>
               due' \subseteq due \cup OrdersOf(Scenario)
         /\ Scenario # Mixed /\ Scenario \notin LateScenarios => due' = due
<1>1. PICK seen \in SUBSET (orders \ lost) :
        /\ due' = due \cup ({o \in seen : IsLate(o)} \ alerted)
        /\ open' = (open \ seen) \cup {o \in lost : ~IsLate(o)}
        /\ strays' = strays \cup {o \in lost : ~IsLate(o)}
  BY DEF Publish
<1>2. Scenario # Mixed => orders = OrdersOf(Scenario)
  BY DEF PlannedOrders
<1>3. Scenario # Mixed => \A o \in orders : IsLate(o) <=> Scenario \in LateScenarios
  BY <1>2 DEF OrdersOf, OrderId, IsLate
<1> QED
  BY <1>1, <1>2, <1>3

(* Each step keeps the accounts of the pipeline. *)
LEMMA SmsStayAccounted ==
  ASSUME IInv, [Next]_vars
  PROVE  SmsAreAccounted'
<1> USE DEF IInv
<1>0. /\ results \in Seq(Results) /\ Len(results) \in Nat
      /\ phase \in StartPhases => results = <<>>
  BY DEF TypeOK, ResultsTypeOK
<1>1. CASE UNCHANGED vars
  BY <1>1 DEF vars, pipelineVars, judgedVars, SmsAreAccounted, NoneMixed, Begun
<1>2. CASE TearDownPrevious
  <2>1. phase' = "COMPOSING" /\ due' = {} /\ open' = {}
    BY <1>2 DEF TearDownPrevious, RunnerGoes, ComposeDown, pipelineVars, SmsAreAccounted,
                StartPhases
  <2>2. CommandIds({}) = {}
    BY DEF CommandIds
  <2>3. CommandIds(smsTopic') \subseteq strays'
    BY <1>2, <2>2 DEF TearDownPrevious, ComposeDown, pipelineVars
  <2> QED
    BY <2>1, <2>3 DEF SmsAreAccounted
<1>3. CASE \/ ComposeUp \/ ComposeFails \/ PollHealthy \/ PollAgain \/ PollTimesOut
           \/ BuildJar \/ NoJarToSubmit \/ CopyJar \/ ContainerMoves
  <2>1. /\ UNCHANGED <<pipelineVars, judgedVars, strays>>
        /\ phase \in StartPhases \ {"STARTING"} /\ phase' \in StartPhases \cup {"EXITED"}
    BY <1>3 DEF ComposeUp, ComposeFails, PollHealthy, PollAgain, PollTimesOut, BuildJar,
                NoJarToSubmit, CopyJar, ContainerMoves, RunnerGoes, Exit, StartPhases
  <2>2. Begun' = Begun
    BY <2>1 DEF Begun, judgedVars, StartPhases
  <2> QED
    BY <2>1, <2>2 DEF SmsAreAccounted, NoneMixed, pipelineVars, StartPhases
<1>4. CASE SubmitJob
  <2>1. /\ phase = "SUBMITTING" /\ phase' = "SIMULATING" /\ open' \in {open, {}}
        /\ UNCHANGED <<due, smsTopic, results, strays>>
    BY <1>4 DEF SubmitJob, RunnerGoes, judgedVars
  <2>2. Begun' = Begun
    BY <2>1 DEF Begun
  <2> QED
    BY <2>1, <2>2 DEF SmsAreAccounted, NoneMixed, StartPhases
<1>5. CASE RunScenario \/ RunScenarioFails
  <2>1. PICK orders \in PlannedOrders(Scenario) : \E lost \in SUBSET orders :
            Publish(orders, lost)
    BY <1>5 DEF RunScenario, RunScenarioFails
  <2>2. PICK lost \in SUBSET orders : Publish(orders, lost)
    BY <2>1
  <2>3. phase = "SIMULATING" /\ smsTopic' = smsTopic
    BY <1>5, <2>2 DEF RunScenario, RunScenarioFails, RunnerGoes, Publish
  <2>4. Begun = Len(results) /\ Begun' = Len(results) + 1
        /\ phase' \in {"SIMULATING", "COUNTING", "REPORTING"}
    <3>1. CASE RunScenario
      BY <3>1, <2>3 DEF RunScenario, RunnerGoes, judgedVars, Begun
    <3>2. CASE RunScenarioFails
      <4>1. Len(results') = Len(results) + 1
        BY <3>2, <1>0 DEF RunScenarioFails
      <4>2. phase' \in {"SIMULATING", "REPORTING"}
        BY <3>2 DEF RunScenarioFails, AfterScenario
      <4> QED
        BY <4>1, <4>2, <2>3 DEF Begun
    <3> QED
      BY <1>5, <3>1, <3>2
  <2>5. strays \subseteq strays' /\ open' \subseteq strays'
    BY <2>2, <2>3, PublishAccounted DEF SmsAreAccounted
  <2>6. ASSUME NoneMixed(Len(results) + 1)
        PROVE  CommandIds(smsTopic) \cup due'
                  \subseteq LateOrders(Len(results) + 1) \cup strays'
    <3>1. NoneMixed(Len(results)) /\ Scenario # Mixed
      BY <1>0, <2>6 DEF NoneMixed, Scenario
    <3>2. CommandIds(smsTopic) \cup due \subseteq LateOrders(Len(results)) \cup strays
      BY <2>3, <2>4, <3>1 DEF SmsAreAccounted
    <3>3. /\ Scenario \in LateScenarios => due' \subseteq due \cup OrdersOf(Scenario)
          /\ Scenario \notin LateScenarios => due' = due
      BY <2>2, <3>1, PublishAccounted
    <3> QED
      BY <1>0, <2>5, <3>2, <3>3, LateOrdersGrow DEF Scenario
  <2> QED
    BY <2>3, <2>4, <2>5, <2>6 DEF SmsAreAccounted, NoneMixed, StartPhases
<1>6. CASE CountSms
  <2>1. /\ phase = "COUNTING" /\ phase' \in {"SIMULATING", "REPORTING"}
        /\ UNCHANGED <<pipelineVars, strays>>
    BY <1>6 DEF CountSms, AfterScenario
  <2>2. Len(results') = Len(results) + 1
    BY <1>0, <1>6 DEF CountSms, Judge
  <2>3. Begun' = Begun
    BY <2>1, <2>2 DEF Begun
  <2> QED
    BY <2>1, <2>3 DEF SmsAreAccounted, NoneMixed, pipelineVars, StartPhases
<1>7. CASE Report
  BY <1>7 DEF Report, Exit, SmsAreAccounted, StartPhases
<1>8. CASE Pipeline
  <2>1. UNCHANGED <<phase, results, strays>> /\ phase # "EXITED" /\ Begun' = Begun
    BY <1>8 DEF Pipeline, judgedVars, Begun
  <2>2. /\ open' \subseteq open
        /\ CommandIds(smsTopic') \cup due' \subseteq CommandIds(smsTopic) \cup due \cup open
        /\ open = {} => due' \subseteq due
    BY <1>8 DEF Pipeline, JobStarts, OpenIsLate, SendSms, RepeatSms, Write, CommandIds
  <2> QED
    BY <2>1, <2>2 DEF SmsAreAccounted, NoneMixed
<1> QED
  BY <1>1, <1>2, <1>3, <1>4, <1>5, <1>6, <1>7, <1>8 DEF Next, Runner

(* What the passes had to show together is a number. *)
LEMMA MarkType ==
  ASSUME results \in Seq(Results), Len(results) <= Len(Suite), NEW k \in 0..Len(results)
  PROVE  PassMark(k) \in Int
<1>1. \A j \in 1..k : j \in DOMAIN results /\ j \in DOMAIN Suite
  BY SuiteAssumption
<1>2. \A j \in 1..k : PassMarks[j] \in Int
  BY <1>1, SuiteAssumption DEF PassMarks
<1>3. IsFiniteSet(1..k)
  BY NumbersTo, k \in Nat
<1> QED
  BY <1>2, <1>3, SumType DEF PassMark

(* One result more adds the SMS its scenario had to show, if it passed. *)
LEMMA MarkAppended ==
  ASSUME TypeOK, NEW n \in Nat, n = Len(results), n < Len(Suite),
         NEW r \in Results, results' = Append(results, r)
  PROVE  /\ \A k \in 0..n :
               /\ PassMark(k) \in Int
               /\ PassMark(k)' = PassMark(k)
               /\ NoneNegative(k)' <=> NoneNegative(k)
         /\ PassMark(n + 1)' =
               (IF r.passed THEN Expected[Scenario][1] ELSE 0) + PassMark(n)
         /\ NoneNegative(n + 1)' =>
               NoneNegative(n) /\ (r.error \/ r.actualSmsCount >= 0)
<1>1. /\ DOMAIN results = 1..n /\ DOMAIN results' = 1..(n + 1)
      /\ results'[n + 1] = r
      /\ \A k \in 1..n : results'[k] = results[k]
  BY DEF TypeOK, ResultsTypeOK
<1>2. \A j \in 1..(n + 1) : Expected[Suite[j]][1] \in Int
  <2>1. 1..(n + 1) \subseteq DOMAIN Suite
    BY <1>1, SuiteAssumption
  <2> QED
    BY <2>1, SuiteAssumption
<1>3. /\ \A j \in 1..n : PassMarks[j] \in Int /\ PassMarks'[j] = PassMarks[j]
      /\ PassMarks'[n + 1] = IF r.passed THEN Expected[Scenario][1] ELSE 0
      /\ \A j \in 1..(n + 1) : PassMarks'[j] \in Int
  BY <1>1, <1>2 DEF PassMarks, Scenario
<1>4. \A k \in 0..n : PassMark(k) \in Int /\ PassMark(k)' = PassMark(k)
  <2> SUFFICES ASSUME NEW k \in 0..n
               PROVE  /\ SumFunctionOnSet(PassMarks, 1..k) \in Int
                      /\ SumFunctionOnSet(PassMarks', 1..k)
                           = SumFunctionOnSet(PassMarks, 1..k)
    BY DEF PassMark
  <2>1. /\ IsFiniteSet(1..k)
        /\ \A j \in 1..k : PassMarks[j] \in Int /\ PassMarks'[j] = PassMarks[j]
    BY <1>1, <1>3, NumbersTo
  <2> QED
    BY <2>1, SumType, SumSame
<1>5. PassMark(n + 1)' = PassMarks'[n + 1] + PassMark(n)
  <2>1. SumFunctionOnSet(PassMarks', 1..(n + 1))
          = PassMarks'[n + 1] + SumFunctionOnSet(PassMarks', 1..n)
    BY <1>1, <1>3, SumToNext
  <2>2. PassMark(n + 1)' = SumFunctionOnSet(PassMarks', 1..(n + 1))
        /\ PassMark(n)' = SumFunctionOnSet(PassMarks', 1..n)
    BY DEF PassMark
  <2> QED
    BY <1>1, <1>4, <2>1, <2>2
<1>6. \A k \in 0..n : NoneNegative(k)' <=> NoneNegative(k)
  BY <1>1 DEF NoneNegative
<1>7. NoneNegative(n + 1)' => NoneNegative(n) /\ (r.error \/ r.actualSmsCount >= 0)
  BY <1>1 DEF NoneNegative
<1> QED
  BY <1>3, <1>4, <1>5, <1>6, <1>7

(* Before the first scenario nothing had to be shown. *)
LEMMA NoMark == PassMark(0) = 0
<1>1. 1..0 = {}
  OBVIOUS
<1> QED
  BY <1>1, SumEmpty DEF PassMark

(* The SMS among some orders are no fewer among more of them. *)
LEMMA MoreOfTheTopic ==
  ASSUME IsFiniteSet(smsTopic), IsFiniteSet(smsTopic'),
         CommandIds(smsTopic) \subseteq CommandIds(smsTopic'),
         NEW S, NEW T, S \subseteq T
  PROVE  /\ Cardinality(CommandIds(smsTopic) \cap S) \in Nat
         /\ Cardinality(CommandIds(smsTopic') \cap T) \in Nat
         /\ Cardinality(CommandIds(smsTopic) \cap S)
              <= Cardinality(CommandIds(smsTopic') \cap T)
<1>1. IsFiniteSet(CommandIds(smsTopic)) /\ IsFiniteSet(CommandIds(smsTopic'))
  BY CommandIdsFinite
<1>2. IsFiniteSet(CommandIds(smsTopic) \cap S) /\ IsFiniteSet(CommandIds(smsTopic') \cap T)
  BY <1>1, FS_Subset
<1>3. CommandIds(smsTopic) \cap S \subseteq CommandIds(smsTopic') \cap T
  OBVIOUS
<1> QED
  BY <1>2, <1>3, FS_Subset, FS_CardinalityType

(* While nothing is judged and the topic is not emptied, nothing is lost. *)
LEMMA CountedKept ==
  ASSUME IInv, UNCHANGED judgedVars, phase # "EXITED", IsFiniteSet(smsTopic'),
         strays \subseteq strays', CommandIds(smsTopic) \subseteq CommandIds(smsTopic')
  PROVE  PassesAreCounted' /\ PassedWereCounted'
<1>1. IsFiniteSet(smsTopic) /\ results \in Seq(Results) /\ Len(results) <= Len(Suite)
  BY DEF IInv, TypeOK, PipelineTypeOK, ResultsTypeOK
<1>2. /\ results' = results /\ previousTotal' = previousTotal
      /\ \A k : PassMark(k)' = PassMark(k) /\ (NoneNegative(k)' <=> NoneNegative(k))
  BY DEF judgedVars, PassMark, PassMarks, NoneNegative
<1>3. SUFFICES ASSUME NEW k \in 0..Len(results), NoneMixed(k), NoneNegative(k)
               PROVE  /\ PassMark(k) <= Cardinality(CommandIds(smsTopic')
                                                     \cap (LateOrders(k) \cup strays'))
                      /\ k = Len(results) => PassMark(k) <= previousTotal
  BY <1>2 DEF IInv, PassesAreCounted, PassedWereCounted, NoneMixed, LateOrders
<1>4. /\ PassMark(k) <= Cardinality(CommandIds(smsTopic) \cap (LateOrders(k) \cup strays))
      /\ k = Len(results) => PassMark(k) <= previousTotal
  BY <1>3 DEF IInv, PassesAreCounted
<1>5. PassMark(k) \in Int
  BY <1>1, <1>3, MarkType
<1> DEFINE S == LateOrders(k) \cup strays
           T == LateOrders(k) \cup strays'
<1>6. /\ Cardinality(CommandIds(smsTopic) \cap S) \in Nat
      /\ Cardinality(CommandIds(smsTopic') \cap T) \in Nat
      /\ Cardinality(CommandIds(smsTopic) \cap S) <= Cardinality(CommandIds(smsTopic') \cap T)
  <2>1. S \subseteq T
    OBVIOUS
  <2> HIDE DEF S, T
  <2> QED
    BY <1>1, <2>1, MoreOfTheTopic
<1> QED
  BY <1>4, <1>5, <1>6

(* The count of a scenario covers what its pass has to show, also with     *)
(* what the passes before it had to.                                       *)
LEMMA PassIsEarned ==
  ASSUME IInv, phase = "COUNTING", NEW total, ConsumeSmsCount(total), Judge(total),
         NEW k \in Nat, k = Len(results), NoneMixed(k + 1), NoneNegative(k + 1)'
  PROVE  /\ PassMark(k + 1)' <= total
         /\ total <= Cardinality(CommandIds(smsTopic)
                                  \cap (LateOrders(k + 1) \cup strays))
<1> DEFINE count == total - previousTotal
           r == Result(Scenario, Passes(Scenario, count), count, FALSE)
<1>1. /\ k < Len(Suite) /\ previousTotal \in Nat
      /\ IsFiniteSet(smsTopic)
  BY DEF IInv, TypeOK, ResultsTypeOK, PipelineTypeOK
<1>2. total \in Nat /\ total <= Cardinality(CommandIds(smsTopic))
  BY <1>1, ConsumedCount
<1>3. Scenario \in DOMAIN Expected /\ Expected[Scenario][1] \in Nat
  BY <1>1, SuiteAssumption DEF Scenario
<1>4. /\ r \in Results /\ ~r.error /\ r.actualSmsCount = count
      /\ r.passed => Expected[Scenario][1] <= count
  <2>1. Passes(Scenario, count) \in BOOLEAN /\ count \in Int
    BY <1>1, <1>2 DEF Passes
  <2>2. Passes(Scenario, count) => Expected[Scenario][1] <= count
    BY DEF Passes
  <2> QED
    BY <1>3, <2>1, <2>2 DEF Result, Results
<1>5. results' = Append(results, r)
  BY DEF Judge
<1> HIDE DEF r
<1>6. /\ PassMark(k) \in Int
      /\ PassMark(k + 1)' = (IF r.passed THEN Expected[Scenario][1] ELSE 0) + PassMark(k)
      /\ NoneNegative(k) /\ count >= 0
  <2>1. k \in 0..k
    BY <1>1
  <2> QED
    BY <1>1, <1>4, <1>5, <2>1, MarkAppended DEF IInv
<1>7. PassMark(k) <= previousTotal
  <2>1. NoneMixed(k) /\ k \in 0..k
    BY <1>1 DEF NoneMixed
  <2> QED
    BY <1>6, <2>1 DEF IInv, PassesAreCounted
<1>8. PassMark(k + 1)' <= total
  BY <1>1, <1>2, <1>3, <1>4, <1>6, <1>7
<1>9. CommandIds(smsTopic) \cap (LateOrders(k + 1) \cup strays) = CommandIds(smsTopic)
  BY DEF IInv, SmsAreAccounted, Begun
<1> QED
  BY <1>2, <1>8, <1>9

(* Each step of the runner keeps what the passes stand for. *)
LEMMA PassesStayCounted ==
  ASSUME IInv, [Next]_vars
  PROVE  PassesAreCounted' /\ PassedWereCounted'
<1> USE DEF IInv
<1>0. /\ results \in Seq(Results) /\ Len(results) \in Nat /\ Len(results) <= Len(Suite)
      /\ phase \in StartPhases => results = <<>>
      /\ previousTotal \in Nat
      /\ IsFiniteSet(smsTopic) /\ IsFiniteSet(smsTopic')
  BY TypeInvariant DEF TypeOK, ResultsTypeOK, PipelineTypeOK
<1>1. CASE UNCHANGED vars
  BY <1>1 DEF vars, pipelineVars, judgedVars, PassesAreCounted, PassedWereCounted,
              PassMark, PassMarks, NoneNegative, NoneMixed, LateOrders
<1>2. CASE TearDownPrevious
  <2>1. results' = <<>> /\ previousTotal' \in Nat
    BY <1>0, <1>2 DEF TearDownPrevious, RunnerGoes, judgedVars, StartPhases
  <2>2. PassMark(0)' = 0
    <3>1. 1..0 = {}
      OBVIOUS
    <3> QED
      BY <3>1, SumEmpty DEF PassMark
  <2>3. Cardinality(CommandIds(smsTopic') \cap (LateOrders(0) \cup strays')) \in Nat
    BY <1>0, CommandIdsFinite, FS_Subset, FS_CardinalityType
  <2>4. PassesAreCounted'
    <3> SUFFICES ASSUME NEW k \in 0..Len(results')
                 PROVE  /\ PassMark(k)' <= Cardinality(CommandIds(smsTopic')
                                                        \cap (LateOrders(k) \cup strays'))
                        /\ PassMark(k)' <= previousTotal'
      BY DEF PassesAreCounted, LateOrders
    <3>1. k = 0
      BY <2>1
    <3>2. /\ PassMark(0)' <= Cardinality(CommandIds(smsTopic')
                                          \cap (LateOrders(0) \cup strays'))
          /\ PassMark(0)' <= previousTotal'
      BY <2>1, <2>2, <2>3
    <3> QED
      BY <3>1, <3>2 DEF PassMark
  <2> QED
    BY <2>1, <2>4 DEF PassedWereCounted
<1>3. CASE \/ ComposeUp \/ ComposeFails \/ PollHealthy \/ PollAgain \/ PollTimesOut
           \/ BuildJar \/ NoJarToSubmit \/ CopyJar \/ ContainerMoves \/ SubmitJob
  <2>1. UNCHANGED <<smsTopic, judgedVars, strays>> /\ phase # "EXITED"
    BY <1>3 DEF ComposeUp, ComposeFails, PollHealthy, PollAgain, PollTimesOut, BuildJar,
                NoJarToSubmit, CopyJar, ContainerMoves, SubmitJob, RunnerGoes, pipelineVars
  <2> QED
    BY <1>0, <2>1, CountedKept
<1>4. CASE RunScenario
  <2>1. UNCHANGED <<smsTopic, judgedVars>> /\ phase # "EXITED"
        /\ strays \subseteq strays'
    BY <1>4 DEF RunScenario, RunnerGoes, Publish
  <2> QED
    BY <1>0, <2>1, CountedKept
<1>5. CASE RunScenarioFails
  <2>0. PICK n \in Nat : n = Len(results)
    BY <1>0
  <2> DEFINE r == Result(Scenario, FALSE, 0 - 1, TRUE)
  <2>1. UNCHANGED <<smsTopic, previousTotal>> /\ phase = "SIMULATING"
        /\ strays \subseteq strays' /\ results' = Append(results, r)
    BY <1>5 DEF RunScenarioFails, Publish
  <2>2. n < Len(Suite) /\ Scenario \in DOMAIN Expected
    BY <2>0, <2>1, SuiteAssumption DEF TypeOK, ResultsTypeOK, Scenario
  <2>3. r \in Results /\ ~r.passed
    BY <2>2 DEF Result, Results
  <2> HIDE DEF r
  <2>4. /\ \A k \in 0..n : /\ PassMark(k) \in Int
                           /\ PassMark(k)' = PassMark(k)
                           /\ NoneNegative(k)' <=> NoneNegative(k)
        /\ PassMark(n + 1)' = 0 + PassMark(n)
        /\ NoneNegative(n + 1)' => NoneNegative(n)
    BY <2>0, <2>1, <2>2, <2>3, MarkAppended
  <2>5. /\ Len(results') = n + 1 /\ results'[n + 1] = r
        /\ \A j \in 1..n : results'[j] = results[j]
    BY <1>0, <2>0, <2>1
  <2>6. ASSUME NEW k \in 0..n, NoneMixed(k), NoneNegative(k)
        PROVE  PassMark(k) <= Cardinality(CommandIds(smsTopic')
                                           \cap (LateOrders(k) \cup strays'))
    <3> DEFINE S == LateOrders(k) \cup strays
               T == LateOrders(k) \cup strays'
    <3>1. PassMark(k) <= Cardinality(CommandIds(smsTopic) \cap S)
      BY <2>0, <2>1, <2>6 DEF PassesAreCounted
    <3>2. S \subseteq T
      BY <2>1
    <3> HIDE DEF S, T
    <3>3. /\ Cardinality(CommandIds(smsTopic) \cap S) \in Nat
          /\ Cardinality(CommandIds(smsTopic') \cap T) \in Nat
          /\ Cardinality(CommandIds(smsTopic) \cap S)
               <= Cardinality(CommandIds(smsTopic') \cap T)
      BY <1>0, <2>1, <3>2, MoreOfTheTopic
    <3>4. PassMark(k) <= Cardinality(CommandIds(smsTopic') \cap T)
      BY <2>4, <3>1, <3>3
    <3> QED
      BY <3>4 DEF T
  <2>7. ASSUME NoneMixed(n + 1), NoneNegative(n + 1)'
        PROVE  /\ PassMark(n + 1)' <= Cardinality(CommandIds(smsTopic')
                                                   \cap (LateOrders(n + 1) \cup strays'))
               /\ PassMark(n + 1)' <= previousTotal
    <3>1. NoneMixed(n) /\ NoneNegative(n) /\ n \in 0..n
      BY <1>0, <2>4, <2>7 DEF NoneMixed
    <3>2. PassMark(n) <= previousTotal
      BY <2>0, <2>1, <3>1 DEF PassesAreCounted
    <3> DEFINE S == LateOrders(n) \cup strays'
               T == LateOrders(n + 1) \cup strays'
    <3>3. PassMark(n) <= Cardinality(CommandIds(smsTopic') \cap S)
      BY <2>6, <3>1
    <3>4. S \subseteq T
      BY <1>0, LateOrdersGrow
    <3> HIDE DEF S, T
    <3>5. /\ Cardinality(CommandIds(smsTopic') \cap S) \in Nat
          /\ Cardinality(CommandIds(smsTopic') \cap T) \in Nat
          /\ Cardinality(CommandIds(smsTopic') \cap S)
               <= Cardinality(CommandIds(smsTopic') \cap T)
      BY <1>0, <2>1, <3>4, MoreOfTheTopic
    <3>6. PassMark(n + 1)' = PassMark(n) /\ PassMark(n) \in Int
      BY <2>4, <3>1
    <3> QED
      BY <3>2, <3>3, <3>5, <3>6 DEF T
  <2>8. PassesAreCounted'
    <3> SUFFICES ASSUME NEW k \in 0..(n + 1), NoneMixed(k), NoneNegative(k)'
                 PROVE  /\ PassMark(k)' <= Cardinality(CommandIds(smsTopic')
                                                        \cap (LateOrders(k) \cup strays'))
                        /\ k = n + 1 => PassMark(k)' <= previousTotal
      BY <2>1, <2>5 DEF PassesAreCounted, NoneMixed, LateOrders
    <3>1. CASE k = n + 1
      BY <2>7, <3>1 DEF PassMark, NoneNegative
    <3>2. CASE k # n + 1
      <4>1. k \in 0..n
        BY <3>2
      <4> QED
        BY <2>4, <2>6, <3>2, <4>1
    <3> QED
      BY <3>1, <3>2
  <2>9. PassedWereCounted'
    <3>1. DOMAIN results' = 1..n \cup {n + 1} /\ DOMAIN results = 1..n
      BY <1>0, <2>0, <2>1
    <3> QED
      BY <2>3, <2>5, <3>1 DEF PassedWereCounted
  <2> QED
    BY <2>8, <2>9
<1>6. CASE CountSms
  <2>0. PICK n \in Nat : n = Len(results)
    BY <1>0
  <2>1. PICK total : ConsumeSmsCount(total) /\ Judge(total)
    BY <1>6 DEF CountSms
  <2> DEFINE count == total - previousTotal
             r == Result(Scenario, Passes(Scenario, count), count, FALSE)
  <2>2. UNCHANGED <<smsTopic, strays>> /\ phase = "COUNTING" /\ previousTotal' = total
        /\ results' = Append(results, r)
    BY <1>6, <2>1 DEF CountSms, pipelineVars, Judge
  <2>3. n < Len(Suite) /\ Scenario \in DOMAIN Expected /\ Expected[Scenario][1] \in Nat
    BY <2>0, <2>2, SuiteAssumption DEF TypeOK, ResultsTypeOK, Scenario
  <2>4. total \in Nat
    BY <1>0, <2>1, ConsumedCount
  <2>5. r \in Results /\ (r.passed => r.actualSmsCount >= 0)
    <3>1. Passes(Scenario, count) \in BOOLEAN /\ count \in Int
      BY <1>0, <2>4 DEF Passes
    <3>2. Passes(Scenario, count) => count >= 0
      BY <2>3, <3>1 DEF Passes
    <3> QED
      BY <2>3, <3>1, <3>2 DEF Result, Results
  <2>6. \A k \in 0..n : /\ PassMark(k) \in Int
                        /\ PassMark(k)' = PassMark(k)
                        /\ NoneNegative(k)' <=> NoneNegative(k)
    BY <2>0, <2>2, <2>3, <2>5, MarkAppended
  <2> HIDE DEF r
  <2>7. /\ Len(results') = n + 1 /\ results'[n + 1] = r
        /\ \A j \in 1..n : results'[j] = results[j]
    BY <1>0, <2>0, <2>2
  <2>8. ASSUME NoneMixed(n + 1), NoneNegative(n + 1)'
        PROVE  /\ PassMark(n + 1)' <= Cardinality(CommandIds(smsTopic)
                                                   \cap (LateOrders(n + 1) \cup strays))
               /\ PassMark(n + 1)' <= total
    <3> DEFINE mark == PassMark(n + 1)'
               shown == Cardinality(CommandIds(smsTopic) \cap (LateOrders(n + 1) \cup strays))
    <3>1. mark <= total /\ total <= shown
      BY <2>0, <2>1, <2>2, <2>8, PassIsEarned
    <3>2. mark \in Int
      <4>1. PassMark(n + 1)' = (IF r.passed THEN Expected[Scenario][1] ELSE 0) + PassMark(n)
        BY <2>0, <2>2, <2>3, <2>5, <2>0, MarkAppended DEF r
      <4> QED
        BY <1>0, <2>3, <2>6, <4>1
    <3>3. shown \in Nat
      BY <1>0, CommandIdsFinite, FS_Subset, FS_CardinalityType
    <3> HIDE DEF mark, shown
    <3>4. mark <= shown
      BY <2>4, <3>1, <3>2, <3>3
    <3> QED
      BY <3>1, <3>4 DEF mark, shown
  <2>9. PassesAreCounted'
    <3>1. \A k \in 0..(n + 1) : k \in 0..n \/ k = n + 1
      BY <1>0
    <3>2. \A k \in 0..n : k # n + 1
      BY <1>0
    <3> QED
      BY <2>0, <2>2, <2>6, <2>7, <2>8, <3>1, <3>2 DEF PassesAreCounted, NoneMixed, LateOrders
  <2>10. PassedWereCounted'
    <3>1. DOMAIN results' = 1..n \cup {n + 1} /\ DOMAIN results = 1..n
      BY <1>0, <2>0, <2>2
    <3> QED
      BY <2>5, <2>7, <3>1 DEF PassedWereCounted
  <2> QED
    BY <2>9, <2>10
<1>7. CASE Report
  BY <1>7 DEF Report, Exit, PassesAreCounted, PassedWereCounted, judgedVars
<1>8. CASE Pipeline
  <2>1. UNCHANGED <<judgedVars, strays>> /\ phase # "EXITED"
    BY <1>8 DEF Pipeline
  <2>2. CommandIds(smsTopic) \subseteq CommandIds(smsTopic')
    BY <1>8 DEF Pipeline, JobStarts, OpenIsLate, SendSms, RepeatSms, Write, CommandIds
  <2> QED
    BY <1>0, <2>1, <2>2, CountedKept
<1> QED
  BY <1>1, <1>2, <1>3, <1>4, <1>5, <1>6, <1>7, <1>8 DEF Next, Runner

(* The strengthened invariant holds throughout. *)
LEMMA RunnerInvariant == Spec => []IInv
<1>1. Init => IInv
  <2> SUFFICES ASSUME Init PROVE IInv
    OBVIOUS
  <2>1. TypeOK /\ results = <<>> /\ previousTotal = 0
    BY InitTyped DEF Init
  <2>2. SmsAreAccounted
    BY DEF Init, SmsAreAccounted, StartPhases
  <2>3. Cardinality(CommandIds(smsTopic) \cap (LateOrders(0) \cup strays)) \in Nat
    BY <2>1, CommandIdsFinite, FS_Subset, FS_CardinalityType DEF TypeOK, PipelineTypeOK
  <2>4. PassesAreCounted
    <3> SUFFICES ASSUME NEW k \in 0..Len(results)
                 PROVE  /\ PassMark(k) <= Cardinality(CommandIds(smsTopic)
                                                       \cap (LateOrders(k) \cup strays))
                        /\ PassMark(k) <= previousTotal
      BY DEF PassesAreCounted
    <3>1. k = 0
      BY <2>1
    <3>2. /\ PassMark(0) <= Cardinality(CommandIds(smsTopic)
                                         \cap (LateOrders(0) \cup strays))
          /\ PassMark(0) <= previousTotal
      BY <2>1, <2>3, NoMark
    <3> QED
      BY <3>1, <3>2
  <2>5. PassedWereCounted
    BY <2>1 DEF PassedWereCounted
  <2> QED
    BY <2>1, <2>2, <2>4, <2>5 DEF IInv
<1>2. IInv /\ [Next]_vars => IInv'
  BY TypeInvariant, SmsStayAccounted, PassesStayCounted DEF IInv
<1> QED
  BY <1>1, <1>2, PTL DEF Spec

(* A pass stands for SMS of orders that were to be late, whatever --orders-*)
(* count is, whichever scenarios fail and however late, short or repeated  *)
(* the records consume_sms_count reads are: no SMS lets two scenarios pass,*)
(* and only that of an order of an earlier run or of one whose closing     *)
(* snapshot was lost can stand in for another.                             *)
THEOREM PassesAreEarnedAlways == Spec => []PassesAreEarned
<1>1. IInv => PassesAreEarned
  BY DEF IInv, PassesAreCounted, PassesAreEarned
<1> QED
  BY <1>1, RunnerInvariant, PTL

(* A scenario that passes must have shown as many SMS as it has late       *)
(* orders, if EXPECTED_SMS asks for as many.                               *)
LEMMA LateOrdersBounded ==
  ASSUME \A s \in LateScenarios \cap DOMAIN Expected : Expected[s][1] >= OrdersCount,
         TypeOK, NEW n \in 0..Len(results), \A j \in 1..n : results[j].passed
  PROVE  IsFiniteSet(LateOrders(n)) /\ Cardinality(LateOrders(n)) <= PassMark(n)
<1> DEFINE T == {k \in Nat : k <= n => /\ IsFiniteSet(LateOrders(k))
                                       /\ Cardinality(LateOrders(k)) <= PassMark(k)}
<1>0. results \in Seq(Results) /\ Len(results) <= Len(Suite) /\ n \in Nat
      /\ Len(results) \in Nat
  BY DEF TypeOK, ResultsTypeOK
<1>1. 0 \in T
  BY NoLateOrders, NoMark, FS_EmptySet
<1>2. ASSUME NEW k \in T, k + 1 <= n
      PROVE  /\ IsFiniteSet(LateOrders(k + 1))
             /\ Cardinality(LateOrders(k + 1)) <= PassMark(k + 1)
  <2> DEFINE s == Suite[k + 1]
             a == Cardinality(LateOrders(k))
             b == Cardinality(OrdersOf(s))
             c == Cardinality(LateOrders(k) \cap OrdersOf(s))
             mark == Expected[s][1]
  <2>1. k \in Nat /\ k + 1 \in DOMAIN Suite /\ k + 1 \in DOMAIN results
        /\ k + 1 \in 1..n /\ k \in 0..Len(results)
    BY <1>0, <1>2, SuiteAssumption
  <2>2. s \in DOMAIN Expected /\ mark \in Nat
    BY <2>1, SuiteAssumption
  <2>3. IsFiniteSet(LateOrders(k)) /\ a \in Nat /\ a <= PassMark(k)
    BY <1>0, <1>2, <2>1, FS_CardinalityType
  <2>4. PassMark(k + 1) = mark + PassMark(k) /\ PassMark(k) \in Int
    <3>1. PassMarks[k + 1] = mark
      BY <2>1 DEF PassMarks
    <3>2. \A j \in 1..(k + 1) : PassMarks[j] \in Int
      <4>1. \A j \in 1..(k + 1) : j \in DOMAIN results /\ j \in DOMAIN Suite
        BY <1>0, <2>1, SuiteAssumption
      <4> QED
        BY <4>1, SuiteAssumption DEF PassMarks
    <3>3. PassMark(k + 1) = PassMarks[k + 1] + PassMark(k)
      BY <2>1, <3>2, SumToNext DEF PassMark
    <3> QED
      BY <1>0, <2>1, <3>1, <3>3, MarkType
  <2>5. CASE s \in LateScenarios
    <3>1. LateOrders(k + 1) = LateOrders(k) \cup OrdersOf(s)
      BY <2>1, <2>5, LateOrdersGrow
    <3>2. IsFiniteSet(OrdersOf(s)) /\ b \in Nat /\ b <= mark
      <4>1. /\ IsFiniteSet(OrdersOf(s)) /\ b \in Nat
            /\ OrdersCount >= 0 => b <= OrdersCount
            /\ OrdersCount < 0 => b = 0
        BY OrdersFinite
      <4>2. mark >= OrdersCount /\ OrdersCount \in Int
        BY <2>2, <2>5, SuiteAssumption
      <4> HIDE DEF b, mark
      <4> QED
        BY <2>2, <4>1, <4>2
    <3>3. /\ IsFiniteSet(LateOrders(k) \cup OrdersOf(s))
          /\ Cardinality(LateOrders(k) \cup OrdersOf(s)) = a + b - c
      BY <2>3, <3>2, FS_Union
    <3>4. c \in Nat
      BY <2>3, FS_Intersection, FS_CardinalityType
    <3> HIDE DEF a, b, c, mark
    <3>5. a + b - c <= mark + PassMark(k)
      BY <2>2, <2>3, <2>4, <3>2, <3>4
    <3> QED
      BY <2>4, <3>1, <3>3, <3>5
  <2>6. CASE s \notin LateScenarios
    <3>1. LateOrders(k + 1) = LateOrders(k)
      BY <2>1, <2>6, LateOrdersGrow
    <3> HIDE DEF mark
    <3>2. a <= PassMark(k + 1)
      BY <2>2, <2>3, <2>4
    <3> QED
      BY <2>3, <3>1, <3>2
  <2> QED
    BY <2>5, <2>6
<1>3. \A k \in T : k + 1 \in T
  <2> SUFFICES ASSUME NEW k \in T PROVE k + 1 \in T
    OBVIOUS
  <2>1. k \in Nat /\ k + 1 \in Nat
    OBVIOUS
  <2> HIDE DEF T
  <2>2. k + 1 <= n => /\ IsFiniteSet(LateOrders(k + 1))
                      /\ Cardinality(LateOrders(k + 1)) <= PassMark(k + 1)
    BY <1>2
  <2> QED
    BY <2>1, <2>2 DEF T
<1>4. T \subseteq Nat
  OBVIOUS
<1> HIDE DEF T
<1>5. T = Nat
  BY <1>1, <1>3, <1>4, Induction
<1> QED
  BY <1>0, <1>5 DEF T

(* When EXPECTED_SMS asks for at least as many SMS as there are orders, as *)
(* it does for the default --orders-count, then as long as every scenario  *)
(* passes, the SMS of every late order played so far is in the topic: none *)
(* passes on the SMS of another, however late SMS come.  (With a greater   *)
(* --orders-count this does not hold.)                                     *)
THEOREM LateOrdersAreAlertedIfExpected ==
  ASSUME \A s \in LateScenarios \cap DOMAIN Expected : Expected[s][1] >= OrdersCount
  PROVE  Spec => []LateOrdersAreAlerted
<1>1. IInv => LateOrdersAreAlerted
  <2> SUFFICES ASSUME IInv, phase # "EXITED", strays = {}, NEW k \in 0..Len(results),
                      NoneMixed(k), \A j \in 1..k : results[j].passed
               PROVE  LateOrders(k) \subseteq CommandIds(smsTopic)
    BY DEF LateOrdersAreAlerted
  <2>1. TypeOK /\ results \in Seq(Results) /\ IsFiniteSet(smsTopic)
        /\ Len(results) <= Len(Suite)
    BY DEF IInv, TypeOK, ResultsTypeOK, PipelineTypeOK
  <2>2. NoneNegative(k)
    BY <2>1 DEF IInv, PassedWereCounted, NoneNegative
  <2> DEFINE shown == CommandIds(smsTopic) \cap LateOrders(k)
  <2>3. PassMark(k) <= Cardinality(shown) /\ PassMark(k) \in Int
    <3>1. LateOrders(k) \cup strays = LateOrders(k)
      OBVIOUS
    <3> QED
      BY <2>1, <2>2, <3>1, MarkType DEF IInv, PassesAreCounted
  <2>4. IsFiniteSet(LateOrders(k)) /\ Cardinality(LateOrders(k)) <= PassMark(k)
    BY <2>1, LateOrdersBounded
  <2>5. /\ shown \subseteq LateOrders(k)
        /\ Cardinality(shown) \in Nat /\ Cardinality(LateOrders(k)) \in Nat
        /\ Cardinality(shown) <= Cardinality(LateOrders(k))
        /\ Cardinality(shown) = Cardinality(LateOrders(k)) => shown = LateOrders(k)
    BY <2>4, FS_Subset, FS_CardinalityType
  <2>6. Cardinality(shown) = Cardinality(LateOrders(k))
    <3> HIDE DEF shown
    <3> QED
      BY <2>3, <2>4, <2>5
  <2> QED
    BY <2>5, <2>6
<1> QED
  BY <1>1, RunnerInvariant, PTL

----------------------------------------------------------------------------
(* No SMS is counted twice *)

(* The counts so far add up to the last total.                             *)
CountsAddUp == SumFunctionOnSet(Counts, DOMAIN results) = previousTotal

(* The last total is not more than the topic holds, until it is deleted.   *)
TotalIsInTopic ==
    phase # "EXITED" => previousTotal <= Cardinality(CommandIds(smsTopic))

CountInv == TypeOK /\ CountsAddUp /\ TotalIsInTopic

(* One result more adds its count, or nothing if its scenario failed.      *)
LEMMA CountsAppended ==
  ASSUME results \in Seq(Results), NEW r \in Results, results' = Append(results, r)
  PROVE  /\ SumFunctionOnSet(Counts, DOMAIN results) \in Int
         /\ SumFunctionOnSet(Counts, DOMAIN results)'
              = (IF r.error THEN 0 ELSE r.actualSmsCount)
                  + SumFunctionOnSet(Counts, DOMAIN results)
<1> DEFINE n == Len(results)
<1>1. /\ n \in Nat /\ DOMAIN results = 1..n /\ Len(results') = n + 1
      /\ DOMAIN results' = 1..(n + 1)
      /\ results'[n + 1] = r
      /\ \A k \in 1..n : results'[k] = results[k] /\ results[k] \in Results
  OBVIOUS
<1>2. Counts'[n + 1] = (IF r.error THEN 0 ELSE r.actualSmsCount) /\ Counts'[n + 1] \in Int
  BY <1>1 DEF Counts, Results
<1>3. \A k \in 1..n : Counts[k] \in Int /\ Counts'[k] = Counts[k]
  BY <1>1 DEF Counts, Results
<1>4. IsFiniteSet(1..n)
  BY <1>1, NumbersTo
<1>5. SumFunctionOnSet(Counts', 1..(n + 1))
        = Counts'[n + 1] + SumFunctionOnSet(Counts', 1..n)
  <2>1. \A k \in 1..(n + 1) : Counts'[k] \in Int
    BY <1>1, <1>2, <1>3
  <2> QED
    BY <1>1, <2>1, SumToNext
<1>6. SumFunctionOnSet(Counts', 1..n) = SumFunctionOnSet(Counts, 1..n)
  BY <1>3, <1>4, SumSame
<1>7. SumFunctionOnSet(Counts, 1..n) \in Int
  BY <1>3, <1>4, SumType
<1>8. SumFunctionOnSet(Counts, DOMAIN results)'
        = SumFunctionOnSet(Counts', 1..(n + 1))
  BY <1>1
<1> QED
  BY <1>1, <1>2, <1>5, <1>6, <1>7, <1>8

(* Steps that neither judge nor delete the topic keep the accounts.        *)
LEMMA AccountsKept ==
  ASSUME CountInv, UNCHANGED judgedVars, phase # "EXITED", IsFiniteSet(smsTopic'),
         CommandIds(smsTopic) \subseteq CommandIds(smsTopic')
  PROVE  CountsAddUp' /\ TotalIsInTopic'
<1>1. CountsAddUp'
  BY DEF CountInv, CountsAddUp, Counts, judgedVars
<1>2. Cardinality(CommandIds(smsTopic)) <= Cardinality(CommandIds(smsTopic'))
      /\ IsFiniteSet(CommandIds(smsTopic'))
  BY CommandIdsFinite, FS_Subset
<1>3. Cardinality(CommandIds(smsTopic)) \in Nat /\ Cardinality(CommandIds(smsTopic')) \in Nat
  BY CommandIdsFinite DEF CountInv, TypeOK, PipelineTypeOK
<1>4. previousTotal' = previousTotal /\ previousTotal \in Nat
  BY DEF judgedVars, CountInv, TypeOK, ResultsTypeOK
<1> QED
  BY <1>1, <1>2, <1>3, <1>4 DEF CountInv, TotalIsInTopic

(* Each step keeps the accounts: CountSms replaces the total by what it    *)
(* has counted and appends the difference; a failed scenario appends       *)
(* nothing; the topic is deleted before the first count or after the last. *)
LEMMA CountInvariant ==
  ASSUME CountInv, [Next]_vars
  PROVE  CountInv'
<1> USE DEF CountInv
<1>0. /\ TypeOK' /\ IsFiniteSet(smsTopic')
      /\ results \in Seq(Results) /\ previousTotal \in Nat
      /\ phase \in StartPhases => results = <<>> /\ previousTotal = 0
  BY TypeInvariant DEF TypeOK, PipelineTypeOK, ResultsTypeOK
<1>1. CASE UNCHANGED vars
  BY <1>0, <1>1 DEF vars, pipelineVars, judgedVars, CountsAddUp, TotalIsInTopic, Counts
<1>2. CASE TearDownPrevious
  <2>1. results' = <<>> /\ previousTotal' = 0
    BY <1>0, <1>2 DEF TearDownPrevious, RunnerGoes, judgedVars, StartPhases
  <2>2. CountsAddUp'
    <3>1. DOMAIN results' = {}
      BY <2>1
    <3> QED
      BY <2>1, <3>1, SumEmpty DEF CountsAddUp
  <2>3. Cardinality(CommandIds(smsTopic')) \in Nat
    BY <1>0, CommandIdsFinite
  <2> QED
    BY <1>0, <2>1, <2>2, <2>3 DEF TotalIsInTopic
<1>3. CASE \/ ComposeUp \/ ComposeFails \/ PollHealthy \/ PollAgain \/ PollTimesOut
           \/ BuildJar \/ NoJarToSubmit \/ CopyJar \/ ContainerMoves \/ SubmitJob
           \/ RunScenario
  <2>1. UNCHANGED <<smsTopic, judgedVars>> /\ phase # "EXITED"
    BY <1>3 DEF ComposeUp, ComposeFails, PollHealthy, PollAgain, PollTimesOut, BuildJar,
                NoJarToSubmit, CopyJar, ContainerMoves, SubmitJob, RunScenario, Publish,
                RunnerGoes, pipelineVars
  <2> QED
    BY <1>0, <2>1, AccountsKept
<1>4. CASE RunScenarioFails
  <2>1. UNCHANGED <<smsTopic, previousTotal>> /\ phase = "SIMULATING"
        /\ results' = Append(results, Result(Scenario, FALSE, 0 - 1, TRUE))
    BY <1>4 DEF RunScenarioFails, Publish
  <2>2. Scenario \in DOMAIN Expected
    BY <2>1, SuiteAssumption DEF TypeOK, ResultsTypeOK, Scenario
  <2>3. CountsAddUp'
    <3> DEFINE r == Result(Scenario, FALSE, 0 - 1, TRUE)
    <3>1. r \in Results /\ r.error
      BY <2>2 DEF Result, Results
    <3> HIDE DEF r
    <3>2. /\ SumFunctionOnSet(Counts, DOMAIN results) \in Int
          /\ SumFunctionOnSet(Counts, DOMAIN results)'
                = 0 + SumFunctionOnSet(Counts, DOMAIN results)
      BY <1>0, <2>1, <3>1, CountsAppended DEF r
    <3> QED
      BY <2>1, <3>2 DEF CountsAddUp
  <2> QED
    BY <1>0, <2>1, <2>3 DEF TotalIsInTopic
<1>5. CASE CountSms
  <2>1. PICK total : ConsumeSmsCount(total) /\ Judge(total)
    BY <1>5 DEF CountSms
  <2>2. UNCHANGED smsTopic /\ phase = "COUNTING"
    BY <1>5 DEF CountSms, pipelineVars
  <2>3. total \in Nat /\ total <= Cardinality(CommandIds(smsTopic)) /\ previousTotal' = total
    BY <2>1, ConsumedCount DEF TypeOK, PipelineTypeOK, Judge
  <2>4. Scenario \in DOMAIN Expected
    BY <2>2, SuiteAssumption DEF TypeOK, ResultsTypeOK, Scenario
  <2>5. SumFunctionOnSet(Counts, DOMAIN results)'
          = (total - previousTotal) + SumFunctionOnSet(Counts, DOMAIN results)
    <3> DEFINE r == Result(Scenario, Passes(Scenario, total - previousTotal),
                           total - previousTotal, FALSE)
    <3>1. Passes(Scenario, total - previousTotal) \in BOOLEAN
      BY DEF Passes
    <3>2. /\ r \in Results /\ ~r.error
          /\ r.actualSmsCount = total - previousTotal
      BY <1>0, <2>3, <2>4, <3>1 DEF Result, Results
    <3>3. results' = Append(results, r)
      BY <2>1 DEF Judge
    <3> HIDE DEF r
    <3> QED
      BY <1>0, <3>2, <3>3, CountsAppended
  <2>6. CountsAddUp'
    BY <1>0, <2>3, <2>5 DEF CountsAddUp
  <2> QED
    BY <1>0, <2>2, <2>3, <2>6 DEF TotalIsInTopic
<1>6. CASE Report
  BY <1>0, <1>6 DEF Report, Exit, judgedVars, CountsAddUp, TotalIsInTopic, Counts
<1>7. CASE Pipeline
  <2>1. UNCHANGED judgedVars /\ phase # "EXITED"
    BY <1>7 DEF Pipeline
  <2>2. CommandIds(smsTopic) \subseteq CommandIds(smsTopic')
    BY <1>7 DEF Pipeline, JobStarts, OpenIsLate, SendSms, RepeatSms, Write, CommandIds
  <2> QED
    BY <1>0, <2>1, <2>2, AccountsKept
<1> QED
  BY <1>1, <1>2, <1>3, <1>4, <1>5, <1>6, <1>7 DEF Next, Runner

(* However late SMS come and whatever the consumer fails to read, the      *)
(* counts of the scenarios together are no more than the orders alerted.   *)
THEOREM EachSmsIsCountedOnce == Spec => []NoSmsIsCountedTwice
<1>1. Init => CountInv
  <2> SUFFICES ASSUME Init PROVE CountInv
    OBVIOUS
  <2>1. TypeOK /\ results = <<>> /\ previousTotal = 0
    BY InitTyped DEF Init
  <2>2. CountsAddUp
    <3>1. DOMAIN results = {}
      BY <2>1
    <3> QED
      BY <2>1, <3>1, SumEmpty DEF CountsAddUp
  <2>3. Cardinality(CommandIds(smsTopic)) \in Nat
    BY <2>1, CommandIdsFinite DEF TypeOK, PipelineTypeOK
  <2> QED
    BY <2>1, <2>2, <2>3 DEF CountInv, TotalIsInTopic
<1>2. CountInv /\ [Next]_vars => CountInv'
  BY CountInvariant
<1>3. CountInv => NoSmsIsCountedTwice
  BY DEF CountInv, CountsAddUp, TotalIsInTopic, NoSmsIsCountedTwice
<1> QED
  BY <1>1, <1>2, <1>3, PTL DEF Spec

=============================================================================
