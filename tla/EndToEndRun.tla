---------------------------- MODULE EndToEndRun ----------------------------
(***************************************************************************)
(* The end-to-end test (run_e2e.py): it starts the containers, submits the *)
(* job, plays a suite of scenarios one after the other through the         *)
(* simulator, and judges each by the SMS that have come since the one      *)
(* before.                                                                 *)
(*                                                                         *)
(* The runner only sees exit codes and the SMS topic.  Simulator, job and  *)
(* topics go on by themselves here, as far as they decide what it sees: an *)
(* order is late or is closed in time, and the alert of a late one comes   *)
(* once, at any time later or never.  An SMS command is identified by its  *)
(* commandId, that is, by its order.                                       *)
(***************************************************************************)
EXTENDS ScenarioAssignment

CONSTANTS
    Suite,             \* the scenarios, in the order they are played
    Mixed,             \* the one that mixes others
    Distribution,      \* the weights of the scenarios it includes
    LateScenarios,     \* those whose orders have an ETA in the past
    Expected,          \* scenario -> the least and the greatest count passed
    OrdersCount,       \* --orders-count
    MaxMessages,       \* records the console consumer reads at most
    Services,          \* the containers
    LeftOver,          \* the records an earlier run may have left in sms-commands
    Invocations,       \* command lines, and environments of the Flink containers
    PollLimit,         \* bound: the polls that fit in the deadline
    MaxFaults,         \* bound: the faults of a run
    Null

ASSUME SuiteAssumption ==
    /\ Suite \in Seq(DOMAIN Expected) /\ Suite # <<>>
    /\ \A s \in DOMAIN Expected : Expected[s] \in Nat \X Nat
    /\ OrdersCount \in Int /\ IsFiniteSet(LeftOver)
    /\ MaxMessages \in Nat /\ PollLimit \in Nat /\ MaxFaults \in Nat

VARIABLES
    invocation,      \* --no-cleanup, and the variables the job sees
    phase,           \* where the runner is
    polls,           \* the polls the deadline of poll_healthy leaves
    containers,      \* service -> the state of its container
    job,             \* the Flink job
    alerted,         \* orders the job has alerted, or is about to
    due,             \* those whose SMS is not in the topic yet
    open,            \* orders whose last snapshot is lost
    smsTopic,        \* the records of sms-commands
    previousTotal,   \* the count after the scenario before
    results,         \* E2EResult of the scenarios played
    exitCode,        \* of the runner, Null while it runs
    faults,          \* the faults so far
    strays           \* history: orders that may have an SMS without being late

pipelineVars == <<job, alerted, due, open, smsTopic>>
judgedVars   == <<previousTotal, results>>
vars == <<invocation, phase, polls, containers, pipelineVars, judgedVars,
          exitCode, faults, strays>>

OrderId(s, i) == <<s, i>>
IsLate(o)     == o[1] \in LateScenarios

(* commandIds: a repeated record counts once. *)
CommandIds(records) == {r.order : r \in records}

OrdersOf(s) == {OrderId(s, i) : i \in 1..OrdersCount}

(* An earlier run may have left its containers, job and topics.            *)
Init ==
    /\ invocation \in Invocations
    /\ phase = "STARTING"
    /\ polls = PollLimit
    /\ \/ /\ containers = [s \in Services |-> "ABSENT"]
          /\ job = "NONE" /\ smsTopic = {} /\ alerted = {}
       \/ /\ containers = [s \in Services |-> "RUNNING"]
          /\ job = "RUNNING" /\ smsTopic = LeftOver
          /\ alerted = CommandIds(LeftOver)
    /\ due = {} /\ open = {}
    /\ previousTotal = 0 /\ results = <<>>
    /\ exitCode = Null
    /\ faults = 0 /\ strays = {}

RunnerGoes(from, to) == phase = from /\ phase' = to

FaultStrikes(n) == faults' = faults + n /\ faults' \in 0..MaxFaults

Exit(code) == phase' = "EXITED" /\ exitCode' = code

----------------------------------------------------------------------------
(* Phase 1: the infrastructure *)

ComposeDown ==
    /\ containers' = [s \in Services |-> "ABSENT"]
    /\ job' = "NONE" /\ smsTopic' = {} /\ alerted' = {} /\ due' = {} /\ open' = {}

(* The exit code of "down -v" is not looked at. *)
TearDownPrevious ==
    /\ RunnerGoes("STARTING", "COMPOSING")
    /\ \/ ComposeDown /\ UNCHANGED <<faults, strays>>
       \/ /\ FaultStrikes(1) /\ strays' = CommandIds(smsTopic)
          /\ UNCHANGED <<containers, pipelineVars>>
    /\ UNCHANGED <<invocation, polls, judgedVars, exitCode>>

ComposeUp ==
    /\ RunnerGoes("COMPOSING", "POLLING")
    /\ containers' = [s \in Services |->
                        IF containers[s] = "ABSENT" THEN "STARTING" ELSE containers[s]]
    /\ UNCHANGED <<invocation, polls, pipelineVars, judgedVars,
                   exitCode, faults, strays>>

ComposeFails ==
    /\ phase = "COMPOSING"
    /\ Exit(1)
    /\ UNCHANGED <<invocation, polls, containers, pipelineVars, judgedVars, faults,
                   strays>>

(* A container comes up or exits. *)
ContainerMoves ==
    /\ phase \in {"POLLING", "BUILDING", "COPYING", "SUBMITTING"}
    /\ \E s \in Services, to \in {"RUNNING", "EXITED"} :
          /\ containers[s] = "STARTING"
          /\ containers' = [containers EXCEPT ![s] = to]
    /\ UNCHANGED <<invocation, phase, polls, pipelineVars,
                   judgedVars, exitCode, faults, strays>>

(* "docker compose ps" does not list a container that has exited. *)
Listed == {s \in Services : containers[s] \in {"STARTING", "RUNNING"}}

(* A line of its output that cannot be decoded is skipped.                 *)
PollHealthy ==
    /\ RunnerGoes("POLLING", "BUILDING")
    /\ polls > 0
    /\ Listed # {}
    /\ \E decoded \in SUBSET Listed :
          /\ FaultStrikes(Cardinality(Listed \ decoded))
          /\ \A s \in decoded : containers[s] = "RUNNING"
    /\ polls' = PollLimit
    /\ UNCHANGED <<invocation, containers, pipelineVars, judgedVars,
                   exitCode, strays>>

(* ps fails, lists nothing, or lists a container that is not ready. *)
FaultyPollAgain ==
    /\ phase = "POLLING"
    /\ polls > 0
    /\ UNCHANGED vars   \* retried without looking at the clock
PollAgain ==
    /\ phase = "POLLING"
    /\ polls > 0
    /\ polls' = polls - 1
    /\ UNCHANGED <<invocation, phase, containers, pipelineVars, judgedVars,
                   exitCode, faults, strays>>

PollTimesOut ==
    /\ phase = "POLLING"
    /\ polls = 0
    /\ Exit(1)
    /\ UNCHANGED <<invocation, polls, containers, pipelineVars, judgedVars, faults,
                   strays>>

----------------------------------------------------------------------------
(* Phase 2: the job *)

(* build_flink_jar, and a jar in its target directory. *)
BuildJar ==
    /\ RunnerGoes("BUILDING", "COPYING")
    /\ UNCHANGED <<invocation, polls, containers, pipelineVars, judgedVars,
                   exitCode, faults, strays>>

(* Build or copy fail: main returns 1, or docker cp raises. *)
NoJarToSubmit ==
    /\ phase \in {"BUILDING", "COPYING"}
    /\ Exit(1)
    /\ UNCHANGED <<invocation, polls, containers, pipelineVars, judgedVars, faults,
                   strays>>

(* docker cp also copies to a container that does not run. *)
CopyJar ==
    /\ RunnerGoes("COPYING", "SUBMITTING")
    /\ containers["flink-jobmanager"] # "ABSENT"
    /\ UNCHANGED <<invocation, polls, containers, pipelineVars, judgedVars,
                   exitCode, faults, strays>>

(* JobConfig.get: a variable that is not blank, else the argument, else    *)
(* the default.                                                            *)
Setting(env, arg, default) ==
    IF env \notin {Null, ""} THEN env ELSE IF arg # Null THEN arg ELSE default

ReadsOrders ==
    Setting(invocation["ORDERS_TOPIC"], "Orders", "Orders") = "Orders"
WritesCommands ==
    Setting(invocation["SMS_COMMANDS_TOPIC"], "sms-commands", "sms-commands")
        = "sms-commands"

(* "flink run -d": a new job begins with an empty state.  Without a job id *)
(* the runner continues all the same.                                      *)
SubmitJob ==
    /\ RunnerGoes("SUBMITTING", "SIMULATING")
    /\ \/ /\ containers["flink-jobmanager"] = "RUNNING"
          /\ job' = "STARTING" /\ alerted' = {} /\ open' = {}
       \/ UNCHANGED <<job, alerted, open>>
    /\ UNCHANGED <<invocation, polls, containers, due, smsTopic, judgedVars,
                   exitCode, faults, strays>>

----------------------------------------------------------------------------
(* Phase 3: the scenarios *)

Scenario == Suite[Len(results) + 1]

(* The orders of a mixed run have the ids their own scenario gives them. *)
MixedOrders == {{OrderId(a[i], i) : i \in DOMAIN a} :
                   a \in Assignments(Distribution, OrdersCount)}

PlannedOrders(s) == IF s = Mixed THEN MixedOrders ELSE {OrdersOf(s)}

(* What the job makes of the orders when the last snapshots of some of     *)
(* them are lost.  It reads from the latest offset, so while it starts it  *)
(* may miss any of them.                                                   *)
Publish(orders, lost) ==
    /\ \E seen \in SUBSET (orders \ lost) :
          /\ job = "RUNNING" /\ ReadsOrders => seen = orders \ lost
          /\ job = "NONE" \/ ~ReadsOrders => seen = {}
          /\ LET late == {o \in seen : IsLate(o)} \ alerted
                 left == {o \in lost : ~IsLate(o)}
             IN  /\ alerted' = alerted \cup late
                 /\ due' = due \cup late
                 /\ open' = (open \ seen) \cup left
                 /\ strays' = strays \cup left
    /\ UNCHANGED <<job, smsTopic>>

FaultyAfterScenario == IF Len(results) < Len(Suite) THEN "SIMULATING" ELSE "REPORTING"
AfterScenario == IF Len(results') < Len(Suite) THEN "SIMULATING" ELSE "REPORTING"

(* The simulator exits with 0 also if records were not delivered. *)
RunScenario ==
    /\ RunnerGoes("SIMULATING", "COUNTING")
    /\ \E orders \in PlannedOrders(Scenario) : \E lost \in SUBSET orders :
          /\ FaultStrikes(Cardinality(lost))
          /\ Publish(orders, lost)
    /\ UNCHANGED <<invocation, polls, containers, judgedVars, exitCode>>

Result(s, passed, count, error) ==
    [scenario |-> s, passed |-> passed, actualSmsCount |-> count, error |-> error]

(* It exits with another code: the scenario has failed, the counter is not *)
(* touched, and the next one follows at once.                              *)
RunScenarioFails ==
    /\ phase = "SIMULATING"
    /\ FaultStrikes(1)
    /\ \E orders \in PlannedOrders(Scenario) : \E lost \in SUBSET orders :
          Publish(orders, lost)
    /\ results' = Append(results, Result(Scenario, FALSE, 0 - 1, TRUE))
    /\ phase' = AfterScenario
    /\ UNCHANGED <<invocation, polls, containers, previousTotal, exitCode>>

(* consume_sms_count reads from the beginning, up to a limit; a consumer   *)
(* that fails or times out has read less, and nobody notices.              *)
Readable == IF Cardinality(smsTopic) <= MaxMessages THEN Cardinality(smsTopic)
                                                    ELSE MaxMessages

ConsumeSmsCount(count) ==
    \E read \in SUBSET smsTopic :
        /\ Cardinality(read) <= Readable
        /\ FaultStrikes(IF Cardinality(read) = Readable THEN 0 ELSE 1)
        /\ count = Cardinality(CommandIds(read))

(* validate_sms_count *)
FaultyPasses(s, count) == count <= Expected[s][2]
Passes(s, count) == Expected[s][1] <= count /\ count <= Expected[s][2]

FaultyJudge(total) ==
    /\ LET count == total - previousTotal
       IN  results' = Append(results,
                             Result(Scenario, Passes(Scenario, count), count, FALSE))
    /\ UNCHANGED previousTotal
Judge(total) ==
    /\ LET count == total - previousTotal
       IN  results' = Append(results,
                             Result(Scenario, Passes(Scenario, count), count, FALSE))
    /\ previousTotal' = total

CountSms ==
    /\ phase = "COUNTING"
    /\ \E total \in 0..Cardinality(smsTopic) : ConsumeSmsCount(total) /\ Judge(total)
    /\ phase' = AfterScenario
    /\ UNCHANGED <<invocation, polls, containers, pipelineVars, exitCode, strays>>

----------------------------------------------------------------------------
(* Phases 4 and 5 *)

AllPassed == \A k \in DOMAIN results : results[k].passed

(* The exit code of the last "down -v" is not looked at either. *)
Report ==
    /\ phase = "REPORTING"
    /\ Exit(IF AllPassed THEN 0 ELSE 1)
    /\ \/ ~invocation.noCleanup /\ ComposeDown /\ UNCHANGED faults
       \/ invocation.noCleanup /\ UNCHANGED <<containers, pipelineVars, faults>>
       \/ ~invocation.noCleanup /\ FaultStrikes(1) /\ UNCHANGED <<containers, pipelineVars>>
    /\ UNCHANGED <<invocation, polls, judgedVars, strays>>

Runner ==
    \/ TearDownPrevious \/ ComposeUp \/ ComposeFails
    \/ PollHealthy \/ PollAgain \/ PollTimesOut
    \/ BuildJar \/ NoJarToSubmit \/ CopyJar \/ SubmitJob
    \/ RunScenario \/ RunScenarioFails \/ CountSms
    \/ Report

----------------------------------------------------------------------------
(* The pipeline *)

JobStarts ==
    /\ job = "STARTING" /\ job' = "RUNNING"
    /\ UNCHANGED <<alerted, due, open, smsTopic, faults>>

(* The ETA of an order passes whose last snapshot is lost. *)
OpenIsLate ==
    /\ \E o \in open :
          /\ open' = open \ {o}
          /\ alerted' = alerted \cup {o} /\ due' = due \cup {o}
    /\ UNCHANGED <<job, smsTopic, faults>>

Records(o) == {r \in smsTopic : r.order = o}
Write(o) ==
    smsTopic' = smsTopic \cup {[order |-> o, copy |-> Cardinality(Records(o)) + 1]}

SendSms ==
    /\ \E o \in due :
          /\ due' = due \ {o}
          /\ IF WritesCommands THEN Write(o) ELSE UNCHANGED smsTopic
    /\ UNCHANGED <<job, alerted, open, faults>>

(* The sink is at least once. *)
RepeatSms ==
    /\ FaultStrikes(1)
    /\ \E r \in smsTopic : Write(r.order)
    /\ UNCHANGED <<job, alerted, due, open>>

Pipeline ==
    /\ phase # "EXITED"
    /\ \/ JobStarts \/ OpenIsLate \/ SendSms \/ RepeatSms
    /\ UNCHANGED <<invocation, phase, polls, containers, judgedVars, exitCode, strays>>

Next == Runner \/ ContainerMoves \/ Pipeline

(* Every command the runner starts returns. *)
Spec     == Init /\ [][Next]_vars
FairSpec == Spec /\ WF_vars(Runner)

----------------------------------------------------------------------------
(* Properties *)

StartPhases == {"STARTING", "COMPOSING", "POLLING", "BUILDING", "COPYING",
                "SUBMITTING"}

RunnerTypeOK ==
    /\ phase \in StartPhases \cup {"SIMULATING", "COUNTING", "REPORTING", "EXITED"}
    /\ polls \in 0..PollLimit
    /\ faults \in 0..MaxFaults

PipelineTypeOK ==
    /\ containers \in [Services -> {"ABSENT", "STARTING", "RUNNING", "EXITED"}]
    /\ job \in {"NONE", "STARTING", "RUNNING"}
    /\ IsFiniteSet(smsTopic)

Results == [scenario : DOMAIN Expected, passed : BOOLEAN,
            actualSmsCount : Int, error : BOOLEAN]

ResultsTypeOK ==
    /\ previousTotal \in Nat
    /\ results \in Seq(Results)
    /\ Len(results) <= Len(Suite)
    /\ phase \in {"SIMULATING", "COUNTING"} => Len(results) < Len(Suite)
    /\ phase \in StartPhases => results = <<>> /\ previousTotal = 0

TypeOK == RunnerTypeOK /\ PipelineTypeOK /\ ResultsTypeOK

(* The late orders of the first k scenarios. *)
LateOrders(k) ==
    UNION {OrdersOf(Suite[j]) : j \in {i \in 1..k : Suite[i] \in LateScenarios}}

(* The SMS that the passed ones among the first k scenarios had to show.   *)
PassMarks == [j \in DOMAIN results |->
                 IF results[j].passed THEN Expected[Suite[j]][1] ELSE 0]
PassMark(k) == SumFunctionOnSet(PassMarks, 1..k)

NoneMixed(k) == \A j \in 1..k : Suite[j] # Mixed

(* A count falls below zero only when the consumer has read less than the  *)
(* one before.                                                             *)
NoneNegative(k) == \A j \in 1..k : results[j].error \/ results[j].actualSmsCount >= 0

(* A pass stands for SMS of orders that were to be late: whichever         *)
(* scenarios fail in between, uncounted or not, the topic holds as many    *)
(* orders as the passes together had to show, all of them late orders of   *)
(* the scenarios played so far or strays (orders of an earlier run that    *)
(* could not be torn down, orders whose closing snapshot was lost).  No    *)
(* SMS can serve for two passes, nor come from a later scenario.           *)
PassesAreEarned ==
    phase # "EXITED" =>
        \A k \in 0..Len(results) :
            NoneMixed(k) /\ NoneNegative(k) =>
                PassMark(k) <= Cardinality(CommandIds(smsTopic)
                                             \cap (LateOrders(k) \cup strays))

(* While every scenario has passed and there are no strays, each late      *)
(* order played so far has its SMS in the topic: "the number of SMS        *)
(* commands equals the number of unique order IDs"                         *)
(* (e2e-tests/README.md:164).                                              *)
LateOrdersAreAlerted ==
    phase # "EXITED" /\ strays = {} =>
        \A k \in 0..Len(results) :
            NoneMixed(k) /\ (\A j \in 1..k : results[j].passed) =>
                LateOrders(k) \subseteq CommandIds(smsTopic)

(* However late SMS come and reads fail, the counts of the scenarios never *)
(* add up to more than the orders alerted: none is counted twice.          *)
Counts == [k \in DOMAIN results |->
              IF results[k].error THEN 0 ELSE results[k].actualSmsCount]

NoSmsIsCountedTwice ==
    phase # "EXITED" =>
        SumFunctionOnSet(Counts, DOMAIN results) <= Cardinality(CommandIds(smsTopic))

(* The runner comes to an end, whether or not the containers get healthy.  *)
Terminates == <>(phase = "EXITED")

(* mixed-orders.json:27: "SMS count should match delayed orders count".    *)
(* Stated where nothing else can account for a difference: no fault, all   *)
(* scenarios before passed, and no alert is on its way.                    *)
MixedCountIsItsLateOrders ==
    [][phase = "COUNTING" /\ Scenario = Mixed /\ AllPassed
          /\ faults' = 0 /\ due = {} /\ phase' # phase
       => \E orders \in MixedOrders :
             results'[Len(results')].actualSmsCount
                = Cardinality({o \in orders : IsLate(o)})]_vars

=============================================================================
