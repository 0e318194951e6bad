------------------------- MODULE DelayedOrderSmsJob -------------------------
(***************************************************************************)
(* The streaming job (DelayedOrderSmsJob.java): the Orders topic, the      *)
(* source and its position, the parse step, the keyed operator of          *)
(* DelayedOrderProcessFunction, the two Kafka sinks, checkpoints, failures *)
(* and restarts.                                                           *)
(*                                                                         *)
(* Reading a record, parsing it and processing it are one step: what is in *)
(* flight between source and operator is dropped by a failure and          *)
(* separated by the checkpoint barrier exactly as what is still unread.    *)
(* The operator's variables commands and deadLetters are here the sinks'   *)
(* producer buffers, emptied by delivery.                                  *)
(***************************************************************************)
EXTENDS DelayedOrderProcessFunction, FiniteSets

CONSTANTS
    Records,       \* the records that may be published to Orders
    Malformed,     \* the value of a record that is not an OrderState document
    MaxRestarts,   \* JobConfig.restartAttempts
    MaxLog,        \* bound: the length of the Orders topic
    MaxResubmits   \* bound: how often the job is submitted again

OrderRecords ==
    [orderId : Orders \cup {Null}, snapshot : Inputs \cup {Malformed}]

ASSUME RecordsAssumption == Records \subseteq OrderRecords
ASSUME MalformedAssumption == Malformed \notin Inputs
ASSUME BoundsAssumption ==
    MaxRestarts \in Nat /\ MaxLog \in Nat /\ MaxResubmits \in Nat

VARIABLES
    ordersTopic,      \* the Orders topic, one partition
    position,         \* number of records the source has read
    smsTopic,         \* the sms-commands topic
    deadLetterTopic,  \* the dead-letter-events topic
    jobStatus,        \* RUNNING, RESTARTING, FAILED or CANCELED
    restarts,         \* failures of this submission so far
    resubmits,        \* submissions after the first
    pending,          \* the checkpoint being written, or Null
    completed,        \* the latest completed checkpoint, or Null
    startOffset,      \* the end of the topic when the job was submitted
    highWater         \* history: the most records ever read

kafkaVars == <<ordersTopic, smsTopic, deadLetterTopic>>
runVars   == <<jobStatus, restarts, resubmits>>
readVars  == <<position, startOffset, highWater>>
snapVars  == <<pending, completed>>
jobVars   == <<kafkaVars, runVars, readVars, snapVars>>
allVars   == <<vars, jobVars>>

(* The job starts before anything is published: the source's first         *)
(* position is the end of an empty topic.                                  *)
JobInit ==
    /\ Init
    /\ ordersTopic = <<>> /\ smsTopic = <<>> /\ deadLetterTopic = {}
    /\ jobStatus = "RUNNING" /\ restarts = 0 /\ resubmits = 0
    /\ position = 0 /\ startOffset = 0 /\ highWater = 0
    /\ pending = Null /\ completed = Null

----------------------------------------------------------------------------
(* Records *)

(* A producer appends a record. *)
Publish(r) ==
    /\ Len(ordersTopic) < MaxLog
    /\ ordersTopic' = Append(ordersTopic, r)
    /\ UNCHANGED <<vars, smsTopic, deadLetterTopic, runVars, readVars, snapVars>>

(* The deserializer turns what it catches into a dead letter.  It also     *)
(* catches what keyBy throws inside its out.collect: a document without an *)
(* order id has no key, and never gets as far as the operator's isValid.   *)
IsParseError(r) == r.snapshot = Malformed \/ r.orderId = Null

ParseFailure(n) == [failedOffset |-> n]

ParseError(r) ==
    /\ IsParseError(r)
    /\ deadLetters' = deadLetters \cup {ParseFailure(position)}
    /\ UNCHANGED <<clock, orderState, timers, commands>>

(* The source reads the next record; it is parsed and processed. *)
Consume ==
    /\ jobStatus = "RUNNING"
    /\ position < Len(ordersTopic)
    /\ LET r == ordersTopic[position + 1] IN
          \/ ParseError(r)
          \/ ~IsParseError(r) /\ ProcessElement(r.orderId, r.snapshot)
    /\ position' = position + 1
    /\ highWater' = IF highWater < position' THEN position' ELSE highWater
    /\ UNCHANGED <<startOffset, kafkaVars, runVars, snapVars>>

FireTimer(o) ==
    /\ jobStatus = "RUNNING"
    /\ OnTimer(o)
    /\ UNCHANGED jobVars

TimePasses == Tick /\ UNCHANGED jobVars

(* The producers of the sinks send what they have buffered, in order. *)
DeliverSms ==
    /\ jobStatus = "RUNNING"
    /\ commands # <<>>
    /\ smsTopic' = Append(smsTopic, Head(commands))
    /\ commands' = Tail(commands)
    /\ UNCHANGED <<clock, orderState, timers, deadLetters, ordersTopic,
                   deadLetterTopic, runVars, readVars, snapVars>>

DeliverDeadLetter ==
    /\ jobStatus = "RUNNING"
    /\ \E d \in deadLetters :
          /\ deadLetterTopic' = deadLetterTopic \cup {d}
          /\ deadLetters' = deadLetters \ {d}
    /\ UNCHANGED <<clock, orderState, timers, commands, ordersTopic, smsTopic,
                   runVars, readVars, snapVars>>

----------------------------------------------------------------------------
(* Checkpoints and failures *)

(* A checkpoint cuts position, state and timers at one point.  The sinks   *)
(* are built without a delivery guarantee: nothing waits for their         *)
(* buffers, and nothing of them is stored.                                 *)
FaultySnapshotPosition == [position   |-> Len(ordersTopic),
                           orderState |-> orderState,
                           timers     |-> timers]
FaultySnapshotTimers == [position   |-> position,
                         orderState |-> orderState,
                         timers     |-> [o \in Orders |-> {}]]
TakenSnapshot == [position   |-> position,
                  orderState |-> orderState,
                  timers     |-> timers]

TriggerCheckpoint ==
    /\ jobStatus = "RUNNING"
    /\ pending = Null
    /\ pending' = TakenSnapshot
    /\ UNCHANGED <<vars, kafkaVars, runVars, readVars, completed>>

CompleteCheckpoint ==
    /\ jobStatus = "RUNNING"
    /\ pending # Null
    /\ completed' = pending
    /\ pending' = Null
    /\ UNCHANGED <<vars, kafkaVars, runVars, readVars>>

(* The process of the tasks is lost with all it held in memory, what the   *)
(* producers still buffered included, and the checkpoint being written is  *)
(* discarded.  (A task that fails and closes its producers first delivers  *)
(* before it fails.)                                                       *)
LoseTasks ==
    /\ orderState' = [o \in Orders |-> Null]
    /\ timers' = [o \in Orders |-> {}]
    /\ commands' = <<>>
    /\ deadLetters' = {}
    /\ pending' = Null

(* A task fails.  The restart strategy grants a fixed number of restarts   *)
(* over the whole life of the submission.                                  *)
FaultyFail ==
    /\ jobStatus = "RUNNING"
    /\ jobStatus' = "RESTARTING"
    /\ LoseTasks
    /\ UNCHANGED <<clock, kafkaVars, restarts, resubmits, readVars, completed>>
Fail ==
    /\ jobStatus = "RUNNING"
    /\ jobStatus' = IF restarts < MaxRestarts THEN "RESTARTING" ELSE "FAILED"
    /\ LoseTasks
    /\ UNCHANGED <<clock, kafkaVars, restarts, resubmits, readVars, completed>>

(* The job is canceled, to be submitted again; the sinks send what they    *)
(* hold and close.                                                         *)
Cancel ==
    /\ jobStatus = "RUNNING"
    /\ resubmits < MaxResubmits
    /\ commands = <<>> /\ deadLetters = {}
    /\ jobStatus' = "CANCELED"
    /\ LoseTasks
    /\ UNCHANGED <<clock, kafkaVars, restarts, resubmits, readVars, completed>>

(* After the restart delay the job resumes from its latest checkpoint, or  *)
(* without any from where it first started, with the state still empty.    *)
Restart ==
    /\ jobStatus = "RESTARTING"
    /\ jobStatus' = "RUNNING"
    /\ restarts' = restarts + 1
    /\ IF completed = Null
       THEN position' = startOffset /\ UNCHANGED <<orderState, timers>>
       ELSE /\ position' = completed.position
            /\ orderState' = completed.orderState
            /\ timers' = completed.timers
    /\ UNCHANGED <<clock, commands, deadLetters, kafkaVars, resubmits,
                   startOffset, highWater, snapVars>>

(* A stopped job is submitted again: a new job, which knows no checkpoint  *)
(* of the old one and starts at the end of the topic (latest).             *)
FaultyResubmit ==
    /\ jobStatus \in {"FAILED", "CANCELED"}
    /\ resubmits < MaxResubmits
    /\ jobStatus' = "RUNNING"
    /\ restarts' = 0
    /\ resubmits' = resubmits + 1
    /\ position' = Len(ordersTopic)
    /\ startOffset' = Len(ordersTopic)
    /\ UNCHANGED <<vars, kafkaVars, highWater, snapVars>>
Resubmit ==
    /\ jobStatus \in {"FAILED", "CANCELED"}
    /\ resubmits < MaxResubmits
    /\ jobStatus' = "RUNNING"
    /\ restarts' = 0
    /\ resubmits' = resubmits + 1
    /\ position' = Len(ordersTopic)
    /\ startOffset' = Len(ordersTopic)
    /\ completed' = Null
    /\ UNCHANGED <<vars, kafkaVars, highWater, pending>>

----------------------------------------------------------------------------
JobNext ==
    \/ \E r \in Records : Publish(r)
    \/ Consume
    \/ \E o \in Orders : FireTimer(o)
    \/ TimePasses
    \/ DeliverSms
    \/ DeliverDeadLetter
    \/ TriggerCheckpoint
    \/ CompleteCheckpoint
    \/ Fail
    \/ Cancel
    \/ Restart
    \/ Resubmit

JobSpec == JobInit /\ [][JobNext]_allVars

(* A running job reads what there is, fires what is due, sends what is     *)
(* buffered, and a failed task is restarted.  Nothing obliges a checkpoint *)
(* to complete before the next failure, nor anyone to resubmit a job.      *)
JobFairness ==
    /\ WF_allVars(Consume)
    /\ \A o \in Orders : WF_allVars(FireTimer(o))
    /\ WF_allVars(TimePasses)
    /\ WF_allVars(DeliverSms)
    /\ WF_allVars(DeliverDeadLetter)
    /\ WF_allVars(Restart)

FairJobSpec == JobSpec /\ JobFairness

----------------------------------------------------------------------------
(* Properties *)

JobTypeOK ==
    /\ StateTypeOK
    /\ smsTopic \in Seq(SmsCommands)
    /\ deadLetters \cup deadLetterTopic
         \subseteq DeadLetters \cup [failedOffset : Nat]
    /\ ordersTopic \in Seq(OrderRecords)
    /\ jobStatus \in {"RUNNING", "RESTARTING", "FAILED", "CANCELED"}
    /\ restarts \in 0..MaxRestarts /\ resubmits \in 0..MaxResubmits
    /\ position \in 0..Len(ordersTopic)
    /\ startOffset \in 0..Len(ordersTopic) /\ highWater \in 0..Len(ordersTopic)

(* The records of the half-open range that carry a usable snapshot of o. *)
SnapshotsOf(o, from, to) ==
    {i \in (from + 1)..to : /\ ordersTopic[i].orderId = o
                            /\ ~IsParseError(ordersTopic[i])
                            /\ IsValid(ordersTopic[i].snapshot)}

(* The newest of them: the greatest lastUpdatedAt, the last one on a tie. *)
NewestOf(o, from, to) ==
    LET time(i) == ordersTopic[i].snapshot.lastUpdatedAt
        mine    == SnapshotsOf(o, from, to)
    IN  ordersTopic[CHOOSE i \in mine :
           \A j \in mine : time(j) < time(i) \/ (time(j) = time(i) /\ j <= i)
        ].snapshot

(* However often the job failed and replayed, the state of an order is the *)
(* newest snapshot among exactly the records read since the job was        *)
(* submitted: none is applied twice, none left out, and a reordered one is *)
(* never preferred (exactly-once state; no state expires).                 *)
StateMatchesTopic ==
    jobStatus = "RUNNING" =>
        \A o \in Orders :
            IF SnapshotsOf(o, startOffset, position) = {}
            THEN orderState[o] = Null
            ELSE LET st == orderState[o]
                 IN  /\ Live(o)
                     /\ NewestOf(o, startOffset, position)
                          = [status               |-> st.currentStatus,
                             expectedDeliveryTime |-> st.expectedDeliveryTime,
                             lastUpdatedAt        |-> st.lastUpdatedAt,
                             customerId           |-> st.customerId]

(* After a restart an order that waits is armed: state and timers are      *)
(* restored from the same cut.                                             *)
WaitingIsArmedInJob == jobStatus = "RUNNING" => AwaitingIsArmed

(* No early command reaches the topic, whatever fails. *)
DeliveredNotEarly ==
    \A i \in 1..Len(smsTopic) :
        smsTopic[i].createdAt >= smsTopic[i].expectedDeliveryTime

(* An order gets at most one SMS per incarnation of the job: duplicates    *)
(* come only from restarts and resubmissions (no state expires).           *)
Incarnation == resubmits * (MaxRestarts + 1) + restarts + 1
DuplicatesBounded ==
    \A o \in Orders :
        Cardinality({i \in 1..Len(smsTopic) : smsTopic[i].orderId = o})
            <= Incarnation

(* Once a completed checkpoint says that an order was alerted, this        *)
(* submission never alerts it again, whatever fails later (no state        *)
(* expires).                                                               *)
CheckpointedAlertIsFinal ==
    [][\A o \in Orders :
          /\ completed # Null
          /\ completed.orderState[o] # Null
          /\ completed.orderState[o].delaySmsEmitted
          => ~ /\ Len(commands') > Len(commands)
               /\ commands'[Len(commands')].orderId = o]_allVars

(* An order that waits is alerted or closed in the end, through any number *)
(* of failures, unless its job is stopped: no restart loses a timer or     *)
(* skips the record that would set it again (no state expires).            *)
WaitingIsSettledInJob ==
    \A o \in Orders :
        jobStatus = "RUNNING" /\ Awaiting(o)
            ~> \/ /\ jobStatus = "RUNNING"
                  /\ orderState[o] # Null
                  /\ \/ orderState[o].delaySmsEmitted
                     \/ orderState[o].currentStatus \in Terminal
               \/ jobStatus \in {"FAILED", "CANCELED"}

----------------------------------------------------------------------------
(* Statements of the documentation that the job does not keep. *)

(* docs/rfc/delayed-order-detection-rfc.md:127: sms-commands is delivered  *)
(* at least once.  A command that was collected reaches the topic, from    *)
(* this incarnation or a later one, unless the job stops for good.         *)
CollectedIsDelivered ==
    \A o \in Orders :
        (\E i \in 1..Len(commands) : commands[i].orderId = o)
            ~> \/ \E i \in 1..Len(smsTopic) : smsTopic[i].orderId = o
               \/ jobStatus = "FAILED"

(* e2e-tests/README.md:176: a job submitted again restores from the latest *)
(* checkpoint.                                                             *)
ResubmitRestores ==
    [][Resubmit /\ completed # Null
          => orderState' = completed.orderState]_allVars

=============================================================================
