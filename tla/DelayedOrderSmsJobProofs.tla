---------------------- MODULE DelayedOrderSmsJobProofs ----------------------
(***************************************************************************)
(* Theorems about DelayedOrderSmsJob, for every topic, all records, any    *)
(* number of restarts and resubmissions, and failures at any point.        *)
(***************************************************************************)
EXTENDS DelayedOrderSmsJob, DelayedOrderProcessFunctionProofs,
        FiniteSetTheorems

operatorVars == <<clock, orderState, timers, commands>>

(* What the steps of the job do to the operator.                           *)
OperatorSteps ==
    \/ [Next]_vars
    \/ UNCHANGED operatorVars
    \/ DeliverSms
    \/ LoseTasks /\ UNCHANGED clock
    \/ Restart

(* A record that is no parse error has a key and a snapshot.               *)
LEMMA ReadRecord ==
  ASSUME ordersTopic \in Seq(OrderRecords), position \in Nat,
         position < Len(ordersTopic), ~IsParseError(ordersTopic[position + 1])
  PROVE  /\ ordersTopic[position + 1].orderId \in Orders
         /\ ordersTopic[position + 1].snapshot \in Inputs
<1>1. ordersTopic[position + 1] \in OrderRecords
  BY LenProperties, ElementOfSeq
<1> QED
  BY <1>1 DEF OrderRecords, IsParseError

(* Consuming a record is a step of the detector or a parse error.          *)
LEMMA ConsumeStep ==
  ASSUME ordersTopic \in Seq(OrderRecords), position \in Nat, Consume
  PROVE  \/ Next
         \/ ParseError(ordersTopic[position + 1])
BY ReadRecord DEF Consume, Next

(* Every step of the job is one of these to the operator.                  *)
LEMMA JobStepKinds ==
  ASSUME ordersTopic \in Seq(OrderRecords), position \in Nat, [JobNext]_allVars
  PROVE  OperatorSteps
<1>1. CASE Consume
  BY <1>1, ConsumeStep DEF OperatorSteps, ParseError, operatorVars
<1>2. CASE \E o \in Orders : FireTimer(o)
  BY <1>2 DEF OperatorSteps, FireTimer, Next
<1>3. CASE TimePasses
  BY <1>3 DEF OperatorSteps, TimePasses, Next
<1>4. CASE DeliverSms \/ Restart
  BY <1>4 DEF OperatorSteps
<1>5. CASE Fail \/ Cancel
  BY <1>5 DEF OperatorSteps, Fail, Cancel
<1>6. CASE DeliverDeadLetter
  BY <1>6 DEF OperatorSteps, DeliverDeadLetter, operatorVars
<1>7. CASE UNCHANGED vars
  BY <1>7 DEF OperatorSteps
<1> QED
  BY <1>1, <1>2, <1>3, <1>4, <1>5, <1>6, <1>7
  DEF JobNext, Publish, TriggerCheckpoint, CompleteCheckpoint, Resubmit, allVars

----------------------------------------------------------------------------
(* Type correctness *)

(* A checkpoint holds a position in the topic, states and timers.          *)
CutTyped(c) ==
    c # Null =>
        /\ c.position \in 0..Len(ordersTopic)
        /\ c.orderState \in [Orders -> OrderDelayStates \cup {Null}]
        /\ c.timers \in [Orders -> SUBSET Nat]

(* The types, those of the checkpoints included; a job that is restarting  *)
(* has a restart left.                                                     *)
JobTypeInv ==
    /\ JobTypeOK
    /\ CutTyped(pending) /\ CutTyped(completed)
    /\ jobStatus = "RESTARTING" => restarts < MaxRestarts

(* The job starts with proper values. *)
LEMMA JobInitTyped == JobInit => JobTypeInv
BY TimeAssumption, BoundsAssumption, EmptySeq
DEF JobInit, Init, JobTypeInv, JobTypeOK, StateTypeOK, CutTyped

(* The operator's variables keep their types through failures. *)
LEMMA StateStaysTyped ==
  ASSUME JobTypeInv, [JobNext]_allVars
  PROVE  StateTypeOK'
<1>0. StateTypeOK /\ ordersTopic \in Seq(OrderRecords) /\ position \in Nat
  BY LenProperties DEF JobTypeInv, JobTypeOK
<1>1. CASE [Next]_vars
  BY <1>0, <1>1, StateTypeStep
<1>2. CASE UNCHANGED operatorVars
  BY <1>0, <1>2 DEF StateTypeOK, operatorVars
<1>3. CASE DeliverSms
  BY <1>0, <1>3, HeadTailProperties DEF DeliverSms, StateTypeOK
<1>4. CASE LoseTasks /\ UNCHANGED clock
  BY <1>0, <1>4, EmptySeq DEF LoseTasks, StateTypeOK
<1>5. CASE Restart
  BY <1>0, <1>5 DEF Restart, JobTypeInv, CutTyped, StateTypeOK
<1> QED
  BY <1>0, <1>1, <1>2, <1>3, <1>4, <1>5, JobStepKinds DEF OperatorSteps

(* The topic only grows, by records. *)
LEMMA TopicGrows ==
  ASSUME JobTypeInv, [JobNext]_allVars
  PROVE  /\ ordersTopic' \in Seq(OrderRecords)
         /\ Len(ordersTopic) \in Nat /\ Len(ordersTopic') \in Nat
         /\ Len(ordersTopic) <= Len(ordersTopic')
<1>0. ordersTopic \in Seq(OrderRecords) /\ Len(ordersTopic) \in Nat
  BY LenProperties DEF JobTypeInv, JobTypeOK
<1>1. ASSUME NEW r \in Records, Publish(r)
      PROVE  /\ ordersTopic' \in Seq(OrderRecords)
             /\ Len(ordersTopic') = Len(ordersTopic) + 1
  <2>1. r \in OrderRecords
    BY RecordsAssumption
  <2> QED
    BY <1>0, <1>1, <2>1, AppendProperties DEF Publish
<1>2. CASE UNCHANGED ordersTopic
  BY <1>0, <1>2
<1> QED
  BY <1>0, <1>1, <1>2
  DEF JobNext, allVars, jobVars, kafkaVars, Consume, FireTimer, TimePasses,
      DeliverSms, DeliverDeadLetter, TriggerCheckpoint, CompleteCheckpoint, Fail,
      Cancel, Restart, Resubmit

(* Whatever is sent was collected. *)
LEMMA SmsStaysTyped ==
  ASSUME JobTypeInv, [JobNext]_allVars
  PROVE  smsTopic' \in Seq(SmsCommands)
<1>0. smsTopic \in Seq(SmsCommands) /\ commands \in Seq(SmsCommands)
  BY DEF JobTypeInv, JobTypeOK, StateTypeOK
<1>1. CASE DeliverSms
  <2>1. Head(commands) \in SmsCommands
    BY <1>0, <1>1, HeadTailProperties DEF DeliverSms
  <2> QED
    BY <1>0, <1>1, <2>1, AppendProperties DEF DeliverSms
<1>2. CASE UNCHANGED smsTopic
  BY <1>0, <1>2
<1> QED
  BY <1>1, <1>2
  DEF JobNext, allVars, jobVars, kafkaVars, Publish, Consume, FireTimer, TimePasses,
      DeliverDeadLetter, TriggerCheckpoint, CompleteCheckpoint, Fail, Cancel,
      Restart, Resubmit

AnyDeadLetters == DeadLetters \cup [failedOffset : Nat]

(* A dead letter names an order or the offset of a record. *)
LEMMA DeadLettersStayTyped ==
  ASSUME JobTypeInv, [JobNext]_allVars
  PROVE  (deadLetters \cup deadLetterTopic \subseteq AnyDeadLetters)'
<1>0. /\ deadLetters \subseteq AnyDeadLetters
      /\ deadLetterTopic \subseteq AnyDeadLetters
      /\ ordersTopic \in Seq(OrderRecords) /\ position \in Nat
  BY LenProperties DEF JobTypeInv, JobTypeOK, AnyDeadLetters
<1>1. CASE [Next]_vars /\ UNCHANGED deadLetterTopic
  BY <1>0, <1>1, DeadLetterStep DEF AnyDeadLetters
<1>2. CASE Consume
  <2>1. CASE Next
    BY <1>1, <1>2, <2>1 DEF Consume, kafkaVars
  <2>2. CASE ParseError(ordersTopic[position + 1])
    BY <1>0, <1>2, <2>2 DEF Consume, kafkaVars, ParseError, ParseFailure,
                            AnyDeadLetters
  <2> QED
    BY <1>0, <1>2, <2>1, <2>2, ConsumeStep
<1>3. CASE (\E o \in Orders : FireTimer(o)) \/ TimePasses
  BY <1>1, <1>3 DEF FireTimer, TimePasses, Next, jobVars, kafkaVars
<1>4. CASE DeliverDeadLetter
  BY <1>0, <1>4 DEF DeliverDeadLetter
<1>5. CASE Fail \/ Cancel
  BY <1>0, <1>5 DEF Fail, Cancel, LoseTasks, kafkaVars
<1>6. CASE UNCHANGED <<deadLetters, deadLetterTopic>>
  BY <1>0, <1>6
<1> QED
  BY <1>2, <1>3, <1>4, <1>5, <1>6
  DEF JobNext, allVars, vars, jobVars, kafkaVars, Publish, DeliverSms,
      TriggerCheckpoint, CompleteCheckpoint, Restart, Resubmit

(* The positions stay within the topic. *)
LEMMA PositionsStayTyped ==
  ASSUME JobTypeInv, [JobNext]_allVars
  PROVE  /\ position' \in 0..Len(ordersTopic')
         /\ startOffset' \in 0..Len(ordersTopic')
         /\ highWater' \in 0..Len(ordersTopic')
<1> DEFINE n == Len(ordersTopic)
           m == Len(ordersTopic')
<1>0. n \in Nat /\ m \in Nat /\ n <= m
  BY TopicGrows
<1>1. position \in 0..n /\ startOffset \in 0..n /\ highWater \in 0..n
  BY DEF JobTypeInv, JobTypeOK
<1>2. CASE Consume
  <2>1. position + 1 \in 0..n
    BY <1>0, <1>1, <1>2 DEF Consume
  <2> QED
    BY <1>0, <1>1, <1>2, <2>1 DEF Consume
<1>3. CASE Restart
  <2>1. position' \in 0..n
    BY <1>1, <1>3 DEF Restart, JobTypeInv, CutTyped
  <2> QED
    BY <1>0, <1>1, <1>3, <2>1 DEF Restart
<1>4. CASE Resubmit
  BY <1>0, <1>1, <1>4 DEF Resubmit
<1>5. CASE UNCHANGED readVars
  BY <1>0, <1>1, <1>5 DEF readVars
<1> QED
  BY <1>2, <1>3, <1>4, <1>5
  DEF JobNext, allVars, jobVars, readVars, Publish, FireTimer, TimePasses,
      DeliverSms, DeliverDeadLetter, TriggerCheckpoint, CompleteCheckpoint, Fail,
      Cancel

(* What is known of the submission: a restart is granted before it is      *)
(* counted.                                                                *)
RunInv ==
    /\ jobStatus \in {"RUNNING", "RESTARTING", "FAILED", "CANCELED"}
    /\ restarts \in 0..MaxRestarts /\ resubmits \in 0..MaxResubmits
    /\ jobStatus = "RESTARTING" => restarts < MaxRestarts

(* Every step keeps to the restart budget. *)
LEMMA RunStaysTyped ==
  ASSUME JobTypeInv, [JobNext]_allVars
  PROVE  RunInv'
<1>0. RunInv
  BY DEF JobTypeInv, JobTypeOK, RunInv
<1>1. CASE Fail
  BY <1>0, <1>1 DEF Fail, RunInv
<1>2. CASE Cancel
  BY <1>0, <1>2 DEF Cancel, RunInv
<1>3. CASE Restart
  BY <1>0, <1>3, BoundsAssumption DEF Restart, RunInv
<1>4. CASE Resubmit
  BY <1>0, <1>4, BoundsAssumption DEF Resubmit, RunInv
<1>5. CASE UNCHANGED runVars
  BY <1>0, <1>5 DEF runVars, RunInv
<1> QED
  BY <1>1, <1>2, <1>3, <1>4, <1>5
  DEF JobNext, allVars, jobVars, Publish, Consume, FireTimer, TimePasses,
      DeliverSms, DeliverDeadLetter, TriggerCheckpoint, CompleteCheckpoint

(* A checkpoint is a cut of the running job: it has the types the job has. *)
LEMMA CutsStayTyped ==
  ASSUME JobTypeInv, [JobNext]_allVars
  PROVE  CutTyped(pending)' /\ CutTyped(completed)'
<1>0. /\ Len(ordersTopic) \in Nat /\ Len(ordersTopic') \in Nat
      /\ Len(ordersTopic) <= Len(ordersTopic')
  BY TopicGrows
<1>1. /\ CutTyped(pending) /\ CutTyped(completed) /\ CutTyped(TakenSnapshot)
  BY DEF JobTypeInv, JobTypeOK, StateTypeOK, CutTyped, TakenSnapshot
<1>2. /\ pending' \in {pending, TakenSnapshot, Null}
      /\ completed' \in {completed, pending, Null}
  BY DEF JobNext, allVars, jobVars, snapVars, Publish, Consume, FireTimer,
         TimePasses, DeliverSms, DeliverDeadLetter, TriggerCheckpoint,
         CompleteCheckpoint, Fail, Cancel, LoseTasks, Restart, Resubmit
<1> QED
  BY <1>0, <1>1, <1>2 DEF CutTyped

(* Every step of the job keeps the types. *)
LEMMA JobTypeStep == JobTypeInv /\ [JobNext]_allVars => JobTypeInv'
BY StateStaysTyped, SmsStaysTyped, DeadLettersStayTyped, TopicGrows,
   RunStaysTyped, PositionsStayTyped, CutsStayTyped
DEF JobTypeInv, JobTypeOK, AnyDeadLetters, RunInv

(* The types hold in every reachable state of the job. *)
LEMMA JobTyped == JobSpec => []JobTypeInv
BY JobInitTyped, JobTypeStep, PTL DEF JobSpec

(* The job's variables keep their types through failures, restarts and     *)
(* resubmissions: the source never reads past the end of the topic, and    *)
(* the strategy never grants more restarts than configured.                *)
THEOREM JobIsWellTyped == JobSpec => []JobTypeOK
<1>1. JobTypeInv => JobTypeOK
  BY DEF JobTypeInv
<1> QED
  BY <1>1, JobTyped, PTL

----------------------------------------------------------------------------
(* Timers *)

(* Time never goes back, whatever fails. *)
LEMMA ClockAdvances ==
  ASSUME JobTypeInv, [JobNext]_allVars
  PROVE  clock \in Nat /\ clock' \in Nat /\ clock <= clock'
<1>0. clock \in Nat /\ ordersTopic \in Seq(OrderRecords) /\ position \in Nat
  BY TimeAssumption, LenProperties DEF JobTypeInv, JobTypeOK, StateTypeOK
<1>1. CASE [Next]_vars
  <2>1. clock' = clock \/ clock' = clock + 1
    BY <1>1 DEF Next, vars, ProcessElement, OnTimer, RejectInvalid, IgnoreStale,
                ApplyTerminal, ApplyAfterSms, EmitOverdue, Schedule, TimerAlerts,
                TimerIsIdle, Tick
  <2> QED
    BY <1>0, <2>1
<1>2. CASE UNCHANGED clock
  BY <1>0, <1>2
<1> QED
  BY <1>0, <1>1, <1>2, JobStepKinds
  DEF OperatorSteps, operatorVars, DeliverSms, Restart

(* TimerInv, of a state record and a set of timers that may be the job's   *)
(* or a checkpoint's.                                                      *)
ArmedIn(st, ts) ==
    /\ /\ st # Null /\ st.lastAccess + StateTtl > clock
       /\ st.currentStatus \in Active /\ ~st.delaySmsEmitted
       => /\ st.registeredTimerTime = st.expectedDeliveryTime
          /\ st.expectedDeliveryTime \in ts
    /\ /\ st # Null
       /\ st.currentStatus \in Terminal \/ st.delaySmsEmitted
       => st.registeredTimerTime = Null
    /\ st # Null => st.lastAccess <= clock

CutArmed(c) ==
    c # Null => \A k \in Orders : ArmedIn(c.orderState[k], c.timers[k])

(* The timers agree with the states, in the job and in every checkpoint it *)
(* may still go back to.                                                   *)
JobTimerInv ==
    /\ \A k \in Orders : ArmedIn(orderState[k], timers[k])
    /\ CutArmed(pending) /\ CutArmed(completed)

(* The two ways to say it are the same of the job's own state. *)
LEMMA ArmedIsTimerInv ==
  ASSUME NEW k \in Orders
  PROVE  TimerInv(k) <=> ArmedIn(orderState[k], timers[k])
BY DEF TimerInv, ArmedIn, Awaiting, Live

(* Time can only expire a stored state, it never disarms one. *)
LEMMA ArmedLater ==
  ASSUME NEW st \in OrderDelayStates \cup {Null}, NEW ts, ArmedIn(st, ts),
         clock \in Nat, clock' \in Nat, clock <= clock'
  PROVE  ArmedIn(st, ts)'
<1>1. st # Null => st.lastAccess \in Nat
  BY DEF OrderDelayStates
<1>2. StateTtl \in Nat
  BY TimeAssumption
<1> QED
  BY <1>1, <1>2 DEF ArmedIn

(* The checkpoints of the next state are cuts of this one. *)
LEMMA CutsStayArmed ==
  ASSUME JobTypeInv, JobTimerInv, [JobNext]_allVars
  PROVE  CutArmed(pending)' /\ CutArmed(completed)'
<1>0. clock \in Nat /\ clock' \in Nat /\ clock <= clock'
  BY ClockAdvances
<1>1. \A c \in {pending, completed, TakenSnapshot, Null} :
        CutTyped(c) /\ CutArmed(c)
  BY DEF JobTypeInv, JobTypeOK, StateTypeOK, JobTimerInv, CutTyped, CutArmed,
         TakenSnapshot
<1>2. /\ pending' \in {pending, TakenSnapshot, Null}
      /\ completed' \in {completed, pending, Null}
  BY DEF JobNext, allVars, jobVars, snapVars, Publish, Consume, FireTimer,
         TimePasses, DeliverSms, DeliverDeadLetter, TriggerCheckpoint,
         CompleteCheckpoint, Fail, Cancel, LoseTasks, Restart, Resubmit
<1>3. ASSUME NEW c, CutTyped(c), CutArmed(c)
      PROVE  CutArmed(c)'
  <2>1. ASSUME c # Null, NEW k \in Orders
        PROVE  ArmedIn(c.orderState[k], c.timers[k])'
    <3>1. c.orderState[k] \in OrderDelayStates \cup {Null}
      BY <1>3, <2>1 DEF CutTyped
    <3>2. ArmedIn(c.orderState[k], c.timers[k])
      BY <1>3, <2>1 DEF CutArmed
    <3> QED
      BY <1>0, <3>1, <3>2, ArmedLater
  <2> QED
    BY <2>1 DEF CutArmed
<1> QED
  BY <1>1, <1>2, <1>3 DEF CutArmed

(* Every step keeps every order of the job armed or settled. *)
LEMMA StatesStayArmed ==
  ASSUME JobTypeInv, JobTimerInv, [JobNext]_allVars, NEW k \in Orders
  PROVE  ArmedIn(orderState[k], timers[k])'
<1>0. /\ clock \in Nat /\ clock' \in Nat /\ clock <= clock'
      /\ StateTypeOK /\ ordersTopic \in Seq(OrderRecords) /\ position \in Nat
      /\ ArmedIn(orderState[k], timers[k])
  BY ClockAdvances, LenProperties DEF JobTypeInv, JobTypeOK, JobTimerInv
<1>1. CASE [Next]_vars
  <2>1. \A o \in Orders : TimerInv(o)
    BY ArmedIsTimerInv DEF JobTimerInv
  <2>2. TimerInv(k)'
    BY <1>0, <1>1, <2>1, TimerStep
  <2> QED
    BY <2>2 DEF TimerInv, ArmedIn, Awaiting, Live
<1>2. CASE UNCHANGED <<clock, orderState, timers>>
  BY <1>0, <1>2 DEF ArmedIn
<1>3. CASE LoseTasks /\ UNCHANGED clock
  BY <1>3 DEF LoseTasks, ArmedIn
<1>4. CASE Restart
  <2>1. CASE completed = Null
    BY <1>2, <1>4, <2>1 DEF Restart
  <2>2. CASE completed # Null
    BY <1>4, <2>2 DEF Restart, JobTimerInv, CutArmed, ArmedIn
  <2> QED
    BY <2>1, <2>2
<1>5. OperatorSteps
  BY <1>0, JobStepKinds
<1> QED
  BY <1>1, <1>2, <1>3, <1>4, <1>5 DEF OperatorSteps, operatorVars, DeliverSms

(* The states and timers agree in every reachable state of the job. *)
LEMMA JobTimersAgree == JobSpec => []JobTimerInv
<1>1. JobInit => JobTimerInv
  BY DEF JobInit, Init, JobTimerInv, ArmedIn, CutArmed
<1>2. JobTypeInv /\ JobTimerInv /\ [JobNext]_allVars => JobTimerInv'
  <2> SUFFICES ASSUME JobTypeInv, JobTimerInv, [JobNext]_allVars
               PROVE  JobTimerInv'
    OBVIOUS
  <2>1. \A k \in Orders : ArmedIn(orderState[k], timers[k])'
    BY StatesStayArmed
  <2> QED
    BY <2>1, CutsStayArmed DEF JobTimerInv
<1> QED
  BY <1>1, <1>2, JobTyped, PTL DEF JobSpec

(* An order that waits has a timer for its ETA and a state that names it,  *)
(* also after any restart: state and timers come from the same cut.        *)
THEOREM WaitingIsArmedAfterRestarts == JobSpec => []WaitingIsArmedInJob
<1>1. JobTimerInv => WaitingIsArmedInJob
  BY ArmedIsTimerInv
  DEF JobTimerInv, WaitingIsArmedInJob, AwaitingIsArmed, TimerInv
<1> QED
  BY <1>1, JobTimersAgree, PTL

----------------------------------------------------------------------------
(* Commands *)

(* The detector appends at most one command a step: for an overdue order,  *)
(* not marked as alerted, which it then marks.                             *)
NewCommand(o, st) ==
    /\ ~(Live(o) /\ orderState[o].delaySmsEmitted)
    /\ st.expectedDeliveryTime <= clock
    /\ EmitDelaySms(o, st)

(* A step collects nothing, or such a command. *)
LEMMA CommandsGrow ==
  ASSUME StateTypeOK, [Next]_vars
  PROVE  \/ commands' = commands
         \/ \E o \in Orders, st \in OrderDelayStates : NewCommand(o, st)
<1>1. ASSUME NEW o \in Orders, NEW s \in Inputs, EmitOverdue(o, s)
      PROVE  NewCommand(o, Current(o, s)) /\ Current(o, s) \in OrderDelayStates
  BY <1>1, CurrentType DEF NewCommand, EmitOverdue, Accepts, IsOverdue
<1>2. ASSUME NEW o \in Orders, NEW t \in timers[o], TimerAlerts(o, t)
      PROVE  NewCommand(o, orderState[o]) /\ orderState[o] \in OrderDelayStates
  <2>1. /\ orderState[o] \in OrderDelayStates
        /\ ~orderState[o].delaySmsEmitted
        /\ orderState[o].expectedDeliveryTime <= t
        /\ t <= clock /\ t \in Nat
    BY <1>2 DEF TimerAlerts, ActsOnTimer, IsNextTimer, Live, StateTypeOK
  <2>2. orderState[o].expectedDeliveryTime <= clock
    BY <2>1, TimeAssumption DEF OrderDelayStates, StateTypeOK
  <2> QED
    BY <1>2, <2>1, <2>2 DEF NewCommand, TimerAlerts
<1>3. CASE commands' = commands
  BY <1>3
<1> QED
  BY <1>1, <1>2, <1>3
  DEF Next, ProcessElement, OnTimer, RejectInvalid, IgnoreStale, ApplyTerminal,
      ApplyAfterSms, Schedule, TimerIsIdle, Tick, vars

(* No command of the sequence is created before its ETA. *)
Timely(q) ==
    \A i \in 1..Len(q) : q[i].createdAt >= q[i].expectedDeliveryTime

(* An overdue command keeps a sequence timely. *)
LEMMA AppendTimely ==
  ASSUME NEW q \in Seq(SmsCommands), Timely(q), NEW c \in SmsCommands,
         c.createdAt >= c.expectedDeliveryTime
  PROVE  Timely(Append(q, c))
<1>1. /\ Len(Append(q, c)) = Len(q) + 1 /\ Len(q) \in Nat
      /\ \A i \in 1..Len(q) : Append(q, c)[i] = q[i]
      /\ Append(q, c)[Len(q) + 1] = c
  BY AppendProperties, LenProperties
<1>2. \A i \in 1..(Len(q) + 1) : i \in 1..Len(q) \/ i = Len(q) + 1
  BY <1>1
<1> QED
  BY <1>1, <1>2 DEF Timely

(* What is left of a timely sequence is timely. *)
LEMMA TailTimely ==
  ASSUME NEW q \in Seq(SmsCommands), Timely(q), q # <<>>
  PROVE  /\ Head(q) \in SmsCommands
         /\ Head(q).createdAt >= Head(q).expectedDeliveryTime
         /\ Timely(Tail(q))
<1>1. Len(q) \in Nat /\ Len(q) # 0
  BY LenProperties, EmptySeq
<1>2. Head(q) = q[1] /\ Head(q) \in SmsCommands
  BY HeadTailProperties
<1>3. /\ Len(Tail(q)) = Len(q) - 1
      /\ \A i \in 1..Len(Tail(q)) : Tail(q)[i] = q[i + 1]
  BY HeadTailProperties
<1>4. 1 \in 1..Len(q) /\ \A i \in 1..(Len(q) - 1) : i + 1 \in 1..Len(q)
  BY <1>1
<1> QED
  BY <1>2, <1>3, <1>4 DEF Timely

TimelyInv == Timely(commands) /\ Timely(smsTopic)

(* Every step of the job keeps the buffer and the topic timely. *)
LEMMA TimelyStep ==
  ASSUME JobTypeInv, TimelyInv, [JobNext]_allVars
  PROVE  TimelyInv'
<1>0. /\ StateTypeOK /\ clock \in Nat
      /\ commands \in Seq(SmsCommands) /\ smsTopic \in Seq(SmsCommands)
      /\ ordersTopic \in Seq(OrderRecords) /\ position \in Nat
  BY TimeAssumption, LenProperties DEF JobTypeInv, JobTypeOK, StateTypeOK
<1>1. ASSUME [Next]_vars
      PROVE  Timely(commands')
  <2>1. ASSUME NEW o \in Orders, NEW st \in OrderDelayStates, NewCommand(o, st)
        PROVE  Timely(commands')
    <3>1. /\ DelaySms(o, st) \in SmsCommands
          /\ DelaySms(o, st).createdAt >= DelaySms(o, st).expectedDeliveryTime
      <4>1. st.expectedDeliveryTime \in Nat /\ st.expectedDeliveryTime <= clock
        BY <2>1 DEF NewCommand, OrderDelayStates
      <4> QED
        BY <1>0, <4>1, DelaySmsType DEF DelaySms
    <3> QED
      BY <1>0, <2>1, <3>1, AppendTimely DEF NewCommand, EmitDelaySms, TimelyInv
  <2> QED
    BY <1>0, <1>1, <2>1, CommandsGrow DEF TimelyInv
<1>2. ASSUME commands' = commands
      PROVE  Timely(commands')
  BY <1>2 DEF TimelyInv
<1>3. ASSUME LoseTasks
      PROVE  Timely(commands')
  <2>1. commands' = <<>>
    BY <1>3 DEF LoseTasks
  <2> QED
    BY <2>1, EmptySeq DEF Timely
<1>4. ASSUME DeliverSms
      PROVE  Timely(commands') /\ Timely(smsTopic')
  BY <1>0, <1>4, TailTimely, AppendTimely DEF DeliverSms, TimelyInv
<1>6. Timely(commands')
  BY <1>0, <1>1, <1>2, <1>3, <1>4, JobStepKinds
  DEF OperatorSteps, operatorVars, Restart
<1>7. Timely(smsTopic')
  <2>1. ASSUME smsTopic' = smsTopic
        PROVE  Timely(smsTopic')
    BY <2>1 DEF TimelyInv
  <2> QED
    BY <1>4, <2>1
    DEF JobNext, allVars, jobVars, kafkaVars, Publish, Consume, FireTimer,
        TimePasses, DeliverDeadLetter, TriggerCheckpoint, CompleteCheckpoint,
        Fail, Cancel, Restart, Resubmit, TimelyInv
<1> QED
  BY <1>6, <1>7 DEF TimelyInv, Timely

(* No SMS on the topic was created before the ETA it carries, whatever     *)
(* fails, is replayed or is delivered late.                                *)
THEOREM NoDeliveredSmsIsEarly == JobSpec => []DeliveredNotEarly
<1>1. JobInit => TimelyInv
  BY EmptySeq DEF JobInit, Init, TimelyInv, Timely
<1>2. JobTypeInv /\ TimelyInv /\ [JobNext]_allVars => TimelyInv'
  BY TimelyStep
<1>3. TimelyInv => DeliveredNotEarly
  BY DEF TimelyInv, Timely, DeliveredNotEarly
<1> QED
  BY <1>1, <1>2, <1>3, JobTyped, PTL DEF JobSpec

----------------------------------------------------------------------------
(* Alerts, while no state expires *)

IsAlerted(st) == st # Null /\ st.delaySmsEmitted

CutAlerts(c, k) == c # Null /\ IsAlerted(c.orderState[k])

(* Within the time-to-live the detector never takes an alert back, and     *)
(* only an order it has not alerted gets a command.                        *)
LEMMA AlertStays ==
  ASSUME StateTtl > MaxTime, StateTypeOK, [Next]_vars,
         NEW k \in Orders, IsAlerted(orderState[k])
  PROVE  IsAlerted(orderState'[k])
<1>0. Live(k) /\ clock \in Nat
  BY StoredIsLive, TimeAssumption DEF IsAlerted, StateTypeOK
<1>1. ASSUME NEW o \in Orders, NEW s \in Inputs, ProcessElement(o, s)
      PROVE  IsAlerted(orderState'[k])
  <2>1. CASE RejectInvalid(o, s) \/ IgnoreStale(o, s) \/ k # o
    BY <1>1, <2>1
    DEF ProcessElement, RejectInvalid, IgnoreStale, ApplyTerminal, Disarm,
        ApplyAfterSms, EmitOverdue, EmitDelaySms, Schedule,
        RegisterOrUpdateTimer, StateTypeOK, vars
  <2>2. ASSUME k = o, Accepts(o, s)
        PROVE  /\ Current(k, s) \in OrderDelayStates
               /\ Current(k, s).delaySmsEmitted
    BY <1>0, <2>2, CurrentType DEF Accepts, IsAlerted
  <2>3. CASE k = o /\ ApplyTerminal(o, s)
    <3> DEFINE st == [Current(k, s) EXCEPT !.registeredTimerTime = Null,
                                           !.lastAccess = clock]
    <3>1. st \in OrderDelayStates /\ st.delaySmsEmitted
      BY <1>0, <2>2, <2>3 DEF ApplyTerminal, OrderDelayStates
    <3>2. orderState'[k] = st
      BY <2>3 DEF ApplyTerminal, Disarm, StateTypeOK
    <3> QED
      BY <3>1, <3>2, NullAssumption DEF IsAlerted
  <2>4. CASE k = o /\ ApplyAfterSms(o, s)
    <3>1. orderState'[k] = Current(k, s)
      BY <2>4 DEF ApplyAfterSms, StateTypeOK
    <3> QED
      BY <2>2, <2>4, <3>1, NullAssumption DEF ApplyAfterSms, IsAlerted
  <2>5. CASE k = o /\ (EmitOverdue(o, s) \/ Schedule(o, s))
    BY <2>2, <2>5 DEF EmitOverdue, Schedule
  <2> QED
    BY <1>1, <2>1, <2>3, <2>4, <2>5 DEF ProcessElement
<1>2. ASSUME NEW o \in Orders, NEW t \in timers[o], TimerAlerts(o, t)
      PROVE  IsAlerted(orderState'[k])
  BY <1>2 DEF TimerAlerts, ActsOnTimer, EmitDelaySms, StateTypeOK, IsAlerted
<1>3. CASE UNCHANGED orderState
  BY <1>3
<1> QED
  BY <1>1, <1>2, <1>3 DEF Next, OnTimer, TimerIsIdle, Tick, vars

(* The step that appends a command marks its order, which was unmarked.    *)
LEMMA CommandMarks ==
  ASSUME StateTtl > MaxTime, StateTypeOK,
         NEW o \in Orders, NEW st \in OrderDelayStates, NewCommand(o, st)
  PROVE  /\ ~IsAlerted(orderState[o]) /\ IsAlerted(orderState'[o])
         /\ DelaySms(o, st) \in SmsCommands
         /\ DelaySms(o, st).orderId = o
         /\ commands' = Append(commands, DelaySms(o, st))
<1>0. clock \in Nat
  BY TimeAssumption DEF StateTypeOK
<1>1. ~IsAlerted(orderState[o])
  BY StoredIsLive DEF NewCommand, IsAlerted
<1>2. orderState'[o] = Alerted(st)
  BY DEF NewCommand, EmitDelaySms, StateTypeOK
<1>3. IsAlerted(orderState'[o])
  BY <1>0, <1>2, AlertedType, NullAssumption DEF IsAlerted
<1> QED
  BY <1>0, <1>1, <1>3, DelaySmsType DEF NewCommand, EmitDelaySms, DelaySms

(* A running job knows every alert its checkpoints know, and the newer     *)
(* checkpoint every alert the older one knows; only a running job writes   *)
(* a checkpoint.                                                           *)
AlertInv ==
    /\ jobStatus # "RUNNING" => pending = Null
    /\ \A k \in Orders :
          /\ jobStatus = "RUNNING" /\ (CutAlerts(pending, k) \/ CutAlerts(completed, k))
                => IsAlerted(orderState[k])
          /\ pending # Null /\ CutAlerts(completed, k) => CutAlerts(pending, k)

(* Every step of a job whose states do not expire keeps the alerts.        *)
LEMMA AlertStep ==
  ASSUME StateTtl > MaxTime, JobTypeInv, AlertInv, [JobNext]_allVars
  PROVE  AlertInv'
<1>0. /\ StateTypeOK /\ ordersTopic \in Seq(OrderRecords) /\ position \in Nat
  BY LenProperties DEF JobTypeInv, JobTypeOK
<1>1. ASSUME UNCHANGED <<jobStatus, pending, completed>>,
             \A k \in Orders : IsAlerted(orderState[k]) => IsAlerted(orderState'[k])
      PROVE  AlertInv'
  BY <1>1 DEF AlertInv, CutAlerts, IsAlerted
<1>2. CASE [Next]_vars /\ UNCHANGED <<jobStatus, pending, completed>>
  BY <1>0, <1>1, <1>2, AlertStays
<1>3. CASE Consume
  <2>1. UNCHANGED <<jobStatus, pending, completed>>
    BY <1>3 DEF Consume, runVars, snapVars
  <2>2. [Next]_vars \/ UNCHANGED orderState
    BY <1>0, <1>3, ConsumeStep DEF ParseError
  <2> QED
    BY <1>1, <1>2, <2>1, <2>2
<1>4. CASE (\E o \in Orders : FireTimer(o)) \/ TimePasses
  BY <1>2, <1>4 DEF FireTimer, TimePasses, Next, jobVars, runVars, snapVars
<1>5. CASE UNCHANGED <<jobStatus, pending, completed, orderState>>
  BY <1>1, <1>5
<1>6. CASE TriggerCheckpoint
  BY <1>6 DEF TriggerCheckpoint, TakenSnapshot, AlertInv, CutAlerts, IsAlerted,
              vars, runVars
<1>7. CASE CompleteCheckpoint
  BY <1>7 DEF CompleteCheckpoint, AlertInv, CutAlerts, IsAlerted, vars, runVars
<1>8. CASE Fail \/ Cancel
  BY <1>8 DEF Fail, Cancel, LoseTasks, AlertInv, CutAlerts
<1>9. CASE Restart
  BY <1>9 DEF Restart, snapVars, AlertInv, CutAlerts, IsAlerted
<1>10. CASE Resubmit
  BY <1>10 DEF Resubmit, AlertInv, CutAlerts
<1> QED
  BY <1>3, <1>4, <1>5, <1>6, <1>7, <1>8, <1>9, <1>10
  DEF JobNext, allVars, vars, jobVars, runVars, snapVars, Publish, DeliverSms,
      DeliverDeadLetter

(* Only a running job collects or sends a command.                         *)
Collects ==
    /\ jobStatus = "RUNNING" /\ jobStatus' = "RUNNING"
    /\ [Next]_vars
    /\ UNCHANGED <<smsTopic, restarts, resubmits>>

(* Every other step loses, restores or leaves alone what was collected. *)
LEMMA CommandSteps ==
  ASSUME JobTypeInv, [JobNext]_allVars
  PROVE  \/ Collects
         \/ UNCHANGED <<smsTopic, jobStatus, restarts, resubmits, commands,
                        orderState>>
         \/ DeliverSms \/ Fail \/ Cancel \/ Restart \/ Resubmit
<1>1. CASE Consume
  <2>1. /\ jobStatus = "RUNNING"
        /\ UNCHANGED <<smsTopic, jobStatus, restarts, resubmits>>
    BY <1>1 DEF Consume, kafkaVars, runVars
  <2>2. Next \/ ParseError(ordersTopic[position + 1])
    BY <1>1, ConsumeStep, LenProperties DEF JobTypeInv, JobTypeOK
  <2> QED
    BY <2>1, <2>2 DEF Collects, ParseError
<1>2. CASE (\E o \in Orders : FireTimer(o))
  BY <1>2 DEF FireTimer, Next, Collects, jobVars, kafkaVars, runVars
<1>3. CASE UNCHANGED <<smsTopic, jobStatus, restarts, resubmits, commands,
                       orderState>>
  BY <1>3
<1> QED
  BY <1>1, <1>2, <1>3
  DEF JobNext, allVars, vars, jobVars, kafkaVars, runVars, Publish, TimePasses,
      Tick, DeliverDeadLetter, TriggerCheckpoint, CompleteCheckpoint

(* A new command is the last of the buffer; the ones before it stay. *)
LEMMA AppendCommand ==
  ASSUME NEW q \in Seq(SmsCommands), NEW c \in SmsCommands
  PROVE  /\ Len(q) \in Nat
         /\ Len(Append(q, c)) = Len(q) + 1
         /\ Append(q, c)[Len(q) + 1] = c
         /\ \A i \in 1..Len(q) : Append(q, c)[i] = q[i]
         /\ \A i \in 1..(Len(q) + 1) : i \in 1..Len(q) \/ i = Len(q) + 1
<1>1. Len(q) \in Nat
  BY LenProperties
<1> QED
  BY <1>1, AppendProperties

(* A step that appends a command appends none for an alerted order.        *)
LEMMA FinalStep ==
  ASSUME StateTtl > MaxTime, JobTypeInv, AlertInv, [JobNext]_allVars,
         NEW k \in Orders, CutAlerts(completed, k),
         Len(commands') > Len(commands)
  PROVE  commands'[Len(commands')].orderId # k
<1>0. StateTypeOK /\ commands \in Seq(SmsCommands) /\ Len(commands) \in Nat
  BY LenProperties DEF JobTypeInv, JobTypeOK, StateTypeOK
<1>1. CASE Collects
  <2>1. IsAlerted(orderState[k])
    BY <1>1 DEF Collects, AlertInv
  <2>2. commands' # commands
    BY <1>0
  <2>3. PICK o \in Orders, st \in OrderDelayStates : NewCommand(o, st)
    BY <1>0, <1>1, <2>2, CommandsGrow DEF Collects
  <2>4. /\ ~IsAlerted(orderState[o])
        /\ DelaySms(o, st) \in SmsCommands
        /\ DelaySms(o, st).orderId = o
        /\ commands' = Append(commands, DelaySms(o, st))
    BY <1>0, <2>3, CommandMarks
  <2>5. commands'[Len(commands')] = DelaySms(o, st)
    BY <1>0, <2>4, AppendCommand
  <2> QED
    BY <2>1, <2>4, <2>5
<1>2. CASE UNCHANGED commands
  BY <1>0, <1>2
<1>3. CASE DeliverSms
  <2>1. Len(commands') = Len(commands) - 1
    BY <1>0, <1>3, HeadTailProperties DEF DeliverSms
  <2> QED
    BY <1>0, <2>1
<1>4. CASE Fail \/ Cancel
  <2>1. Len(commands') = 0
    BY <1>4, EmptySeq DEF Fail, Cancel, LoseTasks
  <2> QED
    BY <1>0, <2>1
<1> QED
  BY <1>1, <1>2, <1>3, <1>4, CommandSteps DEF Restart, Resubmit, vars

(* A running job never forgets an alert that a checkpoint it may go back   *)
(* to holds.                                                               *)
LEMMA AlertsAreKept ==
  ASSUME StateTtl > MaxTime
  PROVE  JobSpec => []AlertInv
<1>1. JobInit => AlertInv
  BY DEF JobInit, AlertInv, CutAlerts
<1>2. JobTypeInv /\ AlertInv /\ [JobNext]_allVars => AlertInv'
  BY AlertStep
<1> QED
  BY <1>1, <1>2, JobTyped, PTL DEF JobSpec

(* As long as no state expires, an order that a completed checkpoint holds *)
(* as alerted is not alerted again by this submission, whatever fails.     *)
THEOREM CheckpointedAlertsAreFinal ==
  ASSUME StateTtl > MaxTime
  PROVE  JobSpec => CheckpointedAlertIsFinal
<1>1. JobTypeInv /\ AlertInv /\ [JobNext]_allVars
        => [\A o \in Orders :
              /\ completed # Null
              /\ completed.orderState[o] # Null
              /\ completed.orderState[o].delaySmsEmitted
              => ~ /\ Len(commands') > Len(commands)
                   /\ commands'[Len(commands')].orderId = o]_allVars
  BY FinalStep DEF CutAlerts, IsAlerted
<1> QED
  BY <1>1, JobTyped, AlertsAreKept, PTL DEF JobSpec, CheckpointedAlertIsFinal

----------------------------------------------------------------------------
(* Duplicates *)

SmsOf(q, k) == {i \in 1..Len(q) : q[i].orderId = k}

(* One more command on the topic is one more for its order only.           *)
LEMMA OneMoreSms ==
  ASSUME NEW q \in Seq(SmsCommands), NEW c \in SmsCommands, NEW k \in Orders
  PROVE  /\ Cardinality(SmsOf(q, k)) \in Nat
         /\ Cardinality(SmsOf(Append(q, c), k))
              = IF c.orderId = k THEN Cardinality(SmsOf(q, k)) + 1
                                 ELSE Cardinality(SmsOf(q, k))
<1> DEFINE n == Len(q)
<1>1. /\ n \in Nat
      /\ Len(Append(q, c)) = n + 1
      /\ Append(q, c)[n + 1] = c
      /\ \A i \in 1..n : Append(q, c)[i] = q[i]
      /\ \A i \in 1..(n + 1) : i \in 1..n \/ i = n + 1
      /\ n + 1 \in 1..(n + 1) /\ n + 1 \notin 1..n
      /\ \A i \in 1..n : i \in 1..(n + 1)
  <2>1. n \in Nat
    BY LenProperties
  <2> QED
    BY <2>1, AppendCommand
<1>2. IsFiniteSet(SmsOf(q, k)) /\ Cardinality(SmsOf(q, k)) \in Nat
  <2>1. IsFiniteSet(1..n)
    BY <1>1, FS_Interval
  <2>2. SmsOf(q, k) \subseteq 1..n
    BY DEF SmsOf
  <2> QED
    BY <2>1, <2>2, FS_Subset, FS_CardinalityType
<1>3. CASE c.orderId = k
  <2>1. SmsOf(Append(q, c), k) = SmsOf(q, k) \cup {n + 1}
    BY <1>1, <1>3 DEF SmsOf
  <2>2. n + 1 \notin SmsOf(q, k)
    BY <1>1 DEF SmsOf
  <2> QED
    BY <1>2, <1>3, <2>1, <2>2, FS_AddElement
<1>4. CASE c.orderId # k
  <2>1. SmsOf(Append(q, c), k) = SmsOf(q, k)
    BY <1>1, <1>4 DEF SmsOf
  <2> QED
    BY <1>2, <1>4, <2>1
<1> QED
  BY <1>2, <1>3, <1>4

Buffered(k) == \E i \in 1..Len(commands) : commands[i].orderId = k

Sent(k) == Cardinality(SmsOf(smsTopic, k))

(* The account of an order: at most one SMS an incarnation.  What is still *)
(* in the buffer, or what the job does not yet know as alerted, has to be  *)
(* within it as well.                                                      *)
Account(k) ==
    /\ Sent(k) <= Incarnation
    /\ Buffered(k) => IsAlerted(orderState[k]) /\ Sent(k) < Incarnation
    /\ jobStatus = "RUNNING" /\ ~IsAlerted(orderState[k]) => Sent(k) < Incarnation

DuplicatesInv ==
    /\ AtMostOneSms
    /\ jobStatus # "RUNNING" => commands = <<>>
    /\ \A k \in Orders : Account(k)

(* Every restart and every resubmission is a later incarnation. *)
LEMMA IncarnationGrows ==
  ASSUME RunInv, Restart \/ Resubmit
  PROVE  /\ Incarnation \in Nat /\ Incarnation' \in Nat
         /\ Incarnation < Incarnation'
<1> DEFINE m == MaxRestarts + 1
<1>0. /\ m \in Nat /\ restarts \in 0..MaxRestarts /\ resubmits \in Nat
      /\ MaxRestarts \in Nat
  BY BoundsAssumption DEF RunInv
<1>1. resubmits * m \in Nat /\ (resubmits + 1) * m = resubmits * m + m
  BY <1>0
<1>2. CASE Restart
  BY <1>0, <1>1, <1>2 DEF Restart, Incarnation
<1>3. CASE Resubmit
  <2>1. resubmits' = resubmits + 1 /\ restarts' = 0
    BY <1>3 DEF Resubmit
  <2>2. Incarnation' = resubmits * m + m + 1
    BY <1>0, <1>1, <2>1 DEF Incarnation
  <2>3. Incarnation = resubmits * m + restarts + 1
    BY DEF Incarnation
  <2> HIDE DEF m
  <2> QED
    BY <1>0, <1>1, <2>2, <2>3 DEF m
<1> QED
  BY <1>2, <1>3

(* Within one incarnation the number is the same. *)
LEMMA IncarnationIsNat ==
  ASSUME RunInv
  PROVE  Incarnation \in Nat
<1>1. resubmits \in Nat /\ restarts \in Nat /\ MaxRestarts + 1 \in Nat
  BY BoundsAssumption DEF RunInv
<1>2. resubmits * (MaxRestarts + 1) \in Nat
  BY <1>1
<1> QED
  BY <1>1, <1>2 DEF Incarnation

(* Collecting a command spends what is left of its order's account.        *)
LEMMA CollectStep ==
  ASSUME StateTtl > MaxTime, JobTypeInv, DuplicatesInv, Collects
  PROVE  DuplicatesInv'
<1>0. /\ StateTypeOK /\ commands \in Seq(SmsCommands) /\ Len(commands) \in Nat
      /\ AtMostOneSms /\ \A k \in Orders : Account(k)
  BY LenProperties DEF JobTypeInv, JobTypeOK, StateTypeOK, DuplicatesInv
<1>1. /\ \A k \in Orders : Sent(k)' = Sent(k)
      /\ Incarnation' = Incarnation
      /\ jobStatus = "RUNNING" /\ jobStatus' = "RUNNING"
  BY DEF Collects, Sent, Incarnation
<1>2. \A k \in Orders : IsAlerted(orderState[k]) => IsAlerted(orderState'[k])
  BY <1>0, AlertStays DEF Collects
<1>3. CASE commands' = commands
  <2>1. \A k \in Orders : Account(k)'
    BY <1>0, <1>1, <1>2, <1>3 DEF Account, Buffered
  <2>2. AtMostOneSms'
    BY <1>0, <1>3 DEF AtMostOneSms
  <2> QED
    BY <1>1, <2>1, <2>2 DEF DuplicatesInv
<1>4. ASSUME NEW o \in Orders, NEW st \in OrderDelayStates, NewCommand(o, st)
      PROVE  DuplicatesInv'
  <2> DEFINE n == Len(commands)
  <2>1. /\ ~IsAlerted(orderState[o]) /\ IsAlerted(orderState'[o])
        /\ DelaySms(o, st) \in SmsCommands
        /\ DelaySms(o, st).orderId = o
        /\ commands' = Append(commands, DelaySms(o, st))
    BY <1>0, <1>4, CommandMarks
  <2>2. /\ Len(commands') = n + 1
        /\ commands'[n + 1].orderId = o
        /\ \A i \in 1..n : commands'[i] = commands[i]
        /\ \A i \in 1..(n + 1) : i \in 1..n \/ i = n + 1
    BY <1>0, <2>1, AppendCommand
  <2>3. ~Buffered(o) /\ Sent(o) < Incarnation
    BY <1>0, <1>1, <2>1 DEF Account
  <2>4. AtMostOneSms'
    BY <1>0, <2>2, <2>3 DEF AtMostOneSms, Buffered
  <2>5. ASSUME NEW k \in Orders
        PROVE  Account(k)'
    <3>1. CASE k = o
      BY <1>0, <1>1, <2>1, <2>3, <3>1 DEF Account
    <3>2. CASE k # o
      <4>1. Buffered(k)' => Buffered(k)
        BY <2>2, <3>2 DEF Buffered
      <4> QED
        BY <1>0, <1>1, <1>2, <4>1 DEF Account
    <3> QED
      BY <3>1, <3>2
  <2> QED
    BY <1>1, <2>4, <2>5 DEF DuplicatesInv
<1> QED
  BY <1>0, <1>3, <1>4, CommandsGrow DEF Collects

(* Sending a command moves it from the buffer to the topic.                *)
LEMMA SendStep ==
  ASSUME JobTypeInv, DuplicatesInv, DeliverSms
  PROVE  DuplicatesInv'
<1> DEFINE n == Len(commands)
           c == Head(commands)
<1>0. /\ commands \in Seq(SmsCommands) /\ smsTopic \in Seq(SmsCommands)
      /\ n \in Nat /\ n # 0
      /\ AtMostOneSms /\ \A k \in Orders : Account(k)
  BY LenProperties, EmptySeq
  DEF JobTypeInv, JobTypeOK, StateTypeOK, DuplicatesInv, DeliverSms
<1>1. Incarnation \in Nat
  BY IncarnationIsNat DEF RunInv, JobTypeInv, JobTypeOK
<1>2. /\ jobStatus = "RUNNING" /\ jobStatus' = "RUNNING"
      /\ Incarnation' = Incarnation
      /\ orderState' = orderState
      /\ commands' = Tail(commands) /\ smsTopic' = Append(smsTopic, c)
  BY DEF DeliverSms, runVars, Incarnation
<1>3. /\ c = commands[1] /\ c \in SmsCommands
      /\ Len(commands') = n - 1
      /\ \A i \in 1..(n - 1) : commands'[i] = commands[i + 1]
  BY <1>0, <1>2, HeadTailProperties
<1>4. 1 \in 1..n /\ \A i \in 1..(n - 1) : i + 1 \in 1..n /\ i + 1 # 1
  BY <1>0
<1>5. AtMostOneSms'
  <2> SUFFICES ASSUME NEW i \in 1..(n - 1), NEW j \in 1..(n - 1),
                      commands[i + 1].orderId = commands[j + 1].orderId
               PROVE  i = j
    BY <1>3 DEF AtMostOneSms
  <2>1. i + 1 = j + 1
    BY <1>0, <1>4 DEF AtMostOneSms
  <2> QED
    BY <2>1
<1>6. \A k \in Orders : Buffered(k)' => Buffered(k) /\ k # c.orderId
  BY <1>0, <1>3, <1>4 DEF Buffered, AtMostOneSms
<1>7. ASSUME NEW k \in Orders
      PROVE  Account(k)'
  <2>1. /\ Sent(k) \in Nat
        /\ Sent(k)' = IF c.orderId = k THEN Sent(k) + 1 ELSE Sent(k)
    BY <1>0, <1>2, <1>3, OneMoreSms DEF Sent
  <2>2. CASE c.orderId = k
    <3>1. Buffered(k)
      BY <1>3, <1>4, <2>2 DEF Buffered
    <3>2. IsAlerted(orderState[k]) /\ Sent(k) < Incarnation
      BY <1>0, <3>1 DEF Account
    <3>3. Sent(k)' <= Incarnation'
      BY <1>1, <1>2, <2>1, <2>2, <3>2
    <3> QED
      BY <1>2, <1>6, <2>2, <3>2, <3>3 DEF Account
  <2>3. CASE c.orderId # k
    BY <1>0, <1>2, <1>6, <2>1, <2>3 DEF Account
  <2> QED
    BY <2>2, <2>3
<1> QED
  BY <1>2, <1>5, <1>7 DEF DuplicatesInv

(* Every step of a job whose states do not expire keeps the account.       *)
LEMMA DuplicatesStep ==
  ASSUME StateTtl > MaxTime, JobTypeInv, DuplicatesInv, [JobNext]_allVars
  PROVE  DuplicatesInv'
<1>0. RunInv /\ Incarnation \in Nat
      /\ AtMostOneSms /\ \A k \in Orders : Account(k)
  BY IncarnationIsNat DEF RunInv, JobTypeInv, JobTypeOK, DuplicatesInv
<1>1. \A k \in Orders : Sent(k) \in Nat
  <2>1. ASSUME NEW k \in Orders
        PROVE  Sent(k) \in Nat
    <3>1. IsFiniteSet(1..Len(smsTopic))
      BY LenProperties, FS_Interval DEF JobTypeInv, JobTypeOK
    <3>2. SmsOf(smsTopic, k) \subseteq 1..Len(smsTopic)
      BY DEF SmsOf
    <3> QED
      BY <3>1, <3>2, FS_Subset, FS_CardinalityType DEF Sent
  <2> QED
    BY <2>1
<1>2. CASE UNCHANGED <<smsTopic, jobStatus, restarts, resubmits, commands,
                       orderState>>
  <2>1. \A k \in Orders : Account(k)'
    BY <1>0, <1>2 DEF Account, Buffered, Sent, Incarnation
  <2>2. AtMostOneSms'
    BY <1>0, <1>2 DEF AtMostOneSms
  <2> QED
    BY <1>2, <2>1, <2>2 DEF DuplicatesInv
<1>3. CASE Fail \/ Cancel
  <2>1. /\ commands' = <<>> /\ jobStatus' # "RUNNING"
        /\ UNCHANGED <<smsTopic, restarts, resubmits>>
    BY <1>3 DEF Fail, Cancel, LoseTasks, kafkaVars
  <2>2. \A k \in Orders : ~Buffered(k)'
    BY <2>1, EmptySeq DEF Buffered
  <2>3. AtMostOneSms'
    BY <2>1, EmptySeq DEF AtMostOneSms
  <2>4. \A k \in Orders : Account(k)'
    BY <1>0, <2>1, <2>2 DEF Account, Sent, Incarnation
  <2> QED
    BY <2>1, <2>3, <2>4 DEF DuplicatesInv
<1>4. CASE Restart \/ Resubmit
  <2>1. commands = <<>> /\ UNCHANGED <<commands, smsTopic>>
    BY <1>4 DEF Restart, Resubmit, DuplicatesInv, vars, kafkaVars
  <2>2. Incarnation' \in Nat /\ Incarnation < Incarnation'
    BY <1>0, <1>4, IncarnationGrows
  <2>3. \A k \in Orders : Sent(k)' = Sent(k) /\ Sent(k) <= Incarnation
                          /\ ~Buffered(k)'
    BY <1>0, <2>1, EmptySeq DEF Account, Sent, Buffered
  <2>4. \A k \in Orders : Sent(k)' < Incarnation'
    BY <1>0, <1>1, <2>2, <2>3
  <2>5. \A k \in Orders : Account(k)'
    BY <1>1, <2>2, <2>3, <2>4 DEF Account
  <2>6. AtMostOneSms'
    BY <1>0, <2>1 DEF AtMostOneSms
  <2> QED
    BY <2>1, <2>5, <2>6 DEF DuplicatesInv
<1> QED
  BY <1>2, <1>3, <1>4, CollectStep, SendStep, CommandSteps

(* As long as no state expires, an order gets at most one SMS for each     *)
(* incarnation of the job: a duplicate costs a restart or a resubmission.  *)
THEOREM DuplicatesAreBounded ==
  ASSUME StateTtl > MaxTime
  PROVE  JobSpec => []DuplicatesBounded
<1>1. JobInit => DuplicatesInv
  <2> SUFFICES ASSUME JobInit
               PROVE  DuplicatesInv
    OBVIOUS
  <2>1. /\ commands = <<>> /\ smsTopic = <<>> /\ jobStatus = "RUNNING"
        /\ restarts = 0 /\ resubmits = 0
    BY DEF JobInit, Init
  <2>2. Incarnation = 1
    BY <2>1, BoundsAssumption DEF Incarnation
  <2>3. ASSUME NEW k \in Orders
        PROVE  Account(k)
    <3>1. ~Buffered(k)
      BY <2>1, EmptySeq DEF Buffered
    <3>2. SmsOf(smsTopic, k) = {}
      BY <2>1, EmptySeq DEF SmsOf
    <3>3. Sent(k) = 0
      BY <3>2, FS_EmptySet DEF Sent
    <3> QED
      BY <2>2, <3>1, <3>3 DEF Account
  <2>4. AtMostOneSms
    BY <2>1, EmptySeq DEF AtMostOneSms
  <2> QED
    BY <2>1, <2>3, <2>4 DEF DuplicatesInv
<1>2. JobTypeInv /\ DuplicatesInv /\ [JobNext]_allVars => DuplicatesInv'
  BY DuplicatesStep
<1>3. DuplicatesInv => DuplicatesBounded
  BY DEF DuplicatesInv, Account, Sent, SmsOf, DuplicatesBounded
<1> QED
  BY <1>1, <1>2, <1>3, JobTyped, PTL DEF JobSpec

----------------------------------------------------------------------------
(* The state and the topic, while no state expires *)

(* A state record says what a snapshot said. *)
Matches(st, s) ==
    /\ s.status = st.currentStatus
    /\ s.expectedDeliveryTime = st.expectedDeliveryTime
    /\ s.lastUpdatedAt = st.lastUpdatedAt
    /\ s.customerId = st.customerId

(* Within the time-to-live, a snapshot replaces what is stored unless it   *)
(* is older; an incomplete one and one of another order leave it alone.    *)
LEMMA ElementApplied ==
  ASSUME StateTtl > MaxTime, StateTypeOK,
         NEW o \in Orders, NEW s \in Inputs, ProcessElement(o, s)
  PROVE  /\ \A k \in Orders : k # o => orderState'[k] = orderState[k]
         /\ ~IsValid(s) => orderState'[o] = orderState[o]
         /\ IsValid(s) =>
               IF /\ orderState[o] # Null
                  /\ s.lastUpdatedAt < orderState[o].lastUpdatedAt
               THEN orderState'[o] = orderState[o]
               ELSE orderState'[o] # Null /\ Matches(orderState'[o], s)
<1>0. clock \in Nat
  BY TimeAssumption DEF StateTypeOK
<1>1. Live(o) <=> orderState[o] # Null
  BY StoredIsLive DEF Live
<1>2. ASSUME Accepts(o, s)
      PROVE  /\ Current(o, s) \in OrderDelayStates
             /\ Matches(Current(o, s), s)
  BY <1>2, CurrentType DEF Accepts, Current, Matches
<1>3. CASE RejectInvalid(o, s) \/ IgnoreStale(o, s)
  BY <1>1, <1>3 DEF RejectInvalid, IgnoreStale, IsStaleUpdate, vars
<1>4. ASSUME Accepts(o, s), NEW st \in OrderDelayStates, Matches(st, s),
             orderState' = [orderState EXCEPT ![o] = st]
      PROVE  /\ \A k \in Orders : k # o => orderState'[k] = orderState[k]
             /\ IsValid(s)
             /\ ~ /\ orderState[o] # Null
                  /\ s.lastUpdatedAt < orderState[o].lastUpdatedAt
             /\ orderState'[o] # Null /\ Matches(orderState'[o], s)
  BY <1>1, <1>4, NullAssumption DEF Accepts, IsStaleUpdate, StateTypeOK
<1>5. CASE ApplyTerminal(o, s)
  <2> DEFINE st == [Current(o, s) EXCEPT !.registeredTimerTime = Null,
                                         !.lastAccess = clock]
  <2>1. Accepts(o, s) /\ orderState' = [orderState EXCEPT ![o] = st]
    BY <1>5 DEF ApplyTerminal, Disarm
  <2>2. st \in OrderDelayStates /\ Matches(st, s)
    BY <1>0, <1>2, <2>1 DEF OrderDelayStates, Matches
  <2> QED
    BY <1>4, <2>1, <2>2
<1>6. CASE ApplyAfterSms(o, s)
  BY <1>2, <1>4, <1>6 DEF ApplyAfterSms
<1>7. CASE EmitOverdue(o, s)
  <2> DEFINE st == Alerted(Current(o, s))
  <2>1. Accepts(o, s) /\ orderState' = [orderState EXCEPT ![o] = st]
    BY <1>7 DEF EmitOverdue, EmitDelaySms
  <2>2. st \in OrderDelayStates /\ Matches(st, s)
    BY <1>0, <1>2, <2>1, AlertedType DEF OrderDelayStates, Matches, Alerted
  <2> QED
    BY <1>4, <2>1, <2>2
<1>8. CASE Schedule(o, s)
  <2> DEFINE st == [Current(o, s) EXCEPT
                !.registeredTimerTime = Current(o, s).expectedDeliveryTime]
  <2>1. Accepts(o, s) /\ orderState' = [orderState EXCEPT ![o] = st]
    BY <1>8 DEF Schedule, RegisterOrUpdateTimer
  <2>2. st \in OrderDelayStates /\ Matches(st, s)
    BY <1>2, <2>1 DEF OrderDelayStates, Matches
  <2> QED
    BY <1>4, <2>1, <2>2
<1> QED
  BY <1>3, <1>5, <1>6, <1>7, <1>8 DEF ProcessElement

(* A timer marks a state but keeps what it says of its order.              *)
LEMMA TimerKeepsContent ==
  ASSUME StateTypeOK, NEW o \in Orders, OnTimer(o), NEW k \in Orders
  PROVE  /\ orderState'[k] = Null <=> orderState[k] = Null
         /\ \A s : Matches(orderState[k], s) => Matches(orderState'[k], s)
<1>0. clock \in Nat
  BY TimeAssumption DEF StateTypeOK
<1> PICK t \in timers[o] : TimerAlerts(o, t) \/ TimerIsIdle(o, t)
  BY DEF OnTimer
<1>1. CASE orderState'[k] = orderState[k]
  BY <1>1
<1>2. CASE k = o /\ TimerAlerts(o, t)
  <2>1. orderState[k] \in OrderDelayStates
    BY <1>2 DEF TimerAlerts, ActsOnTimer, Live, StateTypeOK
  <2>2. orderState'[k] = Alerted(orderState[k])
    BY <1>2 DEF TimerAlerts, EmitDelaySms, StateTypeOK
  <2>3. Alerted(orderState[k]) \in OrderDelayStates
    BY <1>0, <2>1, AlertedType
  <2>4. \A s : Matches(orderState[k], s) => Matches(orderState'[k], s)
    BY <2>1, <2>2 DEF Alerted, Matches, OrderDelayStates
  <2> QED
    BY <2>1, <2>2, <2>3, <2>4, NullAssumption
<1> QED
  BY <1>1, <1>2 DEF TimerAlerts, TimerIsIdle, EmitDelaySms, StateTypeOK

UpdateTime(i) == ordersTopic[i].snapshot.lastUpdatedAt

IsNewest(i, mine) ==
    \A j \in mine : \/ UpdateTime(j) < UpdateTime(i)
                    \/ UpdateTime(j) = UpdateTime(i) /\ j <= i

(* What is stored of order k is its newest snapshot up to a position.      *)
Holds(st, k, to) ==
    IF SnapshotsOf(k, startOffset, to) = {}
    THEN st = Null
    ELSE /\ st # Null
         /\ \E i \in SnapshotsOf(k, startOffset, to) :
               /\ IsNewest(i, SnapshotsOf(k, startOffset, to))
               /\ Matches(st, ordersTopic[i].snapshot)

(* The snapshots of an order are usable records of the topic. *)
LEMMA SnapshotsAreRead ==
  ASSUME JobTypeInv, NEW k \in Orders, NEW to \in 0..Len(ordersTopic),
         NEW i \in SnapshotsOf(k, startOffset, to)
  PROVE  /\ i \in 1..to /\ i \in 1..Len(ordersTopic) /\ i \in Nat /\ i <= to
         /\ ordersTopic[i].snapshot \in Inputs
         /\ ordersTopic[i].snapshot \in OrderStates
         /\ UpdateTime(i) \in Nat
<1>1. /\ ordersTopic \in Seq(OrderRecords) /\ Len(ordersTopic) \in Nat
      /\ startOffset \in Nat /\ to \in Nat /\ to <= Len(ordersTopic)
  BY LenProperties DEF JobTypeInv, JobTypeOK
<1>2. /\ i \in (startOffset + 1)..to
      /\ ~IsParseError(ordersTopic[i]) /\ IsValid(ordersTopic[i].snapshot)
  BY DEF SnapshotsOf
<1>3. i \in 1..to /\ i \in 1..Len(ordersTopic) /\ i \in Nat /\ i <= to
  BY <1>1, <1>2
<1>4. ordersTopic[i] \in OrderRecords
  BY <1>1, <1>3, ElementOfSeq
<1>5. ordersTopic[i].snapshot \in Inputs
  BY <1>2, <1>4 DEF OrderRecords, IsParseError
<1>6. ordersTopic[i].snapshot.lastUpdatedAt \in Nat
  BY <1>2, <1>5, ValidInput
<1> QED
  BY <1>3, <1>5, <1>6, InputsAssumption DEF UpdateTime

(* What was published stays as it is. *)
LEMMA TopicKeeps ==
  ASSUME JobTypeInv, [JobNext]_allVars, NEW i \in 1..Len(ordersTopic)
  PROVE  ordersTopic'[i] = ordersTopic[i]
<1>1. ASSUME NEW r \in Records, Publish(r)
      PROVE  ordersTopic'[i] = ordersTopic[i]
  BY <1>1, RecordsAssumption, AppendProperties DEF Publish, JobTypeInv, JobTypeOK
<1>2. CASE UNCHANGED ordersTopic
  BY <1>2
<1> QED
  BY <1>1, <1>2
  DEF JobNext, allVars, jobVars, kafkaVars, Consume, FireTimer, TimePasses,
      DeliverSms, DeliverDeadLetter, TriggerCheckpoint, CompleteCheckpoint, Fail,
      Cancel, Restart, Resubmit

(* More records at the end of the topic change nothing before a position.  *)
LEMMA HoldsLater ==
  ASSUME JobTypeInv, [JobNext]_allVars, startOffset' = startOffset,
         NEW k \in Orders, NEW to \in 0..Len(ordersTopic), NEW st,
         Holds(st, k, to)
  PROVE  Holds(st, k, to)'
<1> DEFINE mine == SnapshotsOf(k, startOffset, to)
<1>1. startOffset \in Nat /\ Len(ordersTopic) \in Nat
  BY LenProperties DEF JobTypeInv, JobTypeOK
<1>2. \A i \in (startOffset + 1)..to : ordersTopic'[i] = ordersTopic[i]
  BY <1>1, TopicKeeps
<1>3. SnapshotsOf(k, startOffset, to)' = mine
  BY <1>2 DEF SnapshotsOf, IsParseError, IsValid
<1>4. \A i \in mine : ordersTopic'[i] = ordersTopic[i]
  BY <1>2 DEF SnapshotsOf
<1>5. CASE mine = {}
  BY <1>3, <1>5 DEF Holds
<1>6. CASE mine # {}
  <2>1. st # Null
    BY <1>6 DEF Holds
  <2>2. PICK i \in mine : IsNewest(i, mine) /\ Matches(st, ordersTopic[i].snapshot)
    BY <1>6 DEF Holds
  <2>3. (\A j \in mine : \/ ordersTopic'[j].snapshot.lastUpdatedAt
                               < ordersTopic'[i].snapshot.lastUpdatedAt
                         \/ /\ ordersTopic'[j].snapshot.lastUpdatedAt
                                  = ordersTopic'[i].snapshot.lastUpdatedAt
                            /\ j <= i)
    BY <1>4, <2>2 DEF IsNewest, UpdateTime
  <2>4. Matches(st, ordersTopic'[i].snapshot)
    BY <1>4, <2>2
  <2> HIDE DEF mine
  <2> QED
    BY <1>3, <1>6, <2>1, <2>3, <2>4 DEF Holds, IsNewest, UpdateTime, Matches
<1> QED
  BY <1>5, <1>6

(* The records up to a position, one record on.                            *)
LEMMA OneMoreSnapshot ==
  ASSUME JobTypeInv, startOffset <= position, position < Len(ordersTopic),
         NEW k \in Orders
  PROVE  SnapshotsOf(k, startOffset, position + 1)
            = IF /\ ordersTopic[position + 1].orderId = k
                 /\ ~IsParseError(ordersTopic[position + 1])
                 /\ IsValid(ordersTopic[position + 1].snapshot)
              THEN SnapshotsOf(k, startOffset, position) \cup {position + 1}
              ELSE SnapshotsOf(k, startOffset, position)
<1>1. startOffset \in Nat /\ position \in Nat
  BY LenProperties DEF JobTypeInv, JobTypeOK
<1>2. \A i : i \in (startOffset + 1)..(position + 1)
               <=> i \in (startOffset + 1)..position \/ i = position + 1
  BY <1>1
<1> QED
  BY <1>2 DEF SnapshotsOf

(* Reading one more record makes the state the newest snapshot again.      *)
LEMMA ReadHolds ==
  ASSUME StateTtl > MaxTime, JobTypeInv, Consume, startOffset <= position,
         NEW k \in Orders, Holds(orderState[k], k, position)
  PROVE  Holds(orderState'[k], k, position + 1)
<1> DEFINE n    == position + 1
           r    == ordersTopic[n]
           mine == SnapshotsOf(k, startOffset, position)
           new  == SnapshotsOf(k, startOffset, n)
<1>0. /\ StateTypeOK /\ ordersTopic \in Seq(OrderRecords)
      /\ position \in Nat /\ position < Len(ordersTopic)
      /\ position \in 0..Len(ordersTopic)
      /\ position + 1 \in 0..Len(ordersTopic)
  BY LenProperties DEF JobTypeInv, JobTypeOK, Consume
<1>1. ASSUME orderState'[k] = orderState[k], new = mine
      PROVE  Holds(orderState'[k], k, n)
  BY <1>1 DEF Holds
<1>2. CASE ParseError(r)
  BY <1>0, <1>1, <1>2, OneMoreSnapshot DEF ParseError, Consume
<1>3. CASE ~IsParseError(r) /\ ProcessElement(r.orderId, r.snapshot)
  <2>1. r.orderId \in Orders /\ r.snapshot \in Inputs
    BY <1>0, <1>3, ReadRecord
  <2>2. CASE r.orderId # k \/ ~IsValid(r.snapshot)
    BY <1>0, <1>1, <1>3, <2>1, <2>2, ElementApplied, OneMoreSnapshot
  <2>3. CASE r.orderId = k /\ IsValid(r.snapshot)
    <3>1. new = mine \cup {n}
      BY <1>0, <1>3, <2>3, OneMoreSnapshot
    <3>2. IF /\ orderState[k] # Null
             /\ UpdateTime(n) < orderState[k].lastUpdatedAt
          THEN orderState'[k] = orderState[k]
          ELSE orderState'[k] # Null /\ Matches(orderState'[k], r.snapshot)
      BY <1>0, <1>3, <2>1, <2>3, ElementApplied DEF UpdateTime
    <3>3. \A j \in new : UpdateTime(j) \in Nat /\ j \in Nat /\ j <= n
      BY <1>0, SnapshotsAreRead
    <3>4. n \in new
      BY <3>1
    <3>5. CASE mine = {}
      <4>1. orderState'[k] # Null /\ Matches(orderState'[k], r.snapshot)
        BY <3>2, <3>5 DEF Holds
      <4>2. IsNewest(n, new)
        BY <1>0, <3>1, <3>5 DEF IsNewest
      <4> QED
        BY <3>4, <4>1, <4>2 DEF Holds
    <3>6. CASE mine # {}
      <4>1. PICK i \in mine :
               /\ orderState[k] # Null
               /\ IsNewest(i, mine)
               /\ Matches(orderState[k], ordersTopic[i].snapshot)
        BY <3>6 DEF Holds
      <4>2. i \in new /\ orderState[k].lastUpdatedAt = UpdateTime(i)
        BY <3>1, <4>1 DEF Matches, UpdateTime
      <4>3. CASE UpdateTime(n) < UpdateTime(i)
        <5>1. orderState'[k] = orderState[k]
          BY <3>2, <4>1, <4>2, <4>3
        <5>2. IsNewest(i, new)
          BY <3>1, <4>1, <4>3 DEF IsNewest
        <5> QED
          BY <4>1, <4>2, <5>1, <5>2 DEF Holds
      <4>4. CASE ~(UpdateTime(n) < UpdateTime(i))
        <5>1. orderState'[k] # Null /\ Matches(orderState'[k], r.snapshot)
          BY <3>2, <4>2, <4>4
        <5>2. UpdateTime(i) <= UpdateTime(n)
          BY <3>3, <3>4, <4>2, <4>4
        <5>3. ASSUME NEW j \in new
              PROVE  \/ UpdateTime(j) < UpdateTime(n)
                     \/ UpdateTime(j) = UpdateTime(n) /\ j <= n
          <6>1. /\ UpdateTime(j) \in Nat /\ UpdateTime(i) \in Nat
                /\ UpdateTime(n) \in Nat /\ j <= n /\ n \in Nat
            BY <3>3, <3>4, <4>2
          <6>2. UpdateTime(j) <= UpdateTime(i) \/ j = n
            BY <3>1, <4>1, <6>1 DEF IsNewest
          <6> QED
            BY <5>2, <6>1, <6>2
        <5>4. IsNewest(n, new)
          BY <5>3 DEF IsNewest
        <5> QED
          BY <3>4, <5>1, <5>4 DEF Holds
      <4> QED
        BY <4>3, <4>4
    <3> QED
      BY <3>5, <3>6
  <2> QED
    BY <2>2, <2>3
<1> QED
  BY <1>2, <1>3 DEF Consume

HoldsCut(c) ==
    c # Null => /\ startOffset <= c.position
                /\ \A k \in Orders : Holds(c.orderState[k], k, c.position)

(* A running job holds the topic up to its position, a checkpoint up to    *)
(* the position it was taken at; a job that does not run holds nothing.    *)
CopyInv ==
    /\ jobStatus = "RUNNING" =>
          /\ startOffset <= position
          /\ \A k \in Orders : Holds(orderState[k], k, position)
    /\ jobStatus # "RUNNING" =>
          pending = Null /\ \A k \in Orders : orderState[k] = Null
    /\ HoldsCut(pending) /\ HoldsCut(completed)

(* A checkpoint stays true of the topic until the next submission.         *)
LEMMA CutsStayTrue ==
  ASSUME JobTypeInv, CopyInv, [JobNext]_allVars, startOffset' = startOffset
  PROVE  HoldsCut(pending)' /\ HoldsCut(completed)'
<1>1. \A c \in {pending, completed, Null} : CutTyped(c) /\ HoldsCut(c)
  BY DEF JobTypeInv, CopyInv, CutTyped, HoldsCut
<1>2. jobStatus = "RUNNING" => CutTyped(TakenSnapshot) /\ HoldsCut(TakenSnapshot)
  BY DEF JobTypeInv, JobTypeOK, StateTypeOK, CutTyped, CopyInv, HoldsCut,
         TakenSnapshot
<1>3. /\ \/ pending' \in {pending, Null}
         \/ jobStatus = "RUNNING" /\ pending' = TakenSnapshot
      /\ completed' \in {completed, pending, Null}
  <2>1. CASE TriggerCheckpoint
    BY <2>1 DEF TriggerCheckpoint
  <2>2. CASE CompleteCheckpoint
    BY <2>2 DEF CompleteCheckpoint
  <2>3. CASE Fail \/ Cancel \/ Restart \/ Resubmit
    BY <2>3 DEF Fail, Cancel, LoseTasks, Restart, Resubmit, snapVars
  <2>4. CASE UNCHANGED snapVars
    BY <2>4 DEF snapVars
  <2> QED
    BY <2>1, <2>2, <2>3, <2>4
    DEF JobNext, allVars, jobVars, Publish, Consume, FireTimer, TimePasses,
        DeliverSms, DeliverDeadLetter
<1>4. ASSUME NEW c, CutTyped(c), HoldsCut(c)
      PROVE  HoldsCut(c)'
  <2>1. ASSUME c # Null, NEW k \in Orders
        PROVE  Holds(c.orderState[k], k, c.position)'
    <3>1. /\ c.position \in 0..Len(ordersTopic)
          /\ Holds(c.orderState[k], k, c.position)
      BY <1>4, <2>1 DEF CutTyped, HoldsCut
    <3> QED
      BY <3>1, HoldsLater
  <2> QED
    BY <1>4, <2>1 DEF HoldsCut
<1> QED
  BY <1>1, <1>2, <1>3, <1>4 DEF HoldsCut

(* A step that leaves the position and what the states say alone.          *)
LEMMA StatesStayTrue ==
  ASSUME JobTypeInv, CopyInv, [JobNext]_allVars,
         UNCHANGED <<startOffset, position>>, jobStatus = "RUNNING",
         NEW k \in Orders,
         orderState'[k] = Null <=> orderState[k] = Null,
         \A s : Matches(orderState[k], s) => Matches(orderState'[k], s)
  PROVE  Holds(orderState[k], k, position)'
<1>1. position \in 0..Len(ordersTopic) /\ Holds(orderState[k], k, position)
  BY DEF JobTypeInv, JobTypeOK, CopyInv
<1>2. Holds(orderState'[k], k, position)
  BY <1>1 DEF Holds
<1>3. ASSUME NEW st, NEW to \in 0..Len(ordersTopic), Holds(st, k, to),
             st = orderState'[k], to = position'
      PROVE  Holds(orderState[k], k, position)'
  <2>1. Holds(st, k, to)'
    BY <1>3, HoldsLater
  <2> QED
    BY <1>3, <2>1
<1> QED
  BY <1>1, <1>2, <1>3

(* Every step of a job whose states do not expire keeps the copy.          *)
LEMMA CopyStep ==
  ASSUME StateTtl > MaxTime, JobTypeInv, CopyInv, [JobNext]_allVars
  PROVE  CopyInv'
<1>0. /\ StateTypeOK /\ position \in 0..Len(ordersTopic)
      /\ position \in Nat /\ startOffset \in Nat
  BY LenProperties DEF JobTypeInv, JobTypeOK
<1>1. ASSUME UNCHANGED <<startOffset, position, jobStatus, pending>>,
             \A k \in Orders :
                /\ orderState'[k] = Null <=> orderState[k] = Null
                /\ \A s : Matches(orderState[k], s) => Matches(orderState'[k], s)
      PROVE  CopyInv'
  <2>1. HoldsCut(pending)' /\ HoldsCut(completed)'
    BY <1>1, CutsStayTrue
  <2>2. jobStatus = "RUNNING" =>
          \A k \in Orders : Holds(orderState[k], k, position)'
    BY <1>1, StatesStayTrue
  <2> QED
    BY <1>1, <2>1, <2>2 DEF CopyInv
<1>2. CASE UNCHANGED <<startOffset, position, jobStatus, pending, orderState>>
  BY <1>1, <1>2
<1>3. CASE \E o \in Orders : FireTimer(o)
  BY <1>0, <1>1, <1>3, TimerKeepsContent
  DEF FireTimer, jobVars, readVars, runVars, snapVars
<1>4. CASE Consume
  <2>1. /\ UNCHANGED <<startOffset, jobStatus, ordersTopic>>
        /\ jobStatus = "RUNNING" /\ position' = position + 1
        /\ startOffset <= position' /\ position' \in 0..Len(ordersTopic)
    BY <1>0, <1>4, LenProperties
    DEF Consume, kafkaVars, runVars, CopyInv, JobTypeInv, JobTypeOK
  <2>2. HoldsCut(pending)' /\ HoldsCut(completed)'
    BY <2>1, CutsStayTrue
  <2>3. ASSUME NEW k \in Orders
        PROVE  Holds(orderState[k], k, position)'
    <3>1. Holds(orderState'[k], k, position + 1)
      BY <1>4, <2>1, ReadHolds DEF CopyInv
    <3>2. ASSUME NEW st, NEW to \in 0..Len(ordersTopic), Holds(st, k, to),
                 st = orderState'[k], to = position'
          PROVE  Holds(orderState[k], k, position)'
      <4>1. Holds(st, k, to)'
        BY <2>1, <3>2, HoldsLater
      <4> QED
        BY <3>2, <4>1
    <3> QED
      BY <2>1, <3>1, <3>2
  <2> QED
    BY <2>1, <2>2, <2>3 DEF CopyInv
<1>5. CASE TriggerCheckpoint \/ CompleteCheckpoint
  <2>1. /\ UNCHANGED <<startOffset, position, jobStatus, orderState>>
        /\ jobStatus = "RUNNING"
    BY <1>5 DEF TriggerCheckpoint, CompleteCheckpoint, vars, readVars, runVars
  <2>2. HoldsCut(pending)' /\ HoldsCut(completed)'
    BY <2>1, CutsStayTrue
  <2>3. \A k \in Orders : Holds(orderState[k], k, position)'
    BY <2>1, StatesStayTrue
  <2> QED
    BY <2>1, <2>2, <2>3 DEF CopyInv
<1>6. CASE Fail \/ Cancel
  <2>1. /\ startOffset' = startOffset /\ jobStatus' # "RUNNING"
        /\ pending' = Null /\ \A k \in Orders : orderState'[k] = Null
    BY <1>6 DEF Fail, Cancel, LoseTasks, readVars
  <2> QED
    BY <2>1, CutsStayTrue DEF CopyInv
<1>7. CASE Restart
  <2>1. /\ UNCHANGED <<startOffset, ordersTopic, completed>>
        /\ jobStatus # "RUNNING" /\ jobStatus' = "RUNNING"
    BY <1>7 DEF Restart, kafkaVars, snapVars
  <2>2. HoldsCut(pending)' /\ HoldsCut(completed)'
    BY <2>1, CutsStayTrue
  <2>3. CASE completed = Null
    <3>1. /\ position' = startOffset
          /\ \A k \in Orders : orderState'[k] = Null
      BY <1>7, <2>1, <2>3 DEF Restart, CopyInv
    <3>2. \A k \in Orders : SnapshotsOf(k, startOffset', position') = {}
      BY <1>0, <2>1, <3>1 DEF SnapshotsOf
    <3>3. \A k \in Orders : Holds(orderState[k], k, position)'
      BY <2>1, <3>1, <3>2 DEF Holds, SnapshotsOf, IsParseError, IsValid
    <3> QED
      BY <1>0, <2>1, <2>2, <3>1, <3>3 DEF CopyInv
  <2>4. CASE completed # Null
    <3>1. /\ position' = completed'.position
          /\ orderState' = completed'.orderState
      BY <1>7, <2>1, <2>4 DEF Restart
    <3> QED
      BY <2>1, <2>2, <2>4, <3>1 DEF CopyInv, HoldsCut
  <2> QED
    BY <2>3, <2>4
<1>8. CASE Resubmit
  <2>1. /\ jobStatus' = "RUNNING"
        /\ position' = startOffset' /\ startOffset' \in Nat
        /\ pending' = Null /\ completed' = Null
        /\ \A k \in Orders : orderState'[k] = Null
    BY <1>8, LenProperties DEF Resubmit, CopyInv, vars, JobTypeInv, JobTypeOK
  <2>2. \A k \in Orders : SnapshotsOf(k, startOffset, position)' = {}
    BY <2>1 DEF SnapshotsOf
  <2>3. \A k \in Orders : Holds(orderState[k], k, position)'
    BY <2>1, <2>2 DEF Holds
  <2> QED
    BY <2>1, <2>3 DEF CopyInv, HoldsCut
<1> QED
  BY <1>2, <1>3, <1>4, <1>5, <1>6, <1>7, <1>8
  DEF JobNext, allVars, vars, jobVars, readVars, runVars, snapVars, Publish,
      TimePasses, Tick, DeliverSms, DeliverDeadLetter

(* There is one newest snapshot: the greatest update time, the last of a   *)
(* tie.                                                                    *)
LEMMA NewestIsUnique ==
  ASSUME JobTypeInv, NEW k \in Orders,
         NEW i \in SnapshotsOf(k, startOffset, position),
         IsNewest(i, SnapshotsOf(k, startOffset, position))
  PROVE  NewestOf(k, startOffset, position) = ordersTopic[i].snapshot
<1> DEFINE mine == SnapshotsOf(k, startOffset, position)
           P(j) == IsNewest(j, mine)
<1>1. \A j \in mine : UpdateTime(j) \in Nat /\ j \in Nat
  BY SnapshotsAreRead DEF JobTypeInv, JobTypeOK
<1>2. NewestOf(k, startOffset, position)
        = ordersTopic[CHOOSE j \in mine : P(j)].snapshot
  BY DEF NewestOf, IsNewest, UpdateTime
<1>3. i \in mine /\ P(i)
  OBVIOUS
<1>4. ASSUME NEW j \in mine, P(j)
      PROVE  j = i
  BY <1>1, <1>3, <1>4 DEF IsNewest
<1> HIDE DEF mine, P
<1>5. (CHOOSE j \in mine : P(j)) = i
  BY <1>3, <1>4
<1> QED
  BY <1>2, <1>5

(* A snapshot that a state record matches is the one made of its fields.   *)
LEMMA MatchingSnapshot ==
  ASSUME NEW st, NEW s \in OrderStates, Matches(st, s)
  PROVE  s = [status               |-> st.currentStatus,
              expectedDeliveryTime |-> st.expectedDeliveryTime,
              lastUpdatedAt        |-> st.lastUpdatedAt,
              customerId           |-> st.customerId]
BY DEF Matches, OrderStates

(* The copy is kept in every reachable state.                              *)
LEMMA CopyIsKept ==
  ASSUME StateTtl > MaxTime
  PROVE  JobSpec => []CopyInv
<1>1. JobInit => CopyInv
  <2> SUFFICES ASSUME JobInit
               PROVE  CopyInv
    OBVIOUS
  <2>1. /\ jobStatus = "RUNNING" /\ startOffset = 0 /\ position = 0
        /\ pending = Null /\ completed = Null
        /\ \A k \in Orders : orderState[k] = Null
    BY DEF JobInit, Init
  <2>2. \A k \in Orders : SnapshotsOf(k, startOffset, position) = {}
    <3>1. (startOffset + 1)..position = {}
      BY <2>1
    <3> QED
      BY <3>1 DEF SnapshotsOf
  <2> QED
    BY <2>1, <2>2 DEF CopyInv, Holds, HoldsCut
<1>2. JobTypeInv /\ CopyInv /\ [JobNext]_allVars => CopyInv'
  BY CopyStep
<1> QED
  BY <1>1, <1>2, JobTyped, PTL DEF JobSpec

(* As long as no state expires, the state of every order is the newest of  *)
(* exactly the snapshots read since the job was submitted, however often   *)
(* it failed and replayed: exactly-once state.                             *)
THEOREM StateIsExactlyOnce ==
  ASSUME StateTtl > MaxTime
  PROVE  JobSpec => []StateMatchesTopic
<1>1. JobTypeInv /\ CopyInv => StateMatchesTopic
  <2> SUFFICES ASSUME JobTypeInv, CopyInv, jobStatus = "RUNNING",
                      NEW k \in Orders,
                      SnapshotsOf(k, startOffset, position) # {}
               PROVE  /\ Live(k)
                      /\ NewestOf(k, startOffset, position)
                           = [status |-> orderState[k].currentStatus,
                              expectedDeliveryTime
                                     |-> orderState[k].expectedDeliveryTime,
                              lastUpdatedAt |-> orderState[k].lastUpdatedAt,
                              customerId |-> orderState[k].customerId]
    BY DEF StateMatchesTopic, CopyInv, Holds
  <2>1. Holds(orderState[k], k, position)
    BY DEF CopyInv
  <2>2. orderState[k] # Null
    BY <2>1 DEF Holds
  <2>3. PICK i \in SnapshotsOf(k, startOffset, position) :
           /\ IsNewest(i, SnapshotsOf(k, startOffset, position))
           /\ Matches(orderState[k], ordersTopic[i].snapshot)
    BY <2>1 DEF Holds
  <2>4. Live(k)
    BY <2>2, StoredIsLive DEF JobTypeInv, JobTypeOK
  <2>5. ordersTopic[i].snapshot \in OrderStates
    BY <2>3, SnapshotsAreRead DEF JobTypeInv, JobTypeOK
  <2> QED
    BY <2>3, <2>4, <2>5, NewestIsUnique, MatchingSnapshot
<1> QED
  BY <1>1, JobTyped, CopyIsKept, PTL

=============================================================================
