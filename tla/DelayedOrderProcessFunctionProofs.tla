----------------- MODULE DelayedOrderProcessFunctionProofs -----------------
(***************************************************************************)
(* Theorems about DelayedOrderProcessFunction, for every set of orders,    *)
(* every set of snapshots, every time-to-live and every horizon.           *)
(***************************************************************************)
EXTENDS DelayedOrderProcessFunction, SequenceTheorems, TLAPS

----------------------------------------------------------------------------
(* The data the actions build *)

(* A complete snapshot has every field the detector computes with          *)
(* (isValid).                                                              *)
LEMMA ValidInput ==
  ASSUME NEW s \in Inputs, IsValid(s)
  PROVE  /\ s.status \in Status
         /\ s.expectedDeliveryTime \in Nat
         /\ s.lastUpdatedAt \in Nat
         /\ s.customerId \in Customers \cup {Null}
BY InputsAssumption DEF IsValid, OrderStates

(* fromOrderState and updateFrom build a proper state record, and copy     *)
(* the snapshot's status and ETA.                                          *)
LEMMA CurrentType ==
  ASSUME StateTypeOK, NEW o \in Orders, NEW s \in Inputs, IsValid(s)
  PROVE  /\ Current(o, s) \in OrderDelayStates
         /\ Current(o, s).currentStatus = s.status
         /\ Current(o, s).expectedDeliveryTime = s.expectedDeliveryTime
         /\ Current(o, s).delaySmsEmitted
               = (Live(o) /\ orderState[o].delaySmsEmitted)
         /\ Current(o, s).registeredTimerTime
               = IF Live(o) THEN orderState[o].registeredTimerTime ELSE Null
<1>1. s.status \in Status /\ s.expectedDeliveryTime \in Nat
      /\ s.lastUpdatedAt \in Nat /\ s.customerId \in Customers \cup {Null}
  BY ValidInput
<1>2. Live(o) => orderState[o] \in OrderDelayStates
  BY DEF Live, StateTypeOK
<1>3. clock \in Nat
  BY TimeAssumption DEF StateTypeOK
<1>4. (Live(o) /\ orderState[o].delaySmsEmitted) \in BOOLEAN
  OBVIOUS
<1>5. (IF Live(o) THEN orderState[o].registeredTimerTime ELSE Null)
        \in Nat \cup {Null}
  BY <1>2 DEF OrderDelayStates
<1> QED
  BY <1>1, <1>3, <1>4, <1>5 DEF Current, OrderDelayStates

(* delaySms builds a proper command. *)
LEMMA DelaySmsType ==
  ASSUME NEW o \in Orders, NEW st \in OrderDelayStates, clock \in Nat
  PROVE  DelaySms(o, st) \in SmsCommands
BY DEF DelaySms, SmsCommands, OrderDelayStates

(* emitDelaySms leaves a proper state, marked as alerted and unarmed.      *)
LEMMA AlertedType ==
  ASSUME NEW st \in OrderDelayStates, clock \in Nat
  PROVE  /\ Alerted(st) \in OrderDelayStates
         /\ Alerted(st).delaySmsEmitted
         /\ Alerted(st).registeredTimerTime = Null
         /\ Alerted(st).lastAccess = clock
BY DEF Alerted, OrderDelayStates

----------------------------------------------------------------------------
(* Type correctness *)

(* emitDelaySms preserves the types of what it writes. *)
LEMMA EmitType ==
  ASSUME StateTypeOK, NEW o \in Orders, NEW st \in OrderDelayStates,
         EmitDelaySms(o, st)
  PROVE  /\ orderState' \in [Orders -> OrderDelayStates \cup {Null}]
         /\ commands' \in Seq(SmsCommands)
<1>1. clock \in Nat
  BY TimeAssumption DEF StateTypeOK
<1>2. Alerted(st) \in OrderDelayStates /\ DelaySms(o, st) \in SmsCommands
  BY <1>1, AlertedType, DelaySmsType
<1>3. orderState' \in [Orders -> OrderDelayStates \cup {Null}]
  BY <1>2 DEF StateTypeOK, EmitDelaySms
<1>4. commands' \in Seq(SmsCommands)
  BY <1>2, AppendProperties DEF StateTypeOK, EmitDelaySms
<1> QED
  BY <1>3, <1>4

(* Every step keeps the state well typed. *)
LEMMA StateTypeStep == StateTypeOK /\ [Next]_vars => StateTypeOK'
<1> SUFFICES ASSUME StateTypeOK, [Next]_vars PROVE StateTypeOK'
  OBVIOUS
<1>0. clock \in Nat
  BY TimeAssumption DEF StateTypeOK
<1>1. ASSUME NEW o \in Orders, NEW s \in Inputs, RejectInvalid(o, s)
      PROVE  StateTypeOK'
  BY <1>1 DEF RejectInvalid, StateTypeOK
<1>2. ASSUME NEW o \in Orders, NEW s \in Inputs, IgnoreStale(o, s)
      PROVE  StateTypeOK'
  BY <1>2 DEF IgnoreStale, StateTypeOK, vars
<1>3. ASSUME NEW o \in Orders, NEW s \in Inputs, ApplyTerminal(o, s)
      PROVE  StateTypeOK'
  <2>1. Current(o, s) \in OrderDelayStates
    BY <1>3, CurrentType DEF ApplyTerminal, Accepts
  <2>2. [Current(o, s) EXCEPT !.registeredTimerTime = Null,
                              !.lastAccess = clock] \in OrderDelayStates
    BY <1>0, <2>1 DEF OrderDelayStates
  <2> QED
    BY <1>3, <2>2 DEF ApplyTerminal, Disarm, StateTypeOK
<1>4. ASSUME NEW o \in Orders, NEW s \in Inputs, ApplyAfterSms(o, s)
      PROVE  StateTypeOK'
  <2>1. Current(o, s) \in OrderDelayStates
    BY <1>4, CurrentType DEF ApplyAfterSms, Accepts
  <2> QED
    BY <1>4, <2>1 DEF ApplyAfterSms, StateTypeOK
<1>5. ASSUME NEW o \in Orders, NEW s \in Inputs, EmitOverdue(o, s)
      PROVE  StateTypeOK'
  <2>1. Current(o, s) \in OrderDelayStates
    BY <1>5, CurrentType DEF EmitOverdue, Accepts
  <2>2. /\ orderState' \in [Orders -> OrderDelayStates \cup {Null}]
        /\ commands' \in Seq(SmsCommands)
    BY <1>5, <2>1, EmitType DEF EmitOverdue
  <2> QED
    BY <1>5, <2>2 DEF EmitOverdue, StateTypeOK
<1>6. ASSUME NEW o \in Orders, NEW s \in Inputs, Schedule(o, s)
      PROVE  StateTypeOK'
  <2>1. /\ Current(o, s) \in OrderDelayStates
        /\ Current(o, s).expectedDeliveryTime \in Nat
    BY <1>6, CurrentType DEF Schedule, Accepts, OrderDelayStates
  <2>2. [Current(o, s) EXCEPT
           !.registeredTimerTime = Current(o, s).expectedDeliveryTime]
              \in OrderDelayStates
    BY <2>1 DEF OrderDelayStates
  <2>3. orderState' \in [Orders -> OrderDelayStates \cup {Null}]
    BY <1>6, <2>2 DEF Schedule, RegisterOrUpdateTimer, StateTypeOK
  <2>4. timers' \in [Orders -> SUBSET Nat]
    BY <1>6, <2>1 DEF Schedule, RegisterOrUpdateTimer, StateTypeOK
  <2> QED
    BY <1>6, <2>3, <2>4 DEF Schedule, StateTypeOK
<1>7. ASSUME NEW o \in Orders, NEW t \in timers[o], TimerAlerts(o, t)
      PROVE  StateTypeOK'
  <2>1. orderState[o] \in OrderDelayStates
    BY <1>7 DEF TimerAlerts, ActsOnTimer, Live, StateTypeOK
  <2>2. /\ orderState' \in [Orders -> OrderDelayStates \cup {Null}]
        /\ commands' \in Seq(SmsCommands)
    BY <1>7, <2>1, EmitType DEF TimerAlerts
  <2> QED
    BY <1>7, <2>2 DEF TimerAlerts, StateTypeOK
<1>8. ASSUME NEW o \in Orders, NEW t \in timers[o], TimerIsIdle(o, t)
      PROVE  StateTypeOK'
  BY <1>8 DEF TimerIsIdle, StateTypeOK
<1>9. CASE Tick
  BY <1>9, TimeAssumption DEF Tick, StateTypeOK
<1>10. CASE UNCHANGED vars
  BY <1>10 DEF vars, StateTypeOK
<1> QED
  BY <1>1, <1>2, <1>3, <1>4, <1>5, <1>6, <1>7, <1>8, <1>9, <1>10
     DEF Next, ProcessElement, OnTimer

(* Each step of the detector writes proper values. *)
LEMMA StateTyped == Spec => []StateTypeOK
<1>1. Init => StateTypeOK
  BY TimeAssumption, EmptySeq DEF Init, StateTypeOK
<1> QED
  BY <1>1, StateTypeStep, PTL DEF Spec

(* Only an invalid snapshot is dead-lettered, with its order and status.   *)
LEMMA DeadLetterStep ==
  ASSUME [Next]_vars
  PROVE  deadLetters' \subseteq deadLetters \cup DeadLetters
<1>1. ASSUME NEW o \in Orders, NEW s \in Inputs, RejectInvalid(o, s)
      PROVE  deadLetters' \subseteq deadLetters \cup DeadLetters
  <2>1. [orderId |-> o, status |-> s.status] \in DeadLetters
    BY InputsAssumption DEF OrderStates, DeadLetters
  <2> QED
    BY <1>1, <2>1 DEF RejectInvalid
<1>2. CASE UNCHANGED deadLetters
  BY <1>2
<1> QED
  BY <1>1, <1>2
  DEF Next, ProcessElement, OnTimer, IgnoreStale, ApplyTerminal, ApplyAfterSms,
      EmitOverdue, Schedule, TimerAlerts, TimerIsIdle, Tick, vars

(* The detector's variables keep their types: a state record is complete,  *)
(* a timer is a time, a command names an order, and the clock stays within *)
(* its bound.                                                              *)
THEOREM TypeCorrect == Spec => []TypeOK
<1>1. Init => deadLetters \subseteq DeadLetters
  BY DEF Init
<1>2. deadLetters \subseteq DeadLetters /\ [Next]_vars
        => (deadLetters \subseteq DeadLetters)'
  BY DeadLetterStep
<1>3. StateTypeOK /\ deadLetters \subseteq DeadLetters => TypeOK
  BY DEF TypeOK
<1> QED
  BY <1>1, <1>2, <1>3, StateTyped, PTL DEF Spec

----------------------------------------------------------------------------
(* Timers *)

(* What holds of one order in every state: if it waits it is armed for its *)
(* ETA, if it is settled its state names no timer, and its state was       *)
(* written in the past.                                                    *)
TimerInv(k) ==
    /\ Awaiting(k) =>
          /\ orderState[k].registeredTimerTime
                 = orderState[k].expectedDeliveryTime
          /\ orderState[k].expectedDeliveryTime \in timers[k]
    /\ /\ orderState[k] # Null
       /\ \/ orderState[k].currentStatus \in Terminal
          \/ orderState[k].delaySmsEmitted
       => orderState[k].registeredTimerTime = Null
    /\ orderState[k] # Null => orderState[k].lastAccess <= clock

(* An order whose state and timers a step leaves alone stays as it was:    *)
(* time can only expire its state.                                         *)
LEMMA TimerInvFrame ==
  ASSUME StateTypeOK, NEW k \in Orders, TimerInv(k),
         orderState'[k] = orderState[k], timers'[k] = timers[k],
         clock' \in Nat, clock <= clock'
  PROVE  TimerInv(k)'
<1>1. clock \in Nat /\ StateTtl \in Nat
  BY TimeAssumption DEF StateTypeOK
<1>2. orderState[k] # Null => orderState[k].lastAccess \in Nat
  BY DEF StateTypeOK, OrderDelayStates
<1>3. Live(k)' => Live(k)
  BY <1>1, <1>2 DEF Live
<1> QED
  BY <1>1, <1>2, <1>3 DEF TimerInv, Awaiting

(* emitDelaySms leaves an alerted, unarmed order. *)
LEMMA TimerInvEmit ==
  ASSUME StateTypeOK, NEW k \in Orders, NEW st \in OrderDelayStates,
         EmitDelaySms(k, st), clock' = clock
  PROVE  TimerInv(k)'
<1>1. clock \in Nat
  BY TimeAssumption DEF StateTypeOK
<1>2. orderState'[k] = Alerted(st)
  BY DEF EmitDelaySms, StateTypeOK
<1>3. /\ Alerted(st).delaySmsEmitted
      /\ Alerted(st).registeredTimerTime = Null
      /\ Alerted(st).lastAccess = clock
  BY <1>1, AlertedType
<1> QED
  BY <1>1, <1>2, <1>3 DEF TimerInv, Awaiting

(* Every step keeps every order armed or settled. *)
LEMMA TimerStep ==
  ASSUME StateTypeOK, \A k \in Orders : TimerInv(k), [Next]_vars
  PROVE  \A k \in Orders : TimerInv(k)'
<1> SUFFICES ASSUME NEW k \in Orders
             PROVE  TimerInv(k)'
  OBVIOUS
<1>0. clock \in Nat /\ StateTtl \in Nat
  BY TimeAssumption DEF StateTypeOK
<1>1. ASSUME NEW o \in Orders, NEW s \in Inputs, RejectInvalid(o, s)
      PROVE  TimerInv(k)'
  BY <1>0, <1>1, TimerInvFrame DEF RejectInvalid
<1>2. ASSUME NEW o \in Orders, NEW s \in Inputs, IgnoreStale(o, s)
      PROVE  TimerInv(k)'
  BY <1>0, <1>2, TimerInvFrame DEF IgnoreStale, vars
<1>3. ASSUME NEW o \in Orders, NEW s \in Inputs, ApplyTerminal(o, s)
      PROVE  TimerInv(k)'
  <2>1. clock' = clock
    BY <1>3 DEF ApplyTerminal
  <2>2. CASE k # o
    BY <1>0, <1>3, <2>1, <2>2, TimerInvFrame
       DEF ApplyTerminal, Disarm, StateTypeOK
  <2>3. CASE k = o
    <3>1. /\ Current(o, s) \in OrderDelayStates
          /\ Current(o, s).currentStatus \in Terminal
      BY <1>3, CurrentType DEF ApplyTerminal, Accepts
    <3>2. /\ orderState'[k].currentStatus \in Terminal
          /\ orderState'[k].registeredTimerTime = Null
          /\ orderState'[k].lastAccess = clock
      BY <1>3, <2>3, <3>1
         DEF ApplyTerminal, Disarm, StateTypeOK, OrderDelayStates
    <3> QED
      BY <1>0, <2>1, <3>2 DEF TimerInv, Awaiting, Terminal, Active
  <2> QED
    BY <2>2, <2>3
<1>4. ASSUME NEW o \in Orders, NEW s \in Inputs, ApplyAfterSms(o, s)
      PROVE  TimerInv(k)'
  <2>1. clock' = clock /\ timers' = timers
    BY <1>4 DEF ApplyAfterSms
  <2>2. CASE k # o
    BY <1>0, <1>4, <2>1, <2>2, TimerInvFrame DEF ApplyAfterSms, StateTypeOK
  <2>3. CASE k = o
    <3>1. /\ Current(o, s).delaySmsEmitted
          /\ Live(o) /\ orderState[o].delaySmsEmitted
          /\ Current(o, s).registeredTimerTime
                = orderState[o].registeredTimerTime
      BY <1>4, CurrentType DEF ApplyAfterSms, Accepts
    <3>2. Current(o, s).registeredTimerTime = Null
      BY <2>3, <3>1 DEF TimerInv, Live
    <3>3. Current(o, s).lastAccess = clock
      BY DEF Current
    <3>4. orderState'[k] = Current(o, s)
      BY <1>4, <2>3 DEF ApplyAfterSms, StateTypeOK
    <3> QED
      BY <1>0, <2>1, <3>1, <3>2, <3>3, <3>4 DEF TimerInv, Awaiting
  <2> QED
    BY <2>2, <2>3
<1>5. ASSUME NEW o \in Orders, NEW s \in Inputs, EmitOverdue(o, s)
      PROVE  TimerInv(k)'
  <2>1. clock' = clock
    BY <1>5 DEF EmitOverdue
  <2>2. CASE k # o
    BY <1>0, <1>5, <2>1, <2>2, TimerInvFrame
       DEF EmitOverdue, EmitDelaySms, StateTypeOK
  <2>3. CASE k = o
    <3>1. Current(o, s) \in OrderDelayStates
      BY <1>5, CurrentType DEF EmitOverdue, Accepts
    <3> QED
      BY <1>5, <2>1, <2>3, <3>1, TimerInvEmit DEF EmitOverdue
  <2> QED
    BY <2>2, <2>3
<1>6. ASSUME NEW o \in Orders, NEW s \in Inputs, Schedule(o, s)
      PROVE  TimerInv(k)'
  <2>1. clock' = clock
    BY <1>6 DEF Schedule
  <2>2. CASE k # o
    BY <1>0, <1>6, <2>1, <2>2, TimerInvFrame
       DEF Schedule, RegisterOrUpdateTimer, StateTypeOK
  <2>3. CASE k = o
    <3> DEFINE st  == Current(o, s)
               eta == Current(o, s).expectedDeliveryTime
    <3>1. /\ st \in OrderDelayStates
          /\ eta = s.expectedDeliveryTime
          /\ eta \in Nat
          /\ st.currentStatus \in Active
          /\ ~st.delaySmsEmitted
          /\ ~(Live(o) /\ orderState[o].delaySmsEmitted)
          /\ st.registeredTimerTime
                = IF Live(o) THEN orderState[o].registeredTimerTime ELSE Null
      BY <1>6, CurrentType DEF Schedule, Accepts, OrderDelayStates
    <3>2. /\ orderState'[k].registeredTimerTime = eta
          /\ orderState'[k].expectedDeliveryTime = eta
          /\ orderState'[k].currentStatus \in Active
          /\ ~orderState'[k].delaySmsEmitted
      BY <1>6, <2>3, <3>1
         DEF Schedule, RegisterOrUpdateTimer, StateTypeOK, OrderDelayStates
    <3>3. st.lastAccess = clock
      BY DEF Current
    <3>4. orderState'[k].lastAccess = clock
      BY <1>6, <2>3, <3>1, <3>3
         DEF Schedule, RegisterOrUpdateTimer, StateTypeOK, OrderDelayStates
    <3>5. eta \in timers'[k]
      <4>1. CASE st.registeredTimerTime # eta
        BY <1>6, <2>3, <4>1 DEF Schedule, RegisterOrUpdateTimer, StateTypeOK
      <4>2. CASE st.registeredTimerTime = eta
        (* The early return: the timer the old state names is there,       *)
        (* because an order that has a timer on record is waiting for it.  *)
        <5>1. /\ Live(o)
              /\ orderState[o].registeredTimerTime = eta
              /\ orderState[o].registeredTimerTime # Null
          BY <3>1, <4>2, NullAssumption
        <5>2. Awaiting(o)
          BY <2>3, <3>1, <5>1
             DEF TimerInv, Live, Awaiting, StateTypeOK, OrderDelayStates, Status
        <5>3. eta \in timers[o]
          BY <2>3, <5>1, <5>2 DEF TimerInv
        <5> QED
          BY <1>6, <2>3, <4>2, <5>3 DEF Schedule, RegisterOrUpdateTimer
      <4> QED
        BY <4>1, <4>2
    <3> QED
      BY <1>0, <2>1, <3>2, <3>4, <3>5 DEF TimerInv, Terminal, Active
  <2> QED
    BY <2>2, <2>3
<1>7. ASSUME NEW o \in Orders, NEW t \in timers[o], TimerAlerts(o, t)
      PROVE  TimerInv(k)'
  <2>1. clock' = clock
    BY <1>7 DEF TimerAlerts
  <2>2. CASE k # o
    BY <1>0, <1>7, <2>1, <2>2, TimerInvFrame
       DEF TimerAlerts, EmitDelaySms, StateTypeOK
  <2>3. CASE k = o
    <3>1. orderState[o] \in OrderDelayStates
      BY <1>7 DEF TimerAlerts, ActsOnTimer, Live, StateTypeOK
    <3> QED
      BY <1>7, <2>1, <2>3, <3>1, TimerInvEmit DEF TimerAlerts
  <2> QED
    BY <2>2, <2>3
<1>8. ASSUME NEW o \in Orders, NEW t \in timers[o], TimerIsIdle(o, t)
      PROVE  TimerInv(k)'
  <2>1. clock' = clock /\ orderState' = orderState
    BY <1>8 DEF TimerIsIdle
  <2>2. CASE k # o
    BY <1>0, <1>8, <2>1, <2>2, TimerInvFrame DEF TimerIsIdle, StateTypeOK
  <2>3. CASE k = o
    (* A timer that finds nothing to do is not the one a waiting order is  *)
    (* armed with.                                                         *)
    <3>1. Awaiting(o) => orderState[o].expectedDeliveryTime # t
      <4>1. Awaiting(o) => orderState[o].expectedDeliveryTime \in Nat
        BY DEF Awaiting, Live, StateTypeOK, OrderDelayStates
      <4>2. t \in Nat
        BY DEF StateTypeOK
      <4> QED
        BY <1>8, <4>1, <4>2 DEF TimerIsIdle, ActsOnTimer, Awaiting
    <3>2. timers'[o] = timers[o] \ {t}
      BY <1>8 DEF TimerIsIdle, StateTypeOK
    <3>3. Awaiting(o)' => Awaiting(o)
      BY <2>1 DEF Awaiting, Live
    <3> QED
      BY <2>1, <2>3, <3>1, <3>2, <3>3 DEF TimerInv
  <2> QED
    BY <2>2, <2>3
<1>9. CASE Tick
  BY <1>0, <1>9, TimerInvFrame DEF Tick
<1>10. CASE UNCHANGED vars
  BY <1>0, <1>10, TimerInvFrame DEF vars
<1> QED
  BY <1>1, <1>2, <1>3, <1>4, <1>5, <1>6, <1>7, <1>8, <1>9, <1>10
     DEF Next, ProcessElement, OnTimer

(* The state and timers of every order agree, in every reachable state.    *)
THEOREM TimersAgree == Spec => [](\A k \in Orders : TimerInv(k))
<1>1. Init => \A k \in Orders : TimerInv(k)
  BY DEF Init, TimerInv, Awaiting, Live
<1>2. StateTypeOK /\ (\A k \in Orders : TimerInv(k)) /\ [Next]_vars
        => (\A k \in Orders : TimerInv(k))'
  BY TimerStep
<1> QED
  BY <1>1, <1>2, StateTyped, PTL DEF Spec

(* An order that waits for its ETA always has a timer registered for       *)
(* exactly that ETA, and its state names it.                               *)
THEOREM WaitingIsArmed == Spec => []AwaitingIsArmed
<1>1. (\A k \in Orders : TimerInv(k)) => AwaitingIsArmed
  BY DEF TimerInv, AwaitingIsArmed
<1> QED
  BY <1>1, TimersAgree, PTL

----------------------------------------------------------------------------
(* Commands *)

(* A command still counts: either a whole time-to-live has passed since it *)
(* was created, or its order's state, written no earlier, says alerted.    *)
Guarded(c) ==
    /\ c.createdAt <= clock
    /\ \/ c.createdAt + StateTtl <= clock
       \/ /\ orderState[c.orderId] # Null
          /\ orderState[c.orderId].delaySmsEmitted
          /\ c.createdAt <= orderState[c.orderId].lastAccess

CommandInv ==
    /\ NeverEarly
    /\ SmsSpacing
    /\ \A i \in 1..Len(commands) : Guarded(commands[i])

(* A step that emits nothing, lets time pass at most, and keeps the        *)
(* emitted flag of every live state it rewrites, preserves CommandInv.     *)
LEMMA QuietStep ==
  ASSUME StateTypeOK, StateTypeOK', CommandInv, commands' = commands, clock <= clock',
         \A o \in Orders :
             \/ orderState'[o] = orderState[o]
             \/ /\ orderState'[o] # Null
                /\ orderState'[o].lastAccess = clock
                /\ Live(o) /\ orderState[o].delaySmsEmitted
                      => orderState'[o].delaySmsEmitted
  PROVE  CommandInv'
<1>0. clock \in Nat /\ clock' \in Nat /\ StateTtl \in Nat
  BY TimeAssumption DEF StateTypeOK
<1>1. ASSUME NEW i \in 1..Len(commands)
      PROVE  Guarded(commands[i])'
  <2> DEFINE c == commands[i]
  <2>1. c \in SmsCommands /\ Guarded(c)
    BY <1>1, ElementOfSeq DEF CommandInv, StateTypeOK
  <2>2. c.orderId \in Orders /\ c.createdAt \in Nat
    BY <2>1 DEF SmsCommands
  <2>3. CASE c.createdAt + StateTtl <= clock
    BY <1>0, <2>2, <2>3 DEF Guarded
  <2>4. CASE ~(c.createdAt + StateTtl <= clock)
    <3>1. /\ orderState[c.orderId] # Null
          /\ orderState[c.orderId].delaySmsEmitted
          /\ c.createdAt <= orderState[c.orderId].lastAccess
          /\ c.createdAt <= clock
      BY <2>1, <2>4 DEF Guarded
    <3>2. orderState[c.orderId].lastAccess \in Nat
      BY <2>2, <3>1 DEF StateTypeOK, OrderDelayStates
    <3>3. Live(c.orderId)
      BY <1>0, <2>2, <2>4, <3>1, <3>2 DEF Live
    <3> QED
      BY <1>0, <2>2, <3>1, <3>2, <3>3 DEF Guarded
  <2> QED
    BY <2>3, <2>4
<1> QED
  BY <1>1 DEF CommandInv, NeverEarly, SmsSpacing

(* emitDelaySms for an order that is due and not marked as alerted         *)
(* preserves CommandInv.                                                   *)
LEMMA EmitStep ==
  ASSUME StateTypeOK, CommandInv, NEW o \in Orders, NEW st \in OrderDelayStates,
         ~(Live(o) /\ orderState[o].delaySmsEmitted),
         st.expectedDeliveryTime <= clock,
         EmitDelaySms(o, st), clock' = clock
  PROVE  CommandInv'
<1> DEFINE n   == Len(commands)
           new == DelaySms(o, st)
<1>0. clock \in Nat /\ StateTtl \in Nat /\ n \in Nat
  BY TimeAssumption, LenProperties DEF StateTypeOK
<1>1. /\ new \in SmsCommands
      /\ new.orderId = o
      /\ new.createdAt = clock
      /\ new.expectedDeliveryTime = st.expectedDeliveryTime
  BY <1>0, DelaySmsType DEF DelaySms
<1>2. /\ Len(commands') = n + 1
      /\ commands'[n + 1] = new
      /\ \A i \in 1..n : commands'[i] = commands[i]
  BY <1>1, AppendProperties DEF EmitDelaySms, StateTypeOK
<1>3. \A i \in 1..Len(commands') : i \in 1..n \/ i = n + 1
  BY <1>0, <1>2
<1>4. \A i \in 1..n : commands[i] \in SmsCommands
  BY ElementOfSeq DEF StateTypeOK
<1>5. NeverEarly'
  BY <1>1, <1>2, <1>3 DEF CommandInv, NeverEarly
(* An earlier command of this order has outlived its guard. *)
<1>6. ASSUME NEW i \in 1..n, commands[i].orderId = o
      PROVE  commands[i].createdAt + StateTtl <= clock
  <2>1. Guarded(commands[i]) /\ commands[i].createdAt \in Nat
    BY <1>4 DEF CommandInv, SmsCommands
  <2>2. orderState[o] # Null => orderState[o].lastAccess \in Nat
    BY DEF StateTypeOK, OrderDelayStates
  <2> QED
    BY <1>0, <1>6, <2>1, <2>2 DEF Guarded, Live
<1>7. SmsSpacing'
  <2> SUFFICES ASSUME NEW i \in 1..(n + 1), NEW j \in 1..(n + 1), i < j,
                      commands'[i].orderId = commands'[j].orderId
               PROVE  commands'[j].createdAt
                         >= commands'[i].createdAt + StateTtl
    BY <1>2 DEF SmsSpacing
  <2>1. i \in 1..n
    BY <1>0
  <2>2. CASE j \in 1..n
    BY <1>2, <2>1, <2>2 DEF CommandInv, SmsSpacing
  <2>3. CASE j = n + 1
    <3>1. commands[i].createdAt + StateTtl <= clock
      BY <1>1, <1>2, <1>6, <2>1, <2>3
    <3>2. commands[i].createdAt \in Nat
      BY <1>4, <2>1 DEF SmsCommands
    <3> QED
      BY <1>0, <1>1, <1>2, <2>1, <2>3, <3>1, <3>2
  <2> QED
    BY <1>0, <2>2, <2>3
<1>8. orderState' = [orderState EXCEPT ![o] = Alerted(st)]
  BY DEF EmitDelaySms
<1>9. ASSUME NEW i \in 1..(n + 1)
      PROVE  Guarded(commands[i])'
  <2>1. CASE i = n + 1
    <3>1. orderState'[o] = Alerted(st) /\ Alerted(st) # Null
      BY <1>0, <1>8, AlertedType, NullAssumption DEF StateTypeOK
    <3>2. /\ Alerted(st).delaySmsEmitted
          /\ Alerted(st).lastAccess = clock
      BY <1>0, AlertedType
    <3> QED
      BY <1>0, <1>1, <1>2, <2>1, <3>1, <3>2 DEF Guarded
  <2>2. CASE i \in 1..n /\ commands[i].orderId = o
    <3>1. commands[i].createdAt + StateTtl <= clock
      BY <1>6, <2>2
    <3>2. commands[i].createdAt <= clock
      BY <2>2 DEF CommandInv, Guarded
    <3> QED
      BY <1>2, <2>2, <3>1, <3>2 DEF Guarded
  <2>3. CASE i \in 1..n /\ commands[i].orderId # o
    <3>1. Guarded(commands[i]) /\ commands[i].orderId \in Orders
      BY <1>4, <2>3 DEF CommandInv, SmsCommands
    <3>2. orderState'[commands[i].orderId] = orderState[commands[i].orderId]
      BY <1>8, <2>3, <3>1 DEF StateTypeOK
    <3> QED
      BY <1>2, <2>3, <3>1, <3>2 DEF Guarded
  <2> QED
    BY <1>0, <2>1, <2>2, <2>3
<1> QED
  BY <1>2, <1>5, <1>7, <1>9 DEF CommandInv

(* Every step preserves CommandInv. *)
LEMMA CommandStep ==
  ASSUME StateTypeOK, StateTypeOK', CommandInv, [Next]_vars
  PROVE  CommandInv'
<1>0. clock \in Nat
  BY TimeAssumption DEF StateTypeOK
<1>1. ASSUME NEW o \in Orders, NEW s \in Inputs, RejectInvalid(o, s)
      PROVE  CommandInv'
  BY <1>0, <1>1, QuietStep DEF RejectInvalid
<1>2. ASSUME NEW o \in Orders, NEW s \in Inputs, IgnoreStale(o, s)
      PROVE  CommandInv'
  BY <1>0, <1>2, QuietStep DEF IgnoreStale, vars
<1>3. ASSUME NEW o \in Orders, NEW s \in Inputs, ApplyTerminal(o, s)
      PROVE  CommandInv'
  <2>1. /\ Current(o, s) \in OrderDelayStates
        /\ Current(o, s).delaySmsEmitted
              = (Live(o) /\ orderState[o].delaySmsEmitted)
    BY <1>3, CurrentType DEF ApplyTerminal, Accepts
  <2>2. /\ orderState'[o] # Null
        /\ orderState'[o].lastAccess = clock
        /\ orderState'[o].delaySmsEmitted = Current(o, s).delaySmsEmitted
    <3> DEFINE st == [Current(o, s) EXCEPT !.registeredTimerTime = Null,
                                           !.lastAccess = clock]
    <3>1. st \in OrderDelayStates /\ st.lastAccess = clock
          /\ st.delaySmsEmitted = Current(o, s).delaySmsEmitted
      BY <1>0, <2>1 DEF OrderDelayStates
    <3>2. orderState'[o] = st
      BY <1>3 DEF ApplyTerminal, Disarm, StateTypeOK
    <3> QED
      BY <3>1, <3>2, NullAssumption
  <2>3. \A k \in Orders : k # o => orderState'[k] = orderState[k]
    BY <1>3 DEF ApplyTerminal, Disarm, StateTypeOK
  <2>4. \A k \in Orders :
           \/ orderState'[k] = orderState[k]
           \/ /\ orderState'[k] # Null
              /\ orderState'[k].lastAccess = clock
              /\ Live(k) /\ orderState[k].delaySmsEmitted
                    => orderState'[k].delaySmsEmitted
    BY <2>1, <2>2, <2>3
  <2>5. commands' = commands /\ clock' = clock
    BY <1>3 DEF ApplyTerminal
  <2> QED
    BY <1>0, <2>4, <2>5, QuietStep
<1>4. ASSUME NEW o \in Orders, NEW s \in Inputs, ApplyAfterSms(o, s)
      PROVE  CommandInv'
  <2>1. /\ Current(o, s) \in OrderDelayStates
        /\ Current(o, s).delaySmsEmitted
      BY <1>4, CurrentType DEF ApplyAfterSms, Accepts
  <2>2. Current(o, s).lastAccess = clock
    BY DEF Current
  <2>3. \A k \in Orders : orderState'[k] = IF k = o THEN Current(o, s)
                                                  ELSE orderState[k]
    BY <1>4 DEF ApplyAfterSms, StateTypeOK
  <2> QED
    BY <1>0, <1>4, <2>1, <2>2, <2>3, NullAssumption, QuietStep
       DEF ApplyAfterSms
<1>5. ASSUME NEW o \in Orders, NEW s \in Inputs, EmitOverdue(o, s)
      PROVE  CommandInv'
  <2>1. /\ Current(o, s) \in OrderDelayStates
        /\ Current(o, s).expectedDeliveryTime <= clock
        /\ ~(Live(o) /\ orderState[o].delaySmsEmitted)
    BY <1>5, CurrentType DEF EmitOverdue, Accepts, IsOverdue
  <2> QED
    BY <1>5, <2>1, EmitStep DEF EmitOverdue
<1>6. ASSUME NEW o \in Orders, NEW s \in Inputs, Schedule(o, s)
      PROVE  CommandInv'
  <2> DEFINE st == [Current(o, s) EXCEPT
                !.registeredTimerTime = Current(o, s).expectedDeliveryTime]
  <2>1. /\ Current(o, s) \in OrderDelayStates
        /\ ~(Live(o) /\ orderState[o].delaySmsEmitted)
    BY <1>6, CurrentType DEF Schedule, Accepts
  <2>2. Current(o, s).lastAccess = clock
    BY DEF Current
  <2>3. st \in OrderDelayStates /\ st.lastAccess = clock
    BY <2>1, <2>2 DEF OrderDelayStates
  <2>4. \A k \in Orders : orderState'[k] = IF k = o THEN st
                                                  ELSE orderState[k]
    BY <1>6 DEF Schedule, RegisterOrUpdateTimer, StateTypeOK
  <2>5. \A k \in Orders :
           \/ orderState'[k] = orderState[k]
           \/ /\ orderState'[k] # Null
              /\ orderState'[k].lastAccess = clock
              /\ Live(k) /\ orderState[k].delaySmsEmitted
                    => orderState'[k].delaySmsEmitted
    <3> HIDE DEF st
    <3> QED
      BY <2>1, <2>3, <2>4, NullAssumption
  <2>6. commands' = commands /\ clock' = clock
    BY <1>6 DEF Schedule
  <2> QED
    BY <1>0, <2>5, <2>6, QuietStep
<1>7. ASSUME NEW o \in Orders, NEW t \in timers[o], TimerAlerts(o, t)
      PROVE  CommandInv'
  <2>1. /\ orderState[o] \in OrderDelayStates
        /\ ~orderState[o].delaySmsEmitted
        /\ orderState[o].expectedDeliveryTime <= t
        /\ t <= clock /\ t \in Nat
    BY <1>7 DEF TimerAlerts, ActsOnTimer, IsNextTimer, Live, StateTypeOK
  <2>2. orderState[o].expectedDeliveryTime <= clock
    BY <1>0, <2>1 DEF OrderDelayStates
  <2> QED
    BY <1>7, <2>1, <2>2, EmitStep DEF TimerAlerts
<1>8. ASSUME NEW o \in Orders, NEW t \in timers[o], TimerIsIdle(o, t)
      PROVE  CommandInv'
  BY <1>0, <1>8, QuietStep DEF TimerIsIdle
<1>9. CASE Tick
  BY <1>0, <1>9, QuietStep DEF Tick
<1>10. CASE UNCHANGED vars
  BY <1>0, <1>10, QuietStep DEF vars
<1> QED
  BY <1>1, <1>2, <1>3, <1>4, <1>5, <1>6, <1>7, <1>8, <1>9, <1>10
     DEF Next, ProcessElement, OnTimer

(* In every reachable state the commands are timely, spaced and guarded.   *)
THEOREM CommandsGuarded == Spec => []CommandInv
<1>1. Init => CommandInv
  BY DEF Init, CommandInv, NeverEarly, SmsSpacing
<1>2. StateTypeOK /\ StateTypeOK' /\ CommandInv /\ [Next]_vars => CommandInv'
  BY CommandStep
<1> QED
  BY <1>1, <1>2, StateTyped, PTL DEF Spec

(* No SMS command is created before the ETA it carries.                    *)
THEOREM NoSmsIsEarly == Spec => []NeverEarly
<1>1. CommandInv => NeverEarly
  BY DEF CommandInv
<1> QED
  BY <1>1, CommandsGuarded, PTL

(* Two commands for one order are at least a time-to-live apart.           *)
THEOREM SmsAreSpaced == Spec => []SmsSpacing
<1>1. CommandInv => SmsSpacing
  BY DEF CommandInv
<1> QED
  BY <1>1, CommandsGuarded, PTL

(* With a time-to-live longer than the whole run, an order gets at most    *)
(* one SMS: the promise of ADR-0002 and the exact condition it needs.      *)
THEOREM OneSmsWithoutExpiry ==
  ASSUME StateTtl > MaxTime
  PROVE  Spec => []AtMostOneSms
<1>1. StateTypeOK /\ CommandInv => AtMostOneSms
  <2> SUFFICES ASSUME StateTypeOK, CommandInv,
                      NEW i \in 1..Len(commands), NEW j \in 1..Len(commands),
                      commands[i].orderId = commands[j].orderId
               PROVE  i = j
    BY DEF AtMostOneSms
  <2>1. \A n \in 1..Len(commands) : /\ commands[n].createdAt \in Nat
                                     /\ commands[n].createdAt <= clock
    <3>1. \A n \in 1..Len(commands) : commands[n] \in SmsCommands
      BY ElementOfSeq DEF StateTypeOK
    <3> QED
      BY <3>1 DEF SmsCommands, CommandInv, Guarded
  <2>2. clock \in Nat /\ clock <= MaxTime /\ StateTtl \in Nat
        /\ MaxTime \in Nat
    BY TimeAssumption DEF StateTypeOK
  <2>3. ~(i < j)
    BY <2>1, <2>2 DEF CommandInv, SmsSpacing
  <2>4. ~(j < i)
    BY <2>1, <2>2 DEF CommandInv, SmsSpacing
  <2> QED
    BY <2>3, <2>4
<1> QED
  BY <1>1, StateTyped, CommandsGuarded, PTL

----------------------------------------------------------------------------
(* Leaked timers *)

(* Within the time-to-live every stored state is visible.                  *)
LEMMA StoredIsLive ==
  ASSUME StateTtl > MaxTime, StateTypeOK, NEW k \in Orders, orderState[k] # Null
  PROVE  Live(k)
<1>1. orderState[k].lastAccess \in Nat
  BY DEF StateTypeOK, OrderDelayStates
<1> QED
  BY <1>1, TimeAssumption DEF StateTypeOK, Live

(* Within the time-to-live no step leaves a timer that the state does not  *)
(* name.                                                                   *)
LEMMA LeakStep ==
  ASSUME StateTtl > MaxTime, StateTypeOK, StateTypeOK', NoLeakedTimer, [Next]_vars
  PROVE  NoLeakedTimer'
<1> SUFFICES ASSUME NEW k \in Orders, NEW u \in timers'[k]
             PROVE  orderState'[k] # Null
                    /\ orderState'[k].registeredTimerTime = u
  BY DEF NoLeakedTimer
<1>0. clock \in Nat
  BY TimeAssumption DEF StateTypeOK
<1>1. ASSUME u \in timers[k], orderState'[k] = orderState[k]
      PROVE  orderState'[k] # Null
             /\ orderState'[k].registeredTimerTime = u
  BY <1>1 DEF NoLeakedTimer
(* Reading a stored state finds its timer. *)
<1>2. ASSUME NEW s \in Inputs, IsValid(s), NEW t \in timers[k]
      PROVE  Current(k, s).registeredTimerTime = t
  <2>1. orderState[k] # Null /\ orderState[k].registeredTimerTime = t
    BY <1>2 DEF NoLeakedTimer
  <2> QED
    BY <1>2, <2>1, CurrentType, StoredIsLive
<1>3. ASSUME NEW o \in Orders, NEW s \in Inputs, ProcessElement(o, s)
      PROVE  orderState'[k] # Null
             /\ orderState'[k].registeredTimerTime = u
  <2>1. CASE RejectInvalid(o, s) \/ IgnoreStale(o, s)
    BY <1>1, <2>1 DEF RejectInvalid, IgnoreStale, vars
  <2>2. CASE ApplyTerminal(o, s)
    <3>1. timers'[k] = IF k = o
                       THEN timers[k] \ {Current(o, s).registeredTimerTime}
                       ELSE timers[k]
      BY <2>2 DEF ApplyTerminal, Disarm, StateTypeOK
    <3>2. k # o
      BY <1>2, <2>2, <3>1 DEF ApplyTerminal, Accepts
    <3>3. orderState'[k] = orderState[k]
      BY <2>2, <3>2 DEF ApplyTerminal, Disarm, StateTypeOK
    <3> QED
      BY <1>1, <3>1, <3>2, <3>3
  <2>3. CASE ApplyAfterSms(o, s)
    <3>1. u \in timers[k]
      BY <2>3 DEF ApplyAfterSms
    <3>2. orderState'[k] = IF k = o THEN Current(o, s) ELSE orderState[k]
      BY <2>3 DEF ApplyAfterSms, StateTypeOK
    <3>3. Current(o, s) # Null
      BY <2>3, CurrentType, NullAssumption DEF ApplyAfterSms, Accepts
    <3> QED
      BY <1>1, <1>2, <2>3, <3>1, <3>2, <3>3 DEF ApplyAfterSms, Accepts
  <2>4. CASE EmitOverdue(o, s)
    <3>1. timers'[k] = IF k = o
                       THEN timers[k] \ {Current(o, s).registeredTimerTime}
                       ELSE timers[k]
      BY <2>4 DEF EmitOverdue, StateTypeOK
    <3>2. k # o
      BY <1>2, <2>4, <3>1 DEF EmitOverdue, Accepts
    <3>3. orderState'[k] = orderState[k]
      BY <2>4, <3>2 DEF EmitOverdue, EmitDelaySms, StateTypeOK
    <3> QED
      BY <1>1, <3>1, <3>2, <3>3
  <2>5. CASE Schedule(o, s)
    <3> DEFINE eta == Current(o, s).expectedDeliveryTime
    <3>1. Current(o, s) \in OrderDelayStates
      BY <2>5, CurrentType DEF Schedule, Accepts
    <3>2. CASE k # o
      BY <1>1, <2>5, <3>2 DEF Schedule, RegisterOrUpdateTimer, StateTypeOK
    <3>3. CASE k = o
      <4>1. /\ orderState'[k] # Null
            /\ orderState'[k].registeredTimerTime = eta
        <5> DEFINE st == [Current(o, s) EXCEPT !.registeredTimerTime = eta]
        <5>1. st \in OrderDelayStates /\ st.registeredTimerTime = eta
          BY <3>1 DEF OrderDelayStates
        <5>2. orderState'[k] = st
          BY <2>5, <3>3 DEF Schedule, RegisterOrUpdateTimer, StateTypeOK
        <5> QED
          BY <5>1, <5>2, NullAssumption
      <4>2. \/ u = eta
            \/ u \in timers[k] /\ u # Current(o, s).registeredTimerTime
            \/ u \in timers[k] /\ Current(o, s).registeredTimerTime = eta
        BY <2>5, <3>3 DEF Schedule, RegisterOrUpdateTimer, StateTypeOK
      <4>3. u \in timers[k] => Current(o, s).registeredTimerTime = u
        BY <1>2, <2>5, <3>3 DEF Schedule, Accepts
      <4> QED
        BY <4>1, <4>2, <4>3
    <3> QED
      BY <3>2, <3>3
  <2> QED
    BY <1>3, <2>1, <2>2, <2>3, <2>4, <2>5 DEF ProcessElement
<1>4. ASSUME NEW o \in Orders, OnTimer(o)
      PROVE  orderState'[k] # Null
             /\ orderState'[k].registeredTimerTime = u
  <2> PICK t \in timers[o] : TimerAlerts(o, t) \/ TimerIsIdle(o, t)
    BY <1>4 DEF OnTimer
  <2>1. timers'[k] = IF k = o THEN timers[k] \ {t} ELSE timers[k]
    BY DEF TimerAlerts, TimerIsIdle, StateTypeOK
  <2>2. k # o
    BY <2>1 DEF NoLeakedTimer
  <2>3. orderState'[k] = orderState[k]
    BY <2>2 DEF TimerAlerts, TimerIsIdle, EmitDelaySms, StateTypeOK
  <2> QED
    BY <1>1, <2>1, <2>2, <2>3
<1>5. CASE Tick
  BY <1>1, <1>5 DEF Tick
<1>6. CASE UNCHANGED vars
  BY <1>1, <1>6 DEF vars
<1> QED
  BY <1>3, <1>4, <1>5, <1>6 DEF Next

(* As long as no state expires, an order has no timer but the one its      *)
(* state names.                                                            *)
THEOREM NoTimerLeaks ==
  ASSUME StateTtl > MaxTime
  PROVE  Spec => []NoLeakedTimer
<1>1. Init => NoLeakedTimer
  BY DEF Init, NoLeakedTimer
<1>2. StateTypeOK /\ StateTypeOK' /\ NoLeakedTimer /\ [Next]_vars => NoLeakedTimer'
  BY LeakStep
<1> QED
  BY <1>1, <1>2, StateTyped, PTL DEF Spec

============================================================================
