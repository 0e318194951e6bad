-------------------- MODULE DelayedOrderProcessFunction --------------------
(***************************************************************************)
(* The keyed operator that detects delayed orders                          *)
(* (processor/DelayedOrderProcessFunction.java and the model classes it    *)
(* works on).  For every order it keeps one state record with a            *)
(* time-to-live and a set of processing-time timers; it is driven by the   *)
(* snapshots of the Orders topic and by its own timers and emits SMS       *)
(* commands and dead letters.                                              *)
(*                                                                         *)
(* A key is always present here: a snapshot without an order id fails in   *)
(* keyBy, before the operator (see DelayedOrderSmsJob).  Metric counters   *)
(* are left out, storeId is treated by the code exactly as customerId.     *)
(***************************************************************************)
EXTENDS Integers, Sequences

CONSTANTS
    Orders,     \* the order ids (keys)
    Customers,  \* the customer ids
    Inputs,     \* the snapshots the topic may carry
    StateTtl,   \* the state's time-to-live, in clock units
    MaxTime,    \* bound: the clock stops there
    Null

Terminal == {"DELIVERED", "CANCELLED"}
Active   == {"CREATED", "ACCEPTED", "PICKED_UP"}
Status   == Active \cup Terminal

(* OrderState: a deserialized snapshot.  Every field may be missing.       *)
OrderStates ==
    [status               : Status \cup {Null},
     expectedDeliveryTime : Nat \cup {Null},
     lastUpdatedAt        : Nat \cup {Null},
     customerId           : Customers \cup {Null}]

(* OrderDelayState, with lastAccess: the timestamp the state backend       *)
(* stores beside a value that has a time-to-live.                          *)
OrderDelayStates ==
    [currentStatus        : Status,
     expectedDeliveryTime : Nat,
     lastUpdatedAt        : Nat,
     customerId           : Customers \cup {Null},
     delaySmsEmitted      : BOOLEAN,
     registeredTimerTime  : Nat \cup {Null},
     lastAccess           : Nat]

SmsCommands ==
    [orderId              : Orders,
     customerId           : Customers \cup {Null},
     expectedDeliveryTime : Nat,
     createdAt            : Nat]

DeadLetters == [orderId : Orders, status : Status \cup {Null}]

(* What a state record says of its order, with the time of its last access. *)
Views ==
    [status               : Status,
     expectedDeliveryTime : Nat,
     lastUpdatedAt        : Nat,
     customerId           : Customers \cup {Null},
     alerted              : BOOLEAN,
     since                : Nat]

ASSUME InputsAssumption == Inputs \subseteq OrderStates
ASSUME TimeAssumption   == StateTtl \in Nat \ {0} /\ MaxTime \in Nat
ASSUME NullAssumption   == /\ Null \notin Nat
                           /\ Null \notin Status
                           /\ Null \notin OrderDelayStates
                           /\ Null \notin Views

VARIABLES
    clock,       \* processing time, also the clock of the time-to-live
    orderState,  \* order -> its stored state, or Null
    timers,      \* order -> the processing-time timers registered for it
    commands,    \* the SMS commands collected, in order
    deadLetters  \* the invalid snapshots sent to the side output

vars == <<clock, orderState, timers, commands, deadLetters>>

Init ==
    /\ clock = 0
    /\ orderState = [o \in Orders |-> Null]
    /\ timers = [o \in Orders |-> {}]
    /\ commands = <<>>
    /\ deadLetters = {}

----------------------------------------------------------------------------
(* The operator's helpers.  A definition named Faulty... is not used by    *)
(* the specification: it is the definition after it with a slip a          *)
(* programmer could make, and shows that some property notices it.         *)

(* orderState.value() # null: NeverReturnExpired hides a value from the    *)
(* moment its time-to-live is over.                                        *)
FaultyLive(o) == orderState[o] # Null
Live(o) == /\ orderState[o] # Null
           /\ orderState[o].lastAccess + StateTtl > clock

FaultyIsValid(s) == s.status # Null /\ s.expectedDeliveryTime # Null
IsValid(s) == /\ s.status # Null
              /\ s.expectedDeliveryTime # Null
              /\ s.lastUpdatedAt # Null

FaultyIsStaleUpdate(o, s) == FALSE
IsStaleUpdate(o, s) ==
    Live(o) /\ s.lastUpdatedAt < orderState[o].lastUpdatedAt

Accepts(o, s) == IsValid(s) /\ ~IsStaleUpdate(o, s)

FaultyIsOverdue(s) == s.expectedDeliveryTime <= clock + 1
IsOverdue(s) == s.expectedDeliveryTime <= clock

(* fromOrderState when there is no value, else updateFrom, which keeps the *)
(* emitted flag and the registered timer.                                  *)
FaultyCurrent(o, s) ==
    [currentStatus        |-> s.status,
     expectedDeliveryTime |-> s.expectedDeliveryTime,
     lastUpdatedAt        |-> s.lastUpdatedAt,
     customerId           |-> s.customerId,
     delaySmsEmitted      |-> FALSE,
     registeredTimerTime  |-> IF Live(o) THEN orderState[o].registeredTimerTime
                                         ELSE Null,
     lastAccess           |-> clock]
Current(o, s) ==
    [currentStatus        |-> s.status,
     expectedDeliveryTime |-> s.expectedDeliveryTime,
     lastUpdatedAt        |-> s.lastUpdatedAt,
     customerId           |-> s.customerId,
     delaySmsEmitted      |-> Live(o) /\ orderState[o].delaySmsEmitted,
     registeredTimerTime  |-> IF Live(o) THEN orderState[o].registeredTimerTime
                                         ELSE Null,
     lastAccess           |-> clock]

(* deleteRegisteredTimer and the update that follows it: the timer the     *)
(* state names, if any, is deleted and forgotten.                          *)
FaultyDisarm(o, st) ==
    /\ timers' = timers
    /\ orderState' = [orderState EXCEPT ![o] =
                        [st EXCEPT !.registeredTimerTime = Null,
                                   !.lastAccess = clock]]
Disarm(o, st) ==
    /\ timers' = [timers EXCEPT ![o] = @ \ {st.registeredTimerTime}]
    /\ orderState' = [orderState EXCEPT ![o] =
                        [st EXCEPT !.registeredTimerTime = Null,
                                   !.lastAccess = clock]]

(* registerOrUpdateTimer and the update that follows it.  Timers are       *)
(* deduplicated by timestamp.                                              *)
FaultyRegisterOrUpdateTimer(o, st) ==
    /\ timers' = IF st.registeredTimerTime # Null
                 THEN timers
                 ELSE [timers EXCEPT ![o] = @ \cup {st.expectedDeliveryTime}]
    /\ orderState' = [orderState EXCEPT ![o] =
          [st EXCEPT !.registeredTimerTime = st.expectedDeliveryTime]]
RegisterOrUpdateTimer(o, st) ==
    /\ timers' = IF st.registeredTimerTime = st.expectedDeliveryTime
                 THEN timers
                 ELSE [timers EXCEPT ![o] = (@ \ {st.registeredTimerTime})
                                              \cup {st.expectedDeliveryTime}]
    /\ orderState' = [orderState EXCEPT ![o] =
          [st EXCEPT !.registeredTimerTime = st.expectedDeliveryTime]]

DelaySms(o, st) == [orderId              |-> o,
                    customerId           |-> st.customerId,
                    expectedDeliveryTime |-> st.expectedDeliveryTime,
                    createdAt            |-> clock]

(* The state emitDelaySms leaves behind. *)
FaultyAlerted(st) == [st EXCEPT !.registeredTimerTime = Null,
                                !.lastAccess = clock]
Alerted(st) == [st EXCEPT !.delaySmsEmitted = TRUE,
                          !.registeredTimerTime = Null,
                          !.lastAccess = clock]

EmitDelaySms(o, st) ==
    /\ commands' = Append(commands, DelaySms(o, st))
    /\ orderState' = [orderState EXCEPT ![o] = Alerted(st)]

----------------------------------------------------------------------------
(* processElement: one action per way through the method. *)

RejectInvalid(o, s) ==
    /\ ~IsValid(s)
    /\ deadLetters' = deadLetters \cup {[orderId |-> o, status |-> s.status]}
    /\ UNCHANGED <<clock, orderState, timers, commands>>

IgnoreStale(o, s) ==
    /\ IsValid(s)
    /\ IsStaleUpdate(o, s)
    /\ UNCHANGED vars

ApplyTerminal(o, s) ==
    /\ Accepts(o, s)
    /\ s.status \in Terminal
    /\ Disarm(o, Current(o, s))
    /\ UNCHANGED <<clock, commands, deadLetters>>

ApplyAfterSms(o, s) ==
    /\ Accepts(o, s)
    /\ s.status \in Active
    /\ Current(o, s).delaySmsEmitted
    /\ orderState' = [orderState EXCEPT ![o] = Current(o, s)]
    /\ UNCHANGED <<clock, timers, commands, deadLetters>>

EmitOverdue(o, s) ==
    /\ Accepts(o, s)
    /\ s.status \in Active
    /\ ~Current(o, s).delaySmsEmitted
    /\ IsOverdue(s)
    /\ timers' = [timers EXCEPT ![o] = @ \ {Current(o, s).registeredTimerTime}]
    /\ EmitDelaySms(o, Current(o, s))
    /\ UNCHANGED <<clock, deadLetters>>

Schedule(o, s) ==
    /\ Accepts(o, s)
    /\ s.status \in Active
    /\ ~Current(o, s).delaySmsEmitted
    /\ ~IsOverdue(s)
    /\ RegisterOrUpdateTimer(o, Current(o, s))
    /\ UNCHANGED <<clock, commands, deadLetters>>

ProcessElement(o, s) ==
    \/ RejectInvalid(o, s)
    \/ IgnoreStale(o, s)
    \/ ApplyTerminal(o, s)
    \/ ApplyAfterSms(o, s)
    \/ EmitOverdue(o, s)
    \/ Schedule(o, s)

----------------------------------------------------------------------------
(* onTimer.  The timer service polls the earliest due timer and calls the  *)
(* operator with its timestamp; elements may be processed between the due  *)
(* time and the call.                                                      *)

IsNextTimer(o, t) ==
    t \in timers[o] /\ t <= clock /\ \A u \in timers[o] : t <= u

FaultyActsOnTimer(o, t) ==
    /\ Live(o)
    /\ orderState[o].currentStatus \in Active
    /\ ~orderState[o].delaySmsEmitted
ActsOnTimer(o, t) ==
    /\ Live(o)
    /\ orderState[o].currentStatus \in Active
    /\ ~orderState[o].delaySmsEmitted
    /\ t >= orderState[o].expectedDeliveryTime

TimerAlerts(o, t) ==
    /\ IsNextTimer(o, t)
    /\ ActsOnTimer(o, t)
    /\ timers' = [timers EXCEPT ![o] = @ \ {t}]
    /\ EmitDelaySms(o, orderState[o])
    /\ UNCHANGED <<clock, deadLetters>>

TimerIsIdle(o, t) ==
    /\ IsNextTimer(o, t)
    /\ ~ActsOnTimer(o, t)
    /\ timers' = [timers EXCEPT ![o] = @ \ {t}]
    /\ UNCHANGED <<clock, orderState, commands, deadLetters>>

OnTimer(o) ==
    \E t \in timers[o] : TimerAlerts(o, t) \/ TimerIsIdle(o, t)

(* Time passes.  Expiry has no step of its own: see Live. *)
Tick ==
    /\ clock < MaxTime
    /\ clock' = clock + 1
    /\ UNCHANGED <<orderState, timers, commands, deadLetters>>

Next ==
    \/ \E o \in Orders, s \in Inputs : ProcessElement(o, s)
    \/ \E o \in Orders : OnTimer(o)
    \/ Tick

(* The timer service fires what is due and time goes on; nothing obliges   *)
(* the topic to carry another snapshot.                                    *)
Fairness == WF_vars(Tick) /\ \A o \in Orders : WF_vars(OnTimer(o))

Spec     == Init /\ [][Next]_vars
FairSpec == Spec /\ Fairness

----------------------------------------------------------------------------
(* Properties *)

StateTypeOK ==
    /\ clock \in 0..MaxTime
    /\ orderState \in [Orders -> OrderDelayStates \cup {Null}]
    /\ timers \in [Orders -> SUBSET Nat]
    /\ commands \in Seq(SmsCommands)

TypeOK == StateTypeOK /\ deadLetters \subseteq DeadLetters

(* The order is known, still under way, and no SMS was sent for it. *)
Awaiting(o) ==
    /\ Live(o)
    /\ orderState[o].currentStatus \in Active
    /\ ~orderState[o].delaySmsEmitted

(* Whatever sequence of schedules, cancellations, ETA changes, expiries    *)
(* and firings came before, an order that waits for its ETA has a timer    *)
(* registered for exactly that ETA, and its state names that timer: the    *)
(* early return of registerOrUpdateTimer never leaves it without one.      *)
AwaitingIsArmed ==
    \A o \in Orders :
        Awaiting(o) =>
            /\ orderState[o].registeredTimerTime
                   = orderState[o].expectedDeliveryTime
            /\ orderState[o].expectedDeliveryTime \in timers[o]

(* No SMS command is created before the ETA it carries, not even by a      *)
(* timer that an expired state left behind (emitDelaySms is reached only   *)
(* through the two ETA comparisons).                                       *)
NeverEarly ==
    \A i \in 1..Len(commands) :
        commands[i].createdAt >= commands[i].expectedDeliveryTime

(* Two commands for one order are at least a time-to-live apart: the       *)
(* delaySmsEmitted flag guards the order for as long as the state backend  *)
(* keeps it, and every accepted snapshot renews it.                        *)
SmsSpacing ==
    \A i, j \in 1..Len(commands) :
        i < j /\ commands[i].orderId = commands[j].orderId =>
            commands[j].createdAt >= commands[i].createdAt + StateTtl

(* One SMS per order, as ADR-0002 and the README promise.  It holds as     *)
(* long as no state expires.                                               *)
AtMostOneSms ==
    \A i, j \in 1..Len(commands) :
        commands[i].orderId = commands[j].orderId => i = j

(* As long as no state expires, the only timer an order has is the one its *)
(* state names: updates and terminal snapshots leave no timer behind.      *)
NoLeakedTimer ==
    \A o \in Orders : \A t \in timers[o] :
        orderState[o] # Null /\ orderState[o].registeredTimerTime = t

(* An order that waits for its ETA is eventually alerted or closed, if its *)
(* state does not expire first: no update leaves it waiting for ever.      *)
AwaitingIsSettled ==
    \A o \in Orders :
        Awaiting(o) ~> /\ orderState[o] # Null
                       /\ \/ orderState[o].delaySmsEmitted
                          \/ orderState[o].currentStatus \in Terminal

(* What the operator knows of an order, without timers. *)
View(st) ==
    [status               |-> st.currentStatus,
     expectedDeliveryTime |-> st.expectedDeliveryTime,
     lastUpdatedAt        |-> st.lastUpdatedAt,
     customerId           |-> st.customerId,
     alerted              |-> st.delaySmsEmitted,
     since                |-> st.lastAccess]

Memory == [o \in Orders |-> IF Live(o) THEN View(orderState[o]) ELSE Null]

Alert == INSTANCE DelayAlert WITH memory <- Memory, Retention <- StateTtl

(* The operator, with its timers and its expiring state, implements the    *)
(* timer-free DelayAlert: it alerts exactly the overdue orders, from the   *)
(* newest snapshot it remembers, and alerts each of them eventually.       *)
ImplementsDelayAlert == Alert!FairSpec

----------------------------------------------------------------------------
(* A statement of the documentation that the code does not keep. *)

(* docs/rfc/delayed-order-detection-rfc.md:93: a snapshot whose            *)
(* lastUpdatedAt equals the state's is skipped as stale.                   *)
EqualTimestampIsSkipped ==
    [][\A o \in Orders, s \in Inputs :
          /\ Live(o)
          /\ s.lastUpdatedAt = orderState[o].lastUpdatedAt
          /\ ApplyTerminal(o, s) \/ ApplyAfterSms(o, s) \/ Schedule(o, s)
          => Memory'[o] = Memory[o]]_vars

============================================================================
