-------------------------- MODULE DelayAlertProofs --------------------------
(***************************************************************************)
(* The detector implements DelayAlert: its initial states are initial      *)
(* states there, and each of its steps is a step there or leaves memory,   *)
(* commands and clock alone.                                               *)
(***************************************************************************)
EXTENDS DelayedOrderProcessFunctionProofs

(* A state record gives a proper view. *)
LEMMA ViewType ==
  ASSUME NEW st \in OrderDelayStates
  PROVE  View(st) \in Views /\ View(st) # Null
<1>1. View(st) \in Views
  BY DEF View, Views, OrderDelayStates
<1> QED
  BY <1>1, NullAssumption

(* The memory has a view of every live order and of no other. *)
LEMMA MemoryAt ==
  ASSUME StateTypeOK, NEW o \in Orders
  PROVE  /\ Memory[o] = IF Live(o) THEN View(orderState[o]) ELSE Null
         /\ Memory[o] # Null <=> Live(o)
         /\ Live(o) =>
              /\ orderState[o] \in OrderDelayStates
              /\ Memory[o].lastUpdatedAt = orderState[o].lastUpdatedAt
              /\ Memory[o].alerted = orderState[o].delaySmsEmitted
              /\ Memory[o].since = orderState[o].lastAccess
<1>1. Live(o) => orderState[o] \in OrderDelayStates
  BY DEF Live, StateTypeOK
<1>2. Memory[o] = IF Live(o) THEN View(orderState[o]) ELSE Null
  BY DEF Memory
<1>3. Live(o) => Memory[o] # Null
  BY <1>1, <1>2, ViewType
<1> QED
  BY <1>1, <1>2, <1>3 DEF View

(* Writing a state record now writes its view into the memory. *)
LEMMA MemoryUpdate ==
  ASSUME StateTypeOK, NEW o \in Orders, NEW st \in OrderDelayStates,
         st.lastAccess = clock, clock' = clock,
         orderState' = [orderState EXCEPT ![o] = st]
  PROVE  Memory' = [Memory EXCEPT ![o] = View(st)]
<1>0. clock \in Nat /\ StateTtl \in Nat /\ StateTtl > 0
  BY TimeAssumption DEF StateTypeOK
<1>1. st # Null
  BY NullAssumption
<1>2. orderState'[o] = st /\ \A k \in Orders : k # o => orderState'[k] = orderState[k]
  BY DEF StateTypeOK
<1>3. Live(o)'
  BY <1>0, <1>1, <1>2 DEF Live
<1>4. \A k \in Orders : k # o => (Live(k)' <=> Live(k))
  BY <1>2 DEF Live
<1>5. \A k \in Orders : (IF Live(k)' THEN View(orderState'[k]) ELSE Null)
                           = IF k = o THEN View(st) ELSE Memory[k]
  BY <1>2, <1>3, <1>4 DEF Memory
<1>6. Memory' = [k \in Orders |-> IF k = o THEN View(st) ELSE Memory[k]]
  BY <1>5 DEF Memory
<1> QED
  BY <1>6 DEF Memory

(* A step that writes no state and lets no time pass keeps the memory. *)
LEMMA MemoryFrame ==
  ASSUME UNCHANGED <<clock, orderState>>
  PROVE  Memory' = Memory
BY DEF Memory, Live

(* The abstract view of an accepted snapshot is that of the new state. *)
LEMMA HeardIsCurrent ==
  ASSUME StateTypeOK, NEW o \in Orders, NEW s \in Inputs, Accepts(o, s)
  PROVE  /\ Alert!Complete(s)
         /\ Memory[o] # Null => Memory[o].lastUpdatedAt <= s.lastUpdatedAt
         /\ Alert!Heard(o, s) = View(Current(o, s))
         /\ Current(o, s) \in OrderDelayStates
         /\ Current(o, s).lastAccess = clock
<1>1. Current(o, s) \in OrderDelayStates
  BY CurrentType DEF Accepts
<1>2. Alert!Complete(s)
  BY DEF Accepts, IsValid, Alert!Complete
<1>3. Memory[o] # Null => Memory[o].lastUpdatedAt <= s.lastUpdatedAt
  <2>1. s.lastUpdatedAt \in Nat
    BY ValidInput DEF Accepts
  <2>2. Live(o) => /\ orderState[o].lastUpdatedAt \in Nat
                   /\ ~(s.lastUpdatedAt < orderState[o].lastUpdatedAt)
    BY MemoryAt DEF Accepts, IsStaleUpdate, OrderDelayStates
  <2> QED
    BY <2>1, <2>2, MemoryAt
<1>4. (Memory[o] # Null /\ Memory[o].alerted)
         = (Live(o) /\ orderState[o].delaySmsEmitted)
  <2>1. CASE Live(o)
    BY <2>1, MemoryAt
  <2>2. CASE ~Live(o)
    BY <2>2, MemoryAt
  <2> QED
    BY <2>1, <2>2
<1>5. Alert!Heard(o, s) = View(Current(o, s)) /\ Current(o, s).lastAccess = clock
  BY <1>4 DEF Alert!Heard, View, Current
<1> QED
  BY <1>1, <1>2, <1>3, <1>5

(* Accepting a snapshot without alerting is hearing it. *)
LEMMA QuietHear ==
  ASSUME StateTypeOK, NEW o \in Orders, NEW s \in Inputs, Accepts(o, s),
         ~Alert!Overdue(Alert!Heard(o, s)),
         NEW st \in OrderDelayStates, st.lastAccess = clock,
         View(st) = View(Current(o, s)),
         orderState' = [orderState EXCEPT ![o] = st],
         UNCHANGED <<clock, commands>>
  PROVE  Alert!Hear(o, s)
BY HeardIsCurrent, MemoryUpdate DEF Alert!Hear

(* emitDelaySms is Send. *)
LEMMA EmitIsSend ==
  ASSUME StateTypeOK, NEW o \in Orders, NEW st \in OrderDelayStates,
         EmitDelaySms(o, st), clock' = clock
  PROVE  Alert!Send(o, View(st))
<1>0. clock \in Nat
  BY TimeAssumption DEF StateTypeOK
<1>1. Alerted(st) \in OrderDelayStates /\ Alerted(st).lastAccess = clock
  BY <1>0, AlertedType
<1>2. View(Alerted(st)) = [View(st) EXCEPT !.alerted = TRUE, !.since = clock]
  <2>1. /\ Alerted(st).currentStatus = st.currentStatus
        /\ Alerted(st).expectedDeliveryTime = st.expectedDeliveryTime
        /\ Alerted(st).lastUpdatedAt = st.lastUpdatedAt
        /\ Alerted(st).customerId = st.customerId
        /\ Alerted(st).delaySmsEmitted = TRUE
    BY DEF Alerted, OrderDelayStates
  <2> DEFINE view == [status               |-> st.currentStatus,
                      expectedDeliveryTime |-> st.expectedDeliveryTime,
                      lastUpdatedAt        |-> st.lastUpdatedAt,
                      customerId           |-> st.customerId,
                      alerted              |-> TRUE,
                      since                |-> clock]
  <2>2. View(Alerted(st)) = view
    BY <1>1, <2>1 DEF View
  <2>3. [View(st) EXCEPT !.alerted = TRUE, !.since = clock] = view
    <3> DEFINE sent == [View(st) EXCEPT !.alerted = TRUE, !.since = clock]
    <3>1. View(st) \in Views
      BY ViewType
    <3>2. sent \in Views
      BY <1>0, <3>1 DEF Views
    <3>3. /\ sent.status = View(st).status
          /\ sent.expectedDeliveryTime = View(st).expectedDeliveryTime
          /\ sent.lastUpdatedAt = View(st).lastUpdatedAt
          /\ sent.customerId = View(st).customerId
          /\ sent.alerted = TRUE
          /\ sent.since = clock
      BY <3>1 DEF Views
    <3> HIDE DEF sent
    <3>4. sent = [status               |-> sent.status,
                  expectedDeliveryTime |-> sent.expectedDeliveryTime,
                  lastUpdatedAt        |-> sent.lastUpdatedAt,
                  customerId           |-> sent.customerId,
                  alerted              |-> sent.alerted,
                  since                |-> sent.since]
      BY <3>2 DEF Views
    <3> QED
      BY <3>3, <3>4 DEF View, sent
  <2> QED
    BY <2>2, <2>3
<1>3. Memory' = [Memory EXCEPT ![o] = View(Alerted(st))]
  BY <1>1, MemoryUpdate DEF EmitDelaySms
<1> QED
  BY <1>2, <1>3 DEF EmitDelaySms, DelaySms, View, Alert!Send

(* Time passes alike: what expires is forgotten. *)
LEMMA TickIsPass ==
  ASSUME StateTypeOK, Tick
  PROVE  Alert!Pass
<1>0. clock \in Nat /\ StateTtl \in Nat
  BY TimeAssumption DEF StateTypeOK
<1>1. ASSUME NEW o \in Orders
      PROVE  Memory'[o] = IF Memory[o] # Null /\ Memory[o].since + StateTtl > clock'
                          THEN Memory[o] ELSE Null
  <2>1. orderState[o] # Null => orderState[o].lastAccess \in Nat
    BY DEF StateTypeOK, OrderDelayStates
  <2>2. Live(o)' <=> Live(o) /\ orderState[o].lastAccess + StateTtl > clock'
    BY <1>0, <2>1 DEF Tick, Live
  <2>3. Memory'[o] = IF Live(o)' THEN View(orderState[o]) ELSE Null
    BY DEF Tick, Memory
  <2> QED
    BY <2>2, <2>3, MemoryAt
<1>2. Memory' = [o \in Orders |->
                   IF Memory[o] # Null /\ Memory[o].since + StateTtl > clock'
                   THEN Memory[o] ELSE Null]
  <2>1. Memory' = [o \in Orders |-> Memory'[o]]
    BY DEF Memory
  <2> QED
    BY <1>1, <2>1
<1> QED
  BY <1>2 DEF Tick, Alert!Pass

(* Each step of the detector is a step of DelayAlert or none. *)
LEMMA AlertRefinement ==
  ASSUME StateTypeOK, [Next]_vars
  PROVE  [Alert!Next]_(Alert!avars)
<1>0. clock \in Nat
  BY TimeAssumption DEF StateTypeOK
<1>1. CASE UNCHANGED <<clock, orderState, commands>>
  BY <1>1, MemoryFrame DEF Alert!avars
<1>2. ASSUME NEW o \in Orders, NEW s \in Inputs, ApplyTerminal(o, s)
      PROVE  Alert!Hear(o, s)
  <2> DEFINE st == [Current(o, s) EXCEPT !.registeredTimerTime = Null,
                                         !.lastAccess = clock]
  <2>1. Accepts(o, s) /\ orderState' = [orderState EXCEPT ![o] = st]
        /\ UNCHANGED <<clock, commands>>
    BY <1>2 DEF ApplyTerminal, Disarm
  <2>2. /\ st \in OrderDelayStates /\ st.lastAccess = clock
        /\ View(st) = View(Current(o, s))
    BY <1>0, <2>1, HeardIsCurrent DEF OrderDelayStates, View
  <2>3. ~Alert!Overdue(Alert!Heard(o, s))
    BY <1>2 DEF ApplyTerminal, Terminal, Alert!Overdue, Alert!Heard, Alert!Open
  <2> QED
    BY <2>1, <2>2, <2>3, QuietHear
<1>3. ASSUME NEW o \in Orders, NEW s \in Inputs, ApplyAfterSms(o, s)
      PROVE  Alert!Hear(o, s)
  <2>1. ~Alert!Overdue(Alert!Heard(o, s))
    BY <1>3, HeardIsCurrent DEF ApplyAfterSms, Alert!Overdue, View
  <2> QED
    BY <1>3, <2>1, HeardIsCurrent, QuietHear DEF ApplyAfterSms
<1>4. ASSUME NEW o \in Orders, NEW s \in Inputs, EmitOverdue(o, s)
      PROVE  Alert!Hear(o, s)
  <2>1. Accepts(o, s) /\ EmitDelaySms(o, Current(o, s)) /\ clock' = clock
    BY <1>4 DEF EmitOverdue
  <2>2. Alert!Overdue(Alert!Heard(o, s))
    <3>1. /\ ~Current(o, s).delaySmsEmitted
          /\ Current(o, s).currentStatus \in Active
          /\ Current(o, s).expectedDeliveryTime <= clock
      BY <1>4 DEF EmitOverdue, IsOverdue, Current
    <3> QED
      BY <2>1, <3>1, HeardIsCurrent
      DEF Active, View, Alert!Overdue, Alert!Open
  <2>3. Alert!Send(o, Alert!Heard(o, s))
    BY <2>1, HeardIsCurrent, EmitIsSend
  <2> QED
    BY <2>1, <2>2, <2>3, HeardIsCurrent DEF Alert!Hear
<1>5. ASSUME NEW o \in Orders, NEW s \in Inputs, Schedule(o, s)
      PROVE  Alert!Hear(o, s)
  <2> DEFINE st == [Current(o, s) EXCEPT
                !.registeredTimerTime = Current(o, s).expectedDeliveryTime]
  <2>1. Accepts(o, s) /\ orderState' = [orderState EXCEPT ![o] = st]
        /\ UNCHANGED <<clock, commands>>
    BY <1>5 DEF Schedule, RegisterOrUpdateTimer
  <2>2. /\ st \in OrderDelayStates /\ st.lastAccess = clock
        /\ View(st) = View(Current(o, s))
    BY <2>1, HeardIsCurrent DEF OrderDelayStates, View
  <2>3. ~Alert!Overdue(Alert!Heard(o, s))
    BY <1>5 DEF Schedule, IsOverdue, Alert!Overdue, Alert!Heard
  <2> QED
    BY <2>1, <2>2, <2>3, QuietHear
<1>6. ASSUME NEW o \in Orders, NEW t \in timers[o], TimerAlerts(o, t)
      PROVE  Alert!Raise(o)
  <2>1. /\ Live(o) /\ orderState[o] \in OrderDelayStates
        /\ orderState[o].currentStatus \in Active
        /\ ~orderState[o].delaySmsEmitted
        /\ orderState[o].expectedDeliveryTime <= t
        /\ t <= clock /\ t \in Nat
        /\ EmitDelaySms(o, orderState[o]) /\ clock' = clock
    BY <1>6 DEF TimerAlerts, ActsOnTimer, IsNextTimer, Live, StateTypeOK
  <2>2. orderState[o].expectedDeliveryTime <= clock
    BY <1>0, <2>1 DEF OrderDelayStates
  <2>3. Memory[o] # Null /\ Memory[o] = View(orderState[o])
    BY <2>1, MemoryAt
  <2>4. Alert!Overdue(Memory[o])
    BY <2>1, <2>2, <2>3 DEF Active, View, Alert!Overdue, Alert!Open
  <2>5. Alert!Send(o, Memory[o])
    BY <2>1, <2>3, EmitIsSend
  <2> QED
    BY <2>1, <2>3, <2>4, <2>5 DEF Alert!Raise
<1>7. ASSUME Tick
      PROVE  Alert!Pass
  BY <1>7, TickIsPass
<1> QED
  BY <1>1, <1>2, <1>3, <1>4, <1>5, <1>6, <1>7
  DEF Next, vars, ProcessElement, OnTimer, RejectInvalid, IgnoreStale,
      TimerIsIdle, Alert!Next

(* The detector, with its timers and expiring states, implements the       *)
(* timer-free DelayAlert: it hears, alerts and forgets as promised.        *)
THEOREM DetectorImplementsDelayAlert == Spec => Alert!Spec
<1>1. Init => Alert!Init
  BY DEF Init, Alert!Init, Memory, Live
<1>2. StateTypeOK /\ [Next]_vars => [Alert!Next]_(Alert!avars)
  BY AlertRefinement
<1> QED
  BY <1>1, <1>2, StateTyped, PTL DEF Spec, Alert!Spec

=============================================================================
