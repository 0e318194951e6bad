----------------------------- MODULE DelayAlert -----------------------------
(***************************************************************************)
(* What the delay detector promises, without timers: it remembers the      *)
(* newest snapshot of every order for Retention after the last one it      *)
(* accepted, and alerts an order once in that memory, when the snapshot it *)
(* remembers is active and overdue.  DelayedOrderProcessFunction           *)
(* implements it.                                                          *)
(***************************************************************************)
EXTENDS Integers, Sequences

CONSTANTS Orders, Inputs, Retention, MaxTime, Null

VARIABLES clock, memory, commands

avars == <<clock, memory, commands>>

Open == {"CREATED", "ACCEPTED", "PICKED_UP"}

Complete(s) ==
    Null \notin {s.status, s.expectedDeliveryTime, s.lastUpdatedAt}

(* The memory after hearing s: the newer snapshot, the old alert flag. *)
Heard(o, s) ==
    [status               |-> s.status,
     expectedDeliveryTime |-> s.expectedDeliveryTime,
     lastUpdatedAt        |-> s.lastUpdatedAt,
     customerId           |-> s.customerId,
     alerted              |-> memory[o] # Null /\ memory[o].alerted,
     since                |-> clock]

Overdue(m) ==
    m.status \in Open /\ ~m.alerted /\ m.expectedDeliveryTime <= clock

Send(o, m) ==
    /\ commands' = Append(commands,
                          [orderId              |-> o,
                           customerId           |-> m.customerId,
                           expectedDeliveryTime |-> m.expectedDeliveryTime,
                           createdAt            |-> clock])
    /\ memory' = [memory EXCEPT ![o] = [m EXCEPT !.alerted = TRUE,
                                                 !.since = clock]]

Hear(o, s) ==
    /\ Complete(s)
    /\ memory[o] # Null => memory[o].lastUpdatedAt <= s.lastUpdatedAt
    /\ IF Overdue(Heard(o, s))
       THEN Send(o, Heard(o, s))
       ELSE /\ memory' = [memory EXCEPT ![o] = Heard(o, s)]
            /\ commands' = commands
    /\ UNCHANGED clock

Raise(o) ==
    /\ memory[o] # Null
    /\ Overdue(memory[o])
    /\ Send(o, memory[o])
    /\ UNCHANGED clock

Pass ==
    /\ clock < MaxTime
    /\ clock' = clock + 1
    /\ memory' = [o \in Orders |->
                    IF memory[o] # Null /\ memory[o].since + Retention > clock'
                    THEN memory[o]
                    ELSE Null]
    /\ UNCHANGED commands

Init == clock = 0 /\ memory = [o \in Orders |-> Null] /\ commands = <<>>

Next ==
    \/ \E o \in Orders, s \in Inputs : Hear(o, s)
    \/ \E o \in Orders : Raise(o)
    \/ Pass

Spec == Init /\ [][Next]_avars

(* An order that stays overdue is alerted, and time goes on. *)
FairSpec ==
    Spec /\ WF_avars(Pass) /\ \A o \in Orders : WF_avars(Raise(o))

=============================================================================
