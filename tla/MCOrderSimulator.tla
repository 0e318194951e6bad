-------------------------- MODULE MCOrderSimulator --------------------------
(* Instances of OrderSimulator for TLC.  Payloads keep two fields, and a   *)
(* datetime reaches two minutes either way.                                *)
EXTENDS OrderSimulator

CONSTANTS soon, thirty

MCEarliestTime == 0 - 120000

Now(sign, amount, unit) ==
    [now |-> TRUE, sign |-> sign, amount |-> amount, unit |-> unit]
Bare(sign, amount, unit) ==
    [now |-> FALSE, sign |-> sign, amount |-> amount, unit |-> unit]

Template(eta) == [orderId |-> OrderIdMark, expectedDeliveryTime |-> eta]
Placed  == Template(Now(Null, Null, Null))
Arrived == Template(Now("+", 1, "m"))
Remote  == Template(Now("+", 9, "d"))
MCTemplates == {Placed, Arrived, Remote, [orderId |-> OrderIdMark]}

Own(step, delay, offset, value) ==
    [step |-> step, delay |-> delay, duplicateOfStep |-> Null,
     etaOffset |-> offset, value |-> value]
Again(step, delay, of) ==
    [step |-> step, delay |-> delay, duplicateOfStep |-> of,
     etaOffset |-> Null, value |-> Null]

Late == Bare("-", 30, "s")

Script1(events) == [events |-> events, includedScenarios |-> {},
                    distribution |-> <<>>]
Mixed(weights)  == [events |-> <<>>, includedScenarios |-> DOMAIN weights,
                    distribution |-> weights]
Weights(delivered, duplicate, broken, empty) ==
    [delivered |-> delivered, duplicate |-> duplicate,
     broken |-> broken, empty |-> empty]

Later == Bare("+", 1, "m")

(* Two steps apart in time that move the ETA, a duplicate of a step that   *)
(* is not the last one, scripts that fail in each of the ways a task can,  *)
(* and mixes: a tie for the last order, a remainder that goes to a smaller *)
(* weight, a missing file of weight 0, no weights.                         *)
MCFiles ==
    [delivered |-> Script1(<<Own(1, 0, Late, Placed), Own(2, 1, Later, Arrived)>>),
     duplicate |-> Script1(<<Own(1, 0, Late, Placed), Own(2, 1, soon, Arrived),
                             Again(3, 1, 1)>>),
     broken    |-> Script1(<<Own(1, 1, Now(Null, 5, "m"), Placed), Again(2, 0, 7)>>),
     empty     |-> Script1(<<>>),
     remote    |-> Script1(<<Own(1, 0, Null, Remote)>>),
     overflow  |-> Script1(<<Own(1, 0, Bare("+", 9, "d"), Placed)>>),
     illtyped  |-> Script1(<<Own(1, 0, Late, [orderId |-> OrderIdMark]),
                             Own(2, 0, thirty, Placed)>>),
     valueless |-> Script1(<<Own(1, 0, Null, Null)>>),
     tie       |-> Mixed(Weights(5, 1, 1, 0)),
     remainder |-> Mixed(Weights(3, 4, 0, 2)),
     faults    |-> Mixed([overflow |-> 1, illtyped |-> 1, valueless |-> 1]),
     missing   |-> Mixed([delivered |-> 1, lost |-> 0]),
     drawn     |-> Mixed([remote |-> 0, empty |-> 0 - 1])]

MCNames == DOMAIN MCFiles \cup {"lost", "delivered.json", "mixed-orders"}
MCStem  == [n \in MCNames |-> IF n = "delivered.json" THEN "delivered" ELSE n]

Unset == [v \in Numbers \cup {"SCENARIO", "SCENARIO_FILE", "DRY_RUN"} |-> Null]
Pausing == [Unset EXCEPT !["MAX_WORKERS"] = 2, !["PAUSE_AFTER_STEP"] = 2,
                         !["PAUSE_DURATION_SECONDS"] = 1,
                         !["EVENT_DELAY_MULTIPLIER"] = [num |-> 3, den |-> 2]]

(* A multiplier that leaves a remainder, none, one that is no number (nan) *)
(* and a text in place of the number of orders.                            *)
MCEnvironments ==
    {Pausing,
     [Unset EXCEPT !["MAX_WORKERS"] = 1,
                   !["EVENT_DELAY_MULTIPLIER"] = [num |-> 0, den |-> 0]],
     [Unset EXCEPT !["DRY_RUN"] = "yes", !["MAX_WORKERS"] = 0,
                   !["SCENARIO_FILE"] = "duplicate", !["ORDERS_COUNT"] = 1],
     [Pausing EXCEPT !["ORDERS_COUNT"] = NotANumber, !["DRY_RUN"] = "no"]}

Command(scenario, ordersCount, dryRun) ==
    [scenario |-> scenario, ordersCount |-> ordersCount, dryRun |-> dryRun]

MCCommandLines ==
    {Command("tie", 3, FALSE), Command("remainder", 3, FALSE),
     Command("tie", 3, TRUE), Command("faults", 3, FALSE),
     Command("tie", 0 - 1, FALSE), Command("tie", 0, FALSE),
     Command("missing", 2, FALSE), Command("drawn", 2, FALSE),
     Command("delivered.json", 2, FALSE), Command(Null, 1, FALSE),
     Command("lost", 1, FALSE), Command("tie", NotANumber, FALSE)}

(* The assignment by itself, for all small weights. *)
ASSUME EveryAssignmentIsProportional ==
    \A d \in [{"a", "b", "c", "d"} -> 0..4] : \A a \in Assignments(d, 3) :
        Weighted(d) # {} => IsProportional(d, 3, a)

(* Three orders, created one after the other. *)
MCCreatedAt == [o \in Orders |-> o - MaxOrders]

PausedCommandLines == {Command("delivered", 1, FALSE)}

=============================================================================
