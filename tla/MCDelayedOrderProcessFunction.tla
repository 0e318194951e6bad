------------------- MODULE MCDelayedOrderProcessFunction -------------------
(* Instances of DelayedOrderProcessFunction for TLC. *)
EXTENDS DelayedOrderProcessFunction

CONSTANTS o1, o2, c1, c2

Snapshot(statuses, etas, updates, customers) ==
    [status : statuses, expectedDeliveryTime : etas,
     lastUpdatedAt : updates, customerId : customers]

(* One order in depth: ETAs in the past, between ticks and at the horizon, *)
(* ties and reorderings in lastUpdatedAt, a reopened terminal order, and   *)
(* one snapshot for each missing required field.                           *)
DeepInputs ==
    Snapshot({"CREATED", "DELIVERED"}, {0, 2, 3}, 1..3, {c1})
      \cup Snapshot({"PICKED_UP", "CANCELLED"}, {1}, {2}, {c2})
      \cup Snapshot({Null}, {1}, {1}, {c1})
      \cup Snapshot({"CREATED"}, {Null}, {1}, {c1})
      \cup Snapshot({"ACCEPTED"}, {1}, {Null}, {c1})

(* Two orders across several lifetimes of their states: ETAs before and    *)
(* after an expiry, an older snapshot that only an expired state accepts.  *)
ExpiryInputs ==
    Snapshot({"CREATED"}, {1, 3}, {1, 2}, {c1})
      \cup Snapshot({"DELIVERED"}, {1}, {2}, {c1})

============================================================================
