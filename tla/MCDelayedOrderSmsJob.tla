----------------------- MODULE MCDelayedOrderSmsJob -----------------------
(* Instances of DelayedOrderSmsJob for TLC. *)
EXTENDS DelayedOrderSmsJob

CONSTANTS o1, o2, c1

Snapshot(status, eta, update) ==
    [status |-> status, expectedDeliveryTime |-> eta,
     lastUpdatedAt |-> update, customerId |-> c1]

(* An order that is late, rescheduled later or earlier, and delivered. *)
MCInputs == {Snapshot("CREATED", 1, 1), Snapshot("PICKED_UP", 2, 2),
             Snapshot("DELIVERED", 2, 2), Snapshot("CREATED", Null, 1)}

Of(o, snapshots) == [orderId : {o}, snapshot : snapshots]

(* One order: every snapshot, also published again and out of order. *)
OneOrderRecords == Of(o1, {s \in MCInputs : IsValid(s)})

(* Two orders side by side, and the records that become dead letters. *)
MixedRecords ==
    Of(o1, {Snapshot("CREATED", 1, 1), Snapshot("CREATED", Null, 1)})
      \cup Of(o2, {Snapshot("PICKED_UP", 2, 2), Malformed})
      \cup Of(Null, {Snapshot("CREATED", 1, 1)})

============================================================================
