--------------------------- MODULE MCEndToEndRun ---------------------------
(* Instances of EndToEndRun for TLC: two orders instead of five, and of    *)
(* the scenarios whose orders behave alike for the runner one each, but    *)
(* two late ones, so that one can pass on the SMS of the other.            *)
EXTENDS EndToEndRun

MCSuite == <<"delayed-orders", "on-time-orders", "duplicate-events", "mixed-orders">>

MCDistribution ==
    [s \in {"delayed-orders", "on-time-orders"} |-> 1]

MCLateScenarios == {"delayed-orders", "duplicate-events"}

(* As many SMS as there are orders, as EXPECTED_SMS has for five.          *)
MCExpected == [s \in {MCSuite[i] : i \in DOMAIN MCSuite} |->
                 CASE s \in MCLateScenarios -> <<OrdersCount, OrdersCount>>
                   [] s = "on-time-orders"  -> <<0, 0>>
                   [] s = "mixed-orders"    -> <<0, OrdersCount>>]

MCLeftOver == {[order |-> o, copy |-> 1] :
                  o \in UNION {OrdersOf(s) : s \in MCLateScenarios}}

MCServices == {"flink-jobmanager", "kafka-ui"}

Invocation(noCleanup, orders, commands) ==
    [noCleanup |-> noCleanup, ORDERS_TOPIC |-> orders, SMS_COMMANDS_TOPIC |-> commands]

(* Blank variables, and a job that reads or writes another topic. *)
MCInvocations ==
    {Invocation(FALSE, Null, ""), Invocation(TRUE, "Orders2", Null),
     Invocation(TRUE, "", "sms")}
PlainInvocation == {Invocation(FALSE, Null, Null)}

=============================================================================
