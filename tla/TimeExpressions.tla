--------------------------- MODULE TimeExpressions ---------------------------
(***************************************************************************)
(* The time expressions of the scenario files (time_utils.py) and the      *)
(* payloads built from them (template_renderer.py and                      *)
(* SimulatorRunner._build_event_value).                                    *)
(*                                                                         *)
(* A string of a template is an expression such as "now-30s", cut into the *)
(* groups of the pattern, the placeholder "{{orderId}}", or another text.  *)
(* The "now" may be missing, as in an etaOffset "-30s"; the empty string   *)
(* is the expression without any part.  Times are counted in milliseconds; *)
(* a formatted time is written [at |-> t], so that it differs from texts.  *)
(***************************************************************************)
EXTENDS Integers

CONSTANTS
    Texts,          \* strings that are no expressions
    NonStrings,     \* truthy JSON values that are no strings
    OrderIdMark,    \* the placeholder {{orderId}}
    EarliestTime,   \* datetime.min
    LatestTime,     \* datetime.max
    Null

Milliseconds == [ms |-> 1, s |-> 1000, m |-> 60000, h |-> 3600000, d |-> 86400000]

Expressions == [now    : BOOLEAN,
                sign   : {"+", "-", Null},
                amount : Nat \cup {Null},
                unit   : DOMAIN Milliseconds \cup {Null}]

Strings == Expressions \cup Texts \cup {OrderIdMark}

ASSUME TimeExpressionsAssumption ==
    /\ EarliestTime \in Int /\ LatestTime \in Int
    /\ Null \notin Nat \cup DOMAIN Milliseconds \cup {"+", "-"}
    /\ Texts \cap Expressions = {} /\ NonStrings \cap Strings = {}
    /\ OrderIdMark \notin Expressions

InRange(t) == EarliestTime <= t /\ t <= LatestTime

IsoZ(t) == [at |-> t]

(* The amount and unit of an expression: a missing amount is 0, a missing  *)
(* unit is seconds.  Both are ignored when the sign is missing.            *)
Delta(e) == (IF e.amount = Null THEN 0 ELSE e.amount)
              * Milliseconds[IF e.unit = Null THEN "s" ELSE e.unit]

(* parse_dynamic_time: only a string that begins with "now" is an          *)
(* expression, every other one is left as it is.  A time outside what a    *)
(* datetime can hold raises (see CannotBuild).                             *)
Resolved(e, base) == CASE e.sign = Null -> base
                       [] e.sign = "+"  -> base + Delta(e)
                       [] e.sign = "-"  -> base - Delta(e)

IsDynamicTime(v) == v \in Expressions /\ v.now

ParseDynamicTime(v, base) ==
    IF IsDynamicTime(v) THEN IsoZ(Resolved(v, base)) ELSE v

(* parse_offset, which reads the groups a second time: the "now" is        *)
(* optional, and any other text is a ValueError.                           *)
ParseOffset(e) == CASE e.sign = Null -> 0
                    [] e.sign = "+"  -> Delta(e)
                    [] e.sign = "-"  -> 0 - Delta(e)

IsOffset(v) == v \in Expressions

(* A payload is a function from the names of its string fields to strings; *)
(* fields of nested objects and lists are treated like the others.         *)
RenderTemplate(payload, orderId) ==
    [f \in DOMAIN payload |->
        IF payload[f] = OrderIdMark THEN orderId ELSE payload[f]]

ResolveDynamicTimes(payload, base) ==
    [f \in DOMAIN payload |-> ParseDynamicTime(payload[f], base)]

(* An exception nobody catches: a time of the template out of range, or an *)
(* etaOffset that is no string or leads out of range.  A text that cannot  *)
(* be read as an offset is only warned about.                              *)
CannotBuild(template, offset, base) ==
    \/ \E f \in DOMAIN template :
          IsDynamicTime(template[f]) /\ ~InRange(Resolved(template[f], base))
    \/ /\ "expectedDeliveryTime" \in DOMAIN template
       /\ \/ offset \in NonStrings
          \/ IsOffset(offset) /\ ~InRange(base + ParseOffset(offset))

(* The etaOffset replaces the expected delivery time of a payload that has *)
(* one.                                                                    *)
BuildEventValue(template, offset, orderId, base) ==
    IF CannotBuild(template, offset, base)
    THEN Null
    ELSE [f \in DOMAIN template |->
            IF f = "expectedDeliveryTime" /\ IsOffset(offset)
            THEN IsoZ(base + ParseOffset(offset))
            ELSE ResolveDynamicTimes(RenderTemplate(template, orderId), base)[f]]

=============================================================================
