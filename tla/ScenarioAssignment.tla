------------------------- MODULE ScenarioAssignment -------------------------
(***************************************************************************)
(* How the simulator spreads the n orders of a mixed run over the included *)
(* scenarios (SimulatorRunner._assign_scenarios): the largest-remainder    *)
(* method.  The fractions are floating-point numbers in the code, so       *)
(* scenarios with equal fractions may be ranked either way.                *)
(*                                                                         *)
(* A distribution d gives every included scenario a weight, 0 where the    *)
(* scenario file has no percentage for it.  The number of orders comes     *)
(* from the command line unchecked and may be negative.                    *)
(***************************************************************************)
EXTENDS Integers, SequencesExt

Weighted(d) == {s \in DOMAIN d : d[s] > 0}

TotalWeight(d) == SumFunctionOnSet(d, Weighted(d))

(* int() rounds towards zero. *)
FloorCount(d, n, s) ==
    IF n >= 0 THEN (n * d[s]) \div TotalWeight(d)
              ELSE 0 - ((0 - n) * d[s]) \div TotalWeight(d)

Fraction(d, n, s) ==   \* over TotalWeight
    n * d[s] - FloorCount(d, n, s) * TotalWeight(d)

Remaining(d, n) ==
    n - SumFunctionOnSet([s \in DOMAIN d |-> FloorCount(d, n, s)], Weighted(d))

(* fractional_counts after its sort, largest fraction first. *)
Rankings(d, n) ==
    {r \in SetToSeqs(Weighted(d)) :
        \A i, j \in DOMAIN r :
            i < j => Fraction(d, n, r[i]) >= Fraction(d, n, r[j])}

(* fractional_counts[:remaining]: a negative bound counts from the end. *)
Increased(d, n) ==
    IF Remaining(d, n) >= 0 THEN Remaining(d, n)
                            ELSE Cardinality(Weighted(d)) + Remaining(d, n)

(* The scenarios one after the other, in the order of the ranking. *)
Assigned(d, n, r) ==
    FlattenSeq([i \in DOMAIN r |->
        [k \in 1..(FloorCount(d, n, r[i]) + (IF i <= Increased(d, n) THEN 1 ELSE 0))
            |-> r[i]]])

(* Without weights every order draws a scenario at random. *)
Assignments(d, n) ==
    IF Weighted(d) = {}
    THEN [1..n -> DOMAIN d]
    ELSE {Assigned(d, n, r) : r \in Rankings(d, n)}

----------------------------------------------------------------------------
(* How many orders an assignment a gives to scenario s. *)
Share(a, s) == Cardinality({i \in DOMAIN a : a[i] = s})

(* Every order has a scenario, a scenario gets its exact share rounded     *)
(* down or up, and none is rounded down while one with a smaller fraction  *)
(* is rounded up.                                                          *)
IsProportional(d, n, a) ==
    /\ Len(a) = n
    /\ \A s \in DOMAIN d \ Weighted(d) : Share(a, s) = 0
    /\ \A s \in Weighted(d) :
          Share(a, s) - FloorCount(d, n, s)
              \in {0, IF Fraction(d, n, s) = 0 THEN 0 ELSE 1}
    /\ \A s, t \in Weighted(d) :
          Fraction(d, n, s) < Fraction(d, n, t) =>
              Share(a, s) - FloorCount(d, n, s) <= Share(a, t) - FloorCount(d, n, t)

=============================================================================
