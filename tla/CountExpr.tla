----------------------------- MODULE CountExpr -----------------------------
(***************************************************************************)
(* src/sv0cov/expr.py, and the sums of model/semantic.py: counts that may  *)
(* be only lower bounds, their saturating addition, and the value of a     *)
(* region's counter expression on them.                                    *)
(*                                                                         *)
(* A count is [value, inexact].  An expression is a function from point    *)
(* IDs to nonzero coefficients.                                            *)
(***************************************************************************)
EXTENDS Integers, FiniteSets, FiniteSetsExt

CONSTANT MaxCount   \* U64_MAX

ASSUME MaxCountAssumption == MaxCount \in Nat \ {0}

\* Here and below, a definition ..._wrong is a mistake that a property would
\* reveal in the definition that follows it.
Saturated_wrong(n) == n
Saturated(n)       == IF n < MaxCount THEN n ELSE MaxCount

Counts       == [value : 0 .. MaxCount, inexact : BOOLEAN]
Zero         == [value |-> 0, inexact |-> FALSE]

\* A physical counter that stands at the maximum may have been hit more often.
Physical(n) == [value |-> n, inexact |-> n = MaxCount]

\* One more profile's physical count of a point: a sum that lands exactly on the
\* maximum is inexact too.
Plus_wrong(c, n) == [value   |-> Saturated(c.value + n),
                     inexact |-> c.inexact \/ c.value + n > MaxCount]
Plus(c, n)       == [value   |-> Saturated(c.value + n),
                     inexact |-> c.inexact \/ c.value + n >= MaxCount]

\* The sum over contexts, of a point or of a region.
Aggregate(f) ==
    LET total == SumFunction([x \in DOMAIN f |-> f[x].value])
    IN  [value   |-> Saturated(total),
         inexact |-> total > MaxCount \/ \E x \in DOMAIN f : f[x].inexact]

-----------------------------------------------------------------------------
(* evaluate: one region in one context. *)

Total(e, counts) == SumFunction([p \in DOMAIN e |-> e[p] * counts[p].value])
Hot(e, counts)   == \E p \in DOMAIN e : counts[p].inexact

\* A lower bound that is subtracted bounds nothing.
Lost_wrong(e, counts) == FALSE
Lost(e, counts)       == \E p \in DOMAIN e : e[p] < 0 /\ counts[p].inexact

\* Exact counts that no run of the mapped program produces.
Negative(e, counts) == ~Hot(e, counts) /\ Total(e, counts) < 0

Evaluate(e, counts) ==
    LET total == Total(e, counts) IN
    CASE Lost(e, counts) -> [value |-> 0, inexact |-> TRUE]
      [] ~Lost(e, counts) /\ Hot(e, counts) ->
            [value |-> Saturated(IF total < 0 THEN 0 ELSE total), inexact |-> TRUE]
      [] OTHER -> [value |-> Saturated(total), inexact |-> total > MaxCount]
=============================================================================
