--------------------------- MODULE MergedEvidence ---------------------------
(***************************************************************************)
(* What docs/merge.md promises of sv0cov merge: the evidence is a function *)
(* of the set of inputs.  The merge happens here in one step; no order, no *)
(* partial sum and no name decides anything.                               *)
(***************************************************************************)
EXTENDS Integers, FiniteSets, FiniteSetsExt

CONSTANTS MapInputs, ProfileInputs, Binding, Regions, Sources, Disagreeing, MaxCount

VARIABLES maps, profiles, allow, request, outcome

Pending == [end |-> "none"]

\* The map IDs that validated maps carry and that agree with every other one;
\* a map that contradicts itself speaks against no other.
Valid   == {a.id : a \in {b \in maps : b.form = "whole"}}
Sane    == {m \in Valid : {m} \notin Disagreeing}
Trusted == {m \in Sane : \A n \in Sane : {m, n} \notin Disagreeing}

\* How often profile d saw point p.
Ran(d, p) == SumFunctionOnSet(d.counts, {i \in DOMAIN d.counts : i \in DOMAIN Binding[d.map]
                                                                    /\ Binding[d.map][i] = p})

InMap(d)    == \A i \in DOMAIN d.counts : d.counts[i] > 0 => i \in DOMAIN Binding[d.map]
Possible(d) ==
    \A e \in Regions[d.map] :
        (\A p \in DOMAIN e : Ran(d, p) < MaxCount) =>
            SumFunction([p \in DOMAIN e |-> e[p] * Ran(d, p)]) >= 0

Whole    == {a \in profiles : a.form = "whole"}
Accepted == {a \in Whole : /\ \A b \in Whole : b.data.id = a.data.id => b.data = a.data
                           /\ a.data.map \in Trusted
                           /\ InMap(a.data) /\ Possible(a.data)}

\* Counts add by point and context; a sum that reaches the maximum is inexact.
Sum(c, p) == SumFunction([d \in {x \in {a.data : a \in Accepted} : x.context = c} |-> Ran(d, p)])
Count(c, p) == [value   |-> IF Sum(c, p) < MaxCount THEN Sum(c, p) ELSE MaxCount,
                inexact |-> Sum(c, p) >= MaxCount]

\* Exact sums may still contradict a region of another map; then there is no
\* evidence.
Contradicted ==
    \E m \in Trusted : \E e \in Regions[m] : \E c \in {a.data.context : a \in ProfileInputs} :
        /\ \A p \in DOMAIN e : Sum(c, p) < MaxCount
        /\ SumFunction([p \in DOMAIN e |-> e[p] * Sum(c, p)]) < 0

OneVersion ==
    \A s, t \in UNION {Sources[m] : m \in Trusted} : s[1] = t[1] => s[2] = t[2]

RunsHold ==
    LET found == {a.data.run : a \in Accepted}
    IN  IF request = {} THEN \E r \in found : found = {r} ELSE found = request

Complete ==
    /\ profiles # {} /\ profiles = Accepted
    /\ \A a \in maps : a.form = "whole" /\ a.id \in Trusted
    /\ RunsHold /\ OneVersion /\ ~allow

Outcome ==
    [end      |-> IF Contradicted THEN "refused"
                  ELSE IF Complete \/ allow THEN "published" ELSE "withheld",
     accepted |-> Accepted,
     complete |-> Complete,
     counts   |-> [x \in {a.data.context : a \in ProfileInputs} \X
                         UNION {{Binding[m][i] : i \in DOMAIN Binding[m]}
                                    : m \in {a.id : a \in MapInputs}}
                      |-> Count(x[1], x[2])]]

Init == outcome = Pending
Next ==
    /\ outcome = Pending /\ outcome' # Pending
    /\ outcome' = Outcome
    /\ UNCHANGED <<maps, profiles, allow, request>>
Spec == Init /\ [][Next]_<<maps, profiles, allow, request, outcome>>
=============================================================================
