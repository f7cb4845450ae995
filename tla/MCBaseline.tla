----------------------------- MODULE MCBaseline -----------------------------
(* A history of two commits, and the profiles that tell the cases apart.    *)
EXTENDS Baseline, TLC

CONSTANTS root, tip

MCCommits   == {root, tip}
MCAncestors == [c \in MCCommits |-> {root, c}]

\* Half of the units are covered, after an exclusion.
Good == [stops |-> FALSE, complete |-> TRUE, mismatch |-> FALSE, saturated |-> FALSE,
         passes |-> TRUE, policy |-> "fail", empty |-> "fail", sources |-> 1,
         covered |-> 2, total |-> 4, excluded |-> 1, records |-> 1]

\* Nothing is excluded and covered: a ratio that fails against Good's, and meets the
\* limit of its own baseline, as that of one without units, exactly.  And there are no
\* units, under both policies, of the same sources and of others.  What no baseline
\* may be made from would make one that no other evidence makes.
MCEvidence ==
    {Good,
     [Good EXCEPT !.covered = 0, !.total = 10, !.excluded = 0, !.records = 0],
     [Good EXCEPT !.covered = 0, !.total = 0, !.sources = 2],
     [Good EXCEPT !.covered = 0, !.total = 0, !.empty = "pass"],
     [Good EXCEPT !.covered = 4, !.saturated = TRUE, !.mismatch = TRUE],
     [Good EXCEPT !.covered = 3, !.complete = FALSE],
     [Good EXCEPT !.stops = TRUE]}

\* The updates do the same.
Symmetry == Permutations(Updates)
=============================================================================
