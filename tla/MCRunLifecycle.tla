--------------------------- MODULE MCRunLifecycle ---------------------------
(* Small instance of RunLifecycle: two invocations, two images, a source    *)
(* that can be changed and changed back.                                    *)
EXTENDS RunLifecycle, TLC

\* A plain run, one that allows a mismatch and has only a terminal report, and
\* a changed-region policy that is given the option it ignores.
MCOptions ==
    { [diff |-> FALSE, allow |-> FALSE, prefer |-> TRUE,  files |-> TRUE],
      [diff |-> FALSE, allow |-> TRUE,  prefer |-> FALSE, files |-> FALSE],
      [diff |-> TRUE,  allow |-> TRUE,  prefer |-> TRUE,  files |-> TRUE] }

\* Neither invocations nor images are told apart; for safety only.
Symmetry == Permutations(Invocations) \cup Permutations(Images)
=============================================================================
