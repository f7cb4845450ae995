---------------------------- MODULE MCOutputTree ----------------------------
(* Small instance of OutputTree. *)
EXTENDS OutputTree, TLC

\* Two reports in any layouts but for a single file with a support directory:
\* these share the managed directories and no name in them, as a bundle and a
\* support directory do.
Meeting == {l \in [Reports -> {"single", "bundle", "stdout"}] :
              {l[r] : r \in Reports} # {"single", "stdout"}}

\* Neither reports nor cleans are told apart.
Symmetry == Permutations(Reports) \cup Permutations(Cleans)
=============================================================================
