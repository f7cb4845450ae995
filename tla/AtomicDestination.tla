------------------------- MODULE AtomicDestination -------------------------
(***************************************************************************)
(* What src/sv0cov/publish.py promises of one destination name: at every   *)
(* moment it is absent, or one complete artifact.  An artifact appears     *)
(* there in one step, only on an absent name unless the operation is a     *)
(* replacement of a regular file, and nothing ever makes the name absent   *)
(* or partial again.                                                       *)
(***************************************************************************)
CONSTANTS Publishers, Absent, Old, Foreign

VARIABLES
    object,     \* what the name holds
    replacing   \* the publishers that may replace a regular file

Init ==
    /\ object \in {Absent, Old, Foreign}
    /\ replacing \in SUBSET Publishers

Publish(p) ==
    /\ object = Absent
    /\ object' = p

Replace(p) ==
    /\ p \in replacing
    /\ object # Foreign
    /\ object' = p

Next == \E p \in Publishers : (Publish(p) \/ Replace(p)) /\ UNCHANGED replacing

Spec == Init /\ [][Next]_<<object, replacing>>
=============================================================================
