------------------------------ MODULE MCMerge ------------------------------
(* Inputs for checking Merge: maps A and B share a point under different   *)
(* counter numbers, C contradicts A, D holds another version of A's        *)
(* source, E contradicts itself and C.                                     *)
EXTENDS Merge, TLC

Map(n, f, m) == [name |-> n, form |-> f, id |-> m]
A  == Map("a", "whole", "A")
A2 == Map("a2", "whole", "A")
B  == Map("b", "whole", "B")
Bx == Map("bx", "refused", "B")
C  == Map("c", "whole", "C")
D  == Map("d", "whole", "D")
E  == Map("e", "whole", "E")

SomeMaps    == {A, A2, B, Bx, C, D, E}
SomeChoices == {{A, A2, B}, {A, B, C}, {A, Bx}, {A, D}, {C, E}}

SomeBinding ==
    [m \in {"A", "B", "C", "D", "E"} |->
        CASE m = "A" -> <<"p", "q">> [] m = "B" -> <<"q">> [] OTHER -> <<"p">>]
SomeRegions ==
    [m \in {"A", "B", "C", "D", "E"} |->
        CASE m = "A" -> {("p" :> 1) @@ ("q" :> -1), ("p" :> 2) @@ ("q" :> -1)}
          [] m = "B" -> {"q" :> 2}
          [] OTHER -> {"p" :> 1}]
SomeSources ==
    [m \in {"A", "B", "C", "D", "E"} |-> IF m = "D" THEN {<<"s", 2>>} ELSE {<<"s", 1>>}]
SomeDisagree == {{"A", "C"}, {"E"}, {"C", "E"}}

Profile(n, f, id, run, map, context, ran) ==
    [name |-> n, form |-> f,
     data |-> [id |-> id, run |-> run, map |-> map, context |-> context, counts |-> ran]]

SomeProfiles ==
    { Profile("1", "whole", 1, "r", "A", "x", <<1, 0>>),
      Profile("2", "whole", 1, "r", "A", "x", <<1, 0>>),    \* a copy
      Profile("3", "torn", 1, "r", "A", "x", <<1, 0>>),     \* uncommitted
      Profile("4", "whole", 1, "r", "A", "x", <<2, 1>>),    \* a collision
      Profile("5", "whole", 2, "r", "A", "x", <<2, 1>>),    \* adds up to the maximum
      Profile("6", "whole", 3, "r", "A", "x", <<3, 1>>),    \* saturated
      Profile("7", "whole", 4, "r", "A", "y", <<3, 3>>),    \* both, other context
      Profile("8", "whole", 5, "s", "A", "y", <<2, 2>>),    \* another run
      Profile("9", "whole", 6, "r", "A", "x", <<0, 1>>),    \* impossible
      Profile("10", "whole", 7, "r", "B", "x", <<2>>),
      Profile("11", "whole", 8, "r", "B", "x", <<0, 1>>),   \* not in its map
      Profile("12", "whole", 9, "r", "C", "x", <<1>>),
      Profile("13", "refused", 10, "r", "A", "x", <<1, 1>>) }

SomeRequests == {{}, {"r", "s"}}
=============================================================================
