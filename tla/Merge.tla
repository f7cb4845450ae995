------------------------------- MODULE Merge -------------------------------
(***************************************************************************)
(* sv0cov merge: src/sv0cov/model/merge.py, the classification and the     *)
(* counts of model/indexed.py and model/semantic.py, and the decision of   *)
(* cmd_merge.py to publish.  Every set is walked in an order the program   *)
(* does not choose (the code iterates over Python sets), one input a step. *)
(*                                                                         *)
(* An input is a record: the name it was supplied under, what reading it   *)
(* and decoding it alone say ("whole", "torn" for a truncated profile or   *)
(* an uncommitted temporary, "refused" for every other reason), and its    *)
(* bytes.  Equal bytes under two names are two inputs.                     *)
(***************************************************************************)
EXTENDS CountExpr

CONSTANTS
    MapInputs,      \* the maps that may be supplied: [name, form, id]
    ProfileInputs,  \* the profiles: [name, form, data]
    Binding,        \* per map ID: the point each of its counters counts
    Regions,        \* per map ID: its regions' expressions
    Sources,        \* per map ID: its sources, <<path, digest>>
    Disagreeing,    \* {m}, or {m, n}: map IDs whose definitions contradict
    MapChoices,     \* bound: the sets of maps a command names
    MaxProfiles,    \* bound: how many profiles it names
    Requests        \* its run selections: a set of runs, {} for implicit-single

MapIDs   == {a.id : a \in MapInputs}
Data     == {a.data : a \in ProfileInputs}
Runs     == {d.run : d \in Data}
Contexts == {d.context : d \in Data}
Points   == UNION {{Binding[m][i] : i \in DOMAIN Binding[m]} : m \in MapIDs}

ASSUME InputAssumption ==
    /\ MapChoices \subseteq SUBSET MapInputs
    /\ \A a \in MapInputs : a.form \in {"whole", "refused"}
    /\ \A a \in ProfileInputs : a.form \in {"whole", "torn", "refused"}
    /\ \A d \in Data : \A i \in DOMAIN d.counts : d.counts[i] \in 0 .. MaxCount
    /\ IsFiniteSet(ProfileInputs)

\* What formats/map.py asks of a map: distinct counters count distinct points, and
\* an expression has integer coefficients on points of its map.
ASSUME MapAssumption ==
    \A m \in MapIDs :
       /\ \A i, j \in DOMAIN Binding[m] : Binding[m][i] = Binding[m][j] => i = j
       /\ \A e \in Regions[m] : /\ e \in [DOMAIN e -> Int] /\ IsFiniteSet(DOMAIN e)
                                 /\ DOMAIN e \subseteq {Binding[m][i] : i \in DOMAIN Binding[m]}

VARIABLES
    maps, profiles, allow, request, \* the command: its inputs and its options
    phase,      \* how far merge has come
    todo,       \* what the loop under way has still to visit
    decoded,    \* the maps validate_map accepted
    trusted,    \* accepted_maps: the IDs of the maps that are used
    alone,      \* the profiles that decode without a map
    torn,       \* the profiles that are incomplete rather than rejected
    accepted,   \* the profiles that count
    counts,     \* the counts so far, per context and point
    complete,   \* the verdict on the evidence
    end         \* what the command did: "published", "withheld", "refused"

command == <<maps, profiles, allow, request>>
classes == <<decoded, trusted, alone, torn, accepted>>
vars    == <<command, phase, todo, classes, counts, complete, end>>

Init ==
    /\ maps \in MapChoices
    /\ profiles \in {s \in SUBSET ProfileInputs : Cardinality(s) <= MaxProfiles}
    /\ allow \in BOOLEAN /\ request \in Requests
    /\ phase = "maps" /\ todo = maps
    /\ decoded = {} /\ trusted = {} /\ alone = {} /\ torn = {} /\ accepted = {}
    /\ counts = [c \in Contexts |-> [p \in Points |-> Zero]]
    /\ complete = FALSE /\ end = "none"

-----------------------------------------------------------------------------
(* Decisions, each after the mistake a property would reveal; a definition *)
(* ..._wrong is not part of the specification.                             *)

\* _conflicting: a map that contradicts itself, and both of two maps that
\* contradict each other.
Selfish(ids) == {m \in ids : {m} \in Disagreeing}
Conflicting_wrong(ids) == Selfish(ids)
Conflicting(ids) ==
    Selfish(ids) \cup {m \in ids \ Selfish(ids) :
                          \E n \in ids \ Selfish(ids) : {m, n} \in Disagreeing}

\* One profile ID with different bytes, among all that decode.
Collides_wrong(a) == \E b \in accepted : b.data.id = a.data.id /\ b.data # a.data
Collides(a)       == \E b \in alone : b.data.id = a.data.id /\ b.data # a.data

\* Equal bytes are one profile.
Distinct == {a.data : a \in accepted}

\* The second decode: every counter that ran is one of the map's.
Fits(d) == \A i \in DOMAIN d.counts : d.counts[i] # 0 => i \in DOMAIN Binding[d.map]

\* A profile's own count of a point, through its own map's binding.
PointCount(d, p) ==
    LET slots == {i \in DOMAIN Binding[d.map] : Binding[d.map][i] = p /\ i \in DOMAIN d.counts}
    IN  IF slots = {} THEN 0 ELSE d.counts[CHOOSE i \in slots : TRUE]

\* _Regions.impossible
Impossible(d) ==
    \E e \in Regions[d.map] : Negative(e, [p \in Points |-> Physical(PointCount(d, p))])

Exprs == UNION {Regions[m] : m \in trusted}

\* One path with two digests (COV3004).
TwoVersions ==
    \E m, n \in trusted : \E s \in Sources[m], t \in Sources[n] : s[1] = t[1] /\ s[2] # t[2]

Selected  == {a.data.run : a \in accepted}
Satisfied == IF request = {} THEN Cardinality(Selected) = 1 ELSE Selected = request

\* Every input of the command has the status accepted.
AllAccepted_wrong == alone \subseteq accepted
AllAccepted       == accepted = profiles /\ \A a \in maps : a.form = "whole" /\ a.id \in trusted

-----------------------------------------------------------------------------

ReadMap(a) ==
    /\ phase = "maps" /\ a \in todo
    /\ todo' = todo \ {a}
    /\ decoded' = IF a.form = "whole" THEN decoded \cup {a} ELSE decoded
    /\ UNCHANGED <<command, phase, trusted, alone, torn, accepted, counts, complete, end>>

MapsAgree ==
    /\ phase = "maps" /\ todo = {}
    /\ LET ids == {a.id : a \in decoded} IN trusted' = ids \ Conflicting(ids)
    /\ phase' = "profiles" /\ todo' = profiles
    /\ UNCHANGED <<command, decoded, alone, torn, accepted, counts, complete, end>>

Decode(a) ==
    /\ phase = "profiles" /\ a \in todo
    /\ todo' = todo \ {a}
    /\ alone' = IF a.form = "whole" THEN alone \cup {a} ELSE alone
    /\ torn' = IF a.form = "torn" THEN torn \cup {a} ELSE torn
    /\ UNCHANGED <<command, phase, decoded, trusted, accepted, counts, complete, end>>

Decoded ==
    /\ phase = "profiles" /\ todo = {}
    /\ phase' = "bind" /\ todo' = alone
    /\ UNCHANGED <<command, classes, counts, complete, end>>

\* One round of the loop that accepts: any finding rejects the input.
Bind(a) ==
    /\ phase = "bind" /\ a \in todo
    /\ todo' = todo \ {a}
    /\ accepted' = IF /\ ~Collides(a)
                      /\ a.data.map \in trusted
                      /\ Fits(a.data)
                      /\ ~Impossible(a.data)
                   THEN accepted \cup {a} ELSE accepted
    /\ UNCHANGED <<command, phase, decoded, trusted, alone, torn, counts, complete, end>>

\* build_indexed: the verdict is made before anything is counted.
Index ==
    /\ phase = "bind" /\ todo = {}
    /\ complete' = /\ accepted # {} /\ AllAccepted /\ Satisfied
                   /\ ~TwoVersions /\ ~allow
    /\ phase' = "count" /\ todo' = Distinct
    /\ UNCHANGED <<command, classes, counts, end>>

Count(d) ==
    /\ phase = "count" /\ d \in todo
    /\ todo' = todo \ {d}
    /\ counts' = [counts EXCEPT ![d.context] =
                    [p \in Points |-> IF PointCount(d, p) = 0 THEN @[p]
                                      ELSE Plus(@[p], PointCount(d, p))]]
    /\ UNCHANGED <<command, phase, classes, complete, end>>

\* The regions of every map are evaluated on the sums; one that is negative on
\* exact counts refuses the whole merge.
Combine ==
    /\ phase = "count" /\ todo = {}
    /\ IF \E e \in Exprs, c \in Contexts : Negative(e, counts[c])
       THEN phase' = "end" /\ end' = "refused"
       ELSE phase' = "publish" /\ UNCHANGED end
    /\ UNCHANGED <<command, todo, classes, counts, complete>>

\* cmd_merge writes complete evidence, and incomplete evidence only on request.
Publish ==
    /\ phase = "publish"
    /\ phase' = "end"
    /\ end' = IF complete \/ allow THEN "published" ELSE "withheld"
    /\ UNCHANGED <<command, todo, classes, counts, complete>>

Ended == phase = "end" /\ UNCHANGED vars

Next ==
    \/ \E a \in maps : ReadMap(a)
    \/ MapsAgree
    \/ \E a \in profiles : Decode(a) \/ Bind(a)
    \/ Decoded \/ Index
    \/ \E d \in Data : Count(d)
    \/ Combine \/ Publish \/ Ended

Spec == Init /\ [][Next]_vars

-----------------------------------------------------------------------------
(* Properties. *)

\* Every variable has its type.
TypeOK ==
    /\ maps \subseteq MapInputs /\ profiles \subseteq ProfileInputs
    /\ allow \in BOOLEAN /\ request \in Requests
    /\ phase \in {"maps", "profiles", "bind", "count", "publish", "end"}
    /\ todo \subseteq CASE phase = "maps" -> maps
                         [] phase = "profiles" -> profiles
                         [] phase = "bind" -> alone
                         [] OTHER -> Data
    /\ decoded \subseteq maps /\ trusted \subseteq {a.id : a \in decoded}
    /\ alone \subseteq profiles /\ torn \subseteq profiles
    /\ accepted \subseteq alone
    /\ counts \in [Contexts -> [Points -> Counts]]
    /\ complete \in BOOLEAN
    /\ end \in {"none", "published", "withheld", "refused"}

\* A profile ID that two whole profiles use with different bytes is used by no
\* accepted profile, whichever of them the loop of merge meets first.
CollisionsRejected ==
    \A a \in accepted : \A b \in profiles :
        b.form = "whole" /\ b.data.id = a.data.id => b.data = a.data

\* No two of the maps that give the counts their meaning contradict each other
\* (_conflicting), and every accepted profile is bound to one of them.
MeaningAgrees ==
    phase # "maps" =>
        /\ \A m, n \in trusted : {m, n} \notin Disagreeing
        /\ \A a \in accepted : a.data.map \in trusted

\* What the processes may really have counted: a saturated counter stands for
\* any number from the maximum up.
Truths(d) == {t \in [DOMAIN d.counts -> 0 .. MaxCount + 1] :
                  \A i \in DOMAIN t : Saturated(t[i]) = d.counts[i]}
Worlds == {f \in [Distinct -> UNION {Truths(d) : d \in Distinct}] :
               \A d \in Distinct : f[d] \in Truths(d)}
TrulyRan(f, c, p) ==
    SumFunction([d \in {x \in Distinct : x.context = c} |->
                    SumFunctionOnSet(f[d], {i \in DOMAIN f[d] : i \in DOMAIN Binding[d.map]
                                                                /\ Binding[d.map][i] = p})])
TrulyEntered(f, c, e) == SumFunction([p \in DOMAIN e |-> e[p] * TrulyRan(f, c, p)])

\* The count of a region, over all contexts, is never more than the truth, and
\* is the truth unless it is marked as a lower bound: whatever saturated in a
\* counter, in a sum of profiles or in the expression (semantic.py and expr.py).
RegionsSound ==
    end \in {"published", "withheld"} =>
        \A f \in Worlds : \A e \in Exprs :
            LET told  == Aggregate([c \in Contexts |-> Evaluate(e, counts[c])])
                truth == SumFunction([c \in Contexts |-> TrulyEntered(f, c, e)])
            IN  (\A c \in Contexts : TrulyEntered(f, c, e) >= 0) =>
                    /\ told.value <= truth
                    /\ ~told.inexact => told.value = truth

\* No input was torn or refused, and every profile is accepted.
NothingLeftOut ==
    /\ torn = {} /\ profiles = accepted
    /\ {a.id : a \in maps} = trusted

\* Complete evidence leaves nothing out: each count in it is what all the
\* profiles that were supplied add up to, copies once.
CompleteIsAll ==
    complete =>
        /\ NothingLeftOut
        /\ phase \in {"publish", "end"} =>
              \A c \in Contexts, p \in Points :
                 LET given == {d \in {a.data : a \in profiles} : d.context = c}
                     sum   == SumFunction([d \in given |-> PointCount(d, p)])
                 IN  counts[c][p] = [value |-> Saturated(sum), inexact |-> sum >= MaxCount]

Promise == INSTANCE MergedEvidence WITH
    outcome <- IF phase = "end"
               THEN [end |-> end, accepted |-> accepted, complete |-> complete,
                     counts |-> [x \in Contexts \X Points |-> counts[x[1]][x[2]]]]
               ELSE [end |-> "none"]

\* However the inputs are ordered and named, the evidence is the one function of
\* the set of inputs that docs/merge.md describes.
Implements == Promise!Spec
=============================================================================
