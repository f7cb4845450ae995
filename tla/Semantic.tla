------------------------------ MODULE Semantic ------------------------------
(***************************************************************************)
(* model/semantic.py, build_semantic: what accepted maps and profiles add  *)
(* up to.  Records of several maps are united under their keys, with their *)
(* references moved to the united tables; two different records under one  *)
(* key refuse the merge.  A table t holds the united arrays made so far.   *)
(*                                                                         *)
(* A profile is [profile_id, run_id, map_id, backend, context, counts],    *)
(* counts being the nonzero counts by counter.                             *)
(***************************************************************************)
EXTENDS ProgramMap

With(f, name, value) == [k \in DOMAIN f \cup {name} |-> IF k = name THEN value ELSE f[k]]
Without(f, names)    == [k \in DOMAIN f \ names |-> f[k]]

\* _Union: a second definition must equal the first.
Contradicts(S, Key(_)) == \E x, y \in S : x # y /\ Key(x) = Key(y)

-----------------------------------------------------------------------------
(* References of map m in the united tables. *)

SrcOf(m, i, t) == PositionOf(t.sources, SourceKey, SourceKey(m.sources[i]))
Moved(r, m, t) == [r EXCEPT !.source_index = SrcOf(m, @, t)]
EntOf(m, i, t) ==
    IF i = Null THEN Null ELSE PositionOf(t.entities, EntityKey, EntityKey(Moved(m.entities[i], m, t)))
Owned(r, m, t) == [Moved(r, m, t) EXCEPT !.entity_index = EntOf(m, @, t)]

OwnedClause(c, m, t) == [Owned(c, m, t) EXCEPT !.function_entity_index = EntOf(m, @, t)]

CountlessPoint(p, m, t) ==
    With(Without(Owned(p, m, t), {"counter_index"}), "counted", p.counter_index # Null)

\* The affected sets of an exclusion.
MovedExclusion(x, m, t) ==
    LET a == x.affected IN
    [Moved(x, m, t) EXCEPT !.affected =
        [branch_indices |-> {PositionOf(t.branches, BranchKey, BranchKey(Owned(m.branches[i], m, t))) :
                                i \in a.branch_indices},
         clause_indices |-> {PositionOf(t.contracts, ContractKey, ContractKey(OwnedClause(m.contracts[i], m, t))) :
                                i \in a.clause_indices},
         entity_indices |-> {EntOf(m, i, t) : i \in a.entity_indices},
         point_ids      |-> a.point_ids,
         region_indices |-> {PositionOf(t.regions, RegionKey, RegionKey(Owned(m.regions[i], m, t))) :
                                i \in a.region_indices}]]

\* The united sources and entities of maps, or a refusal.
Places(maps) ==
    LET srcs    == UNION {SeqRange(m.sources) : m \in maps}
        sources == SortedBy(srcs, SourceKey)
        ents    == UNION {{Moved(e, m, [sources |-> sources]) : e \in SeqRange(m.entities)} : m \in maps}
    IN  IF Contradicts(srcs, SourceKey) \/ Contradicts(ents, EntityKey) THEN Refused("COV3002")
        ELSE [sources |-> sources, entities |-> SortedBy(ents, EntityKey)]

\* The records of maps that refer to them, t being the places.
Records(maps, t) ==
    [points    |-> UNION {{CountlessPoint(p, m, t) : p \in m.points} : m \in maps},
     regions   |-> UNION {{Owned(r, m, t) : r \in SeqRange(m.regions)} : m \in maps},
     branches  |-> UNION {{Owned(b, m, t) : b \in SeqRange(m.branches)} : m \in maps},
     contracts |-> UNION {{OwnedClause(c, m, t) : c \in SeqRange(m.contracts)} : m \in maps}]

\* What exclusions refer to, in order.
Arranged(t, x) ==
    [sources |-> t.sources, entities |-> t.entities, points |-> x.points,
     regions |-> SortedBy(x.regions, RegionKey), branches |-> SortedBy(x.branches, BranchKey),
     contracts |-> SortedBy(x.contracts, ContractKey)]
Finished(tables, excls) ==
    IF Contradicts(excls, ExclusionKey) THEN Refused("COV3002")
    ELSE With(tables, "exclusions", SortedBy(excls, ExclusionKey))
WithExclusions(maps, tables) ==
    Finished(tables, UNION {{MovedExclusion(x, m, tables) : x \in SeqRange(m.exclusions)} : m \in maps})

United(maps, t, x) ==
    IF \/ Contradicts(x.points, LAMBDA p : p.point_id)
       \/ Contradicts(x.regions, RegionKey)
       \/ Contradicts(x.branches, BranchKey)
       \/ Contradicts(x.contracts, ContractKey)
    THEN Refused("COV3002")
    ELSE WithExclusions(maps, Arranged(t, x))

\* The united tables of maps, or a refusal.
Tables(maps) ==
    IF Contradicts(maps, LAMBDA m : m.map_id) \/ IsRefused(Places(maps)) THEN Refused("COV3002")
    ELSE United(maps, Places(maps), Records(maps, Places(maps)))

\* _compatible
Compatible(maps) == ~IsRefused(Tables(maps))

-----------------------------------------------------------------------------
(* Counts. *)

\* The points of a map's counters, counter 0 first.
Slots(m) ==
    [i \in 1 .. m.program_counter_count |-> (CHOOSE p \in m.points : p.counter_index = i - 1).point_id]

Ran(p, pid, slots) == {i \in DOMAIN p.counts : i + 1 \in DOMAIN slots /\ slots[i + 1] = pid}

\* The count of a point in the context of some profiles: of(p) is the binding of
\* a profile's map.
CountIn(profiles, pid, Of(_)) ==
    FoldSet(LAMBDA p, acc : FoldSet(LAMBDA i, a : Plus(a, p.counts[i]), acc, Ran(p, pid, Of(p))),
            Zero, profiles)

\* context_key: no context comes first.
ContextOrder(contexts) ==
    SortedBy(contexts, LAMBDA c : IF c = Null THEN <<0>> ELSE <<1, c>>)

\* A count record: f is the count in each context, by position.
Recorded(f) ==
    LET sum == Aggregate(f) IN
    [by_context |-> {[context_index |-> c, lower_bound |-> f[c].inexact, value |-> f[c].value] :
                        c \in {d \in DOMAIN f : f[d].value # 0 \/ f[d].inexact}},
     lower_bound |-> sum.inexact, value |-> sum.value]

ExprOf(r) ==
    [pid \in TermIDs(r) |-> (CHOOSE t \in r.counter_expression : t.point_id = pid).coefficient]

-----------------------------------------------------------------------------
(* What the counts say of lines, outcomes and clauses.  regions carry      *)
(* their counts.                                                           *)

Lines(regions) ==
    LET where  == UNION {{<<r.source_index, n>> : n \in r.line_numbers} : r \in SeqRange(regions)}
        listed(w) == {i \in DOMAIN regions : regions[i].source_index = w[1] /\ w[2] \in regions[i].line_numbers}
        contributing(w) == {i \in listed(w) : regions[i].line_contributing}
        ran(w) == {regions[i].count.value > 0 :
                      i \in {j \in contributing(w) : regions[j].classification = "user"}}
        status(w) ==
            CASE ran(w) = {TRUE}        -> "covered"
              [] ran(w) = {TRUE, FALSE} -> "partial"
              [] ran(w) = {FALSE}       -> "uncovered"
              [] OTHER -> IF \E i \in listed(w) : regions[i].classification = "excluded"
                          THEN "excluded" ELSE "non_executable"
        order == SortedBy(where, LAMBDA w : w)
    IN  [n \in DOMAIN order |->
            [line |-> order[n][2], region_indices |-> contributing(order[n]),
             source_index |-> order[n][1], status |-> status(order[n])]]

OutcomeStatus(classification, count) ==
    IF classification # "eligible" THEN classification
    ELSE IF count.value > 0 THEN "covered" ELSE "uncovered"

RuntimeResult(ran_true, ran_false) ==
    CASE ran_true.value > 0 /\ ran_false.value > 0 -> "mixed"
      [] ran_true.value > 0 /\ ran_false.value = 0 -> "evaluated_true"
      [] ran_true.value = 0 /\ ran_false.value > 0 -> "evaluated_false"
      [] OTHER -> "not_evaluated"

\* count[pid] is the count record of a point.
CountedBranch(b, count) ==
    [entity_index |-> b.entity_index, kind |-> b.kind, source_index |-> b.source_index, span |-> b.span,
     outcomes |-> [i \in DOMAIN b.outcomes |->
        LET o == b.outcomes[i] IN
        [count |-> count[o.point_id], evidence_identity |-> o.evidence_identity, name |-> o.name,
         point_id |-> o.point_id, status |-> OutcomeStatus(o.classification, count[o.point_id])]]]

CountedContract(c, count) ==
    LET runtime == c.enforcement = "runtime_checked" IN
    [count_false |-> IF runtime THEN count[c.false_point_id] ELSE Null,
     count_true  |-> IF runtime THEN count[c.true_point_id] ELSE Null,
     enforcement |-> c.enforcement, entity_index |-> c.entity_index, evidence_identity |-> c.evidence_identity,
     function_entity_index |-> c.function_entity_index, kind |-> c.kind,
     runtime_result |-> IF runtime THEN RuntimeResult(count[c.true_point_id], count[c.false_point_id])
                        ELSE "not_applicable",
     source_index |-> c.source_index, span |-> c.span]

CountedPoint(p, count) ==
    [classification |-> p.classification, count |-> count[p.point_id], entity_index |-> p.entity_index,
     kind |-> p.kind, outcome_ordinal |-> p.outcome_ordinal, point_id |-> p.point_id,
     semantic_discriminator |-> p.semantic_discriminator, source_index |-> p.source_index, span |-> p.span]

CountedRegion(r, record) ==
    [classification |-> r.classification, count |-> record, counter_expression |-> r.counter_expression,
     entity_index |-> r.entity_index, kind |-> r.kind, line_contributing |-> r.line_contributing,
     line_numbers |-> r.line_numbers, source_index |-> r.source_index, span |-> r.span]

OrdinaryMetrics == {"branch", "function", "line", "region"}

SaturationOf(points, regions, policy) ==
    LET hot  == {p.point_id : p \in {q \in points : q.count.lower_bound}}
        hotr == {i \in DOMAIN regions : regions[i].count.lower_bound}
        any  == hot # {} \/ hotr # {}
    IN  [affected_point_ids |-> hot, affected_region_indices |-> hotr, any |-> any,
         eligible_metrics |-> IF any /\ policy = "allow-ordinary" THEN OrdinaryMetrics ELSE {},
         ineligible_uses |-> {}, policy |-> policy]

\* COV3004: one path with two digests.
TwoVersions(sources) ==
    \E i, j \in DOMAIN sources : sources[i].path = sources[j].path /\ sources[i].digest # sources[j].digest

-----------------------------------------------------------------------------

\* The counted records of the tables t.  The profiles' maps are among the maps, and no
\* two profiles share an identity: merge has seen to both.
SemanticOf(t, maps, profiles, extra, complete, policy) ==
    LET mapOf(p) == Slots(CHOOSE m \in maps : m.map_id = p.map_id)
        contexts == ContextOrder({p.context : p \in profiles} \cup extra)
        ids      == {p.point_id : p \in t.points}
        counts   == [c \in DOMAIN contexts |->
                        LET mine == {p \in profiles : p.context = contexts[c]} IN
                        [pid \in ids |-> CountIn(mine, pid, mapOf)]]
        record   == [pid \in ids |-> Recorded([c \in DOMAIN contexts |-> counts[c][pid]])]
        regions  == [i \in DOMAIN t.regions |->
                        CountedRegion(t.regions[i],
                            Recorded([c \in DOMAIN contexts |-> Evaluate(ExprOf(t.regions[i]), counts[c])]))]
        points   == {CountedPoint(p, record) : p \in t.points}
        found    == IF TwoVersions(t.sources) THEN {"COV3004"} ELSE {}
    IN  IF \E i \in DOMAIN t.regions, c \in DOMAIN contexts : Negative(ExprOf(t.regions[i]), counts[c])
        THEN Refused("COV3002")
        ELSE [branches    |-> [i \in DOMAIN t.branches |-> CountedBranch(t.branches[i], record)],
              complete    |-> complete /\ found = {},
              contexts    |-> contexts,
              contracts   |-> [i \in DOMAIN t.contracts |-> CountedContract(t.contracts[i], record)],
              diagnostics |-> found,
              entities    |-> t.entities,
              exclusions  |-> t.exclusions,
              lines       |-> Lines(regions),
              map_ids     |-> {m.map_id : m \in maps},
              points      |-> points,
              regions     |-> regions,
              saturation  |-> SaturationOf(points, regions, policy),
              sources     |-> t.sources]

\* build_semantic
BuildSemantic(maps, profiles, extra, complete, policy) ==
    IF IsRefused(Tables(maps)) THEN Tables(maps)
    ELSE SemanticOf(Tables(maps), maps, profiles, extra, complete, policy)
=============================================================================
