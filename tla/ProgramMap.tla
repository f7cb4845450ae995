----------------------------- MODULE ProgramMap -----------------------------
(***************************************************************************)
(* formats/map.py: the canonical orders of a map's records, the identity   *)
(* of a point (model/identity.py), and the rules a map must satisfy beyond *)
(* its schema.  A merge is given no source text, so the checks against the *)
(* text are not part of this.                                              *)
(***************************************************************************)
EXTENDS Schemas, SequencesExt

\* Lexicographic order of keys.
Before(a, b) ==
    \E i \in 1 .. Len(b) :
        /\ \A j \in 1 .. i - 1 : j \in DOMAIN a /\ a[j] = b[j]
        /\ i \notin DOMAIN a \/ a[i] < b[i]

Ordered(s, Key(_)) == \A i \in 1 .. Len(s) - 1 : Before(Key(s[i]), Key(s[i + 1]))

\* The records of a set in the order of their keys, and where a key is.
SortedBy(S, Key(_)) ==
    [i \in 1 .. Cardinality(S) |->
        CHOOSE x \in S : Cardinality({y \in S : Before(Key(y), Key(x))}) = i - 1]
PositionOf(s, Key(_), k) == CHOOSE i \in DOMAIN s : Key(s[i]) = k

\* Names that keys hold, in byte order.
NameOrder ==
    <<"accepted", "assert", "assignment", "branch_body", "branch_off", "break", "call",
      "conditional_expression", "continue", "contract", "contract_off", "ensures", "expression",
      "expression_statement", "function", "if", "incomplete", "initializer", "loop", "loop_body",
      "loop_invariant", "match", "match_arm", "mutation", "off", "rejected", "requires", "return",
      "short_circuit">>
Rank(name) == CHOOSE i \in DOMAIN NameOrder : NameOrder[i] = name

SpanKey(r)   == <<r.source_index, r.span.start_byte, r.span.end_byte>>
SourceKey(s) == <<s.path, s.digest>>
EntityKey(e) == SpanKey(e) \o <<Rank(e.kind), e.qualified_name>>

\* The canonical bytes of an expression, as far as they order two of them: no
\* terms come first, and a list that goes on comes before one that ends.
Encoded(terms) ==
    LET order == SortedBy(terms, LAMBDA t : t.point_id)
        term(i) == <<order[i].coefficient>> \o order[i].point_id \o <<IF i = Len(order) THEN 0 ELSE 1>>
    IN  FlattenSeq([i \in DOMAIN order |-> term(i)])

RegionKey(r)    == SpanKey(r) \o <<Rank(r.kind)>> \o Encoded(r.counter_expression)
BranchKey(b)    == SpanKey(b) \o <<Rank(b.kind)>> \o b.outcomes[1].point_id
ContractKey(c)  == SpanKey(c) \o <<Rank(c.kind), c.entity_index>>
ExclusionKey(x) == SpanKey(x) \o <<Rank(x.mode), x.reason>>

SeqRange(s) == {s[i] : i \in DOMAIN s}
PointsBy(points) ==
    [pid \in {p.point_id : p \in points} |-> CHOOSE p \in points : p.point_id = pid]
OutcomeIDs(b) == {o.point_id : o \in SeqRange(b.outcomes)}
TermIDs(r)    == {t.point_id : t \in r.counter_expression}

-----------------------------------------------------------------------------
(* Point identity. *)

KindNumber(kind) ==
    CASE kind = "function_entry" -> 1
      [] kind = "region"         -> 2
      [] kind = "branch_outcome" -> 3
      [] kind = "contract_true"  -> 4
      [] kind = "contract_false" -> 5

AllowedEntityKinds(kind) ==
    CASE kind = "function_entry"                    -> {"function"}
      [] kind \in {"region", "branch_outcome"}      -> {"none", "function"}
      [] kind \in {"contract_true", "contract_false"} -> {"contract"}

EntityKindOf(p, entities) ==
    IF p.entity_index = Null THEN "none" ELSE entities[p.entity_index].kind

\* preimage; its digest is taken to be injective.
PointIdentity(p, sources, entities) ==
    LET src == sources[p.source_index] IN
    <<src.path, src.digest>>
      \o (IF p.entity_index = Null THEN <<0, 0>>
          ELSE <<Rank(entities[p.entity_index].kind), entities[p.entity_index].qualified_name>>)
      \o <<KindNumber(p.kind), p.span.start_byte, p.span.end_byte,
           IF p.outcome_ordinal = Null THEN 0 ELSE p.outcome_ordinal, p.semantic_discriminator>>

-----------------------------------------------------------------------------
(* The rules of a map, each after its Python function. *)

Uncounted == {"excluded", "statically_unreachable"}

Within(inner, outer) == outer.start_byte <= inner.start_byte /\ inner.end_byte <= outer.end_byte
SpanOK(span) == span.start_byte <= span.end_byte /\ span.start_line <= span.end_line

\* _owner_ok: an owner is a function of the same source that encloses the span.
OwnerOK(r, owner, entities) ==
    owner # Null =>
        /\ owner \in DOMAIN entities
        /\ entities[owner].kind = "function" /\ entities[owner].source_index = r.source_index
        /\ Within(r.span, entities[owner].span)

SourcesOK(m) ==
    /\ Ordered(m.sources, LAMBDA s : <<s.path>>)
    /\ \A s \in SeqRange(m.sources) : s.ownership = "dependency" => s.package # Null

EntitiesOK(m) ==
    /\ \A e \in SeqRange(m.entities) : e.source_index \in DOMAIN m.sources /\ SpanOK(e.span)
    /\ Ordered(m.entities, EntityKey)

PointOK(p, m) ==
    /\ p.source_index \in DOMAIN m.sources /\ SpanOK(p.span)
    /\ p.entity_index # Null =>
          /\ p.entity_index \in DOMAIN m.entities
          /\ m.entities[p.entity_index].source_index = p.source_index
          /\ Within(p.span, m.entities[p.entity_index].span)
    /\ EntityKindOf(p, m.entities) \in AllowedEntityKinds(p.kind)
    /\ (p.kind = "branch_outcome") = (p.outcome_ordinal # Null)
    /\ (p.kind \in {"contract_true", "contract_false"}) = (p.classification = "contract")
    /\ p.point_id = PointIdentity(p, m.sources, m.entities)
    /\ (p.counter_index = Null) = (p.fragment_index = Null)
    /\ p.counter_index # Null => p.classification \notin Uncounted

CountedPoints(m) == {p \in m.points : p.counter_index # Null}

PointsOK(m) ==
    /\ \A p \in m.points : PointOK(p, m)
    /\ \A p, q \in m.points : p.point_id = q.point_id => p = q
    /\ Cardinality(CountedPoints(m)) = m.program_counter_count
    /\ {p.counter_index : p \in CountedPoints(m)} = 0 .. m.program_counter_count - 1

\* _check_fragments: fragments own consecutive slices of the counters, in the order
\* of their first sources, and no two are the same projection.  Which of two
\* fragments of one first source comes first is for their digests to say.
FragmentsOK(m) ==
    LET slice(f) == f.slice_base .. f.slice_base + f.slice_length - 1
        first(f) == SourceKey(m.sources[CHOOSE i \in f.source_indices : \A j \in f.source_indices : i <= j])
        projection(f) == <<f.source_indices, {p.point_id : p \in {q \in CountedPoints(m) : q.counter_index \in slice(f)}}>>
        endOf(i) == MapThenSumSet(LAMBDA j : m.fragments[j].slice_length, 1 .. i)
    IN  /\ \A i \in DOMAIN m.fragments :
              LET f == m.fragments[i] IN
              /\ f.source_indices \subseteq DOMAIN m.sources
              /\ f.slice_base = endOf(i - 1)
              /\ \A p \in CountedPoints(m) :
                    p.counter_index \in slice(f) =>
                        p.fragment_index = i /\ p.source_index \in f.source_indices
        /\ \A i \in 1 .. Len(m.fragments) - 1 : ~Before(first(m.fragments[i + 1]), first(m.fragments[i]))
        /\ \A i, j \in DOMAIN m.fragments : i # j => projection(m.fragments[i]) # projection(m.fragments[j])
        /\ endOf(Len(m.fragments)) = m.program_counter_count
        /\ \A p \in CountedPoints(m) : p.fragment_index \in DOMAIN m.fragments

RegionOK(r, m) ==
    LET by == PointsBy(m.points) IN
    /\ r.source_index \in DOMAIN m.sources /\ SpanOK(r.span)
    /\ OwnerOK(r, r.entity_index, m.entities)
    /\ \A t \in r.counter_expression :
          /\ t.coefficient # 0
          /\ t.point_id \in DOMAIN by
          /\ by[t.point_id].counter_index # Null
          /\ by[t.point_id].source_index = r.source_index
          /\ by[t.point_id].entity_index = r.entity_index
    /\ \A t, u \in r.counter_expression : t.point_id = u.point_id => t = u
    /\ r.classification = "user" => r.counter_expression # {}
    /\ r.classification \in Uncounted => r.counter_expression = {}
    /\ r.line_numbers \subseteq r.span.start_line .. r.span.end_line
    /\ r.span.start_byte = r.span.end_byte => r.line_numbers = {}

RegionsOK(m) ==
    /\ \A r \in SeqRange(m.regions) : RegionOK(r, m)
    /\ Ordered(m.regions, RegionKey)

\* OUTCOME_NAMES; the arms of a match are numbered from 0.
OutcomeNames(kind, n) ==
    CASE kind \in {"if", "conditional_expression"} -> <<"true", "false">>
      [] kind = "loop"          -> <<"body", "exit">>
      [] kind = "short_circuit" -> <<"evaluated", "skipped">>
      [] kind = "match"         -> SubSeq(<<"arm:0", "arm:1", "arm:2">>, 1, n)
NamesOK(b) ==
    [i \in DOMAIN b.outcomes |-> b.outcomes[i].name] = OutcomeNames(b.kind, Len(b.outcomes))

OutcomePoint(b, i, p) ==
    /\ p.kind = "branch_outcome" /\ p.source_index = b.source_index
    /\ p.entity_index = b.entity_index /\ p.outcome_ordinal = i /\ p.span = b.span

\* Every outcome point belongs to exactly one branch.
OutcomesUsedOnce(branches, points) ==
    /\ \A i, j \in DOMAIN branches : i # j => OutcomeIDs(branches[i]) \cap OutcomeIDs(branches[j]) = {}
    /\ \A b \in SeqRange(branches) : Cardinality(OutcomeIDs(b)) = Len(b.outcomes)
    /\ \A p \in points : p.kind = "branch_outcome" =>
          \E b \in SeqRange(branches) : p.point_id \in OutcomeIDs(b)

BranchOK(b, m) ==
    LET by == PointsBy(m.points) IN
    /\ b.source_index \in DOMAIN m.sources /\ SpanOK(b.span)
    /\ OwnerOK(b, b.entity_index, m.entities)
    /\ NamesOK(b)
    /\ \A i \in DOMAIN b.outcomes :
          LET o == b.outcomes[i] IN
          /\ (o.classification = "statically_unreachable") = (o.evidence_identity # Null)
          /\ o.point_id \in DOMAIN by
          /\ OutcomePoint(b, i, by[o.point_id])
          /\ by[o.point_id].classification =
                IF o.classification = "eligible" THEN "user" ELSE o.classification

BranchesOK(m) ==
    /\ \A b \in SeqRange(m.branches) : BranchOK(b, m)
    /\ OutcomesUsedOnce(m.branches, m.points)
    /\ Ordered(m.branches, BranchKey)

\* Every contract entity is the entity of exactly one clause.
ClausesOwnEntities(contracts, entities) ==
    /\ \A c \in SeqRange(contracts) :
          /\ c.entity_index \in DOMAIN entities
          /\ LET e == entities[c.entity_index] IN
             e.kind = "contract" /\ e.source_index = c.source_index /\ e.span = c.span
    /\ \A i, j \in DOMAIN contracts : contracts[i].entity_index = contracts[j].entity_index => i = j
    /\ {c.entity_index : c \in SeqRange(contracts)} = {i \in DOMAIN entities : entities[i].kind = "contract"}

ContractOK(c, m) ==
    LET by == PointsBy(m.points)
        counts(pid, kind) ==
            /\ pid \in DOMAIN by /\ by[pid].kind = kind
            /\ by[pid].entity_index = c.entity_index /\ by[pid].counter_index # Null
    IN  /\ SpanOK(c.span) /\ OwnerOK(c, c.function_entity_index, m.entities)
        /\ c.enforcement = "runtime_checked" =>
              /\ counts(c.true_point_id, "contract_true") /\ counts(c.false_point_id, "contract_false")
              /\ c.evidence_identity = Null
        /\ c.enforcement # "runtime_checked" =>
              /\ c.true_point_id = Null /\ c.false_point_id = Null
              /\ (c.evidence_identity # Null) = (c.enforcement = "statically_verified")

ContractsOK(m) ==
    /\ ClausesOwnEntities(m.contracts, m.entities)
    /\ \A c \in SeqRange(m.contracts) : ContractOK(c, m)
    /\ \A p \in m.points : p.classification = "contract" =>
          \E c \in SeqRange(m.contracts) : p.point_id \in {c.true_point_id, c.false_point_id}
    /\ Ordered(m.contracts, ContractKey)

\* What one exclusion may remove.  d is a map or a semantic document, by its
\* points by identity.
ExclusionOK(x, d, by) ==
    LET a == x.affected
        outcomes == UNION {OutcomeIDs(d.branches[i]) : i \in a.branch_indices}
        clauses  == {d.contracts[i].entity_index : i \in a.clause_indices}
    IN  /\ x.source_index \in DOMAIN d.sources
        /\ a.branch_indices \subseteq DOMAIN d.branches /\ a.clause_indices \subseteq DOMAIN d.contracts
        /\ a.entity_indices \subseteq DOMAIN d.entities /\ a.region_indices \subseteq DOMAIN d.regions
        /\ a.point_ids \subseteq DOMAIN by
        /\ \E field \in DOMAIN a : a[field] # {}
        /\ x.mode = "contract_off" =>
              /\ a.branch_indices = {} /\ a.region_indices = {} /\ a.clause_indices # {}
              /\ a.entity_indices \subseteq clauses
              /\ \A pid \in a.point_ids : by[pid].entity_index \in clauses
        /\ x.mode # "contract_off" =>
              /\ a.clause_indices = {}
              /\ \A pid \in a.point_ids : by[pid].classification = "excluded"
              /\ \A i \in a.region_indices : d.regions[i].classification = "excluded"
              /\ outcomes \subseteq a.point_ids
              /\ \A i \in a.entity_indices : d.entities[i].kind = "function"
        /\ x.mode = "branch_off" =>
              /\ a.region_indices = {} /\ a.entity_indices = {} /\ a.branch_indices # {}
              /\ a.point_ids = outcomes

\* Exclusions share nothing, and claim everything that is classified excluded.
ExclusionsOK(d) ==
    LET by == PointsBy(d.points)
        xs == d.exclusions
    IN  /\ \A x \in SeqRange(xs) : ExclusionOK(x, d, by)
        /\ \A i, j \in DOMAIN xs : i # j =>
              \A field \in DOMAIN xs[i].affected : xs[i].affected[field] \cap xs[j].affected[field] = {}
        /\ \A p \in d.points : p.classification = "excluded" =>
              \E x \in SeqRange(xs) : p.point_id \in x.affected.point_ids
        /\ \A i \in DOMAIN d.regions : d.regions[i].classification = "excluded" =>
              \E x \in SeqRange(xs) : i \in x.affected.region_indices
        /\ Ordered(xs, ExclusionKey)

\* validate_map.
ValidMap(m) ==
    /\ m \in MapDocument
    /\ SourcesOK(m) /\ EntitiesOK(m) /\ PointsOK(m) /\ FragmentsOK(m)
    /\ RegionsOK(m) /\ BranchesOK(m) /\ ContractsOK(m)
    /\ \A x \in SeqRange(m.exclusions) : SpanOK(x.span)
    /\ ExclusionsOK(m)
=============================================================================
