------------------------------- MODULE Indexed -------------------------------
(***************************************************************************)
(* model/merge.py and model/indexed.py as functions: what the inputs of a  *)
(* merge become (merge, build_indexed), and what a reader accepts          *)
(* (read_indexed).  Merge.tla has the loops, whose order this leaves out.  *)
(*                                                                         *)
(* A map artifact is [name, sha, fault, map]; sha is Null when its bytes   *)
(* could not be read, fault is the caller's finding, map what the bytes    *)
(* parse to.  A profile artifact is [name, sha, fault, file], file a raw    *)
(* profile of RawProfile.tla.                                              *)
(***************************************************************************)
EXTENDS Semantic

Raw == INSTANCE RawProfile

\* The findings of one map on its own.
MapFindings(a) ==
    IF a.fault # Null THEN {a.fault}
    ELSE IF a.sha = Null \/ a.map = Null THEN {"COV1010"}
    ELSE IF ValidMap(a.map) THEN {} ELSE {"COV1010"}

\* _conflicting
Disagreeing(maps)  == {m \in maps : \E n \in maps : ~Compatible({m, n})}
Conflicting(docs) ==
    IF Compatible(docs) THEN {}
    ELSE LET selfish == {m \in docs : ~Compatible({m})} IN selfish \cup Disagreeing(docs \ selfish)

\* What decode says of a profile without its map.
ReadAlone(a, tier)  == Raw!Verdict(a.file, tier, Null, Null)
Readable(a)         == a.fault = Null /\ a.sha # Null
DecodesAlone(a, tier) == Readable(a) /\ ReadAlone(a, tier) = "accepted"

\* _Regions.impossible, on the profile's own counts.
Impossible(p, m) ==
    LET slots     == Slots(m)
        counts    == [pid \in SeqRange(slots) |->
                        LET i == CHOOSE i \in DOMAIN slots : slots[i] = pid IN
                        IF i - 1 \in DOMAIN p.counts THEN Physical(p.counts[i - 1]) ELSE Zero]
    IN  \E r \in SeqRange(m.regions) : Negative(ExprOf(r), counts)

\* The findings of one profile: alone are the profiles that decode without a map,
\* docs the accepted maps.
ProfileFindings(a, alone, docs, tier) ==
    LET p    == Raw!Decoded(a.file)
        mine == {m \in docs : m.map_id = p.map_id}
        m    == CHOOSE m \in mine : TRUE
        bound == Raw!Verdict(a.file, tier, m.program_counter_count, p.map_id)
    IN  IF a.fault # Null THEN {a.fault}
        ELSE IF a.sha = Null THEN {"COV2010"}
        ELSE IF a \notin alone THEN {ReadAlone(a, tier)}
        ELSE (IF \E b \in alone : Raw!Decoded(b.file).profile_id = p.profile_id /\ b.sha # a.sha
              THEN {"COV2112"} ELSE {})
             \cup (IF mine = {} THEN {"COV2111"}
                   ELSE IF bound # "accepted" THEN {bound}
                   ELSE IF Impossible(p, m) THEN {"COV3002"} ELSE {})

\* merge: the findings of every input, the maps of docs being valid and those of bad
\* in conflict.
Findings(maps, profiles, tier, docs, bad) ==
    LET alone == {a \in profiles : DecodesAlone(a, tier)} IN
    [maps     |-> [a \in maps |-> IF MapFindings(a) = {} /\ a.map \in bad THEN {"COV3002"} ELSE MapFindings(a)],
     profiles |-> [a \in profiles |-> ProfileFindings(a, alone, docs \ bad, tier)]]
ClassifyWith(maps, profiles, tier, docs) == Findings(maps, profiles, tier, docs, Conflicting(docs))
Classify(maps, profiles, tier) ==
    ClassifyWith(maps, profiles, tier, {a.map : a \in {b \in maps : MapFindings(b) = {}}})

-----------------------------------------------------------------------------
(* build_indexed *)

NotApplicable == [exit_code |-> Null, signal |-> Null, status |-> "not_applicable"]

\* Exact copies of an accepted artifact are listed once, under the smallest name.
Listed(records) ==
    {r \in records : r.status = "accepted" =>
        ~ \E s \in records : s.status = "accepted" /\ s.artifact_sha256 = r.artifact_sha256 /\ s.name < r.name}

MapRecord(a, findings) ==
    [artifact_sha256 |-> a.sha, diagnostics |-> findings, name |-> a.name,
     map_id |-> IF findings = {} THEN a.map.map_id ELSE Null,
     status |-> IF findings = {} THEN "accepted" ELSE "rejected"]

\* Torn is incomplete; everything else that is not accepted is rejected.
ProfileStatus(a, findings) ==
    IF findings = {} THEN "accepted"
    ELSE IF findings = {"COV2011"} THEN "incomplete" ELSE "rejected"

\* What is known of a profile, whatever happens to it; Null if nothing is.  A torn
\* header may lack its context.
Told(a) == IF a.sha = Null THEN Null ELSE Raw!PeekHeader(a.file)
TellsContext(a) == LET head == Told(a) IN IF head = Null THEN FALSE ELSE head.has_context

ProfileRecord(a, findings, contexts, ids) ==
    LET head == Told(a)
    IN  [artifact_sha256 |-> a.sha, diagnostics |-> findings, name |-> a.name,
         status        |-> ProfileStatus(a, findings),
         backend       |-> IF head # Null THEN head.backend ELSE Null,
         run_id        |-> IF head # Null THEN head.run_id ELSE Null,
         profile_id    |-> IF head # Null THEN head.profile_id ELSE Null,
         map_id        |-> IF head = Null THEN Null ELSE IF head.map_id \in ids THEN head.map_id ELSE Null,
         context_index |-> IF TellsContext(a) THEN (CHOOSE c \in DOMAIN contexts : contexts[c] = head.context)
                           ELSE Null]

SelectionSatisfied(mode, requested, selected) ==
    \/ mode = "implicit-single" /\ Cardinality(selected) = 1
    \/ mode \in {"explicit-list", "manifest"} /\ selected = requested

BindingRecord(m, sources) ==
    [bindings |-> Slots(m), compiler_identity |-> m.compiler, map_id |-> m.map_id, target |-> m.target,
     source_indices |-> {PositionOf(sources, SourceKey, SourceKey(s)) : s \in SeqRange(m.sources)}]

GlobalCodes(accepted, all_accepted, satisfied) ==
    (IF accepted = {} THEN {"COV3001"} ELSE {}) \cup (IF all_accepted THEN {} ELSE {"COV3002"})
        \cup (IF satisfied THEN {} ELSE {"COV3003"})

\* The document of the inputs, semantic being their semantic model.
IndexedOf(command, found, docs, counted, codes, semantic) ==
    [allow_rejected_inputs |-> command.allow,
     diagnostics    |-> codes \cup semantic.diagnostics,
     execution      |-> command.execution,
     map_inputs     |-> Listed({MapRecord(a, found.maps[a]) : a \in command.maps}),
     maps           |-> {BindingRecord(m, semantic.sources) : m \in docs},
     profile_inputs |-> Listed({ProfileRecord(a, found.profiles[a], semantic.contexts, {m.map_id : m \in docs}) :
                                    a \in command.profiles}),
     run_selection  |-> [manifest_sha256 |-> command.selection.manifest_sha256,
                         mode |-> command.selection.mode,
                         requested_run_ids |-> command.selection.requested_run_ids,
                         selected_run_ids |-> {Raw!Decoded(a.file).run_id : a \in counted}],
     semantic       |-> semantic,
     tool           |-> command.tool]

\* The same, or the refusal of the semantic model, of what was found of each input.
BuildOf(command, found) ==
    LET docs     == {a.map : a \in {b \in command.maps : found.maps[b] = {}}}
        counted  == {a \in command.profiles : found.profiles[a] = {}}
        told     == {a \in command.profiles \ counted : TellsContext(a)}
        selected == {Raw!Decoded(a.file).run_id : a \in counted}
        all      == counted = command.profiles /\ \A a \in command.maps : found.maps[a] = {}
        codes    == GlobalCodes(counted, all,
                        SelectionSatisfied(command.selection.mode, command.selection.requested_run_ids, selected))
        complete == codes = {} /\ ~command.allow
        made(semantic) == IF IsRefused(semantic) THEN semantic
                          ELSE IndexedOf(command, found, docs, counted, codes, semantic)
    IN  made(BuildSemantic(docs, {Raw!Decoded(a.file) : a \in counted}, {Told(a).context : a \in told},
                           complete, command.policy))

\* command: [maps, profiles, tier, selection (a RunSelection record without
\* selected_run_ids), execution, allow, policy, tool].
BuildIndexed(command) == BuildOf(command, Classify(command.maps, command.profiles, command.tier))

-----------------------------------------------------------------------------
(* read_indexed: the rules of a structurally valid document. *)

\* _count, and the point's and region's aggregate.
CountRecordOK(c, n) ==
    /\ \A x \in c.by_context : x.context_index <= n /\ (x.value # 0 \/ x.lower_bound)
    /\ \A x, y \in c.by_context : x.context_index = y.context_index => x = y
    /\ (\E x \in c.by_context : x.lower_bound) => c.lower_bound
    /\ ~c.lower_bound => c.value = MapThenSumSet(LAMBDA x : x.value, c.by_context)

\* The count in context c.
InContext(count, c) ==
    IF \E x \in count.by_context : x.context_index = c
    THEN LET x == CHOOSE x \in count.by_context : x.context_index = c
         IN  [value |-> x.value, inexact |-> x.lower_bound]
    ELSE Zero

IsExactZero(c) == c.value = 0 /\ c.by_context = {} /\ ~c.lower_bound

\* _check_semantic of formats/indexed.py: what one record must satisfy alone, n
\* being the number of contexts.
PointRecordOK(p, n) ==
    /\ SpanOK(p.span) /\ CountRecordOK(p.count, n)
    /\ (p.kind = "branch_outcome") = (p.outcome_ordinal # Null)
    /\ p.kind \in {"contract_true", "contract_false", "function_entry"} => p.entity_index # Null

RegionRecordOK(r, n) ==
    /\ SpanOK(r.span) /\ CountRecordOK(r.count, n)
    /\ \A t \in r.counter_expression : t.coefficient # 0
    /\ ~Contradicts(r.counter_expression, LAMBDA t : t.point_id)

OutcomeRecordOK(o, n) ==
    /\ CountRecordOK(o.count, n)
    /\ (o.evidence_identity # Null) = (o.status = "statically_unreachable")
    /\ CASE o.status = "covered"   -> o.count.value # 0
         [] o.status = "uncovered" -> o.count.value = 0
         [] OTHER                  -> IsExactZero(o.count)

BranchRecordOK(b, n) ==
    /\ SpanOK(b.span)
    /\ \A o \in SeqRange(b.outcomes) : OutcomeRecordOK(o, n)
    /\ Len(b.outcomes) > 1 \/ b.kind = "match"

ContractRecordOK(c, n) ==
    LET runtime == c.enforcement = "runtime_checked" IN
    /\ SpanOK(c.span)
    /\ \A count \in {c.count_true, c.count_false} :
          (count # Null) = runtime /\ (count # Null => CountRecordOK(count, n))
    /\ (c.evidence_identity # Null) = (c.enforcement = "statically_verified")
    /\ c.runtime_result = IF runtime THEN RuntimeResult(c.count_true, c.count_false) ELSE "not_applicable"

SaturationRecordOK(sat) ==
    /\ sat.any = (sat.affected_point_ids # {} \/ sat.affected_region_indices # {})
    /\ sat.eligible_metrics = IF sat.any /\ sat.policy = "allow-ordinary" THEN OrdinaryMetrics ELSE {}
    /\ ~sat.any => sat.ineligible_uses = {}

RecordsOK(s) ==
    LET n == Len(s.contexts) IN
    /\ \A e \in SeqRange(s.entities) : SpanOK(e.span)
    /\ \A p \in s.points : PointRecordOK(p, n)
    /\ \A r \in SeqRange(s.regions) : RegionRecordOK(r, n)
    /\ \A b \in SeqRange(s.branches) : BranchRecordOK(b, n)
    /\ \A c \in SeqRange(s.contracts) : ContractRecordOK(c, n)
    /\ \A x \in SeqRange(s.exclusions) : SpanOK(x.span)
    /\ SaturationRecordOK(s.saturation)

\* The tables that the other records refer to.
TablesOK(s) ==
    /\ Ordered(s.sources, SourceKey)
    /\ \A x \in SeqRange(s.sources) : x.ownership = "dependency" => x.package # Null
    /\ ("COV3004" \in s.diagnostics) = TwoVersions(s.sources)
    /\ \A e \in SeqRange(s.entities) : e.source_index \in DOMAIN s.sources
    /\ Ordered(s.entities, EntityKey)
    /\ s.contexts = ContextOrder(SeqRange(s.contexts))

\* A physical count is inexact exactly at the maximum, and a point has only
\* physical counts.
PhysicalRecord(count, n) ==
    /\ \A x \in count.by_context : x.lower_bound = (x.value = MaxCount)
    /\ count = Recorded([c \in 1 .. n |-> InContext(count, c)])

SemanticPointOK(p, s, bound) ==
    /\ p.source_index \in DOMAIN s.sources
    /\ p.entity_index # Null =>
          p.entity_index \in DOMAIN s.entities /\ s.entities[p.entity_index].source_index = p.source_index
    /\ EntityKindOf(p, s.entities) \in AllowedEntityKinds(p.kind)
    /\ (p.kind \in {"contract_true", "contract_false"}) = (p.classification = "contract")
    /\ p.point_id = PointIdentity(p, s.sources, s.entities)
    /\ p.point_id \in bound => p.classification \notin Uncounted
    /\ p.point_id \notin bound => IsExactZero(p.count)
    /\ PhysicalRecord(p.count, Len(s.contexts))

SemanticRegionOK(r, s, bound, by) ==
    /\ r.source_index \in DOMAIN s.sources
    /\ OwnerOK(r, r.entity_index, s.entities)
    /\ \A t \in r.counter_expression :
          /\ t.point_id \in DOMAIN by /\ t.point_id \in bound
          /\ by[t.point_id].source_index = r.source_index /\ by[t.point_id].entity_index = r.entity_index
    /\ r.classification = "user" => r.counter_expression # {}
    /\ r.classification \in Uncounted => r.counter_expression = {}
    /\ LET counts(c) == [pid \in TermIDs(r) |-> InContext(by[pid].count, c)]
           evaluated(c) == Evaluate(ExprOf(r), counts(c))
       IN  /\ \A c \in DOMAIN s.contexts : ~Negative(ExprOf(r), counts(c))
           /\ r.count = Recorded([c \in DOMAIN s.contexts |-> evaluated(c)])

SemanticBranchOK(b, s, by) ==
    /\ b.source_index \in DOMAIN s.sources
    /\ OwnerOK(b, b.entity_index, s.entities)
    /\ NamesOK(b)
    /\ \A i \in DOMAIN b.outcomes :
          LET o == b.outcomes[i] IN
          /\ o.point_id \in DOMAIN by
          /\ LET p == by[o.point_id] IN
             /\ OutcomePoint(b, i, p)
             /\ p.classification \in {"user"} \cup Uncounted
             /\ o.count = p.count
             /\ o.status = OutcomeStatus(IF p.classification = "user" THEN "eligible" ELSE p.classification, p.count)

SemanticContractOK(c, s, bound) ==
    LET mine(kind) == {p \in s.points : p.kind = kind /\ p.entity_index = c.entity_index}
        counts(kind, count) == \E p \in mine(kind) :
            p.point_id \in bound /\ count = p.count /\ mine(kind) = {p}
    IN  /\ OwnerOK(c, c.function_entity_index, s.entities)
        /\ IF c.enforcement = "runtime_checked"
           THEN counts("contract_true", c.count_true) /\ counts("contract_false", c.count_false)
           ELSE mine("contract_true") \cup mine("contract_false") = {}

\* _check_semantic of both modules.  bound are the points that some map counts.
SemanticOK(s, bound) ==
    LET by == PointsBy(s.points) IN
    /\ RecordsOK(s) /\ TablesOK(s)
    /\ \A p, q \in s.points : p.point_id = q.point_id => p = q
    /\ \A p \in s.points : SemanticPointOK(p, s, bound)
    /\ \A r \in SeqRange(s.regions) : SemanticRegionOK(r, s, bound, by)
    /\ Ordered(s.regions, RegionKey)
    /\ s.lines = Lines(s.regions)
    /\ \A b \in SeqRange(s.branches) : SemanticBranchOK(b, s, by)
    /\ OutcomesUsedOnce(s.branches, s.points)
    /\ Ordered(s.branches, BranchKey)
    /\ ClausesOwnEntities(s.contracts, s.entities)
    /\ \A c \in SeqRange(s.contracts) : SemanticContractOK(c, s, bound)
    /\ Ordered(s.contracts, ContractKey)
    /\ ExclusionsOK(s)
    /\ [s.saturation EXCEPT !.ineligible_uses = {}] = SaturationOf(s.points, s.regions, s.saturation.policy)

\* _check_full's part about the bindings.
BindingsOK(d) ==
    LET by == PointsBy(d.semantic.points) IN
    /\ {b.map_id : b \in d.maps} = d.semantic.map_ids
    /\ \A b, c \in d.maps : b.map_id = c.map_id => b = c
    /\ UNION {b.source_indices : b \in d.maps} = DOMAIN d.semantic.sources
    /\ \A b \in d.maps :
          /\ Cardinality(SeqRange(b.bindings)) = Len(b.bindings)
          /\ \A pid \in SeqRange(b.bindings) :
                pid \in DOMAIN by /\ by[pid].source_index \in b.source_indices

InputKey(r) == <<r.status, r.artifact_sha256, r.name>>

InputOK(r, required) ==
    IF r.status = "accepted" THEN r.diagnostics = {} /\ \A field \in required : r[field] # Null
    ELSE r.diagnostics # {}

\* The inventory: no two inputs have one key, and the accepted ones are what the
\* rest of the document was made of.
InventoryOK(d) ==
    LET accepted == {r \in d.profile_inputs : r.status = "accepted"}
        ids      == {b.map_id : b \in d.maps}
        contexts == DOMAIN d.semantic.contexts
    IN  /\ ~Contradicts(d.map_inputs, InputKey) /\ ~Contradicts(d.profile_inputs, InputKey)
        /\ \A r \in d.map_inputs : InputOK(r, {"artifact_sha256", "map_id"})
        /\ \A r \in d.profile_inputs :
              InputOK(r, {"artifact_sha256", "backend", "context_index", "map_id", "profile_id", "run_id"})
        /\ {r.map_id : r \in {x \in d.map_inputs : x.status = "accepted"}} = ids
        /\ \A r \in d.map_inputs : r.status # "accepted" => r.map_id = Null
        /\ \A r \in d.profile_inputs :
              r.context_index \in {Null} \cup contexts /\ r.map_id \in {Null} \cup ids
        /\ ~Contradicts(accepted, LAMBDA r : r.profile_id)
        /\ {r.context_index : r \in d.profile_inputs} \ {Null} = contexts
        /\ \A p \in d.semantic.points : \A x \in p.count.by_context :
              \E r \in accepted : r.context_index = x.context_index

\* SPEC 16.5.4 and 16.5.7
CompletenessOK(d) ==
    LET accepted  == {r \in d.profile_inputs : r.status = "accepted"}
        rs        == d.run_selection
        all       == \A r \in d.map_inputs \cup d.profile_inputs : r.status = "accepted"
        satisfied == SelectionSatisfied(rs.mode, rs.requested_run_ids, rs.selected_run_ids)
    IN  /\ rs.selected_run_ids = {r.run_id : r \in accepted}
        /\ d.semantic.complete =
              (/\ accepted # {} /\ all /\ ~d.allow_rejected_inputs /\ satisfied
               /\ d.diagnostics = {} /\ d.semantic.diagnostics = {})
        /\ d.diagnostics \cap {"COV3001", "COV3002", "COV3003"} = GlobalCodes(accepted, all, satisfied)
        /\ ("COV3004" \in d.diagnostics) = ("COV3004" \in d.semantic.diagnostics)

SelectionOK(rs) ==
    /\ (rs.manifest_sha256 # Null) = (rs.mode = "manifest")
    /\ (rs.requested_run_ids # {}) = (rs.mode \in {"explicit-list", "manifest"})
    /\ rs.mode = "none" => rs.selected_run_ids = {}

ExecutionOK(e) ==
    /\ (e.exit_code # Null) = (e.status \in {"passed", "failed"})
    /\ (e.signal # Null) = (e.status = "signaled")
    /\ e.status = "passed" => e.exit_code = 0
    /\ e.status = "failed" => e.exit_code # 0

\* read_indexed
ValidIndexed(d, tool) ==
    /\ d \in IndexedDocument
    /\ d.tool.diagnostic_registry_revision = tool.diagnostic_registry_revision
    /\ ExecutionOK(d.execution) /\ SelectionOK(d.run_selection)
    /\ BindingsOK(d)
    /\ SemanticOK(d.semantic, UNION {SeqRange(b.bindings) : b \in d.maps})
    /\ InventoryOK(d) /\ CompletenessOK(d)
=============================================================================
