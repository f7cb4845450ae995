--------------------------- MODULE Pipeline_proofs ---------------------------
(***************************************************************************)
(* Proofs about Pipeline, for every set of maps, profiles, configurations  *)
(* and edits: a native report is the evidence it was made from             *)
(* (ReportsAreEvidence), a check that passes is backed by the raw inputs   *)
(* (PassesAreBacked), and each metric it holds to a limit meets the limit  *)
(* when recounted from those inputs (PassesAreEarned); a report altered in *)
(* a fact that others determine is not read (AlterationsAreRefused).       *)
(***************************************************************************)
EXTENDS Pipeline, FiniteSetTheorems, TLAPS

-----------------------------------------------------------------------------
(* Records. *)

\* What With changes of a record, and what it leaves.
LEMMA WithFacts ==
  ASSUME NEW f, NEW name, NEW value
  PROVE  /\ DOMAIN With(f, name, value) = DOMAIN f \cup {name}
         /\ With(f, name, value)[name] = value
         /\ \A k \in DOMAIN f \ {name} : With(f, name, value)[k] = f[k]
  BY DEF With

\* Removing what was added gives the record back.
LEMMA Undone ==
  ASSUME NEW f, f = [k \in DOMAIN f |-> f[k]], NEW name, NEW value, name \notin DOMAIN f
  PROVE  Without(With(f, name, value), {name}) = f
  BY DEF With, Without

-----------------------------------------------------------------------------
(* What each step of Produce leaves of the records.                        *)

Counted == {"sources", "entities"}
Added   == {"summary", "ratchet", "policy", "evidence_eligibility"}

\* What follows of a report's records, each step from those before it.
Follows(d, baseline, codes) == Rated(Evaluated(Ratcheted(Summarised(d), baseline), codes))

\* The evaluation of the evidence itself is the only one of its kind.
LEMMA OneIntegrity ==
  ASSUME NEW r, NEW evidence
  PROVE  \A e \in Evaluations(r, evidence) :
            e.assertion_kind = "integrity" <=> e = IntegrityEvaluation(r, evidence)
  <1>1. IntegrityEvaluation(r, evidence).assertion_kind = "integrity"
    BY DEF IntegrityEvaluation, Unlimited
  <1>2. \A kind, name, metric, comparison, result, actual, limit, source, codes, members :
           Limited(kind, name, metric, comparison, result, actual, limit, source, codes, members).assertion_kind = kind
    BY DEF Limited
  <1>3. \A kind, name, metric, result, actual, codes, members :
           Unlimited(kind, name, metric, result, actual, codes, members).assertion_kind = kind
    BY DEF Unlimited
  <1>4. \A kind, name, metric, m, limit, source, code, members :
           AtLeast(r, kind, name, metric, m, limit, source, code, members).assertion_kind = kind
    BY <1>2 DEF AtLeast
  <1>5. \A kind, name, metric, m, threshold, source, members :
           ThresholdEvaluation(r, kind, name, metric, m, threshold, source, members).assertion_kind = kind
    BY <1>3, <1>4 DEF ThresholdEvaluation
  <1>6. \A kind, name, metric, actual, cap, source, code, members :
           AtMost(kind, name, metric, actual, cap, source, code, members).assertion_kind = kind
    BY <1>2 DEF AtMost
  <1>7. \A e \in ProjectEvaluations(r) : e.assertion_kind = "project"
    BY <1>5 DEF ProjectEvaluations
  <1>8. \A e \in AssertionEvaluations(r) : e.assertion_kind \in {"scope", "entity"}
    <2>1. \A s, metric : ScopeEvaluation(r, s, metric).assertion_kind = "scope"
      BY <1>5 DEF ScopeEvaluation
    <2>2. \A x, metric : EntityEvaluation(r, x, metric).assertion_kind = "entity"
      BY <1>5 DEF EntityEvaluation
    <2> DEFINE cov == r.resolved_configuration.coverage
    <2>3. \A e \in UNION {{ScopeEvaluation(r, s, metric) : metric \in Metrics} : s \in cov.scopes} :
             e.assertion_kind = "scope"
      BY <2>1
    <2>4. \A e \in UNION {{EntityEvaluation(r, x, metric) : metric \in Applicable(x.kind.value)} : x \in cov.entities} :
             e.assertion_kind = "entity"
      BY <2>2
    <2> QED
      BY <2>3, <2>4 DEF AssertionEvaluations
  <1>9. \A e \in DiffEvaluations(r) : e.assertion_kind = "diff"
    <2> SUFFICES ASSUME NEW e \in DiffEvaluations(r)
                 PROVE  e.assertion_kind = "diff"
      OBVIOUS
    <2>1. \E metric, m, threshold, source, members :
             e = ThresholdEvaluation(r, "diff", "diff", metric, m, threshold, source, members)
      BY DEF DiffEvaluations
    <2> QED
      BY <1>5, <2>1
  <1>10. \A e \in RatchetEvaluations(r) : e.assertion_kind = "ratchet"
    <2>1. \A metric, tolerance : RatioEvaluation(r, metric, tolerance).assertion_kind = "ratchet"
      BY <1>2, <1>3, <1>4 DEF RatioEvaluation
    <2> QED
      BY <1>3, <1>6, <2>1 DEF RatchetEvaluations
  <1>11. \A e \in ExclusionEvaluations(r) : e.assertion_kind = "exclusion"
    <2>1. ForbiddenEvaluation(r).assertion_kind = "exclusion"
      BY <1>2 DEF ForbiddenEvaluation
    <2>2. \A metric, cap : CapEvaluation(r, metric, cap).assertion_kind = "exclusion"
      BY <1>2, <1>6 DEF CapEvaluation
    <2> QED
      BY <1>6, <2>1, <2>2 DEF ExclusionEvaluations
  <1> QED
    BY <1>1, <1>7, <1>8, <1>9, <1>10, <1>11 DEF Evaluations

\* The reader finds it among them.
LEMMA IntegrityFound ==
  ASSUME NEW r, NEW q, NEW evidence, r.policy.evaluations = Evaluations(q, evidence)
  PROVE  IntegrityOf(r) = IntegrityEvaluation(q, evidence)
  <1>1. IntegrityEvaluation(q, evidence) \in Evaluations(q, evidence)
    BY DEF Evaluations
  <1> QED
    BY <1>1, OneIntegrity DEF IntegrityOf

\* The report r has the records of d, counted, and these evaluations.
Keeps(r, d, evaluations) ==
    /\ DOMAIN r = DOMAIN d \cup Added
    /\ \A k \in DOMAIN d \ Counted : r[k] = d[k]
    /\ r.sources = [i \in DOMAIN d.sources |-> With(d.sources[i], "summary", SourceSummary(d, i))]
    /\ r.entities = [n \in DOMAIN d.entities |-> With(d.entities[n], "summary", EntitySummary(d, n))]
    /\ r.policy = [evaluations |-> evaluations, passed |-> Passed(evaluations)]

\* Summaries, ratchet, policy and eligibility are added to what is there.
LEMMA FollowsKeeps ==
  ASSUME NEW d, NEW baseline, NEW codes,
         Counted \subseteq DOMAIN d, DOMAIN d \cap Added = {}
  PROVE  LET q == Ratcheted(Summarised(d), baseline) IN
         /\ Keeps(Follows(d, baseline, codes), d, Evaluations(q, codes))
         /\ Follows(d, baseline, codes).evidence_eligibility = EligibilityOf(Evaluated(q, codes))
  <1> DEFINE s == Summarised(d)
             q == Ratcheted(s, baseline)
             j == Evaluated(q, codes)
             r == Rated(j)
             sources  == [i \in DOMAIN d.sources |-> With(d.sources[i], "summary", SourceSummary(d, i))]
             entities == [n \in DOMAIN d.entities |-> With(d.entities[n], "summary", EntitySummary(d, n))]
  <1>1. /\ DOMAIN s = DOMAIN d \cup {"summary"}
        /\ s.sources = sources /\ s.entities = entities
        /\ \A k \in DOMAIN d \ Counted : s[k] = d[k]
    <2> DEFINE root == RootSummary(d)
               s1   == With(d, "summary", root)
               s2   == With(s1, "sources", sources)
    <2>1. s = With(s2, "entities", entities)
      BY DEF Summarised
    <2> HIDE DEF sources, entities, root, s
    <2>2. DOMAIN s1 = DOMAIN d \cup {"summary"} /\ \A k \in DOMAIN d \ {"summary"} : s1[k] = d[k]
      BY DEF With
    <2> HIDE DEF s1
    <2>3. /\ DOMAIN s2 = DOMAIN s1 \cup {"sources"} /\ s2["sources"] = sources
          /\ \A k \in DOMAIN s1 \ {"sources"} : s2[k] = s1[k]
      BY DEF With
    <2> HIDE DEF s2
    <2>4. /\ DOMAIN s = DOMAIN s2 \cup {"entities"} /\ s["entities"] = entities
          /\ \A k \in DOMAIN s2 \ {"entities"} : s[k] = s2[k]
      BY <2>1 DEF With
    <2>5. s["sources"] = sources
      BY <2>3, <2>4
    <2> QED
      BY <2>2, <2>3, <2>4, <2>5 DEF Counted, Added
  <1> HIDE DEF s, sources, entities
  <1>2. DOMAIN q = DOMAIN s \cup {"ratchet"} /\ \A k \in DOMAIN s \ {"ratchet"} : q[k] = s[k]
    <2> DEFINE record == IF s.resolved_configuration.coverage.ratchet = Null THEN Null ELSE RatchetOf(s, baseline)
    <2>1. q = With(s, "ratchet", record)
      BY DEF Ratcheted
    <2> HIDE DEF q, record
    <2> QED
      BY <2>1 DEF With
  <1> HIDE DEF q
  <1>3. /\ DOMAIN j = DOMAIN q \cup {"policy"} /\ \A k \in DOMAIN q \ {"policy"} : j[k] = q[k]
        /\ j.policy = [evaluations |-> Evaluations(q, codes), passed |-> Passed(Evaluations(q, codes))]
    <2> DEFINE record == [evaluations |-> Evaluations(q, codes), passed |-> Passed(Evaluations(q, codes))]
    <2>1. j = With(q, "policy", record)
      BY DEF Evaluated, Judged
    <2> HIDE DEF j, record
    <2>2. /\ DOMAIN j = DOMAIN q \cup {"policy"} /\ j["policy"] = record
          /\ \A k \in DOMAIN q \ {"policy"} : j[k] = q[k]
      BY <2>1 DEF With
    <2> QED
      BY <2>2 DEF record
  <1> HIDE DEF j
  <1>4. /\ DOMAIN r = DOMAIN j \cup {"evidence_eligibility"} /\ \A k \in DOMAIN j \ {"evidence_eligibility"} : r[k] = j[k]
        /\ r.evidence_eligibility = EligibilityOf(j)
    <2> DEFINE rating == EligibilityOf(j)
    <2>1. r = With(j, "evidence_eligibility", rating)
      BY DEF Rated
    <2> HIDE DEF r, rating
    <2>2. /\ DOMAIN r = DOMAIN j \cup {"evidence_eligibility"} /\ r["evidence_eligibility"] = rating
          /\ \A k \in DOMAIN j \ {"evidence_eligibility"} : r[k] = j[k]
      BY <2>1 DEF With
    <2> QED
      BY <2>2 DEF rating
  <1>5. Follows(d, baseline, codes) = r
    BY DEF Follows, s, q, j
  <1> HIDE DEF r
  <1>6. /\ DOMAIN r = DOMAIN d \cup Added
        /\ \A k \in DOMAIN d \ Counted : r[k] = d[k]
        /\ r.sources = sources /\ r.entities = entities
        /\ r.policy = [evaluations |-> Evaluations(q, codes), passed |-> Passed(Evaluations(q, codes))]
    BY <1>1, <1>2, <1>3, <1>4 DEF Counted, Added
  <1> QED
    BY <1>4, <1>5, <1>6 DEF Keeps, sources, entities, q, s, j

-----------------------------------------------------------------------------
(* What a merge makes.                                                     *)

MergeCodes == {"COV3001", "COV3002", "COV3003", "COV3004"}

\* The semantic model has one diagnostic, and leaves it to reports what saturation
\* makes ineligible.
LEMMA SemanticMade ==
  ASSUME NEW maps, NEW profiles, NEW extra, NEW complete, NEW policy,
         ~IsRefused(BuildSemantic(maps, profiles, extra, complete, policy))
  PROVE  LET s == BuildSemantic(maps, profiles, extra, complete, policy) IN
         s.diagnostics \subseteq MergeCodes /\ s.saturation.ineligible_uses = {}
  BY ZenonT(40) DEF BuildSemantic, SemanticOf, IsRefused, Refused, MergeCodes, SaturationOf

\* An indexed profile's own diagnostics are those of merges alone.
LEMMA IndexedMade ==
  ASSUME NEW command, ~IsRefused(BuildIndexed(command))
  PROVE  LET d == BuildIndexed(command) IN
         /\ d.diagnostics \cup d.semantic.diagnostics \subseteq MergeCodes
         /\ d.semantic.saturation.ineligible_uses = {}
  BY SemanticMade, ZenonT(40) DEF BuildIndexed, BuildOf, IndexedOf, GlobalCodes, MergeCodes

-----------------------------------------------------------------------------
(* What Produce reads of the evidence.                                     *)

SemanticRead == {"branches", "complete", "contexts", "contracts", "entities", "exclusions", "lines",
                 "map_ids", "points", "regions", "saturation", "sources"}
SelectionRead == {"manifest_sha256", "mode", "selected_run_ids"}

\* Two pieces of evidence that no report tells apart.
Alike(x, y) ==
    /\ \A k \in SemanticRead : x.semantic[k] = y.semantic[k]
    /\ \A k \in SelectionRead : x.run_selection[k] = y.run_selection[k]
    /\ x.execution = y.execution /\ x.profile_inputs = y.profile_inputs /\ x.tool = y.tool
    /\ Unbound(x.maps) = Unbound(y.maps)
    /\ EvidenceCodes(x) = EvidenceCodes(y)

\* Reports of them have the same records before anything is counted.
LEMMA AlikeDetails ==
  ASSUME NEW x, NEW y, Alike(x, y), NEW c, NEW at, NEW tool
  PROVE  Detailed(x, c, at, tool) = Detailed(y, c, at, tool)
  <1>1. /\ x.semantic.branches = y.semantic.branches /\ x.semantic.complete = y.semantic.complete
        /\ x.semantic.contexts = y.semantic.contexts /\ x.semantic.contracts = y.semantic.contracts
        /\ x.semantic.entities = y.semantic.entities /\ x.semantic.exclusions = y.semantic.exclusions
        /\ x.semantic.lines = y.semantic.lines /\ x.semantic.map_ids = y.semantic.map_ids
        /\ x.semantic.points = y.semantic.points /\ x.semantic.regions = y.semantic.regions
        /\ x.semantic.saturation = y.semantic.saturation /\ x.semantic.sources = y.semantic.sources
    BY DEF Alike, SemanticRead
  <1>2. /\ x.run_selection.manifest_sha256 = y.run_selection.manifest_sha256
        /\ x.run_selection.mode = y.run_selection.mode
        /\ x.run_selection.selected_run_ids = y.run_selection.selected_run_ids
    BY DEF Alike, SelectionRead
  <1>3. /\ x.execution = y.execution /\ x.profile_inputs = y.profile_inputs /\ x.tool = y.tool
        /\ Unbound(x.maps) = Unbound(y.maps)
    BY DEF Alike
  <1> QED
    BY <1>1, <1>2, <1>3 DEF Detailed

\* They are reported alike, whatever the configuration and the circumstances.
LEMMA AlikeReports ==
  ASSUME NEW x, NEW y, Alike(x, y), NEW c, NEW at, NEW tool
  PROVE  Produce(x, c, at, tool) = Produce(y, c, at, tool)
  <1>1. Detailed(x, c, at, tool) = Detailed(y, c, at, tool)
    BY AlikeDetails
  <1>2. x.semantic.sources = y.semantic.sources /\ x.semantic.saturation = y.semantic.saturation
    BY DEF Alike, SemanticRead
  <1>3. StaleCode(x, c, at) = StaleCode(y, c, at)
    BY <1>2 DEF StaleCode
  <1>4. EvidenceCodes(x) = EvidenceCodes(y)
    BY DEF Alike
  <1> QED
    BY <1>1, <1>2, <1>3, <1>4 DEF Produce

-----------------------------------------------------------------------------
(* What a report added is taken off again.                                 *)

\* A record's fields are all there is to it, and a sequence's elements.
IsFunction(f) == f = [k \in DOMAIN f |-> f[k]]

\* Entities without their summaries are those of the evidence.
LEMMA BareEntities ==
  ASSUME NEW s \in Seq(Entity), NEW t, DOMAIN t = DOMAIN s,
         \A n \in DOMAIN s : \E m : t[n] = With(s[n], "summary", m)
  PROVE  Bare(t, {"summary"}) = s
  <1>1. \A n \in DOMAIN s : IsFunction(s[n]) /\ "summary" \notin DOMAIN s[n]
    <2>1. \A x \in Entity : IsFunction(x) /\ "summary" \notin DOMAIN x
      BY DEF Entity, IsFunction
    <2> QED
      BY <2>1
  <1>2. \A n \in DOMAIN s : Without(t[n], {"summary"}) = s[n]
    BY <1>1, Undone DEF IsFunction
  <1>3. s = [n \in DOMAIN s |-> s[n]]
    OBVIOUS
  <1> QED
    BY <1>2, <1>3 DEF Bare

\* Regions without their points are those of the evidence.
LEMMA BareRegions ==
  ASSUME NEW s \in Seq(Region)
  PROVE  Bare(Pointed(s), {"point_ids"}) = s
  <1>1. \A n \in DOMAIN s : IsFunction(s[n]) /\ "point_ids" \notin DOMAIN s[n]
    <2>1. \A x \in Region : IsFunction(x) /\ "point_ids" \notin DOMAIN x
      BY DEF Region, IsFunction
    <2> QED
      BY <2>1
  <1>2. \A n \in DOMAIN s : Without(Pointed(s)[n], {"point_ids"}) = s[n]
    BY <1>1, Undone DEF IsFunction, Pointed
  <1>3. s = [n \in DOMAIN s |-> s[n]] /\ DOMAIN Pointed(s) = DOMAIN s
    BY DEF Pointed
  <1> QED
    BY <1>2, <1>3 DEF Bare

\* Sources without what was observed of them are those of the evidence.
LEMMA BareSources ==
  ASSUME NEW s \in Seq(Source), NEW observed, NEW t, DOMAIN t = DOMAIN s,
         \A i \in DOMAIN s : \E m : t[i] = With(Observed(s, observed)[i], "summary", m)
  PROVE  Bare(t, {"observed_digest", "source_state", "summary"}) = s
  <1> DEFINE added == {"observed_digest", "source_state", "summary"}
  <1>1. \A i \in DOMAIN s : IsFunction(s[i]) /\ DOMAIN s[i] \cap added = {}
    <2>1. \A x \in Source : IsFunction(x) /\ DOMAIN x \cap added = {}
      BY DEF Source, IsFunction
    <2> HIDE DEF added
    <2> QED
      BY <2>1
  <1>2. ASSUME NEW f, NEW x, NEW y, NEW z, IsFunction(f), DOMAIN f \cap added = {}
        PROVE  Without(With(With(With(f, "observed_digest", x), "source_state", y), "summary", z), added) = f
    BY <1>2 DEF With, Without, IsFunction
  <1> HIDE DEF added
  <1>3. \A i \in DOMAIN s : Without(t[i], added) = s[i]
    BY <1>1, <1>2 DEF Observed
  <1>4. s = [i \in DOMAIN s |-> s[i]]
    OBVIOUS
  <1> QED
    BY <1>3, <1>4 DEF Bare, added

\* Exclusions without their lines are those of the evidence.
LEMMA LinelessExclusions ==
  ASSUME NEW s \in Seq(Exclusion), NEW d
  PROVE  Lineless(Lined(d, s)) = s
  <1> DEFINE Touched(x, lines) == [x EXCEPT !.affected = With(@, "line_indices", lines)]
             Untouched(y)      == [y EXCEPT !.affected = Without(@, {"line_indices"})]
  <1>1. ASSUME NEW x \in Exclusion, NEW lines
        PROVE  Untouched(Touched(x, lines)) = x
    <2>1. IsFunction(x.affected) /\ "line_indices" \notin DOMAIN x.affected
      BY DEF Exclusion, Affected, IsFunction
    <2>2. Without(With(x.affected, "line_indices", lines), {"line_indices"}) = x.affected
      BY <2>1, Undone DEF IsFunction
    <2> QED
      BY <2>2 DEF Exclusion
  <1>2. Lined(d, s) = [i \in DOMAIN s |-> Touched(s[i], LineIndices(d, s[i].affected))]
    BY DEF Lined
  <1>3. Lineless(Lined(d, s)) = [i \in DOMAIN Lined(d, s) |-> Untouched(Lined(d, s)[i])]
    BY DEF Lineless
  <1>4. s = [i \in DOMAIN s |-> s[i]]
    OBVIOUS
  <1> HIDE DEF Touched, Untouched
  <1>5. \A i \in DOMAIN s : Untouched(Lined(d, s)[i]) = s[i]
    BY <1>1, <1>2
  <1> QED
    BY <1>2, <1>3, <1>4, <1>5

\* The references of a map's record have gone after the first time.
LEMMA UnboundOnce ==
  ASSUME NEW maps
  PROVE  Unbound(Unbound(maps)) = Unbound(maps)
  <1>1. \A m : Without(Without(m, {"bindings"}), {"bindings"}) = Without(m, {"bindings"})
    BY DEF Without
  <1> QED
    BY <1>1 DEF Unbound

-----------------------------------------------------------------------------
(* A report holds the evidence it was made from.                           *)

Details == {"branches", "changes", "complete", "contexts", "contracts", "entities", "exclusions", "inputs", "lines",
            "maps", "points", "provenance", "regions", "resolved_configuration", "saturation", "sources", "tool"}

\* The records d of a report hold those of the evidence ix.
HoldsEvidence(d, ix, observed) ==
    LET s == ix.semantic IN
    /\ d.branches = s.branches /\ d.complete = s.complete /\ d.contexts = s.contexts
    /\ d.contracts = s.contracts /\ d.entities = s.entities /\ d.lines = s.lines /\ d.points = s.points
    /\ d.inputs = ix.profile_inputs /\ d.maps = Unbound(ix.maps)
    /\ "execution" \in DOMAIN d.provenance
    /\ d.provenance.execution = ix.execution /\ d.provenance.map_ids = s.map_ids
    /\ d.provenance.run_ids = ix.run_selection.selected_run_ids
    /\ d.provenance.run_manifest_sha256 = ix.run_selection.manifest_sha256
    /\ d.provenance.run_selection = ix.run_selection.mode /\ d.provenance.tool = ix.tool
    /\ d.provenance.source_accuracy = IF Current(s.sources, observed) THEN "current" ELSE "mismatch_allowed"
    /\ d.regions = Pointed(s.regions) /\ d.sources = Observed(s.sources, observed)
    /\ \E other : d.exclusions = Lined(other, s.exclusions)
    /\ \E uses : d.saturation = [s.saturation EXCEPT !.ineligible_uses = uses]

\* So do those of every report, before anything is counted.
LEMMA DetailsOf ==
  ASSUME NEW ix, NEW c, NEW at, NEW tool, NEW standard_export
  PROVE  LET d == Noted(Detailed(ix, c, at, tool), standard_export) IN
         DOMAIN d = Details /\ HoldsEvidence(d, ix, at.observed)
  <1> DEFINE e == Detailed(ix, c, at, tool)
             d == Noted(e, standard_export)
             s == ix.semantic
  <1> DEFINE changes  == IF c.coverage.diff = Null THEN Null ELSE ChangeRecord(s.sources, at.changes)
             accuracy == IF Current(s.sources, at.observed) THEN "current" ELSE "mismatch_allowed"
             backends == {x.backend : x \in Accepted(ix.profile_inputs)}
             base == [branches |-> s.branches, changes |-> changes, complete |-> s.complete,
                      contexts |-> s.contexts, contracts |-> s.contracts, entities |-> s.entities,
                      inputs |-> ix.profile_inputs, lines |-> s.lines, maps |-> Unbound(ix.maps),
                      points |-> s.points,
                      provenance |-> [backends |-> backends, execution |-> ix.execution, map_ids |-> s.map_ids,
                                      run_ids |-> ix.run_selection.selected_run_ids,
                                      run_manifest_sha256 |-> ix.run_selection.manifest_sha256,
                                      run_selection |-> ix.run_selection.mode, source_accuracy |-> accuracy,
                                      tool |-> ix.tool],
                      regions |-> Pointed(s.regions), resolved_configuration |-> c,
                      saturation |-> s.saturation, sources |-> Observed(s.sources, at.observed), tool |-> tool]
  <1>1. e = With(base, "exclusions", Lined(base, s.exclusions))
    BY DEF Detailed
  <1>2. d = [e EXCEPT !.saturation.ineligible_uses = IneligibleUses(e, standard_export)]
    BY DEF Noted
  <1> HIDE DEF e, d, s, changes, accuracy, backends
  <1>3. /\ DOMAIN e = Details /\ e.exclusions = Lined(base, s.exclusions)
        /\ \A k \in Details \ {"exclusions"} : e[k] = base[k]
    BY <1>1 DEF With, Details
  <1>4. /\ DOMAIN d = Details
        /\ \A k \in Details \ {"saturation"} : d[k] = e[k]
        /\ d.saturation = [e.saturation EXCEPT !.ineligible_uses = IneligibleUses(e, standard_export)]
    BY <1>2, <1>3 DEF Details
  <1>5. /\ d.branches = base.branches /\ d.complete = base.complete /\ d.contexts = base.contexts
        /\ d.contracts = base.contracts /\ d.entities = base.entities /\ d.inputs = base.inputs
        /\ d.lines = base.lines /\ d.maps = base.maps /\ d.points = base.points
        /\ d.provenance = base.provenance /\ d.regions = base.regions /\ d.sources = base.sources
        /\ e.saturation = base.saturation /\ d.exclusions = e.exclusions
    <2> HIDE DEF base
    <2> QED
      BY <1>3, <1>4 DEF Details
  <1>6. /\ d.branches = s.branches /\ d.complete = s.complete /\ d.contexts = s.contexts
        /\ d.contracts = s.contracts /\ d.entities = s.entities /\ d.lines = s.lines /\ d.points = s.points
        /\ d.inputs = ix.profile_inputs /\ d.maps = Unbound(ix.maps)
        /\ "execution" \in DOMAIN d.provenance
        /\ d.provenance.execution = ix.execution /\ d.provenance.map_ids = s.map_ids
        /\ d.provenance.run_ids = ix.run_selection.selected_run_ids
        /\ d.provenance.run_manifest_sha256 = ix.run_selection.manifest_sha256
        /\ d.provenance.run_selection = ix.run_selection.mode /\ d.provenance.tool = ix.tool
        /\ d.provenance.source_accuracy = accuracy
        /\ d.regions = Pointed(s.regions) /\ d.sources = Observed(s.sources, at.observed)
        /\ e.saturation = s.saturation
    BY <1>5
  <1> HIDE DEF base
  <1>7. \E other : d.exclusions = Lined(other, s.exclusions)
    BY <1>3, <1>5
  <1>8. \E uses : d.saturation = [s.saturation EXCEPT !.ineligible_uses = uses]
    <2> DEFINE now == IneligibleUses(e, standard_export)
    <2>1. d.saturation = [s.saturation EXCEPT !.ineligible_uses = now]
      BY <1>4, <1>6
    <2> HIDE DEF now
    <2> QED
      BY <2>1
  <1> QED
    BY <1>4, <1>6, <1>7, <1>8 DEF HoldsEvidence, d, e, s, accuracy

\* All that Produce reads of the evidence can be read off the report.
LEMMA Recovered ==
  ASSUME NEW ix \in IndexedDocument, ix.semantic.saturation.ineligible_uses = {},
         ix.diagnostics \cup ix.semantic.diagnostics \subseteq MergeCodes,
         NEW c, NEW at, NEW tool, ~IsRefused(Produce(ix, c, at, tool))
  PROVE  Alike(EvidenceOf(Produce(ix, c, at, tool)), ix)
  <1> DEFINE d     == Noted(Detailed(ix, c, at, tool), at.standard_export)
             codes == EvidenceCodes(ix)
             q     == Ratcheted(Summarised(d), at.ratchet)
             r     == Produce(ix, c, at, tool)
             s     == ix.semantic
             x     == EvidenceOf(r)
  <1>1. r = Follows(d, at.ratchet, codes)
    BY DEF Produce, IsRefused, Refused, Follows
  <1>2. DOMAIN d = Details /\ HoldsEvidence(d, ix, at.observed)
    BY DetailsOf
  <1>3. /\ s.entities \in Seq(Entity) /\ s.regions \in Seq(Region) /\ s.sources \in Seq(Source)
        /\ s.exclusions \in Seq(Exclusion) /\ s.saturation \in Saturation /\ s.complete \in BOOLEAN
    BY DEF IndexedDocument, SemanticDocument
  <1> HIDE DEF d, codes, r
  <1>4. /\ \A k \in Details \ Counted : r[k] = d[k]
        /\ r.sources = [i \in DOMAIN d.sources |-> With(d.sources[i], "summary", SourceSummary(d, i))]
        /\ r.entities = [n \in DOMAIN d.entities |-> With(d.entities[n], "summary", EntitySummary(d, n))]
        /\ r.policy.evaluations = Evaluations(q, codes)
    <2>1. Counted \subseteq DOMAIN d /\ DOMAIN d \cap Added = {}
      BY <1>2 DEF Counted, Details, Added
    <2>2. Keeps(r, d, Evaluations(q, codes))
      BY <1>1, <2>1, FollowsKeeps
    <2> QED
      BY <1>2, <2>2 DEF Keeps
  <1>5. /\ r.branches = d.branches /\ r.complete = d.complete /\ r.contexts = d.contexts
        /\ r.contracts = d.contracts /\ r.exclusions = d.exclusions /\ r.inputs = d.inputs /\ r.lines = d.lines
        /\ r.maps = d.maps /\ r.points = d.points /\ r.provenance = d.provenance /\ r.regions = d.regions
        /\ r.saturation = d.saturation
    BY <1>4 DEF Details, Counted
  <1> HIDE DEF q, s
  <1>6. /\ Bare(r.entities, {"summary"}) = s.entities /\ Bare(r.regions, {"point_ids"}) = s.regions
        /\ Lineless(r.exclusions) = s.exclusions
        /\ Bare(r.sources, {"observed_digest", "source_state", "summary"}) = s.sources
    <2>1. /\ d.entities = s.entities /\ d.sources = Observed(s.sources, at.observed)
          /\ d.regions = Pointed(s.regions) /\ \E other : d.exclusions = Lined(other, s.exclusions)
      BY <1>2 DEF HoldsEvidence, s
    <2>2. Bare(r.entities, {"summary"}) = s.entities
      <3>1. DOMAIN r.entities = DOMAIN s.entities
        BY <1>4, <2>1
      <3>2. \A n \in DOMAIN s.entities : \E m : r.entities[n] = With(s.entities[n], "summary", m)
        BY <1>4, <2>1
      <3> QED
        BY <1>3, <3>1, <3>2, BareEntities
    <2>3. Bare(r.sources, {"observed_digest", "source_state", "summary"}) = s.sources
      <3>1. DOMAIN r.sources = DOMAIN s.sources
        BY <1>4, <2>1 DEF Observed
      <3> DEFINE observed == at.observed
      <3>2. \A i \in DOMAIN s.sources : \E m : r.sources[i] = With(Observed(s.sources, observed)[i], "summary", m)
        BY <1>4, <2>1, <3>1
      <3>3. s.sources \in Seq(Source)
        BY <1>3
      <3> DEFINE t == r.sources  u == s.sources
      <3>4. /\ u \in Seq(Source) /\ DOMAIN t = DOMAIN u
            /\ \A i \in DOMAIN u : \E m : t[i] = With(Observed(u, observed)[i], "summary", m)
        BY <3>1, <3>2, <3>3
      <3> HIDE DEF observed, t, u
      <3>5. Bare(t, {"observed_digest", "source_state", "summary"}) = u
        BY <3>4, BareSources
      <3> QED
        BY <3>5 DEF t, u
    <2>4. Bare(r.regions, {"point_ids"}) = s.regions
      BY <1>3, <1>5, <2>1, BareRegions
    <2>5. Lineless(r.exclusions) = s.exclusions
      BY <1>3, <1>5, <2>1, LinelessExclusions
    <2> QED
      BY <2>2, <2>3, <2>4, <2>5
  <1>7. [r.saturation EXCEPT !.ineligible_uses = {}] = s.saturation
    <2>1. PICK uses : r.saturation = [s.saturation EXCEPT !.ineligible_uses = uses]
      BY <1>2, <1>5 DEF HoldsEvidence, s
    <2>2. s.saturation \in Saturation /\ s.saturation.ineligible_uses = {}
      BY <1>3 DEF s
    <2> QED
      BY <2>1, <2>2 DEF Saturation
  <1>8. IntegrityOf(r).diagnostics \ (ReportTime \cup {"COV2130"}) = codes
    <2>1. IntegrityOf(r) = IntegrityEvaluation(q, codes)
      BY <1>4, IntegrityFound
    <2>2. codes \subseteq MergeCodes
      BY DEF codes, EvidenceCodes, MergeCodes
    <2>3. ReportTimeCodes(q) \subseteq ReportTime
      BY DEF ReportTimeCodes, ReportTime
    <2> DEFINE now     == ReportTimeCodes(q)
               command == IF q.provenance.execution.status \in {"failed", "signaled"} THEN {"COV2130"} ELSE {}
    <2>4. IntegrityOf(r).diagnostics = codes \cup now \cup command
      BY <2>1 DEF IntegrityEvaluation, Unlimited
    <2>5. command \subseteq {"COV2130"}
      OBVIOUS
    <2> HIDE DEF now, command
    <2>6. now \subseteq ReportTime
      BY <2>3 DEF now
    <2> QED
      BY <2>2, <2>4, <2>5, <2>6 DEF ReportTime, MergeCodes
  <1>9. x.diagnostics = {} /\ x.semantic.diagnostics = codes /\ x.semantic.complete = s.complete
    BY <1>2, <1>5, <1>8 DEF EvidenceOf, HoldsEvidence, s
  <1>10. EvidenceCodes(x) = codes
    <2> HIDE DEF x
    <2>1. ~s.complete => codes # {}
      BY DEF codes, EvidenceCodes, s
    <2> QED
      BY <1>9, <2>1 DEF EvidenceCodes
  <1>11. \A k \in SemanticRead : x.semantic[k] = s[k]
    BY <1>2, <1>5, <1>6, <1>7 DEF EvidenceOf, SemanticRead, HoldsEvidence, s
  <1>12. /\ \A k \in SelectionRead : x.run_selection[k] = ix.run_selection[k]
         /\ x.execution = ix.execution /\ x.profile_inputs = ix.profile_inputs /\ x.tool = ix.tool
         /\ x.maps = Unbound(ix.maps)
    BY <1>2, <1>5 DEF EvidenceOf, SelectionRead, HoldsEvidence, s
  <1> HIDE DEF x
  <1> QED
    BY <1>10, <1>11, <1>12, UnboundOnce DEF Alike, codes, x, r, s

-----------------------------------------------------------------------------
(* The invariant: what is on disk was made by the commands that make it.   *)

\* Evidence that a merge published.
Published(d) ==
    /\ d \in IndexedDocument
    /\ d.diagnostics \cup d.semantic.diagnostics \subseteq MergeCodes
    /\ d.semantic.saturation.ineligible_uses = {}

Inv ==
    /\ indexed = Null => report = Null
    /\ indexed # Null => Published(indexed)
    /\ report # Null /\ ~altered =>
          \E c, at : report = Produce(indexed, c, at, OurTool) /\ ~IsRefused(report)

\* Nothing is on disk yet.
LEMMA InitInv == Init => Inv
  BY DEF Init, Inv

\* Only a merge makes the evidence and only report a report; a report that is altered
\* is told from one that is not.
LEMMA NextInv == Inv /\ [Next]_vars => Inv'
  <1> SUFFICES ASSUME Inv, [Next]_vars
               PROVE  Inv'
    OBVIOUS
  <1>1. ASSUME NEW command \in Commands, Merge(command)
        PROVE  Inv'
    <2>1. report = Null /\ report' = Null
      BY <1>1 DEF Merge, Inv
    <2>2. CASE told' # "published"
      BY <1>1, <2>1, <2>2 DEF Merge, Inv
    <2>3. CASE told' = "published"
      <3>1. /\ indexed' = BuildIndexed(command) /\ MergeEnd(BuildIndexed(command)) = "published"
        BY <1>1, <2>3 DEF Merge
      <3>2. ~IsRefused(BuildIndexed(command)) /\ ValidIndexed(BuildIndexed(command), OurTool)
        BY <3>1 DEF MergeEnd
      <3>3. BuildIndexed(command) \in IndexedDocument
        BY <3>2 DEF ValidIndexed
      <3> QED
        BY <2>1, <3>1, <3>2, <3>3, IndexedMade DEF Inv, Published
    <2> QED
      BY <2>2, <2>3
  <1>2. ASSUME NEW inv \in Invocations, Report(inv)
        PROVE  Inv'
    <2>1. indexed # Null /\ indexed' = indexed /\ report = Null /\ altered' = altered
      BY <1>2 DEF Report
    <2>2. PICK c, at, r : /\ r = FromIndexed(c, at)
                          /\ report' # report => ~IsRefused(r) /\ (report' = r \/ report' = Null)
      BY <1>2 DEF Report
    <2>3. ~IsRefused(r) => r = Produce(indexed, c, at, OurTool)
      BY <2>2 DEF FromIndexed
    <2> QED
      BY <2>1, <2>2, <2>3 DEF Inv
  <1>3. ASSUME NEW operand \in {"indexed", "report"}, NEW inv \in Invocations, Check(operand, inv)
        PROVE  Inv'
    BY <1>3 DEF Check, Inv
  <1>4. ASSUME NEW e \in Edited, Edit(e[1], e[2])
        PROVE  Inv'
    BY <1>4 DEF Edit, Inv
  <1>5. CASE Alter
    BY <1>5 DEF Alter, Inv
  <1>6. CASE UNCHANGED vars
    BY <1>6 DEF vars, Inv
  <1> QED
    BY <1>1, <1>2, <1>3, <1>4, <1>5, <1>6 DEF Next

\* Whatever a report is evaluated under again, and with whatever build, it gives what
\* its evidence gives.
LEMMA ReportIsItsEvidence ==
  ASSUME Inv, report # Null, ~altered, NEW c, NEW at, NEW tool
  PROVE  Rebuild(report, c, at, tool) = Produce(indexed, c, at, tool)
  <1>1. PICK c0, at0 : report = Produce(indexed, c0, at0, OurTool) /\ ~IsRefused(report)
    BY DEF Inv
  <1>2. Published(indexed)
    BY DEF Inv
  <1>3. Alike(EvidenceOf(report), indexed)
    BY <1>1, <1>2, Recovered DEF Published
  <1> QED
    BY <1>3, AlikeReports DEF Rebuild

\* A native report loses nothing of its evidence: after any edits it is evaluated to
\* what the indexed profile would be, under every configuration (rebuild_report).
THEOREM ReportsAreEvidence == Spec => []RebuildAgrees
  <1>1. Inv => RebuildAgrees
    BY ReportIsItsEvidence DEF RebuildAgrees
  <1> QED
    BY <1>1, InitInv, NextInv, PTL DEF Spec

-----------------------------------------------------------------------------
(* What a merge counts is whole.                                           *)

Codec == INSTANCE RawProfile_proofs

\* A raw profile that is accepted is whole.
LEMMA AcceptedIsWhole ==
  ASSUME NEW f \in Raw!File, NEW tier, Raw!Verdict(f, tier, Null, Null) = "accepted"
  PROVE  Whole(f)
  <1> DEFINE checks == Raw!Checks(f, tier, Null, Null)
             failed == {k \in DOMAIN checks : ~checks[k][1]}
             first  == CHOOSE k \in failed : \A j \in failed : k <= j
  <1>1. DOMAIN checks = 1 .. 18 /\ \A k \in 1 .. 18 : checks[k][2] # "accepted"
    BY DEF Raw!Checks
  <1>2. failed # {} => checks[first][2] = "accepted"
    BY DEF Raw!Verdict
  <1>3. /\ checks[12][1] <=> f.bytes >= Raw!Total(f)
        /\ checks[13][1] <=> f.bytes <= Raw!Total(f)
        /\ checks[14][1] = f.marker /\ checks[15][1] = f.crc
    BY Zenon DEF Raw!Checks
  <1> HIDE DEF checks
  <1>4. failed = {}
    <2> SUFFICES ASSUME failed # {} PROVE FALSE
      OBVIOUS
    <2>1. failed \in SUBSET (1 .. 18) /\ 18 \in Nat
      BY <1>1
    <2>2. \E k \in failed : \A j \in failed : k <= j
      <3> HIDE DEF failed
      <3> QED
        BY <2>1, Codec!LeastIndex
    <2>3. first \in failed
      BY <2>2
    <2> QED
      BY <1>1, <1>2, <2>1, <2>3, Zenon
  <1>5. \A k \in 1 .. 18 : checks[k][1]
    BY <1>1, <1>4
  <1>6. f.bytes >= Raw!Total(f) /\ f.bytes <= Raw!Total(f) /\ f.marker /\ f.crc
    BY <1>3, <1>5
  <1>7. f.bytes \in Nat /\ Raw!Total(f) \in Nat
    <2>1. f.bytes \in Nat /\ f.context_length \in Nat /\ f.pair_count \in Nat /\ f.word_count \in Nat
      BY DEF Raw!File
    <2> QED
      BY <2>1 DEF Raw!Total, Raw!EncodedLength, Raw!HeaderBytes
  <1> QED
    BY <1>6, <1>7 DEF Whole

\* An input without findings is what the merge counts.
LEMMA NothingFound ==
  ASSUME NEW maps, NEW profiles, NEW tier,
         \A a \in profiles : a.sha # Null => a.file \in Raw!File
  PROVE  LET found == Classify(maps, profiles, tier) IN
         /\ \A a \in maps : found.maps[a] = {} => a.fault = Null /\ a.map # Null /\ ValidMap(a.map)
         /\ \A a \in profiles : found.profiles[a] = {} =>
               /\ a.fault = Null /\ Whole(a.file)
               /\ \E b \in maps : b.map.map_id = a.file.map_id
  <1> DEFINE docs  == {a.map : a \in {b \in maps : MapFindings(b) = {}}}
             bad   == Conflicting(docs)
             alone == {a \in profiles : DecodesAlone(a, tier)}
             found == Classify(maps, profiles, tier)
  <1>1. /\ found.maps = [a \in maps |-> IF MapFindings(a) = {} /\ a.map \in bad THEN {"COV3002"} ELSE MapFindings(a)]
        /\ found.profiles = [a \in profiles |-> ProfileFindings(a, alone, docs \ bad, tier)]
    BY DEF Classify, ClassifyWith, Findings
  <1>2. ASSUME NEW a \in maps, found.maps[a] = {}
        PROVE  a.fault = Null /\ a.map # Null /\ ValidMap(a.map)
    <2>1. MapFindings(a) = {}
      BY <1>1, <1>2
    <2> QED
      BY <2>1 DEF MapFindings
  <1>3. ASSUME NEW a \in profiles, found.profiles[a] = {}
        PROVE  a.fault = Null /\ Whole(a.file) /\ \E b \in maps : b.map.map_id = a.file.map_id
    <2> HIDE DEF docs, bad
    <2>1. ProfileFindings(a, alone, docs \ bad, tier) = {}
      BY <1>1, <1>3
    <2>2. a.fault = Null /\ a.sha # Null /\ a \in alone
      BY <2>1 DEF ProfileFindings
    <2>3. {m \in docs \ bad : m.map_id = Raw!Decoded(a.file).map_id} # {}
      BY <2>1, <2>2 DEF ProfileFindings
    <2>4. Raw!Decoded(a.file).map_id = a.file.map_id
      BY DEF Raw!Decoded
    <2>5. Whole(a.file)
      BY <2>2, AcceptedIsWhole DEF DecodesAlone, ReadAlone
    <2>6. \E b \in maps : b.map.map_id = a.file.map_id
      BY <2>3, <2>4 DEF docs
    <2> QED
      BY <2>2, <2>5, <2>6
  <1> HIDE DEF found
  <1> QED
    BY <1>2, <1>3 DEF found

-----------------------------------------------------------------------------
(* Sums over finite sets.  A statement about a sum is proved by taking the *)
(* smallest set it could fail for.                                         *)

\* The member the folds take first.
Some(s) == CHOOSE x \in s : TRUE

\* h sums g over the subsets of S, in the order in which the folds take their members.
Sums(h, g, S) ==
    h = [s \in SUBSET S |-> IF s = {} THEN 0 ELSE g[Some(s)] + h[s \ {Some(s)}]]

\* The sum of a set is the one of the function that sums over its subsets.
LEMMA SumIsChosen ==
  ASSUME NEW g, NEW S
  PROVE  SumFunctionOnSet(g, S) = (CHOOSE h : Sums(h, g, S))[S]
  BY DEF SumFunctionOnSet, FoldFunctionOnSet, MapThenFoldSet, Sums, Some

\* Of sets of members of a finite set there is one that holds no other.
LEMMA MinimalSet ==
  ASSUME NEW S, IsFiniteSet(S), NEW B \in SUBSET SUBSET S, B # {}
  PROVE  \E T \in B : \A U \in B : U \subseteq T => U = T
  <1>1. IsWellFoundedOn(StrictSubsetOrdering(S), SUBSET S)
    BY FS_StrictSubsetOrderingWellFounded, FS_FiniteSubsetsOfFinite
  <1>2. PICK T \in B : \A U \in B : <<U, T>> \notin StrictSubsetOrdering(S)
    BY <1>1, WFMin
  <1> QED
    BY <1>2 DEF StrictSubsetOrdering

\* What a member taken out leaves.
LEMMA OneTaken ==
  ASSUME NEW s, s # {}
  PROVE  Some(s) \in s /\ s \ {Some(s)} \subseteq s /\ s \ {Some(s)} # s
  BY DEF Some

\* Such functions agree wherever both are defined.
LEMMA SumsUnique ==
  ASSUME NEW S, IsFiniteSet(S), NEW g, NEW h, NEW k,
         NEW A \in SUBSET S, NEW B \in SUBSET S, Sums(h, g, A), Sums(k, g, B)
  PROVE  \A s \in (SUBSET A) \cap (SUBSET B) : h[s] = k[s]
  <1> DEFINE Bad == {s \in (SUBSET A) \cap (SUBSET B) : h[s] # k[s]}
  <1>1. SUFFICES ASSUME Bad # {} PROVE FALSE
    OBVIOUS
  <1>2. PICK T \in Bad : \A U \in Bad : U \subseteq T => U = T
    <2>1. Bad \in SUBSET SUBSET S
      OBVIOUS
    <2> HIDE DEF Bad
    <2> QED
      BY <1>1, <2>1, MinimalSet
  <1>3. /\ \A s \in SUBSET A : h[s] = IF s = {} THEN 0 ELSE g[Some(s)] + h[s \ {Some(s)}]
        /\ \A s \in SUBSET B : k[s] = IF s = {} THEN 0 ELSE g[Some(s)] + k[s \ {Some(s)}]
    BY DEF Sums
  <1>4. T # {}
    BY <1>2, <1>3
  <1>5. T \ {Some(T)} \notin Bad
    BY <1>2, <1>4, OneTaken
  <1>6. h[T \ {Some(T)}] = k[T \ {Some(T)}]
    BY <1>2, <1>5
  <1> QED
    BY <1>2, <1>3, <1>4, <1>6

\* There is such a function for every finite set.
LEMMA SumsExists ==
  ASSUME NEW S, IsFiniteSet(S), NEW g
  PROVE  \E h : Sums(h, g, S)
  <1> DEFINE Bad == {s \in SUBSET S : ~\E h : Sums(h, g, s)}
  <1>1. SUFFICES ASSUME Bad # {} PROVE FALSE
    OBVIOUS
  <1>2. PICK T \in Bad : \A U \in Bad : U \subseteq T => U = T
    <2>1. Bad \in SUBSET SUBSET S
      OBVIOUS
    <2> HIDE DEF Bad
    <2> QED
      BY <1>1, <2>1, MinimalSet
  <1> DEFINE of(u)   == CHOOSE h : Sums(h, g, u)
             last(s) == IF s = {} THEN 0 ELSE g[Some(s)] + of(s \ {Some(s)})[s \ {Some(s)}]
             all     == [s \in SUBSET T |-> last(s)]
  <1>3. \A u \in SUBSET T : u # T => Sums(of(u), g, u)
    BY <1>2
  <1>4. ASSUME NEW u \in SUBSET T, u # T PROVE of(u)[u] = last(u)
    <2>1. Sums(of(u), g, u)
      BY <1>3, <1>4
    <2>2. of(u)[u] = IF u = {} THEN 0 ELSE g[Some(u)] + of(u)[u \ {Some(u)}]
      BY <2>1 DEF Sums
    <2>3. CASE u = {}
      BY <2>2, <2>3
    <2>4. CASE u # {}
      <3> DEFINE v == u \ {Some(u)}
      <3>1. v \in SUBSET u /\ v # T
        BY <1>4
      <3>2. Sums(of(v), g, v)
        BY <1>3, <3>1
      <3>3. v \in (SUBSET u) \cap (SUBSET v) /\ u \in SUBSET S /\ v \in SUBSET S
        BY <1>2, <3>1
      <3> HIDE DEF of, v
      <3>4. of(u)[v] = of(v)[v]
        BY <2>1, <3>2, <3>3, SumsUnique
      <3> QED
        BY <2>2, <2>4, <3>4 DEF v
    <2> QED
      BY <2>3, <2>4
  <1>5. \A s \in SUBSET T : s # {} => all[s \ {Some(s)}] = of(s \ {Some(s)})[s \ {Some(s)}]
    <2> SUFFICES ASSUME NEW s \in SUBSET T, s # {}
                 PROVE  all[s \ {Some(s)}] = of(s \ {Some(s)})[s \ {Some(s)}]
      OBVIOUS
    <2>1. s \ {Some(s)} \in SUBSET T /\ s \ {Some(s)} # T
      BY OneTaken
    <2> HIDE DEF of, last
    <2> QED
      BY <1>4, <2>1
  <1>6. Sums(all, g, T)
    <2>1. \A s \in SUBSET T : last(s) = IF s = {} THEN 0 ELSE g[Some(s)] + all[s \ {Some(s)}]
      <3> HIDE DEF all, of
      <3> QED
        BY <1>5
    <2> HIDE DEF last
    <2>2. all = [s \in SUBSET T |-> IF s = {} THEN 0 ELSE g[Some(s)] + all[s \ {Some(s)}]]
      BY <2>1
    <2> HIDE DEF all
    <2> QED
      BY <2>2 DEF Sums
  <1> QED
    BY <1>2, <1>6

\* A sum is a member and the sum of the others.
LEMMA SumUnfold ==
  ASSUME NEW S, IsFiniteSet(S), NEW g
  PROVE  SumFunctionOnSet(g, S) =
            IF S = {} THEN 0 ELSE g[Some(S)] + SumFunctionOnSet(g, S \ {Some(S)})
  <1> DEFINE of(u) == CHOOSE h : Sums(h, g, u)
             R     == S \ {Some(S)}
  <1>1. Sums(of(S), g, S)
    BY SumsExists
  <1>2. Sums(of(R), g, R)
    BY FS_Subset, SumsExists
  <1>3. SumFunctionOnSet(g, S) = of(S)[S] /\ SumFunctionOnSet(g, R) = of(R)[R]
    BY SumIsChosen
  <1>4. of(S)[S] = IF S = {} THEN 0 ELSE g[Some(S)] + of(S)[R]
    BY <1>1 DEF Sums
  <1>5. of(S)[R] = of(R)[R]
    <2>1. R \in (SUBSET S) \cap (SUBSET R) /\ S \in SUBSET S /\ R \in SUBSET S
      OBVIOUS
    <2> HIDE DEF of, R
    <2> QED
      BY <1>1, <1>2, <2>1, SumsUnique
  <1> QED
    BY <1>3, <1>4, <1>5

\* A sum of integers is an integer.
LEMMA SumType ==
  ASSUME NEW S, IsFiniteSet(S), NEW g, \A x \in S : g[x] \in Int
  PROVE  SumFunctionOnSet(g, S) \in Int
  <1> DEFINE Bad == {s \in SUBSET S : SumFunctionOnSet(g, s) \notin Int}
  <1>1. SUFFICES ASSUME Bad # {} PROVE FALSE
    OBVIOUS
  <1>2. PICK T \in Bad : \A U \in Bad : U \subseteq T => U = T
    <2>1. Bad \in SUBSET SUBSET S
      OBVIOUS
    <2> HIDE DEF Bad
    <2> QED
      BY <1>1, <2>1, MinimalSet
  <1>3. SumFunctionOnSet(g, T) = IF T = {} THEN 0 ELSE g[Some(T)] + SumFunctionOnSet(g, T \ {Some(T)})
    BY <1>2, FS_Subset, SumUnfold
  <1>4. T # {}
    BY <1>2, <1>3
  <1>5. SumFunctionOnSet(g, T \ {Some(T)}) \in Int
    BY <1>2, <1>4, OneTaken
  <1>6. g[Some(T)] \in Int
    BY <1>2, <1>4, OneTaken
  <1> QED
    BY <1>2, <1>3, <1>4, <1>5, <1>6

\* Any member may be the one that is taken out.
LEMMA SumTake ==
  ASSUME NEW S, IsFiniteSet(S), NEW g, \A x \in S : g[x] \in Int, NEW a \in S
  PROVE  SumFunctionOnSet(g, S) = g[a] + SumFunctionOnSet(g, S \ {a})
  <1> DEFINE Bad == {s \in SUBSET S : \E x \in s : SumFunctionOnSet(g, s) # g[x] + SumFunctionOnSet(g, s \ {x})}
  <1>1. SUFFICES ASSUME Bad # {} PROVE FALSE
    OBVIOUS
  <1>2. PICK T \in Bad : \A U \in Bad : U \subseteq T => U = T
    <2>1. Bad \in SUBSET SUBSET S
      OBVIOUS
    <2> HIDE DEF Bad
    <2> QED
      BY <1>1, <2>1, MinimalSet
  <1>3. PICK x \in T : SumFunctionOnSet(g, T) # g[x] + SumFunctionOnSet(g, T \ {x})
    BY <1>2
  <1> DEFINE c == Some(T)
  <1>4. c \in T /\ x \in T /\ T \in SUBSET S
    BY <1>2, <1>3, OneTaken
  <1>5. SumFunctionOnSet(g, T) = g[c] + SumFunctionOnSet(g, T \ {c})
    BY <1>4, FS_Subset, SumUnfold
  <1> HIDE DEF c
  <1>6. x # c
    BY <1>3, <1>5
  <1>7. \A U \in SUBSET T : U # T => \A y \in U : SumFunctionOnSet(g, U) = g[y] + SumFunctionOnSet(g, U \ {y})
    BY <1>2
  <1>8. SumFunctionOnSet(g, T \ {c}) = g[x] + SumFunctionOnSet(g, (T \ {c}) \ {x})
    <2>1. T \ {c} \in SUBSET T /\ T \ {c} # T /\ x \in T \ {c}
      BY <1>4, <1>6
    <2> QED
      BY <1>7, <2>1
  <1>9. SumFunctionOnSet(g, T \ {x}) = g[c] + SumFunctionOnSet(g, (T \ {x}) \ {c})
    <2>1. T \ {x} \in SUBSET T /\ T \ {x} # T /\ c \in T \ {x}
      BY <1>4, <1>6
    <2> QED
      BY <1>7, <2>1
  <1>10. (T \ {x}) \ {c} = (T \ {c}) \ {x}
    OBVIOUS
  <1>11. SumFunctionOnSet(g, (T \ {c}) \ {x}) \in Int
    <2>1. (T \ {c}) \ {x} \in SUBSET S
      BY <1>4
    <2> QED
      BY <2>1, FS_Subset, SumType
  <1>12. g[x] \in Int /\ g[c] \in Int
    BY <1>4
  <1> DEFINE rest == SumFunctionOnSet(g, (T \ {c}) \ {x})
  <1>13. SumFunctionOnSet(g, T) = g[c] + (g[x] + rest)
    BY <1>5, <1>8
  <1>14. SumFunctionOnSet(g, T \ {x}) = g[c] + rest
    BY <1>9, <1>10
  <1> HIDE DEF rest, Bad
  <1>15. SumFunctionOnSet(g, T) = g[x] + SumFunctionOnSet(g, T \ {x})
    BY <1>11, <1>12, <1>13, <1>14 DEF rest
  <1> QED
    BY <1>3, <1>15

\* A sum has one more member.
LEMMA SumAdd ==
  ASSUME NEW S, IsFiniteSet(S), NEW g, NEW a, a \notin S, \A x \in S \cup {a} : g[x] \in Int
  PROVE  SumFunctionOnSet(g, S \cup {a}) = g[a] + SumFunctionOnSet(g, S)
  <1>1. IsFiniteSet(S \cup {a}) /\ (S \cup {a}) \ {a} = S
    BY FS_AddElement
  <1> QED
    BY <1>1, SumTake

\* The sum of nothing, and of one.
LEMMA SumSmall ==
  ASSUME NEW g
  PROVE  /\ SumFunctionOnSet(g, {}) = 0
         /\ \A a : g[a] \in Int => SumFunctionOnSet(g, {a}) = g[a]
  <1>1. SumFunctionOnSet(g, {}) = 0
    BY FS_EmptySet, SumUnfold
  <1>2. ASSUME NEW a, g[a] \in Int PROVE SumFunctionOnSet(g, {a}) = g[a]
    <2>1. IsFiniteSet({a}) /\ {a} \ {a} = {} /\ a \in {a} /\ \A x \in {a} : g[x] \in Int
      BY <1>2, FS_Singleton
    <2>2. SumFunctionOnSet(g, {a}) = g[a] + SumFunctionOnSet(g, {a} \ {a})
      BY <2>1, SumTake
    <2> QED
      BY <1>1, <1>2, <2>1, <2>2
  <1> QED
    BY <1>1, <1>2

\* Sums of greater or equal numbers are greater or equal.
LEMMA SumCompare ==
  ASSUME NEW S, IsFiniteSet(S), NEW g, NEW h,
         \A x \in S : g[x] \in Int /\ h[x] \in Int /\ g[x] <= h[x]
  PROVE  SumFunctionOnSet(g, S) <= SumFunctionOnSet(h, S)
  <1> DEFINE Bad == {s \in SUBSET S : ~(SumFunctionOnSet(g, s) <= SumFunctionOnSet(h, s))}
  <1>1. SUFFICES ASSUME Bad # {} PROVE FALSE
    OBVIOUS
  <1>2. PICK T \in Bad : \A U \in Bad : U \subseteq T => U = T
    <2>1. Bad \in SUBSET SUBSET S
      OBVIOUS
    <2> HIDE DEF Bad
    <2> QED
      BY <1>1, <2>1, MinimalSet
  <1>3. T \in SUBSET S /\ IsFiniteSet(T)
    BY <1>2, FS_Subset
  <1>4. T # {}
    <2>1. SumFunctionOnSet(g, {}) = 0 /\ SumFunctionOnSet(h, {}) = 0
      BY SumSmall
    <2>2. ~(SumFunctionOnSet(g, T) <= SumFunctionOnSet(h, T))
      BY <1>2
    <2> QED
      BY <2>1, <2>2
  <1> DEFINE c == Some(T)
             R == T \ {c}
  <1>5. c \in T /\ R \in SUBSET T /\ R # T
    BY <1>4, OneTaken
  <1>6. /\ SumFunctionOnSet(g, T) = g[c] + SumFunctionOnSet(g, R)
        /\ SumFunctionOnSet(h, T) = h[c] + SumFunctionOnSet(h, R)
    BY <1>3, <1>4, SumUnfold
  <1>7. SumFunctionOnSet(g, R) <= SumFunctionOnSet(h, R)
    BY <1>2, <1>5
  <1>8. SumFunctionOnSet(g, R) \in Int /\ SumFunctionOnSet(h, R) \in Int
    BY <1>3, <1>5, FS_Subset, SumType
  <1>9. g[c] \in Int /\ h[c] \in Int /\ g[c] <= h[c]
    BY <1>3, <1>5
  <1> QED
    BY <1>2, <1>6, <1>7, <1>8, <1>9

\* Sums of equal numbers are equal.
LEMMA SumEqual ==
  ASSUME NEW S, IsFiniteSet(S), NEW g, NEW h, \A x \in S : g[x] \in Int /\ g[x] = h[x]
  PROVE  SumFunctionOnSet(g, S) = SumFunctionOnSet(h, S)
  <1>1. \A x \in S : g[x] <= h[x] /\ h[x] <= g[x] /\ h[x] \in Int
    OBVIOUS
  <1>2. SumFunctionOnSet(g, S) <= SumFunctionOnSet(h, S)
    BY <1>1, SumCompare
  <1>3. SumFunctionOnSet(h, S) <= SumFunctionOnSet(g, S)
    BY <1>1, SumCompare
  <1>4. SumFunctionOnSet(g, S) \in Int /\ SumFunctionOnSet(h, S) \in Int
    BY <1>1, SumType
  <1> QED
    BY <1>2, <1>3, <1>4

\* No member of a sum of naturals is greater than the sum.
LEMMA SumOfNaturals ==
  ASSUME NEW S, IsFiniteSet(S), NEW g, \A x \in S : g[x] \in Nat
  PROVE  SumFunctionOnSet(g, S) \in Nat /\ \A a \in S : g[a] <= SumFunctionOnSet(g, S)
  <1> DEFINE none == [x \in S |-> 0]
  <1>1. \A T \in SUBSET S : SumFunctionOnSet(g, T) \in Nat
    <2> SUFFICES ASSUME NEW T \in SUBSET S PROVE SumFunctionOnSet(g, T) \in Nat
      OBVIOUS
    <2> DEFINE Bad == {s \in SUBSET T : SumFunctionOnSet(g, s) \notin Nat}
    <2>0. IsFiniteSet(T)
      BY FS_Subset
    <2>1. SUFFICES ASSUME Bad # {} PROVE FALSE
      OBVIOUS
    <2>2. PICK U \in Bad : \A V \in Bad : V \subseteq U => V = U
      <3>1. Bad \in SUBSET SUBSET T
        OBVIOUS
      <3> HIDE DEF Bad
      <3> QED
        BY <2>0, <2>1, <3>1, MinimalSet
    <2>3. SumFunctionOnSet(g, U) = IF U = {} THEN 0 ELSE g[Some(U)] + SumFunctionOnSet(g, U \ {Some(U)})
      BY <2>0, <2>2, FS_Subset, SumUnfold
    <2>4. U # {}
      BY <2>2, <2>3
    <2>5. SumFunctionOnSet(g, U \ {Some(U)}) \in Nat /\ g[Some(U)] \in Nat
      BY <2>2, <2>4, OneTaken
    <2> QED
      BY <2>2, <2>3, <2>4, <2>5
  <1>2. ASSUME NEW a \in S PROVE g[a] <= SumFunctionOnSet(g, S)
    <2>1. SumFunctionOnSet(g, S) = g[a] + SumFunctionOnSet(g, S \ {a})
      BY SumTake
    <2>2. SumFunctionOnSet(g, S \ {a}) \in Nat
      BY <1>1
    <2> QED
      BY <2>1, <2>2
  <1> QED
    BY <1>1, <1>2

-----------------------------------------------------------------------------
(* Canonical orders: sorted by its key, a finite set loses no record and   *)
(* repeats none.                                                           *)

\* Keys are ordered, and no two of them are equal in the order.
LEMMA BeforeOrder ==
  ASSUME NEW a \in Seq(Int), NEW b \in Seq(Int)
  PROVE  /\ ~Before(a, a)
         /\ \A c \in Seq(Int) : Before(a, b) /\ Before(b, c) => Before(a, c)
         /\ a # b => Before(a, b) \/ Before(b, a)
  <1>0. /\ Len(a) \in Nat /\ DOMAIN a = 1 .. Len(a) /\ \A i \in DOMAIN a : a[i] \in Int
        /\ Len(b) \in Nat /\ DOMAIN b = 1 .. Len(b) /\ \A i \in DOMAIN b : b[i] \in Int
    OBVIOUS
  <1>1. ~Before(a, a)
    BY <1>0 DEF Before
  <1>2. ASSUME NEW c \in Seq(Int), Before(a, b), Before(b, c)
        PROVE  Before(a, c)
    <2>0. Len(c) \in Nat /\ DOMAIN c = 1 .. Len(c) /\ \A i \in DOMAIN c : c[i] \in Int
      OBVIOUS
    <2>1. PICK i \in 1 .. Len(b) : /\ \A j \in 1 .. i - 1 : j \in DOMAIN a /\ a[j] = b[j]
                                   /\ i \notin DOMAIN a \/ a[i] < b[i]
      BY <1>2 DEF Before
    <2>2. PICK k \in 1 .. Len(c) : /\ \A j \in 1 .. k - 1 : j \in DOMAIN b /\ b[j] = c[j]
                                   /\ k \notin DOMAIN b \/ b[k] < c[k]
      BY <1>2 DEF Before
    <2>3. CASE i < k
      <3>1. i \in 1 .. Len(c) /\ b[i] = c[i] /\ \A j \in 1 .. i - 1 : j \in DOMAIN a /\ a[j] = c[j]
        BY <1>0, <2>0, <2>1, <2>2, <2>3
      <3> QED
        BY <2>1, <3>1 DEF Before
    <2>4. CASE i = k
      <3>1. /\ b[i] < c[i] /\ i \in 1 .. Len(c)
            /\ \A j \in 1 .. i - 1 : j \in DOMAIN a /\ a[j] = c[j]
        BY <1>0, <2>1, <2>2, <2>4
      <3>2. i \notin DOMAIN a \/ a[i] < c[i]
        BY <1>0, <2>0, <2>1, <3>1
      <3> QED
        BY <3>1, <3>2 DEF Before
    <2>5. CASE k < i
      <3>1. /\ k \in DOMAIN b /\ k \in DOMAIN a /\ a[k] = b[k]
            /\ \A j \in 1 .. k - 1 : j \in DOMAIN a /\ a[j] = c[j]
        BY <1>0, <2>0, <2>1, <2>2, <2>5
      <3> QED
        BY <2>2, <3>1 DEF Before
    <2> QED
      BY <2>3, <2>4, <2>5
  <1>3. ASSUME a # b PROVE Before(a, b) \/ Before(b, a)
    <2> DEFINE Differ == {i \in 1 .. Len(a) : i > Len(b) \/ a[i] # b[i]}
    <2>1. CASE \A i \in 1 .. Len(a) : i <= Len(b) /\ a[i] = b[i]
      <3>2. Len(a) <= Len(b)
        BY <1>0, <2>1
      <3>3. Len(a) # Len(b)
        <4>1. a = [i \in 1 .. Len(a) |-> a[i]] /\ b = [i \in 1 .. Len(b) |-> b[i]]
          BY <1>0
        <4> QED
          BY <1>3, <2>1, <4>1
      <3> DEFINE n == Len(a)
      <3>4. n + 1 \in 1 .. Len(b) /\ n + 1 \notin DOMAIN a /\ (n + 1) - 1 = n
        <4>1. n \in Nat /\ Len(b) \in Nat /\ n <= Len(b) /\ n # Len(b) /\ DOMAIN a = 1 .. n
          BY <1>0, <3>2, <3>3, Zenon
        <4> HIDE DEF n
        <4> QED
          BY <4>1
      <3>5. \A j \in 1 .. (n + 1) - 1 : j \in DOMAIN a /\ a[j] = b[j]
        BY <1>0, <2>1, <3>4
      <3> QED
        BY <3>4, <3>5 DEF Before
    <2>2. CASE ~\A i \in 1 .. Len(a) : i <= Len(b) /\ a[i] = b[i]
      <3>0. Differ # {}
        <4>1. PICK i \in 1 .. Len(a) : ~(i <= Len(b) /\ a[i] = b[i])
          BY <2>2
        <4>2. i > Len(b) \/ a[i] # b[i]
          BY <1>0, <4>1
        <4> QED
          BY <4>2
      <3>1. PICK i \in Differ : \A j \in Differ : i <= j
        <4>1. Differ \in SUBSET (1 .. Len(a))
          OBVIOUS
        <4> HIDE DEF Differ
        <4> QED
          BY <1>0, <3>0, <4>1, Codec!LeastIndex
      <3>2. i \in 1 .. Len(a) /\ \A j \in 1 .. i - 1 : j \in DOMAIN a /\ j \in DOMAIN b /\ a[j] = b[j]
        BY <1>0, <3>1
      <3>3. CASE i > Len(b)
        <4>1. i \notin DOMAIN b
          BY <1>0, <3>2, <3>3
        <4> QED
          BY <3>2, <4>1 DEF Before
      <3>4. CASE i <= Len(b)
        <4>1. i \in 1 .. Len(b) /\ a[i] # b[i]
          BY <1>0, <3>1, <3>2, <3>4
        <4>2. a[i] < b[i] \/ b[i] < a[i]
          BY <1>0, <3>2, <4>1
        <4> QED
          BY <3>2, <4>1, <4>2 DEF Before
      <3> QED
        BY <1>0, <3>2, <3>3, <3>4
    <2> QED
      BY <2>1, <2>2
  <1> QED
    BY <1>1, <1>2, <1>3

\* What comes before x, the keys of S being K.
Below(S, K, x) == {y \in S : Before(K[y], K[x])}

\* Each record of a finite set has its own number of records below it.
LEMMA Ranked ==
  ASSUME NEW S, IsFiniteSet(S), NEW K \in [S -> Seq(Int)], \A x, y \in S : K[x] = K[y] => x = y
  PROVE  /\ \A x \in S : Cardinality(Below(S, K, x)) \in 0 .. Cardinality(S) - 1
         /\ \A x, y \in S : Cardinality(Below(S, K, x)) = Cardinality(Below(S, K, y)) => x = y
         /\ \A n \in 0 .. Cardinality(S) - 1 : \E x \in S : Cardinality(Below(S, K, x)) = n
  <1> DEFINE p == [x \in S |-> Cardinality(Below(S, K, x))]
  <1>0. Cardinality(S) \in Nat
    BY FS_CardinalityType
  <1>1. \A x \in S : IsFiniteSet(Below(S, K, x)) /\ p[x] \in Nat
    BY FS_Subset, FS_CardinalityType DEF Below
  <1>2. ASSUME NEW x \in S
        PROVE  /\ p[x] + 1 <= Cardinality(S)
               /\ \A y \in S : Before(K[x], K[y]) => p[x] + 1 <= p[y]
    <2> DEFINE T == Below(S, K, x) \cup {x}
    <2>1. x \notin Below(S, K, x)
      BY BeforeOrder DEF Below
    <2>2. IsFiniteSet(T) /\ Cardinality(T) = p[x] + 1
      BY <1>1, <2>1, FS_AddElement
    <2>3. T \in SUBSET S
      BY DEF Below
    <2>4. p[x] + 1 <= Cardinality(S)
      BY <2>2, <2>3, FS_Subset
    <2>5. ASSUME NEW y \in S, Before(K[x], K[y]) PROVE p[x] + 1 <= p[y]
      <3>1. T \in SUBSET Below(S, K, y)
        BY <2>5, BeforeOrder DEF Below
      <3> QED
        BY <1>1, <2>2, <3>1, FS_Subset
    <2> QED
      BY <2>4, <2>5
  <1>3. p \in Injection(S, 0 .. Cardinality(S) - 1)
    <2>1. \A x \in S : p[x] \in 0 .. Cardinality(S) - 1
      BY <1>0, <1>1, <1>2
    <2>2. ASSUME NEW x \in S, NEW y \in S, p[x] = p[y] PROVE x = y
      <3>1. ~Before(K[x], K[y]) /\ ~Before(K[y], K[x])
        <4> HIDE DEF p
        <4> QED
          BY <1>1, <1>2, <2>2
      <3> QED
        BY <3>1, BeforeOrder
    <2> QED
      BY <2>1, <2>2 DEF Injection, IsInjective
  <1>4. p \in Surjection(S, 0 .. Cardinality(S) - 1)
    <2>1. /\ IsFiniteSet(0 .. Cardinality(S) - 1)
          /\ Cardinality(0 .. Cardinality(S) - 1) = Cardinality(S)
      <3>1. 0 \in Int /\ Cardinality(S) - 1 \in Int
        BY <1>0
      <3> QED
        BY <1>0, <3>1, FS_Interval
    <2> HIDE DEF p
    <2> QED
      BY <1>3, <2>1, FS_Injection
  <1> QED
    BY <1>3, <1>4 DEF Injection, IsInjective, Surjection

\* The sequence s holds every member of S once.
IsTable(s, S) ==
    /\ DOMAIN s = 1 .. Cardinality(S) /\ Cardinality(S) \in Nat /\ s = [i \in DOMAIN s |-> s[i]]
    /\ \A i \in DOMAIN s : s[i] \in S
    /\ \A x \in S : \E i \in DOMAIN s : s[i] = x
    /\ \A i, j \in DOMAIN s : s[i] = s[j] => i = j

\* A sequence is such a table if the member at i has i - 1 members below it.
LEMMA TableOf ==
  ASSUME NEW S, IsFiniteSet(S), NEW K \in [S -> Seq(Int)], \A x, y \in S : K[x] = K[y] => x = y,
         NEW s, s = [i \in 1 .. Cardinality(S) |-> s[i]],
         \A i \in 1 .. Cardinality(S) :
            (\E x \in S : Cardinality(Below(S, K, x)) = i - 1) => s[i] \in S /\ Cardinality(Below(S, K, s[i])) = i - 1
  PROVE  IsTable(s, S)
  <1> DEFINE p(x) == Cardinality(Below(S, K, x))
  <1>1. /\ \A x \in S : p(x) \in 0 .. Cardinality(S) - 1
        /\ \A x, y \in S : p(x) = p(y) => x = y
        /\ \A n \in 0 .. Cardinality(S) - 1 : \E x \in S : p(x) = n
    BY Ranked
  <1>2. Cardinality(S) \in Nat
    BY FS_CardinalityType
  <1>3. \A i \in 1 .. Cardinality(S) : (\E x \in S : p(x) = i - 1) => s[i] \in S /\ p(s[i]) = i - 1
    OBVIOUS
  <1> HIDE DEF p
  <1>4. DOMAIN s = 1 .. Cardinality(S) /\ s = [i \in DOMAIN s |-> s[i]]
    OBVIOUS
  <1>5. \A i \in DOMAIN s : s[i] \in S /\ p(s[i]) = i - 1
    <2>1. \A i \in DOMAIN s : i - 1 \in 0 .. Cardinality(S) - 1
      BY <1>2, <1>4
    <2> QED
      BY <1>1, <1>3, <1>4, <2>1
  <1>6. ASSUME NEW x \in S PROVE \E i \in DOMAIN s : s[i] = x
    <2>1. p(x) + 1 \in 1 .. Cardinality(S) /\ (p(x) + 1) - 1 = p(x)
      BY <1>1, <1>2
    <2>2. s[p(x) + 1] \in S /\ p(s[p(x) + 1]) = p(x)
      BY <1>4, <1>5, <2>1
    <2> QED
      BY <1>1, <1>4, <2>1, <2>2
  <1>7. \A i, j \in DOMAIN s : s[i] = s[j] => i = j
    BY <1>2, <1>4, <1>5
  <1> QED
    BY <1>2, <1>4, <1>5, <1>6, <1>7 DEF IsTable

\* Sorted, sources are a table.
LEMMA SourceTable ==
  ASSUME NEW S, IsFiniteSet(S), ~Contradicts(S, SourceKey), \A x \in S : SourceKey(x) \in Seq(Int)
  PROVE  IsTable(SortedBy(S, SourceKey), S)
  <1> DEFINE K    == [x \in S |-> SourceKey(x)]
             r(x) == Cardinality({y \in S : Before(SourceKey(y), SourceKey(x))})
             s    == SortedBy(S, SourceKey)
  <1>1. K \in [S -> Seq(Int)] /\ \A x, y \in S : K[x] = K[y] => x = y
    BY DEF Contradicts
  <1>2. \A x \in S : Cardinality(Below(S, K, x)) = r(x)
    <2>1. \A x \in S : Below(S, K, x) = {y \in S : Before(SourceKey(y), SourceKey(x))}
      BY DEF Below
    <2> QED
      BY <2>1
  <1>3. s = [i \in 1 .. Cardinality(S) |-> CHOOSE x \in S : r(x) = i - 1]
    BY DEF SortedBy
  <1> HIDE DEF r, s, K
  <1>4. \A i \in 1 .. Cardinality(S) : (\E x \in S : r(x) = i - 1) => s[i] \in S /\ r(s[i]) = i - 1
    BY <1>3
  <1>5. \A i \in 1 .. Cardinality(S) :
           (\E x \in S : Cardinality(Below(S, K, x)) = i - 1) => s[i] \in S /\ Cardinality(Below(S, K, s[i])) = i - 1
    BY <1>2, <1>4
  <1>6. s = [i \in 1 .. Cardinality(S) |-> s[i]]
    BY <1>3
  <1>7. IsTable(s, S)
    BY <1>1, <1>5, <1>6, TableOf
  <1> QED
    BY <1>7 DEF s

\* Sorted, entities are.
LEMMA EntityTable ==
  ASSUME NEW S, IsFiniteSet(S), ~Contradicts(S, EntityKey), \A x \in S : EntityKey(x) \in Seq(Int)
  PROVE  IsTable(SortedBy(S, EntityKey), S)
  <1> DEFINE K    == [x \in S |-> EntityKey(x)]
             r(x) == Cardinality({y \in S : Before(EntityKey(y), EntityKey(x))})
             s    == SortedBy(S, EntityKey)
  <1>1. K \in [S -> Seq(Int)] /\ \A x, y \in S : K[x] = K[y] => x = y
    BY DEF Contradicts
  <1>2. \A x \in S : Cardinality(Below(S, K, x)) = r(x)
    <2>1. \A x \in S : Below(S, K, x) = {y \in S : Before(EntityKey(y), EntityKey(x))}
      BY DEF Below
    <2> QED
      BY <2>1
  <1>3. s = [i \in 1 .. Cardinality(S) |-> CHOOSE x \in S : r(x) = i - 1]
    BY DEF SortedBy
  <1> HIDE DEF r, s, K
  <1>4. \A i \in 1 .. Cardinality(S) : (\E x \in S : r(x) = i - 1) => s[i] \in S /\ r(s[i]) = i - 1
    BY <1>3
  <1>5. \A i \in 1 .. Cardinality(S) :
           (\E x \in S : Cardinality(Below(S, K, x)) = i - 1) => s[i] \in S /\ Cardinality(Below(S, K, s[i])) = i - 1
    BY <1>2, <1>4
  <1>6. s = [i \in 1 .. Cardinality(S) |-> s[i]]
    BY <1>3
  <1>7. IsTable(s, S)
    BY <1>1, <1>5, <1>6, TableOf
  <1> QED
    BY <1>7 DEF s

\* Sorted, clauses are.
LEMMA ContractTable ==
  ASSUME NEW S, IsFiniteSet(S), ~Contradicts(S, ContractKey), \A x \in S : ContractKey(x) \in Seq(Int)
  PROVE  IsTable(SortedBy(S, ContractKey), S)
  <1> DEFINE K    == [x \in S |-> ContractKey(x)]
             r(x) == Cardinality({y \in S : Before(ContractKey(y), ContractKey(x))})
             s    == SortedBy(S, ContractKey)
  <1>1. K \in [S -> Seq(Int)] /\ \A x, y \in S : K[x] = K[y] => x = y
    BY DEF Contradicts
  <1>2. \A x \in S : Cardinality(Below(S, K, x)) = r(x)
    <2>1. \A x \in S : Below(S, K, x) = {y \in S : Before(ContractKey(y), ContractKey(x))}
      BY DEF Below
    <2> QED
      BY <2>1
  <1>3. s = [i \in 1 .. Cardinality(S) |-> CHOOSE x \in S : r(x) = i - 1]
    BY DEF SortedBy
  <1> HIDE DEF r, s, K
  <1>4. \A i \in 1 .. Cardinality(S) : (\E x \in S : r(x) = i - 1) => s[i] \in S /\ r(s[i]) = i - 1
    BY <1>3
  <1>5. \A i \in 1 .. Cardinality(S) :
           (\E x \in S : Cardinality(Below(S, K, x)) = i - 1) => s[i] \in S /\ Cardinality(Below(S, K, s[i])) = i - 1
    BY <1>2, <1>4
  <1>6. s = [i \in 1 .. Cardinality(S) |-> s[i]]
    BY <1>3
  <1>7. IsTable(s, S)
    BY <1>1, <1>5, <1>6, TableOf
  <1> QED
    BY <1>7 DEF s

\* Sorted, exclusions are.
LEMMA ExclusionTable ==
  ASSUME NEW S, IsFiniteSet(S), ~Contradicts(S, ExclusionKey), \A x \in S : ExclusionKey(x) \in Seq(Int)
  PROVE  IsTable(SortedBy(S, ExclusionKey), S)
  <1> DEFINE K    == [x \in S |-> ExclusionKey(x)]
             r(x) == Cardinality({y \in S : Before(ExclusionKey(y), ExclusionKey(x))})
             s    == SortedBy(S, ExclusionKey)
  <1>1. K \in [S -> Seq(Int)] /\ \A x, y \in S : K[x] = K[y] => x = y
    BY DEF Contradicts
  <1>2. \A x \in S : Cardinality(Below(S, K, x)) = r(x)
    <2>1. \A x \in S : Below(S, K, x) = {y \in S : Before(ExclusionKey(y), ExclusionKey(x))}
      BY DEF Below
    <2> QED
      BY <2>1
  <1>3. s = [i \in 1 .. Cardinality(S) |-> CHOOSE x \in S : r(x) = i - 1]
    BY DEF SortedBy
  <1> HIDE DEF r, s, K
  <1>4. \A i \in 1 .. Cardinality(S) : (\E x \in S : r(x) = i - 1) => s[i] \in S /\ r(s[i]) = i - 1
    BY <1>3
  <1>5. \A i \in 1 .. Cardinality(S) :
           (\E x \in S : Cardinality(Below(S, K, x)) = i - 1) => s[i] \in S /\ Cardinality(Below(S, K, s[i])) = i - 1
    BY <1>2, <1>4
  <1>6. s = [i \in 1 .. Cardinality(S) |-> s[i]]
    BY <1>3
  <1>7. IsTable(s, S)
    BY <1>1, <1>5, <1>6, TableOf
  <1> QED
    BY <1>7 DEF s

\* Sorted, regions are.
LEMMA RegionTable ==
  ASSUME NEW S, IsFiniteSet(S), ~Contradicts(S, RegionKey), \A x \in S : RegionKey(x) \in Seq(Int)
  PROVE  IsTable(SortedBy(S, RegionKey), S)
  <1> DEFINE K    == [x \in S |-> RegionKey(x)]
             r(x) == Cardinality({y \in S : Before(RegionKey(y), RegionKey(x))})
             s    == SortedBy(S, RegionKey)
  <1>1. K \in [S -> Seq(Int)] /\ \A x, y \in S : K[x] = K[y] => x = y
    BY DEF Contradicts
  <1>2. \A x \in S : Cardinality(Below(S, K, x)) = r(x)
    <2>1. \A x \in S : Below(S, K, x) = {y \in S : Before(RegionKey(y), RegionKey(x))}
      BY DEF Below
    <2> QED
      BY <2>1
  <1>3. s = [i \in 1 .. Cardinality(S) |-> CHOOSE x \in S : r(x) = i - 1]
    BY DEF SortedBy
  <1> HIDE DEF r, s, K
  <1>4. \A i \in 1 .. Cardinality(S) : (\E x \in S : r(x) = i - 1) => s[i] \in S /\ r(s[i]) = i - 1
    BY <1>3
  <1>5. \A i \in 1 .. Cardinality(S) :
           (\E x \in S : Cardinality(Below(S, K, x)) = i - 1) => s[i] \in S /\ Cardinality(Below(S, K, s[i])) = i - 1
    BY <1>2, <1>4
  <1>6. s = [i \in 1 .. Cardinality(S) |-> s[i]]
    BY <1>3
  <1>7. IsTable(s, S)
    BY <1>1, <1>5, <1>6, TableOf
  <1> QED
    BY <1>7 DEF s

\* Sorted, terms are.
LEMMA TermTable ==
  ASSUME NEW S, IsFiniteSet(S), ~Contradicts(S, LAMBDA t : t.point_id), \A x \in S : x.point_id \in Seq(Int)
  PROVE  IsTable(SortedBy(S, LAMBDA t : t.point_id), S)
  <1> DEFINE K    == [x \in S |-> x.point_id]
             r(x) == Cardinality({y \in S : Before(y.point_id, x.point_id)})
             s    == SortedBy(S, LAMBDA t : t.point_id)
  <1>1. K \in [S -> Seq(Int)] /\ \A x, y \in S : K[x] = K[y] => x = y
    BY DEF Contradicts
  <1>2. \A x \in S : Cardinality(Below(S, K, x)) = r(x)
    <2>1. \A x \in S : Below(S, K, x) = {y \in S : Before(y.point_id, x.point_id)}
      BY DEF Below
    <2> QED
      BY <2>1
  <1>3. s = [i \in 1 .. Cardinality(S) |-> CHOOSE x \in S : r(x) = i - 1]
    BY DEF SortedBy
  <1> HIDE DEF r, s, K
  <1>4. \A i \in 1 .. Cardinality(S) : (\E x \in S : r(x) = i - 1) => s[i] \in S /\ r(s[i]) = i - 1
    BY <1>3
  <1>5. \A i \in 1 .. Cardinality(S) :
           (\E x \in S : Cardinality(Below(S, K, x)) = i - 1) => s[i] \in S /\ Cardinality(Below(S, K, s[i])) = i - 1
    BY <1>2, <1>4
  <1>6. s = [i \in 1 .. Cardinality(S) |-> s[i]]
    BY <1>3
  <1>7. IsTable(s, S)
    BY <1>1, <1>5, <1>6, TableOf
  <1> QED
    BY <1>7 DEF s

\* Sorted, pairs of numbers are.
LEMMA PairTable ==
  ASSUME NEW S, IsFiniteSet(S), ~Contradicts(S, LAMBDA w : w), \A x \in S : x \in Seq(Int)
  PROVE  IsTable(SortedBy(S, LAMBDA w : w), S)
  <1> DEFINE K    == [x \in S |-> x]
             r(x) == Cardinality({y \in S : Before(y, x)})
             s    == SortedBy(S, LAMBDA w : w)
  <1>1. K \in [S -> Seq(Int)] /\ \A x, y \in S : K[x] = K[y] => x = y
    BY DEF Contradicts
  <1>2. \A x \in S : Cardinality(Below(S, K, x)) = r(x)
    <2>1. \A x \in S : Below(S, K, x) = {y \in S : Before(y, x)}
      BY DEF Below
    <2> QED
      BY <2>1
  <1>3. s = [i \in 1 .. Cardinality(S) |-> CHOOSE x \in S : r(x) = i - 1]
    BY DEF SortedBy
  <1> HIDE DEF r, s, K
  <1>4. \A i \in 1 .. Cardinality(S) : (\E x \in S : r(x) = i - 1) => s[i] \in S /\ r(s[i]) = i - 1
    BY <1>3
  <1>5. \A i \in 1 .. Cardinality(S) :
           (\E x \in S : Cardinality(Below(S, K, x)) = i - 1) => s[i] \in S /\ Cardinality(Below(S, K, s[i])) = i - 1
    BY <1>2, <1>4
  <1>6. s = [i \in 1 .. Cardinality(S) |-> s[i]]
    BY <1>3
  <1>7. IsTable(s, S)
    BY <1>1, <1>5, <1>6, TableOf
  <1> QED
    BY <1>7 DEF s

\* Names have places in the order of names.
LEMMA RankType ==
  ASSUME NEW name \in EntityKinds \cup ContractKinds \cup RegionKinds \cup {"branch_off", "contract_off", "off"}
  PROVE  Rank(name) \in Int
  <1>1. DOMAIN NameOrder = 1 .. 29
    BY DEF NameOrder
  <1>2. \E i \in 1 .. 29 : NameOrder[i] = name
    <2>1. /\ NameOrder[2] = "assert" /\ NameOrder[3] = "assignment" /\ NameOrder[4] = "branch_body"
          /\ NameOrder[5] = "branch_off" /\ NameOrder[6] = "break" /\ NameOrder[7] = "call"
          /\ NameOrder[9] = "continue" /\ NameOrder[10] = "contract" /\ NameOrder[11] = "contract_off"
          /\ NameOrder[12] = "ensures" /\ NameOrder[13] = "expression" /\ NameOrder[14] = "expression_statement"
          /\ NameOrder[15] = "function" /\ NameOrder[18] = "initializer" /\ NameOrder[20] = "loop_body"
          /\ NameOrder[21] = "loop_invariant" /\ NameOrder[23] = "match_arm" /\ NameOrder[24] = "mutation"
          /\ NameOrder[25] = "off" /\ NameOrder[27] = "requires" /\ NameOrder[28] = "return"
      BY DEF NameOrder
    <2> HIDE DEF NameOrder
    <2>2. /\ 2 \in 1 .. 29 /\ 3 \in 1 .. 29 /\ 4 \in 1 .. 29 /\ 5 \in 1 .. 29 /\ 6 \in 1 .. 29 /\ 7 \in 1 .. 29
          /\ 9 \in 1 .. 29 /\ 10 \in 1 .. 29 /\ 11 \in 1 .. 29 /\ 12 \in 1 .. 29 /\ 13 \in 1 .. 29
          /\ 14 \in 1 .. 29 /\ 15 \in 1 .. 29 /\ 18 \in 1 .. 29 /\ 20 \in 1 .. 29 /\ 21 \in 1 .. 29
          /\ 23 \in 1 .. 29 /\ 24 \in 1 .. 29 /\ 25 \in 1 .. 29 /\ 27 \in 1 .. 29 /\ 28 \in 1 .. 29
      OBVIOUS
    <2> QED
      BY <2>1, <2>2 DEF EntityKinds, ContractKinds, RegionKinds
  <1>3. Rank(name) \in 1 .. 29
    BY <1>1, <1>2 DEF Rank
  <1> QED
    BY <1>3

-----------------------------------------------------------------------------
(* Keys are sequences of integers, those of regions too. *)

\* f joins the first k of some sequences, in turn.
Joins(f, seqs, k) == f = [i \in 1 .. k |-> IF i = 1 THEN seqs[i] ELSE f[i - 1] \o seqs[i]]

\* Sequences of integers joined are one.
LEMMA JoinedType ==
  ASSUME NEW seqs \in Seq(Seq(Int))
  PROVE  FlattenSeq(seqs) \in Seq(Int)
  <1> DEFINE n == Len(seqs)
             f == CHOOSE g : Joins(g, seqs, n)
  <1>1. FlattenSeq(seqs) = IF n = 0 THEN seqs ELSE f[n]
    BY DEF FlattenSeq, Joins
  <1>0. n \in Nat /\ \A i \in 1 .. n : seqs[i] \in Seq(Int)
    OBVIOUS
  <1>2. CASE n = 0
    <2>1. seqs = << >>
      BY <1>2
    <2> QED
      BY <1>1, <1>2, <2>1
  <1>3. CASE n # 0
    <2> DEFINE Bad == {k \in 1 .. n : ~\E g : Joins(g, seqs, k)}
    <2>1. Bad = {}
      <3> SUFFICES ASSUME Bad # {} PROVE FALSE
        OBVIOUS
      <3>1. PICK k \in Bad : \A j \in Bad : k <= j
        <4>1. Bad \in SUBSET (1 .. n)
          OBVIOUS
        <4> HIDE DEF Bad, n
        <4> QED
          BY <1>0, <4>1, Codec!LeastIndex
      <3> HIDE DEF n
      <3>2. CASE k = 1
        <4> DEFINE g == [i \in 1 .. 1 |-> seqs[1]]
        <4>1. Joins(g, seqs, 1)
          BY DEF Joins
        <4> QED
          BY <3>1, <3>2, <4>1
      <3>3. CASE k # 1
        <4>1. k - 1 \in 1 .. n /\ k - 1 \notin Bad /\ k \in Nat
          <5>1. k \in 1 .. n /\ Bad \in SUBSET (1 .. n)
            OBVIOUS
          <5> HIDE DEF Bad
          <5> QED
            BY <1>0, <3>1, <3>3, <5>1
        <4>2. PICK h : Joins(h, seqs, k - 1)
          BY <4>1
        <4> DEFINE g == [i \in 1 .. k |-> IF i = k THEN h[k - 1] \o seqs[k] ELSE h[i]]
        <4>3. \A i \in 1 .. k - 1 : h[i] = IF i = 1 THEN seqs[i] ELSE h[i - 1] \o seqs[i]
          BY <4>2 DEF Joins
        <4>4. \A i \in 1 .. k : g[i] = IF i = 1 THEN seqs[i] ELSE g[i - 1] \o seqs[i]
          <5> SUFFICES ASSUME NEW i \in 1 .. k PROVE g[i] = IF i = 1 THEN seqs[i] ELSE g[i - 1] \o seqs[i]
            OBVIOUS
          <5>1. CASE i = k
            <6>1. k - 1 \in 1 .. k /\ k - 1 # k
              BY <4>1
            <6> QED
              BY <3>3, <5>1, <6>1
          <5>2. CASE i # k
            <6>1. i \in 1 .. k - 1 /\ (i # 1 => i - 1 \in 1 .. k /\ i - 1 # k)
              BY <4>1, <5>2
            <6> QED
              BY <4>3, <5>2, <6>1
          <5> QED
            BY <5>1, <5>2
        <4>5. g = [i \in 1 .. k |-> g[i]]
          OBVIOUS
        <4> HIDE DEF g
        <4>6. Joins(g, seqs, k)
          BY <4>4, <4>5 DEF Joins
        <4> QED
          BY <3>1, <4>6
      <3> QED
        BY <3>2, <3>3
    <2>2. Joins(f, seqs, n)
      <3>1. n \in 1 .. n
        BY <1>0, <1>3
      <3>2. \E g : Joins(g, seqs, n)
        BY <2>1, <3>1
      <3> HIDE DEF n
      <3> QED
        BY <3>2
    <2>3. \A i \in 1 .. n : f[i] = IF i = 1 THEN seqs[i] ELSE f[i - 1] \o seqs[i]
      BY <2>2, Zenon DEF Joins
    <2> DEFINE Ill == {i \in 1 .. n : f[i] \notin Seq(Int)}
    <2> HIDE DEF f, n
    <2>4. Ill = {}
      <3> SUFFICES ASSUME Ill # {} PROVE FALSE
        OBVIOUS
      <3>1. PICK k \in Ill : \A j \in Ill : k <= j
        <4>1. Ill \in SUBSET (1 .. n)
          OBVIOUS
        <4> HIDE DEF Ill
        <4> QED
          BY <1>0, <4>1, Codec!LeastIndex
      <3>2. k # 1 => k - 1 \in 1 .. n /\ f[k - 1] \in Seq(Int)
        BY <1>0, <3>1
      <3>3. f[k] \in Seq(Int)
        <4>1. k \in 1 .. n /\ seqs[k] \in Seq(Int)
          BY <1>0, <3>1
        <4>2. f[k] = IF k = 1 THEN seqs[k] ELSE f[k - 1] \o seqs[k]
          BY <2>3, <4>1
        <4>3. CASE k # 1
          BY <3>2, <4>1, <4>2, <4>3
        <4> QED
          BY <4>1, <4>2, <4>3
      <3> QED
        BY <3>1, <3>3
    <2>5. n \in 1 .. n
      BY <1>0, <1>3
    <2> QED
      BY <1>1, <1>3, <2>4, <2>5
  <1> QED
    BY <1>2, <1>3

\* Terms of an expression are in order, so their encoding has every one of them.
LEMMA EncodedType ==
  ASSUME NEW e \in CounterExpression, IsFiniteSet(e), ~Contradicts(e, LAMBDA t : t.point_id)
  PROVE  Encoded(e) \in Seq(Int)
  <1> DEFINE order   == SortedBy(e, LAMBDA t : t.point_id)
             term(i) == <<order[i].coefficient>> \o order[i].point_id \o <<IF i = Len(order) THEN 0 ELSE 1>>
             terms   == [i \in DOMAIN order |-> term(i)]
  <1>1. IsTable(order, e)
    <2>1. \A t \in e : t.point_id \in Seq(Int)
      BY DEF CounterExpression, Term, PointID
    <2> QED
      BY <2>1, TermTable
  <1>2. Encoded(e) = FlattenSeq(terms)
    BY DEF Encoded
  <1> HIDE DEF order
  <1>3. \A i \in DOMAIN order : order[i].coefficient \in Int /\ order[i].point_id \in Seq(Int)
    <2>1. \A t \in e : t.coefficient \in Int /\ t.point_id \in Seq(Int)
      BY DEF CounterExpression, Term, PointID
    <2> QED
      BY <1>1, <2>1 DEF IsTable
  <1>4. \A i \in DOMAIN order : term(i) \in Seq(Int)
    BY <1>3
  <1>5. DOMAIN order = 1 .. Cardinality(e) /\ Cardinality(e) \in Nat
    BY <1>1 DEF IsTable
  <1> HIDE DEF term
  <1>6. terms \in Seq(Seq(Int))
    BY <1>4, <1>5
  <1> HIDE DEF terms
  <1> QED
    BY <1>2, <1>6, JoinedType

\* The keys of records that are in their schemas.
LEMMA KeyTypes ==
  /\ \A s \in Source : SourceKey(s) \in Seq(Int)
  /\ \A e \in Entity : EntityKey(e) \in Seq(Int)
  /\ \A c \in MapContract : ContractKey(c) \in Seq(Int)
  /\ \A x \in Exclusion : ExclusionKey(x) \in Seq(Int)
  /\ \A r \in MapRegion : /\ IsFiniteSet(r.counter_expression)
                          /\ ~Contradicts(r.counter_expression, LAMBDA t : t.point_id)
                          => RegionKey(r) \in Seq(Int)
  <1>1. ASSUME NEW r, r.source_index \in Index, r.span \in Span PROVE SpanKey(r) \in Seq(Int)
    BY <1>1 DEF SpanKey, Index, Span
  <1>2. ASSUME NEW s \in Source PROVE SourceKey(s) \in Seq(Int)
    BY <1>2 DEF Source, SourceKey, Text, Digest
  <1>3. ASSUME NEW e \in Entity PROVE EntityKey(e) \in Seq(Int)
    <2>1. e.source_index \in Index /\ e.span \in Span /\ e.qualified_name \in Int /\ e.kind \in EntityKinds
      BY DEF Entity, Text
    <2>2. SpanKey(e) \in Seq(Int) /\ Rank(e.kind) \in Int
      BY <1>1, <2>1, RankType
    <2> QED
      BY <2>1, <2>2 DEF EntityKey
  <1>4. ASSUME NEW c \in MapContract PROVE ContractKey(c) \in Seq(Int)
    <2>1. c.source_index \in Index /\ c.span \in Span /\ c.entity_index \in Int /\ c.kind \in ContractKinds
      BY DEF MapContract, Index
    <2>2. SpanKey(c) \in Seq(Int) /\ Rank(c.kind) \in Int
      BY <1>1, <2>1, RankType
    <2> QED
      BY <2>1, <2>2 DEF ContractKey
  <1>5. ASSUME NEW x \in Exclusion PROVE ExclusionKey(x) \in Seq(Int)
    <2>1. /\ x.source_index \in Index /\ x.span \in Span /\ x.reason \in Int
          /\ x.mode \in {"branch_off", "contract_off", "off"}
      BY DEF Exclusion, Text
    <2>2. SpanKey(x) \in Seq(Int) /\ Rank(x.mode) \in Int
      BY <1>1, <2>1, RankType
    <2> QED
      BY <2>1, <2>2 DEF ExclusionKey
  <1>6. ASSUME NEW r \in MapRegion, IsFiniteSet(r.counter_expression),
               ~Contradicts(r.counter_expression, LAMBDA t : t.point_id)
        PROVE  RegionKey(r) \in Seq(Int)
    <2>1. /\ r.source_index \in Index /\ r.span \in Span /\ r.kind \in RegionKinds
          /\ r.counter_expression \in CounterExpression
      BY DEF MapRegion
    <2> DEFINE e == r.counter_expression
    <2>2. Encoded(e) \in Seq(Int)
      <3>1. e \in CounterExpression /\ IsFiniteSet(e) /\ ~Contradicts(e, LAMBDA t : t.point_id)
        BY <1>6, <2>1
      <3> HIDE DEF e
      <3> QED
        BY <3>1, EncodedType
    <2>3. SpanKey(r) \in Seq(Int) /\ Rank(r.kind) \in Int
      BY <1>1, <2>1, RankType
    <2> QED
      BY <2>2, <2>3 DEF RegionKey
  <1> QED
    BY <1>2, <1>3, <1>4, <1>5, <1>6

-----------------------------------------------------------------------------
(* Finite sets of records.                                                 *)

\* The values of a function on a finite set are finitely many.
LEMMA FiniteImage ==
  ASSUME NEW S, IsFiniteSet(S), NEW f, DOMAIN f = S, f = [x \in S |-> f[x]]
  PROVE  IsFiniteSet({f[x] : x \in S})
  <1>1. f \in Surjection(S, {f[x] : x \in S})
    BY DEF Surjection
  <1> QED
    BY <1>1, FS_Surjection

\* So are the members of a sequence.
LEMMA FiniteRange ==
  ASSUME NEW T, NEW s \in Seq(T)
  PROVE  IsFiniteSet(SeqRange(s)) /\ SeqRange(s) \in SUBSET T
  <1>1. DOMAIN s = 1 .. Len(s) /\ s = [i \in DOMAIN s |-> s[i]] /\ \A i \in DOMAIN s : s[i] \in T
    OBVIOUS
  <1>3. Len(s) \in Int /\ 1 \in Int
    OBVIOUS
  <1>4. IsFiniteSet(DOMAIN s)
    BY <1>1, <1>3, FS_Interval
  <1>2. IsFiniteSet({s[i] : i \in DOMAIN s})
    BY <1>1, <1>4, FiniteImage
  <1> QED
    BY <1>1, <1>2 DEF SeqRange

\* And what finitely many finite sets hold.
LEMMA FiniteUnion ==
  ASSUME NEW S, IsFiniteSet(S), NEW f, f = [x \in S |-> f[x]], \A x \in S : IsFiniteSet(f[x])
  PROVE  IsFiniteSet(UNION {f[x] : x \in S})
  <1>1. IsFiniteSet({f[x] : x \in S})
    BY FiniteImage
  <1> QED
    BY <1>1, FS_UNION

-----------------------------------------------------------------------------
(* References in the united tables.                                        *)

\* A reference is moved by what the tables it refers to hold.
LEMMA SameMoves ==
  ASSUME NEW t, NEW u, t.sources = u.sources, NEW r, NEW m
  PROVE  Moved(r, m, t) = Moved(r, m, u)
  BY DEF Moved, SrcOf

\* So is a record that an entity or a clause owns.
LEMMA SameOwners ==
  ASSUME NEW t, NEW u, t.sources = u.sources, t.entities = u.entities, NEW m
  PROVE  /\ \A i : EntOf(m, i, t) = EntOf(m, i, u)
         /\ \A r : Owned(r, m, t) = Owned(r, m, u)
         /\ \A r : OwnedClause(r, m, t) = OwnedClause(r, m, u)
         /\ \A r : CountlessPoint(r, m, t) = CountlessPoint(r, m, u)
  <1>1. \A i : EntOf(m, i, t) = EntOf(m, i, u)
    BY SameMoves DEF EntOf
  <1>2. \A r : Owned(r, m, t) = Owned(r, m, u)
    BY <1>1, SameMoves DEF Owned
  <1>3. \A r : OwnedClause(r, m, t) = OwnedClause(r, m, u)
    BY <1>1, <1>2 DEF OwnedClause
  <1>4. \A r : CountlessPoint(r, m, t) = CountlessPoint(r, m, u)
    BY <1>2 DEF CountlessPoint
  <1> QED
    BY <1>1, <1>2, <1>3, <1>4

\* So is an exclusion, of the tables that it lists.
LEMMA SameExclusions ==
  ASSUME NEW t, NEW u, t.sources = u.sources, t.entities = u.entities,
         t.branches = u.branches, t.contracts = u.contracts, t.regions = u.regions, NEW m, NEW x
  PROVE  MovedExclusion(x, m, t) = MovedExclusion(x, m, u)
  <1>1. /\ \A i : EntOf(m, i, t) = EntOf(m, i, u)
        /\ \A r : Owned(r, m, t) = Owned(r, m, u)
        /\ \A r : OwnedClause(r, m, t) = OwnedClause(r, m, u)
    BY SameOwners
  <1>2. \A r : Moved(r, m, t) = Moved(r, m, u)
    BY SameMoves
  <1> DEFINE b(i) == PositionOf(t.branches, BranchKey, BranchKey(Owned(m.branches[i], m, t)))
             c(i) == PositionOf(t.contracts, ContractKey, ContractKey(OwnedClause(m.contracts[i], m, t)))
             e(i) == EntOf(m, i, t)
             r(i) == PositionOf(t.regions, RegionKey, RegionKey(Owned(m.regions[i], m, t)))
             b2(i) == PositionOf(u.branches, BranchKey, BranchKey(Owned(m.branches[i], m, u)))
             c2(i) == PositionOf(u.contracts, ContractKey, ContractKey(OwnedClause(m.contracts[i], m, u)))
             e2(i) == EntOf(m, i, u)
             r2(i) == PositionOf(u.regions, RegionKey, RegionKey(Owned(m.regions[i], m, u)))
             a    == x.affected
  <1>3. \A i : b(i) = b2(i) /\ c(i) = c2(i) /\ e(i) = e2(i) /\ r(i) = r2(i)
    BY <1>1
  <1>4. /\ MovedExclusion(x, m, t) =
              [Moved(x, m, t) EXCEPT !.affected =
                  [branch_indices |-> {b(i) : i \in a.branch_indices}, clause_indices |-> {c(i) : i \in a.clause_indices},
                   entity_indices |-> {e(i) : i \in a.entity_indices}, point_ids |-> a.point_ids,
                   region_indices |-> {r(i) : i \in a.region_indices}]]
        /\ MovedExclusion(x, m, u) =
              [Moved(x, m, u) EXCEPT !.affected =
                  [branch_indices |-> {b2(i) : i \in a.branch_indices}, clause_indices |-> {c2(i) : i \in a.clause_indices},
                   entity_indices |-> {e2(i) : i \in a.entity_indices}, point_ids |-> a.point_ids,
                   region_indices |-> {r2(i) : i \in a.region_indices}]]
    BY DEF MovedExclusion
  <1> HIDE DEF b, c, e, r, b2, c2, e2, r2, a
  <1>5. /\ {b(i) : i \in a.branch_indices} = {b2(i) : i \in a.branch_indices}
        /\ {c(i) : i \in a.clause_indices} = {c2(i) : i \in a.clause_indices}
        /\ {e(i) : i \in a.entity_indices} = {e2(i) : i \in a.entity_indices}
        /\ {r(i) : i \in a.region_indices} = {r2(i) : i \in a.region_indices}
    BY <1>3
  <1> QED
    BY <1>2, <1>4, <1>5

\* A key finds its source.
LEMMA SourceFound ==
  ASSUME NEW s, NEW S, IsTable(s, S), ~Contradicts(S, SourceKey), NEW x \in S
  PROVE  LET i == PositionOf(s, SourceKey, SourceKey(x)) IN i \in DOMAIN s /\ s[i] = x
  <1>1. PICK i \in DOMAIN s : s[i] = x
    BY DEF IsTable
  <1>2. \A j \in DOMAIN s : SourceKey(s[j]) = SourceKey(x) => s[j] = x
    BY DEF IsTable, Contradicts
  <1> QED
    BY <1>1, <1>2 DEF PositionOf

\* A key finds its entity.
LEMMA EntityFound ==
  ASSUME NEW s, NEW S, IsTable(s, S), ~Contradicts(S, EntityKey), NEW x \in S
  PROVE  LET i == PositionOf(s, EntityKey, EntityKey(x)) IN i \in DOMAIN s /\ s[i] = x
  <1>1. PICK i \in DOMAIN s : s[i] = x
    BY DEF IsTable
  <1>2. \A j \in DOMAIN s : EntityKey(s[j]) = EntityKey(x) => s[j] = x
    BY DEF IsTable, Contradicts
  <1> QED
    BY <1>1, <1>2 DEF PositionOf

\* A key finds its clause.
LEMMA ContractFound ==
  ASSUME NEW s, NEW S, IsTable(s, S), ~Contradicts(S, ContractKey), NEW x \in S
  PROVE  LET i == PositionOf(s, ContractKey, ContractKey(x)) IN i \in DOMAIN s /\ s[i] = x
  <1>1. PICK i \in DOMAIN s : s[i] = x
    BY DEF IsTable
  <1>2. \A j \in DOMAIN s : ContractKey(s[j]) = ContractKey(x) => s[j] = x
    BY DEF IsTable, Contradicts
  <1> QED
    BY <1>1, <1>2 DEF PositionOf

-----------------------------------------------------------------------------
(* The united tables of maps.                                              *)

\* Finitely many maps, each valid and finite.
GoodMaps(maps) == IsFiniteSet(maps) /\ \A m \in maps : ValidMap(m) /\ FiniteMap(m)

\* The records that a table unites, t being the tables that they refer to.
AllSources(maps)       == UNION {SeqRange(m.sources) : m \in maps}
AllEntities(maps, t)   == UNION {{Moved(e, m, t) : e \in SeqRange(m.entities)} : m \in maps}
AllExclusions(maps, t) == UNION {{MovedExclusion(x, m, t) : x \in SeqRange(m.exclusions)} : m \in maps}

SourcesUnited(maps, t)  == IsTable(t.sources, AllSources(maps)) /\ ~Contradicts(AllSources(maps), SourceKey)
EntitiesUnited(maps, t) == IsTable(t.entities, AllEntities(maps, t)) /\ ~Contradicts(AllEntities(maps, t), EntityKey)

\* A position in a table is one of a record.
LEMMA TablePosition ==
  ASSUME NEW s, NEW S, IsTable(s, S)
  PROVE  \A i \in DOMAIN s : i \in Index /\ i \in Nat
  BY DEF IsTable, Index

\* A reference to a source is moved to it.
LEMMA SourceLands ==
  ASSUME NEW maps, NEW t, SourcesUnited(maps, t), NEW m \in maps, NEW i \in DOMAIN m.sources
  PROVE  SrcOf(m, i, t) \in DOMAIN t.sources /\ t.sources[SrcOf(m, i, t)] = m.sources[i] /\ SrcOf(m, i, t) \in Index
  <1>1. m.sources[i] \in AllSources(maps)
    BY DEF AllSources, SeqRange
  <1> QED
    BY <1>1, SourceFound, TablePosition DEF SourcesUnited, SrcOf

\* A record that refers to a source keeps everything else.
LEMMA MovedFacts ==
  ASSUME NEW maps, NEW t, SourcesUnited(maps, t), NEW m \in maps,
         NEW r, r = [k \in DOMAIN r |-> r[k]], "source_index" \in DOMAIN r, r.source_index \in DOMAIN m.sources
  PROVE  /\ DOMAIN Moved(r, m, t) = DOMAIN r /\ Moved(r, m, t) = [k \in DOMAIN r |-> Moved(r, m, t)[k]]
         /\ \A k \in DOMAIN r \ {"source_index"} : Moved(r, m, t)[k] = r[k]
         /\ Moved(r, m, t).source_index \in DOMAIN t.sources /\ Moved(r, m, t).source_index \in Index
         /\ t.sources[Moved(r, m, t).source_index] = m.sources[r.source_index]
  <1>1. Moved(r, m, t) = [r EXCEPT !.source_index = SrcOf(m, r.source_index, t)]
    BY DEF Moved
  <1> QED
    BY <1>1, SourceLands

\* Entities of the tables are entities.
LEMMA MovedEntity ==
  ASSUME NEW maps, NEW t, SourcesUnited(maps, t), NEW m \in maps, ValidMap(m), NEW n \in DOMAIN m.entities
  PROVE  /\ Moved(m.entities[n], m, t) \in Entity
         /\ m.entities[n] \in Entity /\ m.entities[n].source_index \in DOMAIN m.sources /\ n \in Nat
  <1>1. m.entities \in Seq(Entity)
    BY DEF ValidMap, MapDocument
  <1>2. m.entities[n] \in Entity /\ n \in Nat
    BY <1>1
  <1>3. m.entities[n].source_index \in DOMAIN m.sources
    BY DEF ValidMap, EntitiesOK, SeqRange
  <1> DEFINE e == m.entities[n]
  <1>4. e \in Entity /\ e.source_index \in DOMAIN m.sources
    BY <1>2, <1>3
  <1> HIDE DEF e
  <1>5. SrcOf(m, e.source_index, t) \in Index
    BY <1>4, SourceLands
  <1>6. Moved(e, m, t) \in Entity
    BY <1>4, <1>5 DEF Moved, Entity
  <1> QED
    BY <1>2, <1>3, <1>6 DEF e

\* A reference to an entity is moved to it.
LEMMA EntityLands ==
  ASSUME NEW maps, NEW t, SourcesUnited(maps, t), EntitiesUnited(maps, t), NEW m \in maps, ValidMap(m)
  PROVE  /\ EntOf(m, Null, t) = Null
         /\ \A n \in DOMAIN m.entities :
               /\ n # Null /\ EntOf(m, n, t) \in DOMAIN t.entities /\ EntOf(m, n, t) \in Index /\ EntOf(m, n, t) # Null
               /\ t.entities[EntOf(m, n, t)] = Moved(m.entities[n], m, t)
  <1>1. EntOf(m, Null, t) = Null
    BY DEF EntOf
  <1>2. ASSUME NEW n \in DOMAIN m.entities
        PROVE  /\ n # Null /\ EntOf(m, n, t) \in DOMAIN t.entities /\ EntOf(m, n, t) \in Index /\ EntOf(m, n, t) # Null
               /\ t.entities[EntOf(m, n, t)] = Moved(m.entities[n], m, t)
    <2>1. n # Null
      BY MovedEntity, PipelineAssumption
    <2> DEFINE e == Moved(m.entities[n], m, t)
    <2>2. e \in AllEntities(maps, t)
      BY DEF AllEntities, SeqRange
    <2>3. EntOf(m, n, t) = PositionOf(t.entities, EntityKey, EntityKey(e))
      BY <2>1 DEF EntOf
    <2> HIDE DEF e
    <2>4. EntOf(m, n, t) \in DOMAIN t.entities /\ t.entities[EntOf(m, n, t)] = e
      BY <2>2, <2>3, EntityFound DEF EntitiesUnited
    <2>5. EntOf(m, n, t) \in Index /\ EntOf(m, n, t) \in Nat
      BY <2>4, TablePosition DEF EntitiesUnited
    <2> QED
      BY <2>1, <2>4, <2>5, PipelineAssumption DEF e
  <1> QED
    BY <1>1, <1>2

\* A record with an owner keeps everything else, too.
LEMMA OwnedFacts ==
  ASSUME NEW maps, NEW t, SourcesUnited(maps, t), EntitiesUnited(maps, t), NEW m \in maps, ValidMap(m),
         NEW r, r = [k \in DOMAIN r |-> r[k]], {"source_index", "entity_index"} \subseteq DOMAIN r,
         r.source_index \in DOMAIN m.sources, r.entity_index = Null \/ r.entity_index \in DOMAIN m.entities
  PROVE  LET o == Owned(r, m, t) IN
         /\ DOMAIN o = DOMAIN r /\ o = [k \in DOMAIN r |-> o[k]]
         /\ \A k \in DOMAIN r \ {"source_index", "entity_index"} : o[k] = r[k]
         /\ o.source_index \in DOMAIN t.sources /\ o.source_index \in Index
         /\ t.sources[o.source_index] = m.sources[r.source_index]
         /\ o.entity_index = EntOf(m, r.entity_index, t) /\ o.entity_index \in Nullable(Index)
  <1> DEFINE v == Moved(r, m, t)  o == Owned(r, m, t)
  <1>1. /\ DOMAIN v = DOMAIN r /\ v = [k \in DOMAIN r |-> v[k]]
        /\ \A k \in DOMAIN r \ {"source_index"} : v[k] = r[k]
        /\ v.source_index \in DOMAIN t.sources /\ v.source_index \in Index
        /\ t.sources[v.source_index] = m.sources[r.source_index]
    BY MovedFacts
  <1>2. o = [v EXCEPT !.entity_index = EntOf(m, r.entity_index, t)]
    BY <1>1 DEF Owned
  <1>3. EntOf(m, r.entity_index, t) \in Nullable(Index)
    BY EntityLands DEF Nullable
  <1> HIDE DEF v, o
  <1>4. /\ DOMAIN o = DOMAIN r /\ o = [k \in DOMAIN r |-> o[k]]
        /\ \A k \in DOMAIN r \ {"source_index", "entity_index"} : o[k] = r[k]
        /\ o.source_index \in DOMAIN t.sources /\ o.source_index \in Index
        /\ t.sources[o.source_index] = m.sources[r.source_index]
        /\ o.entity_index = EntOf(m, r.entity_index, t) /\ o.entity_index \in Nullable(Index)
    BY <1>1, <1>2, <1>3
  <1> QED
    BY <1>4 DEF o

\* Both tables that records refer to.
PlacesUnited(maps, t) == SourcesUnited(maps, t) /\ EntitiesUnited(maps, t)

\* What a valid map says of the references of its records.
LEMMA MapRefers ==
  ASSUME NEW m, ValidMap(m)
  PROVE  /\ \A p \in m.points : /\ p \in MapPoint /\ p.source_index \in DOMAIN m.sources
                                /\ p.entity_index = Null \/ p.entity_index \in DOMAIN m.entities
         /\ \A i \in DOMAIN m.regions :
               /\ m.regions[i] \in MapRegion /\ m.regions[i].source_index \in DOMAIN m.sources
               /\ m.regions[i].entity_index = Null \/ m.regions[i].entity_index \in DOMAIN m.entities
         /\ \A i \in DOMAIN m.contracts :
               /\ m.contracts[i] \in MapContract /\ m.contracts[i].source_index \in DOMAIN m.sources
               /\ m.contracts[i].entity_index \in DOMAIN m.entities
               /\ m.contracts[i].function_entity_index = Null \/ m.contracts[i].function_entity_index \in DOMAIN m.entities
         /\ \A i \in DOMAIN m.exclusions :
               m.exclusions[i] \in Exclusion /\ m.exclusions[i].source_index \in DOMAIN m.sources
  <1>1. /\ m.points \in SUBSET MapPoint /\ m.regions \in Seq(MapRegion) /\ m.contracts \in Seq(MapContract)
        /\ m.exclusions \in Seq(Exclusion) /\ m.entities \in Seq(Entity)
    BY DEF ValidMap, MapDocument
  <1>2. \A p \in m.points : /\ p \in MapPoint /\ p.source_index \in DOMAIN m.sources
                            /\ p.entity_index = Null \/ p.entity_index \in DOMAIN m.entities
    BY <1>1 DEF ValidMap, PointsOK, PointOK
  <1>3. \A i \in DOMAIN m.regions :
           /\ m.regions[i] \in MapRegion /\ m.regions[i].source_index \in DOMAIN m.sources
           /\ m.regions[i].entity_index = Null \/ m.regions[i].entity_index \in DOMAIN m.entities
    <2> TAKE i \in DOMAIN m.regions
    <2> DEFINE r == m.regions[i]
    <2>1. r \in MapRegion /\ RegionOK(r, m)
      BY <1>1 DEF ValidMap, RegionsOK, SeqRange
    <2> HIDE DEF r
    <2>2. r.source_index \in DOMAIN m.sources /\ OwnerOK(r, r.entity_index, m.entities)
      BY <2>1 DEF RegionOK
    <2> QED
      BY <2>1, <2>2 DEF OwnerOK, r
  <1>4. \A i \in DOMAIN m.contracts :
           /\ m.contracts[i] \in MapContract /\ m.contracts[i].source_index \in DOMAIN m.sources
           /\ m.contracts[i].entity_index \in DOMAIN m.entities
           /\ m.contracts[i].function_entity_index = Null \/ m.contracts[i].function_entity_index \in DOMAIN m.entities
    <2> TAKE i \in DOMAIN m.contracts
    <2> DEFINE c == m.contracts[i]
    <2>1. c \in MapContract /\ c \in SeqRange(m.contracts)
      BY <1>1 DEF SeqRange
    <2> HIDE DEF c
    <2>2. c.entity_index \in DOMAIN m.entities /\ m.entities[c.entity_index].source_index = c.source_index
      BY <2>1 DEF ValidMap, ContractsOK, ClausesOwnEntities
    <2>3. OwnerOK(c, c.function_entity_index, m.entities)
      BY <2>1 DEF ValidMap, ContractsOK, ContractOK
    <2>4. m.entities[c.entity_index].source_index \in DOMAIN m.sources
      BY <2>2 DEF ValidMap, EntitiesOK, SeqRange
    <2> QED
      BY <2>1, <2>2, <2>3, <2>4 DEF OwnerOK, c
  <1>5. \A i \in DOMAIN m.exclusions :
           m.exclusions[i] \in Exclusion /\ m.exclusions[i].source_index \in DOMAIN m.sources
    <2> TAKE i \in DOMAIN m.exclusions
    <2> DEFINE x == m.exclusions[i]
    <2>1. x \in Exclusion /\ x \in SeqRange(m.exclusions)
      BY <1>1 DEF SeqRange
    <2> HIDE DEF x
    <2>2. x.source_index \in DOMAIN m.sources
      BY <2>1 DEF ValidMap, ExclusionsOK, ExclusionOK
    <2> QED
      BY <2>1, <2>2 DEF x
  <1> QED
    BY <1>2, <1>3, <1>4, <1>5

\* The points of the tables.
LEMMA PointMoves ==
  ASSUME NEW maps, NEW t, PlacesUnited(maps, t), NEW m \in maps, ValidMap(m), NEW p \in m.points
  PROVE  LET q == CountlessPoint(p, m, t) IN
         /\ q.classification = p.classification /\ q.kind = p.kind /\ q.point_id = p.point_id
         /\ q.counted = (p.counter_index # Null)
         /\ q.source_index \in DOMAIN t.sources /\ t.sources[q.source_index] = m.sources[p.source_index]
         /\ q.entity_index = EntOf(m, p.entity_index, t)
  <1> DEFINE o == Owned(p, m, t)  q == CountlessPoint(p, m, t)
  <1>1. p \in MapPoint /\ p.source_index \in DOMAIN m.sources /\ (p.entity_index = Null \/ p.entity_index \in DOMAIN m.entities)
    BY MapRefers
  <1>2. /\ p = [k \in DOMAIN p |-> p[k]]
        /\ {"classification", "kind", "point_id", "source_index", "entity_index", "counter_index"} \subseteq DOMAIN p
    BY <1>1 DEF MapPoint
  <1>3. /\ DOMAIN o = DOMAIN p
        /\ \A k \in DOMAIN p \ {"source_index", "entity_index"} : o[k] = p[k]
        /\ o.source_index \in DOMAIN t.sources /\ t.sources[o.source_index] = m.sources[p.source_index]
        /\ o.entity_index = EntOf(m, p.entity_index, t)
    <2>1. SourcesUnited(maps, t) /\ EntitiesUnited(maps, t)
      BY DEF PlacesUnited
    <2>2. {"source_index", "entity_index"} \subseteq DOMAIN p
      BY <1>2
    <2> HIDE DEF o
    <2> QED
      BY <1>1, <1>2, <2>1, <2>2, OwnedFacts DEF o
  <1> DEFINE v == (p.counter_index # Null)
  <1>4. q = With(Without(o, {"counter_index"}), "counted", v)
    BY DEF CountlessPoint
  <1> HIDE DEF o, q, v
  <1>5. /\ q.counted = v
        /\ \A k \in DOMAIN o \ {"counter_index", "counted"} : q[k] = o[k]
    BY <1>4 DEF With, Without
  <1>6. /\ q.classification = p.classification /\ q.kind = p.kind /\ q.point_id = p.point_id
        /\ q.source_index = o.source_index /\ q.entity_index = o.entity_index
    BY <1>2, <1>3, <1>5
  <1> QED
    BY <1>3, <1>5, <1>6 DEF q, v

\* The regions.
LEMMA RegionMoves ==
  ASSUME NEW maps, NEW t, PlacesUnited(maps, t), NEW m \in maps, ValidMap(m), NEW r \in SeqRange(m.regions)
  PROVE  LET o == Owned(r, m, t) IN
         /\ o \in MapRegion /\ o.classification = r.classification /\ o.counter_expression = r.counter_expression
         /\ o.kind = r.kind /\ o.line_contributing = r.line_contributing /\ o.line_numbers = r.line_numbers
         /\ o.span = r.span
         /\ o.source_index \in DOMAIN t.sources /\ t.sources[o.source_index] = m.sources[r.source_index]
  <1> DEFINE o == Owned(r, m, t)
  <1>1. r \in MapRegion /\ r.source_index \in DOMAIN m.sources /\ (r.entity_index = Null \/ r.entity_index \in DOMAIN m.entities)
    BY MapRefers DEF SeqRange
  <1>2. r = [k \in DOMAIN r |-> r[k]] /\ {"source_index", "entity_index"} \subseteq DOMAIN r
    BY <1>1 DEF MapRegion
  <1>3. /\ DOMAIN o = DOMAIN r /\ o = [k \in DOMAIN r |-> o[k]]
        /\ \A k \in DOMAIN r \ {"source_index", "entity_index"} : o[k] = r[k]
        /\ o.source_index \in DOMAIN t.sources /\ t.sources[o.source_index] = m.sources[r.source_index]
        /\ o.source_index \in Index /\ o.entity_index \in Nullable(Index)
    <2>1. SourcesUnited(maps, t) /\ EntitiesUnited(maps, t)
      BY DEF PlacesUnited
    <2> QED
      BY <1>1, <1>2, <2>1, OwnedFacts
  <1> HIDE DEF o
  <1>4. o \in MapRegion
    BY <1>1, <1>3 DEF MapRegion
  <1>5. /\ o.classification = r.classification /\ o.counter_expression = r.counter_expression
        /\ o.kind = r.kind /\ o.line_contributing = r.line_contributing /\ o.line_numbers = r.line_numbers
        /\ o.span = r.span
    BY <1>1, <1>3 DEF MapRegion
  <1> QED
    BY <1>3, <1>4, <1>5 DEF o

\* The clauses.
LEMMA ContractMoves ==
  ASSUME NEW maps, NEW t, PlacesUnited(maps, t), NEW m \in maps, ValidMap(m), NEW c \in SeqRange(m.contracts)
  PROVE  LET o == OwnedClause(c, m, t) IN
         /\ o \in MapContract /\ o.enforcement = c.enforcement
         /\ o.true_point_id = c.true_point_id /\ o.false_point_id = c.false_point_id
         /\ o.entity_index = EntOf(m, c.entity_index, t)
         /\ o.source_index \in DOMAIN t.sources /\ t.sources[o.source_index] = m.sources[c.source_index]
  <1> DEFINE w == Owned(c, m, t)  o == OwnedClause(c, m, t)
  <1>1. /\ c \in MapContract /\ c.source_index \in DOMAIN m.sources /\ c.entity_index \in DOMAIN m.entities
        /\ c.function_entity_index = Null \/ c.function_entity_index \in DOMAIN m.entities
    BY MapRefers DEF SeqRange
  <1>2. c = [k \in DOMAIN c |-> c[k]] /\ {"source_index", "entity_index"} \subseteq DOMAIN c
    BY <1>1 DEF MapContract
  <1>3. SourcesUnited(maps, t) /\ EntitiesUnited(maps, t)
    BY DEF PlacesUnited
  <1>4. /\ DOMAIN w = DOMAIN c /\ w = [k \in DOMAIN c |-> w[k]]
        /\ \A k \in DOMAIN c \ {"source_index", "entity_index"} : w[k] = c[k]
        /\ w.source_index \in DOMAIN t.sources /\ t.sources[w.source_index] = m.sources[c.source_index]
        /\ w.source_index \in Index /\ w.entity_index = EntOf(m, c.entity_index, t)
    BY <1>1, <1>2, <1>3, OwnedFacts
  <1>5. EntOf(m, c.entity_index, t) \in Index /\ EntOf(m, c.function_entity_index, t) \in Nullable(Index)
    BY <1>1, <1>3, EntityLands DEF Nullable
  <1>6. o = [w EXCEPT !.function_entity_index = EntOf(m, w.function_entity_index, t)]
    BY DEF OwnedClause
  <1> HIDE DEF w, o
  <1>7. w.function_entity_index = c.function_entity_index
    BY <1>1, <1>4 DEF MapContract
  <1>8. o \in MapContract
    BY <1>1, <1>4, <1>5, <1>6, <1>7 DEF MapContract
  <1>9. /\ o.enforcement = c.enforcement
        /\ o.true_point_id = c.true_point_id /\ o.false_point_id = c.false_point_id
        /\ o.entity_index = w.entity_index /\ o.source_index = w.source_index
    BY <1>1, <1>4, <1>6 DEF MapContract
  <1> QED
    BY <1>4, <1>8, <1>9 DEF o

\* t holds exactly the records of the maps, each once, with their references moved to it.
IsUnion(maps, t) ==
    LET x == Records(maps, t) IN
    /\ PlacesUnited(maps, t) /\ ~Contradicts(maps, LAMBDA m : m.map_id)
    /\ t.points = x.points /\ ~Contradicts(x.points, LAMBDA p : p.point_id)
    /\ IsTable(t.regions, x.regions) /\ ~Contradicts(x.regions, RegionKey)
    /\ IsTable(t.contracts, x.contracts) /\ ~Contradicts(x.contracts, ContractKey)
    /\ IsTable(t.exclusions, AllExclusions(maps, t))

\* The union of finite sets of records, one of each map.
LEMMA UnionFinite ==
  ASSUME NEW maps, GoodMaps(maps), NEW t
  PROVE  /\ IsFiniteSet(AllSources(maps)) /\ AllSources(maps) \in SUBSET Source
         /\ IsFiniteSet(AllEntities(maps, t)) /\ IsFiniteSet(AllExclusions(maps, t))
         /\ IsFiniteSet(Records(maps, t).regions) /\ IsFiniteSet(Records(maps, t).contracts)
         /\ IsFiniteSet(Records(maps, t).points)
  <1>1. \A m \in maps : /\ m.sources \in Seq(Source) /\ m.entities \in Seq(Entity) /\ m.regions \in Seq(MapRegion)
                        /\ m.contracts \in Seq(MapContract) /\ m.exclusions \in Seq(Exclusion)
                        /\ IsFiniteSet(m.points)
    BY DEF GoodMaps, ValidMap, MapDocument, FiniteMap
  <1>2. \A m \in maps : /\ IsFiniteSet(SeqRange(m.sources)) /\ IsFiniteSet(SeqRange(m.entities))
                        /\ IsFiniteSet(SeqRange(m.regions)) /\ IsFiniteSet(SeqRange(m.contracts))
                        /\ IsFiniteSet(SeqRange(m.exclusions)) /\ SeqRange(m.sources) \in SUBSET Source
    BY <1>1, FiniteRange
  <1>3. IsFiniteSet(maps)
    BY DEF GoodMaps
  <1>4. IsFiniteSet(AllSources(maps)) /\ AllSources(maps) \in SUBSET Source
    <2> DEFINE f == [m \in maps |-> SeqRange(m.sources)]
    <2>1. IsFiniteSet(UNION {f[m] : m \in maps})
      <3>1. f = [m \in maps |-> f[m]] /\ \A m \in maps : IsFiniteSet(f[m])
        BY <1>2
      <3> HIDE DEF f
      <3> QED
        BY <1>3, <3>1, FiniteUnion
    <2>2. AllSources(maps) = UNION {f[m] : m \in maps}
      BY DEF AllSources
    <2> QED
      BY <1>2, <2>1, <2>2 DEF AllSources
  <1>5. IsFiniteSet(AllEntities(maps, t))
    <2> DEFINE part(m) == {Moved(e, m, t) : e \in SeqRange(m.entities)}
               f == [m \in maps |-> part(m)]
    <2>1. ASSUME NEW m \in maps PROVE IsFiniteSet(part(m))
      <3> DEFINE S == SeqRange(m.entities)  g == [e \in S |-> Moved(e, m, t)]
      <3>1. IsFiniteSet({g[e] : e \in S})
        BY <1>2, FiniteImage
      <3>2. part(m) = {g[e] : e \in S}
        OBVIOUS
      <3> QED
        BY <3>1, <3>2
    <2>2. AllEntities(maps, t) = UNION {f[m] : m \in maps}
      BY DEF AllEntities
    <2> HIDE DEF part
    <2>3. IsFiniteSet(UNION {f[m] : m \in maps})
      <3>1. f = [m \in maps |-> f[m]] /\ \A m \in maps : IsFiniteSet(f[m])
        BY <2>1
      <3> HIDE DEF f
      <3> QED
        BY <1>3, <3>1, FiniteUnion
    <2> QED
      BY <2>2, <2>3
  <1>6. IsFiniteSet(AllExclusions(maps, t))
    <2> DEFINE part(m) == {MovedExclusion(x, m, t) : x \in SeqRange(m.exclusions)}
               f == [m \in maps |-> part(m)]
    <2>1. ASSUME NEW m \in maps PROVE IsFiniteSet(part(m))
      <3> DEFINE S == SeqRange(m.exclusions)  g == [e \in S |-> MovedExclusion(e, m, t)]
      <3>1. IsFiniteSet({g[e] : e \in S})
        BY <1>2, FiniteImage
      <3>2. part(m) = {g[e] : e \in S}
        OBVIOUS
      <3> QED
        BY <3>1, <3>2
    <2>2. AllExclusions(maps, t) = UNION {f[m] : m \in maps}
      BY DEF AllExclusions
    <2> HIDE DEF part
    <2>3. IsFiniteSet(UNION {f[m] : m \in maps})
      <3>1. f = [m \in maps |-> f[m]] /\ \A m \in maps : IsFiniteSet(f[m])
        BY <2>1
      <3> HIDE DEF f
      <3> QED
        BY <1>3, <3>1, FiniteUnion
    <2> QED
      BY <2>2, <2>3
  <1>7. IsFiniteSet(Records(maps, t).regions)
    <2> DEFINE part(m) == {Owned(x, m, t) : x \in SeqRange(m.regions)}
               f == [m \in maps |-> part(m)]
    <2>1. ASSUME NEW m \in maps PROVE IsFiniteSet(part(m))
      <3> DEFINE S == SeqRange(m.regions)  g == [e \in S |-> Owned(e, m, t)]
      <3>1. IsFiniteSet({g[e] : e \in S})
        BY <1>2, FiniteImage
      <3>2. part(m) = {g[e] : e \in S}
        OBVIOUS
      <3> QED
        BY <3>1, <3>2
    <2>2. Records(maps, t).regions = UNION {f[m] : m \in maps}
      BY DEF Records
    <2> HIDE DEF part
    <2>3. IsFiniteSet(UNION {f[m] : m \in maps})
      <3>1. f = [m \in maps |-> f[m]] /\ \A m \in maps : IsFiniteSet(f[m])
        BY <2>1
      <3> HIDE DEF f
      <3> QED
        BY <1>3, <3>1, FiniteUnion
    <2> QED
      BY <2>2, <2>3
  <1>8. IsFiniteSet(Records(maps, t).contracts)
    <2> DEFINE part(m) == {OwnedClause(x, m, t) : x \in SeqRange(m.contracts)}
               f == [m \in maps |-> part(m)]
    <2>1. ASSUME NEW m \in maps PROVE IsFiniteSet(part(m))
      <3> DEFINE S == SeqRange(m.contracts)  g == [e \in S |-> OwnedClause(e, m, t)]
      <3>1. IsFiniteSet({g[e] : e \in S})
        BY <1>2, FiniteImage
      <3>2. part(m) = {g[e] : e \in S}
        OBVIOUS
      <3> QED
        BY <3>1, <3>2
    <2>2. Records(maps, t).contracts = UNION {f[m] : m \in maps}
      BY DEF Records
    <2> HIDE DEF part
    <2>3. IsFiniteSet(UNION {f[m] : m \in maps})
      <3>1. f = [m \in maps |-> f[m]] /\ \A m \in maps : IsFiniteSet(f[m])
        BY <2>1
      <3> HIDE DEF f
      <3> QED
        BY <1>3, <3>1, FiniteUnion
    <2> QED
      BY <2>2, <2>3
  <1>9. IsFiniteSet(Records(maps, t).points)
    <2> DEFINE part(m) == {CountlessPoint(x, m, t) : x \in m.points}
               f == [m \in maps |-> part(m)]
    <2>1. ASSUME NEW m \in maps PROVE IsFiniteSet(part(m))
      <3> DEFINE S == m.points  g == [e \in S |-> CountlessPoint(e, m, t)]
      <3>1. IsFiniteSet(S)
        BY <1>1
      <3>2. IsFiniteSet({g[e] : e \in S})
        <4> HIDE DEF S
        <4> QED
          BY <3>1, FiniteImage
      <3>3. part(m) = {g[e] : e \in S}
        OBVIOUS
      <3> QED
        BY <3>2, <3>3
    <2>2. Records(maps, t).points = UNION {f[m] : m \in maps}
      BY DEF Records
    <2> HIDE DEF part
    <2>3. IsFiniteSet(UNION {f[m] : m \in maps})
      <3>1. f = [m \in maps |-> f[m]] /\ \A m \in maps : IsFiniteSet(f[m])
        BY <2>1
      <3> HIDE DEF f
      <3> QED
        BY <1>3, <3>1, FiniteUnion
    <2> QED
      BY <2>2, <2>3
  <1> QED
    BY <1>4, <1>5, <1>6, <1>7, <1>8, <1>9

\* The sources and the entities of maps that do not contradict each other.
LEMMA PlacesAreUnion ==
  ASSUME NEW maps, GoodMaps(maps), ~IsRefused(Places(maps))
  PROVE  PlacesUnited(maps, Places(maps))
  <1> DEFINE srcs    == AllSources(maps)
             sources == SortedBy(srcs, SourceKey)
             s0      == [sources |-> sources]
             ents    == AllEntities(maps, s0)
             t       == Places(maps)
  <1>1. ~Contradicts(srcs, SourceKey) /\ ~Contradicts(ents, EntityKey) /\ t = [sources |-> sources, entities |-> SortedBy(ents, EntityKey)]
    BY DEF Places, IsRefused, Refused, AllSources, AllEntities
  <1>2. IsFiniteSet(srcs) /\ srcs \in SUBSET Source /\ IsFiniteSet(ents)
    <2> HIDE DEF s0
    <2> QED
      BY UnionFinite
  <1>3. IsTable(sources, srcs)
    <2>1. \A s \in srcs : SourceKey(s) \in Seq(Int)
      BY <1>2, KeyTypes
    <2> HIDE DEF srcs
    <2> QED
      BY <1>1, <1>2, <2>1, SourceTable
  <1> HIDE DEF srcs, sources, t
  <1>4. t.sources = sources /\ s0.sources = sources
    BY <1>1
  <1>5. SourcesUnited(maps, t) /\ SourcesUnited(maps, s0)
    BY <1>1, <1>3, <1>4 DEF SourcesUnited, srcs
  <1>6. ents = AllEntities(maps, t)
    <2>1. \A e, m : Moved(e, m, t) = Moved(e, m, s0)
      <3> HIDE DEF s0
      <3> QED
        BY <1>4, SameMoves
    <2> HIDE DEF s0
    <2> QED
      BY <2>1 DEF AllEntities
  <1>7. \A e \in ents : EntityKey(e) \in Seq(Int)
    <2>1. ASSUME NEW m \in maps, NEW n \in DOMAIN m.entities
          PROVE  EntityKey(Moved(m.entities[n], m, t)) \in Seq(Int)
      <3>1. Moved(m.entities[n], m, t) \in Entity
        BY <1>5, MovedEntity DEF GoodMaps
      <3> QED
        BY <3>1, KeyTypes
    <2> HIDE DEF ents
    <2>2. ASSUME NEW e \in ents PROVE \E m \in maps : \E n \in DOMAIN m.entities : e = Moved(m.entities[n], m, t)
      BY <1>6 DEF AllEntities, SeqRange
    <2> QED
      BY <2>1, <2>2
  <1>8. IsTable(t.entities, ents)
    <2>1. t.entities = SortedBy(ents, EntityKey)
      BY <1>1
    <2> HIDE DEF ents
    <2>2. IsTable(SortedBy(ents, EntityKey), ents)
      BY <1>1, <1>2, <1>7, EntityTable
    <2> QED
      BY <2>1, <2>2
  <1> HIDE DEF ents, s0
  <1>9. EntitiesUnited(maps, t)
    BY <1>1, <1>6, <1>8 DEF EntitiesUnited
  <1> QED
    BY <1>5, <1>9 DEF PlacesUnited, t

\* Tables that hold the same places unite the same records.
LEMMA SameRecordsUnited ==
  ASSUME NEW maps, NEW t, NEW u, t.sources = u.sources, t.entities = u.entities
  PROVE  Records(maps, t) = Records(maps, u) /\ (PlacesUnited(maps, t) => PlacesUnited(maps, u))
  <1>1. /\ \A r, m : Owned(r, m, t) = Owned(r, m, u)
        /\ \A r, m : OwnedClause(r, m, t) = OwnedClause(r, m, u)
        /\ \A r, m : CountlessPoint(r, m, t) = CountlessPoint(r, m, u)
    BY SameOwners
  <1>2. \A r, m : Moved(r, m, t) = Moved(r, m, u)
    BY SameMoves
  <1>3. AllEntities(maps, t) = AllEntities(maps, u)
    BY <1>2 DEF AllEntities
  <1>4. Records(maps, t) = Records(maps, u)
    <2> DEFINE p(m) == {CountlessPoint(q, m, t) : q \in m.points}
               r(m) == {Owned(q, m, t) : q \in SeqRange(m.regions)}
               b(m) == {Owned(q, m, t) : q \in SeqRange(m.branches)}
               c(m) == {OwnedClause(q, m, t) : q \in SeqRange(m.contracts)}
               p2(m) == {CountlessPoint(q, m, u) : q \in m.points}
               r2(m) == {Owned(q, m, u) : q \in SeqRange(m.regions)}
               b2(m) == {Owned(q, m, u) : q \in SeqRange(m.branches)}
               c2(m) == {OwnedClause(q, m, u) : q \in SeqRange(m.contracts)}
    <2>1. \A m : p(m) = p2(m) /\ r(m) = r2(m) /\ b(m) = b2(m) /\ c(m) = c2(m)
      BY <1>1
    <2>2. /\ Records(maps, t) = [points |-> UNION {p(m) : m \in maps}, regions |-> UNION {r(m) : m \in maps},
                                 branches |-> UNION {b(m) : m \in maps}, contracts |-> UNION {c(m) : m \in maps}]
          /\ Records(maps, u) = [points |-> UNION {p2(m) : m \in maps}, regions |-> UNION {r2(m) : m \in maps},
                                 branches |-> UNION {b2(m) : m \in maps}, contracts |-> UNION {c2(m) : m \in maps}]
      BY DEF Records
    <2> HIDE DEF p, r, b, c, p2, r2, b2, c2
    <2>3. /\ {p(m) : m \in maps} = {p2(m) : m \in maps} /\ {r(m) : m \in maps} = {r2(m) : m \in maps}
          /\ {b(m) : m \in maps} = {b2(m) : m \in maps} /\ {c(m) : m \in maps} = {c2(m) : m \in maps}
      BY <2>1
    <2> QED
      BY <2>2, <2>3
  <1> QED
    BY <1>3, <1>4 DEF PlacesUnited, SourcesUnited, EntitiesUnited

\* The regions and the clauses in the order of their keys.
LEMMA RecordsSorted ==
  ASSUME NEW maps, GoodMaps(maps), NEW t, PlacesUnited(maps, t)
  PROVE  LET x == Records(maps, t) IN
         /\ ~Contradicts(x.regions, RegionKey) => IsTable(SortedBy(x.regions, RegionKey), x.regions)
         /\ ~Contradicts(x.contracts, ContractKey) => IsTable(SortedBy(x.contracts, ContractKey), x.contracts)
  <1> DEFINE regions == Records(maps, t).regions  contracts == Records(maps, t).contracts
  <1>1. IsFiniteSet(regions) /\ IsFiniteSet(contracts)
    BY UnionFinite
  <1>2. \A r \in regions : RegionKey(r) \in Seq(Int)
    <2> SUFFICES ASSUME NEW m \in maps, NEW r \in SeqRange(m.regions)
                 PROVE  RegionKey(Owned(r, m, t)) \in Seq(Int)
      BY DEF Records
    <2> DEFINE o == Owned(r, m, t)
    <2>1. o \in MapRegion /\ o.counter_expression = r.counter_expression
      BY RegionMoves DEF GoodMaps
    <2>2. IsFiniteSet(r.counter_expression)
      BY DEF GoodMaps, FiniteMap
    <2>3. ~Contradicts(r.counter_expression, LAMBDA t1 : t1.point_id)
      <3>1. RegionOK(r, m)
        BY DEF GoodMaps, ValidMap, RegionsOK
      <3>2. \A t1, u \in r.counter_expression : t1.point_id = u.point_id => t1 = u
        BY <3>1 DEF RegionOK
      <3> QED
        BY <3>2 DEF Contradicts
    <2> HIDE DEF o
    <2>4. RegionKey(o) \in Seq(Int)
      BY <2>1, <2>2, <2>3, KeyTypes
    <2> QED
      BY <2>4 DEF o
  <1>3. \A c \in contracts : ContractKey(c) \in Seq(Int)
    <2> SUFFICES ASSUME NEW m \in maps, NEW c \in SeqRange(m.contracts)
                 PROVE  ContractKey(OwnedClause(c, m, t)) \in Seq(Int)
      BY DEF Records
    <2>1. OwnedClause(c, m, t) \in MapContract
      BY ContractMoves DEF GoodMaps
    <2> QED
      BY <2>1, KeyTypes
  <1> HIDE DEF regions, contracts
  <1>4. ~Contradicts(regions, RegionKey) => IsTable(SortedBy(regions, RegionKey), regions)
    BY <1>1, <1>2, RegionTable
  <1>5. ~Contradicts(contracts, ContractKey) => IsTable(SortedBy(contracts, ContractKey), contracts)
    BY <1>1, <1>3, ContractTable
  <1> QED
    BY <1>4, <1>5 DEF regions, contracts

\* And so are the exclusions.
LEMMA ExclusionsSorted ==
  ASSUME NEW maps, GoodMaps(maps), NEW t, PlacesUnited(maps, t), ~Contradicts(AllExclusions(maps, t), ExclusionKey)
  PROVE  IsTable(SortedBy(AllExclusions(maps, t), ExclusionKey), AllExclusions(maps, t))
  <1> DEFINE excls == AllExclusions(maps, t)
  <1>1. IsFiniteSet(excls)
    BY UnionFinite
  <1>2. \A x \in excls : ExclusionKey(x) \in Seq(Int)
    <2> SUFFICES ASSUME NEW m \in maps, NEW x \in SeqRange(m.exclusions)
                 PROVE  ExclusionKey(MovedExclusion(x, m, t)) \in Seq(Int)
      BY DEF AllExclusions
    <2> DEFINE v == Moved(x, m, t)  w == MovedExclusion(x, m, t)
    <2>1. x \in Exclusion /\ x.source_index \in DOMAIN m.sources
      BY MapRefers DEF SeqRange, GoodMaps
    <2>2. v \in Exclusion
      <3>1. SrcOf(m, x.source_index, t) \in Index
        BY <2>1, SourceLands DEF PlacesUnited
      <3> QED
        BY <2>1, <3>1 DEF Moved, Exclusion
    <2>3. \E a : w = [v EXCEPT !.affected = a]
      BY DEF MovedExclusion
    <2> HIDE DEF v, w
    <2>4. w.source_index = v.source_index /\ w.span = v.span /\ w.mode = v.mode /\ w.reason = v.reason
      BY <2>2, <2>3 DEF Exclusion
    <2>5. ExclusionKey(w) = ExclusionKey(v)
      BY <2>4 DEF ExclusionKey, SpanKey
    <2>6. ExclusionKey(v) \in Seq(Int)
      BY <2>2, KeyTypes
    <2> QED
      BY <2>5, <2>6 DEF w
  <1> HIDE DEF excls
  <1>3. ~Contradicts(excls, ExclusionKey)
    BY DEF excls
  <1>4. IsTable(SortedBy(excls, ExclusionKey), excls)
    BY <1>1, <1>2, <1>3, ExclusionTable
  <1> QED
    BY <1>4 DEF excls

\* The tables of a merge are the union of its maps.
LEMMA TablesAreUnion ==
  ASSUME NEW maps, GoodMaps(maps), ~IsRefused(Tables(maps))
  PROVE  IsUnion(maps, Tables(maps))
  <1> DEFINE p      == Places(maps)
             x      == Records(maps, p)
             tables == Arranged(p, x)
             excls  == AllExclusions(maps, tables)
             t      == Tables(maps)
  <1>1. ~IsRefused(p) /\ t = United(maps, p, x) /\ ~Contradicts(maps, LAMBDA m : m.map_id)
    BY DEF Tables, IsRefused, Refused
  <1>2. /\ ~Contradicts(x.points, LAMBDA q : q.point_id) /\ ~Contradicts(x.regions, RegionKey)
        /\ ~Contradicts(x.contracts, ContractKey)
        /\ t = Finished(tables, excls)
    <2> HIDE DEF p, x
    <2> QED
      BY <1>1 DEF United, WithExclusions, IsRefused, Refused, AllExclusions
  <1> DEFINE sorted == SortedBy(excls, ExclusionKey)
  <1>3. ~Contradicts(excls, ExclusionKey) /\ t = With(tables, "exclusions", sorted)
    <2> HIDE DEF tables, excls, p, x
    <2> QED
      BY <1>1, <1>2 DEF Finished, IsRefused, Refused
  <1>4. PlacesUnited(maps, p)
    BY <1>1, PlacesAreUnion
  <1> DEFINE regions == SortedBy(x.regions, RegionKey)  contracts == SortedBy(x.contracts, ContractKey)
  <1>5. /\ tables.sources = p.sources /\ tables.entities = p.entities /\ tables.points = x.points
        /\ tables.regions = regions /\ tables.contracts = contracts
        /\ DOMAIN tables = {"sources", "entities", "points", "regions", "branches", "contracts"}
    <2> HIDE DEF p, x
    <2> QED
      BY DEF Arranged
  <1> HIDE DEF t, tables, regions, contracts, sorted
  <1>6. /\ \A k \in DOMAIN tables : t[k] = tables[k]
        /\ t.exclusions = sorted
    BY <1>3, <1>5 DEF With
  <1>7. /\ t.sources = tables.sources /\ t.entities = tables.entities /\ t.points = tables.points
        /\ t.regions = tables.regions /\ t.contracts = tables.contracts /\ t.branches = tables.branches
    BY <1>5, <1>6
  <1>8. Records(maps, t) = x /\ PlacesUnited(maps, t) /\ PlacesUnited(maps, tables)
    <2> HIDE DEF p
    <2> QED
      BY <1>4, <1>5, <1>7, SameRecordsUnited DEF x
  <1>9. excls = AllExclusions(maps, t)
    <2>1. \A e, m : MovedExclusion(e, m, t) = MovedExclusion(e, m, tables)
      BY <1>7, SameExclusions
    <2> QED
      BY <2>1 DEF AllExclusions, excls
  <1>10. IsTable(t.regions, x.regions) /\ IsTable(t.contracts, x.contracts)
    <2> DEFINE rs == x.regions  cs == x.contracts
    <2>1. /\ ~Contradicts(rs, RegionKey) => IsTable(SortedBy(rs, RegionKey), rs)
          /\ ~Contradicts(cs, ContractKey) => IsTable(SortedBy(cs, ContractKey), cs)
      <3> HIDE DEF p
      <3> QED
        BY <1>4, RecordsSorted
    <2>2. t.regions = SortedBy(rs, RegionKey) /\ t.contracts = SortedBy(cs, ContractKey)
      BY <1>5, <1>7 DEF regions, contracts
    <2>3. ~Contradicts(rs, RegionKey) /\ ~Contradicts(cs, ContractKey)
      BY <1>2
    <2> HIDE DEF rs, cs
    <2>4. IsTable(t.regions, rs) /\ IsTable(t.contracts, cs)
      BY <2>1, <2>2, <2>3
    <2> QED
      BY <2>4 DEF rs, cs
  <1>11. IsTable(t.exclusions, excls)
    <2>1. IsTable(SortedBy(AllExclusions(maps, t), ExclusionKey), AllExclusions(maps, t))
      <3>1. ~Contradicts(AllExclusions(maps, t), ExclusionKey)
        <4> HIDE DEF excls
        <4> QED
          BY <1>3, <1>9
      <3> QED
        BY <1>8, <3>1, ExclusionsSorted
    <2>2. t.exclusions = SortedBy(excls, ExclusionKey)
      BY <1>6 DEF sorted
    <2> HIDE DEF excls
    <2> QED
      BY <1>9, <2>1, <2>2
  <1> DEFINE y == Records(maps, t)
  <1>12. /\ t.points = y.points /\ ~Contradicts(y.points, LAMBDA q : q.point_id)
         /\ IsTable(t.regions, y.regions) /\ ~Contradicts(y.regions, RegionKey)
         /\ IsTable(t.contracts, y.contracts) /\ ~Contradicts(y.contracts, ContractKey)
    <2>1. y = x
      BY <1>8
    <2> HIDE DEF x, y
    <2> QED
      BY <1>2, <1>5, <1>7, <1>10, <2>1
  <1>13. IsTable(t.exclusions, AllExclusions(maps, t))
    BY <1>9, <1>11
  <1> HIDE DEF y, excls
  <1>14. IsUnion(maps, t)
    BY <1>1, <1>8, <1>12, <1>13 DEF IsUnion, y
  <1> QED
    BY <1>14 DEF t

-----------------------------------------------------------------------------
(* Complete evidence was made of inputs without a finding.                 *)

\* The sources of a map are among those of the united tables, if these were made.
LEMMA UnitedSources ==
  ASSUME NEW maps, GoodMaps(maps), ~IsRefused(Tables(maps)), NEW m \in maps, NEW s \in SeqRange(m.sources)
  PROVE  \E i \in DOMAIN Tables(maps).sources : Tables(maps).sources[i] = s
  <1> DEFINE t == Tables(maps)
  <1>1. IsTable(t.sources, AllSources(maps))
    BY TablesAreUnion DEF IsUnion, PlacesUnited, SourcesUnited
  <1>2. s \in AllSources(maps)
    BY DEF AllSources
  <1> HIDE DEF t
  <1>3. \E i \in DOMAIN t.sources : t.sources[i] = s
    BY <1>1, <1>2 DEF IsTable
  <1> QED
    BY <1>3 DEF t

\* What PipelineAssumption says of a merge command.
Parsed(command) ==
    /\ IsFiniteSet(command.maps) /\ IsFiniteSet(command.profiles)
    /\ \A a \in command.maps : a.map # Null => FiniteMap(a.map)
    /\ \A a \in command.profiles : a.sha # Null => a.file \in Raw!File
    /\ \A a, b \in command.profiles : a.sha # Null /\ a.sha = b.sha => a.file = b.file

\* What a merge command was given is whole, all of it is counted, and the run
\* selection holds.
InputsSound(command) ==
    LET runs == {a.file.run_id : a \in command.profiles} IN
    /\ ~command.allow /\ command.profiles # {}
    /\ \A a \in command.maps : a.fault = Null /\ a.map # Null
    /\ \A a \in command.profiles :
          /\ a.fault = Null /\ Whole(a.file)
          /\ \E b \in command.maps : b.map.map_id = a.file.map_id
    /\ IF command.selection.mode = "implicit-single" THEN Cardinality(runs) = 1
       ELSE runs = command.selection.requested_run_ids

\* The evidence d has the sources of every map of the command, and its execution.
HasInputs(d, command) ==
    /\ d.execution = command.execution
    /\ \A a \in command.maps : \A s \in SeqRange(a.map.sources) :
          \E i \in DOMAIN d.semantic.sources : d.semantic.sources[i] = s

\* The semantic model has the united sources, and is complete only if nothing was found
\* of the inputs.
LEMMA SemanticTables ==
  ASSUME NEW t, NEW maps, NEW profiles, NEW extra, NEW complete, NEW policy,
         ~IsRefused(SemanticOf(t, maps, profiles, extra, complete, policy))
  PROVE  LET s == SemanticOf(t, maps, profiles, extra, complete, policy) IN
         s.sources = t.sources /\ (s.complete => complete)
  BY Zenon DEF SemanticOf, IsRefused, Refused

\* Complete evidence was made of inputs without a finding.
LEMMA CompleteMeans ==
  ASSUME NEW command, Parsed(command), ~IsRefused(BuildIndexed(command)), BuildIndexed(command).semantic.complete
  PROVE  InputsSound(command) /\ HasInputs(BuildIndexed(command), command)
  <1> DEFINE found    == Classify(command.maps, command.profiles, command.tier)
             docs     == {a.map : a \in {b \in command.maps : found.maps[b] = {}}}
             counted  == {a \in command.profiles : found.profiles[a] = {}}
             others    == {a \in command.profiles \ counted : TellsContext(a)}
             selected == {Raw!Decoded(a.file).run_id : a \in counted}
             all      == counted = command.profiles /\ \A a \in command.maps : found.maps[a] = {}
             codes    == GlobalCodes(counted, all,
                             SelectionSatisfied(command.selection.mode, command.selection.requested_run_ids, selected))
             complete == codes = {} /\ ~command.allow
             read     == {Raw!Decoded(a.file) : a \in counted}
             extra    == {Told(a).context : a \in others}
             semantic == BuildSemantic(docs, read, extra, complete, command.policy)
             d        == BuildIndexed(command)
  <1>1. ~IsRefused(semantic) /\ d = IndexedOf(command, found, docs, counted, codes, semantic)
    BY Zenon DEF BuildIndexed, BuildOf
  <1>2. d.semantic = semantic /\ d.execution = command.execution
    <2> HIDE DEF d, found, docs, counted, codes, semantic
    <2> QED
      BY <1>1 DEF IndexedOf
  <1>3. ~IsRefused(Tables(docs)) /\ semantic = SemanticOf(Tables(docs), docs, read, extra, complete, command.policy)
    <2> HIDE DEF docs, read, extra, complete
    <2> QED
      BY <1>1, Zenon DEF BuildSemantic
  <1>4. semantic.sources = Tables(docs).sources /\ complete
    <2> HIDE DEF docs, read, extra, complete
    <2> DEFINE t == Tables(docs)  policy == command.policy
    <2>1. semantic = SemanticOf(t, docs, read, extra, complete, policy)
      BY <1>3
    <2> HIDE DEF t, policy
    <2>2. ~IsRefused(SemanticOf(t, docs, read, extra, complete, policy))
      BY <1>1, <2>1, Zenon
    <2>3. LET s == SemanticOf(t, docs, read, extra, complete, policy) IN
          s.sources = t.sources /\ (s.complete => complete)
      BY <2>2, SemanticTables
    <2> HIDE DEF semantic
    <2>4. semantic.sources = t.sources /\ (semantic.complete => complete)
      BY <2>1, <2>3
    <2> QED
      BY <1>2, <2>4 DEF t
  <1> HIDE DEF semantic, d, found
  <1>5. /\ ~command.allow /\ counted # {} /\ all
        /\ SelectionSatisfied(command.selection.mode, command.selection.requested_run_ids, selected)
    BY <1>4 DEF GlobalCodes
  <1>6. /\ \A a \in command.maps : a.fault = Null /\ a.map # Null /\ ValidMap(a.map)
        /\ \A a \in command.profiles : /\ a.fault = Null /\ Whole(a.file)
                                       /\ \E b \in command.maps : b.map.map_id = a.file.map_id
    <2> DEFINE maps == command.maps  profiles == command.profiles  tier == command.tier
    <2>1. \A a \in profiles : a.sha # Null => a.file \in Raw!File
      BY DEF Parsed
    <2>2. found = Classify(maps, profiles, tier)
      BY DEF found
    <2>3. /\ \A a \in maps : found.maps[a] = {} => a.fault = Null /\ a.map # Null /\ ValidMap(a.map)
          /\ \A a \in profiles : found.profiles[a] = {} =>
                /\ a.fault = Null /\ Whole(a.file)
                /\ \E b \in maps : b.map.map_id = a.file.map_id
      <3> HIDE DEF maps, profiles, tier
      <3> QED
        BY <2>1, <2>2, NothingFound
    <2> QED
      BY <1>5, <2>3
  <1>7. selected = {a.file.run_id : a \in command.profiles}
    <2>1. \A a \in command.profiles : Raw!Decoded(a.file).run_id = a.file.run_id
      BY DEF Raw!Decoded
    <2>2. counted = command.profiles
      BY <1>5
    <2> HIDE DEF counted
    <2> QED
      BY <2>1, <2>2
  <1>8. InputsSound(command)
    <2> HIDE DEF counted, all, selected
    <2>1. counted = command.profiles
      BY <1>5 DEF all
    <2> QED
      BY <1>5, <1>6, <1>7, <2>1 DEF InputsSound, SelectionSatisfied
  <1>9. docs = {a.map : a \in command.maps}
    BY <1>5
  <1>10. IsFiniteSet(docs)
    <2>1. [a \in command.maps |-> a.map] \in Surjection(command.maps, docs)
      BY <1>9 DEF Surjection
    <2> QED
      BY <2>1, FS_Surjection DEF Parsed
  <1>13. \A m \in docs : ValidMap(m) /\ FiniteMap(m)
    BY <1>6, <1>9 DEF Parsed
  <1> HIDE DEF docs
  <1>11. ASSUME NEW a \in command.maps, NEW s \in SeqRange(a.map.sources)
         PROVE  \E i \in DOMAIN d.semantic.sources : d.semantic.sources[i] = s
    <2> DEFINE m == a.map
    <2>1. m \in docs /\ GoodMaps(docs)
      BY <1>9, <1>10, <1>13 DEF GoodMaps
    <2>2. s \in SeqRange(m.sources)
      OBVIOUS
    <2> HIDE DEF m
    <2>3. \E i \in DOMAIN Tables(docs).sources : Tables(docs).sources[i] = s
      BY <1>3, <2>1, <2>2, UnitedSources
    <2> QED
      BY <1>2, <1>4, <2>3
  <1>12. HasInputs(d, command)
    BY <1>2, <1>11 DEF HasInputs
  <1> QED
    BY <1>8, <1>12 DEF d

-----------------------------------------------------------------------------
(* A report passes only on such evidence.                                  *)

Failing == {"failed", "signaled"}

\* The provenance and the completeness of a report are those of its records.
LEMMA ProvenanceKept ==
  ASSUME NEW d, NEW baseline, NEW codes,
         {"provenance", "complete"} \subseteq DOMAIN d
  PROVE  LET q == Ratcheted(Summarised(d), baseline)
             j == Evaluated(q, codes)
         IN  q.provenance = d.provenance /\ j.provenance = d.provenance /\ j.complete = d.complete
  <1> DEFINE s == Summarised(d)
             q == Ratcheted(s, baseline)
             j == Evaluated(q, codes)
             kept == {"provenance", "complete"}
  <1>1. kept \subseteq DOMAIN s /\ \A k \in kept : s[k] = d[k]
    <2> DEFINE root     == RootSummary(d)
               sources  == [i \in DOMAIN d.sources |-> With(d.sources[i], "summary", SourceSummary(d, i))]
               entities == [n \in DOMAIN d.entities |-> With(d.entities[n], "summary", EntitySummary(d, n))]
    <2>1. s = With(With(With(d, "summary", root), "sources", sources), "entities", entities)
      BY DEF Summarised
    <2> HIDE DEF s, root, sources, entities
    <2> QED
      BY <2>1 DEF With
  <1> HIDE DEF s
  <1>2. kept \subseteq DOMAIN q /\ \A k \in kept : q[k] = s[k]
    <2> DEFINE record == IF s.resolved_configuration.coverage.ratchet = Null THEN Null ELSE RatchetOf(s, baseline)
    <2>1. q = With(s, "ratchet", record)
      BY DEF Ratcheted
    <2> HIDE DEF q, record
    <2> QED
      BY <1>1, <2>1 DEF With
  <1> HIDE DEF q
  <1>3. \A k \in kept : j[k] = q[k]
    <2> DEFINE record == [evaluations |-> Evaluations(q, codes), passed |-> Passed(Evaluations(q, codes))]
    <2>1. j = With(q, "policy", record)
      BY DEF Evaluated, Judged
    <2> HIDE DEF j, record
    <2> QED
      BY <1>2, <2>1 DEF With
  <1> HIDE DEF j
  <1>4. \A k \in kept : q[k] = d[k] /\ j[k] = d[k]
    BY <1>1, <1>2, <1>3
  <1> QED
    BY <1>4 DEF q, j, s

\* A report passes only if its evidence is complete, the command did not fail and
\* every source is current.
LEMMA PassingMeans ==
  ASSUME NEW ix, NEW c, NEW at, NEW tool, ~IsRefused(Produce(ix, c, at, tool)),
         ExitStatus(Produce(ix, c, at, tool)) = "0"
  PROVE  /\ ix.semantic.complete /\ ix.execution.status \notin Failing
         /\ Current(ix.semantic.sources, at.observed)
  <1> DEFINE d     == Noted(Detailed(ix, c, at, tool), at.standard_export)
             codes == EvidenceCodes(ix)
             q     == Ratcheted(Summarised(d), at.ratchet)
             j     == Evaluated(q, codes)
             r     == Produce(ix, c, at, tool)
  <1>1. r = Follows(d, at.ratchet, codes)
    BY DEF Produce, IsRefused, Refused, Follows
  <1>2. DOMAIN d = Details /\ HoldsEvidence(d, ix, at.observed)
    BY DetailsOf
  <1>3. r.complete /\ r.policy.passed /\ r.evidence_eligibility = "passing"
    <2> HIDE DEF r
    <2> QED
      BY DEF ExitStatus, r
  <1> HIDE DEF d, codes, r
  <1>4. Keeps(r, d, Evaluations(q, codes)) /\ r.evidence_eligibility = EligibilityOf(j)
    <2>1. Counted \subseteq DOMAIN d /\ DOMAIN d \cap Added = {}
      BY <1>2 DEF Counted, Details, Added
    <2> QED
      BY <1>1, <2>1, FollowsKeeps
  <1>5. q.provenance = d.provenance /\ j.provenance = d.provenance /\ j.complete = d.complete
    <2>1. {"provenance", "complete"} \subseteq DOMAIN d
      BY <1>2 DEF Details
    <2> QED
      BY <2>1, ProvenanceKept
  <1>6. r.complete = d.complete /\ Passed(Evaluations(q, codes))
    <2> DEFINE e == Evaluations(q, codes)
    <2> HIDE DEF q, j, e
    <2>1. r.complete = d.complete
      BY <1>2, <1>4 DEF Keeps, Details, Counted
    <2>2. r.policy = [evaluations |-> e, passed |-> Passed(e)]
      BY <1>4 DEF Keeps, e
    <2>3. Passed(e)
      BY <1>3, <2>2 DEF Passed
    <2> QED
      BY <2>1, <2>3 DEF e
  <1> HIDE DEF q, j
  <1>7. ix.semantic.complete
    BY <1>2, <1>3, <1>6 DEF HoldsEvidence
  <1>8. ix.execution.status \notin Failing
    <2>1. IntegrityEvaluation(q, codes).result \in {"pass", "not_applicable"}
      BY <1>6 DEF Passed, Evaluations
    <2>2. q.provenance.execution.status \notin Failing
      BY <2>1 DEF IntegrityEvaluation, Unlimited, Failing
    <2> QED
      BY <1>2, <1>5, <2>2 DEF HoldsEvidence
  <1>9. Current(ix.semantic.sources, at.observed)
    <2>1. j.provenance.source_accuracy # "mismatch_allowed"
      BY <1>3, <1>4 DEF EligibilityOf
    <2> QED
      BY <1>2, <1>5, <2>1 DEF HoldsEvidence
  <1> QED
    BY <1>7, <1>8, <1>9

\* The sources xs are the sources ss with something added.
SameSources(xs, ss) ==
    DOMAIN xs = DOMAIN ss /\ \A i \in DOMAIN ss : xs[i].path = ss[i].path /\ xs[i].digest = ss[i].digest

\* What a report that was not altered says of its evidence.
Reports(r, ix) ==
    /\ {"complete", "provenance", "sources", "policy"} \subseteq DOMAIN r
    /\ IsFunction(r) /\ "execution" \in DOMAIN r.provenance
    /\ r.complete = ix.semantic.complete /\ r.provenance.execution = ix.execution
    /\ SameSources(r.sources, ix.semantic.sources)
    /\ \A i \in DOMAIN r.sources : {"path", "digest"} \subseteq DOMAIN r.sources[i]
    /\ ~ix.semantic.complete => IntegrityOf(r).diagnostics \cap MergeCodes # {}

\* Every report that Produce makes does.
LEMMA ReportMade ==
  ASSUME NEW ix \in IndexedDocument, ix.diagnostics \cup ix.semantic.diagnostics \subseteq MergeCodes,
         NEW c, NEW at, NEW tool, ~IsRefused(Produce(ix, c, at, tool))
  PROVE  Reports(Produce(ix, c, at, tool), ix)
  <1> DEFINE d     == Noted(Detailed(ix, c, at, tool), at.standard_export)
             codes == EvidenceCodes(ix)
             q     == Ratcheted(Summarised(d), at.ratchet)
             r     == Produce(ix, c, at, tool)
  <1>1. r = Follows(d, at.ratchet, codes)
    BY DEF Produce, IsRefused, Refused, Follows
  <1>2. DOMAIN d = Details /\ HoldsEvidence(d, ix, at.observed)
    BY DetailsOf
  <1> HIDE DEF d, codes, r
  <1>3. Keeps(r, d, Evaluations(q, codes))
    <2>1. Counted \subseteq DOMAIN d /\ DOMAIN d \cap Added = {}
      BY <1>2 DEF Counted, Details, Added
    <2> QED
      BY <1>1, <2>1, FollowsKeeps
  <1>4. /\ {"complete", "provenance", "sources", "policy"} \subseteq DOMAIN r
        /\ r.complete = d.complete /\ r.provenance = d.provenance
    BY <1>2, <1>3 DEF Keeps, Details, Counted, Added
  <1>5. /\ "execution" \in DOMAIN r.provenance /\ r.provenance.execution = ix.execution
        /\ r.complete = ix.semantic.complete
    BY <1>2, <1>4 DEF HoldsEvidence
  <1>6. IsFunction(r)
    <2>1. r = Rated(Evaluated(q, codes))
      BY <1>1 DEF Follows
    <2> HIDE DEF q
    <2> DEFINE j == Evaluated(q, codes)  rating == EligibilityOf(j)
    <2>2. r = With(j, "evidence_eligibility", rating)
      BY <2>1 DEF Rated
    <2> HIDE DEF j, rating
    <2> QED
      BY <2>2 DEF With, IsFunction
  <1>7. /\ SameSources(r.sources, ix.semantic.sources)
        /\ \A i \in DOMAIN r.sources : {"path", "digest"} \subseteq DOMAIN r.sources[i]
    <2> DEFINE u == ix.semantic.sources  t == r.sources
    <2>1. DOMAIN t = DOMAIN u
      BY <1>2, <1>3 DEF Keeps, HoldsEvidence, Observed
    <2>2. \A i \in DOMAIN u : t[i] = With(Observed(u, at.observed)[i], "summary", SourceSummary(d, i))
      <3>1. r.sources = [i \in DOMAIN d.sources |-> With(d.sources[i], "summary", SourceSummary(d, i))]
        BY <1>3 DEF Keeps
      <3>2. d.sources = Observed(ix.semantic.sources, at.observed)
        BY <1>2 DEF HoldsEvidence
      <3>3. DOMAIN d.sources = DOMAIN u
        BY <3>2 DEF Observed
      <3> QED
        BY <3>1, <3>2, <3>3
    <2>3. \A i \in DOMAIN u : {"path", "digest"} \subseteq DOMAIN u[i]
      <3>1. u \in Seq(Source)
        BY DEF IndexedDocument, SemanticDocument
      <3>2. \A i \in DOMAIN u : u[i] \in Source
        BY <3>1
      <3> QED
        BY <3>2 DEF Source
    <2>4. ASSUME NEW f, {"path", "digest"} \subseteq DOMAIN f, NEW v1, NEW v2, NEW v3
          PROVE  LET w == With(With(With(f, "observed_digest", v1), "source_state", v2), "summary", v3) IN
                 w.path = f.path /\ w.digest = f.digest /\ {"path", "digest"} \subseteq DOMAIN w
      BY <2>4 DEF With
    <2> HIDE DEF t, u
    <2>5. ASSUME NEW i \in DOMAIN u
          PROVE  t[i].path = u[i].path /\ t[i].digest = u[i].digest /\ {"path", "digest"} \subseteq DOMAIN t[i]
      <3> DEFINE f == u[i]  v1 == at.observed[u[i].path]  v2 == SourceState(u[i], at.observed)
                 v3 == SourceSummary(d, i)
      <3>1. t[i] = With(With(With(f, "observed_digest", v1), "source_state", v2), "summary", v3)
        BY <2>2 DEF Observed
      <3>2. {"path", "digest"} \subseteq DOMAIN f
        BY <2>3
      <3> HIDE DEF f, v1, v2, v3
      <3>3. t[i].path = f.path /\ t[i].digest = f.digest /\ {"path", "digest"} \subseteq DOMAIN t[i]
        BY <2>4, <3>1, <3>2
      <3> QED
        BY <3>3 DEF f
    <2> QED
      BY <2>1, <2>5 DEF SameSources, t, u
  <1>8. ~ix.semantic.complete => IntegrityOf(r).diagnostics \cap MergeCodes # {}
    <2>1. r.policy.evaluations = Evaluations(q, codes)
      BY <1>3 DEF Keeps
    <2>2. IntegrityOf(r) = IntegrityEvaluation(q, codes)
      BY <2>1, IntegrityFound
    <2> HIDE DEF q
    <2>3. codes \subseteq IntegrityOf(r).diagnostics
      BY <2>2 DEF IntegrityEvaluation, Unlimited
    <2>4. codes \subseteq MergeCodes /\ (~ix.semantic.complete => codes # {})
      BY DEF codes, EvidenceCodes, MergeCodes
    <2> QED
      BY <2>3, <2>4
  <1> QED
    BY <1>4, <1>5, <1>6, <1>7, <1>8 DEF Reports, r

-----------------------------------------------------------------------------
(* What no alteration that a reader accepts takes from a report.           *)

\* A report says no more of its evidence than is true of it.
Attests(x, ix) ==
    /\ ValidReport(x, OurTool) /\ x.complete => ix.semantic.complete
    /\ x.provenance.execution.status \notin Failing => ix.execution.status \notin Failing
    /\ SameSources(x.sources, ix.semantic.sources)

\* Neither the completeness of x nor its execution nor its sources differ from r's.
Unmoved(x, r) ==
    /\ x.complete = r.complete /\ x.provenance.execution = r.provenance.execution
    /\ SameSources(x.sources, r.sources)

\* An alteration touches at most one of the three: the completeness, the execution or
\* the sources, and of these only their summaries.
LEMMA Altered ==
  ASSUME NEW r, NEW ix, Reports(r, ix), NEW x \in Alterations(r)
  PROVE  \/ Unmoved(x, r)
         \/ x = [r EXCEPT !.complete = ~@]
         \/ x = [r EXCEPT !.provenance.execution.status = "failed"]
  <1>1. ASSUME NEW v, \/ x = [r EXCEPT !.policy.passed = v] \/ x = [r EXCEPT !.evidence_eligibility = v]
                      \/ x = [r EXCEPT !.summary = v]       \/ x = [r EXCEPT !.saturation.any = v]
                      \/ x = [r EXCEPT !.contexts = v]      \/ x = [r EXCEPT !.points = v]
                      \/ x = [r EXCEPT !.policy.evaluations = v]
        PROVE  Unmoved(x, r)
    BY <1>1 DEF Unmoved, SameSources, Reports
  <1>2. ASSUME NEW i, NEW v, \/ x = [r EXCEPT !.lines[i].status = v] \/ x = [r EXCEPT !.regions[i].count.value = v]
                             \/ x = [r EXCEPT !.exclusions[i].affected.line_indices = v]
        PROVE  Unmoved(x, r)
    BY <1>2 DEF Unmoved, SameSources, Reports
  <1>3. ASSUME NEW v, x = [r EXCEPT !.provenance.run_ids = v]
        PROVE  Unmoved(x, r)
    BY <1>3 DEF Unmoved, SameSources, Reports
  <1>4. ASSUME NEW i \in DOMAIN r.sources, NEW v, x = [r EXCEPT !.sources[i].summary = v]
        PROVE  Unmoved(x, r)
    BY <1>4 DEF Unmoved, SameSources, Reports
  <1> DEFINE one == {[r EXCEPT !.policy.passed = ~@], [r EXCEPT !.evidence_eligibility = "passing"],
                     [r EXCEPT !.complete = ~@], [r EXCEPT !.summary = AlteredMetrics(@)],
                     [r EXCEPT !.provenance.run_ids = {}],
                     [r EXCEPT !.saturation.any = ~@], [r EXCEPT !.contexts = Append(@, 99)],
                     [r EXCEPT !.provenance.execution.status = "failed"]}
             two == {[r EXCEPT !.sources[i].summary = AlteredMetrics(@)] : i \in DOMAIN r.sources}
             three == {[r EXCEPT !.lines[i].status = "covered"] : i \in DOMAIN r.lines}
             four == {[r EXCEPT !.regions[i].count.value = @ + 1] : i \in DOMAIN r.regions}
             five == {[r EXCEPT !.exclusions[i].affected.line_indices = {}] : i \in DOMAIN r.exclusions}
             six == {[r EXCEPT !.points = @ \ {p}] : p \in {q \in r.points : Referred(r, q)}}
             seven == {[r EXCEPT !.policy.evaluations = (@ \ {e}) \cup {[e EXCEPT !.result = "pass", !.diagnostics = {}]}] :
                          e \in r.policy.evaluations}
             eight == {[r EXCEPT !.policy.evaluations = @ \ {e}] : e \in r.policy.evaluations}
  <1>5. x \in one \/ x \in two \/ x \in three \/ x \in four \/ x \in five \/ x \in six \/ x \in seven \/ x \in eight
    <2>1. Alterations(r) = one \cup two \cup three \cup four \cup five \cup six \cup seven \cup eight
      BY Zenon DEF Alterations
    <2> HIDE DEF one, two, three, four, five, six, seven, eight
    <2> QED
      BY <2>1
  <1>6. CASE x \in one
    BY <1>1, <1>3, <1>6
  <1>7. CASE x \in two
    BY <1>4, <1>7
  <1>8. CASE x \in three \/ x \in four \/ x \in five
    BY <1>2, <1>8
  <1>9. CASE x \in six \/ x \in seven \/ x \in eight
    BY <1>1, <1>9
  <1> QED
    BY <1>5, <1>6, <1>7, <1>8, <1>9, Zenon

\* A report attests the completeness, the execution and the sources of its evidence,
\* and still does when one fact of it was altered, if its reader accepts it.
LEMMA AlteredAttests ==
  ASSUME NEW ix \in IndexedDocument, NEW r, Reports(r, ix), NEW x, x = r \/ x \in Alterations(r)
  PROVE  Attests(x, ix)
  <1>1. /\ r.complete = ix.semantic.complete /\ r.provenance.execution = ix.execution
        /\ SameSources(r.sources, ix.semantic.sources)
    BY DEF Reports
  <1>2. CASE x = r
    BY <1>1, <1>2 DEF Attests
  <1>3. CASE Unmoved(x, r)
    BY <1>1, <1>3 DEF Unmoved, Attests, SameSources
  <1>4. CASE x = [r EXCEPT !.complete = ~@]
    <2>1. /\ x.complete = ~r.complete /\ x.policy = r.policy
          /\ x.provenance = r.provenance /\ x.sources = r.sources
      BY <1>4 DEF Reports
    <2>2. ASSUME ValidReport(x, OurTool), x.complete, ~ix.semantic.complete
          PROVE  FALSE
      <3>1. IntegrityOf(x) = IntegrityOf(r)
        BY <2>1 DEF IntegrityOf
      <3>2. IntegrityOf(x).diagnostics \cap MergeCodes # {}
        BY <2>2, <3>1 DEF Reports
      <3> DEFINE found == IntegrityOf(x).diagnostics  now == ReportTimeCodes(x)
      <3>3. found \ (now \cup {"COV2130"}) = {}
        BY <2>2 DEF ValidReport, CrossValid, IntegrityOK
      <3>4. now \subseteq ReportTime
        BY DEF ReportTimeCodes, ReportTime
      <3> HIDE DEF found, now
      <3>5. found \cap MergeCodes # {}
        BY <3>2 DEF found
      <3> QED
        BY <3>3, <3>4, <3>5 DEF ReportTime, MergeCodes
    <2> QED
      BY <1>1, <2>1, <2>2 DEF Attests
  <1>5. CASE x = [r EXCEPT !.provenance.execution.status = "failed"]
    <2>1. x.complete = r.complete /\ x.sources = r.sources
      BY <1>5 DEF Reports
    <2>2. x.provenance.execution = [r.provenance.execution EXCEPT !.status = "failed"]
      BY <1>5 DEF Reports
    <2>3. x.provenance.execution.status = "failed"
      <3>1. ix.execution \in Execution
        BY DEF IndexedDocument
      <3> QED
        BY <1>1, <2>2, <3>1 DEF Execution
    <2> QED
      BY <1>1, <2>1, <2>3 DEF Attests, Failing
  <1> QED
    BY <1>2, <1>3, <1>4, <1>5, Altered

-----------------------------------------------------------------------------
(* A check that passes.                                                    *)

\* What a pass says of the evidence.
Passing(ix, observed) ==
    /\ ix.semantic.complete /\ ix.execution.status \notin Failing
    /\ \A i \in DOMAIN ix.semantic.sources :
          observed[ix.semantic.sources[i].path] = ix.semantic.sources[i].digest

\* A check of the evidence that passes says it.
LEMMA MadePassing ==
  ASSUME NEW ix, NEW c, NEW at, NEW tool, ~IsRefused(Produce(ix, c, at, tool)),
         ExitStatus(Produce(ix, c, at, tool)) = "0"
  PROVE  Passing(ix, at.observed)
  <1>1. /\ ix.semantic.complete /\ ix.execution.status \notin Failing
        /\ Current(ix.semantic.sources, at.observed)
    BY PassingMeans
  <1> DEFINE u == ix.semantic.sources  observed == at.observed
  <1>2. ASSUME NEW i \in DOMAIN u PROVE observed[u[i].path] = u[i].digest
    <2>1. SourceState(u[i], observed) = "current"
      BY <1>1 DEF Current, SeqRange
    <2> QED
      BY <2>1 DEF SourceState
  <1> QED
    BY <1>1, <1>2 DEF Passing

\* And so does a check of a stored report.
LEMMA RebuiltPassing ==
  ASSUME NEW ix, NEW x, ValidReport(x, OurTool), Attests(x, ix), NEW c, NEW at,
         ~IsRefused(Rebuild(x, c, at, OurTool)), ExitStatus(Rebuild(x, c, at, OurTool)) = "0"
  PROVE  Passing(ix, at.observed)
  <1> DEFINE e == EvidenceOf(x)
  <1>1. Passing(e, at.observed)
    BY MadePassing DEF Rebuild
  <1>2. /\ e.semantic.complete = x.complete /\ e.execution = x.provenance.execution
        /\ e.semantic.sources = Bare(x.sources, {"observed_digest", "source_state", "summary"})
    BY DEF EvidenceOf
  <1> HIDE DEF e
  <1> DEFINE t == x.sources  u == ix.semantic.sources  v == e.semantic.sources
  <1>3. DOMAIN v = DOMAIN t /\ \A i \in DOMAIN t : v[i].path = t[i].path /\ v[i].digest = t[i].digest
    <2>1. t \in Seq(ReportSource)
      BY DEF ValidReport, ReportDocument
    <2>2. \A i \in DOMAIN t : {"path", "digest"} \subseteq DOMAIN t[i]
      <3>1. \A i \in DOMAIN t : t[i] \in ReportSource
        BY <2>1
      <3> QED
        BY <3>1 DEF ReportSource
    <2>3. v = Bare(t, {"observed_digest", "source_state", "summary"})
      BY <1>2
    <2> HIDE DEF t, v
    <2> QED
      BY <2>2, <2>3 DEF Bare, Without
  <1>4. DOMAIN t = DOMAIN u /\ \A i \in DOMAIN u : t[i].path = u[i].path /\ t[i].digest = u[i].digest
    BY DEF Attests, SameSources
  <1>5. \A i \in DOMAIN v : at.observed[v[i].path] = v[i].digest
    BY <1>1 DEF Passing
  <1>6. \A i \in DOMAIN u : at.observed[u[i].path] = u[i].digest
    <2> HIDE DEF t, u, v
    <2> QED
      BY <1>3, <1>4, <1>5
  <1>7. ix.semantic.complete /\ ix.execution.status \notin Failing
    BY <1>1, <1>2 DEF Passing, Attests
  <1> QED
    BY <1>6, <1>7 DEF Passing

\* The evidence is what a merge makes of its command, and the report attests it.
PassInv ==
    /\ indexed # Null => indexed = BuildIndexed(merged) /\ merged \in Commands /\ ~IsRefused(indexed)
    /\ report # Null => indexed # Null /\ Attests(report, indexed)
    /\ report # Null /\ told = "published" => Reports(report, indexed)
    /\ PassIsBacked

\* Nothing has passed yet.
LEMMA PassInitInv == Init => PassInv
  BY DEF Init, PassInv, PassIsBacked

\* A check that ends in 0 says it of evidence that a merge made, and no other command
\* ends in 0.
LEMMA PassNextInv == Inv /\ PassInv /\ [Next]_vars => PassInv'
  <1> SUFFICES ASSUME Inv, PassInv, [Next]_vars
               PROVE  PassInv'
    OBVIOUS
  <1>1. ASSUME NEW command \in Commands, Merge(command)
        PROVE  PassInv'
    <2>1. indexed = Null /\ report = Null /\ report' = Null /\ told' = MergeEnd(BuildIndexed(command))
      BY <1>1 DEF Merge, Inv
    <2>2. told' # "0"
      BY <2>1 DEF MergeEnd
    <2>3. indexed' # Null => indexed' = BuildIndexed(command) /\ merged' = command /\ told' = "published"
      BY <1>1, <2>1 DEF Merge
    <2>4. told' = "published" => ~IsRefused(BuildIndexed(command))
      BY <2>1 DEF MergeEnd
    <2> QED
      BY <2>1, <2>2, <2>3, <2>4 DEF PassInv, PassIsBacked
  <1>2. ASSUME NEW inv \in Invocations, Report(inv)
        PROVE  PassInv'
    <2>1. indexed # Null /\ indexed' = indexed /\ merged' = merged /\ report = Null
      BY <1>2 DEF Report
    <2>2. PICK c, at, r : /\ r = FromIndexed(c, at)
                          /\ report' # report => ~IsRefused(r) /\ (report' = r \/ report' = Null)
                          /\ told' \in {"refused", "internal failure"} \/ \E e : e = Publication(inv.export, r) /\ told' = e.ended
      BY <1>2 DEF Report
    <2>3. told' # "0"
      <3>1. \A rendered : EndOf(rendered, r) # "0"
        BY DEF EndOf
      <3>2. \A rendered, ended : Left(rendered, ended).ended = ended
        BY DEF Left
      <3>3. \A formats : Publication(formats, r).ended # "0"
        BY <3>1, <3>2 DEF Publication, ExportOf, Exported
      <3> QED
        BY <2>2, <3>3
    <2>4. report' # Null => Reports(report', indexed) /\ Attests(report', indexed)
      <3> SUFFICES ASSUME report' # Null PROVE Reports(report', indexed) /\ Attests(report', indexed)
        OBVIOUS
      <3>1. report' = r /\ ~IsRefused(r) /\ r = Produce(indexed, c, at, OurTool)
        BY <2>1, <2>2 DEF FromIndexed
      <3>2. Published(indexed)
        BY <2>1 DEF Inv
      <3>3. Reports(r, indexed)
        BY <3>1, <3>2, ReportMade DEF Published
      <3> QED
        BY <3>1, <3>2, <3>3, AlteredAttests DEF Published
    <2> QED
      BY <2>1, <2>3, <2>4 DEF PassInv, PassIsBacked
  <1>3. ASSUME NEW operand \in {"indexed", "report"}, NEW inv \in Invocations, Check(operand, inv)
        PROVE  PassInv'
    <2>1. /\ indexed # Null /\ UNCHANGED <<tree, indexed, merged, report, altered>>
          /\ told' # "published"
          /\ operand = "report" => report # Null
      BY <1>3 DEF Check, ExitStatus
    <2>2. PICK c : \E at \in Circumstances(c, FALSE) : \E r \in {Loaded(operand, c, at)} :
                      told' = "0" => ~IsRefused(r) /\ told' = ExitStatus(r)
      BY <1>3 DEF Check
    <2>3. ASSUME told' = "0" PROVE PassIsBacked'
      <3>1. PICK at : at.observed = tree /\ ~IsRefused(Loaded(operand, c, at)) /\ ExitStatus(Loaded(operand, c, at)) = "0"
        BY <2>2, <2>3 DEF Circumstances
      <3>2. Passing(indexed, tree)
        <4>1. CASE operand = "indexed"
          <5>1. Loaded(operand, c, at) = Produce(indexed, c, at, OurTool)
            BY <3>1, <4>1 DEF Loaded, FromIndexed
          <5> QED
            BY <3>1, <5>1, MadePassing
        <4>2. CASE operand = "report"
          <5>1. ValidReport(report, OurTool) /\ Loaded(operand, c, at) = Rebuild(report, c, at, OurTool)
            BY <3>1, <4>2 DEF Loaded, FromReport, IsRefused, Refused
          <5>2. Attests(report, indexed)
            BY <2>1, <4>2 DEF PassInv
          <5> QED
            BY <3>1, <5>1, <5>2, RebuiltPassing
        <4> QED
          BY <4>1, <4>2
      <3>3. indexed = BuildIndexed(merged) /\ merged \in Commands /\ ~IsRefused(indexed)
        BY <2>1 DEF PassInv
      <3>4. Parsed(merged)
        BY <3>3, PipelineAssumption DEF Parsed
      <3>5. InputsSound(merged) /\ HasInputs(indexed, merged)
        BY <3>2, <3>3, <3>4, CompleteMeans DEF Passing
      <3>6. \A a \in merged.maps : \A s \in SeqRange(a.map.sources) : tree[s.path] = s.digest
        BY <3>2, <3>5 DEF Passing, HasInputs
      <3>7. merged.execution.status \notin {"failed", "signaled"}
        BY <3>2, <3>5 DEF Passing, HasInputs, Failing
      <3>8. merged' = merged /\ tree' = tree
        BY <2>1
      <3> QED
        BY <3>5, <3>6, <3>7, <3>8 DEF InputsSound, PassIsBacked
    <2> QED
      BY <2>1, <2>3 DEF PassInv, PassIsBacked
  <1>4. ASSUME NEW e \in Edited, Edit(e[1], e[2])
        PROVE  PassInv'
    BY <1>4 DEF Edit, PassInv, PassIsBacked
  <1>5. CASE Alter
    <2>1. PICK r : r = report /\ report' \in Alterations(r)
      BY <1>5 DEF Alter
    <2>2. /\ report # Null /\ told = "published" /\ told' = "none" /\ UNCHANGED <<indexed, merged>>
      BY <1>5 DEF Alter
    <2>3. indexed # Null /\ Reports(report, indexed)
      BY <2>2 DEF PassInv
    <2>4. Published(indexed)
      BY <2>3 DEF Inv
    <2>5. Attests(report', indexed)
      BY <2>1, <2>3, <2>4, AlteredAttests DEF Published
    <2> QED
      BY <2>2, <2>3, <2>5 DEF PassInv, PassIsBacked
  <1>6. CASE UNCHANGED vars
    BY <1>6 DEF vars, PassInv, PassIsBacked
  <1> QED
    BY <1>1, <1>2, <1>3, <1>4, <1>5, <1>6 DEF Next

\* A check exits 0 only when every input of the merge was readable and counted, the run
\* selection held, the test command did not fail and every source is as it was compiled,
\* whether it read the evidence or a report, altered or not (exit_status, _integrity).
THEOREM PassesAreBacked == Spec => []PassIsBacked
  <1>1. PassInv => PassIsBacked
    BY DEF PassInv
  <1> QED
    BY <1>1, InitInv, NextInv, PassInitInv, PassNextInv, PTL DEF Spec

-----------------------------------------------------------------------------
(* The counts of a file.                                                   *)

\* A raw profile that is accepted has the pairs that its reader allows.
LEMMA AcceptedPairs ==
  ASSUME NEW f \in Raw!File, NEW tier, Raw!Verdict(f, tier, Null, Null) = "accepted"
  PROVE  Raw!PairsOK(f, Null)
  <1> DEFINE checks == Raw!Checks(f, tier, Null, Null)
             failed == {k \in DOMAIN checks : ~checks[k][1]}
             first  == CHOOSE k \in failed : \A j \in failed : k <= j
  <1>1. DOMAIN checks = 1 .. 18 /\ \A k \in 1 .. 18 : checks[k][2] # "accepted"
    BY DEF Raw!Checks
  <1>2. failed # {} => checks[first][2] = "accepted"
    BY DEF Raw!Verdict
  <1>3. checks[18][1] => Raw!PairsOK(f, Null)
    BY DEF Raw!Checks
  <1> HIDE DEF checks
  <1>4. failed = {}
    <2> SUFFICES ASSUME failed # {} PROVE FALSE
      OBVIOUS
    <2>1. failed \in SUBSET (1 .. 18) /\ 18 \in Nat
      BY <1>1
    <2>2. \E k \in failed : \A j \in failed : k <= j
      <3> HIDE DEF failed
      <3> QED
        BY <2>1, Codec!LeastIndex
    <2>3. first \in failed
      BY <2>2
    <2> QED
      BY <1>1, <1>2, <2>1, <2>3
  <1> QED
    BY <1>1, <1>3, <1>4

\* Each pair is the one count of its counter.
LEMMA FileCounts ==
  ASSUME NEW f \in Raw!File, Raw!PairsOK(f, Null)
  PROVE  LET counts == Raw!Decoded(f).counts IN
         /\ DOMAIN counts = {f.pairs[k].index : k \in DOMAIN f.pairs}
         /\ \A k \in DOMAIN f.pairs : /\ counts[f.pairs[k].index] = f.pairs[k].count
                                      /\ f.pairs[k].index \in Nat /\ f.pairs[k].count \in 1 .. MaxCount
         /\ \A k, l \in DOMAIN f.pairs : f.pairs[k].index = f.pairs[l].index => k = l
         /\ IsFiniteSet(DOMAIN f.pairs)
  <1> DEFINE counts == Raw!Decoded(f).counts
  <1>1. f.pairs \in Seq([index : Nat, count : 0 .. MaxCount])
    BY DEF Raw!File
  <1>2. /\ DOMAIN f.pairs = 1 .. Len(f.pairs) /\ Len(f.pairs) \in Nat
        /\ \A k \in DOMAIN f.pairs : f.pairs[k] \in [index : Nat, count : 0 .. MaxCount]
    <2> DEFINE T == [index : Nat, count : 0 .. MaxCount]
    <2> HIDE DEF T
    <2>1. f.pairs \in Seq(T)
      BY <1>1 DEF T
    <2>2. DOMAIN f.pairs = 1 .. Len(f.pairs) /\ Len(f.pairs) \in Nat
      BY <2>1
    <2>3. \A k \in DOMAIN f.pairs : f.pairs[k] \in T
      BY <2>1, <2>2
    <2> QED
      BY <2>2, <2>3 DEF T
  <1>3. \A k \in DOMAIN f.pairs : f.pairs[k].index \in Nat /\ f.pairs[k].count \in 1 .. MaxCount
    <2>1. \A k \in DOMAIN f.pairs : f.pairs[k].count # 0
      BY DEF Raw!PairsOK
    <2> QED
      BY <1>2, <2>1, MaxCountAssumption
  <1>4. \A k, l \in DOMAIN f.pairs : f.pairs[k].index = f.pairs[l].index => k = l
    <2>1. f \in Codec!File
      BY DEF Raw!File, Codec!File, Codec!KnownFlags
    <2>2. Codec!PairsOK(f, Null)
      BY DEF Raw!PairsOK, Codec!PairsOK
    <2>3. \A k, l \in DOMAIN f.pairs : k < l => f.pairs[k].index < f.pairs[l].index
      BY <2>1, <2>2, Codec!PairsIncrease
    <2> QED
      BY <1>2, <1>3, <2>3
  <1> DEFINE pairs == {f.pairs[k] : k \in DOMAIN f.pairs}
             named == {f.pairs[k].index : k \in DOMAIN f.pairs}
  <1>5. counts = [i \in named |-> (CHOOSE pair \in pairs : pair.index = i).count]
    BY DEF Raw!Decoded
  <1> HIDE DEF counts
  <1>6. DOMAIN counts = named
    BY <1>5
  <1>7. ASSUME NEW k \in DOMAIN f.pairs
        PROVE  counts[f.pairs[k].index] = f.pairs[k].count
    <2> DEFINE i == f.pairs[k].index  pair == CHOOSE x \in pairs : x.index = i
    <2>1. i \in named /\ f.pairs[k] \in pairs /\ f.pairs[k].index = i
      OBVIOUS
    <2>2. counts[i] = pair.count
      BY <1>5, <2>1
    <2>3. pair \in pairs /\ pair.index = i
      <3> HIDE DEF pairs, i
      <3> QED
        BY <2>1
    <2>4. PICK l \in DOMAIN f.pairs : f.pairs[l] = pair
      <3> HIDE DEF pair
      <3> QED
        BY <2>3
    <2>5. l = k
      <3> HIDE DEF pair
      <3> QED
        BY <1>4, <2>3, <2>4
    <2> HIDE DEF pair
    <2> QED
      BY <2>2, <2>4, <2>5
  <1>8. IsFiniteSet(DOMAIN f.pairs)
    <2>1. 1 \in Int /\ Len(f.pairs) \in Int
      BY <1>2
    <2> QED
      BY <1>2, <2>1, FS_Interval
  <1> QED
    BY <1>3, <1>4, <1>6, <1>7, <1>8 DEF counts

-----------------------------------------------------------------------------
(* Counts as numbers: what the saturating sums stand for.                  *)

\* The count record of a number of hits.
Tally(n) == [value |-> Saturated(n), inexact |-> n >= MaxCount]

\* What a count record shows of a number, and that adding to it adds to the number.
LEMMA TallyFacts ==
  /\ Tally(0) = Zero
  /\ \A n, k \in Nat : Plus(Tally(n), k) = Tally(n + k)
  /\ \A n \in Nat : Tally(n).value \in Nat /\ (Tally(n).value > 0 <=> n > 0)
  /\ \A n \in Nat : Tally(n).value <= n /\ (~Tally(n).inexact => Tally(n).value = n)
  <1>1. Tally(0) = Zero
    <2>1. Saturated(0) = 0 /\ (0 >= MaxCount) = FALSE
      BY MaxCountAssumption DEF Saturated
    <2> QED
      BY <2>1 DEF Tally, Zero
  <1>2. \A n \in Nat : /\ Tally(n).value = IF n < MaxCount THEN n ELSE MaxCount
                       /\ Tally(n).inexact = (n >= MaxCount)
    BY DEF Tally, Saturated
  <1>3. ASSUME NEW n \in Nat, NEW k \in Nat PROVE Plus(Tally(n), k) = Tally(n + k)
    <2>1. Saturated(Tally(n).value + k) = Saturated(n + k)
      BY <1>2, MaxCountAssumption DEF Saturated
    <2>2. (Tally(n).inexact \/ Tally(n).value + k >= MaxCount) = (n + k >= MaxCount)
      <3>1. CASE n < MaxCount
        <4>1. Tally(n).value = n
          BY <1>2, <3>1
        <4>2. ~(n >= MaxCount)
          BY <3>1, MaxCountAssumption
        <4>3. Tally(n).inexact = FALSE
          <5>1. Tally(n).inexact = (n >= MaxCount)
            BY <1>2
          <5>2. (n >= MaxCount) = FALSE
            BY <4>2
          <5> QED
            BY <5>1, <5>2
        <4> QED
          BY <4>1, <4>3
      <3>2. CASE ~(n < MaxCount)
        <4>1. n >= MaxCount /\ n + k >= MaxCount
          BY <3>2, MaxCountAssumption
        <4>2. Tally(n).inexact = TRUE
          BY <1>2, <4>1
        <4> QED
          BY <4>1, <4>2
      <3> QED
        BY <3>1, <3>2
    <2> QED
      BY <2>1, <2>2 DEF Plus, Tally
  <1>4. ASSUME NEW n \in Nat
        PROVE  /\ Tally(n).value \in Nat /\ (Tally(n).value > 0 <=> n > 0)
               /\ Tally(n).value <= n /\ (~Tally(n).inexact => Tally(n).value = n)
    <2>1. CASE n < MaxCount
      BY <1>2, <2>1
    <2>2. CASE ~(n < MaxCount)
      <3>1. n >= MaxCount
        BY <2>2, MaxCountAssumption
      <3>2. Tally(n).value = MaxCount
        BY <1>2, <2>2
      <3>3. Tally(n).inexact = TRUE
        BY <1>2, <3>1
      <3> QED
        BY <3>1, <3>2, <3>3, MaxCountAssumption
    <2> QED
      BY <2>1, <2>2
  <1> QED
    BY <1>1, <1>3, <1>4

\* A sum of numbers is positive only if one of them is.
LEMMA SumPositive ==
  ASSUME NEW S, IsFiniteSet(S), NEW g, \A x \in S : g[x] \in Nat, SumFunctionOnSet(g, S) # 0
  PROVE  \E x \in S : g[x] > 0
  <1> DEFINE zero == [x \in S |-> 0]
  <1>1. SUFFICES ASSUME \A x \in S : g[x] = 0 PROVE FALSE
    OBVIOUS
  <1>2. SumFunctionOnSet(g, S) = SumFunctionOnSet(zero, S)
    <2>1. \A x \in S : g[x] \in Int /\ g[x] = zero[x]
      BY <1>1
    <2> HIDE DEF zero
    <2> QED
      BY <2>1, SumEqual
  <1> DEFINE Bad == {s \in SUBSET S : SumFunctionOnSet(zero, s) # 0}
  <1>3. Bad # {}
    BY <1>2
  <1>4. PICK T \in Bad : \A U \in Bad : U \subseteq T => U = T
    <2>1. Bad \in SUBSET SUBSET S
      OBVIOUS
    <2> HIDE DEF Bad
    <2> QED
      BY <1>3, <2>1, MinimalSet
  <1>5. IsFiniteSet(T) /\ T \subseteq S /\ SumFunctionOnSet(zero, T) # 0
    BY <1>4, FS_Subset
  <1>6. T # {}
    BY <1>5, SumSmall
  <1>7. PICK a \in T : TRUE
    BY <1>6
  <1>8. T \ {a} \notin Bad /\ T \ {a} \in SUBSET S
    BY <1>4, <1>7
  <1>9. SumFunctionOnSet(zero, T \ {a}) = 0
    BY <1>8
  <1>10. \A x \in T : zero[x] \in Int
    BY <1>5
  <1>11. SumFunctionOnSet(zero, T) = zero[a] + SumFunctionOnSet(zero, T \ {a})
    <2> HIDE DEF zero, Bad
    <2> QED
      BY <1>5, <1>7, <1>10, SumTake
  <1>12. zero[a] = 0
    BY <1>5, <1>7
  <1> QED
    BY <1>5, <1>9, <1>11, <1>12

\* A sum may be taken over the members of a set or over what they are mapped to.
LEMMA SumReindex ==
  ASSUME NEW F, IsFiniteSet(F), NEW d, NEW g, NEW h,
         \A a, b \in F : d[a] = d[b] => a = b,
         \A a \in F : h[a] \in Int /\ h[a] = g[d[a]]
  PROVE  SumFunctionOnSet(g, {d[a] : a \in F}) = SumFunctionOnSet(h, F)
  <1> DEFINE to(s) == {d[a] : a \in s}
             Bad   == {s \in SUBSET F : SumFunctionOnSet(g, to(s)) # SumFunctionOnSet(h, s)}
  <1>1. SUFFICES ASSUME Bad # {} PROVE FALSE
    OBVIOUS
  <1>2. PICK T \in Bad : \A U \in Bad : U \subseteq T => U = T
    <2>1. Bad \in SUBSET SUBSET F
      OBVIOUS
    <2> HIDE DEF Bad
    <2> QED
      BY <1>1, <2>1, MinimalSet
  <1>3. IsFiniteSet(T) /\ T \subseteq F /\ SumFunctionOnSet(g, to(T)) # SumFunctionOnSet(h, T)
    BY <1>2, FS_Subset
  <1>4. T # {}
    <2>1. SumFunctionOnSet(g, {}) = SumFunctionOnSet(h, {})
      BY SumSmall
    <2>2. to({}) = {}
      OBVIOUS
    <2> QED
      BY <1>3, <2>1, <2>2
  <1>5. PICK a \in T : TRUE
    BY <1>4
  <1> DEFINE U == T \ {a}
  <1>6. SumFunctionOnSet(g, to(U)) = SumFunctionOnSet(h, U)
    <2>1. U \notin Bad /\ U \in SUBSET F
      BY <1>2, <1>5
    <2> QED
      BY <2>1
  <1>7. to(T) = to(U) \cup {d[a]} /\ d[a] \notin to(U)
    BY <1>3, <1>5
  <1>8. SumFunctionOnSet(h, T) = h[a] + SumFunctionOnSet(h, U)
    <2>1. \A x \in T : h[x] \in Int
      BY <1>3
    <2> QED
      BY <1>3, <1>5, <2>1, SumTake
  <1>9. IsFiniteSet(to(U))
    <2> DEFINE e == [x \in U |-> d[x]]
    <2>1. IsFiniteSet(U)
      BY <1>3, FS_Subset
    <2>2. DOMAIN e = U /\ e = [x \in U |-> e[x]] /\ \A x \in U : e[x] = d[x]
      OBVIOUS
    <2>3. {e[x] : x \in U} = to(U)
      BY <2>2
    <2> HIDE DEF e, U
    <2>4. IsFiniteSet({e[x] : x \in U})
      BY <2>1, <2>2, FiniteImage
    <2> QED
      BY <2>3, <2>4
  <1>10. \A y \in to(U) \cup {d[a]} : g[y] \in Int
    BY <1>3, <1>5
  <1>11. SumFunctionOnSet(g, to(U) \cup {d[a]}) = g[d[a]] + SumFunctionOnSet(g, to(U))
    <2> DEFINE V == to(U)
    <2>1. IsFiniteSet(V) /\ d[a] \notin V /\ \A y \in V \cup {d[a]} : g[y] \in Int
      BY <1>7, <1>9, <1>10
    <2> HIDE DEF V
    <2>2. SumFunctionOnSet(g, V \cup {d[a]}) = g[d[a]] + SumFunctionOnSet(g, V)
      BY <2>1, SumAdd
    <2> QED
      BY <2>2 DEF V
  <1>12. g[d[a]] = h[a]
    BY <1>3, <1>5
  <1> QED
    BY <1>3, <1>6, <1>7, <1>8, <1>11, <1>12

\* The points of a profile's counters.
SlotsFor(maps, p) == Slots(CHOOSE m \in maps : m.map_id = p.map_id)

\* One profile more, as the fold of the counts takes it, and the function that folds them.
OneMore(maps, p, acc, pid) ==
    FoldSet(LAMBDA i, a : Plus(a, p.counts[i]), acc, Ran(p, pid, SlotsFor(maps, p)))
CountsOver(maps, profiles, pid) == CountIn(profiles, pid, LAMBDA p : SlotsFor(maps, p))
Folds(h, p, acc, R) ==
    h = [s \in SUBSET R |-> IF s = {} THEN acc ELSE Plus(h[s \ {Some(s)}], p.counts[Some(s)])]
Tallies(h, maps, pid, P) ==
    h = [s \in SUBSET P |-> IF s = {} THEN Zero ELSE OneMore(maps, Some(s), h[s \ {Some(s)}], pid)]

\* How often a profile hit a point.
Hits(maps, p, pid) == LET R == Ran(p, pid, SlotsFor(maps, p)) IN IF R = {} THEN 0 ELSE p.counts[Some(R)]

\* One profile more is a fold over its counters of the point.
LEMMA OneMoreChosen ==
  ASSUME NEW maps, NEW p, NEW acc, NEW pid
  PROVE  LET R == Ran(p, pid, SlotsFor(maps, p)) IN OneMore(maps, p, acc, pid) = (CHOOSE h : Folds(h, p, acc, R))[R]
  BY DEF OneMore, FoldSet, MapThenFoldSet, Folds, Some

\* The counts of a point are a fold over the profiles.
LEMMA CountsChosen ==
  ASSUME NEW maps, NEW P, NEW pid
  PROVE  CountsOver(maps, P, pid) = (CHOOSE h : Tallies(h, maps, pid, P))[P]
  BY DEF CountsOver, CountIn, OneMore, FoldSet, MapThenFoldSet, Tallies, Some

\* A profile has at most one counter of a point, and adds what it says.
LEMMA OneMoreAdds ==
  ASSUME NEW maps, NEW p, NEW pid, NEW n \in Nat,
         \A i, j \in Ran(p, pid, SlotsFor(maps, p)) : i = j,
         \A i \in Ran(p, pid, SlotsFor(maps, p)) : p.counts[i] \in Nat
  PROVE  OneMore(maps, p, Tally(n), pid) = Tally(n + Hits(maps, p, pid)) /\ Hits(maps, p, pid) \in Nat
  <1> DEFINE R == Ran(p, pid, SlotsFor(maps, p))
  <1>1. \A i, j \in R : i = j
    OBVIOUS
  <1>2. \A i \in R : p.counts[i] \in Nat
    OBVIOUS
  <1>3. OneMore(maps, p, Tally(n), pid) = (CHOOSE h : Folds(h, p, Tally(n), R))[R]
    BY OneMoreChosen
  <1>4. Hits(maps, p, pid) = IF R = {} THEN 0 ELSE p.counts[Some(R)]
    BY DEF Hits
  <1> HIDE DEF R
  <1> DEFINE of == CHOOSE h : Folds(h, p, Tally(n), R)
             f  == [s \in SUBSET R |-> IF s = {} THEN Tally(n) ELSE Plus(Tally(n), p.counts[Some(s)])]
  <1>5. Folds(f, p, Tally(n), R)
    <2>1. ASSUME NEW s \in SUBSET R, s # {}
          PROVE  f[s \ {Some(s)}] = Tally(n)
      <3>1. s \ {Some(s)} = {}
        BY <1>1, <2>1 DEF Some
      <3> QED
        BY <3>1
    <2>2. f = [s \in SUBSET R |-> IF s = {} THEN Tally(n) ELSE Plus(Tally(n), p.counts[Some(s)])]
      OBVIOUS
    <2> HIDE DEF f
    <2> QED
      BY <2>1, <2>2 DEF Folds
  <1>6. Folds(of, p, Tally(n), R)
    <2> HIDE DEF f
    <2> QED
      BY <1>5
  <1> HIDE DEF f, of
  <1>7. \A s \in SUBSET R : of[s] = IF s = {} THEN Tally(n) ELSE Plus(of[s \ {Some(s)}], p.counts[Some(s)])
    BY <1>6 DEF Folds
  <1>8. CASE R = {}
    <2>1. of[R] = Tally(n)
      BY <1>7, <1>8
    <2> QED
      BY <1>3, <1>4, <1>8, <2>1 DEF of
  <1>9. CASE R # {}
    <2>1. R \ {Some(R)} = {} /\ Some(R) \in R
      BY <1>1, <1>9 DEF Some
    <2>2. of[{}] = Tally(n)
      BY <1>7
    <2>3. of[R] = Plus(Tally(n), p.counts[Some(R)])
      BY <1>7, <1>9, <2>1, <2>2
    <2>4. p.counts[Some(R)] \in Nat
      BY <1>2, <2>1
    <2> QED
      BY <1>3, <1>4, <1>9, <2>3, <2>4, TallyFacts DEF of
  <1> QED
    BY <1>8, <1>9

\* The count of a point in some profiles is the tally of what they hit.
LEMMA CountsTally ==
  ASSUME NEW maps, NEW P, IsFiniteSet(P), NEW pid,
         \A p \in P : \A i, j \in Ran(p, pid, SlotsFor(maps, p)) : i = j,
         \A p \in P : \A i \in Ran(p, pid, SlotsFor(maps, p)) : p.counts[i] \in Nat
  PROVE  CountsOver(maps, P, pid) = Tally(SumFunctionOnSet([p \in P |-> Hits(maps, p, pid)], P))
  <1> DEFINE H == [p \in P |-> Hits(maps, p, pid)]
             f == [s \in SUBSET P |-> Tally(SumFunctionOnSet(H, s))]
             of == CHOOSE h : Tallies(h, maps, pid, P)
  <1>1. \A p \in P, n \in Nat : OneMore(maps, p, Tally(n), pid) = Tally(n + H[p])
    BY OneMoreAdds
  <1>2. \A p \in P : H[p] \in Nat
    <2>1. 0 \in Nat
      OBVIOUS
    <2> QED
      BY <2>1, OneMoreAdds
  <1> HIDE DEF H
  <1>3. \A s \in SUBSET P : IsFiniteSet(s) /\ SumFunctionOnSet(H, s) \in Nat
    <2> SUFFICES ASSUME NEW s \in SUBSET P
                 PROVE  IsFiniteSet(s) /\ SumFunctionOnSet(H, s) \in Nat
      OBVIOUS
    <2>1. IsFiniteSet(s) /\ \A x \in s : H[x] \in Nat
      BY <1>2, FS_Subset
    <2> QED
      BY <2>1, SumOfNaturals
  <1>4. ASSUME NEW s \in SUBSET P, s # {}
        PROVE  f[s] = OneMore(maps, Some(s), f[s \ {Some(s)}], pid)
    <2> DEFINE a == Some(s)  u == s \ {a}
    <2>1. a \in s /\ u \in SUBSET P
      BY <1>4, OneTaken
    <2>2. \A x \in s : H[x] \in Int
      BY <1>2
    <2>3. SumFunctionOnSet(H, s) = H[a] + SumFunctionOnSet(H, u)
      BY <1>3, <2>1, <2>2, SumTake
    <2>4. SumFunctionOnSet(H, u) \in Nat /\ H[a] \in Nat /\ a \in P
      BY <1>2, <1>3, <2>1
    <2> HIDE DEF a, u
    <2>5. OneMore(maps, a, Tally(SumFunctionOnSet(H, u)), pid) = Tally(SumFunctionOnSet(H, u) + H[a])
      BY <1>1, <2>4
    <2>6. SumFunctionOnSet(H, s) = SumFunctionOnSet(H, u) + H[a]
      BY <2>3, <2>4
    <2>7. f[s] = Tally(SumFunctionOnSet(H, s)) /\ f[u] = Tally(SumFunctionOnSet(H, u))
      BY <2>1
    <2>8. f[s] = OneMore(maps, a, f[u], pid)
      <3> HIDE DEF f
      <3> QED
        BY <2>5, <2>6, <2>7
    <2> QED
      BY <2>8 DEF a, u
  <1>5. f[{}] = Zero
    BY SumSmall, TallyFacts
  <1>6. Tallies(f, maps, pid, P)
    <2>1. f = [s \in SUBSET P |-> f[s]]
      OBVIOUS
    <2> HIDE DEF f
    <2>2. \A s \in SUBSET P : f[s] = IF s = {} THEN Zero ELSE OneMore(maps, Some(s), f[s \ {Some(s)}], pid)
      BY <1>4, <1>5
    <2>3. [s \in SUBSET P |-> f[s]]
            = [s \in SUBSET P |-> IF s = {} THEN Zero ELSE OneMore(maps, Some(s), f[s \ {Some(s)}], pid)]
      BY <2>2
    <2> QED
      BY <2>1, <2>3 DEF Tallies
  <1>7. Tallies(of, maps, pid, P)
    <2> HIDE DEF f
    <2> QED
      BY <1>6
  <1>8. CountsOver(maps, P, pid) = of[P]
    BY CountsChosen
  <1> HIDE DEF of
  <1>9. \A s \in SUBSET P : of[s] = IF s = {} THEN Zero ELSE OneMore(maps, Some(s), of[s \ {Some(s)}], pid)
    BY <1>7 DEF Tallies
  <1>10. of[P] = f[P]
    <2> DEFINE Bad == {s \in SUBSET P : of[s] # f[s]}
    <2>1. SUFFICES ASSUME Bad # {} PROVE FALSE
      OBVIOUS
    <2> HIDE DEF f
    <2>2. PICK T \in Bad : \A U \in Bad : U \subseteq T => U = T
      <3>1. Bad \in SUBSET SUBSET P
        OBVIOUS
      <3> HIDE DEF Bad
      <3> QED
        BY <2>1, <3>1, MinimalSet
    <2>3. T \in SUBSET P /\ of[T] # f[T]
      BY <2>2
    <2>4. T # {}
      BY <1>5, <1>9, <2>3
    <2>5. T \ {Some(T)} \notin Bad /\ T \ {Some(T)} \in SUBSET P
      BY <2>2, <2>4, OneTaken
    <2>6. of[T \ {Some(T)}] = f[T \ {Some(T)}]
      BY <2>5
    <2> HIDE DEF Bad
    <2> QED
      BY <1>4, <1>9, <2>3, <2>4, <2>6
  <1> QED
    BY <1>8, <1>10 DEF H

-----------------------------------------------------------------------------
(* The counts of a context, as the semantic model records them.            *)

\* Distinct counters of a map count distinct points of it.
LEMMA SlotsInjective ==
  ASSUME NEW m, ValidMap(m)
  PROVE  /\ DOMAIN Slots(m) = 1 .. m.program_counter_count /\ m.program_counter_count \in Nat
         /\ \A i, j \in DOMAIN Slots(m) : Slots(m)[i] = Slots(m)[j] => i = j
  <1>1. m.program_counter_count \in Nat
    BY DEF ValidMap, MapDocument
  <1>2. /\ \A p, q \in m.points : p.point_id = q.point_id => p = q
        /\ {p.counter_index : p \in CountedPoints(m)} = 0 .. m.program_counter_count - 1
    BY DEF ValidMap, PointsOK
  <1> DEFINE at(i) == CHOOSE p \in m.points : p.counter_index = i - 1
  <1>3. DOMAIN Slots(m) = 1 .. m.program_counter_count /\ \A i \in DOMAIN Slots(m) : Slots(m)[i] = at(i).point_id
    BY DEF Slots
  <1>4. ASSUME NEW i \in DOMAIN Slots(m) PROVE at(i) \in m.points /\ at(i).counter_index = i - 1
    <2>1. i - 1 \in 0 .. m.program_counter_count - 1 /\ i \in Nat
      BY <1>1, <1>3
    <2>2. PICK p \in CountedPoints(m) : p.counter_index = i - 1
      BY <1>2, <2>1
    <2> QED
      BY <2>2 DEF CountedPoints
  <1> HIDE DEF at
  <1>5. ASSUME NEW i \in DOMAIN Slots(m), NEW j \in DOMAIN Slots(m), Slots(m)[i] = Slots(m)[j] PROVE i = j
    <2>1. at(i) = at(j)
      BY <1>2, <1>3, <1>4, <1>5
    <2>2. i - 1 = j - 1 /\ i \in Int /\ j \in Int
      BY <1>1, <1>3, <1>4, <2>1
    <2> QED
      BY <2>2
  <1> QED
    BY <1>1, <1>3, <1>5

\* What is asked of the raw inputs of complete evidence: its maps are valid, and its
\* files are accepted profiles of them, each of an identity of its own.
GoodFiles(command) ==
    /\ GoodMaps(RawMaps(command)) /\ IsFiniteSet(RawFiles(command))
    /\ \A f \in RawFiles(command) : /\ f \in Raw!File /\ Raw!PairsOK(f, Null)
                                    /\ \E m \in RawMaps(command) : m.map_id = f.map_id
    /\ \A f, g \in RawFiles(command) : f.profile_id = g.profile_id => f = g

\* One file's hits of a point, from the file and from what is decoded of it.
LEMMA FileHits ==
  ASSUME NEW command, GoodFiles(command), NEW f \in RawFiles(command), NEW pid
  PROVE  LET maps == RawMaps(command)  p == Raw!Decoded(f)  R == Ran(p, pid, SlotsFor(maps, p)) IN
         /\ \A i, j \in R : i = j
         /\ \A i \in R : p.counts[i] \in Nat
         /\ Hits(maps, p, pid) = RawHits(command, f, pid) /\ RawHits(command, f, pid) \in Nat
         /\ RawHits(command, f, pid) > 0 => \E k \in RawPairs(command, f, pid) : f.pairs[k].count > 0
  <1> DEFINE maps  == RawMaps(command)
             p     == Raw!Decoded(f)
             slots == SlotsFor(maps, p)
             R     == Ran(p, pid, slots)
             K     == RawPairs(command, f, pid)
             m     == CHOOSE x \in maps : x.map_id = f.map_id
             g     == [k \in DOMAIN f.pairs |-> f.pairs[k].count]
  <1>1. p.map_id = f.map_id
    BY DEF Raw!Decoded
  <1>2. slots = Slots(m)
    <2> HIDE DEF p
    <2> QED
      BY <1>1 DEF SlotsFor, p
  <1>3. m \in maps /\ ValidMap(m)
    BY DEF GoodFiles, GoodMaps
  <1>4. \A i, j \in DOMAIN slots : slots[i] = slots[j] => i = j
    <2> HIDE DEF m, slots
    <2> QED
      BY <1>2, <1>3, SlotsInjective
  <1>5. /\ DOMAIN p.counts = {f.pairs[k].index : k \in DOMAIN f.pairs}
        /\ \A k \in DOMAIN f.pairs : /\ p.counts[f.pairs[k].index] = f.pairs[k].count
                                     /\ f.pairs[k].index \in Nat /\ f.pairs[k].count \in 1 .. MaxCount
        /\ \A k, l \in DOMAIN f.pairs : f.pairs[k].index = f.pairs[l].index => k = l
        /\ IsFiniteSet(DOMAIN f.pairs)
    <2>1. f \in Raw!File /\ Raw!PairsOK(f, Null)
      BY DEF GoodFiles
    <2> QED
      BY <2>1, FileCounts
  <1>6. K = {k \in DOMAIN f.pairs : f.pairs[k].index + 1 \in DOMAIN slots /\ slots[f.pairs[k].index + 1] = pid}
    BY <1>2 DEF RawPairs
  <1>7. R = {i \in DOMAIN p.counts : i + 1 \in DOMAIN slots /\ slots[i + 1] = pid}
    BY DEF Ran
  <1>8. Hits(maps, p, pid) = IF R = {} THEN 0 ELSE p.counts[Some(R)]
    BY DEF Hits
  <1>9. RawHits(command, f, pid) = SumFunctionOnSet(g, K)
    BY DEF RawHits
  <1>10. \A k \in DOMAIN f.pairs : g[k] = f.pairs[k].count
    OBVIOUS
  <1> HIDE DEF p, slots, R, K, m, g
  <1>11. R = {f.pairs[k].index : k \in K}
    BY <1>5, <1>6, <1>7
  <1>12. \A k, l \in K : k = l
    <2> SUFFICES ASSUME NEW k \in K, NEW l \in K PROVE k = l
      OBVIOUS
    <2>1. f.pairs[k].index + 1 = f.pairs[l].index + 1 /\ k \in DOMAIN f.pairs /\ l \in DOMAIN f.pairs
      BY <1>4, <1>6
    <2> QED
      BY <1>5, <2>1
  <1>13. \A i, j \in R : i = j
    BY <1>11, <1>12
  <1>14. \A k \in K : /\ k \in DOMAIN f.pairs /\ p.counts[f.pairs[k].index] = g[k]
                      /\ g[k] \in Nat /\ g[k] = f.pairs[k].count
    BY <1>5, <1>6, <1>10, MaxCountAssumption
  <1>15. \A i \in R : p.counts[i] \in Nat
    BY <1>11, <1>14
  <1>16. Hits(maps, p, pid) = SumFunctionOnSet(g, K) /\ SumFunctionOnSet(g, K) \in Nat
    <2>1. CASE K = {}
      <3>1. R = {}
        BY <1>11, <2>1
      <3>2. SumFunctionOnSet(g, {}) = 0
        BY SumSmall
      <3> QED
        BY <1>8, <2>1, <3>1, <3>2
    <2>2. CASE K # {}
      <3>1. PICK k \in K : TRUE
        BY <2>2
      <3>2. K = {k}
        BY <1>12
      <3>3. SumFunctionOnSet(g, {k}) = g[k]
        <4>1. g[k] \in Int
          BY <1>14
        <4> QED
          BY <4>1, SumSmall
      <3>4. R # {} /\ Some(R) = f.pairs[k].index
        BY <1>11, <3>2 DEF Some
      <3> QED
        BY <1>8, <1>14, <3>2, <3>3, <3>4
    <2> QED
      BY <2>1, <2>2
  <1>17. SumFunctionOnSet(g, K) > 0 => \E k \in K : f.pairs[k].count > 0
    <2> SUFFICES ASSUME SumFunctionOnSet(g, K) # 0 PROVE \E k \in K : f.pairs[k].count > 0
      BY <1>16
    <2>1. IsFiniteSet(K)
      BY <1>5, <1>6, FS_Subset
    <2>2. \E k \in K : g[k] > 0
      BY <1>14, <2>1, SumPositive
    <2> QED
      BY <1>14, <2>2
  <1> QED
    BY <1>9, <1>13, <1>15, <1>16, <1>17 DEF p, slots, R, K

\* Distinct files are decoded to distinct profiles.
LEMMA DecodedApart ==
  ASSUME NEW command, GoodFiles(command), NEW f \in RawFiles(command), NEW g \in RawFiles(command),
         Raw!Decoded(f) = Raw!Decoded(g)
  PROVE  f = g
  <1>1. Raw!Decoded(f).profile_id = f.profile_id /\ Raw!Decoded(g).profile_id = g.profile_id
    BY DEF Raw!Decoded
  <1> QED
    BY <1>1 DEF GoodFiles

\* The count of a point in the profiles of a context is the tally of the raw hits.
LEMMA ContextTally ==
  ASSUME NEW command, GoodFiles(command), NEW c, NEW pid
  PROVE  /\ CountsOver(RawMaps(command), {p \in {Raw!Decoded(f) : f \in RawFiles(command)} : p.context = c}, pid)
               = Tally(RawIn(command, c, pid))
         /\ RawIn(command, c, pid) \in Nat
         /\ RawIn(command, c, pid) > 0 => RawHit(command, pid)
  <1> DEFINE maps == RawMaps(command)
             F    == RawFiles(command)
             d    == [f \in F |-> Raw!Decoded(f)]
             Fc   == {f \in F : ContextOf(f) = c}
             Q    == {d[f] : f \in Fc}
             h    == [f \in F |-> RawHits(command, f, pid)]
             H    == [p \in Q |-> Hits(maps, p, pid)]
  <1>1. \A f \in F : d[f] = Raw!Decoded(f) /\ h[f] = RawHits(command, f, pid)
    OBVIOUS
  <1>2. \A f \in F : d[f].context = ContextOf(f)
    BY DEF Raw!Decoded, ContextOf
  <1>3. {p \in {Raw!Decoded(f) : f \in F} : p.context = c} = Q
    <2> HIDE DEF d
    <2> QED
      BY <1>1, <1>2
  <1>4. RawIn(command, c, pid) = SumFunctionOnSet(h, Fc)
    BY DEF RawIn, RawSum
  <1>5. \A f \in F : /\ \A i, j \in Ran(d[f], pid, SlotsFor(maps, d[f])) : i = j
                     /\ \A i \in Ran(d[f], pid, SlotsFor(maps, d[f])) : d[f].counts[i] \in Nat
                     /\ Hits(maps, d[f], pid) = h[f] /\ h[f] \in Nat
                     /\ h[f] > 0 => RawHit(command, pid)
    <2> HIDE DEF d, h
    <2> SUFFICES ASSUME NEW f \in F
                 PROVE  /\ \A i, j \in Ran(d[f], pid, SlotsFor(maps, d[f])) : i = j
                        /\ \A i \in Ran(d[f], pid, SlotsFor(maps, d[f])) : d[f].counts[i] \in Nat
                        /\ Hits(maps, d[f], pid) = h[f] /\ h[f] \in Nat
                        /\ h[f] > 0 => RawHit(command, pid)
      OBVIOUS
    <2>1. d[f] = Raw!Decoded(f) /\ h[f] = RawHits(command, f, pid)
      BY <1>1
    <2> QED
      BY <2>1, FileHits DEF RawHit
  <1>6. \A f, g \in F : d[f] = d[g] => f = g
    <2> HIDE DEF d
    <2> QED
      BY <1>1, DecodedApart
  <1>7. IsFiniteSet(F) /\ Fc \subseteq F /\ IsFiniteSet(Fc)
    BY FS_Subset DEF GoodFiles
  <1>8. IsFiniteSet(Q)
    <2> DEFINE e == [f \in Fc |-> d[f]]
    <2>1. DOMAIN e = Fc /\ e = [f \in Fc |-> e[f]] /\ \A f \in Fc : e[f] = d[f]
      OBVIOUS
    <2> HIDE DEF d
    <2>2. Q = {e[f] : f \in Fc}
      BY <2>1
    <2> HIDE DEF e, Fc
    <2>3. IsFiniteSet({e[f] : f \in Fc})
      BY <1>7, <2>1, FiniteImage
    <2> QED
      BY <2>2, <2>3
  <1>9. \A f \in Fc : H[d[f]] = h[f]
    <2>1. \A f \in Fc : H[d[f]] = Hits(maps, d[f], pid)
      <3> HIDE DEF d, h
      <3> QED
        OBVIOUS
    <2> HIDE DEF H, d, h
    <2> QED
      BY <1>5, <1>7, <2>1
  <1> HIDE DEF d, h
  <1>10. CountsOver(maps, Q, pid) = Tally(SumFunctionOnSet([p \in Q |-> Hits(maps, p, pid)], Q))
    <2>1. \A p \in Q : /\ \A i, j \in Ran(p, pid, SlotsFor(maps, p)) : i = j
                       /\ \A i \in Ran(p, pid, SlotsFor(maps, p)) : p.counts[i] \in Nat
      BY <1>5
    <2> HIDE DEF Q, H
    <2> QED
      BY <1>8, <2>1, CountsTally
  <1>11. SumFunctionOnSet(H, Q) = SumFunctionOnSet(h, Fc)
    <2>1. \A a, b \in Fc : d[a] = d[b] => a = b
      BY <1>6
    <2>2. \A a \in Fc : h[a] \in Int /\ h[a] = H[d[a]]
      BY <1>5, <1>9
    <2> HIDE DEF H, Fc
    <2> QED
      BY <1>7, <2>1, <2>2, SumReindex
  <1>12. \A f \in Fc : h[f] \in Nat
    BY <1>5
  <1>13. SumFunctionOnSet(h, Fc) \in Nat
    <2> HIDE DEF Fc
    <2> QED
      BY <1>7, <1>12, SumOfNaturals
  <1>14. SumFunctionOnSet(h, Fc) > 0 => RawHit(command, pid)
    <2> SUFFICES ASSUME SumFunctionOnSet(h, Fc) # 0 PROVE RawHit(command, pid)
      BY <1>13
    <2>1. \E f \in Fc : h[f] > 0
      <3> HIDE DEF Fc
      <3> QED
        BY <1>7, <1>12, SumPositive
    <2> QED
      BY <1>5, <1>7, <2>1
  <1>15. CountsOver(maps, Q, pid) = Tally(RawIn(command, c, pid))
    <2> HIDE DEF Q, Fc
    <2>1. CountsOver(maps, Q, pid) = Tally(SumFunctionOnSet(H, Q))
      BY <1>10
    <2> HIDE DEF H
    <2> QED
      BY <1>4, <1>11, <2>1
  <1>16. CountsOver(maps, {p \in {Raw!Decoded(f) : f \in F} : p.context = c}, pid) = Tally(RawIn(command, c, pid))
    <2> HIDE DEF Q, Fc, H, maps
    <2> QED
      BY <1>3, <1>15
  <1>17. RawIn(command, c, pid) \in Nat /\ (RawIn(command, c, pid) > 0 => RawHit(command, pid))
    <2> HIDE DEF Fc
    <2> QED
      BY <1>4, <1>13, <1>14
  <1> QED
    BY <1>16, <1>17

-----------------------------------------------------------------------------
(* The semantic model reads the raw files.                                 *)

\* A term that is a lower bound keeps the order of its counts.
LEMMA TermOrder ==
  ASSUME NEW k \in Int, NEW v \in Nat, NEW n \in Nat, v <= n, k < 0 => v = n
  PROVE  k * v \in Int /\ k * n \in Int /\ k * v <= k * n
  <1>1. CASE k < 0
    BY <1>1
  <1>2. CASE k >= 0
    BY <1>2
  <1> QED
    BY <1>1, <1>2

\* A count record is above 0 only if a context's count is.
LEMMA RecordPositive ==
  ASSUME NEW D, IsFiniteSet(D), NEW f, f = [c \in D |-> f[c]], \A c \in D : f[c].value \in Nat
  PROVE  /\ Recorded(f).value \in Nat
         /\ Recorded(f).value > 0 => \E c \in D : f[c].value > 0
  <1> DEFINE g == [c \in DOMAIN f |-> f[c].value]
             n == SumFunctionOnSet(g, D)
  <1>1. DOMAIN f = D
    OBVIOUS
  <1>2. \A c \in D : g[c] = f[c].value /\ g[c] \in Nat
    OBVIOUS
  <1>3. SumFunction(g) = n
    BY DEF SumFunction
  <1>4. Recorded(f).value = Saturated(n)
    BY <1>3 DEF Recorded, Aggregate
  <1> HIDE DEF g, n
  <1>5. n \in Nat /\ (n # 0 => \E c \in D : g[c] > 0)
    BY <1>2, SumOfNaturals, SumPositive DEF n
  <1>6. Saturated(n) \in Nat /\ (Saturated(n) > 0 => n # 0)
    BY <1>5, MaxCountAssumption DEF Saturated
  <1> QED
    BY <1>2, <1>4, <1>5, <1>6

\* A region's value in a context is above 0 only if the counts of the context, however
\* far they went beyond what a count can hold, add up to more than 0.
LEMMA RegionPositive ==
  ASSUME NEW e, IsFiniteSet(DOMAIN e), NEW n, NEW counts,
         \A p \in DOMAIN e : e[p] \in Int /\ n[p] \in Nat /\ counts[p] = Tally(n[p])
  PROVE  /\ Evaluate(e, counts).value \in Nat
            \/ Negative(e, counts)
         /\ Evaluate(e, counts).value > 0 => SumFunctionOnSet([p \in DOMAIN e |-> e[p] * n[p]], DOMAIN e) > 0
  <1> DEFINE D == DOMAIN e
             g == [p \in D |-> e[p] * counts[p].value]
             h == [p \in D |-> e[p] * n[p]]
             T == SumFunctionOnSet(g, D)
  <1>1. \A p \in D : g[p] = e[p] * counts[p].value /\ h[p] = e[p] * n[p]
    OBVIOUS
  <1>2. Total(e, counts) = T
    BY DEF Total, SumFunction
  <1>3. \A p \in D : /\ counts[p].value \in Nat /\ counts[p].value <= n[p]
                     /\ ~counts[p].inexact => counts[p].value = n[p]
    BY TallyFacts
  <1> HIDE DEF g, h
  <1>4. T \in Int
    <2>1. \A p \in D : g[p] \in Int
      BY <1>1, <1>3
    <2> QED
      BY <2>1, SumType
  <1> HIDE DEF T
  <1>5. ~Lost(e, counts) => T <= SumFunctionOnSet(h, D) /\ SumFunctionOnSet(h, D) \in Int
    <2> SUFFICES ASSUME ~Lost(e, counts) PROVE T <= SumFunctionOnSet(h, D) /\ SumFunctionOnSet(h, D) \in Int
      OBVIOUS
    <2>1. ASSUME NEW p \in D PROVE g[p] \in Int /\ h[p] \in Int /\ g[p] <= h[p]
      <3>1. e[p] < 0 => ~counts[p].inexact
        BY DEF Lost
      <3> DEFINE v == counts[p].value  k == e[p]  m == n[p]
      <3>2. v \in Nat /\ v <= m /\ (k < 0 => v = m) /\ k \in Int /\ m \in Nat
        BY <1>3, <3>1
      <3>3. k * v \in Int /\ k * m \in Int /\ k * v <= k * m
        <4> HIDE DEF v, k, m
        <4> QED
          BY <3>2, TermOrder
      <3> QED
        BY <1>1, <3>3
    <2>2. T <= SumFunctionOnSet(h, D)
      BY <2>1, SumCompare DEF T
    <2> QED
      BY <2>1, <2>2, SumType
  <1>6. Lost(e, counts) => Evaluate(e, counts).value = 0
    BY DEF Evaluate
  <1>7. ~Lost(e, counts) => Evaluate(e, counts).value = Saturated(IF Hot(e, counts) /\ T < 0 THEN 0 ELSE T)
    BY <1>2 DEF Evaluate
  <1>8. \A k \in Int : (Saturated(k) > 0 => k > 0) /\ (k >= 0 => Saturated(k) \in Nat)
    BY MaxCountAssumption DEF Saturated
  <1>9. ~Negative(e, counts) => Hot(e, counts) \/ T >= 0
    BY <1>2, <1>4 DEF Negative
  <1>10. Evaluate(e, counts).value > 0 => SumFunctionOnSet(h, D) > 0
    <2>1. CASE Lost(e, counts)
      BY <1>6, <2>1
    <2>2. CASE ~Lost(e, counts)
      <3> DEFINE k == IF Hot(e, counts) /\ T < 0 THEN 0 ELSE T
      <3>1. k \in Int /\ (k > 0 => T > 0)
        BY <1>4
      <3> HIDE DEF k
      <3>2. Evaluate(e, counts).value = Saturated(k)
        BY <1>7, <2>2 DEF k
      <3> QED
        BY <1>4, <1>5, <1>8, <2>2, <3>1, <3>2
    <2> QED
      BY <2>1, <2>2
  <1>11. ~Negative(e, counts) => Evaluate(e, counts).value \in Nat
    <2> SUFFICES ASSUME ~Negative(e, counts) PROVE Evaluate(e, counts).value \in Nat
      OBVIOUS
    <2>1. CASE Lost(e, counts)
      BY <1>6, <2>1
    <2>2. CASE ~Lost(e, counts)
      <3> DEFINE k == IF Hot(e, counts) /\ T < 0 THEN 0 ELSE T
      <3>1. k \in Int /\ k >= 0
        BY <1>4, <1>9
      <3> HIDE DEF k
      <3>2. Evaluate(e, counts).value = Saturated(k)
        BY <1>7, <2>2 DEF k
      <3> QED
        BY <1>8, <3>1, <3>2
    <2> QED
      BY <2>1, <2>2
  <1> QED
    BY <1>10, <1>11 DEF h

\* The terms of a region of the maps are finitely many, with whole coefficients, on points
\* of the maps.
LEMMA ExpressionFacts ==
  ASSUME NEW maps, GoodMaps(maps), NEW t, IsUnion(maps, t), NEW i \in DOMAIN t.regions
  PROVE  LET e == ExprOf(t.regions[i]) IN
         /\ IsFiniteSet(DOMAIN e) /\ \A pid \in DOMAIN e : e[pid] \in Int /\ pid \in {p.point_id : p \in t.points}
  <1> DEFINE x == Records(maps, t)
             e == ExprOf(t.regions[i])
  <1>1. PlacesUnited(maps, t) /\ IsTable(t.regions, x.regions) /\ t.points = x.points
    BY DEF IsUnion
  <1>2. t.regions[i] \in x.regions
    BY <1>1 DEF IsTable
  <1>3. PICK m \in maps : \E r \in SeqRange(m.regions) : t.regions[i] = Owned(r, m, t)
    BY <1>2 DEF Records
  <1>4. PICK r \in SeqRange(m.regions) : t.regions[i] = Owned(r, m, t)
    BY <1>3
  <1>5. ValidMap(m) /\ FiniteMap(m)
    BY DEF GoodMaps
  <1>6. t.regions[i].counter_expression = r.counter_expression
    BY <1>1, <1>4, <1>5, RegionMoves
  <1> DEFINE terms == r.counter_expression
             E == [t0 \in terms |-> t0.point_id]
             coefficient(pid) == (CHOOSE t0 \in terms : t0.point_id = pid).coefficient
  <1>7. r \in MapRegion /\ RegionOK(r, m) /\ IsFiniteSet(terms)
    BY <1>5, MapRefers DEF ValidMap, RegionsOK, FiniteMap, SeqRange
  <1>8. \A t0 \in terms : t0 \in Term /\ \E p \in m.points : p.point_id = t0.point_id
    <2>1. \A t0 \in terms : t0.point_id \in DOMAIN PointsBy(m.points)
      BY <1>7 DEF RegionOK
    <2>2. DOMAIN PointsBy(m.points) = {p.point_id : p \in m.points}
      BY DEF PointsBy
    <2>3. terms \in SUBSET Term
      BY <1>7 DEF MapRegion, CounterExpression
    <2> QED
      BY <2>1, <2>2, <2>3
  <1>9. DOMAIN e = {t0.point_id : t0 \in terms} /\ \A pid \in DOMAIN e : e[pid] = coefficient(pid)
    BY <1>6 DEF ExprOf, TermIDs
  <1>10. IsFiniteSet(DOMAIN e)
    <2>1. DOMAIN E = terms /\ E = [t0 \in terms |-> E[t0]]
      OBVIOUS
    <2>2. {t0.point_id : t0 \in terms} = {E[t0] : t0 \in terms}
      OBVIOUS
    <2> HIDE DEF E, e, terms
    <2>3. IsFiniteSet({E[t0] : t0 \in terms})
      BY <1>7, <2>1, FiniteImage
    <2> QED
      BY <1>9, <2>2, <2>3
  <1>11. ASSUME NEW pid \in DOMAIN e PROVE e[pid] \in Int /\ pid \in {p.point_id : p \in t.points}
    <2> HIDE DEF e, terms
    <2>1. PICK t0 \in terms : t0.point_id = pid
      BY <1>9
    <2>2. coefficient(pid) \in Int
      <3>1. (CHOOSE t1 \in terms : t1.point_id = pid) \in terms
        BY <2>1
      <3> QED
        BY <1>8, <3>1 DEF Term
    <2>3. PICK p \in m.points : p.point_id = pid
      BY <1>8, <2>1
    <2>4. CountlessPoint(p, m, t).point_id = pid
      BY <1>1, <1>5, <2>3, PointMoves
    <2>5. CountlessPoint(p, m, t) \in t.points
      BY <1>1 DEF Records
    <2> QED
      BY <1>9, <2>2, <2>4, <2>5
  <1> QED
    BY <1>10, <1>11

\* The semantic model s of the tables t tells of no hit that the raw inputs do not have:
\* record is the count record of each point, value that of each region.
Reads(command, t, s, record, value) ==
    /\ s.sources = t.sources /\ s.entities = t.entities /\ s.exclusions = t.exclusions
    /\ s.points = {CountedPoint(p, record) : p \in t.points}
    /\ s.contracts = [i \in DOMAIN t.contracts |-> CountedContract(t.contracts[i], record)]
    /\ s.regions = [i \in DOMAIN t.regions |-> CountedRegion(t.regions[i], value[i])]
    /\ s.lines = Lines(s.regions)
    /\ \A p \in t.points : /\ record[p.point_id].value \in Nat
                           /\ record[p.point_id].value > 0 => RawHit(command, p.point_id)
    /\ \A i \in DOMAIN t.regions : /\ value[i].value \in Nat
                                   /\ value[i].value > 0 => RawRan(command, ExprOf(t.regions[i]))

\* Only a context of a file has hits.
LEMMA NoHitsElsewhere ==
  ASSUME NEW command, NEW c, NEW pid, RawIn(command, c, pid) # 0
  PROVE  c \in {ContextOf(f) : f \in RawFiles(command)}
  <1> DEFINE Fc == {f \in RawFiles(command) : ContextOf(f) = c}
             h == [f \in RawFiles(command) |-> RawHits(command, f, pid)]
  <1>1. RawIn(command, c, pid) = SumFunctionOnSet(h, Fc)
    BY DEF RawIn, RawSum
  <1>2. ASSUME Fc = {} PROVE FALSE
    <2> HIDE DEF h, Fc
    <2> QED
      BY <1>1, <1>2, SumSmall
  <1> QED
    BY <1>2

\* The counts and outcomes of the semantic model are those of the raw files.
LEMMA SemanticReads ==
  ASSUME NEW command, GoodFiles(command), NEW t, IsUnion(RawMaps(command), t), NEW policy, NEW s,
         s = SemanticOf(t, RawMaps(command), {Raw!Decoded(f) : f \in RawFiles(command)}, {}, TRUE, policy),
         ~IsRefused(s)
  PROVE  \E record, value : Reads(command, t, s, record, value)
  <1> DEFINE maps     == RawMaps(command)
             profiles == {Raw!Decoded(f) : f \in RawFiles(command)}
             mapOf(p) == Slots(CHOOSE m \in maps : m.map_id = p.map_id)
             contexts == ContextOrder({p.context : p \in profiles} \cup {})
             D        == DOMAIN contexts
             ids      == {p.point_id : p \in t.points}
             mine(c)  == {p \in profiles : p.context = contexts[c]}
             counts   == [c \in D |-> [pid \in ids |-> CountIn(mine(c), pid, mapOf)]]
             record   == [pid \in ids |-> Recorded([c \in D |-> counts[c][pid]])]
             value    == [i \in DOMAIN t.regions |->
                            Recorded([c \in D |-> Evaluate(ExprOf(t.regions[i]), counts[c])])]
  <1>1. /\ s.sources = t.sources /\ s.entities = t.entities /\ s.exclusions = t.exclusions
        /\ s.points = {CountedPoint(p, record) : p \in t.points}
        /\ s.contracts = [i \in DOMAIN t.contracts |-> CountedContract(t.contracts[i], record)]
        /\ s.regions = [i \in DOMAIN t.regions |->
                          CountedRegion(t.regions[i], Recorded([c \in D |-> Evaluate(ExprOf(t.regions[i]), counts[c])]))]
        /\ s.lines = Lines(s.regions)
        /\ \A i \in DOMAIN t.regions, c \in D : ~Negative(ExprOf(t.regions[i]), counts[c])
    BY DEF SemanticOf, IsRefused, Refused
  <1>2. s.regions = [i \in DOMAIN t.regions |-> CountedRegion(t.regions[i], value[i])]
    <2> HIDE DEF counts
    <2> QED
      BY <1>1
  <1>3. GoodMaps(maps) /\ IsFiniteSet(RawFiles(command))
    BY DEF GoodFiles
  <1>4. IsFiniteSet(D)
    <2> DEFINE F == RawFiles(command)
               S == {p.context : p \in profiles} \cup {}
               f == [x \in F |-> Raw!Decoded(x).context]
    <2>1. S = {f[x] : x \in F} /\ DOMAIN f = F /\ f = [x \in F |-> f[x]]
      OBVIOUS
    <2>2. D = 1 .. Cardinality(S)
      BY DEF ContextOrder, SortedBy
    <2> HIDE DEF f, S, F
    <2>3. IsFiniteSet(S)
      BY <1>3, <2>1, FiniteImage DEF F
    <2>4. Cardinality(S) \in Nat
      BY <2>3, FS_CardinalityType
    <2> QED
      BY <2>2, <2>4, FS_Interval
  <1> HIDE DEF contexts
  <1>5. ASSUME NEW c \in D, NEW pid \in ids
        PROVE  /\ counts[c][pid] = Tally(RawIn(command, contexts[c], pid))
               /\ RawIn(command, contexts[c], pid) \in Nat
               /\ RawIn(command, contexts[c], pid) > 0 => RawHit(command, pid)
    <2> DEFINE k == contexts[c]
    <2>1. counts[c][pid] = CountIn(mine(c), pid, mapOf)
      OBVIOUS
    <2>2. CountIn(mine(c), pid, mapOf) = CountsOver(maps, mine(c), pid)
      BY DEF CountsOver, CountIn, SlotsFor
    <2>3. /\ CountsOver(maps, {p \in profiles : p.context = k}, pid) = Tally(RawIn(command, k, pid))
          /\ RawIn(command, k, pid) \in Nat
          /\ RawIn(command, k, pid) > 0 => RawHit(command, pid)
      <3> HIDE DEF k
      <3> QED
        BY ContextTally
    <2> HIDE DEF counts, maps, profiles
    <2> QED
      BY <2>1, <2>2, <2>3
  <1> HIDE DEF counts, D
  <1>6. ASSUME NEW p \in t.points
        PROVE  /\ record[p.point_id].value \in Nat
               /\ record[p.point_id].value > 0 => RawHit(command, p.point_id)
    <2> DEFINE pid == p.point_id
               f == [c \in D |-> counts[c][pid]]
    <2>1. record[pid] = Recorded(f) /\ pid \in ids /\ f = [c \in D |-> f[c]] /\ \A c \in D : f[c] = counts[c][pid]
      OBVIOUS
    <2> HIDE DEF f, record, pid, ids
    <2>2. \A c \in D : f[c].value \in Nat /\ (f[c].value > 0 => RawHit(command, pid))
      <3> SUFFICES ASSUME NEW c \in D PROVE f[c].value \in Nat /\ (f[c].value > 0 => RawHit(command, pid))
        OBVIOUS
      <3> DEFINE n == RawIn(command, contexts[c], pid)
      <3>1. f[c] = Tally(n) /\ n \in Nat /\ (n > 0 => RawHit(command, pid))
        BY <1>5, <2>1
      <3> HIDE DEF n
      <3> QED
        BY <3>1, TallyFacts
    <2>3. Recorded(f).value \in Nat /\ (Recorded(f).value > 0 => \E c \in D : f[c].value > 0)
      BY <1>4, <2>1, <2>2, RecordPositive
    <2>4. /\ record[pid].value \in Nat
          /\ record[pid].value > 0 => RawHit(command, pid)
      BY <2>1, <2>2, <2>3
    <2> QED
      BY <2>4 DEF pid
  <1>7. ASSUME NEW i \in DOMAIN t.regions
        PROVE  /\ value[i].value \in Nat
               /\ value[i].value > 0 => RawRan(command, ExprOf(t.regions[i]))
    <2> DEFINE e == ExprOf(t.regions[i])
               f == [c \in D |-> Evaluate(e, counts[c])]
    <2>1. value[i] = Recorded(f) /\ f = [c \in D |-> f[c]] /\ \A c \in D : f[c] = Evaluate(e, counts[c])
      OBVIOUS
    <2>2. IsFiniteSet(DOMAIN e) /\ \A pid \in DOMAIN e : e[pid] \in Int /\ pid \in ids
      BY <1>3, ExpressionFacts
    <2>3. \A c \in D : ~Negative(e, counts[c])
      BY <1>1
    <2> HIDE DEF f, value, e, ids
    <2>4. ASSUME NEW c \in D PROVE f[c].value \in Nat /\ (f[c].value > 0 => RawRan(command, e))
      <3> DEFINE k == contexts[c]
                 n == [pid \in DOMAIN e |-> RawIn(command, k, pid)]
                 g == [pid \in DOMAIN e |-> e[pid] * n[pid]]
                 h == [pid \in DOMAIN e |-> e[pid] * RawIn(command, k, pid)]
                 q == counts[c]
      <3>1. \A pid \in DOMAIN e : n[pid] = RawIn(command, k, pid) /\ g[pid] = e[pid] * n[pid]
        OBVIOUS
      <3>2. g = h
        OBVIOUS
      <3> HIDE DEF n, k
      <3>3. \A pid \in DOMAIN e : e[pid] \in Int /\ n[pid] \in Nat /\ q[pid] = Tally(n[pid])
        BY <1>5, <2>2, <3>1 DEF k
      <3> HIDE DEF q
      <3>4. /\ Evaluate(e, q).value \in Nat \/ Negative(e, q)
            /\ Evaluate(e, q).value > 0 => SumFunctionOnSet(g, DOMAIN e) > 0
        BY <2>2, <3>3, RegionPositive
      <3> HIDE DEF g, h
      <3>5. f[c].value \in Nat
        BY <2>1, <2>3, <3>4 DEF q
      <3>6. ASSUME f[c].value > 0 PROVE RawRan(command, e)
        <4>1. SumFunctionOnSet(g, DOMAIN e) > 0
          BY <2>1, <3>4, <3>6 DEF q
        <4>2. PICK pid \in DOMAIN e : RawIn(command, k, pid) # 0
          <5> SUFFICES ASSUME \A pid \in DOMAIN e : RawIn(command, k, pid) = 0 PROVE FALSE
            OBVIOUS
          <5>1. \A pid \in DOMAIN e : g[pid] \in Nat /\ g[pid] = 0
            BY <2>2, <3>1
          <5>2. SumFunctionOnSet(g, DOMAIN e) # 0
            BY <4>1
          <5>3. \E pid \in DOMAIN e : g[pid] > 0
            BY <2>2, <5>1, <5>2, SumPositive
          <5> QED
            BY <5>1, <5>3
        <4>3. k \in {ContextOf(x) : x \in RawFiles(command)}
          BY <4>2, NoHitsElsewhere
        <4>4. SumFunction(h) > 0
          <5>1. DOMAIN h = DOMAIN e
            BY DEF h
          <5> QED
            BY <3>2, <4>1, <5>1 DEF SumFunction
        <4> QED
          BY <4>3, <4>4 DEF RawRan, h
      <3> QED
        BY <3>5, <3>6
    <2>5. Recorded(f).value \in Nat /\ (Recorded(f).value > 0 => \E c \in D : f[c].value > 0)
      BY <1>4, <2>1, <2>4, RecordPositive
    <2>6. /\ value[i].value \in Nat
          /\ value[i].value > 0 => RawRan(command, e)
      BY <2>1, <2>4, <2>5
    <2> QED
      BY <2>6 DEF e
  <1> HIDE DEF record, value
  <1>8. Reads(command, t, s, record, value)
    BY <1>1, <1>2, <1>6, <1>7 DEF Reads
  <1> QED
    BY <1>8

-----------------------------------------------------------------------------
(* Units of the metrics: functions.                                        *)

\* What a threshold asks of a number of units, and of how many of them were covered.
Meets(t, empty, covered, total) == IF total = 0 THEN empty = "pass" ELSE covered * 10000 >= t * total

\* When the units that are measured are the raw ones, one for one, and none is covered
\* that the raw inputs do not cover, a threshold that they meet is met by the raw inputs.
LEMMA Measures ==
  ASSUME NEW A, NEW R \in SUBSET A, NEW B, NEW H \in SUBSET B, NEW f, f = [x \in A |-> f[x]],
         IsFiniteSet(A) \/ IsFiniteSet(B),
         \A x, y \in A : f[x] = f[y] => x = y, B = {f[x] : x \in A}, \A x \in R : f[x] \in H,
         NEW t \in Int, NEW empty, Meets(t, empty, Cardinality(R), Cardinality(A))
  PROVE  RawCovers(t, empty, B, H)
  <1>1. f \in Injection(A, B) /\ f \in Surjection(A, B)
    BY DEF Injection, Surjection, IsInjective
  <1>2. IsFiniteSet(A)
    BY <1>1, FS_Injection
  <1>3. IsFiniteSet(B) /\ Cardinality(B) = Cardinality(A)
    BY <1>1, <1>2, FS_Surjection
  <1>4. IsFiniteSet(H) /\ IsFiniteSet(R)
    BY <1>2, <1>3, FS_Subset
  <1> DEFINE g == [x \in R |-> f[x]]
  <1>5. g \in Injection(R, H)
    BY <1>1 DEF Injection, IsInjective
  <1>6. Cardinality(R) <= Cardinality(H)
    BY <1>4, <1>5, FS_Injection
  <1>7. Cardinality(R) \in Nat /\ Cardinality(H) \in Nat /\ Cardinality(A) \in Nat
    BY <1>2, <1>4, FS_CardinalityType
  <1>8. B = {} <=> Cardinality(A) = 0
    BY <1>3, FS_EmptySet
  <1>9. B # {} => Cardinality(R) * 10000 >= t * Cardinality(A)
    BY <1>8 DEF Meets
  <1>10. B # {} => Cardinality(H) * 10000 >= t * Cardinality(B)
    <2> SUFFICES ASSUME B # {} PROVE Cardinality(H) * 10000 >= t * Cardinality(B)
      OBVIOUS
    <2> DEFINE n == t * Cardinality(A)
    <2>1. n \in Int /\ Cardinality(R) * 10000 >= n /\ n = t * Cardinality(B)
      BY <1>3, <1>7, <1>9
    <2> HIDE DEF n
    <2> QED
      BY <1>6, <1>7, <2>1
  <1>11. B = {} => (empty = "pass")
    <2> SUFFICES ASSUME B = {} PROVE empty = "pass"
      OBVIOUS
    <2>1. Cardinality(A) = 0
      BY <1>8
    <2> QED
      BY <2>1 DEF Meets
  <1> QED
    BY <1>10, <1>11 DEF RawCovers

\* The semantic model s was made of the maps, united in t, and the files of a command,
\* and its reader accepts it.
Evident(command, t, s) ==
    /\ GoodFiles(command) /\ IsUnion(RawMaps(command), t)
    /\ \E record, value : Reads(command, t, s, record, value)
    /\ s \in SemanticDocument /\ \E bound : SemanticOK(s, bound)

\* The point q of the semantic model is the point p of the map m.
SamePoint(q, p, m, t) ==
    /\ q.point_id = p.point_id /\ q.kind = p.kind /\ q.classification = p.classification
    /\ q.source_index \in DOMAIN t.sources /\ t.sources[q.source_index] = m.sources[p.source_index]
    /\ q.entity_index = EntOf(m, p.entity_index, t)

\* The points of the semantic model are those of the maps, and those with a count were hit.
LEMMA PointsRead ==
  ASSUME NEW command, NEW t, NEW s, Evident(command, t, s)
  PROVE  /\ \A q \in s.points : \E m \in RawMaps(command) : \E p \in m.points : SamePoint(q, p, m, t)
         /\ \A m \in RawMaps(command) : \A p \in m.points : \E q \in s.points : SamePoint(q, p, m, t)
         /\ \A q \in s.points : /\ q \in Point /\ q.count.value \in Nat
                                /\ q.count.value > 0 => RawHit(command, q.point_id)
         /\ \A p, q \in s.points : p.point_id = q.point_id => p = q
         /\ IsFiniteSet(s.points)
  <1> DEFINE maps == RawMaps(command)
  <1>1. PICK record, value : Reads(command, t, s, record, value)
    BY DEF Evident
  <1>2. /\ PlacesUnited(maps, t) /\ GoodMaps(maps)
        /\ t.points = UNION {{CountlessPoint(p, m, t) : p \in m.points} : m \in maps}
        /\ t.points = Records(maps, t).points
    BY DEF Evident, GoodFiles, IsUnion, Records
  <1>3. s.points = {CountedPoint(p, record) : p \in t.points}
    BY <1>1 DEF Reads
  <1>4. ASSUME NEW m \in maps, NEW p \in m.points
        PROVE  SamePoint(CountedPoint(CountlessPoint(p, m, t), record), p, m, t)
    <2> DEFINE c == CountlessPoint(p, m, t)
    <2>1. ValidMap(m)
      BY <1>2 DEF GoodMaps
    <2>2. /\ c.classification = p.classification /\ c.kind = p.kind /\ c.point_id = p.point_id
          /\ c.source_index \in DOMAIN t.sources /\ t.sources[c.source_index] = m.sources[p.source_index]
          /\ c.entity_index = EntOf(m, p.entity_index, t)
      BY <1>2, <2>1, PointMoves
    <2> HIDE DEF c
    <2>3. SamePoint(CountedPoint(c, record), p, m, t)
      BY <2>2 DEF SamePoint, CountedPoint
    <2> QED
      BY <2>3 DEF c
  <1>5. \A q \in s.points : \E m \in maps : \E p \in m.points : SamePoint(q, p, m, t)
    <2> SUFFICES ASSUME NEW q \in s.points PROVE \E m \in maps : \E p \in m.points : SamePoint(q, p, m, t)
      OBVIOUS
    <2>1. PICK x \in t.points : q = CountedPoint(x, record)
      BY <1>3
    <2>2. PICK m \in maps : x \in {CountlessPoint(p, m, t) : p \in m.points}
      BY <1>2, <2>1
    <2>3. PICK p \in m.points : x = CountlessPoint(p, m, t)
      BY <2>2
    <2> QED
      BY <1>4, <2>1, <2>3
  <1>6. \A m \in maps : \A p \in m.points : \E q \in s.points : SamePoint(q, p, m, t)
    <2> SUFFICES ASSUME NEW m \in maps, NEW p \in m.points PROVE \E q \in s.points : SamePoint(q, p, m, t)
      OBVIOUS
    <2>1. CountlessPoint(p, m, t) \in t.points
      BY <1>2
    <2>2. CountedPoint(CountlessPoint(p, m, t), record) \in s.points
      BY <1>3, <2>1
    <2> QED
      BY <1>4, <2>2
  <1>7. \A q \in s.points : q \in Point
    BY DEF Evident, SemanticDocument
  <1>8. ASSUME NEW q \in s.points PROVE q.count.value \in Nat /\ (q.count.value > 0 => RawHit(command, q.point_id))
    <2>1. PICK x \in t.points : q = CountedPoint(x, record)
      BY <1>3
    <2>2. q.count = record[x.point_id] /\ q.point_id = x.point_id
      BY <2>1 DEF CountedPoint
    <2>3. record[x.point_id].value \in Nat /\ (record[x.point_id].value > 0 => RawHit(command, x.point_id))
      BY <1>1 DEF Reads
    <2> QED
      BY <2>2, <2>3
  <1>9. \A p, q \in s.points : p.point_id = q.point_id => p = q
    BY DEF Evident, SemanticOK
  <1>10. IsFiniteSet(s.points)
    <2> DEFINE T == t.points
               e == [p \in T |-> CountedPoint(p, record)]
    <2>1. s.points = {e[p] : p \in T} /\ DOMAIN e = T /\ e = [p \in T |-> e[p]]
      BY <1>3
    <2>2. IsFiniteSet(T)
      BY <1>2, UnionFinite
    <2> HIDE DEF e, T
    <2> QED
      BY <2>1, <2>2, FiniteImage
  <1> QED
    BY <1>5, <1>6, <1>7, <1>8, <1>9, <1>10

\* Of finitely many points one comes last.
LEMMA LastPoint ==
  ASSUME NEW S, IsFiniteSet(S), S # {}, \A p \in S : p.point_id \in Seq(Int)
  PROVE  \E p \in S : \A q \in S : ~Before(p.point_id, q.point_id)
  <1> DEFINE after(p) == {q \in S : Before(p.point_id, q.point_id)}
             B == {after(p) : p \in S}
  <1>1. B \in SUBSET SUBSET S /\ B # {}
    OBVIOUS
  <1>2. PICK T \in B : \A U \in B : U \subseteq T => U = T
    <2> HIDE DEF B
    <2> QED
      BY <1>1, MinimalSet
  <1>3. PICK p \in S : T = after(p)
    BY <1>2
  <1>4. ASSUME NEW q \in S, Before(p.point_id, q.point_id) PROVE FALSE
    <2>1. after(q) \subseteq after(p)
      <3> SUFFICES ASSUME NEW z \in S, Before(q.point_id, z.point_id) PROVE Before(p.point_id, z.point_id)
        OBVIOUS
      <3> DEFINE a == p.point_id  b == q.point_id  c == z.point_id
      <3>1. a \in Seq(Int) /\ b \in Seq(Int) /\ c \in Seq(Int) /\ Before(a, b) /\ Before(b, c)
        BY <1>4
      <3> HIDE DEF a, b, c
      <3>2. Before(a, c)
        BY <3>1, BeforeOrder
      <3> QED
        BY <3>2 DEF a, c
    <2>2. after(q) = after(p)
      BY <1>2, <1>3, <2>1
    <2>3. Before(q.point_id, q.point_id)
      BY <1>4, <2>2
    <2> DEFINE b == q.point_id
    <2>4. b \in Seq(Int) /\ Before(b, b)
      BY <2>3
    <2> HIDE DEF b
    <2> QED
      BY <2>4, BeforeOrder
  <1> QED
    BY <1>4

\* Where a function of the semantic model is, by name.
PlaceOfEntry(q, t) == <<SourceKey(t.sources[q.source_index]), Without(t.entities[q.entity_index], {"source_index"})>>

\* An entry point of the semantic model is of a function of its source.
LEMMA EntryPoint ==
  ASSUME NEW s, NEW bound, SemanticOK(s, bound), NEW q \in s.points, q.kind = "function_entry"
  PROVE  /\ q.entity_index # Null /\ q.entity_index \in DOMAIN s.entities /\ q.source_index \in DOMAIN s.sources
         /\ s.entities[q.entity_index].source_index = q.source_index /\ s.entities[q.entity_index].kind = "function"
  <1>1. SemanticPointOK(q, s, bound)
    BY DEF SemanticOK
  <1>2. EntityKindOf(q, s.entities) \in {"function"}
    <2>1. AllowedEntityKinds(q.kind) = {"function"}
      BY DEF AllowedEntityKinds
    <2> QED
      BY <1>1, <2>1 DEF SemanticPointOK
  <1>3. q.entity_index # Null /\ s.entities[q.entity_index].kind = "function"
    BY <1>2 DEF EntityKindOf
  <1> QED
    BY <1>1, <1>3 DEF SemanticPointOK

\* The functions of two entry points are of one name exactly if they are one.
LEMMA EntryPlaces ==
  ASSUME NEW command, NEW t, NEW s, Evident(command, t, s),
         NEW p \in s.points, p.kind = "function_entry", NEW q \in s.points, q.kind = "function_entry"
  PROVE  PlaceOfEntry(p, t) = PlaceOfEntry(q, t) <=> p.entity_index = q.entity_index
  <1> DEFINE maps == RawMaps(command)
             i == p.entity_index
             j == q.entity_index
             e == t.entities
             k == {"source_index"}
  <1>1. PICK bound : SemanticOK(s, bound)
    BY DEF Evident
  <1>2. s.sources = t.sources /\ s.entities = e
    BY DEF Evident, Reads
  <1>3. /\ i \in DOMAIN e /\ e[i].source_index = p.source_index /\ p.source_index \in DOMAIN t.sources
        /\ j \in DOMAIN e /\ e[j].source_index = q.source_index /\ q.source_index \in DOMAIN t.sources
    BY <1>1, <1>2, EntryPoint
  <1>4. /\ IsTable(t.sources, AllSources(maps)) /\ ~Contradicts(AllSources(maps), SourceKey)
        /\ IsTable(e, AllEntities(maps, t))
    BY DEF Evident, IsUnion, PlacesUnited, SourcesUnited, EntitiesUnited
  <1>5. e[i] \in Entity /\ e[j] \in Entity
    BY <1>2, <1>3 DEF Evident, SemanticDocument
  <1>6. SourceKey(t.sources[p.source_index]) = SourceKey(t.sources[q.source_index]) => p.source_index = q.source_index
    BY <1>3, <1>4 DEF IsTable, Contradicts
  <1>7. ASSUME p.source_index = q.source_index, Without(e[i], k) = Without(e[j], k) PROVE i = j
    <2> DEFINE x == e[i]  y == e[j]
    <2>1. /\ x = [f \in DOMAIN x |-> x[f]] /\ y = [f \in DOMAIN y |-> y[f]]
          /\ DOMAIN x = {"kind", "qualified_name", "source_index", "span"}
          /\ DOMAIN y = {"kind", "qualified_name", "source_index", "span"}
      BY <1>5 DEF Entity
    <2>2. x.source_index = y.source_index
      BY <1>3, <1>7
    <2> HIDE DEF x, y
    <2>3. Without(x, k) = Without(y, k)
      BY <1>7 DEF x, y
    <2>4. \A f \in DOMAIN x \ k : x[f] = y[f]
      <3>1. \A f \in DOMAIN x \ k : Without(x, k)[f] = x[f] /\ Without(y, k)[f] = y[f]
        BY <2>1 DEF Without
      <3> QED
        BY <2>3, <3>1
    <2>5. x = y
      BY <2>1, <2>2, <2>4
    <2> QED
      BY <1>3, <1>4, <2>5 DEF IsTable, x, y
  <1>8. ASSUME i = j PROVE PlaceOfEntry(p, t) = PlaceOfEntry(q, t)
    BY <1>3, <1>8 DEF PlaceOfEntry
  <1>9. ASSUME PlaceOfEntry(p, t) = PlaceOfEntry(q, t) PROVE i = j
    <2>1. /\ SourceKey(t.sources[p.source_index]) = SourceKey(t.sources[q.source_index])
          /\ Without(e[i], k) = Without(e[j], k)
      BY <1>9 DEF PlaceOfEntry
    <2> QED
      BY <1>6, <1>7, <2>1
  <1> QED
    BY <1>8, <1>9

\* The raw entry of the point q of the semantic model.
EntryOfPoint(q, t) ==
    [function |-> PlaceOfEntry(q, t), point_id |-> q.point_id,
     user |-> q.classification = "user" /\ t.sources[q.source_index].ownership = "user"]

\* The entries of the maps are the entry points of the semantic model.
LEMMA EntriesRead ==
  ASSUME NEW command, NEW t, NEW s, Evident(command, t, s)
  PROVE  RawEntries(command) = {EntryOfPoint(q, t) : q \in {x \in s.points : x.kind = "function_entry"}}
  <1> DEFINE maps == RawMaps(command)
             raw(m, p) == [function |-> RawPlace(m, p, Without(m.entities[p.entity_index], {"source_index"})),
                           point_id |-> p.point_id, user |-> p.classification = "user" /\ InUser(m, p)]
             part(m) == {raw(m, p) : p \in {x \in m.points : x.kind = "function_entry"}}
             FE == {x \in s.points : x.kind = "function_entry"}
  <1>1. RawEntries(command) = UNION {part(m) : m \in maps}
    BY DEF RawEntries
  <1>2. PlacesUnited(maps, t) /\ GoodMaps(maps)
    BY DEF Evident, GoodFiles, IsUnion
  <1>3. ASSUME NEW m \in maps, NEW p \in m.points, p.kind = "function_entry", NEW q \in s.points, SamePoint(q, p, m, t)
        PROVE  raw(m, p) = EntryOfPoint(q, t)
    <2>1. ValidMap(m)
      BY <1>2 DEF GoodMaps
    <2>2. PointOK(p, m)
      BY <2>1 DEF ValidMap, PointsOK
    <2>3. p.entity_index # Null /\ p.entity_index \in DOMAIN m.entities
      <3>1. EntityKindOf(p, m.entities) \in {"function"}
        <4>1. AllowedEntityKinds(p.kind) = {"function"}
          BY <1>3 DEF AllowedEntityKinds
        <4> QED
          BY <2>2, <4>1 DEF PointOK
      <3>2. p.entity_index # Null
        BY <3>1 DEF EntityKindOf
      <3> QED
        BY <2>2, <3>2 DEF PointOK
    <2> DEFINE e == m.entities[p.entity_index]
               moved == Moved(e, m, t)
               k == {"source_index"}
    <2>4. t.entities[q.entity_index] = moved
      BY <1>2, <1>3, <2>1, <2>3, EntityLands DEF SamePoint, PlacesUnited
    <2>5. e \in Entity /\ e.source_index \in DOMAIN m.sources
      BY <1>2, <2>1, <2>3, MovedEntity DEF PlacesUnited
    <2>6. e = [f \in DOMAIN e |-> e[f]] /\ "source_index" \in DOMAIN e
      BY <2>5 DEF Entity
    <2> HIDE DEF e
    <2>7. DOMAIN moved = DOMAIN e /\ \A f \in DOMAIN e \ k : moved[f] = e[f]
      BY <1>2, <2>5, <2>6, MovedFacts DEF PlacesUnited
    <2> HIDE DEF moved
    <2>8. Without(moved, k) = Without(e, k)
      BY <2>7 DEF Without
    <2>9. t.sources[q.source_index] = m.sources[p.source_index]
      BY <1>3 DEF SamePoint
    <2>10. RawPlace(m, p, Without(e, k)) = PlaceOfEntry(q, t)
      BY <2>4, <2>8, <2>9 DEF RawPlace, PlaceOfEntry
    <2> DEFINE u == p.classification = "user" /\ InUser(m, p)
               v == q.classification = "user" /\ t.sources[q.source_index].ownership = "user"
    <2>11. u = v
      BY <1>3, <2>9 DEF InUser, SamePoint
    <2>12. p.point_id = q.point_id
      BY <1>3 DEF SamePoint
    <2> DEFINE place == RawPlace(m, p, Without(e, k))
    <2>13. raw(m, p) = [function |-> place, point_id |-> p.point_id, user |-> u]
      BY DEF e
    <2>14. EntryOfPoint(q, t) = [function |-> place, point_id |-> p.point_id, user |-> v]
      BY <2>10, <2>12 DEF EntryOfPoint
    <2> HIDE DEF u, v, place, raw
    <2> QED
      BY <2>11, <2>13, <2>14
  <1> HIDE DEF raw
  <1>4. ASSUME NEW y \in RawEntries(command) PROVE y \in {EntryOfPoint(q, t) : q \in FE}
    <2>1. PICK m \in maps : y \in part(m)
      BY <1>1
    <2>2. PICK p \in m.points : p.kind = "function_entry" /\ y = raw(m, p)
      BY <2>1
    <2>3. PICK q \in s.points : SamePoint(q, p, m, t)
      BY PointsRead
    <2>4. q \in FE
      BY <2>2, <2>3 DEF SamePoint
    <2>5. y = EntryOfPoint(q, t)
      BY <1>3, <2>2, <2>3
    <2> QED
      BY <2>4, <2>5
  <1>5. ASSUME NEW q \in FE PROVE EntryOfPoint(q, t) \in RawEntries(command)
    <2>1. PICK m \in maps : \E p \in m.points : SamePoint(q, p, m, t)
      BY PointsRead
    <2>2. PICK p \in m.points : SamePoint(q, p, m, t)
      BY <2>1
    <2>3. p.kind = "function_entry"
      BY <2>2 DEF SamePoint
    <2>4. raw(m, p) = EntryOfPoint(q, t)
      BY <1>3, <2>2, <2>3
    <2>5. raw(m, p) \in part(m)
      BY <2>3
    <2> QED
      BY <1>1, <2>4, <2>5
  <1> QED
    BY <1>4, <1>5

\* The point a function is entered at is the last of its entry points, and no other.
LEMMA EntryIsLast ==
  ASSUME NEW command, NEW t, NEW s, Evident(command, t, s), NEW n, Entries(s, n) # {}
  PROVE  /\ Entry(s, n) \in Entries(s, n)
         /\ \A q \in Entries(s, n) : ~Before(Entry(s, n).point_id, q.point_id)
         /\ \A p \in Entries(s, n) : (\A q \in Entries(s, n) : ~Before(p.point_id, q.point_id)) => p = Entry(s, n)
  <1> DEFINE E == Entries(s, n)
             last(p) == \A q \in E : ~Before(p.point_id, q.point_id)
             e == CHOOSE p \in E : last(p)
  <1>1. /\ IsFiniteSet(s.points) /\ \A q \in s.points : q \in Point
        /\ \A p, q \in s.points : p.point_id = q.point_id => p = q
    BY PointsRead
  <1>2. E \subseteq s.points
    BY DEF Entries
  <1>3. \A p \in E : p.point_id \in Seq(Int)
    <2>1. \A q \in s.points : q.point_id \in Seq(Nat)
      BY <1>1 DEF Point, PointID
    <2> QED
      BY <1>2, <2>1
  <1>4. Entry(s, n) = e
    BY DEF Entry
  <1> HIDE DEF E
  <1>5. \E p \in E : last(p)
    <2>1. IsFiniteSet(E)
      BY <1>1, <1>2, FS_Subset
    <2> QED
      BY <1>3, <2>1, LastPoint DEF E
  <1>6. e \in E /\ last(e)
    BY <1>5
  <1> HIDE DEF e
  <1>7. ASSUME NEW p \in E, last(p) PROVE p = e
    <2> DEFINE a == p.point_id  b == e.point_id
    <2>1. ~Before(a, b) /\ ~Before(b, a) /\ a \in Seq(Int) /\ b \in Seq(Int)
      BY <1>3, <1>6, <1>7
    <2> HIDE DEF a, b
    <2>2. a = b
      BY <2>1, BeforeOrder
    <2> QED
      BY <1>1, <1>2, <1>6, <2>2 DEF a, b
  <1> QED
    BY <1>4, <1>6, <1>7 DEF E

\* The user functions of the semantic model are those of the raw inputs, and none is
\* entered that was not hit.
LEMMA FunctionsRead ==
  ASSUME NEW command, NEW t, NEW s, Evident(command, t, s), NEW n \in Int, NEW empty,
         Meets(n, empty, RootSummary(s).function.covered, RootSummary(s).function.total)
  PROVE  RawMet(command, "function", n, empty)
  <1> DEFINE A  == {k \in Functions(s, "user") : s.entities[k].source_index \in Root(s)}
             R  == {k \in A : Entry(s, k).count.value > 0}
             B  == RawFunctions(command)
             H  == {u \in B : \E pid \in u : RawHit(command, pid)}
             f  == [k \in A |-> {Entry(s, k).point_id}]
             FE == {x \in s.points : x.kind = "function_entry"}
  <1>1. RootSummary(s).function.covered = Cardinality(R) /\ RootSummary(s).function.total = Cardinality(A)
    BY DEF RootSummary, Group, FunctionMetric, Share, Measured
  <1>2. PICK bound : SemanticOK(s, bound)
    BY DEF Evident
  <1>3. s.sources = t.sources /\ s.entities = t.entities
    BY DEF Evident, Reads
  <1>4. \A p, q \in s.points : p.point_id = q.point_id => p = q
    BY PointsRead
  <1>5. \A q \in s.points : q.count.value > 0 => RawHit(command, q.point_id)
    BY PointsRead
  <1>6. \A k \in A : /\ k \in DOMAIN s.entities /\ Entries(s, k) # {} /\ Entry(s, k).classification = "user"
                     /\ s.entities[k].source_index \in Root(s)
    BY DEF Functions
  <1>7. \A k \in A : f[k] = {Entry(s, k).point_id} /\ Entry(s, k) \in FE /\ Entry(s, k).entity_index = k
    <2>1. \A k \in A : Entry(s, k) \in Entries(s, k)
      BY <1>6, EntryIsLast
    <2> QED
      BY <2>1 DEF Entries
  <1>8. \A q \in FE : /\ q.entity_index \in DOMAIN s.entities /\ q.entity_index # Null /\ q.source_index \in DOMAIN s.sources
                      /\ s.entities[q.entity_index].source_index = q.source_index
                      /\ s.entities[q.entity_index].kind = "function"
    BY <1>2, EntryPoint
  <1>9. RawEntries(command) = {EntryOfPoint(q, t) : q \in FE}
    BY EntriesRead
  <1> DEFINE user(q) == q.classification = "user" /\ t.sources[q.source_index].ownership = "user"
             last(q) == \A z \in FE : z.entity_index = q.entity_index => ~Before(q.point_id, z.point_id)
  <1>10. B = {{q.point_id} : q \in {x \in FE : user(x) /\ last(x)}}
    <2> DEFINE E == RawEntries(command)
               top(x) == x.user /\ \A z \in E : z.function = x.function => ~Before(x.point_id, z.point_id)
    <2>1. B = {{y.point_id} : y \in {x \in E : top(x)}}
      BY DEF RawFunctions
    <2>2. ASSUME NEW q \in FE
          PROVE  /\ EntryOfPoint(q, t).user <=> user(q)
                 /\ EntryOfPoint(q, t).point_id = q.point_id
                 /\ EntryOfPoint(q, t).function = PlaceOfEntry(q, t)
      BY DEF EntryOfPoint
    <2>3. \A q, z \in FE : EntryOfPoint(z, t).function = EntryOfPoint(q, t).function <=> z.entity_index = q.entity_index
      BY <2>2, EntryPlaces
    <2> HIDE DEF FE, E, user
    <2>4. ASSUME NEW q \in FE PROVE top(EntryOfPoint(q, t)) <=> user(q) /\ last(q)
      <3> DEFINE x == EntryOfPoint(q, t)
      <3>1. (\A z \in E : z.function = x.function => ~Before(x.point_id, z.point_id))
             <=> \A z \in FE : EntryOfPoint(z, t).function = x.function => ~Before(x.point_id, EntryOfPoint(z, t).point_id)
        BY <1>9 DEF E
      <3>2. (\A z \in E : z.function = x.function => ~Before(x.point_id, z.point_id)) <=> last(q)
        BY <2>2, <2>3, <3>1
      <3> QED
        BY <2>2, <3>2
    <2> HIDE DEF top, last
    <2>5. {{y.point_id} : y \in {x \in E : top(x)}} = {{q.point_id} : q \in {x \in FE : user(x) /\ last(x)}}
      <3>1. ASSUME NEW y \in E, top(y) PROVE \E q \in FE : user(q) /\ last(q) /\ q.point_id = y.point_id
        <4>1. PICK q \in FE : y = EntryOfPoint(q, t)
          BY <1>9 DEF E
        <4> QED
          BY <2>2, <2>4, <3>1, <4>1
      <3>2. ASSUME NEW q \in FE, user(q), last(q) PROVE \E y \in E : top(y) /\ y.point_id = q.point_id
        <4>1. EntryOfPoint(q, t) \in E
          BY <1>9 DEF E
        <4> QED
          BY <2>2, <2>4, <3>2, <4>1
      <3> QED
        BY <3>1, <3>2
    <2> QED
      BY <2>1, <2>5
  <1>11. Root(s) = {i \in DOMAIN t.sources : t.sources[i].ownership = "user"}
    BY <1>3 DEF Root
  <1>12. ASSUME NEW k \in A PROVE Entry(s, k) \in FE /\ user(Entry(s, k)) /\ last(Entry(s, k))
    <2> DEFINE e == Entry(s, k)
    <2>1. e \in FE /\ e.entity_index = k
      BY <1>7
    <2>2. user(e)
      <3>1. s.entities[k].source_index = e.source_index
        BY <1>8, <2>1
      <3>2. t.sources[e.source_index].ownership = "user"
        BY <1>6, <1>11, <3>1
      <3> QED
        BY <1>6, <3>2
    <2>3. last(e)
      <3>1. \A q \in Entries(s, k) : ~Before(e.point_id, q.point_id)
        BY <1>6, EntryIsLast
      <3> QED
        BY <2>1, <3>1 DEF Entries
    <2> QED
      BY <2>1, <2>2, <2>3
  <1>13. ASSUME NEW q \in FE, user(q), last(q) PROVE q.entity_index \in A /\ Entry(s, q.entity_index) = q
    <2> DEFINE k == q.entity_index
    <2>1. q \in Entries(s, k)
      BY DEF Entries
    <2>2. \A z \in Entries(s, k) : ~Before(q.point_id, z.point_id)
      BY <1>13 DEF Entries
    <2>3. Entry(s, k) = q
      BY <2>1, <2>2, EntryIsLast
    <2>4. k \in Functions(s, "user")
      BY <1>8, <1>13, <2>1, <2>3 DEF Functions
    <2>5. s.entities[k].source_index \in Root(s)
      BY <1>3, <1>8, <1>11, <1>13
    <2> QED
      BY <2>3, <2>4, <2>5
  <1> HIDE DEF A, FE, user, last, B
  <1>14. B = {f[k] : k \in A}
    <2>1. ASSUME NEW u \in B PROVE \E k \in A : u = f[k]
      <3>1. PICK q \in FE : user(q) /\ last(q) /\ u = {q.point_id}
        BY <1>10
      <3> QED
        BY <1>7, <1>13, <3>1
    <2>2. ASSUME NEW k \in A PROVE f[k] \in B
      BY <1>7, <1>10, <1>12
    <2> QED
      BY <2>1, <2>2
  <1>15. \A x, y \in A : f[x] = f[y] => x = y
    <2> SUFFICES ASSUME NEW x \in A, NEW y \in A, f[x] = f[y] PROVE x = y
      OBVIOUS
    <2>1. Entry(s, x).point_id = Entry(s, y).point_id
      BY <1>7
    <2>2. Entry(s, x) = Entry(s, y)
      BY <1>4, <1>7, <2>1 DEF FE
    <2> QED
      BY <1>7, <2>2
  <1>16. IsFiniteSet(A)
    <2>1. A \subseteq DOMAIN s.entities
      BY <1>6
    <2>2. s.entities \in Seq(Entity)
      BY DEF Evident, SemanticDocument
    <2>3. IsFiniteSet(DOMAIN s.entities)
      BY <2>2, FS_Interval
    <2> QED
      BY <2>1, <2>3, FS_Subset
  <1>17. \A x \in R : f[x] \in H
    <2> SUFFICES ASSUME NEW x \in R PROVE f[x] \in H
      OBVIOUS
    <2>1. RawHit(command, Entry(s, x).point_id)
      BY <1>5, <1>7 DEF FE
    <2> QED
      BY <1>7, <1>14, <2>1
  <1>18. f = [x \in A |-> f[x]] /\ R \in SUBSET A /\ H \in SUBSET B
    OBVIOUS
  <1>19. Meets(n, empty, Cardinality(R), Cardinality(A))
    <2>1. \A a, b, c, d : a = c /\ b = d /\ Meets(n, empty, a, b) => Meets(n, empty, c, d)
      OBVIOUS
    <2> HIDE DEF R
    <2> QED
      BY <1>1, <2>1
  <1>20. RawCovers(n, empty, B, H)
    <2> HIDE DEF f, R, H
    <2> QED
      BY <1>14, <1>15, <1>16, <1>17, <1>18, <1>19, Measures
  <1> QED
    BY <1>20 DEF RawMet, B

\* The points of a set whose identities are distinct, by identity.
LEMMA PointFound ==
  ASSUME NEW S, \A p, q \in S : p.point_id = q.point_id => p = q
  PROVE  /\ DOMAIN PointsBy(S) = {p.point_id : p \in S}
         /\ \A pid \in DOMAIN PointsBy(S) : PointsBy(S)[pid] \in S /\ PointsBy(S)[pid].point_id = pid
         /\ \A p \in S : PointsBy(S)[p.point_id] = p
  <1> DEFINE at(pid) == CHOOSE p \in S : p.point_id = pid
             D == {p.point_id : p \in S}
  <1>1. PointsBy(S) = [pid \in D |-> at(pid)]
    BY DEF PointsBy
  <1>2. \A pid \in D : at(pid) \in S /\ at(pid).point_id = pid
    OBVIOUS
  <1> HIDE DEF at
  <1>3. \A p \in S : at(p.point_id) = p
    BY <1>2
  <1> QED
    BY <1>1, <1>2, <1>3

\* What an outcome of a map says of its point.
LEMMA MapOutcomes ==
  ASSUME NEW m, ValidMap(m)
  PROVE  /\ \A b \in SeqRange(m.branches) : \A o \in SeqRange(b.outcomes) :
               \E p \in m.points : /\ p.point_id = o.point_id /\ p.kind = "branch_outcome"
                                   /\ p.source_index = b.source_index
                                   /\ o.classification = "eligible" <=> p.classification = "user"
         /\ \A p \in m.points : p.kind = "branch_outcome" =>
               \E b \in SeqRange(m.branches) : \E o \in SeqRange(b.outcomes) :
                   /\ o.point_id = p.point_id /\ b.source_index = p.source_index
                   /\ o.classification = "eligible" <=> p.classification = "user"
  <1> DEFINE by == PointsBy(m.points)
  <1>1. \A p, q \in m.points : p.point_id = q.point_id => p = q
    BY DEF ValidMap, PointsOK
  <1>2. /\ \A pid \in DOMAIN by : by[pid] \in m.points /\ by[pid].point_id = pid
        /\ \A p \in m.points : by[p.point_id] = p
    BY <1>1, PointFound
  <1> HIDE DEF by
  <1>3. ASSUME NEW b \in SeqRange(m.branches), NEW o \in SeqRange(b.outcomes)
        PROVE  /\ o.point_id \in DOMAIN by /\ by[o.point_id].kind = "branch_outcome"
               /\ by[o.point_id].source_index = b.source_index
               /\ o.classification = "eligible" <=> by[o.point_id].classification = "user"
    <2>1. m.branches \in Seq(MapBranch)
      BY DEF ValidMap, MapDocument
    <2>2. b \in MapBranch
      BY <2>1 DEF SeqRange
    <2>3. b.outcomes \in Seq(MapOutcome)
      BY <2>2 DEF MapBranch, NonEmpty
    <2>4. PICK i \in DOMAIN b.outcomes : o = b.outcomes[i]
      BY DEF SeqRange
    <2>5. o \in MapOutcome
      BY <2>3, <2>4
    <2>6. o.classification \in {"eligible", "excluded", "statically_unreachable"}
      BY <2>5 DEF MapOutcome
    <2>7. BranchOK(b, m)
      BY DEF ValidMap, BranchesOK
    <2> DEFINE p == by[o.point_id]
    <2>8. /\ o.point_id \in DOMAIN by /\ OutcomePoint(b, i, p)
          /\ p.classification = IF o.classification = "eligible" THEN "user" ELSE o.classification
      BY <2>4, <2>7 DEF BranchOK, by
    <2> HIDE DEF p
    <2>9. o.classification = "eligible" <=> p.classification = "user"
      BY <2>6, <2>8
    <2>10. p.kind = "branch_outcome" /\ p.source_index = b.source_index
      BY <2>8 DEF OutcomePoint
    <2> QED
      BY <2>8, <2>9, <2>10 DEF p
  <1>4. ASSUME NEW p \in m.points, p.kind = "branch_outcome"
        PROVE  \E b \in SeqRange(m.branches) : \E o \in SeqRange(b.outcomes) : o.point_id = p.point_id
    <2>1. PICK b \in SeqRange(m.branches) : p.point_id \in OutcomeIDs(b)
      BY <1>4 DEF ValidMap, BranchesOK, OutcomesUsedOnce
    <2> QED
      BY <2>1 DEF OutcomeIDs
  <1>5. ASSUME NEW p \in m.points, p.kind = "branch_outcome"
        PROVE  \E b \in SeqRange(m.branches) : \E o \in SeqRange(b.outcomes) :
                   /\ o.point_id = p.point_id /\ b.source_index = p.source_index
                   /\ o.classification = "eligible" <=> p.classification = "user"
    <2>1. PICK b \in SeqRange(m.branches) : \E o \in SeqRange(b.outcomes) : o.point_id = p.point_id
      BY <1>4, <1>5
    <2>2. PICK o \in SeqRange(b.outcomes) : o.point_id = p.point_id
      BY <2>1
    <2>3. by[o.point_id] = p
      BY <1>2, <2>2
    <2> QED
      BY <1>3, <2>2, <2>3
  <1>6. ASSUME NEW b \in SeqRange(m.branches), NEW o \in SeqRange(b.outcomes)
        PROVE  \E p \in m.points : /\ p.point_id = o.point_id /\ p.kind = "branch_outcome"
                                   /\ p.source_index = b.source_index
                                   /\ o.classification = "eligible" <=> p.classification = "user"
    BY <1>2, <1>3
  <1> QED
    BY <1>5, <1>6

\* A user outcome point of the semantic model.
UserOutcome(q, t) ==
    q.kind = "branch_outcome" /\ q.classification = "user" /\ t.sources[q.source_index].ownership = "user"

\* The outcomes of the raw inputs are the user outcome points of the semantic model.
LEMMA OutcomesAreRaw ==
  ASSUME NEW command, NEW t, NEW s, Evident(command, t, s)
  PROVE  RawOutcomes(command) = {{q.point_id} : q \in {x \in s.points : UserOutcome(x, t)}}
  <1> DEFINE maps == RawMaps(command)
             mine(m) == {x \in SeqRange(m.branches) : InUser(m, x)}
             part(b) == {{o.point_id} : o \in {x \in SeqRange(b.outcomes) : x.classification = "eligible"}}
  <1>1. RawOutcomes(command) = UNION {UNION {part(b) : b \in mine(m)} : m \in maps}
    BY DEF RawOutcomes
  <1>2. GoodMaps(maps)
    BY DEF Evident, GoodFiles
  <1>3. ASSUME NEW u \in RawOutcomes(command) PROVE \E q \in s.points : UserOutcome(q, t) /\ u = {q.point_id}
    <2>1. PICK m \in maps : u \in UNION {part(b) : b \in mine(m)}
      BY <1>1
    <2>2. PICK b \in SeqRange(m.branches) : InUser(m, b) /\ u \in part(b)
      BY <2>1
    <2>3. PICK o \in SeqRange(b.outcomes) : o.classification = "eligible" /\ u = {o.point_id}
      BY <2>2
    <2>4. ValidMap(m)
      BY <1>2 DEF GoodMaps
    <2>5. PICK p \in m.points : /\ p.point_id = o.point_id /\ p.kind = "branch_outcome"
                                /\ p.source_index = b.source_index /\ p.classification = "user"
      BY <2>3, <2>4, MapOutcomes
    <2>6. PICK q \in s.points : SamePoint(q, p, m, t)
      BY PointsRead
    <2> QED
      BY <2>2, <2>3, <2>5, <2>6 DEF SamePoint, UserOutcome, InUser
  <1>4. ASSUME NEW q \in s.points, UserOutcome(q, t) PROVE {q.point_id} \in RawOutcomes(command)
    <2>1. PICK m \in maps : \E p \in m.points : SamePoint(q, p, m, t)
      BY PointsRead
    <2>2. PICK p \in m.points : SamePoint(q, p, m, t)
      BY <2>1
    <2>3. ValidMap(m)
      BY <1>2 DEF GoodMaps
    <2>4. p.kind = "branch_outcome" /\ p.classification = "user" /\ m.sources[p.source_index].ownership = "user"
      BY <1>4, <2>2 DEF UserOutcome, SamePoint
    <2>5. PICK b \in SeqRange(m.branches) : \E o \in SeqRange(b.outcomes) :
                /\ o.point_id = p.point_id /\ b.source_index = p.source_index
                /\ o.classification = "eligible" <=> p.classification = "user"
      BY <2>3, <2>4, MapOutcomes
    <2>6. b \in mine(m)
      BY <2>4, <2>5 DEF InUser
    <2>7. {q.point_id} \in part(b)
      BY <2>2, <2>4, <2>5 DEF SamePoint
    <2> HIDE DEF part, mine
    <2> QED
      BY <1>1, <2>6, <2>7
  <1> QED
    BY <1>3, <1>4

\* What an outcome of the semantic model says of its point.
LEMMA SemanticOutcomes ==
  ASSUME NEW s, NEW bound, SemanticOK(s, bound), NEW b \in DOMAIN s.branches, NEW i \in DOMAIN s.branches[b].outcomes
  PROVE  LET o == s.branches[b].outcomes[i] IN
         \E q \in s.points : /\ q.point_id = o.point_id /\ q.kind = "branch_outcome"
                             /\ q.source_index = s.branches[b].source_index
                             /\ o.status \in {"covered", "uncovered"} <=> q.classification = "user"
                             /\ o.status = "covered" => q.count.value > 0
  <1> DEFINE by == PointsBy(s.points)
             o  == s.branches[b].outcomes[i]
             q  == by[o.point_id]
             br == s.branches[b]
  <1>1. \A p, r \in s.points : p.point_id = r.point_id => p = r
    BY DEF SemanticOK
  <1>2. \A pid \in DOMAIN by : by[pid] \in s.points /\ by[pid].point_id = pid
    BY <1>1, PointFound
  <1>3. SemanticBranchOK(br, s, by)
    BY DEF SemanticOK, SeqRange
  <1> HIDE DEF by
  <1>4. /\ o.point_id \in DOMAIN by /\ OutcomePoint(br, i, q) /\ q.classification \in {"user"} \cup Uncounted
        /\ o.status = OutcomeStatus(IF q.classification = "user" THEN "eligible" ELSE q.classification, q.count)
    BY <1>3 DEF SemanticBranchOK
  <1>5. q \in s.points /\ q.point_id = o.point_id /\ q.kind = "branch_outcome" /\ q.source_index = br.source_index
    BY <1>2, <1>4 DEF OutcomePoint
  <1> HIDE DEF o, q, br
  <1>6. /\ o.status \in {"covered", "uncovered"} <=> q.classification = "user"
        /\ o.status = "covered" => q.count.value > 0
    BY <1>4 DEF OutcomeStatus, Uncounted
  <1> QED
    BY <1>5, <1>6 DEF o, br

\* No two outcomes of the semantic model are of one point.
LEMMA OutcomesApart ==
  ASSUME NEW branches, NEW points, OutcomesUsedOnce(branches, points),
         NEW b \in DOMAIN branches, NEW c \in DOMAIN branches,
         NEW i \in DOMAIN branches[b].outcomes, NEW j \in DOMAIN branches[c].outcomes,
         \A k \in DOMAIN branches : branches[k].outcomes = [n \in 1 .. Len(branches[k].outcomes) |-> branches[k].outcomes[n]]
                                    /\ Len(branches[k].outcomes) \in Nat,
         branches[b].outcomes[i].point_id = branches[c].outcomes[j].point_id
  PROVE  b = c /\ i = j
  <1>1. b = c
    <2>1. branches[b].outcomes[i].point_id \in OutcomeIDs(branches[b]) \cap OutcomeIDs(branches[c])
      BY DEF OutcomeIDs, SeqRange
    <2> QED
      BY <2>1 DEF OutcomesUsedOnce
  <1> DEFINE list == branches[b].outcomes
             n    == Len(list)
             S    == OutcomeIDs(branches[b])
             f    == [k \in 1 .. n |-> list[k].point_id]
  <1>2. n \in Nat /\ DOMAIN list = 1 .. n /\ i \in 1 .. n /\ j \in 1 .. n /\ list[i].point_id = list[j].point_id
    BY <1>1
  <1>3. S = {list[k].point_id : k \in DOMAIN list}
    BY DEF OutcomeIDs, SeqRange
  <1>4. Cardinality(S) = n
    BY DEF OutcomesUsedOnce, SeqRange
  <1> HIDE DEF n, list, S
  <1>5. f \in Surjection(1 .. n, S)
    BY <1>2, <1>3 DEF Surjection
  <1>6. IsFiniteSet(1 .. n) /\ Cardinality(1 .. n) = n
    BY <1>2, FS_Interval
  <1>7. f \in Injection(1 .. n, S)
    BY <1>4, <1>5, <1>6, FS_SurjSameCardinalityImpliesInj
  <1>8. i = j
    BY <1>2, <1>7 DEF Injection, IsInjective
  <1> QED
    BY <1>1, <1>8

-----------------------------------------------------------------------------
(* Units of the metrics: branches.                                         *)

\* The outcomes that a branch metric counts are those of the raw inputs, and none is
\* covered that was not hit.
LEMMA BranchesRead ==
  ASSUME NEW command, NEW t, NEW s, Evident(command, t, s), NEW n \in Int, NEW empty,
         Meets(n, empty, RootSummary(s).branch.covered, RootSummary(s).branch.total)
  PROVE  RawMet(command, "branch", n, empty)
  <1> DEFINE A  == {o \in CountedOutcomes(s) : s.branches[o[1]].source_index \in Root(s)}
             R  == {o \in A : s.branches[o[1]].outcomes[o[2]].status = "covered"}
             B  == RawOutcomes(command)
             H  == {u \in B : \E pid \in u : RawHit(command, pid)}
             f  == [o \in A |-> {s.branches[o[1]].outcomes[o[2]].point_id}]
             U  == {x \in s.points : UserOutcome(x, t)}
             is(o, b, i) == o = <<b, i>> /\ b \in DOMAIN s.branches /\ i \in DOMAIN s.branches[b].outcomes
  <1>1. RootSummary(s).branch.covered = Cardinality(R) /\ RootSummary(s).branch.total = Cardinality(A)
    BY Zenon DEF RootSummary, Group, BranchMetric, Share, Measured
  <1>2. PICK bound : SemanticOK(s, bound)
    BY DEF Evident
  <1>3. Root(s) = {i \in DOMAIN t.sources : t.sources[i].ownership = "user"}
    BY DEF Evident, Reads, Root
  <1>4. \A p, q \in s.points : p.point_id = q.point_id => p = q
    BY PointsRead
  <1>5. \A q \in s.points : q.count.value > 0 => RawHit(command, q.point_id)
    BY PointsRead
  <1>6. B = {{q.point_id} : q \in U}
    BY OutcomesAreRaw
  <1>7. \A q \in s.points : q.source_index \in DOMAIN t.sources
    BY PointsRead DEF SamePoint
  <1> DEFINE counted(b, i) == s.branches[b].outcomes[i].status \in {"covered", "uncovered"}
                              /\ s.branches[b].source_index \in Root(s)
  <1>8. ASSUME NEW o \in A PROVE \E b, i : is(o, b, i) /\ counted(b, i)
    <2>1. o \in CountedOutcomes(s) /\ s.branches[o[1]].source_index \in Root(s)
      OBVIOUS
    <2>2. PICK b \in DOMAIN s.branches : o \in {<<b, i>> : i \in {j \in DOMAIN s.branches[b].outcomes :
                                 s.branches[b].outcomes[j].status \in {"covered", "uncovered"}}}
      BY <2>1 DEF CountedOutcomes
    <2>3. PICK i \in DOMAIN s.branches[b].outcomes :
              s.branches[b].outcomes[i].status \in {"covered", "uncovered"} /\ o = <<b, i>>
      BY <2>2
    <2>4. o[1] = b
      BY <2>3
    <2> QED
      BY <2>1, <2>3, <2>4
  <1>9. ASSUME NEW b, NEW i, is(<<b, i>>, b, i), counted(b, i) PROVE <<b, i>> \in A
    <2>1. <<b, i>> \in CountedOutcomes(s)
      BY <1>9 DEF CountedOutcomes
    <2> QED
      BY <1>9, <2>1
  <1>10. ASSUME NEW b, NEW i, is(<<b, i>>, b, i)
         PROVE  \E q \in s.points : /\ q.point_id = s.branches[b].outcomes[i].point_id
                                    /\ counted(b, i) <=> q \in U
                                    /\ s.branches[b].outcomes[i].status = "covered" => RawHit(command, q.point_id)
    <2> DEFINE o == s.branches[b].outcomes[i]
    <2>1. PICK q \in s.points : /\ q.point_id = o.point_id /\ q.kind = "branch_outcome"
                                /\ q.source_index = s.branches[b].source_index
                                /\ o.status \in {"covered", "uncovered"} <=> q.classification = "user"
                                /\ o.status = "covered" => q.count.value > 0
      BY <1>2, <1>10, SemanticOutcomes
    <2>2. counted(b, i) <=> q \in U
      BY <1>3, <1>7, <2>1 DEF UserOutcome
    <2> QED
      BY <1>5, <2>1, <2>2
  <1>11. ASSUME NEW q \in U PROVE \E b, i : is(<<b, i>>, b, i) /\ q.point_id = s.branches[b].outcomes[i].point_id
    <2>1. PICK br \in SeqRange(s.branches) : q.point_id \in OutcomeIDs(br)
      BY <1>2, <1>11 DEF SemanticOK, OutcomesUsedOnce, UserOutcome
    <2>2. PICK b \in DOMAIN s.branches : br = s.branches[b]
      BY <2>1 DEF SeqRange
    <2>3. PICK i \in DOMAIN s.branches[b].outcomes : q.point_id = s.branches[b].outcomes[i].point_id
      BY <2>1, <2>2 DEF OutcomeIDs, SeqRange
    <2> QED
      BY <2>3
  <1>12. \A o \in A : f[o] = {s.branches[o[1]].outcomes[o[2]].point_id}
    OBVIOUS
  <1>13. \A b, i : is(<<b, i>>, b, i) /\ <<b, i>> \in A => f[<<b, i>>] = {s.branches[b].outcomes[i].point_id}
    <2> SUFFICES ASSUME NEW b, NEW i, is(<<b, i>>, b, i), <<b, i>> \in A
                 PROVE  f[<<b, i>>] = {s.branches[b].outcomes[i].point_id}
      OBVIOUS
    <2> HIDE DEF A, f
    <2> QED
      BY <1>12
  <1> HIDE DEF counted
  <1>14. \A k \in DOMAIN s.branches :
            /\ s.branches[k].outcomes = [x \in 1 .. Len(s.branches[k].outcomes) |-> s.branches[k].outcomes[x]]
            /\ Len(s.branches[k].outcomes) \in Nat
    <2> SUFFICES ASSUME NEW k \in DOMAIN s.branches
                 PROVE  /\ s.branches[k].outcomes = [x \in 1 .. Len(s.branches[k].outcomes) |-> s.branches[k].outcomes[x]]
                        /\ Len(s.branches[k].outcomes) \in Nat
      OBVIOUS
    <2>1. s.branches \in Seq(Branch)
      BY DEF Evident, SemanticDocument
    <2>2. s.branches[k] \in Branch
      BY <2>1
    <2>3. s.branches[k].outcomes \in Seq(Outcome)
      BY <2>2 DEF Branch, NonEmpty
    <2> QED
      BY <2>3
  <1>15. \A x, y \in A : f[x] = f[y] => x = y
    <2> SUFFICES ASSUME NEW x \in A, NEW y \in A, f[x] = f[y] PROVE x = y
      BY ZenonT(40)
    <2>1. PICK b, i : is(x, b, i)
      BY <1>8, ZenonT(40)
    <2>2. PICK c, j : is(y, c, j)
      BY <1>8, Zenon
    <2>3. s.branches[b].outcomes[i].point_id = s.branches[c].outcomes[j].point_id
      <3> HIDE DEF f, A
      <3> QED
        BY <1>13, <2>1, <2>2
    <2>4. OutcomesUsedOnce(s.branches, s.points)
      BY <1>2, ZenonT(40) DEF SemanticOK
    <2>5. b \in DOMAIN s.branches /\ c \in DOMAIN s.branches /\ i \in DOMAIN s.branches[b].outcomes
          /\ j \in DOMAIN s.branches[c].outcomes
      BY <2>1, <2>2, Zenon
    <2>6. b = c /\ i = j
      <3> HIDE DEF A, f
      <3> QED
        BY <1>14, <2>3, <2>4, <2>5, OutcomesApart
    <2> QED
      BY <2>1, <2>2, <2>6
  <1> HIDE DEF A, U, f, B
  <1>16. B = {f[o] : o \in A}
    <2>1. ASSUME NEW u \in B PROVE \E o \in A : u = f[o]
      <3>1. PICK q \in U : u = {q.point_id}
        BY <1>6
      <3>2. PICK b, i : is(<<b, i>>, b, i) /\ q.point_id = s.branches[b].outcomes[i].point_id
        BY <1>11
      <3>3. PICK p \in s.points : p.point_id = s.branches[b].outcomes[i].point_id /\ (counted(b, i) <=> p \in U)
        BY <1>10, <3>2
      <3>4. p = q
        BY <1>4, <3>2, <3>3 DEF U
      <3>5. <<b, i>> \in A
        BY <1>9, <3>2, <3>3, <3>4
      <3> QED
        BY <1>13, <3>1, <3>2, <3>5
    <2>2. ASSUME NEW o \in A PROVE f[o] \in B
      <3>1. PICK b, i : is(o, b, i) /\ counted(b, i)
        BY <1>8
      <3>2. PICK p \in s.points : p.point_id = s.branches[b].outcomes[i].point_id /\ (counted(b, i) <=> p \in U)
        BY <1>10, <3>1
      <3>3. p \in U
        BY <3>1, <3>2
      <3>4. f[o] = {p.point_id}
        BY <1>13, <3>1, <3>2
      <3> QED
        BY <1>6, <3>3, <3>4
    <2> QED
      BY <2>1, <2>2
  <1>17. \A x \in R : f[x] \in H
    <2> SUFFICES ASSUME NEW x \in R PROVE f[x] \in H
      OBVIOUS
    <2>1. x \in A /\ s.branches[x[1]].outcomes[x[2]].status = "covered"
      OBVIOUS
    <2>2. PICK b, i : is(x, b, i)
      BY <1>8, <2>1
    <2>3. s.branches[b].outcomes[i].status = "covered"
      BY <2>1, <2>2
    <2>4. RawHit(command, s.branches[b].outcomes[i].point_id)
      BY <1>10, <2>2, <2>3
    <2>5. f[x] = {s.branches[b].outcomes[i].point_id}
      BY <1>13, <2>1, <2>2
    <2>6. f[x] \in B
      BY <1>16, <2>1
    <2> QED
      BY <2>4, <2>5, <2>6
  <1>18. f = [x \in A |-> f[x]] /\ R \in SUBSET A /\ H \in SUBSET B
    BY DEF f
  <1>19. IsFiniteSet(B)
    <2> DEFINE T == s.points
               g == [q \in T |-> {q.point_id}]
    <2>1. DOMAIN g = T /\ g = [q \in T |-> g[q]] /\ \A q \in T : g[q] = {q.point_id}
      OBVIOUS
    <2>2. IsFiniteSet(T)
      BY PointsRead
    <2>3. U \subseteq T
      BY DEF U
    <2> HIDE DEF g, T
    <2>4. IsFiniteSet({g[q] : q \in T})
      BY <2>1, <2>2, FiniteImage
    <2>5. B \subseteq {g[q] : q \in T}
      BY <1>6, <2>1, <2>3
    <2> QED
      BY <2>4, <2>5, FS_Subset
  <1>20. Meets(n, empty, Cardinality(R), Cardinality(A))
    <2>1. \A a, b, c, d : a = c /\ b = d /\ Meets(n, empty, a, b) => Meets(n, empty, c, d)
      OBVIOUS
    <2> HIDE DEF R
    <2> QED
      BY <1>1, <2>1
  <1>21. RawCovers(n, empty, B, H)
    <2> HIDE DEF R, H
    <2> QED
      BY <1>15, <1>16, <1>17, <1>18, <1>19, <1>20, Measures
  <1> QED
    BY <1>21 DEF RawMet, B

-----------------------------------------------------------------------------
(* Units of the metrics: contracts.                                        *)

\* The clause i of the tables is the clause c of the map m.
SameClause(i, c, m, t) ==
    /\ t.contracts[i] = OwnedClause(c, m, t)
    /\ RawClause(t.contracts[i]) = RawClause(c) /\ t.contracts[i].enforcement = c.enforcement
    /\ t.contracts[i].entity_index = EntOf(m, c.entity_index, t)
    /\ t.contracts[i].source_index \in DOMAIN t.sources
    /\ t.sources[t.contracts[i].source_index] = m.sources[c.source_index]

\* The clauses of the tables are those of the maps.
LEMMA ClauseOrigin ==
  ASSUME NEW maps, GoodMaps(maps), NEW t, IsUnion(maps, t)
  PROVE  /\ \A i \in DOMAIN t.contracts : \E m \in maps : \E c \in SeqRange(m.contracts) : SameClause(i, c, m, t)
         /\ \A m \in maps : \A k \in DOMAIN m.contracts :
               LET p == PositionOf(t.contracts, ContractKey, ContractKey(OwnedClause(m.contracts[k], m, t))) IN
               p \in DOMAIN t.contracts /\ SameClause(p, m.contracts[k], m, t)
  <1> DEFINE C == Records(maps, t).contracts
  <1>1. PlacesUnited(maps, t) /\ IsTable(t.contracts, C) /\ ~Contradicts(C, ContractKey)
    BY DEF IsUnion
  <1>2. C = UNION {{OwnedClause(c, m, t) : c \in SeqRange(m.contracts)} : m \in maps}
    BY DEF Records
  <1>3. ASSUME NEW i, NEW m \in maps, NEW c \in SeqRange(m.contracts), t.contracts[i] = OwnedClause(c, m, t)
        PROVE  SameClause(i, c, m, t)
    <2> DEFINE o == OwnedClause(c, m, t)
    <2>1. ValidMap(m)
      BY DEF GoodMaps
    <2>2. /\ o.enforcement = c.enforcement
          /\ o.true_point_id = c.true_point_id /\ o.false_point_id = c.false_point_id
          /\ o.entity_index = EntOf(m, c.entity_index, t)
          /\ o.source_index \in DOMAIN t.sources /\ t.sources[o.source_index] = m.sources[c.source_index]
      BY <1>1, <2>1, ContractMoves
    <2>3. RawClause(o) = RawClause(c)
      BY <2>2 DEF RawClause
    <2> HIDE DEF o
    <2>4. t.contracts[i] = o
      BY <1>3 DEF o
    <2> QED
      BY <1>3, <2>2, <2>3, <2>4 DEF SameClause
  <1> HIDE DEF C
  <1>4. ASSUME NEW i \in DOMAIN t.contracts
        PROVE  \E m \in maps : \E c \in SeqRange(m.contracts) : SameClause(i, c, m, t)
    <2>1. t.contracts[i] \in C
      BY <1>1 DEF IsTable
    <2>2. PICK m \in maps : t.contracts[i] \in {OwnedClause(c, m, t) : c \in SeqRange(m.contracts)}
      BY <1>2, <2>1
    <2>3. PICK c \in SeqRange(m.contracts) : t.contracts[i] = OwnedClause(c, m, t)
      BY <2>2
    <2> QED
      BY <1>3, <2>3
  <1>5. ASSUME NEW m \in maps, NEW k \in DOMAIN m.contracts
        PROVE  LET p == PositionOf(t.contracts, ContractKey, ContractKey(OwnedClause(m.contracts[k], m, t))) IN
               p \in DOMAIN t.contracts /\ SameClause(p, m.contracts[k], m, t)
    <2> DEFINE o == OwnedClause(m.contracts[k], m, t)
               p == PositionOf(t.contracts, ContractKey, ContractKey(o))
    <2>1. m.contracts[k] \in SeqRange(m.contracts)
      BY DEF SeqRange
    <2>2. o \in C
      BY <1>2, <2>1
    <2>3. p \in DOMAIN t.contracts /\ t.contracts[p] = o
      BY <1>1, <2>2, ContractFound
    <2> HIDE DEF p
    <2>4. SameClause(p, m.contracts[k], m, t)
      BY <1>3, <2>1, <2>3
    <2> QED
      BY <2>3, <2>4 DEF p
  <1> QED
    BY <1>4, <1>5

\* What the points of a counted clause of a map are.
LEMMA MapClausePoints ==
  ASSUME NEW m, ValidMap(m), NEW c \in SeqRange(m.contracts), c.enforcement = "runtime_checked"
  PROVE  /\ \E p \in m.points : p.point_id = c.true_point_id /\ p.kind = "contract_true" /\ p.entity_index = c.entity_index
         /\ \E p \in m.points : p.point_id = c.false_point_id /\ p.kind = "contract_false" /\ p.entity_index = c.entity_index
  <1> DEFINE by == PointsBy(m.points)
  <1>1. \A p, q \in m.points : p.point_id = q.point_id => p = q
    BY DEF ValidMap, PointsOK
  <1>2. \A pid \in DOMAIN by : by[pid] \in m.points /\ by[pid].point_id = pid
    BY <1>1, PointFound
  <1>3. ContractOK(c, m)
    BY DEF ValidMap, ContractsOK
  <1> HIDE DEF by
  <1>4. /\ c.true_point_id \in DOMAIN by /\ by[c.true_point_id].kind = "contract_true"
        /\ by[c.true_point_id].entity_index = c.entity_index
        /\ c.false_point_id \in DOMAIN by /\ by[c.false_point_id].kind = "contract_false"
        /\ by[c.false_point_id].entity_index = c.entity_index
    BY <1>3 DEF ContractOK, by
  <1> QED
    BY <1>2, <1>4

\* A point of a clause in the semantic model.
ClausePoint(s, pid, kind, entity) ==
    \E q \in s.points : q.point_id = pid /\ q.kind = kind /\ q.entity_index = entity

\* What the semantic model says of a counted clause.
LEMMA ClausePoints ==
  ASSUME NEW command, NEW t, NEW s, Evident(command, t, s), NEW i \in DOMAIN t.contracts,
         t.contracts[i].enforcement = "runtime_checked"
  PROVE  LET c == t.contracts[i]  d == s.contracts[i] IN
         /\ ClausePoint(s, c.true_point_id, "contract_true", c.entity_index)
         /\ ClausePoint(s, c.false_point_id, "contract_false", c.entity_index)
         /\ d.count_true.value \in Nat /\ (d.count_true.value > 0 => RawHit(command, c.true_point_id))
         /\ d.count_false.value \in Nat /\ (d.count_false.value > 0 => RawHit(command, c.false_point_id))
  <1> DEFINE c == t.contracts[i]  d == s.contracts[i]  maps == RawMaps(command)
  <1>1. GoodMaps(maps) /\ IsUnion(maps, t) /\ PlacesUnited(maps, t)
    BY DEF Evident, GoodFiles, IsUnion
  <1>2. PICK m \in maps : \E k \in SeqRange(m.contracts) : SameClause(i, k, m, t)
    BY <1>1, ClauseOrigin
  <1>3. PICK k \in SeqRange(m.contracts) : SameClause(i, k, m, t)
    BY <1>2
  <1>4. ValidMap(m)
    BY <1>1 DEF GoodMaps
  <1>5. /\ c.true_point_id = k.true_point_id /\ c.false_point_id = k.false_point_id
        /\ k.enforcement = "runtime_checked" /\ c.entity_index = EntOf(m, k.entity_index, t)
    <2>1. OwnedClause(k, m, t).true_point_id = k.true_point_id /\ OwnedClause(k, m, t).false_point_id = k.false_point_id
      BY <1>1, <1>4, ContractMoves
    <2> QED
      BY <1>3, <2>1 DEF SameClause
  <1>6. PICK p \in m.points : p.point_id = k.true_point_id /\ p.kind = "contract_true" /\ p.entity_index = k.entity_index
    BY <1>4, <1>5, MapClausePoints
  <1>7. PICK q \in m.points : q.point_id = k.false_point_id /\ q.kind = "contract_false" /\ q.entity_index = k.entity_index
    BY <1>4, <1>5, MapClausePoints
  <1>8. ClausePoint(s, c.true_point_id, "contract_true", c.entity_index)
    <2>1. PICK x \in s.points : SamePoint(x, p, m, t)
      BY PointsRead
    <2>2. x.point_id = c.true_point_id /\ x.kind = "contract_true" /\ x.entity_index = c.entity_index
      BY <1>5, <1>6, <2>1 DEF SamePoint
    <2> QED
      BY <2>2 DEF ClausePoint
  <1>9. ClausePoint(s, c.false_point_id, "contract_false", c.entity_index)
    <2>1. PICK x \in s.points : SamePoint(x, q, m, t)
      BY PointsRead
    <2>2. x.point_id = c.false_point_id /\ x.kind = "contract_false" /\ x.entity_index = c.entity_index
      BY <1>5, <1>7, <2>1 DEF SamePoint
    <2> QED
      BY <2>2 DEF ClausePoint
  <1>10. PICK record, value : Reads(command, t, s, record, value)
    BY DEF Evident
  <1>11. d.count_true = record[c.true_point_id] /\ d.count_false = record[c.false_point_id]
    <2>1. d = CountedContract(c, record)
      BY <1>10 DEF Reads
    <2> QED
      BY <2>1 DEF CountedContract
  <1>12. \A x \in m.points : \E z \in t.points : z.point_id = x.point_id
    <2> SUFFICES ASSUME NEW x \in m.points PROVE \E z \in t.points : z.point_id = x.point_id
      OBVIOUS
    <2>1. CountlessPoint(x, m, t).point_id = x.point_id
      BY <1>1, <1>4, PointMoves
    <2>2. CountlessPoint(x, m, t) \in t.points
      BY <1>1 DEF IsUnion, Records
    <2> QED
      BY <2>1, <2>2
  <1>13. \A z \in t.points : /\ record[z.point_id].value \in Nat
                             /\ record[z.point_id].value > 0 => RawHit(command, z.point_id)
    BY <1>10 DEF Reads
  <1> HIDE DEF c, d
  <1>14. d.count_true.value \in Nat /\ (d.count_true.value > 0 => RawHit(command, c.true_point_id))
    <2>1. PICK z \in t.points : z.point_id = c.true_point_id
      BY <1>5, <1>6, <1>12
    <2> QED
      BY <1>11, <1>13, <2>1
  <1>15. d.count_false.value \in Nat /\ (d.count_false.value > 0 => RawHit(command, c.false_point_id))
    <2>1. PICK z \in t.points : z.point_id = c.false_point_id
      BY <1>5, <1>7, <1>12
    <2> QED
      BY <1>11, <1>13, <2>1
  <1> QED
    BY <1>8, <1>9, <1>14, <1>15 DEF c, d

\* No two counted clauses have one pair of points.
LEMMA ClausesApart ==
  ASSUME NEW command, NEW t, NEW s, Evident(command, t, s), NEW i \in DOMAIN t.contracts, NEW j \in DOMAIN t.contracts,
         t.contracts[i].enforcement = "runtime_checked", t.contracts[j].enforcement = "runtime_checked",
         RawClause(t.contracts[i]) = RawClause(t.contracts[j])
  PROVE  i = j
  <1> DEFINE c == t.contracts[i]  d == t.contracts[j]
  <1>1. /\ ClausePoint(s, c.true_point_id, "contract_true", c.entity_index)
        /\ ClausePoint(s, d.true_point_id, "contract_true", d.entity_index)
        /\ ClausePoint(s, d.false_point_id, "contract_false", d.entity_index)
    BY ClausePoints
  <1>2. {c.true_point_id, c.false_point_id} = {d.true_point_id, d.false_point_id}
    BY DEF RawClause
  <1>3. \A p, q \in s.points : p.point_id = q.point_id => p = q
    BY PointsRead
  <1>4. PICK record, value : Reads(command, t, s, record, value)
    BY DEF Evident
  <1>5. DOMAIN s.contracts = DOMAIN t.contracts /\ s.contracts[i].entity_index = c.entity_index
        /\ s.contracts[j].entity_index = d.entity_index
    <2>1. s.contracts = [k \in DOMAIN t.contracts |-> CountedContract(t.contracts[k], record)]
      BY <1>4 DEF Reads
    <2>2. s.contracts[i] = CountedContract(c, record) /\ s.contracts[j] = CountedContract(d, record)
      BY <2>1
    <2>3. \A x : CountedContract(x, record).entity_index = x.entity_index
      BY DEF CountedContract
    <2> HIDE DEF c, d
    <2> QED
      BY <2>1, <2>2, <2>3
  <1>6. PICK bound : SemanticOK(s, bound)
    BY DEF Evident
  <1>7. \A k, l \in DOMAIN s.contracts : s.contracts[k].entity_index = s.contracts[l].entity_index => k = l
    BY <1>6 DEF SemanticOK, ClausesOwnEntities
  <1> HIDE DEF c, d
  <1>8. c.true_point_id = d.true_point_id \/ c.true_point_id = d.false_point_id
    BY <1>2
  <1>9. PICK q \in s.points : q.point_id = c.true_point_id /\ q.kind = "contract_true" /\ q.entity_index = c.entity_index
    BY <1>1 DEF ClausePoint
  <1>10. PICK p \in s.points : p.point_id = d.true_point_id /\ p.kind = "contract_true" /\ p.entity_index = d.entity_index
    BY <1>1 DEF ClausePoint
  <1>11. PICK r \in s.points : r.point_id = d.false_point_id /\ r.kind = "contract_false"
    BY <1>1 DEF ClausePoint
  <1>12. c.true_point_id # d.false_point_id
    BY <1>3, <1>9, <1>11
  <1>13. c.entity_index = d.entity_index
    BY <1>3, <1>8, <1>9, <1>10, <1>12
  <1> QED
    BY <1>5, <1>7, <1>13

\* A clause is switched off in the tables if some map switches it off.
LEMMA ClausesOff ==
  ASSUME NEW command, NEW t, NEW s, Evident(command, t, s), NEW i \in DOMAIN t.contracts,
         t.contracts[i].enforcement = "runtime_checked"
  PROVE  i \in SwitchedOff(s) <=> RawClause(t.contracts[i]) \in RawOff(command)
  <1> DEFINE maps == RawMaps(command)
             at(m, k) == PositionOf(t.contracts, ContractKey, ContractKey(OwnedClause(m.contracts[k], m, t)))
             off(m, x) == {RawClause(m.contracts[k]) :
                            k \in {j \in x.affected.clause_indices : m.contracts[j].enforcement = "runtime_checked"}}
  <1>1. GoodMaps(maps) /\ IsUnion(maps, t) /\ IsTable(t.exclusions, AllExclusions(maps, t))
    BY DEF Evident, GoodFiles, IsUnion
  <1>2. s.exclusions = t.exclusions
    BY DEF Evident, Reads
  <1>3. SwitchedOff(s) = UNION {x.affected.clause_indices : x \in AllExclusions(maps, t)}
    <2>1. SeqRange(t.exclusions) = AllExclusions(maps, t)
      BY <1>1 DEF IsTable, SeqRange
    <2> QED
      BY <1>2, <2>1 DEF SwitchedOff
  <1>4. ASSUME NEW m \in maps, NEW x \in SeqRange(m.exclusions)
        PROVE  /\ MovedExclusion(x, m, t).affected.clause_indices = {at(m, k) : k \in x.affected.clause_indices}
               /\ x.affected.clause_indices \subseteq DOMAIN m.contracts
    <2>1. ValidMap(m)
      BY <1>1 DEF GoodMaps
    <2>2. x \in Exclusion
      BY <2>1, MapRefers DEF SeqRange
    <2>3. "affected" \in DOMAIN Moved(x, m, t)
      BY <2>2 DEF Moved, Exclusion
    <2>4. MovedExclusion(x, m, t).affected.clause_indices = {at(m, k) : k \in x.affected.clause_indices}
      <3> HIDE DEF at
      <3> QED
        BY <2>3 DEF MovedExclusion, at
    <2>5. x.affected.clause_indices \subseteq DOMAIN m.contracts
      BY <2>1 DEF ValidMap, ExclusionsOK, ExclusionOK
    <2> QED
      BY <2>4, <2>5
  <1>5. ASSUME NEW m \in maps, NEW k \in DOMAIN m.contracts
        PROVE  /\ at(m, k) \in DOMAIN t.contracts
               /\ RawClause(t.contracts[at(m, k)]) = RawClause(m.contracts[k])
               /\ t.contracts[at(m, k)].enforcement = m.contracts[k].enforcement
    <2> DEFINE p == PositionOf(t.contracts, ContractKey, ContractKey(OwnedClause(m.contracts[k], m, t)))
    <2>1. p \in DOMAIN t.contracts /\ SameClause(p, m.contracts[k], m, t)
      BY <1>1, ClauseOrigin
    <2>2. at(m, k) = p
      OBVIOUS
    <2> HIDE DEF at, p
    <2> QED
      BY <2>1, <2>2 DEF SameClause
  <1>6. RawOff(command) = UNION {UNION {off(m, x) : x \in SeqRange(m.exclusions)} : m \in maps}
    BY DEF RawOff
  <1> HIDE DEF at, maps
  <1>7. ASSUME i \in SwitchedOff(s) PROVE RawClause(t.contracts[i]) \in RawOff(command)
    <2>1. PICK y \in AllExclusions(maps, t) : i \in y.affected.clause_indices
      BY <1>3, <1>7
    <2>2. PICK m \in maps : \E x \in SeqRange(m.exclusions) : y = MovedExclusion(x, m, t)
      BY <2>1 DEF AllExclusions
    <2>3. PICK x \in SeqRange(m.exclusions) : y = MovedExclusion(x, m, t)
      BY <2>2
    <2>4. PICK k \in x.affected.clause_indices : i = at(m, k)
      BY <1>4, <2>1, <2>3
    <2>5. k \in DOMAIN m.contracts
      BY <1>4, <2>4
    <2>6. RawClause(t.contracts[i]) = RawClause(m.contracts[k]) /\ m.contracts[k].enforcement = "runtime_checked"
      BY <1>5, <2>4, <2>5
    <2>7. RawClause(t.contracts[i]) \in off(m, x)
      BY <2>4, <2>6
    <2> HIDE DEF off
    <2> QED
      BY <1>6, <2>3, <2>7
  <1>8. ASSUME RawClause(t.contracts[i]) \in RawOff(command) PROVE i \in SwitchedOff(s)
    <2>1. PICK m \in maps : RawClause(t.contracts[i]) \in UNION {off(m, x) : x \in SeqRange(m.exclusions)}
      BY <1>6, <1>8
    <2>2. PICK x \in SeqRange(m.exclusions) : RawClause(t.contracts[i]) \in off(m, x)
      BY <2>1
    <2>3. PICK k \in x.affected.clause_indices :
              m.contracts[k].enforcement = "runtime_checked" /\ RawClause(t.contracts[i]) = RawClause(m.contracts[k])
      BY <2>2
    <2>4. k \in DOMAIN m.contracts
      BY <1>4, <2>3
    <2>5. /\ at(m, k) \in DOMAIN t.contracts /\ t.contracts[at(m, k)].enforcement = "runtime_checked"
          /\ RawClause(t.contracts[i]) = RawClause(t.contracts[at(m, k)])
      BY <1>5, <2>3, <2>4
    <2>6. i = at(m, k)
      BY <2>5, ClausesApart
    <2>7. i \in MovedExclusion(x, m, t).affected.clause_indices
      BY <1>4, <2>3, <2>6
    <2>8. MovedExclusion(x, m, t) \in AllExclusions(maps, t)
      BY DEF AllExclusions
    <2> QED
      BY <1>3, <2>7, <2>8
  <1> QED
    BY <1>7, <1>8

\* The clauses that a contract metric counts are those of the raw inputs, and none has run
\* that was not hit.
LEMMA ContractsRead ==
  ASSUME NEW command, NEW t, NEW s, Evident(command, t, s), NEW n \in Int, NEW empty,
         Meets(n, empty, RootSummary(s).contract.covered, RootSummary(s).contract.total)
  PROVE  RawMet(command, "contract", n, empty)
  <1> DEFINE A  == {i \in Clauses(s) : s.contracts[i].source_index \in Root(s)}
             R  == {i \in A : ClauseRan(s.contracts[i])}
             B  == RawClauses(command)
             H  == {u \in B : \E pid \in u : RawHit(command, pid)}
             f  == [i \in A |-> RawClause(t.contracts[i])]
             maps == RawMaps(command)
             mine(m) == {RawClause(c) : c \in {x \in SeqRange(m.contracts) : InUser(m, x) /\ x.enforcement = "runtime_checked"}}
             user(i) == t.contracts[i].enforcement = "runtime_checked"
                        /\ t.sources[t.contracts[i].source_index].ownership = "user"
  <1>1. RootSummary(s).contract.covered = Cardinality(R) /\ RootSummary(s).contract.total = Cardinality(A)
    BY DEF RootSummary, Group, ContractMetric, Share, Measured
  <1>2. GoodMaps(maps) /\ IsUnion(maps, t)
    BY DEF Evident, GoodFiles
  <1>3. Root(s) = {i \in DOMAIN t.sources : t.sources[i].ownership = "user"}
    BY DEF Evident, Reads, Root
  <1>4. /\ DOMAIN s.contracts = DOMAIN t.contracts
        /\ \A i \in DOMAIN t.contracts : /\ s.contracts[i].enforcement = t.contracts[i].enforcement
                                         /\ s.contracts[i].source_index = t.contracts[i].source_index
    <2>1. PICK record, value : Reads(command, t, s, record, value)
      BY DEF Evident
    <2>2. s.contracts = [i \in DOMAIN t.contracts |-> CountedContract(t.contracts[i], record)]
      BY <2>1 DEF Reads
    <2>3. \A x : CountedContract(x, record).enforcement = x.enforcement /\ CountedContract(x, record).source_index = x.source_index
      BY DEF CountedContract
    <2> QED
      BY <2>2, <2>3
  <1>5. \A i \in DOMAIN t.contracts : t.contracts[i].source_index \in DOMAIN t.sources
    BY <1>2, ClauseOrigin DEF SameClause
  <1>6. \A i \in DOMAIN t.contracts : i \in A <=> user(i) /\ RawClause(t.contracts[i]) \notin RawOff(command)
    <2> SUFFICES ASSUME NEW i \in DOMAIN t.contracts
                 PROVE  i \in A <=> user(i) /\ RawClause(t.contracts[i]) \notin RawOff(command)
      OBVIOUS
    <2>1. i \in A <=> user(i) /\ i \notin SwitchedOff(s)
      BY <1>3, <1>4, <1>5 DEF Clauses
    <2>2. user(i) => (i \in SwitchedOff(s) <=> RawClause(t.contracts[i]) \in RawOff(command))
      BY ClausesOff
    <2> QED
      BY <2>1, <2>2
  <1>7. A \subseteq DOMAIN t.contracts
    BY <1>4 DEF Clauses
  <1>8. B = (UNION {mine(m) : m \in maps}) \ RawOff(command)
    <2>1. RawClauses(command) = (UNION {mine(m) : m \in maps}) \ RawOff(command)
      <3> HIDE DEF A, R, H, f
      <3> QED
        BY Zenon DEF RawClauses
    <2> HIDE DEF mine, maps
    <2> QED
      BY <2>1
  <1>9. \A i \in A : f[i] = RawClause(t.contracts[i])
    OBVIOUS
  <1>10. \A i \in A : t.contracts[i].enforcement = "runtime_checked"
    BY <1>6, <1>7
  <1>11. f = [x \in A |-> f[x]]
    OBVIOUS
  <1> HIDE DEF A, f, B
  <1>12. B = {f[i] : i \in A}
    <2>1. ASSUME NEW u \in B PROVE \E i \in A : u = f[i]
      <3>1. PICK m \in maps : u \in mine(m)
        BY <1>8
      <3>2. PICK c \in SeqRange(m.contracts) : InUser(m, c) /\ c.enforcement = "runtime_checked" /\ u = RawClause(c)
        BY <3>1
      <3>3. PICK k \in DOMAIN m.contracts : c = m.contracts[k]
        BY DEF SeqRange
      <3>4. PICK i \in DOMAIN t.contracts : SameClause(i, c, m, t)
        <4> DEFINE p == PositionOf(t.contracts, ContractKey, ContractKey(OwnedClause(m.contracts[k], m, t)))
        <4>1. p \in DOMAIN t.contracts /\ SameClause(p, m.contracts[k], m, t)
          BY <1>2, ClauseOrigin
        <4> HIDE DEF p
        <4> QED
          BY <3>3, <4>1
      <3>5. user(i) /\ RawClause(t.contracts[i]) = u
        BY <3>2, <3>4 DEF SameClause, InUser
      <3>6. i \in A
        BY <1>6, <1>8, <3>5
      <3> QED
        BY <1>9, <3>5, <3>6
    <2>2. ASSUME NEW i \in A PROVE f[i] \in B
      <3>1. i \in DOMAIN t.contracts /\ user(i) /\ RawClause(t.contracts[i]) \notin RawOff(command)
        BY <1>6, <1>7
      <3>2. PICK m \in maps : \E c \in SeqRange(m.contracts) : SameClause(i, c, m, t)
        BY <1>2, <3>1, ClauseOrigin
      <3>3. PICK c \in SeqRange(m.contracts) : SameClause(i, c, m, t)
        BY <3>2
      <3>4. InUser(m, c) /\ c.enforcement = "runtime_checked" /\ RawClause(c) = f[i]
        BY <1>9, <3>1, <3>3 DEF SameClause, InUser
      <3>5. f[i] \in mine(m)
        BY <3>4
      <3> HIDE DEF mine
      <3> QED
        BY <1>8, <1>9, <3>1, <3>5
    <2> QED
      BY <2>1, <2>2
  <1>13. \A x, y \in A : f[x] = f[y] => x = y
    BY <1>7, <1>9, <1>10, ClausesApart
  <1>14. IsFiniteSet(A)
    <2>1. s.contracts \in Seq(Contract)
      BY DEF Evident, SemanticDocument
    <2>2. IsFiniteSet(DOMAIN s.contracts)
      BY <2>1, FS_Interval
    <2> QED
      BY <1>4, <1>7, <2>2, FS_Subset
  <1>15. \A x \in R : f[x] \in H
    <2> SUFFICES ASSUME NEW x \in R PROVE f[x] \in H
      OBVIOUS
    <2> DEFINE c == t.contracts[x]  d == s.contracts[x]
    <2>1. x \in A /\ ClauseRan(d)
      OBVIOUS
    <2>2. /\ d.count_true.value \in Nat /\ (d.count_true.value > 0 => RawHit(command, c.true_point_id))
          /\ d.count_false.value \in Nat /\ (d.count_false.value > 0 => RawHit(command, c.false_point_id))
      BY <1>7, <1>10, <2>1, ClausePoints
    <2>3. f[x] = {c.true_point_id, c.false_point_id}
      BY <1>9, <2>1 DEF RawClause
    <2> HIDE DEF c, d
    <2>4. d.count_true.value > 0 \/ d.count_false.value > 0
      BY <2>1, <2>2 DEF ClauseRan
    <2>5. \E pid \in f[x] : RawHit(command, pid)
      BY <2>2, <2>3, <2>4
    <2> QED
      BY <1>12, <2>1, <2>5
  <1>16. R \in SUBSET A /\ H \in SUBSET B
    OBVIOUS
  <1>17. Meets(n, empty, Cardinality(R), Cardinality(A))
    <2>1. \A a, b, c, d : a = c /\ b = d /\ Meets(n, empty, a, b) => Meets(n, empty, c, d)
      OBVIOUS
    <2> HIDE DEF R
    <2> QED
      BY <1>1, <2>1 DEF A
  <1>18. RawCovers(n, empty, B, H)
    <2> HIDE DEF R, H
    <2> QED
      BY <1>11, <1>12, <1>13, <1>14, <1>15, <1>16, <1>17, Measures
  <1> QED
    BY <1>18 DEF RawMet, B

-----------------------------------------------------------------------------
(* Units of the metrics: regions.                                          *)

\* A region of the tables as the raw inputs tell it, and whether it is one of theirs.
RegionUnit(r, t) ==
    [place |-> <<SourceKey(t.sources[r.source_index]), r.span>>, kind |-> r.kind,
     counter_expression |-> r.counter_expression,
     lines |-> {<<SourceKey(t.sources[r.source_index]), n>> : n \in IF r.line_contributing THEN r.line_numbers ELSE {}}]
UserRegion(r, t) == r.classification = "user" /\ t.sources[r.source_index].ownership = "user"

\* No two sources of the tables have one path and digest.
LEMMA SourcesApart ==
  ASSUME NEW maps, NEW t, SourcesUnited(maps, t), NEW i \in DOMAIN t.sources, NEW j \in DOMAIN t.sources,
         SourceKey(t.sources[i]) = SourceKey(t.sources[j])
  PROVE  i = j
  <1>1. IsTable(t.sources, AllSources(maps)) /\ ~Contradicts(AllSources(maps), SourceKey)
    BY DEF SourcesUnited
  <1>2. t.sources[i] \in AllSources(maps) /\ t.sources[j] \in AllSources(maps)
    BY <1>1 DEF IsTable
  <1>3. t.sources[i] = t.sources[j]
    BY <1>1, <1>2 DEF Contradicts
  <1> QED
    BY <1>1, <1>3 DEF IsTable

\* The user regions of the raw inputs are those of the tables.
LEMMA RegionsAreRaw ==
  ASSUME NEW command, NEW t, NEW s, Evident(command, t, s)
  PROVE  /\ RawRegions(command) = {RegionUnit(t.regions[i], t) : i \in {j \in DOMAIN t.regions : UserRegion(t.regions[j], t)}}
         /\ \A i \in DOMAIN t.regions : t.regions[i].source_index \in DOMAIN t.sources /\ t.regions[i] \in MapRegion
         /\ \A i, j \in DOMAIN t.regions : RegionUnit(t.regions[i], t) = RegionUnit(t.regions[j], t) => i = j
  <1> DEFINE maps == RawMaps(command)
             C    == Records(maps, t).regions
             unit(m, r) == [place |-> RawPlace(m, r, r.span), kind |-> r.kind, counter_expression |-> r.counter_expression,
                            lines |-> {RawPlace(m, r, n) : n \in IF r.line_contributing THEN r.line_numbers ELSE {}}]
             mine(m) == {unit(m, r) : r \in {x \in SeqRange(m.regions) : x.classification = "user" /\ InUser(m, x)}}
  <1>1. GoodMaps(maps) /\ PlacesUnited(maps, t) /\ IsTable(t.regions, C) /\ ~Contradicts(C, RegionKey)
        /\ SourcesUnited(maps, t)
    BY DEF Evident, GoodFiles, IsUnion, PlacesUnited
  <1>2. C = UNION {{Owned(r, m, t) : r \in SeqRange(m.regions)} : m \in maps}
    BY DEF Records
  <1>3. RawRegions(command) = UNION {mine(m) : m \in maps}
    BY DEF RawRegions
  <1>4. ASSUME NEW m \in maps, NEW r \in SeqRange(m.regions)
        PROVE  /\ RegionUnit(Owned(r, m, t), t) = unit(m, r)
               /\ UserRegion(Owned(r, m, t), t) <=> r.classification = "user" /\ InUser(m, r)
               /\ Owned(r, m, t).source_index \in DOMAIN t.sources /\ Owned(r, m, t) \in MapRegion
    <2> DEFINE o == Owned(r, m, t)
    <2>1. /\ o \in MapRegion /\ o.classification = r.classification /\ o.counter_expression = r.counter_expression
          /\ o.kind = r.kind /\ o.line_contributing = r.line_contributing /\ o.line_numbers = r.line_numbers
          /\ o.span = r.span
          /\ o.source_index \in DOMAIN t.sources /\ t.sources[o.source_index] = m.sources[r.source_index]
      BY <1>1, RegionMoves DEF GoodMaps
    <2> HIDE DEF o
    <2>2. RegionUnit(o, t) = unit(m, r)
      BY <2>1 DEF RegionUnit, RawPlace
    <2>3. UserRegion(o, t) <=> r.classification = "user" /\ InUser(m, r)
      BY <2>1 DEF UserRegion, InUser
    <2> QED
      BY <2>1, <2>2, <2>3 DEF o
  <1> HIDE DEF unit, C
  <1>5. ASSUME NEW i \in DOMAIN t.regions
        PROVE  \E m \in maps : \E r \in SeqRange(m.regions) : t.regions[i] = Owned(r, m, t)
    <2>1. t.regions[i] \in C
      BY <1>1 DEF IsTable
    <2>2. PICK m \in maps : t.regions[i] \in {Owned(r, m, t) : r \in SeqRange(m.regions)}
      BY <1>2, <2>1
    <2> QED
      BY <2>2
  <1>6. ASSUME NEW m \in maps, NEW r \in SeqRange(m.regions)
        PROVE  \E i \in DOMAIN t.regions : t.regions[i] = Owned(r, m, t)
    <2>1. Owned(r, m, t) \in C
      BY <1>2
    <2> QED
      BY <1>1, <2>1 DEF IsTable
  <1>7. ASSUME NEW u \in RawRegions(command)
        PROVE  \E i \in DOMAIN t.regions : UserRegion(t.regions[i], t) /\ u = RegionUnit(t.regions[i], t)
    <2>1. PICK m \in maps : u \in mine(m)
      BY <1>3
    <2>2. PICK r \in SeqRange(m.regions) : r.classification = "user" /\ InUser(m, r) /\ u = unit(m, r)
      BY <2>1
    <2>3. PICK i \in DOMAIN t.regions : t.regions[i] = Owned(r, m, t)
      BY <1>6
    <2> QED
      BY <1>4, <2>2, <2>3
  <1>8. ASSUME NEW i \in DOMAIN t.regions, UserRegion(t.regions[i], t)
        PROVE  RegionUnit(t.regions[i], t) \in RawRegions(command)
    <2>1. PICK m \in maps : \E r \in SeqRange(m.regions) : t.regions[i] = Owned(r, m, t)
      BY <1>5
    <2>2. PICK r \in SeqRange(m.regions) : t.regions[i] = Owned(r, m, t)
      BY <2>1
    <2>3. r.classification = "user" /\ InUser(m, r) /\ RegionUnit(t.regions[i], t) = unit(m, r)
      BY <1>4, <1>8, <2>2
    <2>4. unit(m, r) \in mine(m)
      BY <2>3
    <2> HIDE DEF mine
    <2> QED
      BY <1>3, <2>3, <2>4
  <1>9. \A i \in DOMAIN t.regions : t.regions[i].source_index \in DOMAIN t.sources /\ t.regions[i] \in MapRegion
    BY <1>4, <1>5
  <1>10. ASSUME NEW i \in DOMAIN t.regions, NEW j \in DOMAIN t.regions,
                RegionUnit(t.regions[i], t) = RegionUnit(t.regions[j], t)
         PROVE  i = j
    <2> DEFINE q == t.regions[i]  r == t.regions[j]
    <2>1. /\ q.source_index \in DOMAIN t.sources /\ r.source_index \in DOMAIN t.sources
          /\ q \in C /\ r \in C /\ RegionUnit(q, t) = RegionUnit(r, t)
      BY <1>1, <1>9, <1>10 DEF IsTable
    <2> HIDE DEF q, r
    <2>2. /\ <<SourceKey(t.sources[q.source_index]), q.span>> = <<SourceKey(t.sources[r.source_index]), r.span>>
          /\ q.kind = r.kind /\ q.counter_expression = r.counter_expression
      BY <2>1 DEF RegionUnit
    <2>3. SourceKey(t.sources[q.source_index]) = SourceKey(t.sources[r.source_index]) /\ q.span = r.span
      BY <2>2
    <2>4. q.source_index = r.source_index
      BY <1>1, <2>1, <2>3, SourcesApart
    <2>5. RegionKey(q) = RegionKey(r)
      BY <2>2, <2>3, <2>4 DEF RegionKey, SpanKey
    <2>6. q = r
      BY <1>1, <2>1, <2>5 DEF Contradicts
    <2> QED
      BY <1>1, <2>6 DEF IsTable, q, r
  <1> QED
    BY <1>7, <1>8, <1>9, <1>10

\* A region of the semantic model is that of the tables with a count, which is no more
\* than the raw inputs give it.
LEMMA SemanticRegions ==
  ASSUME NEW command, NEW t, NEW s, Evident(command, t, s)
  PROVE  /\ DOMAIN s.regions = DOMAIN t.regions
         /\ \A i \in DOMAIN t.regions :
               /\ s.regions[i].classification = t.regions[i].classification
               /\ s.regions[i].source_index = t.regions[i].source_index
               /\ s.regions[i].line_contributing = t.regions[i].line_contributing
               /\ s.regions[i].line_numbers = t.regions[i].line_numbers
               /\ s.regions[i].span = t.regions[i].span
               /\ s.regions[i].count.value \in Nat
               /\ s.regions[i].count.value > 0 => RawRan(command, ExprOf(RegionUnit(t.regions[i], t)))
  <1>1. PICK record, value : Reads(command, t, s, record, value)
    BY DEF Evident
  <1>2. s.regions = [i \in DOMAIN t.regions |-> CountedRegion(t.regions[i], value[i])]
    BY <1>1 DEF Reads
  <1>3. ASSUME NEW i \in DOMAIN t.regions
        PROVE  /\ s.regions[i].classification = t.regions[i].classification
               /\ s.regions[i].source_index = t.regions[i].source_index
               /\ s.regions[i].line_contributing = t.regions[i].line_contributing
               /\ s.regions[i].line_numbers = t.regions[i].line_numbers
               /\ s.regions[i].span = t.regions[i].span
               /\ s.regions[i].count.value \in Nat
               /\ s.regions[i].count.value > 0 => RawRan(command, ExprOf(RegionUnit(t.regions[i], t)))
    <2> DEFINE r == t.regions[i]  u == RegionUnit(r, t)  q == s.regions[i]
    <2>1. q = CountedRegion(r, value[i])
      BY <1>2
    <2>2. value[i].value \in Nat /\ (value[i].value > 0 => RawRan(command, ExprOf(r)))
      BY <1>1 DEF Reads
    <2>3. u.counter_expression = r.counter_expression
      BY DEF RegionUnit
    <2> HIDE DEF r, q, u
    <2>4. ExprOf(u) = ExprOf(r)
      BY <2>3 DEF ExprOf, TermIDs
    <2>5. /\ q.classification = r.classification /\ q.source_index = r.source_index
          /\ q.line_contributing = r.line_contributing /\ q.line_numbers = r.line_numbers /\ q.span = r.span
          /\ q.count = value[i]
      BY <2>1 DEF CountedRegion
    <2>6. q.count.value \in Nat /\ (q.count.value > 0 => RawRan(command, ExprOf(u)))
      BY <2>2, <2>4, <2>5
    <2> QED
      BY <2>5, <2>6 DEF q, r, u
  <1>4. DOMAIN s.regions = DOMAIN t.regions
    BY <1>2
  <1> QED
    BY <1>3, <1>4

\* The regions that a region metric counts are those of the raw inputs, and none has run
\* that did not run there.
LEMMA RegionsRead ==
  ASSUME NEW command, NEW t, NEW s, Evident(command, t, s), NEW n \in Int, NEW empty,
         Meets(n, empty, RootSummary(s).region.covered, RootSummary(s).region.total)
  PROVE  RawMet(command, "region", n, empty)
  <1> DEFINE A  == {i \in UserRegions(s) : s.regions[i].source_index \in Root(s)}
             R  == {i \in A : s.regions[i].count.value > 0}
             B  == RawRegions(command)
             H  == {r \in B : RawRan(command, ExprOf(r))}
             f  == [i \in A |-> RegionUnit(t.regions[i], t)]
  <1>1. RootSummary(s).region.covered = Cardinality(R) /\ RootSummary(s).region.total = Cardinality(A)
    BY DEF RootSummary, Group, RegionMetric, Share, Measured
  <1>2. Root(s) = {i \in DOMAIN t.sources : t.sources[i].ownership = "user"}
    BY DEF Evident, Reads, Root
  <1>3. /\ DOMAIN s.regions = DOMAIN t.regions
        /\ \A i \in DOMAIN t.regions : /\ s.regions[i].classification = t.regions[i].classification
                                       /\ s.regions[i].source_index = t.regions[i].source_index
                                       /\ s.regions[i].count.value > 0 => RawRan(command, ExprOf(RegionUnit(t.regions[i], t)))
    BY SemanticRegions
  <1>4. /\ B = {RegionUnit(t.regions[i], t) : i \in {j \in DOMAIN t.regions : UserRegion(t.regions[j], t)}}
        /\ \A i \in DOMAIN t.regions : t.regions[i].source_index \in DOMAIN t.sources
        /\ \A i, j \in DOMAIN t.regions : RegionUnit(t.regions[i], t) = RegionUnit(t.regions[j], t) => i = j
    BY RegionsAreRaw
  <1>5. A = {j \in DOMAIN t.regions : UserRegion(t.regions[j], t)}
    BY <1>2, <1>3, <1>4 DEF UserRegions, UserRegion
  <1>6. \A i \in A : f[i] = RegionUnit(t.regions[i], t)
    OBVIOUS
  <1>7. f = [x \in A |-> f[x]]
    OBVIOUS
  <1> HIDE DEF A, f, B
  <1>8. B = {f[i] : i \in A}
    BY <1>4, <1>5, <1>6
  <1>9. \A x, y \in A : f[x] = f[y] => x = y
    BY <1>4, <1>5, <1>6
  <1>10. IsFiniteSet(A)
    <2>1. s.regions \in Seq(Region)
      BY DEF Evident, SemanticDocument
    <2>2. IsFiniteSet(DOMAIN s.regions)
      BY <2>1, FS_Interval
    <2> QED
      BY <1>3, <1>5, <2>2, FS_Subset
  <1>11. \A x \in R : f[x] \in H
    BY <1>3, <1>5, <1>6, <1>8
  <1>12. R \in SUBSET A /\ H \in SUBSET B
    OBVIOUS
  <1>13. Meets(n, empty, Cardinality(R), Cardinality(A))
    <2>1. \A a, b, c, d : a = c /\ b = d /\ Meets(n, empty, a, b) => Meets(n, empty, c, d)
      OBVIOUS
    <2> HIDE DEF R
    <2> QED
      BY <1>1, <2>1 DEF A
  <1>14. RawCovers(n, empty, B, H)
    <2> HIDE DEF R, H
    <2> QED
      BY <1>7, <1>8, <1>9, <1>10, <1>11, <1>12, <1>13, Measures
  <1> QED
    BY <1>14 DEF RawMet, B

-----------------------------------------------------------------------------
(* Units of the metrics: lines.                                            *)

\* The places of the lines of regions, and a user region that contributes to one of them.
LinePlaces(regions) == UNION {{<<r.source_index, n>> : n \in r.line_numbers} : r \in SeqRange(regions)}
Contributes(regions, i, w) ==
    /\ i \in DOMAIN regions /\ regions[i].source_index = w[1] /\ w[2] \in regions[i].line_numbers
    /\ regions[i].line_contributing /\ regions[i].classification = "user"

\* There is one line of each place; it is executable if a user region contributes to it and
\* covered if all of them ran.
LEMMA LinesAre ==
  ASSUME NEW regions, IsFiniteSet(LinePlaces(regions)), \A w \in LinePlaces(regions) : w \in Seq(Int),
         \A i \in DOMAIN regions : regions[i].count.value \in Nat
  PROVE  LET place(n) == <<Lines(regions)[n].source_index, Lines(regions)[n].line>> IN
         /\ \A n \in DOMAIN Lines(regions) :
               /\ place(n) \in LinePlaces(regions)
               /\ Lines(regions)[n].status \in Executable <=> \E i : Contributes(regions, i, place(n))
               /\ Lines(regions)[n].status = "covered" =>
                     \A i : Contributes(regions, i, place(n)) => regions[i].count.value > 0
         /\ \A w \in LinePlaces(regions) : \E n \in DOMAIN Lines(regions) : place(n) = w
         /\ \A n, k \in DOMAIN Lines(regions) : place(n) = place(k) => n = k
         /\ IsFiniteSet(DOMAIN Lines(regions))
  <1> DEFINE where == UNION {{<<r.source_index, n>> : n \in r.line_numbers} : r \in SeqRange(regions)}
             listed(w) == {i \in DOMAIN regions : regions[i].source_index = w[1] /\ w[2] \in regions[i].line_numbers}
             contributing(w) == {i \in listed(w) : regions[i].line_contributing}
             ran(w) == {regions[i].count.value > 0 :
                          i \in {j \in contributing(w) : regions[j].classification = "user"}}
             status(w) ==
               CASE ran(w) = {TRUE}        -> "covered"
                 [] ran(w) = {TRUE, FALSE} -> "partial"
                 [] ran(w) = {FALSE}       -> "uncovered"
                 [] OTHER -> IF \E i \in listed(w) : regions[i].classification = "excluded"
                             THEN "excluded" ELSE "non_executable"
             order == SortedBy(where, LAMBDA w : w)
             L     == Lines(regions)
             place(n) == <<L[n].source_index, L[n].line>>
  <1>1. where = LinePlaces(regions)
    BY DEF LinePlaces
  <1>2. IsTable(order, where)
    <2>1. ~Contradicts(where, LAMBDA w : w)
      BY DEF Contradicts
    <2> HIDE DEF where
    <2> QED
      BY <1>1, <2>1, PairTable
  <1>3. L = [n \in DOMAIN order |->
               [line |-> order[n][2], region_indices |-> contributing(order[n]),
                source_index |-> order[n][1], status |-> status(order[n])]]
    BY DEF Lines
  <1> HIDE DEF L, order, status
  <1>4. /\ DOMAIN L = DOMAIN order
        /\ \A n \in DOMAIN L : L[n].source_index = order[n][1] /\ L[n].line = order[n][2] /\ L[n].status = status(order[n])
    BY <1>3
  <1>5. \A w \in where : w = <<w[1], w[2]>>
    OBVIOUS
  <1>6. \A n \in DOMAIN L : order[n] \in where /\ place(n) = order[n]
    BY <1>2, <1>4, <1>5 DEF IsTable
  <1> DEFINE of(w) == {j \in contributing(w) : regions[j].classification = "user"}
             hot(i) == regions[i].count.value > 0
  <1>7. \A w : \A i : i \in of(w) <=> Contributes(regions, i, w)
    BY DEF Contributes
  <1>8. ASSUME NEW w
        PROVE  /\ status(w) \in Executable <=> \E i : Contributes(regions, i, w)
               /\ status(w) = "covered" => \A i : Contributes(regions, i, w) => regions[i].count.value > 0
    <2>1. ran(w) = {hot(i) : i \in of(w)}
      OBVIOUS
    <2> HIDE DEF of, ran
    <2>2. ASSUME NEW i, Contributes(regions, i, w) PROVE i \in of(w) /\ hot(i) \in ran(w)
      BY <1>7, <2>1, <2>2
    <2>3. status(w) \in {"excluded", "non_executable"} \/ ran(w) # {}
      BY DEF status
    <2>4. ran(w) # {} => \E i : Contributes(regions, i, w)
      BY <1>7, <2>1
    <2>5. \A x \in ran(w) : x \in BOOLEAN
      <3>1. \A i \in DOMAIN regions : hot(i) \in BOOLEAN
        OBVIOUS
      <3>2. of(w) \subseteq DOMAIN regions
        BY DEF of
      <3> HIDE DEF hot
      <3> QED
        BY <2>1, <3>1, <3>2
    <2> DEFINE r == ran(w)
    <2>6. \/ status(w) = "covered" /\ r = {TRUE}
          \/ status(w) = "partial" /\ r = {TRUE, FALSE}
          \/ status(w) = "uncovered" /\ r = {FALSE}
          \/ /\ status(w) \in {"excluded", "non_executable"}
             /\ r # {TRUE} /\ r # {TRUE, FALSE} /\ r # {FALSE}
      <3> HIDE DEF listed, of
      <3> QED
        BY DEF status
    <2> HIDE DEF status, hot
    <2>7. r = {} \/ r = {TRUE} \/ r = {FALSE} \/ r = {TRUE, FALSE}
      <3>1. \A x \in r : x \in BOOLEAN
        BY <2>5
      <3> HIDE DEF r
      <3> QED
        BY <3>1
    <2>8. status(w) \in Executable <=> \E i : Contributes(regions, i, w)
      <3>1. ASSUME status(w) \in Executable PROVE \E i : Contributes(regions, i, w)
        <4>1. status(w) \notin {"excluded", "non_executable"}
          BY <3>1 DEF Executable
        <4> QED
          BY <2>3, <2>4, <4>1
      <3>2. ASSUME NEW i, Contributes(regions, i, w) PROVE status(w) \in Executable
        <4>1. r # {}
          BY <2>2, <3>2
        <4>2. status(w) \in {"covered", "partial", "uncovered"}
          <5> HIDE DEF r
          <5> QED
            BY <2>6, <2>7, <4>1
        <4> QED
          BY <4>2 DEF Executable
      <3> QED
        BY <3>1, <3>2
    <2>9. ASSUME status(w) = "covered", NEW i, Contributes(regions, i, w) PROVE regions[i].count.value > 0
      <3>1. r = {TRUE}
        <4> HIDE DEF r
        <4> QED
          BY <2>6, <2>9
      <3>2. hot(i) \in r
        BY <2>2, <2>9
      <3>3. hot(i)
        BY <3>1, <3>2
      <3> QED
        BY <3>3 DEF hot
    <2> QED
      BY <2>8, <2>9
  <1> HIDE DEF where, place
  <1>9. ASSUME NEW n \in DOMAIN L
        PROVE  /\ place(n) \in LinePlaces(regions)
               /\ L[n].status \in Executable <=> \E i : Contributes(regions, i, place(n))
               /\ L[n].status = "covered" => \A i : Contributes(regions, i, place(n)) => regions[i].count.value > 0
    <2>1. L[n].status = status(order[n]) /\ order[n] \in where /\ place(n) = order[n]
      BY <1>4, <1>6
    <2> QED
      BY <1>1, <1>8, <2>1
  <1>10. \A w \in LinePlaces(regions) : \E n \in DOMAIN L : place(n) = w
    BY <1>1, <1>2, <1>4, <1>6 DEF IsTable
  <1>11. \A n, k \in DOMAIN L : place(n) = place(k) => n = k
    BY <1>2, <1>4, <1>6 DEF IsTable
  <1>12. IsFiniteSet(DOMAIN L)
    BY <1>2, <1>4, FS_Interval DEF IsTable
  <1> QED
    BY <1>9, <1>10, <1>11, <1>12 DEF L, place

\* The places of the lines of the semantic model are finitely many pairs of numbers.
LEMMA PlacesRead ==
  ASSUME NEW command, NEW t, NEW s, Evident(command, t, s)
  PROVE  IsFiniteSet(LinePlaces(s.regions)) /\ \A w \in LinePlaces(s.regions) : w \in Seq(Int)
  <1> DEFINE maps == RawMaps(command)
             D == DOMAIN s.regions
             g == [i \in D |-> {<<s.regions[i].source_index, n>> : n \in s.regions[i].line_numbers}]
  <1>1. GoodMaps(maps) /\ PlacesUnited(maps, t) /\ IsTable(t.regions, Records(maps, t).regions)
    BY DEF Evident, GoodFiles, IsUnion
  <1>2. s.regions \in Seq(Region)
    BY DEF Evident, SemanticDocument
  <1>3. IsFiniteSet(D)
    BY <1>2, FS_Interval
  <1>4. ASSUME NEW i \in D
        PROVE  /\ s.regions[i].source_index \in Int
               /\ s.regions[i].line_numbers \subseteq Int /\ IsFiniteSet(s.regions[i].line_numbers)
    <2>1. i \in DOMAIN t.regions /\ s.regions[i].line_numbers = t.regions[i].line_numbers
      BY SemanticRegions
    <2>2. t.regions[i] \in Records(maps, t).regions
      BY <1>1, <2>1 DEF IsTable
    <2>3. PICK m \in maps : \E r \in SeqRange(m.regions) : t.regions[i] = Owned(r, m, t)
      BY <2>2 DEF Records
    <2>4. PICK r \in SeqRange(m.regions) : t.regions[i] = Owned(r, m, t)
      BY <2>3
    <2>5. ValidMap(m)
      BY <1>1 DEF GoodMaps
    <2>6. t.regions[i].line_numbers = r.line_numbers
      BY <1>1, <2>4, <2>5, RegionMoves
    <2>7. r.line_numbers \subseteq r.span.start_line .. r.span.end_line /\ r \in MapRegion
      <3>1. RegionOK(r, m)
        BY <2>5 DEF ValidMap, RegionsOK
      <3>2. r \in MapRegion
        BY <2>5, MapRefers DEF SeqRange
      <3> QED
        BY <3>1, <3>2 DEF RegionOK
    <2>8. r.span.start_line \in Int /\ r.span.end_line \in Int
      BY <2>7 DEF MapRegion, Span, Text
    <2>9. IsFiniteSet(r.line_numbers)
      BY <2>7, <2>8, FS_Interval, FS_Subset
    <2>10. s.regions[i] \in Region
      BY <1>2
    <2>11. s.regions[i].source_index \in Int
      BY <2>10 DEF Region, Index
    <2>12. r.line_numbers \subseteq Int
      BY <2>7, <2>8
    <2> QED
      BY <2>1, <2>6, <2>9, <2>11, <2>12
  <1>5. LinePlaces(s.regions) = UNION {g[i] : i \in D}
    <2> DEFINE of(r) == {<<r.source_index, n>> : n \in r.line_numbers}
    <2>1. LinePlaces(s.regions) = UNION {of(r) : r \in SeqRange(s.regions)}
      BY DEF LinePlaces
    <2>2. \A i \in D : g[i] = of(s.regions[i])
      OBVIOUS
    <2> HIDE DEF of, g
    <2> QED
      BY <2>1, <2>2 DEF SeqRange
  <1>6. ASSUME NEW i \in D PROVE IsFiniteSet(g[i])
    <2> DEFINE N == s.regions[i].line_numbers
               h == [n \in N |-> <<s.regions[i].source_index, n>>]
    <2>1. g[i] = {h[n] : n \in N} /\ DOMAIN h = N /\ h = [n \in N |-> h[n]]
      OBVIOUS
    <2>2. IsFiniteSet(N)
      BY <1>4
    <2> HIDE DEF h, N, g
    <2> QED
      BY <2>1, <2>2, FiniteImage
  <1>7. g = [i \in D |-> g[i]]
    OBVIOUS
  <1>8. \A w \in LinePlaces(s.regions) : w \in Seq(Int)
    <2> SUFFICES ASSUME NEW w \in LinePlaces(s.regions) PROVE w \in Seq(Int)
      OBVIOUS
    <2>1. PICK i \in D : w \in {<<s.regions[i].source_index, n>> : n \in s.regions[i].line_numbers}
      BY <1>5
    <2>2. PICK n \in s.regions[i].line_numbers : w = <<s.regions[i].source_index, n>>
      BY <2>1
    <2> QED
      BY <1>4, <2>2
  <1> HIDE DEF g, D
  <1>9. IsFiniteSet(LinePlaces(s.regions))
    BY <1>3, <1>5, <1>6, <1>7, FiniteUnion
  <1> QED
    BY <1>8, <1>9

\* The lines of the semantic model, each at its own place.
LEMMA SemanticLines ==
  ASSUME NEW command, NEW t, NEW s, Evident(command, t, s)
  PROVE  LET place(n) == <<s.lines[n].source_index, s.lines[n].line>> IN
         /\ \A n \in DOMAIN s.lines :
               /\ s.lines[n].status \in Executable <=> \E i : Contributes(s.regions, i, place(n))
               /\ s.lines[n].status = "covered" =>
                     \A i : Contributes(s.regions, i, place(n)) => s.regions[i].count.value > 0
         /\ \A w \in LinePlaces(s.regions) : \E n \in DOMAIN s.lines : place(n) = w
         /\ \A n, k \in DOMAIN s.lines : place(n) = place(k) => n = k
         /\ IsFiniteSet(DOMAIN s.lines)
  <1>1. s.lines = Lines(s.regions)
    BY DEF Evident, Reads
  <1>2. \A i \in DOMAIN s.regions : s.regions[i].count.value \in Nat
    BY SemanticRegions
  <1>3. IsFiniteSet(LinePlaces(s.regions)) /\ \A w \in LinePlaces(s.regions) : w \in Seq(Int)
    BY PlacesRead
  <1> DEFINE L == Lines(s.regions)  place(n) == <<L[n].source_index, L[n].line>>
  <1>4. /\ \A n \in DOMAIN L :
               /\ L[n].status \in Executable <=> \E i : Contributes(s.regions, i, place(n))
               /\ L[n].status = "covered" => \A i : Contributes(s.regions, i, place(n)) => s.regions[i].count.value > 0
        /\ \A w \in LinePlaces(s.regions) : \E n \in DOMAIN L : place(n) = w
        /\ \A n, k \in DOMAIN L : place(n) = place(k) => n = k
        /\ IsFiniteSet(DOMAIN L)
    BY <1>2, <1>3, LinesAre
  <1> QED
    BY <1>1, <1>4

\* The lines that a line metric counts are those of the raw inputs, and none is covered
\* that has a region there that did not run.
LEMMA LinesRead ==
  ASSUME NEW command, NEW t, NEW s, Evident(command, t, s), NEW n \in Int, NEW empty,
         Meets(n, empty, RootSummary(s).line.covered, RootSummary(s).line.total)
  PROVE  RawMet(command, "line", n, empty)
  <1> DEFINE A  == {k \in ExecutableLines(s) : s.lines[k].source_index \in Root(s)}
             R  == {k \in A : s.lines[k].status = "covered"}
             U  == RawRegions(command)
             B  == UNION {r.lines : r \in U}
             H  == {l \in B : \A r \in U : l \in r.lines => r \in {x \in U : RawRan(command, ExprOf(x))}}
             place(k) == <<s.lines[k].source_index, s.lines[k].line>>
             f  == [k \in A |-> <<SourceKey(t.sources[s.lines[k].source_index]), s.lines[k].line>>]
             unit(i) == RegionUnit(t.regions[i], t)
  <1>1. RootSummary(s).line.covered = Cardinality(R) /\ RootSummary(s).line.total = Cardinality(A)
    BY DEF RootSummary, Group, LineMetric, Measured
  <1>2. Root(s) = {i \in DOMAIN t.sources : t.sources[i].ownership = "user"}
    BY DEF Evident, Reads, Root
  <1>3. /\ \A k \in DOMAIN s.lines :
               /\ s.lines[k].status \in Executable <=> \E i : Contributes(s.regions, i, place(k))
               /\ s.lines[k].status = "covered" =>
                     \A i : Contributes(s.regions, i, place(k)) => s.regions[i].count.value > 0
        /\ \A w \in LinePlaces(s.regions) : \E k \in DOMAIN s.lines : place(k) = w
        /\ \A j, k \in DOMAIN s.lines : place(j) = place(k) => j = k
        /\ IsFiniteSet(DOMAIN s.lines)
    BY SemanticLines
  <1>4. /\ DOMAIN s.regions = DOMAIN t.regions
        /\ \A i \in DOMAIN t.regions : /\ s.regions[i].classification = t.regions[i].classification
                                       /\ s.regions[i].source_index = t.regions[i].source_index
                                       /\ s.regions[i].line_contributing = t.regions[i].line_contributing
                                       /\ s.regions[i].line_numbers = t.regions[i].line_numbers
                                       /\ s.regions[i].count.value > 0 => RawRan(command, ExprOf(RegionUnit(t.regions[i], t)))
    BY SemanticRegions
  <1>5. /\ U = {RegionUnit(t.regions[i], t) : i \in {j \in DOMAIN t.regions : UserRegion(t.regions[j], t)}}
        /\ \A i \in DOMAIN t.regions : t.regions[i].source_index \in DOMAIN t.sources /\ t.regions[i] \in MapRegion
    BY RegionsAreRaw
  <1>6. \A i, j \in DOMAIN t.sources : SourceKey(t.sources[i]) = SourceKey(t.sources[j]) => i = j
    <2>1. SourcesUnited(RawMaps(command), t)
      BY DEF Evident, IsUnion, PlacesUnited
    <2> QED
      BY <2>1, SourcesApart
  <1>7. \A k \in A : k \in DOMAIN s.lines /\ s.lines[k].status \in Executable /\ s.lines[k].source_index \in DOMAIN t.sources
                     /\ t.sources[s.lines[k].source_index].ownership = "user"
    BY <1>2 DEF ExecutableLines
  <1>8. \A k \in DOMAIN s.lines : /\ s.lines[k].status \in Executable /\ s.lines[k].source_index \in DOMAIN t.sources
                                  /\ t.sources[s.lines[k].source_index].ownership = "user"
                                  => k \in A
    BY <1>2 DEF ExecutableLines
  <1>9. \A k \in A : f[k] = <<SourceKey(t.sources[s.lines[k].source_index]), s.lines[k].line>>
    OBVIOUS
  <1>10. f = [x \in A |-> f[x]] /\ R \in SUBSET A /\ H \in SUBSET B
    OBVIOUS
  \* What the lines of a region's unit are.
  <1>11. ASSUME NEW i \in DOMAIN t.regions, NEW l
         PROVE  l \in unit(i).lines <=>
                   /\ t.regions[i].line_contributing
                   /\ \E x \in t.regions[i].line_numbers : l = <<SourceKey(t.sources[t.regions[i].source_index]), x>>
    <2> DEFINE r == t.regions[i]  key == SourceKey(t.sources[t.regions[i].source_index])
    <2>1. unit(i).lines = {<<key, x>> : x \in IF r.line_contributing THEN r.line_numbers ELSE {}}
      BY DEF RegionUnit
    <2> HIDE DEF r, key, unit
    <2>2. l \in unit(i).lines <=> r.line_contributing /\ \E x \in r.line_numbers : l = <<key, x>>
      BY <2>1
    <2> QED
      BY <2>2 DEF r, key
  <1> HIDE DEF A, f, U
  <1>12. ASSUME NEW i \in DOMAIN t.regions, UserRegion(t.regions[i], t), NEW l \in unit(i).lines
         PROVE  \E k \in A : /\ f[k] = l /\ Contributes(s.regions, i, place(k))
    <2> DEFINE r == t.regions[i]
    <2>1. PICK x \in r.line_numbers : l = <<SourceKey(t.sources[r.source_index]), x>> /\ r.line_contributing
      BY <1>11, <1>12
    <2>2. <<r.source_index, x>> \in LinePlaces(s.regions)
      <3> DEFINE q == s.regions[i]
      <3>1. q \in SeqRange(s.regions) /\ q.source_index = r.source_index /\ x \in q.line_numbers
        BY <1>4, <2>1 DEF SeqRange
      <3> HIDE DEF q, r
      <3>2. <<q.source_index, x>> \in {<<q.source_index, y>> : y \in q.line_numbers}
        BY <3>1
      <3>3. <<q.source_index, x>> \in LinePlaces(s.regions)
        BY <3>1, <3>2 DEF LinePlaces
      <3> QED
        BY <3>1, <3>3
    <2>3. PICK k \in DOMAIN s.lines : place(k) = <<r.source_index, x>>
      BY <1>3, <2>2
    <2>4. s.lines[k].source_index = r.source_index /\ s.lines[k].line = x
      BY <2>3
    <2>5. Contributes(s.regions, i, place(k))
      BY <1>4, <1>12, <2>1, <2>4 DEF Contributes, UserRegion
    <2>6. s.lines[k].status \in Executable
      BY <1>3, <2>5
    <2>7. k \in A
      BY <1>5, <1>8, <1>12, <2>4, <2>6 DEF UserRegion
    <2>8. f[k] = l
      BY <1>9, <2>1, <2>4, <2>7
    <2> QED
      BY <2>5, <2>7, <2>8
  <1>13. ASSUME NEW k \in A, NEW i, Contributes(s.regions, i, place(k))
         PROVE  i \in DOMAIN t.regions /\ UserRegion(t.regions[i], t) /\ f[k] \in unit(i).lines
    <2>1. /\ i \in DOMAIN s.regions /\ s.regions[i].source_index = s.lines[k].source_index
          /\ s.lines[k].line \in s.regions[i].line_numbers
          /\ s.regions[i].line_contributing /\ s.regions[i].classification = "user"
      BY <1>13 DEF Contributes
    <2>2. /\ i \in DOMAIN t.regions /\ t.regions[i].source_index = s.lines[k].source_index
          /\ s.lines[k].line \in t.regions[i].line_numbers
          /\ t.regions[i].line_contributing /\ t.regions[i].classification = "user"
      BY <1>4, <2>1
    <2>3. UserRegion(t.regions[i], t)
      BY <1>7, <2>2 DEF UserRegion
    <2>4. f[k] = <<SourceKey(t.sources[t.regions[i].source_index]), s.lines[k].line>>
      BY <1>9, <2>2
    <2>5. f[k] \in unit(i).lines
      <3> HIDE DEF unit
      <3> QED
        BY <1>11, <2>2, <2>4
    <2> QED
      BY <2>2, <2>3, <2>5
  <1> HIDE DEF unit
  <1>14. \A x, y \in A : f[x] = f[y] => x = y
    <2> SUFFICES ASSUME NEW x \in A, NEW y \in A, f[x] = f[y] PROVE x = y
      OBVIOUS
    <2> DEFINE p == s.lines[x]  q == s.lines[y]
    <2>1. <<SourceKey(t.sources[p.source_index]), p.line>> = <<SourceKey(t.sources[q.source_index]), q.line>>
      BY <1>9
    <2>2. SourceKey(t.sources[p.source_index]) = SourceKey(t.sources[q.source_index]) /\ p.line = q.line
      BY <2>1
    <2>3. p.source_index = q.source_index
      BY <1>6, <1>7, <2>2
    <2>4. place(x) = place(y)
      BY <2>2, <2>3
    <2> QED
      BY <1>3, <1>7, <2>4
  <1>15. U = {unit(i) : i \in {j \in DOMAIN t.regions : UserRegion(t.regions[j], t)}}
    BY <1>5 DEF unit
  <1>16. B = {f[k] : k \in A}
    <2>1. ASSUME NEW l \in B PROVE \E k \in A : l = f[k]
      <3>1. PICK r \in U : l \in r.lines
        OBVIOUS
      <3>2. PICK i \in DOMAIN t.regions : UserRegion(t.regions[i], t) /\ r = unit(i)
        BY <1>15
      <3> QED
        BY <1>12, <3>1, <3>2
    <2>2. ASSUME NEW k \in A PROVE f[k] \in B
      <3>1. PICK i : Contributes(s.regions, i, place(k))
        BY <1>3, <1>7
      <3>2. i \in DOMAIN t.regions /\ UserRegion(t.regions[i], t) /\ f[k] \in unit(i).lines
        BY <1>13, <3>1
      <3>3. unit(i) \in U
        BY <1>15, <3>2
      <3> QED
        BY <3>2, <3>3
    <2> QED
      BY <2>1, <2>2
  <1>17. \A x \in R : f[x] \in H
    <2> SUFFICES ASSUME NEW x \in A, s.lines[x].status = "covered", NEW r \in U, f[x] \in r.lines
                 PROVE  RawRan(command, ExprOf(r))
      BY <1>16
    <2>1. PICK i \in DOMAIN t.regions : UserRegion(t.regions[i], t) /\ r = unit(i)
      BY <1>15
    <2>2. PICK k \in A : f[k] = f[x] /\ Contributes(s.regions, i, place(k))
      BY <1>12, <2>1
    <2>3. k = x
      BY <1>14, <2>2
    <2>4. s.regions[i].count.value > 0
      BY <1>3, <1>7, <2>2, <2>3
    <2> QED
      BY <1>4, <2>1, <2>4 DEF unit
  <1>18. IsFiniteSet(A)
    <2>1. A \subseteq DOMAIN s.lines
      BY <1>7
    <2> QED
      BY <1>3, <2>1, FS_Subset
  <1>19. Meets(n, empty, Cardinality(R), Cardinality(A))
    <2>1. \A a, b, c, d : a = c /\ b = d /\ Meets(n, empty, a, b) => Meets(n, empty, c, d)
      OBVIOUS
    <2> HIDE DEF R
    <2> QED
      BY <1>1, <2>1 DEF A
  <1>20. RawCovers(n, empty, B, H)
    <2> HIDE DEF B, R, H
    <2> QED
      BY <1>10, <1>14, <1>16, <1>17, <1>18, <1>19, Measures
  <1> QED
    BY <1>20 DEF RawMet, U

-----------------------------------------------------------------------------
(* Summaries of a report are those of its evidence, altered or not.        *)

\* x and y differ in nothing that a root metric counts.
SameUnits(x, y) ==
    /\ DOMAIN x.sources = DOMAIN y.sources
    /\ \A i \in DOMAIN y.sources : x.sources[i].ownership = y.sources[i].ownership
    /\ DOMAIN x.entities = DOMAIN y.entities
    /\ \A n \in DOMAIN y.entities : /\ x.entities[n].kind = y.entities[n].kind
                                    /\ x.entities[n].source_index = y.entities[n].source_index
    /\ DOMAIN x.regions = DOMAIN y.regions
    /\ \A i \in DOMAIN y.regions : /\ x.regions[i].classification = y.regions[i].classification
                                   /\ x.regions[i].source_index = y.regions[i].source_index
                                   /\ x.regions[i].count = y.regions[i].count
    /\ DOMAIN x.exclusions = DOMAIN y.exclusions
    /\ \A i \in DOMAIN y.exclusions :
          x.exclusions[i].affected.clause_indices = y.exclusions[i].affected.clause_indices
    /\ x.points = y.points /\ x.branches = y.branches /\ x.contracts = y.contracts /\ x.lines = y.lines

\* Then they have the same metrics.
LEMMA SameSummary ==
  ASSUME NEW x, NEW y, SameUnits(x, y)
  PROVE  RootSummary(x) = RootSummary(y)
  <1>0. x.points = y.points /\ x.branches = y.branches /\ x.contracts = y.contracts /\ x.lines = y.lines
    BY DEF SameUnits
  <1>1. Root(x) = Root(y)
    BY DEF SameUnits, Root
  <1> DEFINE KeepX(z) == z.source_index \in Root(x)
             KeepY(z) == z.source_index \in Root(y)
  <1>2. \A z : KeepX(z) = KeepY(z)
    BY <1>1
  <1>3. \A n : Entries(x, n) = Entries(y, n)
    BY <1>0 DEF Entries
  <1>4. \A n : Entry(x, n) = Entry(y, n)
    BY <1>3 DEF Entry
  <1>5. SwitchedOff(x) = SwitchedOff(y)
    <2> DEFINE u == x.exclusions  v == y.exclusions
    <2>1. DOMAIN u = DOMAIN v /\ \A i \in DOMAIN v : u[i].affected.clause_indices = v[i].affected.clause_indices
      BY DEF SameUnits
    <2>2. SwitchedOff(x) = UNION {z.affected.clause_indices : z \in SeqRange(u)}
      BY DEF SwitchedOff
    <2>3. SwitchedOff(y) = UNION {z.affected.clause_indices : z \in SeqRange(v)}
      BY DEF SwitchedOff
    <2> HIDE DEF u, v
    <2>4. {z.affected.clause_indices : z \in SeqRange(u)} = {z.affected.clause_indices : z \in SeqRange(v)}
      <3>1. ASSUME NEW e \in {z.affected.clause_indices : z \in SeqRange(u)}
            PROVE  e \in {z.affected.clause_indices : z \in SeqRange(v)}
        <4>1. PICK i \in DOMAIN u : e = u[i].affected.clause_indices
          BY <3>1 DEF SeqRange
        <4> QED
          BY <2>1, <4>1 DEF SeqRange
      <3>2. ASSUME NEW e \in {z.affected.clause_indices : z \in SeqRange(v)}
            PROVE  e \in {z.affected.clause_indices : z \in SeqRange(u)}
        <4>1. PICK i \in DOMAIN v : e = v[i].affected.clause_indices
          BY <3>2 DEF SeqRange
        <4> QED
          BY <2>1, <4>1 DEF SeqRange
      <3> QED
        BY <3>1, <3>2
    <2> QED
      BY <2>2, <2>3, <2>4
  <1>6. Clauses(x) = Clauses(y)
    BY <1>0, <1>5 DEF Clauses
  <1>7. CountedOutcomes(x) = CountedOutcomes(y)
    BY <1>0 DEF CountedOutcomes
  <1>8. Functions(x, "user") = Functions(y, "user")
    BY <1>3, <1>4 DEF Functions, SameUnits
  <1>9. ExecutableLines(x) = ExecutableLines(y)
    BY <1>0 DEF ExecutableLines
  <1>10. UserRegions(x) = UserRegions(y) /\ UserRegions(y) \subseteq DOMAIN y.regions
    BY DEF UserRegions, SameUnits
  <1>11. Functions(y, "user") \subseteq DOMAIN y.entities
    BY DEF Functions
  <1> HIDE DEF KeepX, KeepY
  <1>b. BranchMetric(x, KeepX) = BranchMetric(y, KeepY)
    BY <1>0, <1>2, <1>7 DEF BranchMetric
  <1>c. ContractMetric(x, KeepX) = ContractMetric(y, KeepY)
    BY <1>0, <1>2, <1>6 DEF ContractMetric
  <1>l. LineMetric(x, KeepX) = LineMetric(y, KeepY)
    BY <1>0, <1>2, <1>9 DEF LineMetric
  <1>f. FunctionMetric(x, KeepX) = FunctionMetric(y, KeepY)
    <2> DEFINE mine == {n \in Functions(x, "user") : KeepX(x.entities[n])}
               same == {n \in Functions(y, "user") : KeepY(y.entities[n])}
    <2>1. \A n \in DOMAIN y.entities : KeepX(x.entities[n]) = KeepY(y.entities[n])
      BY <1>1 DEF SameUnits, KeepX, KeepY
    <2>2. mine = same
      BY <1>8, <1>11, <2>1
    <2> HIDE DEF mine, same
    <2>3. {n \in mine : Entry(x, n).count.value > 0} = {n \in same : Entry(y, n).count.value > 0}
      BY <1>4, <2>2
    <2> QED
      BY <2>2, <2>3 DEF FunctionMetric, mine, same
  <1>r. RegionMetric(x, KeepX) = RegionMetric(y, KeepY)
    <2> DEFINE mine == {i \in UserRegions(x) : KeepX(x.regions[i])}
               same == {i \in UserRegions(y) : KeepY(y.regions[i])}
    <2>1. \A i \in DOMAIN y.regions : /\ KeepX(x.regions[i]) = KeepY(y.regions[i])
                                      /\ x.regions[i].count = y.regions[i].count
      BY <1>1 DEF SameUnits, KeepX, KeepY
    <2>2. mine = same /\ same \subseteq DOMAIN y.regions
      BY <1>10, <2>1
    <2> HIDE DEF mine, same
    <2>3. {i \in mine : x.regions[i].count.value > 0} = {i \in same : y.regions[i].count.value > 0}
      BY <2>1, <2>2
    <2> QED
      BY <2>2, <2>3 DEF RegionMetric, mine, same
  <1>12. Group(x, KeepX) = Group(y, KeepY)
    BY <1>b, <1>c, <1>l, <1>f, <1>r DEF Group
  <1> QED
    BY <1>12, Zenon DEF RootSummary, Group, BranchMetric, ContractMetric, LineMetric, FunctionMetric, RegionMetric, KeepX, KeepY

\* The summary is that of the records, when the policy is evaluated and in the report.
LEMMA SummaryKept ==
  ASSUME NEW d, NEW baseline, NEW codes, "resolved_configuration" \in DOMAIN d
  PROVE  LET q == Ratcheted(Summarised(d), baseline)
             r == Follows(d, baseline, codes)
         IN  /\ q.summary = RootSummary(d) /\ q.resolved_configuration = d.resolved_configuration
             /\ "summary" \in DOMAIN r /\ r.summary = RootSummary(d)
  <1> DEFINE s == Summarised(d)
             q == Ratcheted(s, baseline)
             j == Evaluated(q, codes)
             r == Rated(j)
             root == RootSummary(d)
  <1>1. /\ {"summary", "resolved_configuration"} \subseteq DOMAIN s
        /\ s.summary = root /\ s.resolved_configuration = d.resolved_configuration
    <2> DEFINE sources  == [i \in DOMAIN d.sources |-> With(d.sources[i], "summary", SourceSummary(d, i))]
               entities == [n \in DOMAIN d.entities |-> With(d.entities[n], "summary", EntitySummary(d, n))]
    <2>1. s = With(With(With(d, "summary", root), "sources", sources), "entities", entities)
      BY DEF Summarised
    <2> HIDE DEF s, root, sources, entities
    <2> QED
      BY <2>1 DEF With
  <1> HIDE DEF s, root
  <1>2. /\ {"summary", "resolved_configuration"} \subseteq DOMAIN q
        /\ q.summary = root /\ q.resolved_configuration = d.resolved_configuration
    <2> DEFINE record == IF s.resolved_configuration.coverage.ratchet = Null THEN Null ELSE RatchetOf(s, baseline)
    <2>1. q = With(s, "ratchet", record)
      BY DEF Ratcheted
    <2> HIDE DEF q, record
    <2> QED
      BY <1>1, <2>1 DEF With
  <1> HIDE DEF q
  <1>3. "summary" \in DOMAIN j /\ j.summary = root
    <2> DEFINE record == [evaluations |-> Evaluations(q, codes), passed |-> Passed(Evaluations(q, codes))]
    <2>1. j = With(q, "policy", record)
      BY DEF Evaluated, Judged
    <2> HIDE DEF j, record
    <2> QED
      BY <1>2, <2>1 DEF With
  <1> HIDE DEF j
  <1>4. "summary" \in DOMAIN r /\ r.summary = root
    <2> DEFINE rating == EligibilityOf(j)
    <2>1. r = With(j, "evidence_eligibility", rating)
      BY DEF Rated
    <2> HIDE DEF r, rating
    <2> QED
      BY <1>3, <2>1 DEF With
  <1> QED
    BY <1>2, <1>4 DEF Follows, r, j, q, s, root

\* The records of s have the fields that a root metric reads.
Countable(s) ==
    /\ \A i \in DOMAIN s.sources : "ownership" \in DOMAIN s.sources[i]
    /\ \A n \in DOMAIN s.entities : {"kind", "source_index"} \subseteq DOMAIN s.entities[n]
    /\ \A i \in DOMAIN s.regions : {"classification", "source_index", "count"} \subseteq DOMAIN s.regions[i]
    /\ \A i \in DOMAIN s.exclusions : /\ "affected" \in DOMAIN s.exclusions[i]
                                      /\ "clause_indices" \in DOMAIN s.exclusions[i].affected

\* Those of a semantic model do.
LEMMA SemanticCountable ==
  ASSUME NEW s \in SemanticDocument
  PROVE  Countable(s)
  <1>1. /\ s.sources \in Seq(Source) /\ s.entities \in Seq(Entity) /\ s.regions \in Seq(Region)
        /\ s.exclusions \in Seq(Exclusion)
    BY DEF SemanticDocument
  <1>2. /\ \A i \in DOMAIN s.sources : s.sources[i] \in Source
        /\ \A n \in DOMAIN s.entities : s.entities[n] \in Entity
        /\ \A i \in DOMAIN s.regions : s.regions[i] \in Region
        /\ \A i \in DOMAIN s.exclusions : s.exclusions[i] \in Exclusion
    BY <1>1
  <1>3. \A x \in Source : "ownership" \in DOMAIN x
    BY DEF Source
  <1>4. \A x \in Entity : {"kind", "source_index"} \subseteq DOMAIN x
    BY DEF Entity
  <1>5. \A x \in Region : {"classification", "source_index", "count"} \subseteq DOMAIN x
    BY DEF Region
  <1>6. \A x \in Exclusion : "affected" \in DOMAIN x /\ "clause_indices" \in DOMAIN x.affected
    BY DEF Exclusion, Affected
  <1> QED
    BY <1>2, <1>3, <1>4, <1>5, <1>6 DEF Countable

\* What is added to sources, regions and exclusions is no unit of a metric.
LEMMA AdditionsUncounted ==
  ASSUME NEW s, Countable(s), NEW observed, NEW d
  PROVE  /\ DOMAIN Observed(s.sources, observed) = DOMAIN s.sources
         /\ \A i \in DOMAIN s.sources : /\ "ownership" \in DOMAIN Observed(s.sources, observed)[i]
                                        /\ Observed(s.sources, observed)[i].ownership = s.sources[i].ownership
         /\ DOMAIN Pointed(s.regions) = DOMAIN s.regions
         /\ \A i \in DOMAIN s.regions : /\ Pointed(s.regions)[i].classification = s.regions[i].classification
                                        /\ Pointed(s.regions)[i].source_index = s.regions[i].source_index
                                        /\ Pointed(s.regions)[i].count = s.regions[i].count
         /\ DOMAIN Lined(d, s.exclusions) = DOMAIN s.exclusions
         /\ \A i \in DOMAIN s.exclusions :
               Lined(d, s.exclusions)[i].affected.clause_indices = s.exclusions[i].affected.clause_indices
  <1>1. ASSUME NEW f, "ownership" \in DOMAIN f, NEW v1, NEW v2
        PROVE  LET w == With(With(f, "observed_digest", v1), "source_state", v2) IN
               w.ownership = f.ownership /\ "ownership" \in DOMAIN w
    BY <1>1 DEF With
  <1>2. ASSUME NEW f, {"classification", "source_index", "count"} \subseteq DOMAIN f, NEW v
        PROVE  LET w == With(f, "point_ids", v) IN
               w.classification = f.classification /\ w.source_index = f.source_index /\ w.count = f.count
    BY <1>2 DEF With
  <1>3. ASSUME NEW f, "affected" \in DOMAIN f, "clause_indices" \in DOMAIN f.affected, NEW v
        PROVE  [f EXCEPT !.affected = With(@, "line_indices", v)].affected.clause_indices = f.affected.clause_indices
    BY <1>3 DEF With
  <1>4. /\ DOMAIN Observed(s.sources, observed) = DOMAIN s.sources
        /\ \A i \in DOMAIN s.sources : /\ "ownership" \in DOMAIN Observed(s.sources, observed)[i]
                                       /\ Observed(s.sources, observed)[i].ownership = s.sources[i].ownership
    BY <1>1 DEF Observed, Countable
  <1>5. /\ DOMAIN Pointed(s.regions) = DOMAIN s.regions
        /\ \A i \in DOMAIN s.regions : /\ Pointed(s.regions)[i].classification = s.regions[i].classification
                                       /\ Pointed(s.regions)[i].source_index = s.regions[i].source_index
                                       /\ Pointed(s.regions)[i].count = s.regions[i].count
    BY <1>2 DEF Pointed, Countable
  <1>6. /\ DOMAIN Lined(d, s.exclusions) = DOMAIN s.exclusions
        /\ \A i \in DOMAIN s.exclusions :
              Lined(d, s.exclusions)[i].affected.clause_indices = s.exclusions[i].affected.clause_indices
    BY <1>3 DEF Lined, Countable
  <1> QED
    BY <1>4, <1>5, <1>6

\* The records of a report count what the evidence counts.
LEMMA DetailsCounted ==
  ASSUME NEW ix, Countable(ix.semantic), NEW d, NEW observed, HoldsEvidence(d, ix, observed)
  PROVE  SameUnits(d, ix.semantic)
  <1> DEFINE s == ix.semantic
  <1>1. /\ d.branches = s.branches /\ d.contracts = s.contracts /\ d.entities = s.entities /\ d.lines = s.lines
        /\ d.points = s.points /\ d.regions = Pointed(s.regions) /\ d.sources = Observed(s.sources, observed)
        /\ \E other : d.exclusions = Lined(other, s.exclusions)
    BY DEF HoldsEvidence
  <1>c. Countable(s)
    OBVIOUS
  <1> HIDE DEF s
  <1>2. PICK other : d.exclusions = Lined(other, s.exclusions)
    BY <1>1
  <1>3. /\ DOMAIN d.sources = DOMAIN s.sources
        /\ \A i \in DOMAIN s.sources : d.sources[i].ownership = s.sources[i].ownership
        /\ DOMAIN d.regions = DOMAIN s.regions
        /\ \A i \in DOMAIN s.regions : /\ d.regions[i].classification = s.regions[i].classification
                                       /\ d.regions[i].source_index = s.regions[i].source_index
                                       /\ d.regions[i].count = s.regions[i].count
        /\ DOMAIN d.exclusions = DOMAIN s.exclusions
        /\ \A i \in DOMAIN s.exclusions : d.exclusions[i].affected.clause_indices = s.exclusions[i].affected.clause_indices
    <2> DEFINE a == Observed(s.sources, observed)
               b == Pointed(s.regions)
               e == Lined(other, s.exclusions)
    <2>1. /\ DOMAIN a = DOMAIN s.sources /\ \A i \in DOMAIN s.sources : a[i].ownership = s.sources[i].ownership
          /\ DOMAIN b = DOMAIN s.regions
          /\ \A i \in DOMAIN s.regions : /\ b[i].classification = s.regions[i].classification
                                         /\ b[i].source_index = s.regions[i].source_index
                                         /\ b[i].count = s.regions[i].count
          /\ DOMAIN e = DOMAIN s.exclusions
          /\ \A i \in DOMAIN s.exclusions : e[i].affected.clause_indices = s.exclusions[i].affected.clause_indices
      BY <1>c, AdditionsUncounted
    <2>2. d.sources = a /\ d.regions = b /\ d.exclusions = e
      BY <1>1, <1>2
    <2> HIDE DEF a, b, e
    <2> QED
      BY <2>1, <2>2
  <1> QED
    BY <1>1, <1>3 DEF SameUnits, s

\* A report's summary is that of the evidence, and its own records give it again.
CountsEvidence(r, ix) ==
    /\ "summary" \in DOMAIN r /\ IsFunction(r)
    /\ r.summary = RootSummary(ix.semantic) /\ RootSummary(r) = RootSummary(ix.semantic)

\* Those of every report that is made.
LEMMA SummaryMade ==
  ASSUME NEW ix \in IndexedDocument, NEW c, NEW at, NEW tool, ~IsRefused(Produce(ix, c, at, tool)),
         Reports(Produce(ix, c, at, tool), ix)
  PROVE  CountsEvidence(Produce(ix, c, at, tool), ix)
  <1> DEFINE d     == Noted(Detailed(ix, c, at, tool), at.standard_export)
             codes == EvidenceCodes(ix)
             q     == Ratcheted(Summarised(d), at.ratchet)
             r     == Produce(ix, c, at, tool)
             s     == ix.semantic
  <1>1. r = Follows(d, at.ratchet, codes)
    BY DEF Produce, IsRefused, Refused, Follows
  <1>2. DOMAIN d = Details /\ HoldsEvidence(d, ix, at.observed)
    BY DetailsOf
  <1>0. IsFunction(r)
    BY DEF Reports
  <1>c. Countable(s)
    BY SemanticCountable DEF IndexedDocument
  <1> HIDE DEF d, codes, r
  <1>3. SameUnits(d, s)
    BY <1>2, <1>c, DetailsCounted
  <1>4. "summary" \in DOMAIN r /\ r.summary = RootSummary(d)
    <2>1. "resolved_configuration" \in DOMAIN d
      BY <1>2 DEF Details
    <2> QED
      BY <1>1, <2>1, SummaryKept
  <1>5. Keeps(r, d, Evaluations(q, codes))
    <2>1. Counted \subseteq DOMAIN d /\ DOMAIN d \cap Added = {}
      BY <1>2 DEF Counted, Details, Added
    <2> QED
      BY <1>1, <2>1, FollowsKeeps
  <1> HIDE DEF q, s
  <1>6. SameUnits(r, d)
    <2>1. /\ r.branches = d.branches /\ r.contracts = d.contracts /\ r.exclusions = d.exclusions
          /\ r.lines = d.lines /\ r.points = d.points /\ r.regions = d.regions
      BY <1>2, <1>5 DEF Keeps, Details, Counted
    <2>2. /\ r.sources = [i \in DOMAIN d.sources |-> With(d.sources[i], "summary", SourceSummary(d, i))]
          /\ r.entities = [n \in DOMAIN d.entities |-> With(d.entities[n], "summary", EntitySummary(d, n))]
      BY <1>5 DEF Keeps
    <2>3. \A i \in DOMAIN d.sources : "ownership" \in DOMAIN d.sources[i]
      <3>1. d.sources = Observed(s.sources, at.observed)
        BY <1>2 DEF HoldsEvidence, s
      <3> QED
        BY <1>c, <3>1, AdditionsUncounted
    <2>4. \A n \in DOMAIN d.entities : {"kind", "source_index"} \subseteq DOMAIN d.entities[n]
      <3>1. d.entities = s.entities
        BY <1>2 DEF HoldsEvidence, s
      <3> QED
        BY <1>c, <3>1 DEF Countable
    <2>5. \A f, v : "ownership" \in DOMAIN f => With(f, "summary", v).ownership = f.ownership
      BY DEF With
    <2>6. \A f, v : {"kind", "source_index"} \subseteq DOMAIN f =>
             With(f, "summary", v).kind = f.kind /\ With(f, "summary", v).source_index = f.source_index
      BY DEF With
    <2>7. DOMAIN r.sources = DOMAIN d.sources /\ \A i \in DOMAIN d.sources : r.sources[i].ownership = d.sources[i].ownership
      BY <2>2, <2>3, <2>5
    <2>8. /\ DOMAIN r.entities = DOMAIN d.entities
          /\ \A n \in DOMAIN d.entities : /\ r.entities[n].kind = d.entities[n].kind
                                          /\ r.entities[n].source_index = d.entities[n].source_index
      BY <2>2, <2>4, <2>6
    <2> QED
      BY <2>1, <2>7, <2>8 DEF SameUnits
  <1>7. RootSummary(d) = RootSummary(s) /\ RootSummary(r) = RootSummary(d)
    BY <1>3, <1>6, SameSummary
  <1> QED
    BY <1>0, <1>4, <1>7 DEF CountsEvidence, r, s

\* The evidence that is read off a report counts what the report counts.
LEMMA ReportCounted ==
  ASSUME NEW x \in ReportDocument
  PROVE  SameUnits(EvidenceOf(x).semantic, x) /\ Countable(EvidenceOf(x).semantic)
  <1> DEFINE s == EvidenceOf(x).semantic
  <1>1. /\ x.regions \in Seq(ReportRegion) /\ x.sources \in Seq(ReportSource)
        /\ x.exclusions \in Seq(ReportExclusion) /\ x.entities \in Seq(ReportEntity)
    BY DEF ReportDocument
  <1>2. /\ s.branches = x.branches /\ s.contracts = x.contracts /\ s.lines = x.lines /\ s.points = x.points
        /\ s.entities = Bare(x.entities, {"summary"}) /\ s.regions = Bare(x.regions, {"point_ids"})
        /\ s.sources = Bare(x.sources, {"observed_digest", "source_state", "summary"})
        /\ s.exclusions = Lineless(x.exclusions)
    BY DEF EvidenceOf
  <1> HIDE DEF s
  <1>3. /\ DOMAIN s.sources = DOMAIN x.sources
        /\ \A i \in DOMAIN x.sources : s.sources[i].ownership = x.sources[i].ownership
        /\ \A i \in DOMAIN x.sources : "ownership" \in DOMAIN s.sources[i]
    <2>1. \A i \in DOMAIN x.sources : "ownership" \in DOMAIN x.sources[i]
      <3>1. \A i \in DOMAIN x.sources : x.sources[i] \in ReportSource
        BY <1>1
      <3> QED
        BY <3>1 DEF ReportSource
    <2> QED
      BY <1>2, <2>1 DEF Bare, Without
  <1>4. /\ DOMAIN s.entities = DOMAIN x.entities
        /\ \A n \in DOMAIN x.entities : /\ s.entities[n].kind = x.entities[n].kind
                                        /\ s.entities[n].source_index = x.entities[n].source_index
                                        /\ {"kind", "source_index"} \subseteq DOMAIN s.entities[n]
    <2>1. \A n \in DOMAIN x.entities : {"kind", "source_index"} \subseteq DOMAIN x.entities[n]
      <3>1. \A n \in DOMAIN x.entities : x.entities[n] \in ReportEntity
        BY <1>1
      <3> QED
        BY <3>1 DEF ReportEntity
    <2> QED
      BY <1>2, <2>1 DEF Bare, Without
  <1>5. /\ DOMAIN s.regions = DOMAIN x.regions
        /\ \A i \in DOMAIN x.regions : /\ s.regions[i].classification = x.regions[i].classification
                                       /\ s.regions[i].source_index = x.regions[i].source_index
                                       /\ s.regions[i].count = x.regions[i].count
                                       /\ {"classification", "source_index", "count"} \subseteq DOMAIN s.regions[i]
    <2>1. \A i \in DOMAIN x.regions : {"classification", "source_index", "count"} \subseteq DOMAIN x.regions[i]
      <3>1. \A i \in DOMAIN x.regions : x.regions[i] \in ReportRegion
        BY <1>1
      <3> QED
        BY <3>1 DEF ReportRegion
    <2> QED
      BY <1>2, <2>1 DEF Bare, Without
  <1>6. /\ DOMAIN s.exclusions = DOMAIN x.exclusions
        /\ \A i \in DOMAIN x.exclusions :
              /\ s.exclusions[i].affected.clause_indices = x.exclusions[i].affected.clause_indices
              /\ "affected" \in DOMAIN s.exclusions[i] /\ "clause_indices" \in DOMAIN s.exclusions[i].affected
    <2>1. \A i \in DOMAIN x.exclusions : "affected" \in DOMAIN x.exclusions[i]
                                          /\ "clause_indices" \in DOMAIN x.exclusions[i].affected
      <3>1. \A i \in DOMAIN x.exclusions : x.exclusions[i] \in ReportExclusion
        BY <1>1
      <3> QED
        BY <3>1 DEF ReportExclusion, ReportAffected
    <2>2. ASSUME NEW f, "affected" \in DOMAIN f, "clause_indices" \in DOMAIN f.affected
          PROVE  LET w == [f EXCEPT !.affected = Without(@, {"line_indices"})] IN
                 /\ w.affected.clause_indices = f.affected.clause_indices
                 /\ "affected" \in DOMAIN w /\ "clause_indices" \in DOMAIN w.affected
      BY <2>2 DEF Without
    <2> QED
      BY <1>2, <2>1, <2>2 DEF Lineless
  <1> QED
    BY <1>2, <1>3, <1>4, <1>5, <1>6 DEF SameUnits, Countable, s

\* An altered report that its reader accepts still has the metrics of the evidence: its
\* summary is that of its records, and only one of the two was altered.
LEMMA AlteredCounts ==
  ASSUME NEW ix, NEW r, CountsEvidence(r, ix), NEW x, x = r \/ x \in Alterations(r), ValidReport(x, OurTool)
  PROVE  RootSummary(EvidenceOf(x).semantic) = RootSummary(ix.semantic)
  <1>0. "summary" \in DOMAIN r /\ IsFunction(r)
        /\ r.summary = RootSummary(ix.semantic) /\ RootSummary(r) = RootSummary(ix.semantic)
    BY DEF CountsEvidence
  <1>1. x.summary = RootSummary(x) /\ x \in ReportDocument
    BY DEF ValidReport, CrossValid, SummariesOK
  <1>2. RootSummary(x) = RootSummary(ix.semantic)
    <2>1. CASE x = r
      BY <1>0, <2>1
    <2>2. ASSUME NEW v, x = [r EXCEPT !.summary = v]
          PROVE  RootSummary(x) = RootSummary(ix.semantic)
      <3>1. /\ x.sources = r.sources /\ x.entities = r.entities /\ x.regions = r.regions
            /\ x.exclusions = r.exclusions /\ x.points = r.points /\ x.branches = r.branches
            /\ x.contracts = r.contracts /\ x.lines = r.lines
        BY <1>0, <2>2
      <3>2. SameUnits(x, r)
        BY <3>1 DEF SameUnits
      <3> QED
        BY <1>0, <3>2, SameSummary
    <2>3. ASSUME NEW v, \/ x = [r EXCEPT !.policy.passed = v] \/ x = [r EXCEPT !.evidence_eligibility = v]
                        \/ x = [r EXCEPT !.complete = v]      \/ x = [r EXCEPT !.saturation.any = v]
                        \/ x = [r EXCEPT !.contexts = v]      \/ x = [r EXCEPT !.points = v]
                        \/ x = [r EXCEPT !.policy.evaluations = v]
                        \/ x = [r EXCEPT !.provenance.run_ids = v]
                        \/ x = [r EXCEPT !.provenance.execution.status = v]
          PROVE  x.summary = r.summary
      BY <1>0, <2>3
    <2>4. ASSUME NEW i, NEW v, \/ x = [r EXCEPT !.lines[i].status = v] \/ x = [r EXCEPT !.regions[i].count.value = v]
                               \/ x = [r EXCEPT !.exclusions[i].affected.line_indices = v]
                               \/ x = [r EXCEPT !.sources[i].summary = v]
          PROVE  x.summary = r.summary
      BY <1>0, <2>4
    <2>5. CASE x \in Alterations(r)
      <3> DEFINE one == {[r EXCEPT !.policy.passed = ~@], [r EXCEPT !.evidence_eligibility = "passing"],
                         [r EXCEPT !.complete = ~@], [r EXCEPT !.summary = AlteredMetrics(@)],
                         [r EXCEPT !.provenance.run_ids = {}],
                         [r EXCEPT !.saturation.any = ~@], [r EXCEPT !.contexts = Append(@, 99)],
                         [r EXCEPT !.provenance.execution.status = "failed"]}
                 two == {[r EXCEPT !.sources[i].summary = AlteredMetrics(@)] : i \in DOMAIN r.sources}
                 three == {[r EXCEPT !.lines[i].status = "covered"] : i \in DOMAIN r.lines}
                 four == {[r EXCEPT !.regions[i].count.value = @ + 1] : i \in DOMAIN r.regions}
                 five == {[r EXCEPT !.exclusions[i].affected.line_indices = {}] : i \in DOMAIN r.exclusions}
                 six == {[r EXCEPT !.points = @ \ {p}] : p \in {q \in r.points : Referred(r, q)}}
                 seven == {[r EXCEPT !.policy.evaluations = (@ \ {e}) \cup {[e EXCEPT !.result = "pass", !.diagnostics = {}]}] :
                              e \in r.policy.evaluations}
                 eight == {[r EXCEPT !.policy.evaluations = @ \ {e}] : e \in r.policy.evaluations}
      <3>1. x \in one \/ x \in two \/ x \in three \/ x \in four \/ x \in five \/ x \in six \/ x \in seven \/ x \in eight
        <4>1. Alterations(r) = one \cup two \cup three \cup four \cup five \cup six \cup seven \cup eight
          BY Zenon DEF Alterations
        <4> HIDE DEF one, two, three, four, five, six, seven, eight
        <4> QED
          BY <2>5, <4>1
      <3>2. CASE x \in one
        <4>1. CASE x = [r EXCEPT !.summary = AlteredMetrics(@)]
          BY <2>2, <4>1
        <4>2. CASE x # [r EXCEPT !.summary = AlteredMetrics(@)]
          <5>1. x.summary = r.summary
            BY <2>3, <3>2, <4>2
          <5> QED
            BY <1>0, <1>1, <5>1
        <4> QED
          BY <4>1, <4>2
      <3>3. CASE x \in two \/ x \in three \/ x \in four \/ x \in five
        <4>1. x.summary = r.summary
          BY <2>4, <3>3
        <4> QED
          BY <1>0, <1>1, <4>1
      <3>4. CASE x \in six \/ x \in seven \/ x \in eight
        <4>1. x.summary = r.summary
          BY <2>3, <3>4
        <4> QED
          BY <1>0, <1>1, <4>1
      <3> QED
        BY <3>1, <3>2, <3>3, <3>4, Zenon
    <2> QED
      BY <2>1, <2>5
  <1>3. RootSummary(EvidenceOf(x).semantic) = RootSummary(x)
    BY <1>1, ReportCounted, SameSummary
  <1> QED
    BY <1>2, <1>3

-----------------------------------------------------------------------------
(* What a check that passes says of its evidence.                          *)

\* The records of a report hold its configuration.
LEMMA ConfigurationHeld ==
  ASSUME NEW ix, NEW c, NEW at, NEW tool, NEW standard_export
  PROVE  LET d == Noted(Detailed(ix, c, at, tool), standard_export) IN
         "resolved_configuration" \in DOMAIN d /\ d.resolved_configuration = c
  <1> DEFINE e == Detailed(ix, c, at, tool)
             d == Noted(e, standard_export)
             uses == IneligibleUses(e, standard_export)
  <1>1. "resolved_configuration" \in DOMAIN e /\ e.resolved_configuration = c
    BY DEF Detailed, With
  <1>2. d = [e EXCEPT !.saturation.ineligible_uses = uses]
    BY DEF Noted
  <1> HIDE DEF e, uses, d
  <1>3. "resolved_configuration" \in DOMAIN d /\ d.resolved_configuration = c
    BY <1>1, <1>2
  <1> QED
    BY <1>3 DEF d, e

\* A threshold evaluation that passes has measured what the threshold asks.
LEMMA PassMeets ==
  ASSUME NEW q, NEW kind, NEW name, NEW metric, NEW m, NEW n \in Int, n # Null, NEW source, NEW members,
         ThresholdEvaluation(q, kind, name, metric, m, n, source, members).result \in {"pass", "not_applicable"}
  PROVE  Meets(n, q.resolved_configuration.coverage.empty.value, m.covered, m.total)
  <1> DEFINE limit  == FractionOf(n, 10000)
             empty  == q.resolved_configuration.coverage.empty.value
             e      == AtLeast(q, kind, name, metric, m, limit, source, "COV4101", members)
  <1>1. e.result \in {"pass", "not_applicable"}
    BY DEF ThresholdEvaluation
  <1>2. \A result, actual, codes :
           Limited(kind, name, metric, "at_least", result, actual, limit, source, codes, members).result = result
    BY DEF Limited
  <1> HIDE DEF limit
  <1>3. m.total = 0 => empty = "pass"
    BY <1>1, <1>2 DEF AtLeast
  <1>4. m.total # 0 => Holds("at_least", ActualOf(m), limit)
    BY <1>1, <1>2 DEF AtLeast
  <1>5. m.total # 0 => m.covered * 10000 >= n * m.total
    BY <1>4 DEF Holds, ActualOf, FractionOf, limit
  <1> QED
    BY <1>3, <1>5 DEF Meets

\* A check passes only if the metrics of its evidence meet each project threshold.
LEMMA PassingMeets ==
  ASSUME NEW ix, Countable(ix.semantic), NEW c, NEW at, NEW tool, ~IsRefused(Produce(ix, c, at, tool)),
         ExitStatus(Produce(ix, c, at, tool)) = "0",
         NEW metric \in Metrics, c.coverage.thresholds[metric].value \in Int, c.coverage.thresholds[metric].value # Null
  PROVE  Meets(c.coverage.thresholds[metric].value, c.coverage.empty.value,
               RootSummary(ix.semantic)[metric].covered, RootSummary(ix.semantic)[metric].total)
  <1> DEFINE d     == Noted(Detailed(ix, c, at, tool), at.standard_export)
             codes == EvidenceCodes(ix)
             q     == Ratcheted(Summarised(d), at.ratchet)
             r     == Produce(ix, c, at, tool)
             n     == c.coverage.thresholds[metric].value
  <1>1. r = Follows(d, at.ratchet, codes)
    BY DEF Produce, IsRefused, Refused, Follows
  <1>2. DOMAIN d = Details /\ HoldsEvidence(d, ix, at.observed)
    BY DetailsOf
  <1>3. "resolved_configuration" \in DOMAIN d /\ d.resolved_configuration = c
    BY ConfigurationHeld
  <1>4. r.policy.passed
    <2> HIDE DEF r
    <2> QED
      BY DEF ExitStatus, r
  <1> HIDE DEF d, codes, r
  <1>5. Keeps(r, d, Evaluations(q, codes))
    <2>1. Counted \subseteq DOMAIN d /\ DOMAIN d \cap Added = {}
      BY <1>2 DEF Counted, Details, Added
    <2> QED
      BY <1>1, <2>1, FollowsKeeps
  <1>6. q.summary = RootSummary(d) /\ q.resolved_configuration = c
    BY <1>3, SummaryKept
  <1> HIDE DEF q
  <1>7. Passed(Evaluations(q, codes))
    <2> DEFINE e == Evaluations(q, codes)
    <2> HIDE DEF e
    <2>1. r.policy = [evaluations |-> e, passed |-> Passed(e)]
      BY <1>5 DEF Keeps, e
    <2> QED
      BY <1>4, <2>1 DEF Passed, e
  <1> DEFINE m       == q.summary[metric]
             members == Only(metric, RootMembers(q, metric))
             e       == ThresholdEvaluation(q, "project", "project", metric, m, n, "project", members)
  <1>8. e \in ProjectEvaluations(q)
    BY <1>6 DEF ProjectEvaluations
  <1>9. e.result \in {"pass", "not_applicable"}
    <2> HIDE DEF e
    <2> QED
      BY <1>7, <1>8 DEF Passed, Evaluations
  <1> HIDE DEF m, members, n
  <1>10. Meets(n, q.resolved_configuration.coverage.empty.value, m.covered, m.total)
    BY <1>9, PassMeets DEF n
  <1>11. RootSummary(d) = RootSummary(ix.semantic)
    BY <1>2, DetailsCounted, SameSummary
  <1> QED
    BY <1>6, <1>10, <1>11 DEF m, n

-----------------------------------------------------------------------------
(* Complete evidence counts the raw inputs.                                *)

\* Inputs without a finding are valid maps and whole profiles of them, no two of which
\* have one profile ID.
LEMMA CleanInputs ==
  ASSUME NEW command, Parsed(command),
         \A a \in command.maps : Classify(command.maps, command.profiles, command.tier).maps[a] = {},
         \A a \in command.profiles : Classify(command.maps, command.profiles, command.tier).profiles[a] = {}
  PROVE  GoodFiles(command)
  <1> DEFINE maps     == command.maps
             profiles == command.profiles
             tier     == command.tier
             docs     == {a.map : a \in {b \in maps : MapFindings(b) = {}}}
             bad      == Conflicting(docs)
             alone    == {a \in profiles : DecodesAlone(a, tier)}
             found    == Classify(maps, profiles, tier)
  <1>1. /\ found.maps = [a \in maps |-> IF MapFindings(a) = {} /\ a.map \in bad THEN {"COV3002"} ELSE MapFindings(a)]
        /\ found.profiles = [a \in profiles |-> ProfileFindings(a, alone, docs \ bad, tier)]
    BY DEF Classify, ClassifyWith, Findings
  <1>2. ASSUME NEW a \in maps PROVE a.map # Null /\ ValidMap(a.map) /\ FiniteMap(a.map)
    <2>1. MapFindings(a) = {}
      BY <1>1
    <2>2. a.map # Null /\ ValidMap(a.map)
      BY <2>1 DEF MapFindings
    <2> QED
      BY <2>2 DEF Parsed
  <1>3. GoodMaps(RawMaps(command))
    <2> DEFINE f == [a \in maps |-> a.map]
    <2>1. IsFiniteSet(maps) /\ RawMaps(command) = {f[a] : a \in maps} /\ f = [a \in maps |-> f[a]]
      BY DEF Parsed, RawMaps
    <2>2. IsFiniteSet(RawMaps(command))
      <3> HIDE DEF f
      <3> QED
        BY <2>1, FiniteImage
    <2>3. \A m \in RawMaps(command) : ValidMap(m) /\ FiniteMap(m)
      BY <1>2 DEF RawMaps
    <2> QED
      BY <2>2, <2>3 DEF GoodMaps
  <1>4. IsFiniteSet(RawFiles(command))
    <2> DEFINE f == [a \in profiles |-> a.file]
    <2>1. IsFiniteSet(profiles) /\ RawFiles(command) = {f[a] : a \in profiles} /\ f = [a \in profiles |-> f[a]]
      BY DEF Parsed, RawFiles
    <2> HIDE DEF f
    <2> QED
      BY <2>1, FiniteImage
  <1>5. ASSUME NEW a \in profiles
        PROVE  /\ a.sha # Null /\ a \in alone /\ a.file \in Raw!File /\ Raw!PairsOK(a.file, Null)
               /\ \E m \in RawMaps(command) : m.map_id = a.file.map_id
               /\ \A b \in alone : Raw!Decoded(b.file).profile_id = Raw!Decoded(a.file).profile_id => b.sha = a.sha
    <2> HIDE DEF docs, bad
    <2>1. ProfileFindings(a, alone, docs \ bad, tier) = {}
      BY <1>1
    <2>2. a.fault = Null /\ a.sha # Null /\ a \in alone
      BY <2>1 DEF ProfileFindings
    <2>3. /\ {m \in docs \ bad : m.map_id = Raw!Decoded(a.file).map_id} # {}
          /\ ~ \E b \in alone : Raw!Decoded(b.file).profile_id = Raw!Decoded(a.file).profile_id /\ b.sha # a.sha
      BY <2>1, <2>2 DEF ProfileFindings
    <2>4. Raw!Decoded(a.file).map_id = a.file.map_id
      BY DEF Raw!Decoded
    <2>5. a.file \in Raw!File
      BY <2>2 DEF Parsed
    <2>6. Raw!PairsOK(a.file, Null)
      BY <2>2, <2>5, AcceptedPairs DEF DecodesAlone, ReadAlone
    <2>7. \E m \in RawMaps(command) : m.map_id = a.file.map_id
      BY <2>3, <2>4 DEF docs, RawMaps
    <2> QED
      BY <2>2, <2>3, <2>5, <2>6, <2>7
  <1>6. ASSUME NEW f \in RawFiles(command), NEW g \in RawFiles(command), f.profile_id = g.profile_id
        PROVE  f = g
    <2>1. PICK a \in profiles : f = a.file
      BY DEF RawFiles
    <2>2. PICK b \in profiles : g = b.file
      BY DEF RawFiles
    <2>3. Raw!Decoded(a.file).profile_id = f.profile_id /\ Raw!Decoded(b.file).profile_id = g.profile_id
      BY <2>1, <2>2 DEF Raw!Decoded
    <2>4. a.sha # Null /\ b.sha = a.sha
      <3> HIDE DEF alone
      <3> QED
        BY <1>5, <1>6, <2>3
    <2> QED
      BY <2>1, <2>2, <2>4 DEF Parsed
  <1>7. \A f \in RawFiles(command) : /\ f \in Raw!File /\ Raw!PairsOK(f, Null)
                                     /\ \E m \in RawMaps(command) : m.map_id = f.map_id
    BY <1>5 DEF RawFiles
  <1> QED
    BY <1>3, <1>4, <1>6, <1>7 DEF GoodFiles

\* Complete evidence that its reader accepts was made of the raw inputs.
LEMMA CompleteEvidence ==
  ASSUME NEW command, Parsed(command), NEW tool,
         ~IsRefused(BuildIndexed(command)), BuildIndexed(command).semantic.complete,
         ValidIndexed(BuildIndexed(command), tool)
  PROVE  Evident(command, Tables(RawMaps(command)), BuildIndexed(command).semantic)
  <1> DEFINE found    == Classify(command.maps, command.profiles, command.tier)
             docs     == {a.map : a \in {b \in command.maps : found.maps[b] = {}}}
             counted  == {a \in command.profiles : found.profiles[a] = {}}
             others    == {a \in command.profiles \ counted : TellsContext(a)}
             selected == {Raw!Decoded(a.file).run_id : a \in counted}
             all      == counted = command.profiles /\ \A a \in command.maps : found.maps[a] = {}
             codes    == GlobalCodes(counted, all,
                             SelectionSatisfied(command.selection.mode, command.selection.requested_run_ids, selected))
             complete == codes = {} /\ ~command.allow
             read     == {Raw!Decoded(a.file) : a \in counted}
             extra    == {Told(a).context : a \in others}
             semantic == BuildSemantic(docs, read, extra, complete, command.policy)
             d        == BuildIndexed(command)
             t        == Tables(docs)
             policy   == command.policy
  <1>1. ~IsRefused(semantic) /\ d = IndexedOf(command, found, docs, counted, codes, semantic)
    BY Zenon DEF BuildIndexed, BuildOf
  <1>2. d.semantic = semantic
    <2> HIDE DEF d, found, docs, counted, codes, semantic
    <2> QED
      BY <1>1 DEF IndexedOf
  <1>3. ~IsRefused(t) /\ semantic = SemanticOf(t, docs, read, extra, complete, policy)
    <2> HIDE DEF docs, read, extra, complete
    <2> QED
      BY <1>1, Zenon DEF BuildSemantic
  <1>4. complete
    <2> HIDE DEF docs, read, extra, complete, t, policy
    <2>1. ~IsRefused(SemanticOf(t, docs, read, extra, complete, policy))
      BY <1>1, <1>3, Zenon
    <2>2. LET s == SemanticOf(t, docs, read, extra, complete, policy) IN
          s.sources = t.sources /\ (s.complete => complete)
      BY <2>1, SemanticTables
    <2> HIDE DEF semantic
    <2> QED
      BY <1>2, <1>3, <2>2
  <1>5. all
    BY <1>4 DEF GlobalCodes
  <1>6. GoodFiles(command)
    <2> HIDE DEF found
    <2>1. /\ \A a \in command.maps : found.maps[a] = {}
          /\ \A a \in command.profiles : found.profiles[a] = {}
      BY <1>5
    <2> QED
      BY <2>1, CleanInputs DEF found
  <1> HIDE DEF found, semantic, d
  <1>7. docs = RawMaps(command) /\ counted = command.profiles /\ others = {}
    BY <1>5 DEF RawMaps
  <1>8. read = {Raw!Decoded(f) : f \in RawFiles(command)} /\ extra = {} /\ complete = TRUE
    <2>1. extra = {}
      <3> HIDE DEF others
      <3> QED
        BY <1>7
    <2>2. complete = TRUE
      BY <1>4
    <2>3. read = {Raw!Decoded(f) : f \in RawFiles(command)}
      <3> HIDE DEF counted
      <3>1. read = {Raw!Decoded(a.file) : a \in command.profiles}
        BY <1>7
      <3> QED
        BY <3>1 DEF RawFiles
    <2> QED
      BY <2>1, <2>2, <2>3
  <1> HIDE DEF docs, read, extra, complete, t, policy, all, counted, others
  <1>9. t = Tables(RawMaps(command))
    BY <1>7 DEF t
  <1>10. IsUnion(RawMaps(command), t)
    BY <1>3, <1>6, <1>9, TablesAreUnion DEF GoodFiles
  <1>11. semantic = SemanticOf(t, RawMaps(command), {Raw!Decoded(f) : f \in RawFiles(command)}, {}, TRUE, policy)
    BY <1>3, <1>7, <1>8
  <1>12. \E record, value : Reads(command, t, semantic, record, value)
    BY <1>1, <1>6, <1>10, <1>11, SemanticReads
  <1>13. semantic \in SemanticDocument /\ \E bound : SemanticOK(semantic, bound)
    <2>1. d \in IndexedDocument /\ SemanticOK(d.semantic, UNION {SeqRange(b.bindings) : b \in d.maps})
      BY DEF ValidIndexed, d
    <2> QED
      BY <1>2, <2>1 DEF IndexedDocument
  <1> QED
    BY <1>2, <1>6, <1>9, <1>10, <1>12, <1>13 DEF Evident, d

-----------------------------------------------------------------------------
(* A check that passes is earned.                                          *)

\* Metrics of the evidence that meet a threshold were met by the raw inputs.
LEMMA MetricsRead ==
  ASSUME NEW command, NEW t, NEW s, Evident(command, t, s), NEW metric \in Metrics, NEW n \in Int, NEW empty,
         Meets(n, empty, RootSummary(s)[metric].covered, RootSummary(s)[metric].total)
  PROVE  RawMet(command, metric, n, empty)
  <1>1. CASE metric = "function"
    BY <1>1, FunctionsRead
  <1>2. CASE metric = "branch"
    BY <1>2, BranchesRead
  <1>3. CASE metric = "contract"
    BY <1>3, ContractsRead
  <1>4. CASE metric = "region"
    BY <1>4, RegionsRead
  <1>5. CASE metric = "line"
    BY <1>5, LinesRead
  <1> QED
    BY <1>1, <1>2, <1>3, <1>4, <1>5 DEF Metrics

\* A threshold that a configuration sets is a number.
LEMMA ThresholdsSet ==
  ASSUME NEW inv \in Invocations, NEW c, c = Resolve("check", inv.options, inv.file), ~IsRefused(c),
         NEW metric \in Metrics, c.coverage.thresholds[metric].value # Null
  PROVE  c.coverage.thresholds[metric].value \in Int
  <1> DEFINE key == <<"thresholds", metric>>
             options == inv.options
             file == inv.file
             v == Effective(key, options, file).value
  <1>1. c.coverage = CoverageOf(options, file)
    BY DEF Resolve, IsRefused, Refused
  <1>2. c.coverage.thresholds[metric].value = v
    <2> HIDE DEF options, file
    <2>1. c.coverage.thresholds = [k \in Metrics |-> Effective(<<"thresholds", k>>, options, file)]
      <3> DEFINE cov == CoverageOf(options, file)
      <3>1. cov.thresholds = [k \in Metrics |-> Effective(<<"thresholds", k>>, options, file)]
        BY DEF CoverageOf
      <3> HIDE DEF cov
      <3>2. c.coverage = cov
        BY <1>1 DEF cov
      <3> QED
        BY <3>1, <3>2
    <2> QED
      BY <2>1
  <1>3. key \in ThresholdKeys
    BY DEF ThresholdKeys
  <1>4. /\ key \in DOMAIN options => options[key] \in BasisPoints
        /\ file # Null => (key \in DOMAIN file.keys => file.keys[key] \in BasisPoints)
    BY <1>3, PipelineAssumption
  <1>5. Default(key) = Null
    BY DEF Default
  <1>6. key # <<"", "context">>
    OBVIOUS
  <1>7. v \in BasisPoints \/ v = Null
    <2> HIDE DEF key, options, file
    <2> QED
      BY <1>4, <1>5, <1>6 DEF Effective
  <1> HIDE DEF v
  <1>8. v # Null
    BY <1>2
  <1>9. \A n \in BasisPoints : n \in Int
    BY DEF BasisPoints
  <1> QED
    BY <1>2, <1>7, <1>8, <1>9

\* The documents are what their makers make, the report counts what the evidence counts,
\* and a pass is earned.
EarnInv ==
    /\ indexed # Null => ValidIndexed(indexed, OurTool)
    /\ report # Null /\ ValidReport(report, OurTool) =>
          RootSummary(EvidenceOf(report).semantic) = RootSummary(indexed.semantic)
    /\ report # Null /\ told = "published" => CountsEvidence(report, indexed)
    /\ PassIsEarned

\* Nothing has passed yet.
LEMMA EarnInitInv == Init => EarnInv
  BY DEF Init, EarnInv, PassIsEarned, PassIsBacked

\* A check of the evidence or of a report that passes met every project threshold with
\* the metrics of the evidence.
LEMMA LoadedMeets ==
  ASSUME Inv, PassInv, EarnInv, indexed # Null, NEW operand \in {"indexed", "report"}, operand = "report" => report # Null,
         NEW c, NEW at, ~IsRefused(Loaded(operand, c, at)), ExitStatus(Loaded(operand, c, at)) = "0",
         NEW metric \in Metrics, c.coverage.thresholds[metric].value \in Int, c.coverage.thresholds[metric].value # Null
  PROVE  Meets(c.coverage.thresholds[metric].value, c.coverage.empty.value,
               RootSummary(indexed.semantic)[metric].covered, RootSummary(indexed.semantic)[metric].total)
  <1>1. CASE operand = "indexed"
    <2>1. Loaded(operand, c, at) = Produce(indexed, c, at, OurTool)
      BY <1>1 DEF Loaded, FromIndexed, IsRefused
    <2>2. Countable(indexed.semantic)
      BY SemanticCountable DEF EarnInv, ValidIndexed, IndexedDocument
    <2> QED
      BY <2>1, <2>2, PassingMeets
  <1>2. CASE operand = "report"
    <2>1. ValidReport(report, OurTool) /\ Loaded(operand, c, at) = Rebuild(report, c, at, OurTool)
      BY <1>2 DEF Loaded, FromReport, IsRefused, Refused
    <2> DEFINE e == EvidenceOf(report)
    <2>2. Countable(e.semantic)
      BY <2>1, ReportCounted DEF ValidReport
    <2>3. Loaded(operand, c, at) = Produce(e, c, at, OurTool)
      BY <2>1 DEF Rebuild
    <2>4. RootSummary(e.semantic) = RootSummary(indexed.semantic)
      BY <1>2, <2>1 DEF EarnInv
    <2> HIDE DEF e
    <2>5. Meets(c.coverage.thresholds[metric].value, c.coverage.empty.value,
                RootSummary(e.semantic)[metric].covered, RootSummary(e.semantic)[metric].total)
      BY <2>2, <2>3, PassingMeets
    <2> QED
      BY <2>4, <2>5
  <1> QED
    BY <1>1, <1>2

\* What passes is earned, because the evidence is that of the raw inputs; no other
\* command ends in 0.
LEMMA EarnNextInv == Inv /\ PassInv /\ EarnInv /\ [Next]_vars => EarnInv'
  <1> SUFFICES ASSUME Inv, PassInv, EarnInv, [Next]_vars
               PROVE  EarnInv'
    OBVIOUS
  <1>0. PassIsBacked'
    BY PassNextInv DEF PassInv
  <1>1. ASSUME NEW command \in Commands, Merge(command)
        PROVE  EarnInv'
    <2>1. indexed = Null /\ report' = Null /\ told' = MergeEnd(BuildIndexed(command))
      BY <1>1 DEF Merge, Inv
    <2>2. told' # "0"
      BY <2>1 DEF MergeEnd
    <2>3. indexed' # Null => indexed' = BuildIndexed(command) /\ told' = "published"
      BY <1>1, <2>1 DEF Merge
    <2>4. told' = "published" => ValidIndexed(BuildIndexed(command), OurTool)
      BY <2>1 DEF MergeEnd
    <2> QED
      BY <1>0, <2>1, <2>2, <2>3, <2>4 DEF EarnInv, PassIsEarned
  <1>2. ASSUME NEW inv \in Invocations, Report(inv)
        PROVE  EarnInv'
    <2>1. indexed # Null /\ indexed' = indexed /\ report = Null
      BY <1>2 DEF Report
    <2>2. PICK c, at, r : /\ r = FromIndexed(c, at)
                          /\ report' # report => ~IsRefused(r) /\ (report' = r \/ report' = Null)
                          /\ told' \in {"refused", "internal failure"} \/ \E e : e = Publication(inv.export, r) /\ told' = e.ended
      BY <1>2 DEF Report
    <2>3. told' # "0"
      <3>1. \A rendered : EndOf(rendered, r) # "0"
        BY DEF EndOf
      <3>2. \A rendered, ended : Left(rendered, ended).ended = ended
        BY DEF Left
      <3>3. \A formats : Publication(formats, r).ended # "0"
        BY <3>1, <3>2 DEF Publication, ExportOf, Exported
      <3> QED
        BY <2>2, <3>3
    <2>4. report' # Null => CountsEvidence(report', indexed)
      <3> SUFFICES ASSUME report' # Null PROVE CountsEvidence(report', indexed)
        OBVIOUS
      <3>1. report' = r /\ ~IsRefused(r) /\ r = Produce(indexed, c, at, OurTool)
        BY <2>1, <2>2 DEF FromIndexed
      <3>2. Published(indexed)
        BY <2>1 DEF Inv
      <3>3. Reports(r, indexed)
        BY <3>1, <3>2, ReportMade DEF Published
      <3>4. CountsEvidence(r, indexed)
        BY <3>1, <3>2, <3>3, SummaryMade DEF Published
      <3> QED
        BY <3>1, <3>4
    <2>5. report' # Null /\ ValidReport(report', OurTool) =>
             RootSummary(EvidenceOf(report').semantic) = RootSummary(indexed.semantic)
      BY <2>4, AlteredCounts
    <2> QED
      BY <1>0, <2>1, <2>3, <2>4, <2>5 DEF EarnInv, PassIsEarned
  <1>3. ASSUME NEW operand \in {"indexed", "report"}, NEW inv \in Invocations, Check(operand, inv)
        PROVE  EarnInv'
    <2>1. /\ indexed # Null /\ UNCHANGED <<indexed, merged, report>>
          /\ told' # "published"
          /\ operand = "report" => report # Null
      BY <1>3 DEF Check, ExitStatus
    <2>2. PICK c : /\ c = Resolve("check", inv.options, inv.file)
                   /\ \E at \in Circumstances(c, FALSE) : \E r \in {Loaded(operand, c, at)} :
                         told' = "0" => ~IsRefused(r) /\ told' = ExitStatus(r) /\ config' = c
      BY <1>3 DEF Check
    <2>3. ASSUME told' = "0", NEW metric \in Metrics, config'.coverage.thresholds[metric].value # Null
          PROVE  RawMet(merged, metric, config'.coverage.thresholds[metric].value, config'.coverage.empty.value)
      <3>1. PICK at : ~IsRefused(Loaded(operand, c, at)) /\ ExitStatus(Loaded(operand, c, at)) = "0" /\ config' = c
        BY <2>2, <2>3
      <3>2. ~IsRefused(c)
        BY <3>1 DEF Loaded, FromIndexed, FromReport
      <3> DEFINE n == c.coverage.thresholds[metric].value
                 empty == c.coverage.empty.value
                 t == Tables(RawMaps(merged))
                 s == indexed.semantic
      <3>3. n # Null /\ n \in Int
        BY <2>2, <2>3, <3>1, <3>2, ThresholdsSet
      <3>4. Meets(n, empty, RootSummary(s)[metric].covered, RootSummary(s)[metric].total)
        BY <2>1, <3>1, <3>3, LoadedMeets
      <3>5. indexed = BuildIndexed(merged) /\ merged \in Commands /\ ~IsRefused(indexed) /\ s.complete
        <4>1. s.complete
          <5>1. CASE operand = "indexed"
            <6>1. Loaded(operand, c, at) = Produce(indexed, c, at, OurTool)
              BY <3>2, <5>1 DEF Loaded, FromIndexed
            <6> QED
              BY <3>1, <6>1, MadePassing DEF Passing
          <5>2. CASE operand = "report"
            <6>1. ValidReport(report, OurTool) /\ Loaded(operand, c, at) = Rebuild(report, c, at, OurTool)
              BY <3>1, <5>2 DEF Loaded, FromReport, IsRefused, Refused
            <6>2. Attests(report, indexed)
              BY <2>1, <5>2 DEF PassInv
            <6> QED
              BY <3>1, <6>1, <6>2, RebuiltPassing DEF Passing
          <5> QED
            BY <5>1, <5>2
        <4> QED
          BY <2>1, <4>1 DEF PassInv
      <3>6. Parsed(merged)
        BY <3>5, PipelineAssumption DEF Parsed
      <3>7. ValidIndexed(indexed, OurTool)
        BY <2>1 DEF EarnInv
      <3>8. Evident(merged, t, s)
        BY <3>5, <3>6, <3>7, CompleteEvidence
      <3> HIDE DEF n, empty, t, s
      <3>9. RawMet(merged, metric, n, empty)
        BY <3>3, <3>4, <3>8, MetricsRead
      <3> QED
        BY <3>1, <3>9 DEF n, empty
    <2> QED
      BY <1>0, <2>1, <2>3 DEF EarnInv, PassIsEarned
  <1>4. ASSUME NEW e \in Edited, Edit(e[1], e[2])
        PROVE  EarnInv'
    BY <1>0, <1>4 DEF Edit, EarnInv, PassIsEarned
  <1>5. CASE Alter
    <2>1. report' \in Alterations(report)
      BY <1>5 DEF Alter
    <2>2. /\ report # Null /\ told = "published" /\ told' = "none" /\ UNCHANGED <<indexed, merged>>
      BY <1>5 DEF Alter
    <2>3. CountsEvidence(report, indexed)
      BY <2>2 DEF EarnInv
    <2>4. ValidReport(report', OurTool) => RootSummary(EvidenceOf(report').semantic) = RootSummary(indexed.semantic)
      BY <2>1, <2>3, AlteredCounts
    <2> QED
      BY <1>0, <2>2, <2>4 DEF EarnInv, PassIsEarned
  <1>6. CASE UNCHANGED vars
    BY <1>6 DEF vars, EarnInv, PassIsEarned, PassIsBacked
  <1> QED
    BY <1>1, <1>2, <1>3, <1>4, <1>5, <1>6 DEF Next

\* A check exits 0 only when the raw counters of the merge meet each project threshold,
\* whether it read the evidence or a report, altered or not (exit_status, _threshold_evaluation).
THEOREM PassesAreEarned == Spec => []PassIsEarned
  <1>1. EarnInv => PassIsEarned
    BY DEF EarnInv
  <1> QED
    BY <1>1, InitInv, NextInv, PassInitInv, PassNextInv, EarnInitInv, EarnNextInv, PTL DEF Spec

-----------------------------------------------------------------------------
(* What a report holds apart from its policy does not depend on it.        *)

\* No unit of a metric depends on the policy of the report.
LEMMA UnitsAlike ==
  ASSUME NEW r, NEW v
  PROVE  LET x == [r EXCEPT !.policy = v] IN
         /\ CountedOutcomes(x) = CountedOutcomes(r) /\ Clauses(x) = Clauses(r) /\ SwitchedOff(x) = SwitchedOff(r)
         /\ \A c : Functions(x, c) = Functions(r, c)
         /\ \A n : Entry(x, n) = Entry(r, n)
         /\ ExecutableLines(x) = ExecutableLines(r) /\ UserRegions(x) = UserRegions(r) /\ Root(x) = Root(r)
         /\ \A metric : Blocked(x, metric) = Blocked(r, metric)
         /\ \A n : EntitySummary(x, n) = EntitySummary(r, n)
         /\ x.branches = r.branches /\ x.contracts = r.contracts /\ x.entities = r.entities /\ x.lines = r.lines
         /\ x.regions = r.regions /\ x.exclusions = r.exclusions /\ x.sources = r.sources /\ x.points = r.points
         /\ x.resolved_configuration = r.resolved_configuration /\ x.summary = r.summary /\ x.ratchet = r.ratchet
         /\ x.saturation = r.saturation /\ x.changes = r.changes
  <1> DEFINE x == [r EXCEPT !.policy = v]
  <1>1. /\ CountedOutcomes(x) = CountedOutcomes(r) /\ Clauses(x) = Clauses(r) /\ SwitchedOff(x) = SwitchedOff(r)
        /\ ExecutableLines(x) = ExecutableLines(r) /\ UserRegions(x) = UserRegions(r) /\ Root(x) = Root(r)
    BY DEF Root, CountedOutcomes, Clauses, SwitchedOff, ExecutableLines, UserRegions
  <1>2. \A n : Entry(x, n) = Entry(r, n)
    BY DEF Entry, Entries
  <1>3. \A c : Functions(x, c) = Functions(r, c)
    BY DEF Functions, Entry, Entries
  <1>4. \A metric : Blocked(x, metric) = Blocked(r, metric)
    BY DEF Blocked
  <1>5. \A n : EntitySummary(x, n) = EntitySummary(r, n)
    BY DEF EntitySummary, BranchMetric, ContractMetric, FunctionMetric, LineMetric, RegionMetric, CountedOutcomes, Clauses,
           SwitchedOff, Functions, Entry, Entries, ExecutableLines, UserRegions, ClauseRan, LineRan
  <1>6. /\ x.branches = r.branches /\ x.contracts = r.contracts /\ x.entities = r.entities /\ x.lines = r.lines
        /\ x.regions = r.regions /\ x.exclusions = r.exclusions /\ x.sources = r.sources /\ x.points = r.points
        /\ x.resolved_configuration = r.resolved_configuration /\ x.summary = r.summary /\ x.ratchet = r.ratchet
        /\ x.saturation = r.saturation /\ x.changes = r.changes
    OBVIOUS
  <1> HIDE DEF x
  <1> QED
    BY <1>1, <1>2, <1>3, <1>4, <1>5, <1>6 DEF x

\* Nor does an evaluation, but that of the evidence.
LEMMA EvaluationsAlike ==
  ASSUME NEW r, NEW v, r.ratchet # Null => r.resolved_configuration.coverage.ratchet.metrics.value \subseteq Metrics
  PROVE  LET x == [r EXCEPT !.policy = v] IN
         /\ ProjectEvaluations(x) = ProjectEvaluations(r)
         /\ ExclusionEvaluations(x) = ExclusionEvaluations(r)
         /\ RatchetEvaluations(x) = RatchetEvaluations(r)
         /\ DiffEvaluations(x) = DiffEvaluations(r)
         /\ AssertionEvaluations(x) = AssertionEvaluations(r)
  <1> DEFINE x == [r EXCEPT !.policy = v]
  <1>0. \A metric \in Metrics : metric \in {"branch", "contract", "function", "line", "region"}
    BY DEF Metrics
  <1>1. /\ CountedOutcomes(x) = CountedOutcomes(r) /\ Clauses(x) = Clauses(r) /\ SwitchedOff(x) = SwitchedOff(r)
        /\ \A c : Functions(x, c) = Functions(r, c)
        /\ \A n : Entry(x, n) = Entry(r, n)
        /\ ExecutableLines(x) = ExecutableLines(r) /\ UserRegions(x) = UserRegions(r) /\ Root(x) = Root(r)
        /\ \A metric : Blocked(x, metric) = Blocked(r, metric)
        /\ \A n : EntitySummary(x, n) = EntitySummary(r, n)
        /\ x.branches = r.branches /\ x.contracts = r.contracts /\ x.entities = r.entities /\ x.lines = r.lines
        /\ x.regions = r.regions /\ x.exclusions = r.exclusions /\ x.sources = r.sources /\ x.points = r.points
        /\ x.resolved_configuration = r.resolved_configuration /\ x.summary = r.summary /\ x.ratchet = r.ratchet
        /\ x.saturation = r.saturation /\ x.changes = r.changes
    BY UnitsAlike
  <1> HIDE DEF x
  <1>2. \A kind, name, metric, m, limit, source, code, members :
          AtLeast(x, kind, name, metric, m, limit, source, code, members)
            = AtLeast(r, kind, name, metric, m, limit, source, code, members)
    BY <1>1 DEF AtLeast
  <1>3. \A kind, name, metric, m, limit, source, members :
          ThresholdEvaluation(x, kind, name, metric, m, limit, source, members)
            = ThresholdEvaluation(r, kind, name, metric, m, limit, source, members)
    BY <1>2 DEF ThresholdEvaluation
  <1>4. \A metric \in Metrics : RootMembers(x, metric) = RootMembers(r, metric)
    BY <1>0, <1>1 DEF RootMembers, MembersIn
  <1>5. \A metric \in Metrics : ExcludedMembers(x, metric) = ExcludedMembers(r, metric)
    BY <1>0, <1>1 DEF ExcludedMembers
  <1>6. \A metric \in Metrics : ExcludedUnits(x, metric) = ExcludedUnits(r, metric)
    BY <1>0, <1>1, <1>5 DEF ExcludedUnits, Metrics
  <1>7. ProjectEvaluations(x) = ProjectEvaluations(r)
    BY <1>1, <1>3, <1>4 DEF ProjectEvaluations
  <1>8. ExclusionEvaluations(x) = ExclusionEvaluations(r)
    <2>1. \A m \in Metrics : \A cap : CapEvaluation(x, m, cap) = CapEvaluation(r, m, cap)
      BY <1>1, <1>5, <1>6 DEF CapEvaluation
    <2>2. ForbiddenEvaluation(x) = ForbiddenEvaluation(r)
      BY <1>1 DEF ForbiddenEvaluation, ForbiddenRecords
    <2> QED
      BY <1>1, <2>1, <2>2 DEF ExclusionEvaluations
  <1>9. RatchetEvaluations(x) = RatchetEvaluations(r)
    <2>1. \A m \in Metrics : \A tolerance : RatioEvaluation(x, m, tolerance) = RatioEvaluation(r, m, tolerance)
      BY <1>1, <1>2, <1>4 DEF RatioEvaluation
    <2>2. r.ratchet # Null => \A m \in r.resolved_configuration.coverage.ratchet.metrics.value : m \in Metrics
      OBVIOUS
    <2> DEFINE cfg == r.resolved_configuration.coverage.ratchet  ratios(y) ==
                   {RatioEvaluation(y, m, cfg.tolerance_basis_points.value) : m \in cfg.metrics.value}
               caps(y) == {AtMost("ratchet", "ratchet", m, FractionOf(ExcludedUnits(y, m), 1),
                                  FractionOf(r.ratchet.baseline.metrics[m].excluded, 1), "ratchet", "COV4201",
                                  Only(m, ExcludedMembers(y, m))) : m \in cfg.metrics.value}
    <2>3. r.ratchet # Null => ratios(x) = ratios(r) /\ caps(x) = caps(r)
      BY <1>5, <1>6, <2>1, <2>2
    <2> QED
      BY <1>1, <2>3 DEF RatchetEvaluations
  <1>10. DiffEvaluations(x) = DiffEvaluations(r)
    <2> DEFINE lines(y, i)  == UNION {c.changed_lines : c \in {d \in y.changes : d.source_index = i}}
               meets(y, z)  == \E n \in lines(y, z.source_index) : z.span.start_line <= n /\ n <= z.span.end_line
               on(y, z)     == z.line \in lines(y, z.source_index)
               changed(y)   == {c.source_index : c \in {d \in y.changes : d.changed_lines # {}}}
               measured(y, m) == CASE m = "line" -> LineMetric(y, LAMBDA z : on(y, z))
                                   [] m = "branch" -> BranchMetric(y, LAMBDA z : meets(y, z))
                                   [] m = "region" -> RegionMetric(y, LAMBDA z : meets(y, z))
               members(y, m)  == IF m = "line" THEN MembersIn(y, m, LAMBDA z : on(y, z))
                                 ELSE MembersIn(y, m, LAMBDA z : meets(y, z))
               limit(y, m) == y.resolved_configuration.coverage.diff[m].value
               one(y, m) == ThresholdEvaluation(y, "diff", "diff", m, measured(y, m), limit(y, m),
                                                IF limit(y, m) = Null THEN Null ELSE "diff",
                                                [Only(m, members(y, m)) EXCEPT !.source_indices = changed(y)])
    <2>1. \A y : DiffEvaluations(y) = IF y.changes = Null THEN {} ELSE {one(y, m) : m \in DiffedMetrics}
      BY DEF DiffEvaluations
    <2>2. \A z : on(x, z) = on(r, z) /\ meets(x, z) = meets(r, z)
      BY <1>1
    <2>3. changed(x) = changed(r) /\ \A m : limit(x, m) = limit(r, m)
      BY <1>1
    <2> HIDE DEF on, meets, changed, limit, lines
    <2>4. LineMetric(x, LAMBDA z : on(x, z)) = LineMetric(r, LAMBDA z : on(r, z))
      BY <1>1, <2>2 DEF LineMetric
    <2>5. BranchMetric(x, LAMBDA z : meets(x, z)) = BranchMetric(r, LAMBDA z : meets(r, z))
      BY <1>1, <2>2 DEF BranchMetric
    <2>6. RegionMetric(x, LAMBDA z : meets(x, z)) = RegionMetric(r, LAMBDA z : meets(r, z))
      BY <1>1, <2>2 DEF RegionMetric
    <2>7. \A m \in DiffedMetrics : measured(x, m) = measured(r, m)
      BY <2>4, <2>5, <2>6 DEF DiffedMetrics
    <2>8. \A m \in DiffedMetrics : members(x, m) = members(r, m)
      BY <1>1, <2>2 DEF DiffedMetrics, MembersIn
    <2> HIDE DEF measured, members
    <2>9. \A m \in DiffedMetrics : one(x, m) = one(r, m)
      BY <1>3, <2>3, <2>7, <2>8
    <2> HIDE DEF one
    <2> QED
      BY <1>1, <2>1, <2>9
  <1>11. AssertionEvaluations(x) = AssertionEvaluations(r)
    <2>1. ASSUME NEW s, NEW m \in Metrics PROVE ScopeEvaluation(x, s, m) = ScopeEvaluation(r, s, m)
      <3> DEFINE chosen == ScopeSources(r, s)
                 keep(y) == y.source_index \in chosen
                 t == Inherited(s, r.resolved_configuration.coverage.thresholds, m)
                 made(y) == ThresholdEvaluation(y, "scope", s.name.value, m, Group(y, keep)[m], t[1], t[2],
                                [Only(m, MembersIn(y, m, keep)) EXCEPT !.source_indices = chosen])
      <3>1. ScopeSources(x, s) = chosen
        BY <1>1 DEF ScopeSources
      <3>2. MembersIn(x, m, keep) = MembersIn(r, m, keep)
        <4> HIDE DEF keep
        <4> QED
          BY <1>0, <1>1 DEF MembersIn
      <3>3. Group(x, keep)[m] = Group(r, keep)[m]
        <4> HIDE DEF keep
        <4>1. BranchMetric(x, keep) = BranchMetric(r, keep) /\ ContractMetric(x, keep) = ContractMetric(r, keep)
          BY <1>1 DEF BranchMetric, ContractMetric
        <4>2. FunctionMetric(x, keep) = FunctionMetric(r, keep)
          BY DEF FunctionMetric, Functions, Entry, Entries, x
        <4>4. RegionMetric(x, keep) = RegionMetric(r, keep)
          BY <1>1 DEF RegionMetric
        <4>3. LineMetric(x, keep) = LineMetric(r, keep)
          BY <1>1 DEF LineMetric
        <4> QED
          BY <4>1, <4>2, <4>3, <4>4 DEF Group
      <3> DEFINE a == Group(x, keep)[m]  b == Group(r, keep)[m]  c == MembersIn(x, m, keep)  d == MembersIn(r, m, keep)
      <3>4. made(x) = made(r)
        <4>1. a = b /\ c = d
          BY <3>2, <3>3
        <4>2. made(x) = ThresholdEvaluation(x, "scope", s.name.value, m, a, t[1], t[2],
                            [Only(m, c) EXCEPT !.source_indices = chosen])
          OBVIOUS
        <4>3. made(r) = ThresholdEvaluation(r, "scope", s.name.value, m, b, t[1], t[2],
                            [Only(m, d) EXCEPT !.source_indices = chosen])
          OBVIOUS
        <4> HIDE DEF a, b, c, d, made, chosen, t
        <4> QED
          BY <1>3, <4>1, <4>2, <4>3
      <3>5. ScopeEvaluation(r, s, m) = made(r)
        BY DEF ScopeEvaluation
      <3>6. ScopeEvaluation(x, s, m) = made(x)
        BY DEF ScopeEvaluation, ScopeSources, x
      <3> QED
        BY <3>4, <3>5, <3>6
    <2>2. \A e : \A m \in Metrics : EntityEvaluation(x, e, m) = EntityEvaluation(r, e, m)
      <3>1. \A e : Named(x, e) = Named(r, e)
        BY <1>1 DEF Named
      <3>2. \A n : \A m \in Metrics : EntityMembers(x, n, m) = EntityMembers(r, n, m)
        BY <1>0, <1>1 DEF EntityMembers, MembersIn
      <3> SUFFICES ASSUME NEW e, NEW m \in Metrics PROVE EntityEvaluation(x, e, m) = EntityEvaluation(r, e, m)
        OBVIOUS
      <3> DEFINE n == CHOOSE k \in Named(r, e) : TRUE
                 t == Inherited(e, r.resolved_configuration.coverage.thresholds, m)
                 made(y) == ThresholdEvaluation(y, "entity", e.name.value, m, EntitySummary(y, n)[m], t[1], t[2],
                                [Only(m, EntityMembers(y, n, m)) EXCEPT !.entity_indices = @ \cup {n}])
      <3>3. EntityEvaluation(r, e, m) = made(r)
        BY DEF EntityEvaluation
      <3>4. EntityEvaluation(x, e, m) = made(x)
        BY DEF EntityEvaluation, Named, x
      <3> DEFINE a == EntitySummary(x, n)[m]  b == EntitySummary(r, n)[m]
                 c == EntityMembers(x, n, m)  d == EntityMembers(r, n, m)
      <3>5. made(x) = made(r)
        <4>1. a = b /\ c = d
          BY <1>1, <3>2
        <4>2. made(x) = ThresholdEvaluation(x, "entity", e.name.value, m, a, t[1], t[2],
                            [Only(m, c) EXCEPT !.entity_indices = @ \cup {n}])
          OBVIOUS
        <4>3. made(r) = ThresholdEvaluation(r, "entity", e.name.value, m, b, t[1], t[2],
                            [Only(m, d) EXCEPT !.entity_indices = @ \cup {n}])
          OBVIOUS
        <4> HIDE DEF a, b, c, d, made, n, t
        <4> QED
          BY <1>3, <4>1, <4>2, <4>3
      <3> QED
        BY <3>3, <3>4, <3>5
    <2> DEFINE cov == r.resolved_configuration.coverage
               byScope(y)  == UNION {{ScopeEvaluation(y, s, metric) : metric \in Metrics} : s \in cov.scopes}
               byEntity(y) == UNION {{EntityEvaluation(y, e, metric) : metric \in Applicable(e.kind.value)} : e \in cov.entities}
    <2>3. byScope(x) = byScope(r)
      BY <2>1
    <2>4. byEntity(x) = byEntity(r)
      <3>1. \A kind : Applicable(kind) \subseteq Metrics
        BY DEF Applicable, Metrics
      <3> QED
        BY <2>2, <3>1
    <2> QED
      BY <1>1, <2>3, <2>4 DEF AssertionEvaluations
  <1> QED
    BY <1>7, <1>8, <1>9, <1>10, <1>11 DEF x

-----------------------------------------------------------------------------
(* What is determined by other facts of a report.                          *)

\* The semantic view of a report has the report's own records.
LEMMA Viewed ==
  ASSUME NEW r, r \in ReportDocument
  PROVE  LET s == SemanticView(r) IN
         /\ s.branches = r.branches /\ s.contexts = r.contexts /\ s.contracts = r.contracts /\ s.entities = r.entities
         /\ s.lines = r.lines /\ s.points = r.points /\ s.regions = r.regions /\ s.saturation = r.saturation
         /\ s.sources = r.sources /\ s.exclusions = Lineless(r.exclusions)
  <1> DEFINE q == [r EXCEPT !.exclusions = Lineless(@)]
  <1>1. DOMAIN q = DOMAIN r /\ {"branches", "contexts", "contracts", "entities", "lines", "points", "regions", "saturation",
                                "sources", "exclusions"} \subseteq DOMAIN r
    BY DEF ReportDocument
  <1>2. q.exclusions = Lineless(r.exclusions)
    BY <1>1
  <1>3. \A k \in DOMAIN r \ {"exclusions"} : q[k] = r[k]
    OBVIOUS
  <1> HIDE DEF q
  <1>4. \A k \in DOMAIN q \ {"diagnostics"} : With(q, "diagnostics", IntegrityOf(r).diagnostics)[k] = q[k]
    BY DEF With
  <1>5. SemanticView(r) = With(q, "diagnostics", IntegrityOf(r).diagnostics)
    BY DEF SemanticView, q
  <1> QED
    BY <1>1, <1>2, <1>3, <1>4, <1>5

\* The verdict, the completeness and the eligibility follow of each other and the rest.
LEMMA VerdictFollows ==
  ASSUME NEW r, ValidReport(r, OurTool), NEW x, ValidReport(x, OurTool),
         \/ x = [r EXCEPT !.policy.passed = ~@]
         \/ x = [r EXCEPT !.evidence_eligibility = "passing"]
         \/ x = [r EXCEPT !.complete = ~@]
  PROVE  x = r
  <1>1. r \in ReportDocument
    BY DEF ValidReport
  <1>2. r = [f \in DOMAIN r |-> r[f]] /\ {"policy", "evidence_eligibility", "complete"} \subseteq DOMAIN r
        /\ r.policy \in Policy /\ r.complete \in BOOLEAN
    BY <1>1 DEF ReportDocument
  <1>3. CASE x = [r EXCEPT !.policy.passed = ~@]
    <2>1. x.policy = [r.policy EXCEPT !.passed = ~@]
      BY <1>2, <1>3
    <2>2. x.policy.evaluations = r.policy.evaluations /\ x.policy.passed = ~r.policy.passed
      BY <1>2, <2>1 DEF Policy
    <2>3. x.policy.passed = Passed(x.policy.evaluations) /\ r.policy.passed = Passed(r.policy.evaluations)
      BY DEF ValidReport, CrossValid
    <2>4. Passed(r.policy.evaluations) \in BOOLEAN
      BY DEF Passed
    <2> QED
      BY <2>2, <2>3, <2>4
  <1>4. CASE x = [r EXCEPT !.evidence_eligibility = "passing"]
    <2>1. EligibilityOf([r EXCEPT !.evidence_eligibility = "passing"]) = EligibilityOf(r)
      BY DEF EligibilityOf, Lossy
    <2>2. x.evidence_eligibility = EligibilityOf(x) /\ r.evidence_eligibility = EligibilityOf(r)
      BY DEF ValidReport, CrossValid
    <2>3. x.evidence_eligibility = "passing"
      BY <1>2, <1>4
    <2>4. r.evidence_eligibility = "passing"
      BY <1>4, <2>1, <2>2, <2>3
    <2> QED
      BY <1>2, <1>4, <2>4
  <1>5. CASE x = [r EXCEPT !.complete = ~@]
    <2>1. x.evidence_eligibility = r.evidence_eligibility /\ x.complete = ~r.complete
      BY <1>2, <1>5
    <2>2. /\ (x.evidence_eligibility = "incomplete") = ~x.complete
          /\ (r.evidence_eligibility = "incomplete") = ~r.complete
      BY DEF ValidReport, StructureOK
    <2> QED
      BY <1>2, <2>1, <2>2
  <1> QED
    BY <1>3, <1>4, <1>5

\* So do the summaries of the report and of its sources of the records they count.
LEMMA SummariesFollow ==
  ASSUME NEW r, ValidReport(r, OurTool), NEW x, ValidReport(x, OurTool), NEW v,
         \/ x = [r EXCEPT !.summary = v]
         \/ \E i \in DOMAIN r.sources : x = [r EXCEPT !.sources[i].summary = v]
  PROVE  x = r
  <1>1. r \in ReportDocument
    BY DEF ValidReport
  <1>2. r = [f \in DOMAIN r |-> r[f]] /\ {"summary", "sources"} \subseteq DOMAIN r
        /\ r.sources \in Seq(ReportSource)
    BY <1>1 DEF ReportDocument
  <1>3. CASE x = [r EXCEPT !.summary = v]
    <2>1. RootSummary([r EXCEPT !.summary = v]) = RootSummary(r)
      BY DEF RootSummary, Root, Group, BranchMetric, ContractMetric, FunctionMetric, LineMetric, RegionMetric, CountedOutcomes,
             Clauses, SwitchedOff, Functions, Entry, Entries, ExecutableLines, UserRegions, ClauseRan
    <2>2. x.summary = RootSummary(x) /\ r.summary = RootSummary(r)
      BY DEF ValidReport, CrossValid, SummariesOK
    <2>3. x.summary = v
      BY <1>2, <1>3
    <2>4. v = r.summary
      BY <1>3, <2>1, <2>2, <2>3
    <2> QED
      BY <1>2, <1>3, <2>4
  <1>4. ASSUME NEW i \in DOMAIN r.sources, x = [r EXCEPT !.sources[i].summary = v]
        PROVE  x = r
    <2>1. \A n : SourceSummary([r EXCEPT !.sources[i].summary = v], n) = SourceSummary(r, n)
      BY DEF SourceSummary, Group, BranchMetric, ContractMetric, FunctionMetric, LineMetric, RegionMetric, CountedOutcomes,
             Clauses, SwitchedOff, Functions, Entry, Entries, ExecutableLines, UserRegions, ClauseRan
    <2>2. x.sources = [r.sources EXCEPT ![i].summary = v]
      BY <1>2, <1>4
    <2>3. r.sources[i] \in ReportSource /\ r.sources = [k \in DOMAIN r.sources |-> r.sources[k]]
      BY <1>2
    <2>4. x.sources[i] = [r.sources[i] EXCEPT !.summary = v] /\ DOMAIN x.sources = DOMAIN r.sources
      BY <2>2, <2>3
    <2>5. x.sources[i].summary = SourceSummary(x, i) /\ r.sources[i].summary = SourceSummary(r, i)
      BY <2>4 DEF ValidReport, CrossValid, SummariesOK
    <2>6. x.sources[i].summary = v
      BY <2>3, <2>4 DEF ReportSource
    <2>7. r.sources[i].summary = v
      BY <1>4, <2>1, <2>5, <2>6
    <2>8. [r.sources[i] EXCEPT !.summary = v] = r.sources[i]
      BY <2>3, <2>7 DEF ReportSource
    <2>9. x.sources = r.sources
      BY <2>2, <2>3, <2>8
    <2> QED
      BY <1>2, <1>4, <2>2, <2>9
  <1> QED
    BY <1>3, <1>4

\* What the semantic reader asks of a report's own records.
LEMMA ReadSemantic ==
  ASSUME NEW r, ValidReport(r, OurTool)
  PROVE  LET by    == PointsBy(r.points)
             bound == {p.point_id : p \in {q \in r.points : q.classification \notin Uncounted}} IN
         /\ SaturationRecordOK(r.saturation)
         /\ \A p \in r.points : PointRecordOK(p, Len(r.contexts))
         /\ \A p, q \in r.points : p.point_id = q.point_id => p = q
         /\ \A p \in r.points : SemanticPointOK(p, SemanticView(r), bound)
         /\ \A y \in SeqRange(r.regions) : SemanticRegionOK(y, SemanticView(r), bound, by)
         /\ r.lines = Lines(r.regions)
         /\ \A b \in SeqRange(r.branches) : SemanticBranchOK(b, SemanticView(r), by)
         /\ \A c \in SeqRange(r.contracts) : SemanticContractOK(c, SemanticView(r), bound)
         /\ \A y \in SeqRange(Lineless(r.exclusions)) : ExclusionOK(y, SemanticView(r), by)
         /\ [r.saturation EXCEPT !.ineligible_uses = {}] = SaturationOf(r.points, r.regions, r.saturation.policy)
  <1> DEFINE s == SemanticView(r)
             bound == {p.point_id : p \in {q \in r.points : q.classification \notin Uncounted}}
  <1>1. r \in ReportDocument /\ SemanticOK(s, bound)
    BY DEF ValidReport, CrossValid
  <1>2. /\ s.branches = r.branches /\ s.contexts = r.contexts /\ s.contracts = r.contracts /\ s.entities = r.entities
        /\ s.lines = r.lines /\ s.points = r.points /\ s.regions = r.regions /\ s.saturation = r.saturation
        /\ s.sources = r.sources /\ s.exclusions = Lineless(r.exclusions)
    BY <1>1, Viewed
  <1> HIDE DEF s, bound
  <1>3. RecordsOK(s) /\ ExclusionsOK(s)
    BY <1>1 DEF SemanticOK
  <1>4. SaturationRecordOK(r.saturation) /\ \A p \in r.points : PointRecordOK(p, Len(r.contexts))
    BY <1>2, <1>3 DEF RecordsOK
  <1>5. \A y \in SeqRange(Lineless(r.exclusions)) : ExclusionOK(y, s, PointsBy(r.points))
    BY <1>2, <1>3 DEF ExclusionsOK
  <1>6. /\ \A p, q \in r.points : p.point_id = q.point_id => p = q
        /\ \A p \in r.points : SemanticPointOK(p, s, bound)
        /\ r.lines = Lines(r.regions)
    BY <1>1, <1>2 DEF SemanticOK
  <1>7. \A y \in SeqRange(r.regions) : SemanticRegionOK(y, s, bound, PointsBy(r.points))
    BY <1>1, <1>2 DEF SemanticOK
  <1>8. \A b \in SeqRange(r.branches) : SemanticBranchOK(b, s, PointsBy(r.points))
    BY <1>1, <1>2 DEF SemanticOK
  <1>9. \A c \in SeqRange(r.contracts) : SemanticContractOK(c, s, bound)
    BY <1>1, <1>2 DEF SemanticOK
  <1>10. [r.saturation EXCEPT !.ineligible_uses = {}] = SaturationOf(r.points, r.regions, r.saturation.policy)
    BY <1>1, <1>2 DEF SemanticOK
  <1> QED
    BY <1>4, <1>5, <1>6, <1>7, <1>8, <1>9, <1>10 DEF s, bound

\* The provenance and the contexts follow of the inputs, and the saturation of the counts.
LEMMA InputsFollow ==
  ASSUME NEW r, ValidReport(r, OurTool), NEW x, ValidReport(x, OurTool),
         \/ x = [r EXCEPT !.provenance.run_ids = {}]
         \/ x = [r EXCEPT !.provenance.execution.status = "failed"]
         \/ x = [r EXCEPT !.contexts = Append(@, 99)]
         \/ x = [r EXCEPT !.saturation.any = ~@]
  PROVE  x = r
  <1>1. r \in ReportDocument
    BY DEF ValidReport
  <1>2. r = [f \in DOMAIN r |-> r[f]] /\ {"provenance", "contexts", "saturation", "inputs"} \subseteq DOMAIN r
        /\ r.provenance \in Provenance /\ r.contexts \in Seq(Nullable(Text)) /\ r.saturation \in Saturation
    BY <1>1 DEF ReportDocument
  <1>3. CASE x = [r EXCEPT !.provenance.run_ids = {}]
    <2>1. x.provenance = [r.provenance EXCEPT !.run_ids = {}] /\ x.inputs = r.inputs
      BY <1>2, <1>3
    <2>2. x.provenance.run_ids = {}
      BY <1>2, <2>1 DEF Provenance
    <2>3. /\ x.provenance.run_ids = {y.run_id : y \in Accepted(x.inputs)}
          /\ r.provenance.run_ids = {y.run_id : y \in Accepted(r.inputs)}
      BY DEF ValidReport, CrossValid, InputsOK
    <2>4. r.provenance.run_ids = {}
      BY <2>1, <2>2, <2>3
    <2>5. [r.provenance EXCEPT !.run_ids = {}] = r.provenance
      BY <1>2, <2>4 DEF Provenance
    <2> QED
      BY <1>2, <1>3, <2>1, <2>5
  <1>4. CASE x = [r EXCEPT !.provenance.execution.status = "failed"]
    <2>1. x.provenance = [r.provenance EXCEPT !.execution.status = "failed"]
      BY <1>2, <1>4
    <2> DEFINE e == r.provenance.execution
    <2>2. x.provenance.execution = [e EXCEPT !.status = "failed"] /\ e \in Execution
      BY <1>2, <2>1 DEF Provenance
    <2>3. ExecutionOK(x.provenance.execution) /\ ExecutionOK(e)
      BY DEF ValidReport, StructureOK, ProvenanceOK
    <2>4. e.status = "failed"
      <3> HIDE DEF e
      <3>1. /\ x.provenance.execution.status = "failed" /\ x.provenance.execution.exit_code = e.exit_code
            /\ x.provenance.execution.signal = e.signal
        BY <2>2 DEF Execution
      <3> QED
        BY <2>2, <2>3, <3>1 DEF Execution, ExecutionOK
    <2>5. [e EXCEPT !.status = "failed"] = e
      <3> HIDE DEF e
      <3> QED
        BY <2>2, <2>4 DEF Execution
    <2>6. x.provenance = r.provenance
      BY <1>2, <2>1, <2>5 DEF Provenance
    <2> QED
      BY <1>2, <1>4, <2>6
  <1>5. CASE x = [r EXCEPT !.contexts = Append(@, 99)]
    <2>1. x.contexts = Append(r.contexts, 99) /\ x.inputs = r.inputs
      BY <1>2, <1>5
    <2>2. /\ {y.context_index : y \in x.inputs} \ {Null} = DOMAIN x.contexts
          /\ {y.context_index : y \in r.inputs} \ {Null} = DOMAIN r.contexts
      BY DEF ValidReport, CrossValid, InputsOK
    <2>3. DOMAIN x.contexts = 1 .. Len(r.contexts) + 1 /\ DOMAIN r.contexts = 1 .. Len(r.contexts) /\ Len(r.contexts) \in Nat
      BY <1>2, <2>1
    <2>4. Len(r.contexts) + 1 \in DOMAIN x.contexts /\ Len(r.contexts) + 1 \notin DOMAIN r.contexts
      BY <2>3
    <2> QED
      BY <2>1, <2>2, <2>4
  <1>6. CASE x = [r EXCEPT !.saturation.any = ~@]
    <2>1. x.saturation = [r.saturation EXCEPT !.any = ~@]
      BY <1>2, <1>6
    <2>2. /\ x.saturation.any = ~r.saturation.any
          /\ x.saturation.affected_point_ids = r.saturation.affected_point_ids
          /\ x.saturation.affected_region_indices = r.saturation.affected_region_indices
      BY <1>2, <2>1 DEF Saturation
    <2>3. SaturationRecordOK(x.saturation) /\ SaturationRecordOK(r.saturation)
      BY ReadSemantic
    <2> QED
      BY <1>2, <2>2, <2>3 DEF SaturationRecordOK, Saturation
  <1> QED
    BY <1>3, <1>4, <1>5, <1>6

\* The lines follow of the regions, what exclusions touch of the lines, and the count
\* of a region of its points'.
LEMMA RecordsFollow ==
  ASSUME NEW r, ValidReport(r, OurTool), NEW x, ValidReport(x, OurTool),
         \/ \E i \in DOMAIN r.lines : x = [r EXCEPT !.lines[i].status = "covered"]
         \/ \E i \in DOMAIN r.regions : x = [r EXCEPT !.regions[i].count.value = @ + 1]
         \/ \E i \in DOMAIN r.exclusions : x = [r EXCEPT !.exclusions[i].affected.line_indices = {}]
  PROVE  x = r
  <1>1. r \in ReportDocument
    BY DEF ValidReport
  <1>2. r = [f \in DOMAIN r |-> r[f]] /\ {"lines", "regions", "exclusions"} \subseteq DOMAIN r
        /\ r.lines \in Seq(Line) /\ r.regions \in Seq(ReportRegion) /\ r.exclusions \in Seq(ReportExclusion)
    BY <1>1 DEF ReportDocument
  <1>3. ASSUME NEW i \in DOMAIN r.lines, x = [r EXCEPT !.lines[i].status = "covered"]
        PROVE  x = r
    <2>1. x.regions = r.regions
      BY <1>2, <1>3
    <2>2. x.lines = Lines(x.regions) /\ r.lines = Lines(r.regions)
      BY ReadSemantic
    <2>3. x.lines = r.lines
      BY <2>1, <2>2
    <2> QED
      BY <1>2, <1>3, <2>3
  <1>4. ASSUME NEW i \in DOMAIN r.regions, x = [r EXCEPT !.regions[i].count.value = @ + 1]
        PROVE  x = r
    <2>1. /\ x.regions = [r.regions EXCEPT ![i].count.value = @ + 1]
          /\ x.points = r.points /\ x.contexts = r.contexts
      BY <1>2, <1>4
    <2> DEFINE a == r.regions[i]  b == x.regions[i]
    <2>2. a \in ReportRegion /\ b = [a EXCEPT !.count.value = @ + 1] /\ i \in DOMAIN x.regions
      BY <1>2, <2>1
    <2>3. b \in SeqRange(x.regions) /\ a \in SeqRange(r.regions)
      BY <2>2 DEF SeqRange
    <2>4. /\ b.counter_expression = a.counter_expression /\ a.count \in CountRecord
          /\ b.count.value = a.count.value + 1
      <3> HIDE DEF a, b
      <3>1. b.counter_expression = a.counter_expression /\ b.count = [a.count EXCEPT !.value = @ + 1] /\ a.count \in CountRecord
        BY <2>2 DEF ReportRegion
      <3> QED
        BY <3>1 DEF CountRecord
    <2> DEFINE by == PointsBy(r.points)
               counted(y, n) == Recorded([c \in n |-> Evaluate(ExprOf(y), [pid \in TermIDs(y) |-> InContext(by[pid].count, c)])])
    <2>5. SemanticView(x).contexts = x.contexts /\ SemanticView(r).contexts = r.contexts
      BY Viewed DEF ValidReport
    <2>6. a.count = counted(a, DOMAIN r.contexts)
      <3> DEFINE bound == {p.point_id : p \in {q \in r.points : q.classification \notin Uncounted}}
      <3>1. SemanticRegionOK(a, SemanticView(r), bound, by)
        BY <2>3, ReadSemantic
      <3> HIDE DEF a, b, bound, by
      <3>2. a.count = Recorded([c \in DOMAIN SemanticView(r).contexts |->
                                  Evaluate(ExprOf(a), [pid \in TermIDs(a) |-> InContext(by[pid].count, c)])])
        BY <3>1 DEF SemanticRegionOK
      <3> QED
        BY <2>5, <3>2
    <2>7. b.count = counted(b, DOMAIN r.contexts)
      <3> DEFINE bound == {p.point_id : p \in {q \in x.points : q.classification \notin Uncounted}}
      <3>1. SemanticRegionOK(b, SemanticView(x), bound, by)
        BY <2>1, <2>3, ReadSemantic
      <3> HIDE DEF a, b, bound, by
      <3>2. b.count = Recorded([c \in DOMAIN SemanticView(x).contexts |->
                                  Evaluate(ExprOf(b), [pid \in TermIDs(b) |-> InContext(by[pid].count, c)])])
        BY <3>1 DEF SemanticRegionOK
      <3> QED
        BY <2>1, <2>5, <3>2
    <2>8. counted(a, DOMAIN r.contexts) = counted(b, DOMAIN r.contexts)
      <3> HIDE DEF a, b, by
      <3> QED
        BY <2>4 DEF ExprOf, TermIDs
    <2>9. a.count.value \in Nat
      BY <2>4, MaxCountAssumption DEF CountRecord
    <2> HIDE DEF a, b, counted
    <2> QED
      BY <2>4, <2>6, <2>7, <2>8, <2>9
  <1>5. ASSUME NEW i \in DOMAIN r.exclusions, x = [r EXCEPT !.exclusions[i].affected.line_indices = {}]
        PROVE  x = r
    <2>1. /\ x.exclusions = [r.exclusions EXCEPT ![i].affected.line_indices = {}]
          /\ x.branches = r.branches /\ x.contracts = r.contracts /\ x.lines = r.lines /\ x.regions = r.regions
      BY <1>2, <1>5
    <2> DEFINE a == r.exclusions[i].affected  b == x.exclusions[i].affected
    <2>2. r.exclusions[i] \in ReportExclusion
      BY <1>2
    <2>3. x.exclusions[i] = [r.exclusions[i] EXCEPT !.affected.line_indices = {}] /\ i \in DOMAIN x.exclusions
      BY <1>2, <2>1
    <2>4. b = [a EXCEPT !.line_indices = {}] /\ a \in ReportAffected
      BY <2>2, <2>3 DEF ReportExclusion
    <2>5. /\ b.line_indices = {} /\ b.branch_indices = a.branch_indices
          /\ b.clause_indices = a.clause_indices /\ b.region_indices = a.region_indices
      <3> HIDE DEF a, b
      <3> QED
        BY <2>4 DEF ReportAffected
    <2>6. b.line_indices = LineIndices(x, b) /\ a.line_indices = LineIndices(r, a)
      <3>1. x.exclusions[i] \in SeqRange(x.exclusions) /\ r.exclusions[i] \in SeqRange(r.exclusions)
        BY <2>3 DEF SeqRange
      <3> QED
        BY <3>1 DEF ValidReport, CrossValid
    <2>7. LineIndices(x, b) = LineIndices(r, a)
      <3> HIDE DEF a, b
      <3> QED
        BY <2>1, <2>5 DEF LineIndices
    <2>8. [a EXCEPT !.line_indices = {}] = a
      <3> HIDE DEF a, b
      <3> QED
        BY <2>4, <2>5, <2>6, <2>7 DEF ReportAffected
    <2>9. [r.exclusions[i] EXCEPT !.affected.line_indices = {}] = r.exclusions[i]
      BY <2>2, <2>8 DEF ReportExclusion
    <2>10. x.exclusions = r.exclusions
      BY <1>2, <2>1, <2>9
    <2> QED
      BY <1>2, <1>5, <2>10
  <1> QED
    BY <1>3, <1>4, <1>5

\* A point that another record rests on cannot be taken out.
LEMMA PointsStay ==
  ASSUME NEW r, ValidReport(r, OurTool), NEW x, ValidReport(x, OurTool),
         NEW p \in r.points, Referred(r, p), x = [r EXCEPT !.points = @ \ {p}]
  PROVE  FALSE
  <1>1. r \in ReportDocument /\ x \in ReportDocument
    BY DEF ValidReport
  <1>2. /\ x.points = r.points \ {p} /\ x.regions = r.regions /\ x.branches = r.branches /\ x.contracts = r.contracts
        /\ x.exclusions = r.exclusions /\ x.saturation = r.saturation /\ x.entities = r.entities /\ x.sources = r.sources
        /\ x.contexts = r.contexts
    BY <1>1 DEF ReportDocument
  <1>3. \A q \in r.points : q.point_id = p.point_id => q = p
    BY ReadSemantic
  <1>4. p.point_id \notin DOMAIN PointsBy(x.points)
    BY <1>2, <1>3 DEF PointsBy
  <1>5. SemanticView(x).points = x.points /\ SemanticView(r).points = r.points /\ SemanticView(r).entities = r.entities
    BY <1>1, Viewed
  <1>6. CASE p.kind = "function_entry" /\ p.classification = "user" /\ Entries(r, p.entity_index) = {p}
    <2> DEFINE n == p.entity_index
    <2>1. SemanticOK(SemanticView(r), {q.point_id : q \in {z \in r.points : z.classification \notin Uncounted}})
      BY DEF ValidReport, CrossValid
    <2>2. n \in DOMAIN r.entities
      BY <1>5, <1>6, <2>1, EntryPoint
    <2>3. r.entities[n].kind = "function"
      BY <1>5, <1>6, <2>1, EntryPoint
    <2>4. Entries(x, n) = {}
      BY <1>2, <1>6 DEF Entries
    <2>5. Entry(r, n).classification = "user"
      <3>1. Entry(r, n) \in Entries(r, n)
        <4>1. p.point_id \in Seq(Int)
          BY <1>1 DEF ReportDocument, Point, PointID
        <4>2. \A q \in Entries(r, n) : ~Before(p.point_id, q.point_id)
          BY <1>6, <4>1, BeforeOrder
        <4> QED
          BY <1>6, <4>2 DEF Entry
      <3> QED
        BY <1>6, <3>1
    <2>6. Functions(r, "user") \cap {n} = {n}
      BY <1>6, <2>2, <2>3, <2>5 DEF Functions
    <2>7. Functions(x, "user") \cap {n} = {}
      BY <2>4 DEF Functions
    <2>8. EntitySummary(r, n)["function"].total = 1
      <3>1. EntitySummary(r, n)["function"] = Share({f \in {n} : Entry(r, f).count.value > 0}, {n})
        BY <2>3, <2>6 DEF EntitySummary
      <3>2. \A ran : Share(ran, {n}).total = Cardinality({n})
        BY DEF Share, Measured
      <3> QED
        BY <3>1, <3>2, FS_Singleton
    <2>9. EntitySummary(x, n)["function"].total = 0
      <3>1. EntitySummary(x, n)["function"] = Share({f \in {} : Entry(x, f).count.value > 0}, {})
        BY <1>2, <2>3, <2>7 DEF EntitySummary
      <3> QED
        BY <3>1, FS_EmptySet DEF Share, Measured
    <2>10. r.entities[n].summary = EntitySummary(r, n) /\ x.entities[n].summary = EntitySummary(x, n)
      BY <1>2, <2>2 DEF ValidReport, CrossValid, SummariesOK
    <2> QED
      BY <1>2, <2>8, <2>9, <2>10
  <1>7. ASSUME NEW y \in SeqRange(r.regions), p.point_id \in TermIDs(y)
        PROVE  FALSE
    <2>1. \A t \in y.counter_expression : t.point_id \in DOMAIN PointsBy(x.points)
      BY <1>2, ReadSemantic DEF SemanticRegionOK
    <2> QED
      BY <1>4, <1>7, <2>1 DEF TermIDs
  <1>8. ASSUME NEW b \in SeqRange(r.branches), p.point_id \in OutcomeIDs(b)
        PROVE  FALSE
    <2>1. \A i \in DOMAIN b.outcomes : b.outcomes[i].point_id \in DOMAIN PointsBy(x.points)
      BY <1>2, ReadSemantic DEF SemanticBranchOK
    <2> QED
      BY <1>4, <1>8, <2>1 DEF OutcomeIDs, SeqRange
  <1>9. ASSUME NEW c \in SeqRange(r.contracts), c.enforcement = "runtime_checked", p.kind \in ContractOutcome,
               p.entity_index = c.entity_index
        PROVE  FALSE
    <2> DEFINE mine(q) == {z \in q.points : z.kind = p.kind /\ z.entity_index = c.entity_index}
    <2>1. \A q : ValidReport(q, OurTool) /\ q.contracts = r.contracts => \E z \in mine(q) : mine(q) = {z}
      <3> SUFFICES ASSUME NEW q, ValidReport(q, OurTool), q.contracts = r.contracts
                   PROVE  \E z \in mine(q) : mine(q) = {z}
        OBVIOUS
      <3> DEFINE s == SemanticView(q)
                 bound == {z.point_id : z \in {y \in q.points : y.classification \notin Uncounted}}
      <3>1. SemanticContractOK(c, s, bound)
        BY ReadSemantic
      <3>2. s.points = q.points
        BY Viewed DEF ValidReport
      <3> HIDE DEF s, bound
      <3>3. p.kind = "contract_true" \/ p.kind = "contract_false"
        BY <1>9 DEF ContractOutcome
      <3>4. CASE p.kind = "contract_true"
        BY <1>9, <3>1, <3>2, <3>4 DEF SemanticContractOK
      <3>5. CASE p.kind = "contract_false"
        BY <1>9, <3>1, <3>2, <3>5 DEF SemanticContractOK
      <3> QED
        BY <3>3, <3>4, <3>5
    <2>2. (\E z \in mine(r) : mine(r) = {z}) /\ (\E z \in mine(x) : mine(x) = {z})
      BY <1>2, <2>1
    <2>3. p \in mine(r) /\ mine(x) = mine(r) \ {p}
      BY <1>2, <1>9
    <2> QED
      BY <2>2, <2>3
  <1>10. ASSUME NEW y \in SeqRange(r.exclusions), p.point_id \in y.affected.point_ids
         PROVE  FALSE
    <2>1. PICK i \in DOMAIN r.exclusions : y = r.exclusions[i]
      BY DEF SeqRange
    <2> DEFINE z == Lineless(r.exclusions)[i]
    <2>2. y \in ReportExclusion
      BY <1>1, <2>1 DEF ReportDocument
    <2>3. z = [y EXCEPT !.affected = Without(@, {"line_indices"})] /\ z \in SeqRange(Lineless(r.exclusions))
      BY <2>1 DEF Lineless, SeqRange
    <2>4. z.affected.point_ids = y.affected.point_ids
      BY <2>2, <2>3 DEF ReportExclusion, ReportAffected, Without
    <2>5. z.affected.point_ids \subseteq DOMAIN PointsBy(x.points)
      BY <1>2, <2>3, ReadSemantic DEF ExclusionOK
    <2> QED
      BY <1>4, <1>10, <2>4, <2>5
  <1>11. CASE p.point_id \in r.saturation.affected_point_ids
    <2>1. r.saturation \in Saturation
      BY <1>1 DEF ReportDocument
    <2>2. [r.saturation EXCEPT !.ineligible_uses = {}].affected_point_ids = r.saturation.affected_point_ids
      BY <2>1 DEF Saturation
    <2>3. [r.saturation EXCEPT !.ineligible_uses = {}] = SaturationOf(x.points, x.regions, r.saturation.policy)
      BY <1>2, ReadSemantic
    <2>4. SaturationOf(x.points, x.regions, r.saturation.policy).affected_point_ids
             = {q.point_id : q \in {z \in x.points : z.count.lower_bound}}
      BY DEF SaturationOf
    <2>5. p.point_id \in {q.point_id : q \in {z \in x.points : z.count.lower_bound}}
      BY <1>11, <2>2, <2>3, <2>4
    <2>6. PICK q \in x.points : q.point_id = p.point_id
      BY <2>5
    <2> QED
      BY <1>2, <1>3, <2>6
  <1> QED
    BY <1>6, <1>7, <1>8, <1>9, <1>10, <1>11 DEF Referred

\* The reports differ in their policy alone.
Rejudged(x, r) == \E w : x = [r EXCEPT !.policy = w]

\* The verdicts that a report's records determine, by kind.
LEMMA VerdictsDetermined ==
  ASSUME NEW r, ValidReport(r, OurTool), NEW x, ValidReport(x, OurTool), Rejudged(x, r),
         NEW e, e.assertion_kind \in {"diff", "entity", "exclusion", "project", "ratchet", "scope"}
  PROVE  e \in r.policy.evaluations <=> e \in x.policy.evaluations
  <1>1. r \in ReportDocument
    BY DEF ValidReport
  <1>3. r.ratchet # Null => r.resolved_configuration.coverage.ratchet.metrics.value \subseteq Metrics
    <2>1. (r.ratchet = Null) = (r.resolved_configuration.coverage.ratchet = Null)
      BY DEF ValidReport, StructureOK
    <2>2. r.resolved_configuration.coverage.ratchet \in Nullable(RatchetTable)
      BY <1>1 DEF ReportDocument, ConfigurationDocument, CoverageTable
    <2> QED
      BY <2>1, <2>2 DEF Nullable, RatchetTable, Leaf
  <1>4. /\ ProjectEvaluations(x) = ProjectEvaluations(r) /\ ExclusionEvaluations(x) = ExclusionEvaluations(r)
        /\ RatchetEvaluations(x) = RatchetEvaluations(r) /\ DiffEvaluations(x) = DiffEvaluations(r)
        /\ AssertionEvaluations(x) = AssertionEvaluations(r)
    BY <1>3, EvaluationsAlike DEF Rejudged
  <1>5. EvaluationsOK(r) /\ EvaluationsOK(x)
    BY DEF ValidReport, CrossValid
  <1>6. /\ OfKind(x, {"project"}) = OfKind(r, {"project"}) /\ OfKind(x, {"entity", "scope"}) = OfKind(r, {"entity", "scope"})
        /\ OfKind(x, {"exclusion"}) = OfKind(r, {"exclusion"}) /\ OfKind(x, {"ratchet"}) = OfKind(r, {"ratchet"})
        /\ OfKind(x, {"diff"}) = OfKind(r, {"diff"})
    BY <1>4, <1>5 DEF EvaluationsOK
  <1> QED
    BY <1>6 DEF OfKind

\* There is one evaluation of the evidence.
LEMMA IntegrityAlone ==
  ASSUME NEW r, ValidReport(r, OurTool), NEW e \in r.policy.evaluations, e.assertion_kind = "integrity"
  PROVE  {y \in r.policy.evaluations : y.assertion_kind = "integrity"} = {e} /\ IntegrityOf(r) = e
  <1>1. \A y \in r.policy.evaluations : y.assertion_kind = "integrity" =>
           y.assertion_name = "integrity" /\ y.metric = "evidence" /\ y.comparison = "none"
    BY DEF ValidReport, StructureOK, PolicyOK, EvaluationOK, SingletonName
  <1>2. ~Contradicts(r.policy.evaluations, LAMBDA y : <<y.assertion_kind, y.assertion_name, y.metric, y.comparison>>)
    BY DEF ValidReport, CrossValid, EvaluationsOK
  <1>3. \A y, z \in r.policy.evaluations :
           y.assertion_kind = z.assertion_kind /\ y.assertion_name = z.assertion_name /\ y.metric = z.metric
              /\ y.comparison = z.comparison => y = z
    BY <1>2 DEF Contradicts
  <1>4. \A y \in r.policy.evaluations : y.assertion_kind = "integrity" => y = e
    BY <1>1, <1>3
  <1> QED
    BY <1>4 DEF IntegrityOf

\* No evaluation can be taken out or given another result.
LEMMA EvaluationsStay ==
  ASSUME NEW r, ValidReport(r, OurTool), NEW x, ValidReport(x, OurTool), NEW e \in r.policy.evaluations,
         \/ x = [r EXCEPT !.policy.evaluations = (@ \ {e}) \cup {[e EXCEPT !.result = "pass", !.diagnostics = {}]}]
         \/ x = [r EXCEPT !.policy.evaluations = @ \ {e}]
  PROVE  x = r
  <1>1. r \in ReportDocument
    BY DEF ValidReport
  <1>2. r = [f \in DOMAIN r |-> r[f]] /\ "policy" \in DOMAIN r /\ r.policy \in Policy /\ e \in Evaluation
    BY <1>1 DEF ReportDocument, Policy
  <1> DEFINE passing == [e EXCEPT !.result = "pass", !.diagnostics = {}]
  <1>3. /\ passing.assertion_kind = e.assertion_kind /\ passing.result = "pass" /\ passing.diagnostics = {}
        /\ e.assertion_kind \in {"diff", "entity", "exclusion", "integrity", "project", "ratchet", "scope"}
    BY <1>2 DEF Evaluation
  <1>4. x.complete = r.complete
    BY <1>1 DEF ReportDocument
  <1> HIDE DEF passing
  <1>5. PICK v : x = [r EXCEPT !.policy.evaluations = v]
                 /\ (v = (r.policy.evaluations \ {e}) \cup {passing} \/ v = r.policy.evaluations \ {e})
    BY DEF passing
  <1>6. x.policy.evaluations = v
    BY <1>2, <1>5 DEF Policy
  <1>7. v = r.policy.evaluations => x = r
    BY <1>2, <1>5 DEF Policy
  <1>8. CASE e.assertion_kind # "integrity"
    <2>0. e.assertion_kind \in {"diff", "entity", "exclusion", "project", "ratchet", "scope"}
      BY <1>3, <1>8
    <2>1. e \in x.policy.evaluations
      <3>1. Rejudged(x, r)
        BY <1>1, <1>5 DEF ReportDocument, Rejudged
      <3>2. e \in r.policy.evaluations <=> e \in x.policy.evaluations
        BY <2>0, <3>1, VerdictsDetermined
      <3> QED
        BY <3>2
    <2>2. passing = e /\ v = (r.policy.evaluations \ {e}) \cup {passing}
      BY <1>5, <1>6, <2>1
    <2> QED
      BY <1>7, <2>2
  <1>9. CASE e.assertion_kind = "integrity"
    <2> DEFINE found(q) == {y \in q.policy.evaluations : y.assertion_kind = "integrity"}
    <2>1. found(r) = {e} /\ IntegrityOf(r) = e
      BY <1>9, IntegrityAlone
    <2>2. CASE v = r.policy.evaluations \ {e}
      <3>1. found(x) = {}
        BY <1>6, <2>1, <2>2
      <3>2. Cardinality(found(x)) = 1
        BY DEF ValidReport, StructureOK, PolicyOK
      <3> QED
        BY <3>1, <3>2, FS_EmptySet
    <2>3. CASE v = (r.policy.evaluations \ {e}) \cup {passing}
      <3>1. IntegrityOf(x) = passing
        BY <1>3, <1>6, <1>9, <2>3, IntegrityAlone
      <3> DEFINE now(q) == ReportTimeCodes(q)
                 evidence(q) == IntegrityOf(q).diagnostics \ (now(q) \cup {"COV2130"})
      <3>2. /\ IntegrityOf(r) = IntegrityEvaluation(r, evidence(r)) /\ (evidence(r) # {}) = ~r.complete
            /\ IntegrityOf(x) = IntegrityEvaluation(x, evidence(x)) /\ (evidence(x) # {}) = ~x.complete
        BY DEF ValidReport, CrossValid, IntegrityOK
      <3>3. evidence(x) = {}
        BY <1>3, <3>1
      <3>4. evidence(r) = {}
        BY <1>1, <1>4, <3>2, <3>3 DEF ReportDocument
      <3>5. IntegrityEvaluation(x, {}) = IntegrityEvaluation(r, {})
        <4>1. IntegrityEvaluation([r EXCEPT !.policy.evaluations = v], {}) = IntegrityEvaluation(r, {})
          BY DEF IntegrityEvaluation, ReportTimeCodes, Lossy
        <4> QED
          BY <1>5, <4>1
      <3>6. passing = e
        BY <2>1, <3>1, <3>2, <3>3, <3>4, <3>5
      <3> QED
        BY <1>7, <2>3, <3>6
    <2> QED
      BY <1>5, <2>2, <2>3
  <1> QED
    BY <1>8, <1>9

-----------------------------------------------------------------------------
(* An altered report is refused.                                           *)

\* What determines the fact that an alteration changes: a reader accepts none.
LEMMA NoneAccepted ==
  ASSUME NEW r, ValidReport(r, OurTool), NEW x \in Alterations(r), x # r
  PROVE  ~ValidReport(x, OurTool)
  <1> SUFFICES ASSUME ValidReport(x, OurTool)
               PROVE  x = r
    OBVIOUS
  <1> DEFINE one == {[r EXCEPT !.policy.passed = ~@], [r EXCEPT !.evidence_eligibility = "passing"],
                     [r EXCEPT !.complete = ~@], [r EXCEPT !.summary = AlteredMetrics(@)],
                     [r EXCEPT !.provenance.run_ids = {}],
                     [r EXCEPT !.saturation.any = ~@], [r EXCEPT !.contexts = Append(@, 99)],
                     [r EXCEPT !.provenance.execution.status = "failed"]}
             two == {[r EXCEPT !.sources[i].summary = AlteredMetrics(@)] : i \in DOMAIN r.sources}
             three == {[r EXCEPT !.lines[i].status = "covered"] : i \in DOMAIN r.lines}
             four == {[r EXCEPT !.regions[i].count.value = @ + 1] : i \in DOMAIN r.regions}
             five == {[r EXCEPT !.exclusions[i].affected.line_indices = {}] : i \in DOMAIN r.exclusions}
             six == {[r EXCEPT !.points = @ \ {p}] : p \in {q \in r.points : Referred(r, q)}}
             seven == {[r EXCEPT !.policy.evaluations = (@ \ {e}) \cup {[e EXCEPT !.result = "pass", !.diagnostics = {}]}] :
                          e \in r.policy.evaluations}
             eight == {[r EXCEPT !.policy.evaluations = @ \ {e}] : e \in r.policy.evaluations}
  <1>1. x \in one \/ x \in two \/ x \in three \/ x \in four \/ x \in five \/ x \in six \/ x \in seven \/ x \in eight
    <2>1. Alterations(r) = one \cup two \cup three \cup four \cup five \cup six \cup seven \cup eight
      BY DEF Alterations
    <2> HIDE DEF one, two, three, four, five, six, seven, eight
    <2> QED
      BY <2>1
  <1>2. CASE x \in one
    <2>1. r.summary = r.summary /\ \E v : [r EXCEPT !.summary = AlteredMetrics(@)] = [r EXCEPT !.summary = v]
      OBVIOUS
    <2> QED
      BY <1>2, <2>1, VerdictFollows, SummariesFollow, InputsFollow
  <1>3. CASE x \in two
    <2>1. PICK i \in DOMAIN r.sources : x = [r EXCEPT !.sources[i].summary = AlteredMetrics(@)]
      BY <1>3
    <2>2. \E v : x = [r EXCEPT !.sources[i].summary = v]
      BY <2>1
    <2> QED
      BY <2>2, SummariesFollow
  <1>4. CASE x \in three \/ x \in four \/ x \in five
    BY <1>4, RecordsFollow
  <1>5. CASE x \in six
    BY <1>5, PointsStay
  <1>6. CASE x \in seven \/ x \in eight
    BY <1>6, EvaluationsStay
  <1> QED
    BY <1>1, <1>2, <1>3, <1>4, <1>5, <1>6

\* A report that was just published is one that its reader accepts.
RefusalInv ==
    /\ report # Null /\ told = "published" => ValidReport(report, OurTool)
    /\ altered => report # Null
    /\ AlteredIsRefused

LEMMA RefusalInitInv == Init => RefusalInv
  BY DEF Init, RefusalInv, AlteredIsRefused

LEMMA RefusalNextInv == Inv /\ RefusalInv /\ [Next]_vars => RefusalInv'
  <1> SUFFICES ASSUME Inv, RefusalInv, [Next]_vars
               PROVE  RefusalInv'
    OBVIOUS
  <1>1. ASSUME NEW command \in Commands, Merge(command)
        PROVE  RefusalInv'
    BY <1>1 DEF Merge, Inv, RefusalInv, AlteredIsRefused
  <1>2. ASSUME NEW inv \in Invocations, Report(inv)
        PROVE  RefusalInv'
    <2>1. report = Null /\ ~altered /\ altered' = altered
      BY <1>2 DEF Report, RefusalInv
    <2>2. report' # Null => ValidReport(report', OurTool)
      BY <1>2, <2>1 DEF Report
    <2> QED
      BY <2>1, <2>2 DEF RefusalInv, AlteredIsRefused
  <1>3. ASSUME NEW operand \in {"indexed", "report"}, NEW inv \in Invocations, Check(operand, inv)
        PROVE  RefusalInv'
    <2>1. told' # "published" /\ UNCHANGED <<report, altered>>
      BY <1>3 DEF Check, ExitStatus
    <2> QED
      BY <2>1 DEF RefusalInv, AlteredIsRefused
  <1>4. ASSUME NEW e \in Edited, Edit(e[1], e[2])
        PROVE  RefusalInv'
    BY <1>4 DEF Edit, RefusalInv, AlteredIsRefused
  <1>5. CASE Alter
    <2>1. /\ report # Null /\ told = "published" /\ told' = "none" /\ altered'
          /\ report' \in Alterations(report) /\ report' # report /\ report' # Null
      BY <1>5 DEF Alter
    <2>2. ~ValidReport(report', OurTool)
      BY <2>1, NoneAccepted DEF RefusalInv
    <2> QED
      BY <2>1, <2>2 DEF RefusalInv, AlteredIsRefused
  <1>6. CASE UNCHANGED vars
    BY <1>6 DEF vars, RefusalInv, AlteredIsRefused
  <1> QED
    BY <1>1, <1>2, <1>3, <1>4, <1>5, <1>6 DEF Next

\* A report that was altered, in a fact that others of it determine, is not read again
\* (_cross_validate): there is no fact to alter that the reader does not compare.
THEOREM AlterationsAreRefused == Spec => []AlteredIsRefused
  <1>1. RefusalInv => AlteredIsRefused
    BY DEF RefusalInv
  <1> QED
    BY <1>1, InitInv, NextInv, RefusalInitInv, RefusalNextInv, PTL DEF Spec

=============================================================================
