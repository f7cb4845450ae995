---------------------------- MODULE NativeReport ----------------------------
(***************************************************************************)
(* The second half of model/report.py and formats/report.py: how a native  *)
(* report is made from indexed evidence (Produce), how it is made again    *)
(* from an older report (Rebuild), and what a reader accepts.              *)
(*                                                                         *)
(* A report is made under circumstances at = [observed, standard_export,   *)
(* changes, ratchet]: the digest of each source path now (Null: it cannot  *)
(* be read), whether an LCOV or Cobertura export goes with it, the         *)
(* changed-region capture ([path, changed_lines, sha256, state] records)   *)
(* and the baseline ([data, ancestor]).  The last two are used when the    *)
(* configuration has their policy.                                         *)
(***************************************************************************)
EXTENDS Policy, Config

SourceState(s, observed) ==
    CASE observed[s.path] = Null     -> "unavailable"
      [] observed[s.path] = s.digest -> "current"
      [] OTHER                       -> "mismatch"

\* change_record
ChangeRecord(sources, capture) ==
    {[changed_lines |-> c.changed_lines, sha256 |-> c.sha256, state |-> c.state,
      source_index |-> CHOOSE i \in DOMAIN sources : sources[i].ownership = "user" /\ sources[i].path = c.path] :
        c \in {d \in capture : \E s \in SeqRange(sources) : s.ownership = "user" /\ s.path = d.path}}

ChangedSince(sources, capture) ==
    \E c \in ChangeRecord(sources, capture) : c.sha256 # sources[c.source_index].digest

\* _region_key; every point ID is equally long.
ReportRegionKey(r) ==
    SpanKey(r) \o <<Rank(r.kind)>> \o FlattenSeq(SortedBy(r.point_ids, LAMBDA pid : pid))

\* What a report adds to the records of the evidence.
Accepted(inputs)          == {x \in inputs : x.status = "accepted"}
Current(sources, digests) == \A s \in SeqRange(sources) : SourceState(s, digests) = "current"
Observed(sources, digests) ==
    [i \in DOMAIN sources |-> With(With(sources[i], "observed_digest", digests[sources[i].path]),
                                   "source_state", SourceState(sources[i], digests))]
Pointed(regions) == [i \in DOMAIN regions |-> With(regions[i], "point_ids", TermIDs(regions[i]))]
Unbound(maps)    == {Without(m, {"bindings"}) : m \in maps}
Lined(d, exclusions) ==
    [i \in DOMAIN exclusions |->
        [exclusions[i] EXCEPT !.affected = With(@, "line_indices", LineIndices(d, @))]]

\* The records of a report before its summaries are counted.
Detailed(ix, config, at, tool) ==
    LET sem  == ix.semantic
        base ==
          [branches |-> sem.branches,
           changes  |-> IF config.coverage.diff = Null THEN Null ELSE ChangeRecord(sem.sources, at.changes),
           complete |-> sem.complete, contexts |-> sem.contexts, contracts |-> sem.contracts,
           entities |-> sem.entities, inputs |-> ix.profile_inputs, lines |-> sem.lines,
           maps     |-> Unbound(ix.maps), points |-> sem.points,
           provenance |->
              [backends |-> {x.backend : x \in Accepted(ix.profile_inputs)}, execution |-> ix.execution,
               map_ids |-> sem.map_ids, run_ids |-> ix.run_selection.selected_run_ids,
               run_manifest_sha256 |-> ix.run_selection.manifest_sha256, run_selection |-> ix.run_selection.mode,
               source_accuracy |-> IF Current(sem.sources, at.observed) THEN "current" ELSE "mismatch_allowed",
               tool |-> ix.tool],
           regions  |-> Pointed(sem.regions), resolved_configuration |-> config, saturation |-> sem.saturation,
           sources  |-> Observed(sem.sources, at.observed), tool |-> tool]
    IN  With(base, "exclusions", Lined(base, sem.exclusions))

Summarised(d) ==
    With(With(With(d, "summary", RootSummary(d)),
              "sources", [i \in DOMAIN d.sources |-> With(d.sources[i], "summary", SourceSummary(d, i))]),
         "entities", [n \in DOMAIN d.entities |-> With(d.entities[n], "summary", EntitySummary(d, n))])

\* Evidence that is incomplete only because rejected inputs were allowed is still
\* given a reason.
EvidenceCodes_wrong(ix) == ix.diagnostics \cup ix.semantic.diagnostics
EvidenceCodes(ix) ==
    LET codes == ix.diagnostics \cup ix.semantic.diagnostics IN
    IF ~ix.semantic.complete /\ codes = {} THEN {"COV3002"} ELSE codes

\* What stops a report: a source that is not current, under a diff policy or
\* without leave.
StaleCode(ix, config, at) ==
    LET stale == ~Current(ix.semantic.sources, at.observed) IN
    CASE stale /\ config.coverage.diff # Null -> "COV4305"
      [] stale /\ config.coverage.diff = Null /\ ~config.report.allow_source_mismatch -> "COV1004"
      [] OTHER -> Null

\* What follows of the records, each step from those before it.
Noted(d, standard_export) == [d EXCEPT !.saturation.ineligible_uses = IneligibleUses(d, standard_export)]
Ratcheted(d, baseline) ==
    With(d, "ratchet", IF d.resolved_configuration.coverage.ratchet = Null THEN Null ELSE RatchetOf(d, baseline))
Judged(d, evaluations) == With(d, "policy", [evaluations |-> evaluations, passed |-> Passed(evaluations)])
Evaluated(d, codes)    == Judged(d, Evaluations(d, codes))
Rated(d) == With(d, "evidence_eligibility", EligibilityOf(d))

\* _produce
Produce(ix, config, at, tool) ==
    LET d     == Noted(Detailed(ix, config, at, tool), at.standard_export)
        stale == StaleCode(ix, config, at)
    IN  IF ix.semantic.saturation.policy # config.coverage.saturation.value THEN Refused("COV0013")
        ELSE IF stale # Null THEN Refused(stale)
        ELSE IF d.changes # Null /\ ChangedSince(ix.semantic.sources, at.changes) THEN Refused("COV4305")
        ELSE IF ~Ordered(d.regions, ReportRegionKey) THEN Refused("COV5001")
        ELSE IF ~AssertionsKnown(d) THEN Refused("COV0013")
        ELSE Rated(Evaluated(Ratcheted(Summarised(d), at.ratchet), EvidenceCodes(ix)))

\* The codes that a report adds at report time, and the evaluation that has them.
ReportTime_wrong == {"COV1004", "COV4021"}
ReportTime == {"COV1004", "COV4020", "COV4021"}
IntegrityOf(r) == CHOOSE e \in r.policy.evaluations : e.assertion_kind = "integrity"

\* The records without what the report added.
Bare(s, added)     == [i \in DOMAIN s |-> Without(s[i], added)]
Lineless(exclusions) ==
    [i \in DOMAIN exclusions |-> [exclusions[i] EXCEPT !.affected = Without(@, {"line_indices"})]]

\* _evidence_of: a report's evidence, as far as Produce reads it.
EvidenceOf(r) ==
    [diagnostics    |-> {},
     execution      |-> r.provenance.execution,
     maps           |-> r.maps,
     profile_inputs |-> r.inputs,
     run_selection  |-> [manifest_sha256 |-> r.provenance.run_manifest_sha256, mode |-> r.provenance.run_selection,
                         selected_run_ids |-> r.provenance.run_ids],
     tool           |-> r.provenance.tool,
     semantic       |->
        [branches |-> r.branches, complete |-> r.complete, contexts |-> r.contexts, contracts |-> r.contracts,
         diagnostics |-> IntegrityOf(r).diagnostics \ (ReportTime \cup {"COV2130"}),
         entities    |-> Bare(r.entities, {"summary"}), exclusions |-> Lineless(r.exclusions),
         lines       |-> r.lines, map_ids |-> r.provenance.map_ids, points |-> r.points,
        regions     |-> Bare(r.regions, {"point_ids"}),
        saturation  |-> [r.saturation EXCEPT !.ineligible_uses = {}],
        sources     |-> Bare(r.sources, {"observed_digest", "source_state", "summary"})]]

\* rebuild_report, of a report that its reader accepts.
Rebuild(r, config, at, tool) == Produce(EvidenceOf(r), config, at, tool)

-----------------------------------------------------------------------------
(* The reader's rules on single records: formats/report.py. *)

MetricOK(m, name) ==
    /\ m.covered <= m.total
    /\ (m.partial # Null) = (name = "line")
    /\ IF m.partial = Null THEN TRUE ELSE m.covered + m.partial <= m.total
    /\ m.ratio = Ratio(m.covered, m.total)

MetricSetOK(s, applicable) ==
    \A m \in Metrics : (s[m] # Null) = (m \in applicable) /\ (s[m] # Null => MetricOK(s[m], m))

SourceStateOK(s) ==
    CASE s.source_state = "current"     -> s.observed_digest = s.digest
      [] s.source_state = "mismatch"    -> s.observed_digest \notin {Null, s.digest}
      [] s.source_state = "unavailable" -> s.observed_digest = Null

SingletonName(kind) == IF kind = "exclusion" THEN "exclusions" ELSE kind

EvaluationOK(e) ==
    /\ e.assertion_kind \notin {"scope", "entity"} => e.assertion_name = SingletonName(e.assertion_kind)
    /\ (e.diagnostics # {}) = (e.result \in {"fail", "ineligible"})
    /\ (e.limit = Null) = (e.comparison = "none")
    /\ (e.threshold_source = Null) = (e.comparison = "none")
    /\ IF e.assertion_kind = "integrity"
       THEN e.metric = "evidence" /\ e.comparison = "none" /\ e.actual = Null /\ e.members = NoMembers
       ELSE e.metric # "evidence"
    /\ e.metric = "exclusion_records" => e.assertion_kind \in {"exclusion", "ratchet"}
    /\ e.assertion_kind = "diff" => e.metric \in DiffedMetrics

PolicyOK(p) ==
    /\ \A e \in p.evaluations : EvaluationOK(e)
    /\ Cardinality({e \in p.evaluations : e.assertion_kind = "integrity"}) = 1
    /\ p.passed => \A e \in p.evaluations : e.result \notin {"fail", "ineligible"}

ChangesOK(changes) ==
    /\ ~Contradicts(changes, LAMBDA c : c.source_index)
    /\ \A c \in changes : c.state = "unchanged" => c.changed_lines = {}

RatchetOK(t) ==
    /\ t.baseline # Null => BaselineValid(t.baseline)
    /\ t.sources_added \cap t.sources_removed = {}
    /\ (t.baseline # Null) = (t.state \in {"ok", "stale", "incompatible"})
    /\ (t.comparisons # Null) = (t.state = "ok")
    /\ t.state # "ok" => t.sources_added \cup t.sources_removed = {}
    /\ t.state = "stale" => t.baseline.commit # Null

ProvenanceOK(p) ==
    /\ (p.run_manifest_sha256 # Null) = (p.run_selection = "manifest")
    /\ p.run_selection = "none" => p.run_ids = {}
    /\ ExecutionOK(p.execution)

\* _check_report, but for the rules it shares with the semantic reader.
StructureOK(r) ==
    LET stale == \E s \in SeqRange(r.sources) : s.source_state # "current" IN
    /\ MetricSetOK(r.summary, Metrics)
    /\ \A s \in SeqRange(r.sources) : MetricSetOK(s.summary, Metrics) /\ SourceStateOK(s)
    /\ \A e \in SeqRange(r.entities) : MetricSetOK(e.summary, Applicable(e.kind))
    /\ \A x \in SeqRange(r.regions) : x.point_ids = TermIDs(x)
    /\ PolicyOK(r.policy) /\ ProvenanceOK(r.provenance)
    /\ (r.changes = Null) = (r.resolved_configuration.coverage.diff = Null)
    /\ (r.ratchet = Null) = (r.resolved_configuration.coverage.ratchet = Null)
    /\ r.changes # Null => ChangesOK(r.changes)
    /\ r.ratchet # Null => RatchetOK(r.ratchet)
    /\ ConfigurationOK(r.resolved_configuration)
    /\ (r.evidence_eligibility = "incomplete") = ~r.complete
    /\ r.evidence_eligibility = "passing" => r.policy.passed /\ r.provenance.source_accuracy = "current"
    /\ r.evidence_eligibility = "policy_failed" => ~r.policy.passed
    /\ (r.provenance.source_accuracy = "mismatch_allowed") = stale
    /\ r.saturation.policy = r.resolved_configuration.coverage.saturation.value

-----------------------------------------------------------------------------
(* _cross_validate: every fact that a report holds twice. *)

SemanticView(r) ==
    With([r EXCEPT !.exclusions = Lineless(@)], "diagnostics", IntegrityOf(r).diagnostics)

\* Maps, inputs and provenance.
InputsOK(r) ==
    LET accepted == Accepted(r.inputs)
        ids      == {m.map_id : m \in r.maps}
    IN  /\ ~Contradicts(r.maps, LAMBDA m : m.map_id)
        /\ UNION {m.source_indices : m \in r.maps} = DOMAIN r.sources
        /\ ~Contradicts(r.inputs, InputKey)
        /\ \A x \in r.inputs :
              InputOK(x, {"artifact_sha256", "backend", "context_index", "map_id", "profile_id", "run_id"})
        /\ \A x \in r.inputs : x.map_id \in {Null} \cup ids
        /\ {x.context_index : x \in r.inputs} \ {Null} = DOMAIN r.contexts
        /\ \A p \in r.points : \A c \in p.count.by_context : \E x \in accepted : x.context_index = c.context_index
        /\ ~Contradicts(accepted, LAMBDA x : x.profile_id)
        /\ r.provenance.backends = {x.backend : x \in accepted}
        /\ r.provenance.run_ids = {x.run_id : x \in accepted}
        /\ r.provenance.map_ids = ids
        /\ r.complete => accepted # {}

SummariesOK_wrong(r) ==
    \A n \in DOMAIN r.entities : r.entities[n].summary = EntitySummary(r, n)
SummariesOK(r) ==
    /\ r.summary = RootSummary(r)
    /\ \A i \in DOMAIN r.sources : r.sources[i].summary = SourceSummary(r, i)
    /\ \A n \in DOMAIN r.entities : r.entities[n].summary = EntitySummary(r, n)

OfKind(r, kinds) == {e \in r.policy.evaluations : e.assertion_kind \in kinds}

ResultFollows(e) ==
    e.actual # Null /\ e.limit # Null /\ e.result \in {"pass", "fail"} =>
        Holds(e.comparison, e.actual, e.limit) = (e.result = "pass")

CaptureOK(r) ==
    LET users == {i \in DOMAIN r.sources : r.sources[i].ownership = "user"} IN
    /\ r.provenance.source_accuracy = "current"
    /\ {c.source_index : c \in r.changes} = users
    /\ \A c \in r.changes : c.sha256 = r.sources[c.source_index].digest

\* Staleness itself is Git's to say.
RatchetAgrees(r) ==
    LET t == r.ratchet  want == RatchetStateOf(r, t.baseline, t.state = "ok") IN
    /\ t.baseline # Null => (want = "incompatible") = (t.state = "incompatible")
    /\ t = RatchetRecordOf(r, t.baseline, t.state)

EvaluationsOK(r) ==
    LET assertions == AssertionEvaluations(r) IN
    /\ ~Contradicts(r.policy.evaluations, LAMBDA e : <<e.assertion_kind, e.assertion_name, e.metric, e.comparison>>)
    /\ \A e \in r.policy.evaluations : ResultFollows(e)
    /\ OfKind(r, {"project"}) = ProjectEvaluations(r)
    /\ AssertionsKnown(r) /\ OfKind(r, {"entity", "scope"}) = assertions
    /\ OfKind(r, {"exclusion"}) = ExclusionEvaluations(r)
    /\ OfKind(r, {"ratchet"}) = RatchetEvaluations(r)
    /\ OfKind(r, {"diff"}) = DiffEvaluations(r)

IntegrityOK(r) ==
    LET integrity == IntegrityOf(r)
        now       == ReportTimeCodes(r)
        evidence  == integrity.diagnostics \ (now \cup {"COV2130"})
    IN  /\ now \subseteq integrity.diagnostics
        /\ integrity = IntegrityEvaluation(r, evidence)
        /\ (evidence # {}) = ~r.complete

CrossValid(r, tool) ==
    /\ r.tool.diagnostic_registry_revision = tool.diagnostic_registry_revision
    /\ SemanticOK(SemanticView(r), {p.point_id : p \in {q \in r.points : q.classification \notin Uncounted}})
    /\ Ordered(r.regions, ReportRegionKey)
    /\ \A x \in SeqRange(r.exclusions) : x.affected.line_indices = LineIndices(r, x.affected)
    /\ InputsOK(r) /\ SummariesOK(r)
    /\ r.saturation.ineligible_uses \ {"standard_exports"} = IneligibleUses(r, FALSE)
    /\ r.changes # Null => CaptureOK(r)
    /\ r.ratchet # Null => RatchetAgrees(r)
    /\ EvaluationsOK(r) /\ IntegrityOK(r)
    /\ r.policy.passed = Passed(r.policy.evaluations)
    /\ r.evidence_eligibility = EligibilityOf(r)

\* read_report
ValidReport(r, tool) == r \in ReportDocument /\ StructureOK(r) /\ CrossValid(r, tool)
=============================================================================
