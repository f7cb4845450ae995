------------------------------- MODULE Policy -------------------------------
(***************************************************************************)
(* The first half of model/report.py: the metrics of a report's records,   *)
(* and the evaluations of every assertion its configuration makes.  r is a *)
(* report, or one in the making; a pattern list is the set of paths it     *)
(* selects.                                                                *)
(***************************************************************************)
EXTENDS Indexed

Executable      == {"covered", "partial", "uncovered"}
ContractOutcome == {"contract_true", "contract_false"}
DiffedMetrics   == {"branch", "line", "region"}

\* root_sources
Root(r) == {i \in DOMAIN r.sources : r.sources[i].ownership = "user"}

-----------------------------------------------------------------------------
(* _Detail: the units that metrics count. *)

Entries(r, n) == {p \in r.points : p.kind = "function_entry" /\ p.entity_index = n}
Entry(r, n)   == CHOOSE p \in Entries(r, n) : \A q \in Entries(r, n) : ~Before(p.point_id, q.point_id)

Functions(r, classification) ==
    {n \in DOMAIN r.entities :
        /\ r.entities[n].kind = "function" /\ Entries(r, n) # {}
        /\ Entry(r, n).classification = classification}
UserRegions(r) == {i \in DOMAIN r.regions : r.regions[i].classification = "user"}
ExecutableLines(r) == {i \in DOMAIN r.lines : r.lines[i].status \in Executable}
CountedOutcomes_wrong(r) ==
    UNION {{<<b, i>> : i \in {j \in DOMAIN r.branches[b].outcomes : r.branches[b].outcomes[j].status = "covered"}} :
           b \in DOMAIN r.branches}
CountedOutcomes(r) ==
    UNION {{<<b, i>> : i \in {j \in DOMAIN r.branches[b].outcomes :
                                 r.branches[b].outcomes[j].status \in {"covered", "uncovered"}}} :
           b \in DOMAIN r.branches}
SwitchedOff(r) == UNION {x.affected.clause_indices : x \in SeqRange(r.exclusions)}
Clauses(r) ==
    {i \in DOMAIN r.contracts : r.contracts[i].enforcement = "runtime_checked" /\ i \notin SwitchedOff(r)}

ClauseRan(c) == c.count_true.value + c.count_false.value > 0
LineRan(r, owned, line) == {r.regions[i].count.value > 0 : i \in line.region_indices \cap owned}

\* covered / total in millionths, rounded half to even.
Ratio(covered, total) ==
    IF total = 0 THEN Null
    ELSE LET scaled == (covered * 1000000) \div total
             rest   == (covered * 1000000) % total
         IN  IF 2 * rest > total \/ (2 * rest = total /\ scaled % 2 = 1) THEN scaled + 1 ELSE scaled

Measured(covered, total, partial) ==
    [covered |-> covered, partial |-> partial, ratio |-> Ratio(covered, total), total |-> total]
Share(ran, all) == Measured(Cardinality(ran), Cardinality(all), Null)

BranchMetric(r, Keep(_)) ==
    LET mine == {o \in CountedOutcomes(r) : Keep(r.branches[o[1]])}
    IN  Share({o \in mine : r.branches[o[1]].outcomes[o[2]].status = "covered"}, mine)
ContractMetric(r, Keep(_)) ==
    LET mine == {i \in Clauses(r) : Keep(r.contracts[i])}
    IN  Share({i \in mine : ClauseRan(r.contracts[i])}, mine)
FunctionMetric(r, Keep(_)) ==
    LET mine == {n \in Functions(r, "user") : Keep(r.entities[n])}
    IN  Share({n \in mine : Entry(r, n).count.value > 0}, mine)
LineMetric(r, Keep(_)) ==
    LET mine == {i \in ExecutableLines(r) : Keep(r.lines[i])}
        with(status) == Cardinality({i \in mine : r.lines[i].status = status})
    IN  Measured(with("covered"), Cardinality(mine), with("partial"))
RegionMetric(r, Keep(_)) ==
    LET mine == {i \in UserRegions(r) : Keep(r.regions[i])}
    IN  Share({i \in mine : r.regions[i].count.value > 0}, mine)

\* group
Group(r, Keep(_)) ==
    [branch |-> BranchMetric(r, Keep), contract |-> ContractMetric(r, Keep), function |-> FunctionMetric(r, Keep),
     line |-> LineMetric(r, Keep), region |-> RegionMetric(r, Keep)]

RootSummary(r)      == Group(r, LAMBDA x : x.source_index \in Root(r))
SourceSummary(r, n) == Group(r, LAMBDA x : x.source_index = n)

\* entity: only what the entity owns.
EntitySummary(r, n) ==
    LET owns(x) == x.entity_index = n
        owned   == {i \in UserRegions(r) : owns(r.regions[i])}
        mine    == {i \in DOMAIN r.lines : LineRan(r, owned, r.lines[i]) # {}}
        with(ran) == Cardinality({i \in mine : LineRan(r, owned, r.lines[i]) = ran})
        clauses == {i \in Clauses(r) : owns(r.contracts[i])}
    IN  IF r.entities[n].kind = "contract"
        THEN [m \in Metrics |-> IF m # "contract" THEN Null
                                ELSE Share({i \in clauses : ClauseRan(r.contracts[i])}, clauses)]
        ELSE [branch   |-> BranchMetric(r, owns),
              contract |-> ContractMetric(r, LAMBDA c : c.function_entity_index = n),
              function |-> Share({f \in Functions(r, "user") \cap {n} : Entry(r, f).count.value > 0},
                                 Functions(r, "user") \cap {n}),
              line     |-> Measured(with({TRUE}), Cardinality(mine), with({TRUE, FALSE})),
              region   |-> RegionMetric(r, owns)]

\* members: the records in a metric's denominator.
MembersIn(r, metric, Keep(_)) ==
    CASE metric = "branch"   -> {o[1] : o \in {x \in CountedOutcomes(r) : Keep(r.branches[x[1]])}}
      [] metric = "contract" -> {i \in Clauses(r) : Keep(r.contracts[i])}
      [] metric = "function" -> {n \in Functions(r, "user") : Keep(r.entities[n])}
      [] metric = "line"     -> {i \in ExecutableLines(r) : Keep(r.lines[i])}
      [] metric = "region"   -> {i \in UserRegions(r) : Keep(r.regions[i])}

RootMembers(r, metric) == MembersIn(r, metric, LAMBDA x : x.source_index \in Root(r))

EntityMembers(r, n, metric) ==
    LET owned == {i \in UserRegions(r) : r.regions[i].entity_index = n} IN
    CASE metric = "function" -> {n}
      [] metric = "contract" ->
            {i \in Clauses(r) : n = IF r.entities[n].kind = "contract" THEN r.contracts[i].entity_index
                                    ELSE r.contracts[i].function_entity_index}
      [] metric = "line"     -> {i \in DOMAIN r.lines : r.lines[i].region_indices \cap owned # {}}
      [] OTHER -> MembersIn(r, metric, LAMBDA x : x.entity_index = n)

\* _line_indices: the lines an exclusion touches.
LineIndices(r, a) ==
    LET spans == {r.branches[i] : i \in a.branch_indices}
        clauses == {r.contracts[i] : i \in a.clause_indices}
        inside(x, line) == x.source_index = line.source_index /\ line.line \in x.span.start_line .. x.span.end_line
    IN  {n \in DOMAIN r.lines :
            \/ \E i \in a.region_indices :
                  r.regions[i].source_index = r.lines[n].source_index /\ r.lines[n].line \in r.regions[i].line_numbers
            \/ \E x \in spans : inside(x, r.lines[n])
            \/ \E x \in clauses : inside(x, r.lines[n])}

-----------------------------------------------------------------------------
(* Evaluations. *)

NoMembers ==
    [branch_indices |-> {}, clause_indices |-> {}, entity_indices |-> {}, line_indices |-> {},
     region_indices |-> {}, source_indices |-> {}]

MemberKey(metric) ==
    CASE metric = "branch" -> "branch_indices" [] metric = "contract" -> "clause_indices"
      [] metric = "function" -> "entity_indices" [] metric = "line" -> "line_indices"
      [] metric = "region" -> "region_indices"
Only(metric, members) == [NoMembers EXCEPT ![MemberKey(metric)] = members]

FractionOf(n, d)  == [denominator |-> d, numerator |-> n]
ActualOf(m)       == IF m.total = 0 THEN Null ELSE FractionOf(m.covered, m.total)
Holds(comparison, a, l) ==
    LET left == a.numerator * l.denominator  right == l.numerator * a.denominator IN
    CASE comparison = "at_least" -> left >= right
      [] comparison = "at_most"  -> left <= right
      [] comparison = "equal"    -> left = right

\* An evaluation that compares nothing.
Unlimited(kind, name, metric, result, actual, codes, members) ==
    [actual |-> actual, assertion_kind |-> kind, assertion_name |-> name, comparison |-> "none",
     diagnostics |-> codes, limit |-> Null, members |-> members, metric |-> metric, result |-> result,
     threshold_source |-> Null]

Limited(kind, name, metric, comparison, result, actual, limit, source, codes, members) ==
    [actual |-> actual, assertion_kind |-> kind, assertion_name |-> name, comparison |-> comparison,
     diagnostics |-> codes, limit |-> limit, members |-> members, metric |-> metric, result |-> result,
     threshold_source |-> source]

\* Saturated counts that a threshold on this metric may not use.
Blocked(r, metric) ==
    LET sat == r.saturation IN
    sat.any /\ (\/ sat.policy = "fail"
                \/ metric = "contract" /\ \E p \in r.points :
                      p.kind \in ContractOutcome /\ p.point_id \in sat.affected_point_ids)

\* The verdict on a measured fraction: an empty denominator is settled by the
\* empty policy.
AtLeast(r, kind, name, metric, m, limit, source, code, members) ==
    LET empty == r.resolved_configuration.coverage.empty.value = "pass"
        actual == ActualOf(m)
    IN  IF Blocked(r, metric)
        THEN Limited(kind, name, metric, "at_least", "ineligible", Null, limit, source, {"COV4020"}, members)
        ELSE IF m.total = 0
        THEN Limited(kind, name, metric, "at_least", IF empty THEN "pass" ELSE "fail", Null, limit, source,
                     IF empty THEN {} ELSE {"COV4102"}, members)
        ELSE IF Holds("at_least", actual, limit)
        THEN Limited(kind, name, metric, "at_least", "pass", actual, limit, source, {}, members)
        ELSE Limited(kind, name, metric, "at_least", "fail", actual, limit, source, {code}, members)

\* _threshold_evaluation
ThresholdEvaluation(r, kind, name, metric, m, threshold, source, members) ==
    IF threshold = Null
    THEN Unlimited(kind, name, metric, "not_applicable", ActualOf(m), {}, members)
    ELSE AtLeast(r, kind, name, metric, m, FractionOf(threshold, 10000), source, "COV4101", members)

ProjectEvaluations(r) ==
    LET t == r.resolved_configuration.coverage.thresholds IN
    {ThresholdEvaluation(r, "project", "project", metric, r.summary[metric], t[metric].value, "project",
                         Only(metric, RootMembers(r, metric))) :
        metric \in {x \in Metrics : t[x].value # Null}}

\* _inherit: the assertion's own threshold, else the project's, for this metric.
Inherited(assertion, project, metric) ==
    CASE assertion.thresholds[metric].value # Null -> <<assertion.thresholds[metric].value, "assertion">>
      [] OTHER -> <<project[metric].value, IF project[metric].value = Null THEN Null ELSE "project">>

\* scope_sources; a scope's packages and sources are in the evidence.
Wanted(leaf) == IF leaf.value = Null THEN {} ELSE leaf.value
ScopeSources(r, scope) ==
    {i \in DOMAIN r.sources :
        \/ r.sources[i].path \in Wanted(scope.include) \cup Wanted(scope.sources)
        \/ r.sources[i].package \in Wanted(scope.packages)}
ScopeKnown(r, scope) ==
    /\ Wanted(scope.packages) \subseteq {s.package : s \in SeqRange(r.sources)}
    /\ Wanted(scope.sources) \subseteq {s.path : s \in SeqRange(r.sources)}

\* resolve_entity
Named(r, entity) ==
    {n \in DOMAIN r.entities :
        /\ r.sources[r.entities[n].source_index].path = entity.source.value
        /\ r.entities[n].qualified_name = entity.qualified_name.value
        /\ r.entities[n].kind = entity.kind.value}

AssertionsKnown(r) ==
    LET cov == r.resolved_configuration.coverage IN
    /\ \A s \in cov.scopes : ScopeKnown(r, s)
    /\ \A e \in cov.entities : Cardinality(Named(r, e)) = 1

Applicable(kind) == IF kind = "function" THEN Metrics ELSE {"contract"}

ScopeEvaluation(r, scope, metric) ==
    LET chosen  == ScopeSources(r, scope)
        keep(x) == x.source_index \in chosen
        t       == Inherited(scope, r.resolved_configuration.coverage.thresholds, metric)
    IN  ThresholdEvaluation(r, "scope", scope.name.value, metric, Group(r, keep)[metric], t[1], t[2],
            [Only(metric, MembersIn(r, metric, keep)) EXCEPT !.source_indices = chosen])

EntityEvaluation(r, entity, metric) ==
    LET n == CHOOSE n \in Named(r, entity) : TRUE
        t == Inherited(entity, r.resolved_configuration.coverage.thresholds, metric)
    IN  ThresholdEvaluation(r, "entity", entity.name.value, metric, EntitySummary(r, n)[metric], t[1], t[2],
            [Only(metric, EntityMembers(r, n, metric)) EXCEPT !.entity_indices = @ \cup {n}])

AssertionEvaluations(r) ==
    LET cov == r.resolved_configuration.coverage IN
    (UNION {{ScopeEvaluation(r, s, metric) : metric \in Metrics} : s \in cov.scopes})
      \cup (UNION {{EntityEvaluation(r, e, metric) : metric \in Applicable(e.kind.value)} : e \in cov.entities})

\* _diff_evaluations: what the changed lines meet.
DiffEvaluations(r) ==
    LET diff == r.resolved_configuration.coverage.diff
        lines(i) == UNION {c.changed_lines : c \in {d \in r.changes : d.source_index = i}}
        meets(x) == \E n \in lines(x.source_index) : x.span.start_line <= n /\ n <= x.span.end_line
        on(x)    == x.line \in lines(x.source_index)
        changed  == {c.source_index : c \in {d \in r.changes : d.changed_lines # {}}}
        measured(m) == CASE m = "line" -> LineMetric(r, on) [] m = "branch" -> BranchMetric(r, meets)
                         [] m = "region" -> RegionMetric(r, meets)
        members(m)  == IF m = "line" THEN MembersIn(r, m, on) ELSE MembersIn(r, m, meets)
        t(m)        == diff[m].value
    IN  IF r.changes = Null THEN {}
        ELSE {ThresholdEvaluation(r, "diff", "diff", m, measured(m), t(m), IF t(m) = Null THEN Null ELSE "diff",
                                  [Only(m, members(m)) EXCEPT !.source_indices = changed]) : m \in DiffedMetrics}

-----------------------------------------------------------------------------
(* What exclusions removed, baselines and ratchets. *)

\* excluded_members, excluded_units
ExcludedMembers(r, metric) ==
    LET root(x) == x.source_index \in Root(r) IN
    CASE metric = "region" -> {i \in DOMAIN r.regions : r.regions[i].classification = "excluded" /\ root(r.regions[i])}
      [] metric = "line"   -> {i \in DOMAIN r.lines : r.lines[i].status = "excluded" /\ root(r.lines[i])}
      [] metric = "branch" -> {i \in DOMAIN r.branches : root(r.branches[i])
                                  /\ \E o \in SeqRange(r.branches[i].outcomes) : o.status = "excluded"}
      [] metric = "function" -> {n \in Functions(r, "excluded") : root(r.entities[n])}
      [] metric = "contract" -> {i \in SwitchedOff(r) : r.contracts[i].enforcement = "runtime_checked"
                                                          /\ root(r.contracts[i])}

ExcludedUnits(r, metric) ==
    IF metric = "branch"
    THEN MapThenSumSet(LAMBDA b : Cardinality({i \in DOMAIN r.branches[b].outcomes :
                                                  r.branches[b].outcomes[i].status = "excluded"}),
                       ExcludedMembers(r, "branch"))
    ELSE Cardinality(ExcludedMembers(r, metric))

BaselineValid(b) == \A m \in Metrics : b.metrics[m].covered <= b.metrics[m].total

\* ratchet_state
RatchetStateOf(r, b, ancestor) ==
    IF b.saturation_policy # r.saturation.policy THEN "incompatible"
    ELSE IF b.commit # Null /\ ~ancestor THEN "stale" ELSE "ok"

ComparedWith(r, b) ==
    [m \in Metrics |->
        (IF r.summary[m].total > b.metrics[m].total THEN {"denominator_growth"} ELSE {})
        \cup (IF ExcludedUnits(r, m) > b.metrics[m].excluded THEN {"exclusion_growth"} ELSE {})
        \cup (IF r.summary[m].covered < b.metrics[m].covered THEN {"numerator_regression"} ELSE {})]

\* _ratchet_derived: what a record holds when its baseline is usable.
RatchetRecordOf(r, b, state) ==
    LET now == {s.path : s \in SeqRange(r.sources)} IN
    [baseline |-> b, state |-> state,
     comparisons     |-> IF state = "ok" THEN ComparedWith(r, b) ELSE Null,
     sources_added   |-> IF state = "ok" THEN now \ b.sources ELSE {},
     sources_removed |-> IF state = "ok" THEN b.sources \ now ELSE {}]

\* ratchet_record: given is [data, ancestor], data being Null when there is no file.
RatchetOf(r, given) ==
    IF given.data = Null THEN RatchetRecordOf(r, Null, "missing")
    ELSE IF ~BaselineValid(given.data) THEN RatchetRecordOf(r, Null, "invalid")
    ELSE RatchetRecordOf(r, given.data, RatchetStateOf(r, given.data, given.ancestor))

Gcd[p \in Nat \X Nat] == IF p[2] = 0 THEN p[1] ELSE Gcd[<<p[2], p[1] % p[2]>>]
Reduced(n, d) == LET g == IF Gcd[<<n, d>>] = 0 THEN 1 ELSE Gcd[<<n, d>>] IN FractionOf(n \div g, d \div g)

\* ratchet_limit
RatchetLimit(old, tolerance) ==
    LET kept == old.covered * 10000 - tolerance * old.total IN
    IF old.total = 0 THEN FractionOf(0, 1)
    ELSE Reduced(IF kept < 0 THEN 0 ELSE kept, old.total * 10000)

\* The metric's ratio against the baseline's.
RatioEvaluation(r, metric, tolerance) ==
    LET cur     == r.summary[metric]
        rec     == r.ratchet
        members == Only(metric, RootMembers(r, metric))
        limit   == RatchetLimit(rec.baseline.metrics[metric], tolerance)
        moved   == rec.sources_added \cup rec.sources_removed # {}
    IN  IF rec.state # "ok"
        THEN Unlimited("ratchet", "ratchet", metric, "ineligible", ActualOf(cur), {"COV4201"}, members)
        ELSE IF r.saturation.any
        THEN Limited("ratchet", "ratchet", metric, "at_least", "ineligible", Null, limit, "ratchet", {"COV4020"}, members)
        ELSE IF moved
        THEN Limited("ratchet", "ratchet", metric, "at_least", "ineligible", ActualOf(cur), limit, "ratchet",
                     {"COV4201"}, members)
        ELSE AtLeast(r, "ratchet", "ratchet", metric, cur, limit, "ratchet", "COV4201", members)

\* At most what the baseline allows.
AtMost(kind, name, metric, actual, cap, source, code, members) ==
    LET ok == Holds("at_most", actual, cap)
    IN  Limited(kind, name, metric, "at_most", IF ok THEN "pass" ELSE "fail", actual, cap, source,
                IF ok THEN {} ELSE {code}, members)

RatchetEvaluations(r) ==
    LET cfg  == r.resolved_configuration.coverage.ratchet
        rec  == r.ratchet
        one(n) == FractionOf(n, 1)
        tracked == cfg.metrics.value
    IN  IF rec = Null THEN {}
        ELSE {RatioEvaluation(r, m, cfg.tolerance_basis_points.value) : m \in tracked}
             \cup (IF rec.state # "ok"
                   THEN {Unlimited("ratchet", "ratchet", "exclusion_records", "ineligible",
                                   one(Len(r.exclusions)), {"COV4201"}, NoMembers)}
                   ELSE {AtMost("ratchet", "ratchet", m, one(ExcludedUnits(r, m)), one(rec.baseline.metrics[m].excluded),
                                "ratchet", "COV4201", Only(m, ExcludedMembers(r, m))) : m \in tracked}
                        \cup {AtMost("ratchet", "ratchet", "exclusion_records", one(Len(r.exclusions)),
                                     one(rec.baseline.exclusion_records), "ratchet", "COV4201", NoMembers)})

\* _exclusion_evaluations
ForbiddenRecords(r) ==
    LET ex == r.resolved_configuration.coverage.exclusions IN
    {x \in SeqRange(r.exclusions) :
        x.reason \in ex.forbidden_reasons.value \/ r.sources[x.source_index].path \in ex.forbidden_sources.value}

ForbiddenEvaluation(r) ==
    LET bad == ForbiddenRecords(r)
        all(field) == UNION {x.affected[field] : x \in bad}
    IN  Limited("exclusion", "exclusions", "exclusion_records", "equal", IF bad = {} THEN "pass" ELSE "fail",
                FractionOf(Cardinality(bad), 1), FractionOf(0, 1), "exclusion", IF bad = {} THEN {} ELSE {"COV4101"},
                [f \in DOMAIN NoMembers |-> IF f = "source_indices" THEN {x.source_index : x \in bad} ELSE all(f)])

CapEvaluation(r, metric, cap) ==
    LET units   == ExcludedUnits(r, metric)
        pre     == r.summary[metric].total + units
        members == Only(metric, ExcludedMembers(r, metric))
    IN  IF pre = 0
        THEN Limited("exclusion", "exclusions", metric, "at_most", "pass", Null, FractionOf(cap, 10000), "exclusion", {}, members)
        ELSE AtMost("exclusion", "exclusions", metric, FractionOf(units, pre), FractionOf(cap, 10000), "exclusion",
                    "COV4101", members)

ExclusionEvaluations(r) ==
    LET ex == r.resolved_configuration.coverage.exclusions IN
    (IF ex.max_records.value = Null THEN {}
     ELSE {AtMost("exclusion", "exclusions", "exclusion_records", FractionOf(Len(r.exclusions), 1),
                  FractionOf(ex.max_records.value, 1), "exclusion", "COV4101", NoMembers)})
    \cup {CapEvaluation(r, m, ex.caps[m].value) : m \in {x \in Metrics : ex.caps[x].value # Null}}
    \cup (IF ex.forbidden_reasons.value \cup ex.forbidden_sources.value = {} THEN {} ELSE {ForbiddenEvaluation(r)})

-----------------------------------------------------------------------------
(* Integrity and the verdict. *)

Lossy(r) ==
    /\ r.resolved_configuration.report.allow_lossy_saturated_export
    /\ r.saturation.any /\ "standard_exports" \in r.saturation.ineligible_uses

ReportTimeCodes(r) ==
    (IF \E s \in SeqRange(r.sources) : s.source_state # "current" THEN {"COV1004"} ELSE {})
    \cup (IF r.saturation.any /\ (r.saturation.policy = "fail" \/ r.saturation.ineligible_uses # {})
          THEN {"COV4020"} ELSE {})
    \cup (IF Lossy(r) THEN {"COV4021"} ELSE {})

\* _integrity
IntegrityEvaluation(r, evidence) ==
    LET now     == ReportTimeCodes(r)
        command == IF r.provenance.execution.status \in {"failed", "signaled"} THEN {"COV2130"} ELSE {}
        result  == IF (evidence \ now) \cup command # {} THEN "fail" ELSE IF now # {} THEN "ineligible" ELSE "pass"
    IN  Unlimited("integrity", "integrity", "evidence", result, Null, evidence \cup now \cup command, NoMembers)

\* _ineligible_uses
IneligibleUses(r, standard_export) ==
    LET kinds == {p.kind : p \in {q \in r.points : q.point_id \in r.saturation.affected_point_ids}} IN
    IF ~r.saturation.any THEN {}
    ELSE (IF kinds \cap ContractOutcome # {} THEN {"contract_counts"} ELSE {})
         \cup (IF \E c \in SeqRange(r.contexts) : c # Null THEN {"context_exact_counts"} ELSE {})
         \cup (IF r.resolved_configuration.coverage.ratchet # Null THEN {"ratchets"} ELSE {})
         \cup (IF standard_export THEN {"standard_exports"} ELSE {})

Evaluations(r, evidence) ==
    {IntegrityEvaluation(r, evidence)} \cup ProjectEvaluations(r) \cup AssertionEvaluations(r)
        \cup DiffEvaluations(r) \cup RatchetEvaluations(r) \cup ExclusionEvaluations(r)

Passed(evaluations) == \A e \in evaluations : e.result \in {"pass", "not_applicable"}

\* _eligibility
EligibilityOf(r) ==
    IF ~r.complete THEN "incomplete"
    ELSE IF r.provenance.source_accuracy = "mismatch_allowed" \/ Lossy(r) \/ r.saturation.ineligible_uses # {}
    THEN "diagnostic_only"
    ELSE IF r.policy.passed THEN "passing" ELSE "policy_failed"
=============================================================================
