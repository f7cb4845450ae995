------------------------------ MODULE Pipeline ------------------------------
(***************************************************************************)
(* The documents of sv0cov as they are made from each other: merge makes   *)
(* an indexed profile of maps and raw profiles, report a native report of  *)
(* the indexed profile, and check evaluates either of the two, while       *)
(* sources change between the commands and a stored report may be altered. *)
(***************************************************************************)
EXTENDS Exports

CONSTANTS
    Commands,       \* the inputs and options that merge may be given (BuildIndexed)
    Invocations,    \* of report and check: [options, file, export], export: the standard
                    \* formats that are asked for
    Compiled,       \* the digest of each source path when it was compiled
    Edited,         \* <<path, digest>>: what edits may leave behind, Null for a removal
    Captures,       \* changed-region captures
    Baselines,      \* what a ratchet is given: [data, ancestor]
    OurTool,        \* this build
    MaxEdits        \* bound: edits of sources

\* What is parsed is finite.
FiniteMap(m) == IsFiniteSet(m.points) /\ \A r \in SeqRange(m.regions) : IsFiniteSet(r.counter_expression)

\* Null is no number, inputs are finite, one digest is of one file's bytes, and a
\* threshold is in basis points, wherever it is set.
ASSUME PipelineAssumption ==
    /\ OurTool \in Tool /\ MaxEdits \in Nat /\ Null \notin Nat
    /\ \A path \in DOMAIN Compiled : Compiled[path] \in Digest
    /\ \A command \in Commands :
          /\ IsFiniteSet(command.maps) /\ IsFiniteSet(command.profiles)
          /\ \A a \in command.maps : a.map # Null => FiniteMap(a.map)
          /\ \A a \in command.profiles : a.sha # Null => a.file \in Raw!File
          /\ \A a, b \in command.profiles : a.sha # Null /\ a.sha = b.sha => a.file = b.file
    /\ \A inv \in Invocations : \A key \in ThresholdKeys :
          /\ key \in DOMAIN inv.options => inv.options[key] \in BasisPoints
          /\ inv.file # Null => (key \in DOMAIN inv.file.keys => inv.file.keys[key] \in BasisPoints)

VARIABLES
    tree,       \* the digest of each source path now; Null: it cannot be read
    indexed,    \* the indexed profile on disk, or Null
    merged,     \* history: the command that made it
    report,     \* the native report on disk, or Null
    exported,   \* the standard exports on disk: [document, how] of each format, or Null
    altered,    \* history: the report is not as it was written
    config,     \* history: what the last report or check that was not refused was configured for
    told,       \* how the last command ended
    edits

vars == <<tree, indexed, merged, report, exported, altered, config, told, edits>>

Exits   == {"0", "1", "5"}
Endings == {"none", "published", "not committed", "refused", "internal failure", "uncaught"} \cup Exits

\* A check writes nothing and a refused command neither, so what could follow one is
\* what could have come in its place.
Going == {"none", "published"}

Init ==
    /\ tree = Compiled /\ edits = 0
    /\ indexed = Null /\ merged = Null /\ report = Null /\ exported = Null
    /\ altered = FALSE
    /\ config = Null /\ told = "none"

-----------------------------------------------------------------------------
(* Commands. *)

\* What the merge publishes, after reading it back: complete evidence, or any
\* when rejected inputs are allowed.
Publishable(d) == d.semantic.complete \/ d.allow_rejected_inputs

MergeEnd(d) ==
    IF IsRefused(d) THEN "refused"
    ELSE IF ~ValidIndexed(d, OurTool) THEN "internal failure"
    ELSE IF Publishable(d) THEN "published" ELSE "refused"

\* cmd_merge.  The destination must not exist.
Merge(command) ==
    /\ indexed = Null /\ told = "none"
    /\ \E d \in {BuildIndexed(command)} :
        /\ told' = MergeEnd(d)
        /\ IF told' = "published" THEN indexed' = d /\ merged' = command ELSE UNCHANGED <<indexed, merged>>
    /\ UNCHANGED <<tree, report, exported, altered, config, edits>>

\* The circumstances of a command: what a policy needs is there exactly when the
\* policy is configured.
Circumstances(c, standard_export) ==
    [observed : {tree}, standard_export : {standard_export},
     changes  : IF IsRefused(c) THEN {Null} ELSE IF c.coverage.diff = Null THEN {Null} ELSE Captures,
     ratchet  : IF IsRefused(c) THEN {Null} ELSE IF c.coverage.ratchet = Null THEN {Null} ELSE Baselines]

\* load_report: the report of the indexed profile, or of a native report that its
\* reader accepts; only check takes the latter.
FromIndexed(c, at) == IF IsRefused(c) THEN c ELSE Produce(indexed, c, at, OurTool)
FromReport(c, at) ==
    IF IsRefused(c) THEN c
    ELSE IF ValidReport(report, OurTool) THEN Rebuild(report, c, at, OurTool) ELSE Refused("COV4002")
Loaded(operand, c, at) == IF operand = "indexed" THEN FromIndexed(c, at) ELSE FromReport(c, at)

\* What is published of a report.
Publication(formats, r) ==
    IF formats = {} THEN [ended |-> "published", native |-> TRUE, documents |-> Null] ELSE ExportOf(formats, r)

\* cmd_report, of the native format alone or of standard exports, with which the
\* native report goes.
Report(inv) ==
    /\ indexed # Null /\ report = Null /\ told \in Going
    /\ \E c \in {Resolve("report", inv.options, inv.file)} :
        \E at \in Circumstances(c, inv.export # {}) : \E r \in {FromIndexed(c, at)} :
        IF IsRefused(r) THEN told' = "refused" /\ UNCHANGED <<report, exported, config>>
        ELSE IF ~ValidReport(r, OurTool) THEN told' = "internal failure" /\ UNCHANGED <<report, exported, config>>
        ELSE \E e \in {Publication(inv.export, r)} :
                /\ told' = e.ended /\ config' = c
                /\ report' = IF e.native THEN r ELSE Null
                /\ exported' = e.documents
    /\ UNCHANGED <<tree, indexed, merged, altered, edits>>

\* exit_status
ExitStatus(r) ==
    IF ~r.complete THEN "5"
    ELSE IF ~r.policy.passed \/ r.evidence_eligibility # "passing" THEN "1" ELSE "0"

\* cmd_check.  Bound: an altered report is checked under the configuration that it
\* was made under.
Check(operand, inv) ==
    /\ indexed # Null /\ told \in Going
    /\ operand = "report" => report # Null
    /\ operand = "indexed" => ~altered
    /\ \E c \in {Resolve("check", inv.options, inv.file)} :
        /\ altered => c = config
        /\ \E at \in Circumstances(c, FALSE) : \E r \in {Loaded(operand, c, at)} :
            IF IsRefused(r) THEN told' = "refused" /\ UNCHANGED config
            ELSE told' = ExitStatus(r) /\ config' = c
    /\ UNCHANGED <<tree, indexed, merged, report, exported, altered, edits>>

-----------------------------------------------------------------------------
(* The world. *)

\* An editor, after the program was compiled.
Edit(path, digest) ==
    /\ indexed # Null /\ ~altered /\ told \in Going
    /\ edits < MaxEdits /\ edits' = edits + 1
    /\ tree' = [tree EXCEPT ![path] = digest] /\ tree' # tree
    /\ told' = "none"
    /\ UNCHANGED <<indexed, merged, report, exported, altered, config>>

\* Another record of the report rests on the point.
Referred(r, p) ==
    \/ p.kind = "function_entry" /\ p.classification = "user" /\ Entries(r, p.entity_index) = {p}
    \/ \E x \in SeqRange(r.regions) : p.point_id \in TermIDs(x)
    \/ \E b \in SeqRange(r.branches) : p.point_id \in OutcomeIDs(b)
    \/ \E c \in SeqRange(r.contracts) :
          c.enforcement = "runtime_checked" /\ p.kind \in ContractOutcome /\ p.entity_index = c.entity_index
    \/ \E x \in SeqRange(r.exclusions) : p.point_id \in x.affected.point_ids
    \/ p.point_id \in r.saturation.affected_point_ids

\* One fact of a stored report that other facts of it determine is changed.
AlteredMetrics(s) == [s EXCEPT !.function = Measured(IF @.covered = 0 THEN @.total ELSE 0, @.total, Null)]
Alterations(r) ==
    {[r EXCEPT !.policy.passed = ~@], [r EXCEPT !.evidence_eligibility = "passing"],
     [r EXCEPT !.complete = ~@], [r EXCEPT !.summary = AlteredMetrics(@)],
     [r EXCEPT !.provenance.run_ids = {}],
     [r EXCEPT !.saturation.any = ~@], [r EXCEPT !.contexts = Append(@, 99)],
     [r EXCEPT !.provenance.execution.status = "failed"]}
      \cup {[r EXCEPT !.sources[i].summary = AlteredMetrics(@)] : i \in DOMAIN r.sources}
      \cup {[r EXCEPT !.lines[i].status = "covered"] : i \in DOMAIN r.lines}
      \cup {[r EXCEPT !.regions[i].count.value = @ + 1] : i \in DOMAIN r.regions}
      \cup {[r EXCEPT !.exclusions[i].affected.line_indices = {}] : i \in DOMAIN r.exclusions}
      \cup {[r EXCEPT !.points = @ \ {p}] : p \in {q \in r.points : Referred(r, q)}}
      \cup {[r EXCEPT !.policy.evaluations = (@ \ {e}) \cup {[e EXCEPT !.result = "pass", !.diagnostics = {}]}] :
                e \in r.policy.evaluations}
      \cup {[r EXCEPT !.policy.evaluations = @ \ {e}] : e \in r.policy.evaluations}

Alter ==
    /\ report # Null /\ told = "published" /\ edits = 0
    /\ report' \in Alterations(report) \ {report, Null}
    /\ altered' = TRUE /\ told' = "none"
    /\ UNCHANGED <<tree, indexed, merged, exported, config, edits>>

-----------------------------------------------------------------------------

Next ==
    \/ \E command \in Commands : Merge(command)
    \/ \E inv \in Invocations : Report(inv)
    \/ \E operand \in {"indexed", "report"}, inv \in Invocations : Check(operand, inv)
    \/ \E e \in Edited : Edit(e[1], e[2])
    \/ Alter

Spec == Init /\ [][Next]_vars

-----------------------------------------------------------------------------
(* Correctness. *)

\* Every stored document is in its schema, and no command ends in an internal
\* failure: what merge and report make, their own readers accept, or else they
\* refuse it with a diagnostic before it is written.
TypeOK ==
    /\ indexed \in Nullable(IndexedDocument)
    /\ ~altered => report \in Nullable(ReportDocument)
    /\ told \in Endings \ {"internal failure"}

\* A native report holds all the evidence it was made from (owner decision D-10):
\* whatever changed in the sources since, it is evaluated again under every
\* configuration to the report that the indexed profile then gives under it, or
\* refused with the same code.
RebuildAgrees ==
    told \in Going /\ report # Null /\ ~altered =>
        \A inv \in Invocations :
            \A c \in {Resolve("check", inv.options, inv.file)} :
            ~IsRefused(c) => \A at \in Circumstances(c, FALSE) :
                Rebuild(report, c, at, OurTool) = Produce(indexed, c, at, OurTool)

\* With leave for rejected inputs a merge ends in evidence that lists them all,
\* whatever their names: "Every input ends up in the result's inventory, accepted or
\* not", and "Two different files may share a basename" (docs/merge.md:85-86, 129).
EveryInputListed == told # "internal failure"

\* An altered report is not read: each of its facts that others determine is
\* compared with them.
AlteredIsRefused == altered => ~ValidReport(report, OurTool)

\* The raw inputs of a command, without any document in between: what ran, how
\* often, and what there was to run.  Copies of a profile are one file.
RawMaps(command)  == {a.map : a \in command.maps}
RawFiles(command) == {a.file : a \in command.profiles}
ContextOf(f)      == IF "context" \in f.flags THEN f.context ELSE Null

\* The pairs of a file that count a point, and the hits they add up to: of one file,
\* of those of a context, of all.
RawPairs(command, f, pid) ==
    LET slots == Slots(CHOOSE m \in RawMaps(command) : m.map_id = f.map_id) IN
    {k \in DOMAIN f.pairs : f.pairs[k].index + 1 \in DOMAIN slots /\ slots[f.pairs[k].index + 1] = pid}
RawHits(command, f, pid) == SumFunctionOnSet([k \in DOMAIN f.pairs |-> f.pairs[k].count], RawPairs(command, f, pid))
RawSum(command, files, pid) == SumFunctionOnSet([f \in RawFiles(command) |-> RawHits(command, f, pid)], files)
RawIn(command, c, pid)  == RawSum(command, {f \in RawFiles(command) : ContextOf(f) = c}, pid)
RawTotal(command, pid)  == RawSum(command, RawFiles(command), pid)

\* A point was hit, and a region of an expression e ran in some context.
RawHit(command, pid) == \E f \in RawFiles(command) : \E k \in RawPairs(command, f, pid) : f.pairs[k].count > 0
RawRan(command, e) ==
    \E c \in {ContextOf(f) : f \in RawFiles(command)} :
        SumFunction([pid \in DOMAIN e |-> e[pid] * RawIn(command, c, pid)]) > 0

Whole(file) == file.marker /\ file.crc /\ file.bytes = Raw!Total(file)

InUser(m, r) == m.sources[r.source_index].ownership = "user"
RawPlace(m, r, x) == <<SourceKey(m.sources[r.source_index]), x>>

\* A function is entered at the last of its entry points.
RawEntries(command) ==
    UNION {{[function |-> RawPlace(m, p, Without(m.entities[p.entity_index], {"source_index"})),
             point_id |-> p.point_id, user |-> p.classification = "user" /\ InUser(m, p)] :
               p \in {q \in m.points : q.kind = "function_entry"}} : m \in RawMaps(command)}
RawFunctions(command) ==
    LET entries == RawEntries(command) IN
    {{y.point_id} : y \in {x \in entries : /\ x.user
                                           /\ \A z \in entries : z.function = x.function =>
                                                 ~Before(x.point_id, z.point_id)}}

RawOutcomes(command) ==
    UNION {UNION {{{o.point_id} : o \in {x \in SeqRange(b.outcomes) : x.classification = "eligible"}} :
                  b \in {x \in SeqRange(m.branches) : InUser(m, x)}} : m \in RawMaps(command)}

\* A clause that any map switches off is not counted.
RawClause(c) == {c.true_point_id, c.false_point_id}
RawOff(command) ==
    UNION {UNION {{RawClause(m.contracts[i]) :
                     i \in {j \in x.affected.clause_indices : m.contracts[j].enforcement = "runtime_checked"}} :
                  x \in SeqRange(m.exclusions)} : m \in RawMaps(command)}
RawClauses(command) ==
    (UNION {{RawClause(c) : c \in {x \in SeqRange(m.contracts) : InUser(m, x) /\ x.enforcement = "runtime_checked"}} :
            m \in RawMaps(command)}) \ RawOff(command)

RawRegions(command) ==
    UNION {{[place |-> RawPlace(m, r, r.span), kind |-> r.kind, counter_expression |-> r.counter_expression,
             lines |-> {RawPlace(m, r, n) : n \in IF r.line_contributing THEN r.line_numbers ELSE {}}] :
              r \in {x \in SeqRange(m.regions) : x.classification = "user" /\ InUser(m, x)}} : m \in RawMaps(command)}

RawCovers(t, empty, units, hits) ==
    IF units = {} THEN empty = "pass" ELSE Cardinality(hits) * 10000 >= t * Cardinality(units)
RawMet(command, metric, t, empty) ==
    LET regions    == RawRegions(command)
        lines      == UNION {r.lines : r \in regions}
        hit(units) == {u \in units : \E pid \in u : RawHit(command, pid)}
        ran        == {r \in regions : RawRan(command, ExprOf(r))}
    IN  CASE metric = "function" -> RawCovers(t, empty, RawFunctions(command), hit(RawFunctions(command)))
          [] metric = "branch"   -> RawCovers(t, empty, RawOutcomes(command), hit(RawOutcomes(command)))
          [] metric = "contract" -> RawCovers(t, empty, RawClauses(command), hit(RawClauses(command)))
          [] metric = "region"   -> RawCovers(t, empty, regions, ran)
          [] metric = "line"     -> RawCovers(t, empty, lines, {l \in lines : \A r \in regions : l \in r.lines => r \in ran})

\* A check exits 0 only when every input of the merge was readable and counted, the
\* run selection held, the test command did not fail and every compiled source is as
\* it was compiled.
PassIsBacked ==
    told = "0" =>
        LET runs == {a.file.run_id : a \in merged.profiles} IN
        /\ ~merged.allow /\ merged.profiles # {}
        /\ \A a \in merged.maps : a.fault = Null /\ a.map # Null
        /\ \A a \in merged.profiles :
              /\ a.fault = Null /\ Whole(a.file)
              /\ \E b \in merged.maps : b.map.map_id = a.file.map_id
        /\ IF merged.selection.mode = "implicit-single" THEN Cardinality(runs) = 1
           ELSE runs = merged.selection.requested_run_ids
        /\ merged.execution.status \notin {"failed", "signaled"}
        /\ \A a \in merged.maps : \A s \in SeqRange(a.map.sources) : tree[s.path] = s.digest

\* A pass is earned when in addition the raw counters meet each project threshold.
PassIsEarned ==
    /\ PassIsBacked
    /\ told = "0" =>
          LET cov == config.coverage IN
          \A m \in Metrics : cov.thresholds[m].value # Null =>
              RawMet(merged, m, cov.thresholds[m].value, cov.empty.value)

\* What the raw inputs say that a standard export may hold: the user functions by
\* name, and how a count is written.  A total is exact up to the largest count, the
\* total of one context below it.
RawNames(command) ==
    UNION {{<<m.sources[p.source_index].path, m.entities[p.entity_index].qualified_name, p.point_id>> :
              p \in {q \in m.points : {q.point_id} \in RawFunctions(command)}} : m \in RawMaps(command)}
RawInexact(command, pid) ==
    \/ RawTotal(command, pid) > MaxCount
    \/ \E c \in {ContextOf(f) : f \in RawFiles(command)} : RawIn(command, c, pid) >= MaxCount
RawWritten(command, pid) == IF RawInexact(command, pid) THEN 1 ELSE RawTotal(command, pid)

LcovCounts(doc) ==
    UNION {UNION {{<<k, b, o, doc[k].branches[b].counts[o]>> : o \in DOMAIN doc[k].branches[b].counts} :
              b \in DOMAIN doc[k].branches} : k \in DOMAIN doc}
LcovTrue(command, doc) ==
    LET outcomes == UNION RawOutcomes(command) IN
    /\ UNION {{<<rec.path, f.name, f.count>> : f \in SeqRange(rec.functions)} : rec \in SeqRange(doc)}
         = {<<x[1], x[2], RawWritten(command, x[3])>> : x \in RawNames(command)}
    /\ \A v \in 0 .. MaxCount :
          Cardinality({x \in LcovCounts(doc) : x[4] = v}) = Cardinality({pid \in outcomes : RawWritten(command, pid) = v})

TakenIn(doc) == AddUp([k \in DOMAIN doc |-> ClassTotals(doc[k]).branch[1]])
CoberturaTrue(command, doc) ==
    /\ UNION {{<<c.path, f.name>> : f \in SeqRange(c.methods)} : c \in SeqRange(doc)}
         = {<<x[1], x[2]>> : x \in RawNames(command)}
    /\ TakenIn(doc) = Cardinality({pid \in UNION RawOutcomes(command) : RawTotal(command, pid) > 0})

\* What no standard export can hold: two functions of one name, a name that a format
\* cannot spell, and a function without a line of a user region.
RawLines(m, n) ==
    UNION {r.line_numbers : r \in {x \in SeqRange(m.regions) : x.source_index = n /\ x.line_contributing /\ x.classification = "user"}}
Unexportable(command) ==
    \/ \E x, y \in RawNames(command) : x[1] = y[1] /\ x[2] = y[2] /\ x # y
    \/ \E x \in RawNames(command), fmt \in Formats : x[2] \in Unwritable[fmt]
    \/ \E a \in command.maps : \E e \in SeqRange(a.map.entities) :
          e.kind = "function" /\ RawLines(a.map, e.source_index) \cap (e.span.start_line .. e.span.end_line) = {}

\* The standard exports of complete evidence say what the raw inputs say: every user
\* function with its count and every outcome, a count without an exact value only when
\* that was asked for, as a hit, and then beside a report that is not policy evidence;
\* and an export that was rendered fails only for what no export can hold.
ExportsTrue ==
    /\ exported # Null /\ ~merged.allow =>
          /\ "lcov" \in DOMAIN exported => LcovTrue(merged, exported["lcov"].document)
          /\ "cobertura" \in DOMAIN exported => CoberturaTrue(merged, exported["cobertura"].document)
          /\ \A fmt \in DOMAIN exported :
                (exported[fmt].how = "lossy_hit_only")
                   = \E pid \in UNION (RawFunctions(merged) \cup RawOutcomes(merged)) : RawInexact(merged, pid)
    /\ exported # Null /\ ~altered =>
          \A fmt \in DOMAIN exported : exported[fmt].how = "lossy_hit_only" => report.evidence_eligibility # "passing"
    /\ told \in {"not committed", "uncaught"} => Unexportable(merged)
    /\ told = "uncaught" => config.report.allow_lossy_saturated_export
=============================================================================
