------------------------------- MODULE Exports -------------------------------
(***************************************************************************)
(* The LCOV and Cobertura exports of a native report: formats/lcov.py,     *)
(* formats/cobertura.py, exports.py and formats/export_manifest.py.  What  *)
(* each format says of a report, when a report has no exact export, and    *)
(* what the commit manifest requires of the set.                           *)
(*                                                                         *)
(* A document is what its records say, without their spelling; rates are   *)
(* left out, which a reader computes again from the counts beside them.    *)
(* Digests and names of the artifacts are OutputTree.tla's.                *)
(***************************************************************************)
EXTENDS NativeReport

CONSTANT Unwritable     \* of each format, the texts that it cannot write

ASSUME ExportsAssumption == Unwritable \in [{"lcov", "cobertura"} -> SUBSET Text]

Formats   == {"cobertura", "lcov"}
NotExact  == "COV4020"
Invalid   == "COV4401"

-----------------------------------------------------------------------------
(* What a format takes from a report: its user sources with their          *)
(* functions, executable lines and decisions, in order.                    *)

UserSources(r) == SortedBy(Root(r), LAMBDA n : <<n>>)

UserFunctions(r, n) ==
    SortedBy({e \in Functions(r, "user") : r.entities[e].source_index = n}, LAMBDA e : <<e>>)

Eligible(b) == SelectSeq(b.outcomes, LAMBDA o : o.status \in {"covered", "uncovered"})
Decisions(r, n) ==
    SortedBy({b \in DOMAIN r.branches : r.branches[b].source_index = n /\ Eligible(r.branches[b]) # <<>>},
             LAMBDA b : <<r.branches[b].span.start_line, b>>)

LinesOf(r, n) == {x \in SeqRange(r.lines) : x.source_index = n /\ x.status \in Executable}

\* The line that carries a unit is the first executable one of its span.
Carriers(r, n, span) == {x.line : x \in LinesOf(r, n)} \cap (span.start_line .. span.end_line)
Carrier(r, n, span)  == CHOOSE k \in Carriers(r, n, span) : \A j \in Carriers(r, n, span) : k <= j

-----------------------------------------------------------------------------
(* Why a report has no export: the codes that the renderers meet, in their *)
(* order; the first one is raised.                                         *)

Each(s, CodesFor(_)) == FlattenSeq([k \in DOMAIN s |-> CodesFor(s[k])])

Inexact(count, lossy)       == IF count.lower_bound /\ ~lossy THEN <<NotExact>> ELSE <<>>
Unspelled(fmt, texts)       == IF texts \cap Unwritable[fmt] # {} THEN <<Invalid>> ELSE <<>>
Uncarried(r, n, span)       == IF Carriers(r, n, span) = {} THEN <<Invalid>> ELSE <<>>
InexactOutcomes(b, lossy)   == Each(Eligible(b), LAMBDA o : Inexact(o.count, lossy))

\* _records
LcovSource(r, n, lossy) ==
    Each(UserFunctions(r, n), LAMBDA e : Unspelled("lcov", {r.entities[e].qualified_name})
                                            \o Inexact(Entry(r, e).count, lossy))
        \o Each(UserFunctions(r, n), LAMBDA e : Uncarried(r, n, r.entities[e].span))
        \o Each(Decisions(r, n), LAMBDA b : Uncarried(r, n, r.branches[b].span) \o InexactOutcomes(r.branches[b], lossy))
LcovCodes(r, lossy) == Each(UserSources(r), LAMBDA n : LcovSource(r, n, lossy))

\* _classes, and the texts of the document
CoberturaSource(r, n, lossy) ==
    Each(Decisions(r, n), LAMBDA b : InexactOutcomes(r.branches[b], lossy) \o Uncarried(r, n, r.branches[b].span))
        \o Each(UserFunctions(r, n), LAMBDA e : Inexact(Entry(r, e).count, lossy))
CoberturaTexts(r, n) ==
    {r.sources[n].path, r.sources[n].package} \cup {r.entities[e].qualified_name : e \in SeqRange(UserFunctions(r, n))}
CoberturaCodes(r, lossy) ==
    Each(UserSources(r), LAMBDA n : CoberturaSource(r, n, lossy))
        \o Each(UserSources(r), LAMBDA n : Unspelled("cobertura", CoberturaTexts(r, n)))

CodesOf(fmt, r, lossy) == IF fmt = "lcov" THEN LcovCodes(r, lossy) ELSE CoberturaCodes(r, lossy)

\* has_inexact: "raised" when something else stops the records first.
HasInexact(r) ==
    LET codes == LcovCodes(r, FALSE) IN
    IF codes = <<>> THEN "no" ELSE IF codes[1] = NotExact THEN "yes" ELSE "raised"

\* disposition asks only when the lossy export is allowed.
Disposition(r) ==
    IF ~r.resolved_configuration.report.allow_lossy_saturated_export THEN "exact"
    ELSE [yes |-> "lossy_hit_only", no |-> "exact", raised |-> "raised"][HasInexact(r)]

-----------------------------------------------------------------------------
(* Documents. *)

\* An inexact count that is written at all is written as a hit.
Written_wrong(count) == count.value
Written(count) == IF count.lower_bound THEN 1 ELSE count.value

LcovRecord(r, n) ==
    LET functions == UserFunctions(r, n)  decisions == Decisions(r, n) IN
    [path      |-> r.sources[n].path,
     functions |-> [k \in DOMAIN functions |->
                      [line  |-> Carrier(r, n, r.entities[functions[k]].span),
                       name  |-> r.entities[functions[k]].qualified_name,
                       count |-> Written(Entry(r, functions[k]).count)]],
     lines     |-> {<<x.line, IF x.status = "uncovered" THEN 0 ELSE 1>> : x \in LinesOf(r, n)},
     branches  |-> [k \in DOMAIN decisions |->
                      LET outcomes == Eligible(r.branches[decisions[k]]) IN
                      [line   |-> Carrier(r, n, r.branches[decisions[k]].span),
                       counts |-> [o \in DOMAIN outcomes |-> Written(outcomes[o].count)]]]]

CoberturaClass(r, n) ==
    LET functions == UserFunctions(r, n)
        decisions == Decisions(r, n)
        at(k)     == SelectSeq(decisions, LAMBDA b : Carrier(r, n, r.branches[b].span) = k)
        taken(b)  == [o \in DOMAIN Eligible(r.branches[b]) |-> Eligible(r.branches[b])[o].status = "covered"]
        touched(e, x) == \E i \in x.region_indices : r.regions[i].entity_index = e
    IN  [package |-> r.sources[n].package, path |-> r.sources[n].path,
         lines   |-> {[line |-> x.line, hits |-> IF x.status = "covered" THEN 1 ELSE 0,
                       conditions |-> [d \in DOMAIN at(x.line) |-> taken(at(x.line)[d])]] : x \in LinesOf(r, n)},
         methods |-> [k \in DOMAIN functions |->
                        [name  |-> r.entities[functions[k]].qualified_name,
                         lines |-> {x.line : x \in {y \in LinesOf(r, n) : touched(functions[k], y)}}]]]

\* Packages in the order of their names, the root package before any other.
ClassOrder(r) ==
    SortedBy(Root(r), LAMBDA n : <<IF r.sources[n].package = Null THEN 0 ELSE r.sources[n].package, n>>)

Document(fmt, r) ==
    IF fmt = "lcov" THEN [k \in DOMAIN UserSources(r) |-> LcovRecord(r, UserSources(r)[k])]
    ELSE [k \in DOMAIN ClassOrder(r) |-> CoberturaClass(r, ClassOrder(r)[k])]

\* render: the document and its disposition, or a refusal; "raised" is caught by
\* nobody.
RenderAs(fmt, r, how, codes) ==
    IF how = "raised" THEN Refused("COV8001")
    ELSE IF codes # <<>> THEN Refused(codes[1])
    ELSE [document |-> Document(fmt, r), how |-> how]
RenderHow(fmt, r, how) == RenderAs(fmt, r, how, CodesOf(fmt, r, how = "lossy_hit_only"))
Render(fmt, r)         == RenderHow(fmt, r, Disposition(r))

-----------------------------------------------------------------------------
(* The readers: totals of a document, and the report they must equal. *)

NamedOnce(units) == \A j, k \in DOMAIN units : units[j].name = units[k].name => j = k
AddUp(s) == FoldFunction(+, 0, s)

LcovBranch(x) == <<Cardinality({o \in DOMAIN x.counts : x.counts[o] > 0}), Len(x.counts)>>
LcovTotals(rec) ==
    LET branch(i) == AddUp([k \in DOMAIN rec.branches |-> LcovBranch(rec.branches[k])[i]]) IN
    [function |-> <<Cardinality({k \in DOMAIN rec.functions : rec.functions[k].count > 0}), Len(rec.functions)>>,
     line     |-> <<Cardinality({x \in rec.lines : x[2] = 1}), Cardinality(rec.lines)>>,
     branch   |-> <<branch(1), branch(2)>>]

\* check_lcov: a line that ran in part is a hit.
CheckLcov(doc, r) ==
    LET users == UserSources(r) IN
    /\ DOMAIN doc = DOMAIN users
    /\ \A k \in DOMAIN users :
        LET summary == r.sources[users[k]].summary
            pair(m) == <<m.covered, m.total>>
        IN  /\ doc[k].path = r.sources[users[k]].path
            /\ NamedOnce(doc[k].functions)
            /\ LcovTotals(doc[k]) = [function |-> pair(summary.function), branch |-> pair(summary.branch),
                                     line |-> <<summary.line.covered + summary.line.partial, summary.line.total>>]

ClassTotals(c) ==
    LET conditions(x) == UNION {{<<d, o>> : o \in DOMAIN x.conditions[d]} : d \in DOMAIN x.conditions} IN
    [line   |-> <<Cardinality({x \in c.lines : x.hits = 1}), Cardinality(c.lines)>>,
     branch |-> <<MapThenSumSet(LAMBDA x : Cardinality({p \in conditions(x) : x.conditions[p[1]][p[2]]}), c.lines),
                  MapThenSumSet(LAMBDA x : Cardinality(conditions(x)), c.lines)>>]

\* check_cobertura
CheckCobertura(doc, r) ==
    LET classes == ClassOrder(r) IN
    /\ DOMAIN doc = DOMAIN classes
    /\ \A k \in DOMAIN classes :
        LET s == r.sources[classes[k]]  functions == UserFunctions(r, classes[k]) IN
        /\ doc[k].package = s.package /\ doc[k].path = s.path
        /\ NamedOnce(doc[k].methods)
        /\ [j \in DOMAIN doc[k].methods |-> doc[k].methods[j].name]
             = [j \in DOMAIN functions |-> r.entities[functions[j]].qualified_name]
        /\ ClassTotals(doc[k]) = [m \in {"branch", "line"} |-> <<s.summary[m].covered, s.summary[m].total>>]

CheckPrimary(fmt, doc, r) == IF fmt = "lcov" THEN CheckLcov(doc, r) ELSE CheckCobertura(doc, r)

\* verify_export, of a native report that its reader accepts.
VerifyExport(fmt, e, r) ==
    /\ HasInexact(r) = IF e.how = "exact" THEN "no" ELSE "yes"
    /\ e.how = "lossy_hit_only" =>
          /\ r.resolved_configuration.report.allow_lossy_saturated_export
          /\ "COV4021" \in IntegrityOf(r).diagnostics
          /\ r.evidence_eligibility \in {"diagnostic_only", "incomplete"}
    /\ CheckPrimary(fmt, e.document, r)

-----------------------------------------------------------------------------
(* The set of formats that one command exports: bundle and single.  A      *)
(* bundle is committed when every member was checked, a single export in   *)
(* three names, the native report first.                                   *)

\* How it ends, of what was rendered.
EndOf(rendered, r) ==
    LET refused == {fmt \in DOMAIN rendered : IsRefused(rendered[fmt])} IN
    IF \E fmt \in refused : rendered[fmt].refused = "COV8001" THEN "uncaught"
    ELSE IF refused # {} THEN "refused"
    ELSE IF \A fmt \in DOMAIN rendered : VerifyExport(fmt, rendered[fmt], r) THEN "published"
    ELSE "not committed"

\* What is on disk then.
Left(rendered, ended) ==
    [ended     |-> ended,
     native    |-> ended = "published" \/ (ended = "not committed" /\ Cardinality(DOMAIN rendered) = 1),
     documents |-> IF ended = "published" THEN rendered ELSE Null]

\* What an export of the report comes to.
Exported(rendered, r) == Left(rendered, EndOf(rendered, r))
ExportOf(formats, r)  == Exported([fmt \in formats |-> Render(fmt, r)], r)
=============================================================================
