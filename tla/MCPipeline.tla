----------------------------- MODULE MCPipeline -----------------------------
(* Small programs, their maps and profiles, and configurations, for TLC. *)
EXTENDS Pipeline

S(a, b, l, k) == [start_byte |-> a, end_byte |-> b, start_line |-> l, end_line |-> k]

Pt(src, ent, kind, span, ordinal, class, counter) ==
    [classification |-> class, counter_index |-> counter, entity_index |-> ent,
     fragment_index |-> IF counter = Null THEN Null ELSE 1, kind |-> kind, outcome_ordinal |-> ordinal,
     semantic_discriminator |-> 1, source_index |-> src, span |-> span]
Finish(points, sources, entities) == {With(p, "point_id", PointIdentity(p, sources, entities)) : p \in points}
ID(p, sources, entities) == PointIdentity(p, sources, entities)

User(path, digest) == [digest |-> digest, ownership |-> "user", package |-> Null, path |-> path]
Dep(path, digest)  == [digest |-> digest, ownership |-> "dependency", package |-> 7, path |-> path]

Fn(src, name, span) == [kind |-> "function", qualified_name |-> name, source_index |-> src, span |-> span]
Cl(src, name, span) == [kind |-> "contract", qualified_name |-> name, source_index |-> src, span |-> span]

\* Path 1: a function with a contract, a branch, three regions and an exclusion.
F    == S(0, 60, 1, 6)
Srcs1 == <<User(1, 11)>>
Ents1 == <<Fn(1, 51, F), Cl(1, 52, S(2, 8, 1, 1))>>
PEntry == Pt(1, 1, "function_entry", F, Null, "user", 0)
PBody  == Pt(1, 1, "region", S(10, 20, 2, 3), Null, "user", 1)
PThen  == Pt(1, 1, "branch_outcome", S(22, 40, 3, 4), 1, "user", 2)
PElse  == Pt(1, 1, "branch_outcome", S(22, 40, 3, 4), 2, "user", 3)
PTrue  == Pt(1, 2, "contract_true", S(2, 8, 1, 1), Null, "contract", 4)
PFalse == Pt(1, 2, "contract_false", S(2, 8, 1, 1), Null, "contract", 5)
POff   == Pt(1, 1, "region", S(42, 50, 5, 5), Null, "excluded", Null)
I1(p) == ID(p, Srcs1, Ents1)
Rg(kind, span, expr, lines, class) ==
    [classification |-> class, counter_expression |-> expr, entity_index |-> 1, kind |-> kind,
     line_contributing |-> TRUE, line_numbers |-> lines, source_index |-> 1, span |-> span]
Tm(c, pid) == [coefficient |-> c, point_id |-> pid]
RBody == Rg("expression", S(10, 20, 2, 3), {Tm(1, I1(PBody))}, {2, 3}, "user")
RElse == Rg("branch_body", S(30, 40, 3, 4), {Tm(1, I1(PEntry)), Tm(-1, I1(PThen))}, {3, 4}, "user")
ROff  == Rg("expression", S(42, 50, 5, 5), {}, {5}, "excluded")
Oc(name, p) == [classification |-> "eligible", evidence_identity |-> Null, name |-> name, point_id |-> I1(p)]
Br  == [entity_index |-> 1, kind |-> "if", outcomes |-> <<Oc("true", PThen), Oc("false", PElse)>>,
        source_index |-> 1, span |-> S(22, 40, 3, 4)]
Ct  == [enforcement |-> "runtime_checked", entity_index |-> 2, evidence_identity |-> Null,
        true_point_id |-> I1(PTrue), false_point_id |-> I1(PFalse), function_entity_index |-> 1,
        kind |-> "requires", source_index |-> 1, span |-> S(2, 8, 1, 1)]
Ex  == [affected |-> [branch_indices |-> {}, clause_indices |-> {}, entity_indices |-> {},
                      point_ids |-> {I1(POff)}, region_indices |-> {3}],
        mode |-> "off", origin |-> "comment", reason |-> 61, source_index |-> 1, span |-> S(41, 51, 5, 5)]
Map1 == [branches |-> <<Br>>, compiler |-> 1, contracts |-> <<Ct>>, entities |-> Ents1, exclusions |-> <<Ex>>,
         fragments |-> <<[slice_base |-> 0, slice_length |-> 6, source_indices |-> {1}]>>, map_id |-> 101,
         points |-> Finish({PEntry, PBody, PThen, PElse, PTrue, PFalse, POff}, Srcs1, Ents1),
         program_counter_count |-> 6, regions |-> <<RBody, RElse, ROff>>, sources |-> Srcs1, target |-> 1]

\* The same function of path 1 in another target, with a function of a dependency.
Srcs2 == <<User(1, 11), Dep(2, 21)>>
G     == S(0, 9, 1, 2)
Ents2 == <<Fn(1, 51, F), Fn(2, 53, G)>>
GEntry == [Pt(2, 2, "function_entry", G, Null, "user", 2) EXCEPT !.fragment_index = 2]
Map2 == [branches |-> <<>>, compiler |-> 1, contracts |-> <<>>, entities |-> Ents2, exclusions |-> <<>>,
         fragments |-> <<[slice_base |-> 0, slice_length |-> 2, source_indices |-> {1}],
                         [slice_base |-> 2, slice_length |-> 1, source_indices |-> {2}]>>, map_id |-> 102,
         points |-> Finish({PEntry, PBody, GEntry}, Srcs2, Ents2),
         program_counter_count |-> 3, regions |-> <<RBody>>, sources |-> Srcs2, target |-> 2]

\* A later version of path 1, whose map is of a program without the contract.
Srcs3 == <<User(1, 12)>>
Ents3 == <<Fn(1, 51, F)>>
Map3 == [branches |-> <<>>, compiler |-> 1, contracts |-> <<>>, entities |-> Ents3, exclusions |-> <<>>,
         fragments |-> <<[slice_base |-> 0, slice_length |-> 1, source_indices |-> {1}]>>, map_id |-> 103,
         points |-> Finish({PEntry}, Srcs3, Ents3),
         program_counter_count |-> 1, regions |-> <<>>, sources |-> Srcs3, target |-> 1]

\* Map 1, but for what it says of a region.
Map4 == [Map1 EXCEPT !.map_id = 104, !.regions[1].line_contributing = FALSE]

\* Not a map: two points on one counter.
Map5 == [Map1 EXCEPT !.map_id = 105, !.points = {IF p.counter_index = 5 THEN [p EXCEPT !.counter_index = 4] ELSE p : p \in @}]

\* What a standard export has no way to write: a function without an executable line,
\* two functions of one name, and a name that LCOV cannot spell.
Small(id, entities, points, regions) ==
    [Map3 EXCEPT !.map_id = id, !.sources = Srcs1, !.entities = entities, !.points = Finish(points, Srcs1, entities),
                 !.regions = regions, !.program_counter_count = Len(entities), !.fragments[1].slice_length = Len(entities)]
Enter(ent, span)  == Pt(1, ent, "function_entry", span, Null, "user", ent - 1)
Area(ent, p, ents, span, lines) == [Rg("expression", span, {Tm(1, ID(p, Srcs1, ents))}, lines, "user") EXCEPT !.entity_index = ent]
Low   == S(0, 20, 1, 2)
High  == S(30, 60, 4, 6)
Ents7 == <<Fn(1, 51, Low), Fn(1, 51, High)>>
Ents8 == <<Fn(1, 54, Low)>>
Map6 == Small(106, <<Fn(1, 51, F)>>, {Enter(1, F)}, <<>>)
Map7 == Small(107, Ents7, {Enter(1, Low), Enter(2, High)},
              <<Area(1, Enter(1, Low), Ents7, S(5, 15, 1, 2), {1, 2}), Area(2, Enter(2, High), Ents7, S(35, 40, 4, 4), {4})>>)
Map8 == Small(108, Ents8, {Enter(1, Low)}, <<Area(1, Enter(1, Low), Ents8, S(5, 15, 1, 2), {1, 2})>>)

ASSUME \A m \in {Map1, Map2, Map3, Map4, Map6, Map7, Map8} : ValidMap(m)
ASSUME ~ValidMap(Map5)
\* A fragment that is listed twice, and fragments out of order.
Unused == [slice_base |-> 3, slice_length |-> 0, source_indices |-> {2}]
ASSUME ValidMap([Map2 EXCEPT !.fragments = @ \o <<Unused>>]) /\ ~ValidMap([Map2 EXCEPT !.fragments = @ \o <<Unused, Unused>>])
ASSUME ~ValidMap([Map2 EXCEPT !.fragments = <<@[2], @[1]>>])

MapFile(name, sha, map)  == [name |-> name, sha |-> sha, fault |-> Null, map |-> map]
MA == MapFile(201, 301, Map1)
MB == MapFile(202, 302, Map2)
MC == MapFile(203, 303, Map3)
MD == MapFile(204, 304, Map4)
ME == MapFile(205, 305, Map5)
MF == MapFile(206, 306, Map6)
MG == MapFile(207, 307, Map7)
MH == MapFile(208, 308, Map8)

\* Raw profiles: as they are written for a map, and damaged.
Prof(id, run, map, context, counts) ==
    [profile_id |-> id, run_id |-> run, map_id |-> map, backend |-> "native", context |-> context,
     context_length |-> IF context = Null THEN 0 ELSE 3, counts |-> counts]
ProfileFile(name, sha, file) == [name |-> name, sha |-> sha, fault |-> Null, file |-> file]
Good(name, sha, profile, counters) == ProfileFile(name, sha, Raw!Encode(profile, counters))

ProfA == Prof(401, 501, 101, Null, (0 :> 2) @@ (1 :> 1) @@ (2 :> 1) @@ (4 :> 1))
ProfB == Prof(402, 501, 101, 5, (0 :> 1) @@ (3 :> 1) @@ (5 :> 1))
ProfC == Prof(403, 502, 101, Null, (0 :> 3) @@ (1 :> 3) @@ (4 :> 3))
PA == Good(211, 311, ProfA, 6)
PB == Good(212, 312, ProfB, 6)
PC == Good(213, 313, ProfC, 6)
PD == Good(214, 314, Prof(404, 501, 102, Null, (1 :> 1) @@ (2 :> 1)), 3)
PF == Good(216, 316, Prof(406, 501, 109, 6, (0 :> 1)), 6)
PG == Good(217, 317, Prof(407, 501, 101, Null, (0 :> 3) @@ (2 :> 1)), 6)
PH == Good(218, 318, Prof(401, 501, 101, Null, (0 :> 1)), 6)
PI == [PA EXCEPT !.name = 219]
PJ == Good(220, 320, Prof(408, 501, 101, Null, (2 :> 1)), 6)     \* less than zero in one region

\* Torn in the context, in the pairs and at the end; a bit flipped; a counter that
\* the map does not have; a maximum that no bit marks.
Torn(name, at) == ProfileFile(name, 300 + name, [Raw!Encode(ProfB, 6) EXCEPT !.bytes = at])
PE == Torn(215, 86)
PK == Torn(221, 96)
PL == ProfileFile(222, 322, [Raw!Encode(ProfB, 6) EXCEPT !.marker = FALSE])
PM == ProfileFile(223, 323, [Raw!Encode(ProfB, 6) EXCEPT !.crc = FALSE])
PN == Good(224, 324, Prof(409, 501, 102, 5, (0 :> 1) @@ (3 :> 1)), 6)
PO == ProfileFile(225, 325, [Raw!Encode(ProfC, 6) EXCEPT !.flags = {"native"}, !.word_count = 0, !.bits = {},
                                                         !.bytes = @ - 8])
PQ == Good(226, 326, Prof(410, 501, 101, 5, [i \in 0 .. 5 |-> 1]), 6)
PR(map, counters) == Good(227, 327, Prof(412, 501, map, Null, (0 :> 1)), counters)

\* What is written is read back, by the same tier, alone and for its map.
Standard == [max_counters |-> 6, max_bytes |-> 170]
ASSUME \A p \in {ProfA, ProfB, ProfC} \cup {Prof(411, 501, 101, 5, [i \in full |-> 3]) : full \in SUBSET (0 .. 5)} :
          Raw!Encodable(p, 6, Standard) =>
              LET f == Raw!Encode(p, 6) IN
              /\ f.bytes = Raw!Total(f)
              /\ Raw!Verdict(f, Standard, Null, Null) = "accepted" /\ Raw!Verdict(f, Standard, 6, 101) = "accepted"
              /\ \A field \in {"counts", "context", "run_id"} : Raw!Decoded(f)[field] = p[field]
\* A profile of which any part is missing is torn.
ASSUME \A n \in 0 .. PB.file.bytes - 1 : Raw!Verdict([PB.file EXCEPT !.bytes = n], Standard, 6, 101) = "COV2011"
ASSUME LET found == Classify({MA, MB}, {PA, PF, PH, PJ, PL, PM, PN, PO, PQ}, Standard).profiles IN
       /\ found[PA] = {"COV2112"} /\ found[PF] = {"COV2111"} /\ found[PH] = {"COV2112"}
       /\ found[PJ] = {"COV3002"} /\ found[PL] = {"COV2011"} /\ found[PM] = {"COV2012"}
       /\ found[PN] = {"COV2110"} /\ found[PO] = {"COV2110"} /\ found[PQ] = {"COV6001"}

Selection(mode, ids) == [manifest_sha256 |-> IF mode = "manifest" THEN 601 ELSE Null, mode |-> mode, requested_run_ids |-> ids]
Command(maps, profiles, selection, allow, policy) ==
    [maps |-> maps, profiles |-> profiles, tier |-> Standard, selection |-> selection, execution |-> NotApplicable, allow |-> allow,
     policy |-> policy, tool |-> OurTool]

Implicit == Selection("implicit-single", {})
MCCommands ==
    {Command({MA}, {PA}, Implicit, FALSE, "fail"),
     Command({MA}, {PA, PB}, Implicit, FALSE, "fail"),
     Command({MA, MB}, {PA, PB, PD}, Implicit, FALSE, "fail"),
     Command({MA}, {PA, PC}, Selection("explicit-list", {501, 502}), FALSE, "fail"),
     Command({MA}, {PA, PC}, Implicit, TRUE, "fail"),
     Command({MA}, {PA, PJ}, Implicit, TRUE, "fail"),
     Command({MA}, {PA, PG}, Implicit, FALSE, "allow-ordinary"),
     Command({MA}, {PA, PE}, Implicit, TRUE, "fail"),
     Command({MA}, {PA, PE}, Implicit, FALSE, "fail"),
     Command({MA}, {PA, PK, PL, PM, PO, PQ}, Implicit, TRUE, "fail"),
     Command({MA, MB}, {PA, PN}, Implicit, TRUE, "fail"),
     Command({MA}, {PA, PF}, Implicit, TRUE, "fail"),
     Command({MA, MD}, {PA}, Implicit, TRUE, "fail"),
     Command({MA, ME}, {PB}, Implicit, TRUE, "fail"),
     Command({MA, MC}, {PB}, Implicit, TRUE, "fail"),
     Command({MA}, {PA, PH}, Implicit, TRUE, "fail"),
     Command({MA}, {PA, PI}, Implicit, TRUE, "fail"),
     Command({MA}, {}, Implicit, TRUE, "fail"),
     Command({MF}, {PR(106, 1)}, Implicit, FALSE, "allow-ordinary"),
     Command({MG}, {PR(107, 2)}, Implicit, FALSE, "fail"),
     Command({MH}, {PR(108, 1)}, Implicit, FALSE, "fail")}

\* Files of one name in two directories: one is a link, the other is too large.
NotRead(name, code) == [name |-> name, sha |-> Null, fault |-> code, file |-> Null]
SameNameCommands ==
    {Command({MA}, {PA} \cup unread, Implicit, TRUE, "fail") :
        unread \in SUBSET {NotRead(231, "COV6002"), NotRead(231, "COV6001"), NotRead(232, "COV6001")}}

\* Configurations: of one threshold, of assertions, of changed regions, of a
\* ratchet, of exclusions; with one standard export, with both, with leave for
\* inexact counts.
NoLimits == [m \in Metrics |-> Null]
File(keys, scopes, entities) == [keys |-> keys, scopes |-> scopes, entities |-> entities]
Keys(table, names, v) == [k \in {<<table, n>> : n \in names} |-> v]
Plain(keys) == [options |-> <<>>, file |-> File(keys, {}, {}), export |-> {}]
Scope == [name |-> "s", include |-> {1}, packages |-> {7}, sources |-> Null,
          thresholds |-> [NoLimits EXCEPT !.line = 10000]]
FnAssertion == [name |-> "f", source |-> 1, qualified_name |-> 51, kind |-> "function",
                thresholds |-> [NoLimits EXCEPT !.branch = 5000]]
ClAssertion == [name |-> "c", source |-> 1, qualified_name |-> 52, kind |-> "contract",
                thresholds |-> [NoLimits EXCEPT !.contract = 10000]]
DiffKeysSet == (<<"diff", "base">> :> 71) @@ Keys("diff", {"line", "branch"}, 10000)
RatchetKeysSet ==
    (<<"ratchet", "baseline">> :> 81) @@ (<<"ratchet", "metrics">> :> {"line", "function"})
        @@ (<<"ratchet", "tolerance_basis_points">> :> 1000)
ExclusionKeysSet ==
    (<<"exclusions", "max_records">> :> 1) @@ (<<"exclusion caps", "region">> :> 5000)
        @@ (<<"exclusions", "forbidden_reasons">> :> {62})

Allowing == (<<"integrity", "saturation">> :> "allow-ordinary")
MCInvocations ==
    {[options |-> <<>>, file |-> Null, export |-> {"cobertura", "lcov"}],
     [options |-> <<>>, export |-> {"lcov"}, file |-> File(Keys("thresholds", Metrics, 5000), {}, {FnAssertion, ClAssertion})],
     [options |-> <<>>, export |-> {"cobertura"}, file |-> File(Keys("thresholds", {"branch"}, 10000), {}, {})],
     [options |-> Allowing, export |-> {"cobertura"}, file |-> File(Keys("thresholds", {"region"}, 10000), {}, {})],
     [options |-> Allowing @@ (AllowLossy :> TRUE), export |-> {"lcov", "cobertura"}, file |-> Null],
     [options |-> Allowing, export |-> {}, file |-> File(RatchetKeysSet, {}, {})],
     [options |-> AllowMismatch :> TRUE, export |-> {}, file |-> File(<<"", "empty">> :> "pass", {Scope}, {})],
     Plain(DiffKeysSet), Plain(RatchetKeysSet), Plain(ExclusionKeysSet)}
MCCompiled == (1 :> 11) @@ (2 :> 21)
MCEdited == {<<1, 12>>, <<1, 11>>, <<2, Null>>}
Capture(lines, sha, state) ==
    {[path |-> 1, changed_lines |-> lines, sha256 |-> sha, state |-> state],
     [path |-> 2, changed_lines |-> {}, sha256 |-> 21, state |-> "unchanged"]}
MCCaptures == {Capture({2, 4}, 11, "modified"), Capture({}, 11, "unchanged"), Capture({2}, 12, "modified")}

Old(covered, excluded, total) == [m \in Metrics |-> [covered |-> covered, excluded |-> excluded, total |-> total]]
Baseline1 == [commit |-> Null, exclusion_records |-> 1, metrics |-> Old(1, 1, 2), saturation_policy |-> "fail", sources |-> {1}]
Baseline2 == [commit |-> 91, exclusion_records |-> 0, metrics |-> Old(2, 0, 2), saturation_policy |-> "fail", sources |-> {1, 3}]
Given(b, ancestor) == [data |-> b, ancestor |-> ancestor]
MCBaselines == {Given(Null, FALSE), Given(Baseline1, FALSE), Given(Baseline2, TRUE), Given(Baseline2, FALSE),
                Given([Baseline1 EXCEPT !.metrics = Old(3, 0, 2)], FALSE)}
MCUnwritable == [lcov |-> {54}, cobertura |-> {}]
MCTool == [diagnostic_registry_revision |-> 2, version |-> 1]
=============================================================================
