------------------------------- MODULE Schemas -------------------------------
(***************************************************************************)
(* The closed schemas of sv0cov's documents, which the generated           *)
(* validators of src/sv0cov/_generated/validators check: one record set    *)
(* per object.  A member whose value the schema or the record rules fix    *)
(* (schema, version, capabilities, diff_options, ordinal, a record's own   *)
(* index, "saturated", which equals lower_bound) is left out, and so are   *)
(* columns and the digests of whole documents.                             *)
(*                                                                         *)
(* A text, a digest or an identity is a number in byte order; a point ID   *)
(* is what it is the digest of.  An array whose records others refer to by *)
(* position is a sequence, and positions count from 1; an array that is    *)
(* strictly ordered by its records' own keys is a set.                     *)
(***************************************************************************)
EXTENDS CountExpr, Sequences

CONSTANT Null       \* JSON null

\* An operation that makes no document refuses with a diagnostic's code.
Refused(code) == [refused |-> code]
IsRefused(r)  == DOMAIN r = {"refused"}

Nullable(S) == S \cup {Null}
NonEmpty(S) == Seq(S) \ {<<>>}
Index       == Nat \ {0}
Text        == Nat \ {0}
Digest      == Nat
PointID     == Seq(Nat)
BasisPoints == 0 .. 10000

\* The codes of diagnostics that a document here can carry.
Codes ==
    {"COV1004", "COV1010", "COV2010", "COV2011", "COV2012", "COV2103", "COV2110", "COV2111", "COV2112", "COV2130",
     "COV3001", "COV3002", "COV3003", "COV3004", "COV4020", "COV4021", "COV4101", "COV4102", "COV4201",
     "COV6001", "COV6002"}

BranchKinds     == {"conditional_expression", "if", "loop", "match", "short_circuit"}
ContractKinds   == {"assert", "ensures", "loop_invariant", "requires"}
EntityKinds     == {"contract", "function"}
PointKinds      == {"branch_outcome", "contract_false", "contract_true", "function_entry", "region"}
RegionKinds     == {"assignment", "branch_body", "break", "call", "continue", "expression",
                    "expression_statement", "initializer", "loop_body", "match_arm", "mutation", "return"}
Classifications == {"contract", "excluded", "statically_unreachable", "synthetic_support", "user"}
Enforcements    == {"disabled", "runtime_checked", "statically_verified", "unsupported"}
Metrics         == {"branch", "contract", "function", "line", "region"}
Policies        == {"allow-ordinary", "fail"}

-----------------------------------------------------------------------------
(* sv0cov.map 1.0                                                          *)

Span == [start_byte : Nat, end_byte : Nat, start_line : Text, end_line : Text]

Term              == [coefficient : Int, point_id : PointID]
CounterExpression == SUBSET Term

MapOutcome ==
    [classification : {"eligible", "excluded", "statically_unreachable"},
     evidence_identity : Nullable(Text), name : STRING, point_id : PointID]

MapBranch ==
    [entity_index : Nullable(Index), kind : BranchKinds, outcomes : NonEmpty(MapOutcome),
     source_index : Index, span : Span]

MapContract ==
    [enforcement : Enforcements, entity_index : Index, evidence_identity : Nullable(Text),
     true_point_id : Nullable(PointID), false_point_id : Nullable(PointID),
     function_entity_index : Nullable(Index), kind : ContractKinds, source_index : Index, span : Span]

Entity == [kind : EntityKinds, qualified_name : Text, source_index : Index, span : Span]

Affected ==
    [branch_indices : SUBSET Index, clause_indices : SUBSET Index, entity_indices : SUBSET Index,
     point_ids : SUBSET PointID, region_indices : SUBSET Index]

Exclusion ==
    [affected : Affected, mode : {"branch_off", "contract_off", "off"},
     origin : {"attribute", "comment"}, reason : Text, source_index : Index, span : Span]

Fragment == [slice_base : Nat, slice_length : Nat, source_indices : (SUBSET Index) \ {{}}]

MapPoint ==
    [classification : Classifications, counter_index : Nullable(Nat), entity_index : Nullable(Index),
     fragment_index : Nullable(Index), kind : PointKinds, outcome_ordinal : Nullable(Index),
     point_id : PointID, semantic_discriminator : Text, source_index : Index, span : Span]

MapRegion ==
    [classification : Classifications, counter_expression : CounterExpression,
     entity_index : Nullable(Index), kind : RegionKinds, line_contributing : BOOLEAN,
     line_numbers : SUBSET Text, source_index : Index, span : Span]

Source ==
    [digest : Digest, ownership : {"dependency", "user"}, package : Nullable(Text), path : Text]

\* What built a map and for what: told apart by identity alone.
Compiler == Text
Target   == Text

MapDocument ==
    [branches : Seq(MapBranch), compiler : Compiler, contracts : Seq(MapContract), entities : Seq(Entity),
     exclusions : Seq(Exclusion), fragments : Seq(Fragment), map_id : Digest, points : SUBSET MapPoint,
     program_counter_count : Nat, regions : Seq(MapRegion), sources : Seq(Source), target : Target]

-----------------------------------------------------------------------------
(* sv0cov.indexed-semantic 1.0                                             *)

ContextCount == [context_index : Index, lower_bound : BOOLEAN, value : 0 .. MaxCount]

CountRecord == [by_context : SUBSET ContextCount, lower_bound : BOOLEAN, value : 0 .. MaxCount]

Outcome ==
    [count : CountRecord, evidence_identity : Nullable(Text), name : STRING, point_id : PointID,
     status : {"covered", "excluded", "statically_unreachable", "uncovered"}]

Branch ==
    [entity_index : Nullable(Index), kind : BranchKinds, outcomes : NonEmpty(Outcome),
     source_index : Index, span : Span]

Contract ==
    [count_false : Nullable(CountRecord), count_true : Nullable(CountRecord), enforcement : Enforcements,
     entity_index : Index, evidence_identity : Nullable(Text), function_entity_index : Nullable(Index),
     kind : ContractKinds,
     runtime_result : {"evaluated_false", "evaluated_true", "mixed", "not_applicable", "not_evaluated"},
     source_index : Index, span : Span]

Line ==
    [line : Text, region_indices : SUBSET Index, source_index : Index,
     status : {"covered", "excluded", "non_executable", "partial", "uncovered"}]

Point ==
    [classification : Classifications, count : CountRecord, entity_index : Nullable(Index),
     kind : PointKinds, outcome_ordinal : Nullable(Index), point_id : PointID,
     semantic_discriminator : Text, source_index : Index, span : Span]

Region ==
    [classification : Classifications, count : CountRecord, counter_expression : CounterExpression,
     entity_index : Nullable(Index), kind : RegionKinds, line_contributing : BOOLEAN,
     line_numbers : SUBSET Text, source_index : Index, span : Span]

Saturation ==
    [affected_point_ids : SUBSET PointID, affected_region_indices : SUBSET Index, any : BOOLEAN,
     eligible_metrics : {{}, {"branch", "function", "line", "region"}},
     ineligible_uses : SUBSET {"context_exact_counts", "contract_counts", "exact_count_assertions",
                               "ratchets", "standard_exports"},
     policy : Policies]

SemanticDocument ==
    [branches : Seq(Branch), complete : BOOLEAN, contexts : Seq(Nullable(Text)), contracts : Seq(Contract),
     diagnostics : SUBSET Codes, entities : Seq(Entity), exclusions : Seq(Exclusion), lines : Seq(Line),
     map_ids : SUBSET Digest, points : SUBSET Point, regions : Seq(Region), saturation : Saturation,
     sources : Seq(Source)]

-----------------------------------------------------------------------------
(* sv0cov.indexed 1.0                                                      *)

Execution ==
    [exit_code : Nullable(0 .. 255), signal : Nullable(1 .. 127),
     status : {"failed", "not_applicable", "passed", "signaled"}]

\* bindings: the points that the counters count, in the counters' order.
Binding == PointID

MapBinding ==
    [bindings : Seq(Binding), compiler_identity : Compiler, map_id : Digest, source_indices : SUBSET Index,
     target : Target]

MapInput ==
    [artifact_sha256 : Nullable(Digest), diagnostics : SUBSET Codes, map_id : Nullable(Digest),
     name : Text, status : {"accepted", "rejected"}]

Backends == {"native", "vm-v1", "vm-v2"}

ProfileInput ==
    [artifact_sha256 : Nullable(Digest), backend : Nullable(Backends), context_index : Nullable(Index),
     diagnostics : SUBSET Codes, map_id : Nullable(Digest), name : Text, profile_id : Nullable(Digest),
     run_id : Nullable(Digest), status : {"accepted", "incomplete", "rejected"}]

SelectionModes == {"explicit-list", "implicit-single", "manifest", "none"}

RunSelection ==
    [manifest_sha256 : Nullable(Digest), mode : SelectionModes, requested_run_ids : SUBSET Digest,
     selected_run_ids : SUBSET Digest]

Tool == [diagnostic_registry_revision : Text, version : Text]

IndexedDocument ==
    [allow_rejected_inputs : BOOLEAN, diagnostics : SUBSET Codes, execution : Execution,
     map_inputs : SUBSET MapInput, maps : SUBSET MapBinding, profile_inputs : SUBSET ProfileInput,
     run_selection : RunSelection, semantic : SemanticDocument, tool : Tool]

-----------------------------------------------------------------------------
(* sv0cov.resolved-configuration 1.0.  A list of patterns is the set of    *)
(* the paths that it selects.                                              *)

Leaf(S) == [source : {"cli", "default", "sv0.toml"}, value : S]

Threshold == Leaf(Nullable(BasisPoints))

ThresholdsTable ==
    [branch : Threshold, contract : Threshold, function : Threshold, line : Threshold, region : Threshold]

ScopeRow ==
    [name : Leaf(STRING), include : Leaf(Nullable(SUBSET Text)), packages : Leaf(Nullable(SUBSET Text)),
     sources : Leaf(Nullable(SUBSET Text)), thresholds : ThresholdsTable]

EntityRow ==
    [name : Leaf(STRING), source : Leaf(Text), qualified_name : Leaf(Text), kind : Leaf(EntityKinds),
     thresholds : ThresholdsTable]

DiffTable == [base : Leaf(Text), branch : Threshold, line : Threshold, region : Threshold]

RatchetTable ==
    [baseline : Leaf(Text), metrics : Leaf((SUBSET Metrics) \ {{}}), tolerance_basis_points : Leaf(BasisPoints)]

ExclusionsTable ==
    [max_records : Leaf(Nullable(Nat)), caps : ThresholdsTable, forbidden_reasons : Leaf(SUBSET Text),
     forbidden_sources : Leaf(SUBSET Text)]

RawProfileTable ==
    [tier : Leaf({"custom", "large", "standard"}), max_counters : Leaf(Nullable(Text)),
     max_bytes : Leaf(Nullable(Text))]

CoverageTable ==
    [schema : {"default", "sv0.toml"}, output_dir : Leaf(Text), empty : Leaf({"fail", "pass"}),
     context : Leaf(Nullable(Text)), saturation : Leaf(Policies), raw_profile : RawProfileTable,
     thresholds : ThresholdsTable, scopes : SUBSET ScopeRow, entities : SUBSET EntityRow,
     diff : Nullable(DiffTable), ratchet : Nullable(RatchetTable), exclusions : ExclusionsTable]

ReportControls == [allow_lossy_saturated_export : BOOLEAN, allow_source_mismatch : BOOLEAN]

ConfigurationDocument == [coverage : CoverageTable, report : ReportControls]

-----------------------------------------------------------------------------
(* sv0cov.baseline 1.0                                                     *)

MetricCounts  == [covered : Nat, excluded : Nat, total : Nat]
MetricsCounts == [Metrics -> MetricCounts]

BaselineDocument ==
    [commit : Nullable(Text), exclusion_records : Nat, metrics : MetricsCounts,
     saturation_policy : Policies, sources : SUBSET Text]

-----------------------------------------------------------------------------
(* sv0cov.report 1.0                                                       *)

ChangeSource ==
    [changed_lines : SUBSET Text, sha256 : Digest, source_index : Index,
     state : {"added", "modified", "renamed", "unchanged"}]

Changes == SUBSET ChangeSource

Fraction == [denominator : Nat, numerator : Nat]

Metric == [covered : Nat, partial : Nullable(Nat), ratio : Nullable(Nat), total : Nat]

MetricSet == [Metrics -> Nullable(Metric)]

ReportEntity ==
    [kind : EntityKinds, qualified_name : Text, source_index : Index, span : Span, summary : MetricSet]

Membership ==
    [branch_indices : SUBSET Index, clause_indices : SUBSET Index, entity_indices : SUBSET Index,
     line_indices : SUBSET Index, region_indices : SUBSET Index, source_indices : SUBSET Index]

Evaluation ==
    [actual : Nullable(Fraction),
     assertion_kind : {"diff", "entity", "exclusion", "integrity", "project", "ratchet", "scope"},
     assertion_name : STRING, comparison : {"at_least", "at_most", "equal", "none"},
     diagnostics : SUBSET Codes, limit : Nullable(Fraction), members : Membership,
     metric : Metrics \cup {"evidence", "exclusion_records"},
     result : {"fail", "ineligible", "not_applicable", "pass"},
     threshold_source : Nullable({"assertion", "diff", "exclusion", "integrity", "project", "ratchet"})]

ReportAffected ==
    [branch_indices : SUBSET Index, clause_indices : SUBSET Index, entity_indices : SUBSET Index,
     line_indices : SUBSET Index, point_ids : SUBSET PointID, region_indices : SUBSET Index]

ReportExclusion ==
    [affected : ReportAffected, mode : {"branch_off", "contract_off", "off"},
     origin : {"attribute", "comment"}, reason : Text, source_index : Index, span : Span]

ReportMap ==
    [compiler_identity : Compiler, map_id : Digest, source_indices : SUBSET Index, target : Target]

Policy == [evaluations : SUBSET Evaluation, passed : BOOLEAN]

Provenance ==
    [backends : SUBSET Backends, execution : Execution, map_ids : SUBSET Digest, run_ids : SUBSET Digest,
     run_manifest_sha256 : Nullable(Digest), run_selection : SelectionModes, tool : Tool,
     source_accuracy : {"current", "mismatch_allowed"}]

\* The outcomes of one metric against the baseline.
Comparison  == SUBSET {"denominator_growth", "exclusion_growth", "numerator_regression"}
Comparisons == [Metrics -> Comparison]

\* A report keeps of a baseline what the baseline's own schema holds.
RatchetBaseline == BaselineDocument

RatchetRecord ==
    [baseline : Nullable(RatchetBaseline), comparisons : Nullable(Comparisons),
     sources_added : SUBSET Text, sources_removed : SUBSET Text,
     state : {"incompatible", "invalid", "missing", "ok", "stale"}]

ReportRegion ==
    [classification : Classifications, count : CountRecord, counter_expression : CounterExpression,
     entity_index : Nullable(Index), kind : RegionKinds, line_contributing : BOOLEAN,
     line_numbers : SUBSET Text, point_ids : SUBSET PointID, source_index : Index, span : Span]

ReportSource ==
    [digest : Digest, observed_digest : Nullable(Digest), ownership : {"dependency", "user"},
     package : Nullable(Text), path : Text, source_state : {"current", "mismatch", "unavailable"},
     summary : MetricSet]

ReportDocument ==
    [branches : Seq(Branch), changes : Nullable(Changes), complete : BOOLEAN, contexts : Seq(Nullable(Text)),
     contracts : Seq(Contract), entities : Seq(ReportEntity),
     evidence_eligibility : {"diagnostic_only", "incomplete", "passing", "policy_failed"},
     exclusions : Seq(ReportExclusion), inputs : SUBSET ProfileInput, lines : Seq(Line),
     maps : SUBSET ReportMap, points : SUBSET Point, policy : Policy, provenance : Provenance,
     ratchet : Nullable(RatchetRecord), regions : Seq(ReportRegion),
     resolved_configuration : ConfigurationDocument, saturation : Saturation,
     sources : Seq(ReportSource), summary : MetricSet, tool : Tool]
=============================================================================
