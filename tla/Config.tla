------------------------------- MODULE Config -------------------------------
(***************************************************************************)
(* config.py and config_resolve.py: the keys of sv0.toml and the options   *)
(* of the commands, and the configuration they resolve to: an option, else *)
(* the file's value, else the default.  Values are of their key's kind;    *)
(* reports and reproducible_epoch, which no verdict depends on, are left   *)
(* out, and so are the options that only change the output.                *)
(*                                                                         *)
(* A key is <<table, name>>.  A file is Null, without a [tool.sv0cov], or  *)
(* [keys, scopes, entities], keys being a function from the plain keys it  *)
(* sets.  A command line is a function from the options given.             *)
(***************************************************************************)
EXTENDS Schemas

DiffMetrics == {"branch", "line", "region"}

RawProfileKeys == {<<"raw_profile", k>> : k \in {"tier", "max_counters", "max_bytes"}}
DiffKeys       == {<<"diff", k>> : k \in {"base"} \cup DiffMetrics}
RatchetKeys    == {<<"ratchet", k>> : k \in {"baseline", "metrics", "tolerance_basis_points"}}
ThresholdKeys  == {<<"thresholds", m>> : m \in Metrics}

\* The options that override a key.
MappedKeys ==
    {<<"", k>> : k \in {"output_dir", "empty", "context"}} \cup {<<"integrity", "saturation">>}
        \cup RawProfileKeys \cup DiffKeys \cup RatchetKeys \cup ThresholdKeys

NoContext     == <<"flag", "no-context">>
AllowMismatch == <<"flag", "allow-source-mismatch">>
AllowLossy    == <<"flag", "allow-lossy-saturated-export">>

\* Key.commands and Option.commands
Applies(option) ==
    CASE option = <<"", "output_dir">> -> {"run", "merge", "report", "check", "baseline", "clean"}
      [] option \in {<<"", "context">>, NoContext}   -> {"run"}
      [] option = <<"integrity", "saturation">>      -> {"run", "merge", "report", "check", "baseline"}
      [] option \in RawProfileKeys -> {"run", "merge"}
      [] option \in RatchetKeys    -> {"run", "check", "baseline"}
      [] option = AllowMismatch    -> {"report"}
      [] option = AllowLossy       -> {"run", "report"}
      [] OTHER -> {"run", "check"}

\* Null: absent unless configured.
Default(key) ==
    CASE key = <<"", "output_dir">>           -> 1    \* .sv0cov
      [] key = <<"", "empty">>                -> "fail"
      [] key = <<"integrity", "saturation">>  -> "fail"
      [] key = <<"raw_profile", "tier">>      -> "standard"
      [] key = <<"ratchet", "tolerance_basis_points">> -> 0
      [] key \in {<<"exclusions", "forbidden_reasons">>, <<"exclusions", "forbidden_sources">>} -> {}
      [] OTHER -> Null

\* _occurrences
UsageOK(command, options) ==
    /\ DOMAIN options \subseteq MappedKeys \cup {NoContext, AllowMismatch, AllowLossy}
    /\ \A o \in DOMAIN options : command \in Applies(o)
    /\ ~ {NoContext, <<"", "context">>} \subseteq DOMAIN options

-----------------------------------------------------------------------------
(* The file on its own: _fields and _relations. *)

Sets(file, keys) == DOMAIN file.keys \cap keys # {}

\* A table that the file has names what it must.
RequiredOK(file) ==
    /\ Sets(file, DiffKeys) => <<"diff", "base">> \in DOMAIN file.keys
    /\ Sets(file, RatchetKeys) => {<<"ratchet", "baseline">>, <<"ratchet", "metrics">>} \subseteq DOMAIN file.keys

CustomTier(file) ==
    IF <<"raw_profile", "tier">> \in DOMAIN file.keys
    THEN file.keys[<<"raw_profile", "tier">>] = "custom" ELSE FALSE

DistinctNames(rows) == \A r, q \in rows : r.name = q.name => r = q

RelationsOK(file) ==
    /\ \A k \in {"max_counters", "max_bytes"} :
          (<<"raw_profile", k>> \in DOMAIN file.keys) = CustomTier(file)
    /\ \A s \in file.scopes : \E selector \in {"include", "packages", "sources"} : s[selector] # Null
    /\ \A e \in file.entities : e.kind = "contract" => \A m \in Metrics \ {"contract"} : e.thresholds[m] = Null
    /\ Sets(file, DiffKeys) => Sets(file, {<<"diff", m>> : m \in DiffMetrics})
    /\ DistinctNames(file.scopes) /\ DistinctNames(file.entities)

-----------------------------------------------------------------------------
(* resolve *)

\* build: one leaf.
Effective(key, options, file) ==
    CASE key \in DOMAIN options -> [source |-> "cli", value |-> options[key]]
      [] key = <<"", "context">> /\ NoContext \in DOMAIN options -> [source |-> "cli", value |-> Null]
      [] OTHER -> IF file = Null THEN [source |-> "default", value |-> Default(key)]
                  ELSE IF key \in DOMAIN file.keys THEN [source |-> "sv0.toml", value |-> file.keys[key]]
                  ELSE [source |-> "default", value |-> Default(key)]

\* diff and ratchet are there when the file or an option sets one of their keys.
Present(keys, options, file) ==
    DOMAIN options \cap keys # {} \/ (IF file = Null THEN FALSE ELSE Sets(file, keys))

FromFile(v) == [source |-> IF v = Null THEN "default" ELSE "sv0.toml", value |-> v]

FileThresholds(t) == [m \in Metrics |-> FromFile(t[m])]

ResolvedScope(s) ==
    [name |-> FromFile(s.name), include |-> FromFile(s.include), packages |-> FromFile(s.packages),
     sources |-> FromFile(s.sources), thresholds |-> FileThresholds(s.thresholds)]

ResolvedEntity(e) ==
    [name |-> FromFile(e.name), source |-> FromFile(e.source), qualified_name |-> FromFile(e.qualified_name),
     kind |-> FromFile(e.kind), thresholds |-> FileThresholds(e.thresholds)]

CoverageOf(options, file) ==
    LET leaf(t, k) == Effective(<<t, k>>, options, file)
        table(t, names) == [k \in names |-> leaf(t, k)]
    IN  [schema       |-> IF file = Null THEN "default" ELSE "sv0.toml",
         output_dir   |-> leaf("", "output_dir"),
         empty        |-> leaf("", "empty"),
         context      |-> leaf("", "context"),
         saturation   |-> leaf("integrity", "saturation"),
         raw_profile  |-> table("raw_profile", {"tier", "max_counters", "max_bytes"}),
         thresholds   |-> table("thresholds", Metrics),
         scopes       |-> IF file = Null THEN {} ELSE {ResolvedScope(s) : s \in file.scopes},
         entities     |-> IF file = Null THEN {} ELSE {ResolvedEntity(e) : e \in file.entities},
         diff         |-> IF Present(DiffKeys, options, file) THEN table("diff", {"base"} \cup DiffMetrics) ELSE Null,
         ratchet      |-> IF Present(RatchetKeys, options, file)
                          THEN table("ratchet", {"baseline", "metrics", "tolerance_basis_points"}) ELSE Null,
         exclusions   |-> [max_records |-> leaf("exclusions", "max_records"), caps |-> table("exclusion caps", Metrics),
                           forbidden_reasons |-> leaf("exclusions", "forbidden_reasons"),
                           forbidden_sources |-> leaf("exclusions", "forbidden_sources")]]

\* _relations, on the effective values.
EffectiveOK(cov) ==
    LET custom == cov.raw_profile.tier.value = "custom" IN
    /\ \A k \in {"max_counters", "max_bytes"} : (cov.raw_profile[k].value # Null) = custom
    /\ cov.diff # Null =>
          cov.diff.base.value # Null /\ \E m \in DiffMetrics : cov.diff[m].value # Null
    /\ cov.ratchet # Null => cov.ratchet.baseline.value # Null /\ cov.ratchet.metrics.value # Null

Resolve(command, options, file) ==
    LET cov == CoverageOf(options, file)
        fileCode == IF file = Null THEN Null
                    ELSE IF ~RequiredOK(file) THEN "COV0012"
                    ELSE IF ~RelationsOK(file) THEN "COV0013" ELSE Null
    IN  IF ~UsageOK(command, options) THEN Refused("COV0001")
        ELSE IF fileCode # Null THEN Refused(fileCode)
        ELSE IF ~EffectiveOK(cov) THEN Refused("COV0013")
        ELSE [coverage |-> cov,
              report   |-> [allow_lossy_saturated_export |-> AllowLossy \in DOMAIN options,
                            allow_source_mismatch |-> AllowMismatch \in DOMAIN options]]

-----------------------------------------------------------------------------
(* What a reader requires of a resolved configuration: _check_configuration *)
(* of formats/report.py.                                                    *)

\* An absent value is a default; for context it may be the command line's.
AbsenceOK(l)  == l.value = Null => l.source = "default"
FromFileOK(l) == AbsenceOK(l) /\ l.source # "cli" /\ (l.source = "default" => l.value \in {Null, {}})

FromFileAll(t, names) == \A k \in names : FromFileOK(t[k])

ConfigurationOK(c) ==
    LET cov == c.coverage IN
    /\ \A k \in {"output_dir", "empty", "saturation"} : AbsenceOK(cov[k])
    /\ \A k \in DOMAIN cov.raw_profile : AbsenceOK(cov.raw_profile[k])
    /\ \A m \in Metrics : AbsenceOK(cov.thresholds[m])
    /\ cov.context.value = Null => cov.context.source # "sv0.toml"
    /\ \A s \in cov.scopes :
          /\ FromFileAll(s, {"name", "include", "packages", "sources"}) /\ FromFileAll(s.thresholds, Metrics)
          /\ \E k \in {"include", "packages", "sources"} : s[k].value # Null
    /\ \A e \in cov.entities :
          /\ FromFileAll(e, {"name", "source", "qualified_name", "kind"}) /\ FromFileAll(e.thresholds, Metrics)
          /\ e.kind.value = "contract" => \A m \in Metrics \ {"contract"} : e.thresholds[m].value = Null
    /\ DistinctNames(cov.scopes) /\ DistinctNames(cov.entities)
    /\ FromFileAll(cov.exclusions, {"max_records", "forbidden_reasons", "forbidden_sources"})
    /\ FromFileAll(cov.exclusions.caps, Metrics)
    /\ EffectiveOK(cov)
=============================================================================
