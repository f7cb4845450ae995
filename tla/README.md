# A TLA+ verification of sv0cov

sv0cov is the coverage tool of the sv0 language. The compiler gives every
instrumented program a coverage map and counters; the C runtime linked into the
program counts hits and leaves one raw profile per process; the Python tool
collects the profiles, merges them with the maps into indexed evidence,
evaluates a policy and publishes reports. This directory holds specifications
of the parts of it that are hard to test, the TLC configurations that check
them on small instances, and proofs for arbitrary instances.

Paths below are relative to the repository: `runtime/c/sv0cov_rt.c` is the
runtime, `src/sv0cov/` the tool, `docs/` its documents.

## Contents

1. Inventory of the system
2. The modules
3. What the runs check
4. Bounds
5. Fairness
6. What is proved
7. What is only model-checked
8. Where the code and its documents disagree
9. What is not modelled
10. Plan
11. Running the checks

## 1. Inventory of the system

| component | state it keeps | operations | hard because | correct means |
| --- | --- | --- | --- | --- |
| native runtime, `sv0cov_rt.c` | `rt`: state, required, unresolved, late, counters, overflow; a temporary and a profile on disk | `__sv0cov_start`, `__sv0cov_hit`, `rt_flush`, `rt_publish_noreplace`, `rt_fork_prepare`, `rt_fork_child` | threads nobody joined run during the flush, which reads the counters twice; fork at any moment; ten calls that may fail; kill | counts are exact and saturate; a profile is whole, bounded by what ran, and exact if threads were joined; required coverage is never silently missing; nothing is replaced |
| publication protocol, `publish.py` | temporary siblings and one name in one directory | `publish_file`, `publish_bundle`, `replace_file` | several processes on one name; a check that is stale when the commit comes; lost writes, failed calls, interrupts, death | the name goes from absent to one complete artifact in one step; callers are told the truth; temporaries are removed |
| merge, `model/merge.py`, `model/indexed.py`, `model/semantic.py`, `cmd_merge.py` | the classification of the inputs, the counts, the verdict | validate maps, find conflicts, decode, bind, count, combine, publish | sets walked in an order Python chooses; copies, collisions, torn and contradicting inputs; sums that saturate | the evidence is a function of the set of inputs; complete evidence leaves nothing out; no count exceeds the truth |
| counts and expressions, `expr.py` | none | `evaluate`, `evaluate_contexts`, saturating sums | lower bounds that are subtracted, sums that land on 2^64 - 1 | a region's count is the truth, or a lower bound that says so |
| run command, `cmd_run.py` with `evidence.py`, `cmd_check.py` | the run directory `runs/<run_id>`, profiles, evidence, reports; the child process and signal handlers | check, capture, `reserve`, build, `execute`, `finish`, `final_status` | invocations with one run ID, processes that outlive the command, edits while it runs, signals and kills | runs do not mix; evidence misses nobody who had begun to write; reports are of the source that was compiled; the exit status tells what failed |
| policy, `cmd_check.py`, `model/report.py` | none | metrics, thresholds, scopes, entities, diff, ratchet, exclusion caps, integrity, eligibility, `exit_status` | a fact is counted once per metric and again per scope, source and entity; empty denominators; evidence that may be shown but not believed | no status 0 that the raw counters, the inputs or the sources deny |
| baseline and ratchet, `cmd_baseline.py`, `evidence.py`, `formats/baseline.py` | one baseline file, shared | read, ask Git, compare, replace | updates and checks overlap; other hands edit, remove and restore the file; HEAD moves; Git does not answer | a baseline comes only from reliable evidence; a pass was compared with such a one, of its own history |
| program maps and identities, `formats/map.py`, `model/identity.py` | none | `validate_map`, orders, point identities | some sixty rules over eight tables that refer to each other by index | only a consistent map gives counters a meaning |
| raw profiles, `formats/rawprofile.py` | none | `encode`, `decode`, `peek_header` | lengths that announce each other; torn files | what was written is read back; anything less is refused |
| document readers, `model/indexed.py`, `model/report.py`, `formats/indexed.py`, `formats/report.py` | none | `read_indexed`, `read_report`, `rebuild_report` | each fact stands in a document several times | a document that contradicts itself is not read; a report keeps the evidence it was made of |
| configuration, `config.py`, `config_resolve.py` | none | precedence, relations, `check_resolved` | option, file and default of each key, tables that exclude each other | what a report says it was configured for is what was asked |
| schemas, `_generated/validators/` | none | closed record checks of each document | generated; some ten thousand lines | the readers' rules may assume the shape |
| report and export sets, `cmd_report.py`, `exports.py`, `formats/export_manifest.py` | three published artifacts | render, native export, primary export, manifest, verification | a failure between the commits; a count without an exact value | a manifest exists only beside what it describes; an export says what the report says |
| renderers, `formats/lcov.py`, `formats/cobertura.py`, `formats/html.py`, `formats/terminal.py` | none | records of each format, readers of two of them | names and spans a format cannot hold | no inexact count is written as an exact one |
| clean, `cmd_clean.py` | the tree under the output directory | scan, remove | reports still writing between the passes | only what sv0cov owns is removed |
| changed regions, `gitdiff.py` | the captured digests and diff | `snapshot`, `select`, `stale_paths` | the working tree may change at any time | changed regions refer to the captured source |
| command line, diagnostics, doctor, ignore rules, source lines, canonical encoding, VM bindings | none | pure functions, inspection of the host | little: no concurrency, no persistence | – |
| release, fuzz and benchmark tools | – | development only | – | – |

How they interact:

```
   test command ── starts ──> images (native runtime) ── temporaries, profiles ──┐
        ^                                                                        v
   cmd_run ── reserve ──> runs/<run_id>/                       runs/<run_id>/profiles/
        └─ after the command: list ─> merge ─> publish_file(evidence)
                                      ─> report_of(sources) ─> publish_bundle(reports)
                                      ─> final_status
```

```
   map, raw profiles ── merge ──> indexed profile ── report ──> native report, LCOV, Cobertura
                                        │                            │
        sv0.toml, options, Git, baseline └──────── check, baseline ──┘ (check alone)
```

The components share nothing but the file system: the images publish profiles
with the runtime's own no-replace protocol, the tool publishes everything else
with `publish.py`, and `cmd_run` decides what to believe from a directory
listing. Each document is read back by the rules of its reader before it is
published and again by the command that takes it. The hazards these interactions expose are listed in `PROJECT.json`,
each at its line.

## 2. The modules

| module | of | rests on |
| --- | --- | --- |
| `NativeRuntime`, `MCNativeRuntime`, `NativeRuntime_proofs` | `runtime/c/sv0cov_rt.c` in one process image | – |
| `AtomicDestination` | what `publish.py` promises of one name (abstract) | – |
| `Publish`, `Publish_proofs` | `publish.py`, system call by system call | implements `AtomicDestination` |
| `CountExpr` | `expr.py` and the sums of `model/semantic.py` | – |
| `MergedEvidence` | what `docs/merge.md` promises of a merge (abstract, one step) | – |
| `Merge`, `MCMerge`, `Merge_proofs` | `model/merge.py` and what it calls, one input a step | extends `CountExpr`, implements `MergedEvidence` |
| `RunLifecycle`, `MCRunLifecycle`, `RunLifecycle_proofs` | `cmd_run.py` and what decides its steps | abstracts `Publish` and `NativeRuntime` |
| `OutputTree`, `MCOutputTree`, `OutputTree_proofs` | `cmd_report.py` with `exports.py`, and `cmd_clean.py`, in one output directory | abstracts `Publish` |
| `Baseline`, `MCBaseline`, `Baseline_proofs` | the baseline file as `cmd_baseline.py` and `evidence.py` share it with Git and other hands | abstracts `Publish`, `Policy` |
| `RuntimeStart` | the environment and the registered modules that the runtime accepts | checked with `NativeRuntime`, proved about in `NativeRuntime_proofs` |
| `RawProfile`, `RawProfile_proofs` | `formats/rawprofile.py` | used by `NativeRuntime` and `Indexed` |
| `Schemas` | the records of the documents (`_generated/validators`) | `CountExpr` |
| `ProgramMap` | `formats/map.py`, `model/identity.py` | `Schemas` |
| `Semantic` | `model/semantic.py`: what maps and profiles add up to | `ProgramMap` |
| `Indexed` | `model/merge.py`, `model/indexed.py`, `formats/indexed.py` as functions: the document and its reader | `Semantic`, `RawProfile` |
| `Config` | `config.py`, `config_resolve.py` | `Schemas` |
| `Policy` | first half of `model/report.py`: metrics, assertions, verdict | `Indexed` |
| `NativeReport` | second half of `model/report.py`, `formats/report.py`: making, remaking and reading a report | `Policy`, `Config` |
| `Exports` | `formats/lcov.py`, `formats/cobertura.py`, `exports.py`, `formats/export_manifest.py` | `NativeReport` |
| `Pipeline`, `MCPipeline`, `Pipeline_proofs` | `cmd_merge.py`, `cmd_report.py`, `cmd_check.py` over these documents while sources change | composes the nine above |

In the detailed modules some definitions come with a variant named
`..._wrong` (or `_unseen`, `_again`, `_raw`) just before them. A variant is a
mistake that could have been made at that place in the code. No specification
uses it; `PROJECT.json` lists, for every checked property, a variant with which
TLC finds that property violated, so that every property is known to depend on
the code it is about.

### NativeRuntime

One process image with several threads. The variables are the fields of the
static `rt` structure under their own names, the locals of `__sv0cov_hit`
(`pc`, `at`, `old`) and of `rt_flush` (`size` for pass 1, `out` for pass 2),
the temporary and the final name (`tmp`, `dst`), the end of the process
(`status`), a forked copy (`child`), and four history variables: `hits` (what
was really executed), `base` (the counters at the switch to FLUSHING), `joined`
(nobody was inside a hit then) and `missed` (a hit was turned away before the
flush looked at `late`).

A step is one access to shared memory or one file-system call. `Hit`,
`HitLoad`, `HitIncrement`, `HitRetry` and `HitSaturated` are the loop at
rt.c:835-860, `FlushEntry` to `FlushUnlink` are rt_flush and
rt_publish_noreplace in their order, `ForkPrepare` and `ForkCopy` are the two
handlers with the copy between them. `Kill` may come anywhere; `OtherPublishes`
is another image that takes the final name.

Assumed: a relaxed atomic access is a single sequentially consistent step (each
property is about single counters, whose modification order is total, or about
flags the code stores with release order); a spuriously failing weak exchange
is a stuttering step; `unlink` of a temporary succeeds inside rt_flush (its
result is ignored there); no fork happens before `__sv0cov_start`, which runs
before user code.

### AtomicDestination and Publish

`AtomicDestination` has one variable for the name and two steps: an artifact
appears on an absent name, or a replacement takes the place of a regular file.
`Publish` has any number of processes, each in one of the three operations,
with a program counter per call: open the parent, look, create the temporary,
write a member, read it back, commit by rename, or where the file system lacks
the primitive by link and unlink, sync the directory, or clean up. Every call
may fail, a write may succeed and keep other bytes (`temp` holds the members
really there), `Interrupt` is a KeyboardInterrupt between any two steps, and
`Crash` ends a process anywhere. The refinement shows an artifact to the
abstract name only when it is whole and valid, so a torn destination would be
no step of `AtomicDestination`.

### CountExpr, MergedEvidence and Merge

`CountExpr` has the pure arithmetic: counts that may be lower bounds, saturating
sums and the evaluation of a region's expression. `Merge` runs the loops of
`merge()` over the inputs of one command. Each loop visits its set in any order,
one input per step: `ReadMap`, `MapsAgree` (the conflicts), `Decode`, `Bind`
(collision, map, counters, impossible regions), `Index` (the verdict), `Count`,
`Combine`, `Publish`. An input is a record: its name, what decoding says of it
alone, and its contents. `MergedEvidence` computes the outcome in a single step
from the set of inputs with its own definitions, so agreement is a statement
about order, copies, collisions and saturation, not about one formula written
twice.

### RunLifecycle

Several invocations are given one run ID and so meet in one run directory. Each
goes through the steps of `cmd_run` in order (`pc`): the checks, the capture of
the diff, `reserve`, the build, the start of the command, the installation of
the signal handlers, the wait, then `finish()`: listing, evidence, report, last
look, publication, and `final_status`. In the environment, commands launch
instrumented images and end without waiting for them, an image writes, links,
publishes or gives up, an editor changes the source and may change it back, and
signals interrupt or kill an invocation. `Death` lets a publication that was
under way have taken effect or not, which is what `Publish` says of a process
that dies.

A publication is one step here because `Publish` implements `AtomicDestination`;
an image has the states `NativeRuntime` can leave a directory in. The statuses
are those of cli.py, with 2, 3 and 7 told apart by nothing and called
"refused".

### OutputTree

A small file system: each node is a file or directory that some report may make,
and has a place (`dir`, `name`) while it is linked. Whoever opened a directory
keeps the node, so a report may publish into a directory that clean has just
removed, which fails, and clean may open another directory under a name it
examined. A report exports LCOV in one of three layouts: `single` (three commits:
native report, primary, manifest), `bundle` (one directory with all three) and
`stdout` (the primary goes to stdout, then a support directory with the rest).
`Check`, `Emit`, `OpenParent`, `Create`, `Member`, `Listing`, `Commit` and
`Cleanup` are the calls between which another process can come; each may fail.
Making and opening the managed directories is one step, and so are the call that
writes a file and the one that reads it back. `Look`, `Scan`, `Enter`,
`RemoveFile` and `RemoveDir` are the two passes of clean, one directory or entry
a step and in any order. `Drop` saves a user's file anywhere outside of
temporaries. A process that is killed is one that takes no further step.

### Baseline

Any number of updates (`sv0cov baseline`) and checks (`sv0cov check` with a
ratchet) share one file. `Start`, `ReadBaseline`, `AskHead` and `AskAncestor`
are load_report with ratchet_input, one read or one question to Git a step;
`Check` ends a check, `Refuse`, `AskHeadAgain` and `Replace` an update, whose
rename is one step because `Publish` implements `AtomicDestination`. Between any
two of them `MoveHead` is a commit, checkout or reset, `EditFile` damages,
removes or restores the file, and a call may fail. An indexed profile is reduced
to what decides about a baseline: whether it stops, is complete, of current
sources, saturated, passes the other assertions, the `empty` policy, and one metric
with its covered units, its total, the units excluded from it and the exclusion
records. `RatchetLimit` and `RatioPasses` compare ratios crosswise in basis points,
as the code does; a metric without units is not compared and follows `empty`
(model/report.py:539-542). A ratchet of several metrics (the same comparison once
for each) is in `Policy`, not here. `kept` has every content that a command
wrote, so that a restored file is one of them; `unshown` has the updates that
replaced what they had not read.

### RuntimeStart and RawProfile

`RuntimeStart` has two predicates and a function: the entries of the environment
that the runtime takes (`TransportOK`), the modules and fragments it takes
(`ValidRegistration`), and the counter that a hit names (`Named`).
`NativeRuntime` starts from an accepted one. A raw profile is the record of its
layout's fields with its byte length, so a torn file is one that is shorter than
its fields say; the checksum is right or wrong. `PublishedWellFormed` decodes
what the runtime wrote with `RawProfile`'s reader, so the writer in C and the
reader in Python are compared.

### The document modules and Pipeline

A document is a record of `Schemas`. A text, digest or identity is a number in
byte order; a point ID is what it is the digest of (source, entity, kind, span,
ordinal, discriminator); an array that others refer to by position is a
sequence, one that is ordered by its own keys a set. Members that a rule fixes,
columns and the digests of whole documents are left out.

`BuildIndexed` is merge and build_indexed, `ValidIndexed` read_indexed,
`Resolve` the configuration, `Produce` _produce (from evidence, a configuration
and the circumstances: sources now, export, capture, baseline), `Rebuild`
rebuild_report, `ValidReport` read_report, `Render` and `VerifyExport` those of
exports.py and export_manifest.py. Each rule of a reader is a conjunct, named
after the Python function it stands in, and a refusal is the diagnostic's code.

`Pipeline` has the documents on disk and the commands: `Merge`, `Report` (with
none, one or both standard exports), `Check` (of the indexed profile or of a
report), while `Edit` changes sources and `Alter` changes one fact of the stored
report that other facts of it determine (a point is taken out when another record
rests on it: `Referred`). Its properties compare the last document with the raw inputs of the
first command (`Raw...`), which are computed from maps and profiles alone: pairs
of files are added up without saturation and without tables, a unit of a metric is
named by its place in the program, and a line ran if every region on it ran. The
constants are assumed (PipelineAssumption) to be what the code can meet: parsed maps
and lists of inputs are finite, equal SHA-256 digests are of equal files, a threshold
is in basis points in whichever layer it is set, and `Null` is no number.

## 3. What the runs check

| run | configuration | distinct states | question |
| --- | --- | --- | --- |
| native_runtime | `NativeRuntime.cfg` | 478,202 | what is counted, published and told, whatever threads, forks, failures and kills do; does a flush end |
| publish | `Publish.cfg` | 196,685 | does the protocol implement the atomic destination, tell the truth, clean up and end |
| merge | `Merge.cfg` | 168,696 | is the evidence a function of the set of inputs, and are its counts sound |
| run_lifecycle | `RunLifecycle.cfg` | 661,538 | do runs stay apart, is evidence complete, are reports current, is the status true |
| run_lifecycle_ends | `RunLifecycleEnds.cfg` | 114,886 | does sv0cov end once its command has |
| run_lifecycle_failure | `RunLifecycleTestFailureKept.cfg` | violation | does a failed command always end in 4 (or 1), as the document says |
| run_lifecycle_signal | `RunLifecycleSignalsPassedOn.cfg` | violation | is every signal passed on while the command runs, as the docstring says |
| output_tree | `OutputTree.cfg` | 689,377 | what a manifest commits and what clean removes, with two reports, a clean and a user in one tree |
| baseline | `Baseline.cfg` | 5,388,580 | what is a baseline made from, and what did a passing check compare with |
| baseline_lost_update | `BaselineLostUpdate.cfg` | violation | does an update replace the baseline that it read and printed |
| pipeline | `Pipeline.cfg` | 15,947 | do the documents agree with each other and with the raw inputs, whatever changes between the commands |
| pipeline_same_name | `PipelineSameName.cfg` | violation | does a merge with leave for rejected inputs list them whatever their names |

The properties, besides one type invariant each:

* `CountersExact`: a counter is the saturated number of hits executed on it;
  an overflow bit only stands on a counter at the maximum.
* `PublishedBetween`: a published profile has at least the counts at the start
  of the flush and at most the counts now, and no hit was turned away before the
  flush looked for one: such a hit is in no counter, so the profile must be given
  up. `JoinedIsExact`: if no hit was in
  flight at the switch, it has exactly the hits executed and none was bad.
* `PublishedWellFormed`: the reader of `formats/rawprofile.py` accepts what the
  flush published and reads from it the counts of pass 2: sizes and flags were
  announced in pass 1, from counters that have moved since.
* `RequiredPublishes`: a required process with its own status has published.
  `NoLitter`: only a process killed in its flush leaves a temporary.
* `ForkHandled`: an image that forked before the flush looked never publishes;
  its child never counts, and in required mode passes no hit while it is armed.
  `FlushEnds`: a flush ends.
* `ToldTheTruth`, `NoTemporary`, `Ends`, `Implements` (of `Publish`): an error
  means nothing was committed, temporaries are removed, operations end, and all
  of it implements `AtomicDestination`, whose readers never see part of an
  artifact.
* `CollisionsRejected`, `MeaningAgrees`, `RegionsSound`, `CompleteIsAll`,
  `Implements` (of `Merge`): an ID with two contents counts nowhere, maps in use
  do not contradict each other, a region's count is never above what the
  processes may really have executed and equal to it unless marked, complete
  evidence is the sum of everything supplied, and the whole is one function of
  the inputs. `RegionsSound` quantifies over all real executions that would
  have left the saturated counters there are.
* `RunsKeptApart`, `EvidenceComplete`, `ReportsCurrent`, `StatusTold`,
  `Finishes` (of `RunLifecycle`): evidence and reports come from
  one invocation and its own command; every image that had begun to write when
  the command ended is in the evidence, unless its flush gave up; published
  reports show the compiled source and with a diff policy the captured one;
  status 0 implies all of it; a failing command decides the status unless policy
  was preferred or sv0cov itself broke; and sv0cov ends once its command has.
* `ManifestCommits`: where a manifest stands under its final name, every file it
  names stands beside it and is of the same report, and for stdout the primary
  was written whole. `ReportTold`: status 0 means that the set is there, any
  other that no manifest was published. Both are about sets no clean has taken a
  part of: clean takes the temporary of a report at work for a leftover, and a
  bundle is then committed without what it removed (publish.py:393; a hazard in
  `PROJECT.json` that no property covers, since nothing in the code prevents it).
* `UserFilesKept`: no clean removes a file sv0cov did not make.
  `ExaminedOnly`: a clean that is alone removes only nodes it examined, although
  removal goes by name. With a second clean this fails: a name the second one
  removed and a report published again is removed by the first (docs/clean.md:36
  says that what was not examined is never deleted).
* `OnlyReliable`: whatever hands it went through, a baseline that decodes was
  made from evidence a policy could pass on. `PassComparedSoundly`: a check that
  passes compared with a whole baseline of the history Git showed it, made from
  reliable evidence; its share of covered units is below that evidence's by no more
  than the tolerance, unless its metric has no units and `empty` is "pass", and
  exclusions did not grow.
  `UpdateIsFixpoint`: evidence that passes alone passes against the baseline made
  from it, whoever else updated meanwhile, unless its metric has no units and
  `empty` is "fail".
* `TypeOK` of `Pipeline` says that what merge and report make, their own readers
  accept or refuse with a diagnostic. `RebuildAgrees`: a native report keeps all
  its evidence: evaluated again under any configuration it gives what the indexed
  profile gives. `AlteredIsRefused`: a report in which one such fact was changed is not
  read. `PassIsEarned`: a check exits 0 only when every input was readable and
  counted, the run selection held, the command did not fail, every source is as it
  was compiled (`PassIsBacked`), and the raw counters meet each project threshold.
  `ExportsTrue`: the standard exports of complete evidence have every user
  function and every outcome with the count of the raw inputs; an inexact one only
  as a hit, where that was asked for, beside a report that is not policy evidence;
  and a rendered export fails only for what no export can hold.

Definitions over inputs of `MCNativeRuntime` and `MCPipeline` are checked by
ASSUME in the same runs: registrations in which every counter has an owner,
environments that are taken and refused, maps that are valid and not, profiles
that are read back, torn at every length, and every finding of a classification.

## 4. Bounds

* NativeRuntime: a main thread and one worker, two counters that saturate at 2
  and two hits per thread. Two threads are the smallest race on a counter, four
  hits drive one past its maximum (2 of 2, then two saturated ones), two
  counters let the passes of the flush disagree about the number of pairs while
  the saturation agrees and the reverse. A hit may be unregistered. The tier of
  128 bytes admits one pair or two without a bitmap and refuses the largest
  profile, so both sides of the limit occur. At most one fork: `child` is one
  record, and a second fork changes no field the first left. Registrations of up
  to three modules and environments of up to four entries, checked by ASSUME.
* Publish: two processes, bundles of two members: two is the smallest race on a
  name and the smallest bundle that can be half written. Each process calls any
  operation, with any validator verdict, with or without the rename primitive,
  on a name that is absent, a file, or foreign.
* Merge: up to three of thirteen profiles with one of five sets of maps, counters
  that saturate at 3. The profiles include a copy, a torn one, a collision, sums
  that land on and pass the maximum, another context and run, an impossible
  count, one that does not fit its map, and profiles of each map; the map sets
  include two names of one map, a shared point under other indices, a
  contradiction, a refused map, two versions of one source, and a map that
  contradicts itself. Three profiles are the fewest that let a collision and an
  innocent profile be walked in different orders.
* RunLifecycle: two invocations, two images, two source versions and two edits,
  so that a source can be changed and changed back; three option records, one
  plain, one that allows a mismatch, one with a changed-region policy that is
  given the option it ignores. Invocations and images are symmetric in the
  safety run. `Watched` stops commands, images and edits once every invocation
  has ended: no property looks at what happens after. The liveness run has no
  symmetry and one image and one edit. A third invocation would be turned away
  by `reserve` exactly as the second is.
* OutputTree: two reports, one clean, one user file and one export format. The
  reports have any two layouts (`Meeting`) but `single` with `stdout`, which share
  the managed directories and no name in them, as `bundle` with `stdout` does. Two
  reports are the smallest collision, and the fewest with which directories appear
  again under a name that was removed; a second format adds another set of names
  that behave alike. Every name of the model is one `cmd_clean.py` recognizes,
  except the user's.
* Baseline: two updates and a check, a history of two commits, and seven profiles:
  half covered, nothing covered, no units under either `empty` policy (once of other
  sources), saturated and mismatched, incomplete, stopping. With a tolerance of ten
  percent the uncovered one misses the limit of the good baseline, and meets that of
  its own, which is cut off at zero. The updates are symmetric. At most two troubles (a move of HEAD, a change by other hands, a
  failing call). Two updates are the smallest overlap; two troubles are enough for
  HEAD to move and come back, or a file to be removed and restored. `Ended` is
  where the system stops.
* Pipeline: eight maps of one or two sources and up to six counters, which
  saturate at 3; twenty-one merges, with profiles that are good, torn, flipped,
  of another map, run or context, copied, colliding, impossible and too large; ten
  configurations, each policy in at least one; two edits that change, restore and
  remove sources; three changed-region captures; five baselines. A source is
  altered or edited, not both, and only a report of unedited sources is altered: an
  altered report is refused before sources are looked at, and is checked under the
  configuration that it was made under. A check writes nothing,
  so what could follow it is what could have come instead, and a refused command
  the same: both end a behaviour. In the passing run inputs have distinct names;
  names that agree are the violation run's. The world is finite because each
  command runs once, and may stop anywhere (no deadlock check).

## 5. Fairness

* `WF_vars(Flush)` in NativeRuntime: exit() runs the handler as straight-line
  code on the exiting thread; it takes no lock and waits for nobody. No fairness
  is assumed of workers, children or the environment.
* `WF_vars(Step(p))` in Publish: an operation is straight-line code of one
  process, with no wait and no retry. Interrupts and crashes are not fair.
* `WF_vars(Step(i))` in RunLifecycle: sv0cov is straight-line code except for
  `child.wait()`, which is enabled only once the command has ended. Nothing is
  assumed of the command, which may run forever, or of its images; `Finishes`
  therefore starts from a command that has ended.

## 6. What is proved

TLAPS checks the theorems below for every value of the constants that the named
assumptions allow. The argument is the same each time: an inductive invariant
`IInv`, checked by TLC before it was proved, with one step per action.

* `NativeRuntime_proofs`, from ThreadAssumption, CounterAssumption,
  TargetAssumption and BoundAssumption: TypeCorrect, NoHitLost
  (`CountersExact`), NoTornProfile (`PublishedBetween`), ExactWhenJoined
  (`JoinedIsExact`), RequiredNeverSilent (`RequiredPublishes`),
  LitterOnlyWhenKilled (`NoLitter`), ForkIsHandled (`ForkHandled`), NoReplace (no
  step replaces a profile that exists, which no run checks) and
  DecodesToWhatWasRead (`PublishedWellFormed`). IInv is
  TypeOK, CountInv (the counters, and that a local of the loop never exceeds
  its counter: needed because the exchange adds to the local), PhaseInv (which
  states of `rt`, temporary and handlers go with which point of the flush),
  SnapshotInv (what passes 1 and 2 have read so far lies between `base` and the
  counters), MissInv (what is turned away before the flush looks leaves a mark, and
  a flush that sees one does not commit), WriteInv (what is published is what was
  written) and FormInv (what pass 2 has put into the file beside the pairs: while it has not overrun pass 1,
  as many pairs as nonzero counts, a bit for each count at the maximum, and no
  more bytes than the tier allows). PublishedWellFormed follows from FormInv: the
  file is the one that `encode` makes of the counts read, and the theorems of
  `RawProfile_proofs`, taken through an INSTANCE, say what `decode` does with
  it. The number of threads, counters and hits is arbitrary.
* `RawProfile_proofs`, of any profile and tier: WrittenIsAccepted and
  WrittenIsReadBack (what `encode` may write, `decode` accepts and returns),
  TornIsRefused (no proper part of it is accepted, wherever it was cut) and
  AcceptedMeansOneCount (in any accepted file a pair is the one nonzero count of
  its counter, and the bitmap marks exactly the counts at the maximum). The
  pairs are put in order by a cardinality argument: the i-th is the counter
  with i - 1 nonzero counters below it.
* `Publish_proofs`, from NameAssumption and BundleAssumption: TypeCorrect,
  NeverTorn (the name never holds part of an artifact), Truthful (`ToldTheTruth`), CleansUp
  (`NoTemporary`) and KeepsThePromise (`Implements`): the initial states map to
  initial states and every step to a step of `AtomicDestination` or a stutter.
  What makes the invariant inductive is that members up to the last one read
  back are in the temporary, so a commit takes the whole artifact.
* `OutputTree_proofs`, from NodeAssumption and LayoutAssumption: TypeCorrect,
  ManifestIsTheCommit (`ManifestCommits`), StatusOfAReport (`ReportTold`),
  OnlyExamined (`ExaminedOnly`) and NeverAUserFile (the action property
  `UserFilesKept`), for any number of reports and cleans in any layouts. IInv is
  TypeOK, which holds that a directory never has a name twice; NameInv (a node
  keeps a temporary name of its own until its one commit, and only the user's
  file has the user's name); PlaceInv (where managed directories may be);
  MineInv (the user's file); ReportInv (which artifacts of a report exist, and
  under which names, at each step of it) and CleanInv (of what a clean holds on
  its agenda, its plan and its stack, which node it saw under each path). The
  history `seen` keeps the path of each node a scan examined, because the second
  pass goes by path: what stands there then is the node examined only as long as
  no other clean freed the name.
* `Merge_proofs`, from InputAssumption, MapAssumption and MaxCountAssumption:
  TypeCorrect, NoCollisionCounts (`CollisionsRejected`), OneMeaning
  (`MeaningAgrees`), CompleteCountsAll (`CompleteIsAll`), RegionsAreSound
  (`RegionsSound`), RegionsTellTheTruth (the same of every truth, where the run
  enumerates those up to one above the maximum) and EvidenceIsAFunction
  (`Implements`: every step of the loops is a stutter of `MergedEvidence`, except
  the one that ends the command). IInv adds to the type AcceptInv (once the decode
  loop is over, `alone` is all the whole profiles, so the acceptance of one
  profile is independent of the others accepted so far), ReadInv (what each loop
  has made of the inputs it visited, as a set without their order) and SumInv
  (each count is the saturated sum of the profiles visited, inexact from the
  maximum on: that saturating step by step loses nothing that saturating the sum
  keeps). The assumptions that the sums need are finiteness of the inputs and
  MapAssumption, what `formats/map.py` asks of a map: distinct counters count
  distinct points, and an expression has integer coefficients on points of its
  map. Any number of maps, profiles, points and contexts. The first section of the
  module is a small theory of sums over finite sets, which the library lacks:
  the induction that the provers cannot do is replaced by taking a smallest set
  that a statement fails for (WFMin on the strict subsets of a finite set).
* `RunLifecycle_proofs`, from RunAssumption: TypeCorrect, KeptApart
  (`RunsKeptApart`), NothingPassedOver (`EvidenceComplete`), NeverStale
  (`ReportsCurrent`) and StatusIsTold (`StatusTold`).
  IInv is TypeOK; StageInv (what an invocation's step says of its command and
  directory); OwnInv (images that wrote belong to the one invocation that
  reserved the directory, because only the holder ever starts a command);
  PublishedInv and HeldInv (how far the holder of the evidence and the reports
  has come, and what it took); LookInv (what each look at the source
  established); ExitTold and FailureTold, the two halves of StatusTold. Any number
  of invocations, images, versions, edits and options.
* `Baseline_proofs`, from ActorAssumption to BoundAssumption: TypeCorrect,
  BaselinesAreReliable (`OnlyReliable`), PassesAreSound
  (`PassComparedSoundly`) and UpdatesAreFixpoints (`UpdateIsFixpoint`). The invariant says of each actor what it holds at each
  step: what it read was once written by an update, an answer about ancestry is
  about the very commit that it read, and what it is about to write was made from
  its own reliable evidence. The two comparisons rest on lemmas about the limit: MeetsLimit
  (a ratio that meets it is below the baseline's by no more than the tolerance),
  MeetsItsOwn (a ratio meets the limit of its own baseline) and LimitKept (so do equal
  numbers); EvidenceAssumption says that no more units are covered than there are.
  Any number of updates, checks, commits and profiles, any tolerance.
* `NativeRuntime_proofs` also holds CountersApart and CountersInside, of any
  registration that `RuntimeStart` accepts: no two modules name one counter, nor
  one module one counter twice, and every named counter lies in the arena. They
  rest on ModuleOK, FragmentsOnce and Overlap, rule by rule.
* `Pipeline_proofs`, from PipelineAssumption (section 2): ReportsAreEvidence
  (`RebuildAgrees`), PassesAreBacked (`PassIsBacked`), PassesAreEarned
  (`PassIsEarned`, which contains it) and AlterationsAreRefused
  (`AlteredIsRefused`), for any maps, profiles, configurations,
  captures, baselines and edits, and for the documents with their contents, not an
  abstraction of them. They rest on four invariants, each proved from those before.

  1. Inv: the indexed profile is evidence that a merge published (its codes are
     those of merges, and it leaves to reports what saturation makes ineligible),
     and a report that was not altered is what `Produce` made of it under some
     configuration and circumstances. `Recovered` then goes through `Produce` member
     by member: each that a report adds is one that `EvidenceOf` takes away, and the
     integrity evaluation's codes less those of report time are the evidence's own.
     So `EvidenceOf` gives something that `Produce` does not tell from the evidence
     (`Alike`), and the two reports are equal.
  2. PassInv: the indexed profile is what `BuildIndexed` makes of the command in
     `merged`, and the report *attests* it, altered or not: if its reader accepts
     it, then it is complete only if the evidence is (an altered `complete`
     contradicts the integrity evaluation), its execution failed if the evidence's
     did, and its sources have the paths and digests of the evidence's.
     CompleteMeans says what complete evidence was made of, input by input.
  3. EarnInv: that evidence was accepted by its reader, and a report that its reader
     accepts, altered or not, sums up to the metrics of the evidence. The reader
     compares a report's summary with its records, and the records are those of the
     evidence up to what no metric reads (AlteredCounts); so neither a changed
     summary nor a changed record gets a check to pass.

  4. RefusalInv: a report just published is one that its reader accepts. The rest is
     about one document and one change, so it needs no more of the history. For each
     fact that `Alter` changes there is a lemma that its other facts leave the reader
     one value for it: VerdictFollows (verdict, completeness, eligibility),
     SummariesFollow, InputsFollow (run identities, execution, contexts, saturation),
     RecordsFollow (lines, counts of regions, what an exclusion touches), PointsStay,
     and EvaluationsStay: the evaluations of every other kind follow from the
     configuration and the records, whatever the policy says (UnitsAlike,
     EvaluationsAlike, VerdictsDetermined), and the one of the evidence must be there
     and can be cleared only when `complete` says that it already was.
     NoneAccepted puts the lemmas together.

  What is left for the third is that the metrics of complete evidence are those of the raw inputs
  (MetricsRead), which is most of the module:

  * *Canonical orders.* `Before` is a strict total order of keys (BeforeOrder); so
    SortedBy lists a finite set without two records of one key once each (Ranked,
    TableOf), and the tables of a merge hold exactly the records of its maps, their
    references moved to where these are now (TablesAreUnion).
  * *Sums.* The folds of the community modules choose a function on subsets;
    SumTake, SumAdd and the others give it the laws of a sum by taking the smallest
    set for which one fails, since induction over an operator is out of reach.
  * *Counts.* A file that is accepted counts each point at most once (FileCounts),
    and the saturating sums over profiles stand for the true sum: the recorded
    value is never above it, is positive exactly when it is, and equals it unless
    marked inexact (CountsTally, ContextTally). A region's expression may subtract
    counts; SemanticReads says that a region whose recorded count is positive ran in
    some context by the true sums, saturated terms or not.
  * *Units.* For each metric the units of the tables are in one-to-one
    correspondence with those of the raw maps, and a unit counted as covered was
    hit: FunctionsRead (a function's last entry point), BranchesRead, ContractsRead
    (less what an exclusion of any map switches off), RegionsRead, LinesRead (a line
    is covered when every region on it is).

  So when a check passes, the covered share of the document, which the threshold
  evaluation compared in whole numbers, is at most the raw one (PassingMeets).

## 7. What is only model-checked

* Liveness: `FlushEnds`, `Ends`, `Finishes`. It needs ENABLED and fairness.
* In `Pipeline`: `ExportsTrue` and `TypeOK`, whose part that no command ends in an
  internal failure says that readers accept what is made. Both quantify over every
  member of the documents; the lemmas about tables, counts and units are what a
  proof of either would start from.
* That registered modules name every counter: a sum of lengths.

## 8. Where the code and its documents disagree

Four are runs that TLC ends with a violation, and findings in `PROJECT.json`.

* `TestFailureKept`: `collect` raises the `_Stop` of cmd_merge, which cmd_run
  does not catch; with a profiles directory that cannot be listed, a failed
  command ends in 8, where docs/run.md:135 says 4. `StatusTold` is the statement
  that does hold.
* `SignalsPassedOn`: a signal between Popen and the installation of the handlers
  (cmd_run.py:277-294) ends sv0cov and leaves the command running, against the
  docstring at cmd_run.py:269-270.
* `ReplacesWhatItShowed`: an update prints the change against the baseline it read
  at the start and replaces whatever is there by then (cmd_baseline.py:105-109),
  so of two overlapping updates one is lost unseen, against docs/ratchets.md:89-95.
* `EveryInputListed`: inputs without bytes have no digest, and the reader orders
  inputs by status, digest and name (model/indexed.py:111, 588): two files of one
  name in different directories that were not read for different reasons (one is a
  link, one is too large) end the merge with COV3002, where docs/merge.md:85-86, 129
  promises that both are listed. Two with equal records are listed once.

Seen while modelling, each by the behaviour of a module; no run is kept for them:

* rt_flush looks at the fork mark once, at its beginning (rt.c:587). A thread that
  forks later leaves the profile published, where the comment at rt.c:67-69 and
  docs/generated-c-protocol.md:208 say a fork withholds it. `ForkHandled` is the
  statement that holds.
* rt_fork_child disarms only a copy that is ACTIVE (rt.c:816-820). A child copied
  while the parent is FLUSHING passes its hits in required mode, against
  docs/generated-c-protocol.md:225.
* The except clause of publish.py also catches an interrupt after the commit, so
  "the destination untouched" (publish.py:333) does not always hold.
* Indexed profiles order regions by span and kind, then by the counter expression;
  native reports by span, kind and then point IDs. `_produce` does not sort again,
  so it refuses with COV5001 wherever the two orders differ (model/report.py:847-849);
  its message and docs/native-report.md:268-270 name only regions that tie.
* `disposition` is called outside of render's try (exports.py:65-75) and raises
  what `has_inexact` met: with leave for inexact counts, a report that LCOV cannot
  carry ends in an uncaught LcovError, for Cobertura alone as well. The manifest's
  verification asks `has_inexact` for Cobertura too, so a Cobertura export of such
  a report (a function without an executable line, a comma in a name) is rendered
  and then fails at its manifest, after the native report and the primary were
  committed in the layout of one file; docs/cobertura.md names only text that XML
  cannot carry and saturation. `ExportsTrue` says that these are the only failures.

And what a reader of the models should know:

* Two functions of one qualified name in one source have separate points and
  thresholds, but no standard export: the readers of both formats take names once.
* One exclusion written with different reasons in two maps is kept twice by the
  merge and refused by the reader of the indexed profile.
* A point that was never hit and that no other record of a native report rests on
  (`Referred`) can be taken out of the report unseen.
* `sv0cov baseline` takes evidence whose ratchet metric has no units, but with
  `empty` = "fail" no check of such evidence passes, not even against the baseline
  made from it (COV4102; model/report.py:539-542, docs/ratchets.md:77-78); with
  "pass" it passes against any baseline, however good.
* A native report cannot show that an input was dropped from its inventory
  together with everything it counted.
* rt.c's check that a module is registered once cannot fail: two copies of a module
  with fragments were refused by the check of fragments just before.
* Fragments with the same first source are ordered by digests; the model leaves
  their order open.

## 9. What is not modelled

* In the modelled parts: UTF-8, the digits of identities and the checksum in the
  runtime and in raw profiles; digests of whole documents and the canonical
  encoding; columns; the pattern or path that a single configuration value must
  be, and the arithmetic of raw-profile limits; the map's check against source
  text; the text of environments, logs and reports. SIGKILL of an invocation is
  modelled while it waits; elsewhere it does what an interruption does.
  `check_destination` changes no state and `publish_stdout` keeps no name; both
  are steps of `OutputTree`.
* In the output directory: explicit `--output` destinations (outside of clean's
  reach), the terminal, HTML and JSON formats alone (one commit of `Publish`),
  `runs/` and the indexed evidence, and what clean refuses to look at (symlinks,
  special files, mount points, depth), which is one refusal of the scan.
* The HTML and terminal reports: text for people that no program reads back; they
  take each number from the report. Spelling, rates and markup of LCOV and
  Cobertura.
* Resolving a base and parsing Git's output (`gitdiff.py`): text. The virtual
  machine's binding format (`formats/vmbinding.py`): no other module imports it.
* Command line, diagnostics, capabilities, doctor and probes, toolchain, ignore
  rules, source lines, canonical JSON, contexts and inventories: parsing, lookups
  or inspection of the host, with no interleaving and no persistence.
* Schemas of documents that no modelled operation exchanges (version,
  diagnostics, run manifest); vendored data, release, fuzz and benchmark tools.

## 10. Plan

Written in this order: the runtime, because everything else believes its
profiles; publication, because every artifact goes through it; merge, because it
decides what a count means; the run command, which composes the three; the output
directory, where reports and clean meet; the baseline, which commands share; then
the documents from the map to the exports, and the pipeline that composes them;
last the start of the runtime.

Left, in order of importance:

1. Proofs that the reader accepts what `Produce` and `BuildIndexed` make, rule by rule
   (`SummariesOK` and `IntegrityOK` first), and that exports hold the raw counts.
2. The start of a fork before `__sv0cov_start`; `--output` destinations.

## 11. Running the checks

In this directory: `tlc -workers 2 -config Publish.cfg Publish` checks a run
(`PROJECT.json` lists the module and configuration of each), `tlapm
Publish_proofs.tla` checks the proofs of a module. No run takes more than three
minutes; the proofs of `Pipeline_proofs` take about twenty, those of the other
modules a few each.
