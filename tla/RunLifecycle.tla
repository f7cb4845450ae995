---------------------------- MODULE RunLifecycle ----------------------------
(***************************************************************************)
(* sv0cov run (src/sv0cov/cmd_run.py, with the parts of cmd_merge.collect, *)
(* evidence.report_of, model/report.py, cmd_check.py and gitdiff.py that   *)
(* decide what it does next).  Several invocations are given one run ID,   *)
(* so they share one run directory; each builds the project, starts a test *)
(* command whose processes leave profiles, and turns these into evidence   *)
(* and reports, while somebody edits the source and signals arrive.        *)
(*                                                                         *)
(* A publication is one step: Publish shows that it takes effect at once   *)
(* or not at all.  A process image is what NativeRuntime says of one: it   *)
(* writes a temporary, commits it or removes it.  The build is the         *)
(* toolchain's: it compiles the source it finds and leaves one map of it.  *)
(***************************************************************************)
EXTENDS Naturals, FiniteSets

CONSTANTS
    Invocations,    \* runs of sv0cov that are given the same run ID
    Images,         \* bound: the instrumented processes their commands start
    Versions,       \* contents of the source; a missing file is one of them
    MaxEdits,       \* bound: how often the source changes
    Options,        \* the options and configuration both are given
    Nobody, Unknown

ASSUME RunAssumption ==
    /\ Nobody \notin Invocations /\ Unknown \notin Versions
    /\ MaxEdits \in Nat
    /\ Options \subseteq [diff : BOOLEAN,    \* a changed-region policy
                          allow : BOOLEAN,   \* --allow-source-mismatch
                          prefer : BOOLEAN,  \* --prefer-coverage-exit
                          files : BOOLEAN]   \* a report that is not terminal

VARIABLES
    opt,        \* the options
    source,     \* the source on disk
    edits,
    dir,        \* who made <output_dir>/runs/<run_id>
    indexed,    \* whose evidence is coverage.sv0covdata.json
    reports,    \* whose bundle is reports/
    by,         \* per image: the invocation whose command it belongs to
    image,      \* per image: what its flush has done
    pc,         \* per invocation: the next step
    command,    \* per invocation: its test command
    captured,   \* per invocation: the source gitdiff.snapshot saw
    built,      \* per invocation: the source the build compiled
    seen,       \* per invocation: the source report_of read
    taken,      \* per invocation: the images whose profiles it accepted
    failed,     \* per invocation: coverage_failed(report)
    exit,       \* per invocation: its exit status
    begun       \* history: images that wrote by the time the command ended

files == <<dir, indexed, reports>>
tests == <<by, image, command, begun>>
looks == <<captured, built, seen>>
vars  == <<opt, source, edits, files, tests, pc, looks, taken, failed, exit>>

\* The statuses of cli.py: "refused" is 2, 3 or 7, "signaled" is 128 plus a
\* signal number; an invocation that a signal ended returns none of them.
Statuses == {"ok", "policy", "refused", "test", "evidence", "report", "internal", "signaled"}
Deaths   == {"interrupted", "killed"}
Over     == {"passed", "failed", "signaled"}
Steps    == {"check", "capture", "reserve", "build", "start", "spawned", "wait", "list",
             "index", "report", "last", "publish", "done"}

Init ==
    /\ opt \in Options
    /\ source \in Versions /\ edits = 0
    /\ dir = Nobody /\ indexed = Nobody /\ reports = Nobody
    /\ by = [m \in Images |-> Nobody]
    /\ image = [m \in Images |-> "none"]
    /\ pc = [i \in Invocations |-> "check"]
    /\ command = [i \in Invocations |-> "none"]
    /\ captured = [i \in Invocations |-> Unknown]
    /\ built = [i \in Invocations |-> Unknown]
    /\ seen = [i \in Invocations |-> Unknown]
    /\ taken = [i \in Invocations |-> {}]
    /\ failed = [i \in Invocations |-> FALSE]
    /\ exit = [i \in Invocations |-> "none"]
    /\ begun = [i \in Invocations |-> {}]

Goto(i, step) == pc' = [pc EXCEPT ![i] = step]

\* cmd_run returns the status, or cli.main turns an exception into "internal".
Leave(i, status) == Goto(i, "done") /\ exit' = [exit EXCEPT ![i] = status]

-----------------------------------------------------------------------------
(* Decisions, each after the mistakes a property would reveal; definitions *)
(* ..._wrong are not part of the specification.                            *)

\* os.mkdir takes only a name that is free.
Unreserved_wrong == TRUE
Unreserved       == dir = Nobody

Final == {m \in Images : image[m] \in {"linked", "published"}}
\* A temporary in profiles/ makes the evidence incomplete.
Temps_wrong == {}
Temps       == {m \in Images : image[m] \in {"writing", "linked"}}

\* child.wait() waits for the command, not for what the command started.
Reapable_wrong(i) == command[i] \in Over /\ \A m \in Images : image[m] # "running"
Reapable(i)       == command[i] \in Over

\* build_report, change_record: with a diff policy captured, compiled and read
\* bytes are the same; without one they may differ only if that was allowed.
Refused_wrong(i) == source # built[i] /\ (opt.diff \/ ~opt.allow)
Refused(i) ==
    \/ source # built[i] /\ (opt.diff \/ ~opt.allow)
    \/ opt.diff /\ captured[i] # built[i]

\* coverage_failed: a source that does not match fails the integrity
\* evaluation, whatever the thresholds say.
Fails(i, b)       == b \/ source # built[i]

\* final_status: what a failing command makes of the stage sv0cov came to.
FinalStatus_raw(i, stage, cov) ==
    IF command[i] = "failed" THEN "exited" ELSE stage
FinalStatus_wrong(i, stage, cov) ==
    IF stage # "ok" THEN stage
    ELSE IF command[i] = "failed" THEN "test" ELSE command[i]
FinalStatus(i, stage, cov) ==
    CASE command[i] = "passed"  -> stage
      [] opt.prefer /\ cov      -> "policy"
      [] OTHER -> IF command[i] = "failed" THEN "test" ELSE "signaled"

\* Bound: once the last invocation has ended nobody is left to see what the
\* processes it left behind, or an editor, do.
Watched == \E i \in Invocations : pc[i] # "done"

\* The end of finish(): the stage, the policy verdict and the command together.
Finish(i, stage, cov) == Leave(i, FinalStatus(i, stage, cov))

-----------------------------------------------------------------------------
(* Before the command. *)

\* The name, the command, the formats, the driver, the run ID; then diff_base.
Check(i) ==
    /\ pc[i] = "check"
    /\ \/ Goto(i, "capture") /\ UNCHANGED exit
       \/ \E s \in {"refused", "internal"} : Leave(i, s)
    /\ UNCHANGED <<opt, source, edits, files, tests, looks, taken, failed>>

\* gitdiff.snapshot, before anything is created.
Capture(i) ==
    /\ pc[i] = "capture"
    /\ \/ /\ captured' = [captured EXCEPT ![i] = IF opt.diff THEN source ELSE @]
          /\ Goto(i, "reserve") /\ UNCHANGED exit
       \/ opt.diff /\ Leave(i, "refused") /\ UNCHANGED captured
    /\ UNCHANGED <<opt, source, edits, files, tests, built, seen, taken, failed>>

\* reserve: the mkdir decides; after it a subdirectory or the open may fail,
\* which nothing catches and which leaves the name reserved.
Reserve(i) ==
    /\ pc[i] = "reserve"
    /\ \/ /\ Unreserved /\ dir' = i
          /\ \/ Goto(i, "build") /\ UNCHANGED exit
             \/ Leave(i, "internal")
       \/ Leave(i, "evidence") /\ UNCHANGED dir
    /\ UNCHANGED <<opt, source, edits, indexed, reports, tests, looks, taken, failed>>

\* build: the driver compiles what it finds; a log that cannot be created is
\* caught by nobody.
Build(i) ==
    /\ pc[i] = "build"
    /\ \/ built' = [built EXCEPT ![i] = source] /\ Goto(i, "start") /\ UNCHANGED exit
       \/ \E s \in {"refused", "internal"} : Leave(i, s) /\ UNCHANGED built
    /\ UNCHANGED <<opt, source, edits, files, tests, captured, seen, taken, failed>>

\* find_command and Popen.
Start(i) ==
    /\ pc[i] = "start"
    /\ \/ /\ command' = [command EXCEPT ![i] = "running"]
          /\ Goto(i, "spawned") /\ UNCHANGED exit
       \/ Leave(i, "refused") /\ UNCHANGED command
    /\ UNCHANGED <<opt, source, edits, files, by, image, begun, looks, taken, failed>>

-----------------------------------------------------------------------------
(* While it runs. *)

\* The handlers that forward are set only now.
SetHandlers(i) ==
    /\ pc[i] = "spawned"
    /\ Goto(i, "wait")
    /\ UNCHANGED <<opt, source, edits, files, tests, looks, taken, failed, exit>>

\* child.wait() returns and the handlers are put back.
Reap(i) ==
    /\ pc[i] = "wait" /\ Reapable(i)
    /\ Goto(i, "list")
    /\ UNCHANGED <<opt, source, edits, files, tests, looks, taken, failed, exit>>

\* The command ends by itself, or because of a signal that forward() sent on.
\* It waits for none of the images.
CommandEnds(i) ==
    /\ Watched /\ command[i] = "running"
    /\ \E s \in Over : command' = [command EXCEPT ![i] = s]
    /\ begun' = [begun EXCEPT ![i] = {m \in Images : by[m] = i /\
                                        image[m] \in {"writing", "linked", "published"}}]
    /\ UNCHANGED <<opt, source, edits, files, by, image, pc, looks, taken, failed, exit>>

\* The command, or a process it left behind, starts the instrumented program.
Launch(m) ==
    /\ Watched /\ image[m] = "none"
    /\ \E i \in Invocations :
          /\ command[i] = "running" \/ \E n \in Images : by[n] = i /\ image[n] = "running"
          /\ by' = [by EXCEPT ![m] = i]
    /\ image' = [image EXCEPT ![m] = "running"]
    /\ UNCHANGED <<opt, source, edits, files, command, begun, pc, looks, taken, failed, exit>>

\* rt_flush: mkstemp; then the profile is renamed or linked, or removed.  A
\* process that dies in between stays where it is; one that dies or gives up
\* before leaves nothing.
Flush(m) ==
    /\ Watched
    /\ \/ /\ image[m] = "running"
          /\ image' = [image EXCEPT ![m] = "writing"]
       \/ /\ image[m] = "writing"
          /\ \E s \in {"linked", "published"} : image' = [image EXCEPT ![m] = s]
       \/ /\ image[m] = "linked"
          /\ image' = [image EXCEPT ![m] = "published"]
       \/ /\ image[m] \in {"running", "writing"}
          /\ image' = [image EXCEPT ![m] = "gone"]
    /\ UNCHANGED <<opt, source, edits, files, by, command, begun, pc, looks, taken, failed, exit>>

Edit ==
    /\ Watched
    /\ edits < MaxEdits /\ edits' = edits + 1
    /\ source' \in Versions \ {source}
    /\ UNCHANGED <<opt, files, tests, pc, looks, taken, failed, exit>>

-----------------------------------------------------------------------------
(* finish(): collection, merge, publication, check. *)

\* collect lists profiles/ and merge classifies what it found.  A directory
\* that cannot be listed or a name that cannot be used raises the _Stop of
\* cmd_merge, which nothing here catches.
List(i) ==
    /\ pc[i] = "list"
    /\ \/ /\ Temps = {} /\ Final # {}
          /\ taken' = [taken EXCEPT ![i] = Final]
          /\ Goto(i, "index") /\ UNCHANGED exit
       \/ Finish(i, "evidence", FALSE) /\ UNCHANGED taken
       \/ Leave(i, "internal") /\ UNCHANGED taken
    /\ UNCHANGED <<opt, source, edits, files, tests, looks, failed>>

\* publish_file of the evidence.
Index(i) ==
    /\ pc[i] = "index"
    /\ \/ indexed = Nobody /\ indexed' = i /\ Goto(i, "report") /\ UNCHANGED exit
       \/ Finish(i, "evidence", FALSE) /\ UNCHANGED indexed
    /\ UNCHANGED <<opt, source, edits, dir, reports, tests, looks, taken, failed>>

\* report_of reads the sources, then builds the report and reads it back.
\* Beside a stale source, a ratchet baseline or a source outside the project
\* stop it with 5, a binary diff or regions without an order with 2 or 7, and a
\* report its own reader rejects is internal.
Report(i) ==
    /\ pc[i] = "report"
    /\ seen' = [seen EXCEPT ![i] = source]
    /\ \/ \E b \in BOOLEAN :
             /\ ~Refused(i)
             /\ failed' = [failed EXCEPT ![i] = Fails(i, b)]
             /\ Goto(i, "last") /\ UNCHANGED exit
       \/ /\ \E s \in {"evidence", "refused"} : Finish(i, s, FALSE)
          /\ UNCHANGED failed
       \/ Leave(i, "internal") /\ UNCHANGED failed
    /\ UNCHANGED <<opt, source, edits, files, tests, captured, built, taken>>

\* stale_paths: with a diff policy the last look at the sources.
LastLook(i) ==
    /\ pc[i] = "last"
    /\ IF opt.diff /\ source # captured[i]
       THEN Finish(i, "evidence", FALSE)
       ELSE Goto(i, "publish") /\ UNCHANGED exit
    /\ UNCHANGED <<opt, source, edits, files, tests, looks, taken, failed>>

\* exports.bundle and publish_bundle, when there is a file to publish; then
\* exit_status, which a failing command makes a policy failure.
Publish(i) ==
    /\ pc[i] = "publish"
    /\ \/ /\ opt.files => reports = Nobody
          /\ reports' = IF opt.files THEN i ELSE reports
          /\ Finish(i, IF command[i] = "passed" /\ ~failed[i] THEN "ok" ELSE "policy", failed[i])
       \/ opt.files /\ Finish(i, "report", failed[i]) /\ UNCHANGED reports
    /\ UNCHANGED <<opt, source, edits, dir, indexed, tests, looks, taken, failed>>

-----------------------------------------------------------------------------
(* Signals. *)

\* A termination signal meets its default action, or raises KeyboardInterrupt,
\* wherever the forwarding handlers are not set.
Interrupted(i) ==
    /\ pc[i] \notin {"wait", "done"}
    /\ Leave(i, "interrupted")

\* SIGKILL; anywhere else it does what an interruption does.
Killed(i) ==
    /\ pc[i] = "wait"
    /\ Leave(i, "killed")

\* A publication under way may have taken effect (Publish: the commit).
Death(i) ==
    /\ Interrupted(i) \/ Killed(i)
    /\ indexed' \in {indexed} \cup {j \in {i} : pc[i] = "index" /\ indexed = Nobody}
    /\ reports' \in {reports} \cup {j \in {i} : pc[i] = "publish" /\ opt.files /\ reports = Nobody}
    /\ dir' \in {dir} \cup {j \in {i} : pc[i] = "reserve" /\ Unreserved}
    /\ UNCHANGED <<opt, source, edits, tests, looks, taken, failed>>

\* What sv0cov itself does next: straight-line code.
Step(i) ==
    \/ Check(i) \/ Capture(i) \/ Reserve(i) \/ Build(i) \/ Start(i) \/ SetHandlers(i) \/ Reap(i)
    \/ List(i) \/ Index(i) \/ Report(i) \/ LastLook(i) \/ Publish(i)

Ended ==
    /\ \A i \in Invocations : pc[i] = "done"
    /\ UNCHANGED vars

Next ==
    \/ \E i \in Invocations : Step(i) \/ CommandEnds(i) \/ Death(i)
    \/ \E m \in Images : Launch(m) \/ Flush(m)
    \/ Edit \/ Ended

Spec     == Init /\ [][Next]_vars
FairSpec == Spec /\ \A i \in Invocations : WF_vars(Step(i))

-----------------------------------------------------------------------------
(* Properties. *)

\* Every variable has its type.
TypeOK ==
    /\ opt \in Options /\ source \in Versions /\ edits \in 0 .. MaxEdits
    /\ dir \in Invocations \cup {Nobody}
    /\ indexed \in Invocations \cup {Nobody} /\ reports \in Invocations \cup {Nobody}
    /\ by \in [Images -> Invocations \cup {Nobody}]
    /\ image \in [Images -> {"none", "running", "writing", "linked", "published", "gone"}]
    /\ pc \in [Invocations -> Steps]
    /\ command \in [Invocations -> Over \cup {"none", "running"}]
    /\ captured \in [Invocations -> Versions \cup {Unknown}]
    /\ built \in [Invocations -> Versions \cup {Unknown}]
    /\ seen \in [Invocations -> Versions \cup {Unknown}]
    /\ taken \in [Invocations -> SUBSET Images]
    /\ failed \in [Invocations -> BOOLEAN]
    /\ exit \in [Invocations -> Statuses \cup Deaths \cup {"none"}]
    /\ begun \in [Invocations -> SUBSET Images]

\* Two invocations with one run ID never mix: the profiles in the evidence come
\* from the command of the invocation that published it, and so do the reports
\* beside it.
RunsKeptApart ==
    /\ \A i \in Invocations : indexed = i => \A m \in taken[i] : by[m] = i
    /\ reports # Nobody => indexed = reports

\* Published evidence is of something, and holds every image that had begun to
\* write its profile when the command ended, unless its flush then gave up.
EvidenceComplete ==
    \A i \in Invocations : indexed = i =>
        /\ taken[i] # {}
        /\ \A m \in begun[i] : image[m] = "gone" \/ m \in taken[i]

\* Reports show the source that was compiled, and changed regions the source
\* that was captured too, however often it was edited in between and back.
ReportsCurrent ==
    \A i \in Invocations : reports = i =>
        /\ opt.diff => captured[i] = built[i]
        /\ opt.diff \/ ~opt.allow => seen[i] = built[i]

\* Status 0 says it all: the command passed, the evidence is there, nothing in
\* the policy failed, the source read is the source compiled even where a
\* mismatch is allowed, and the reports were published.
ExitTold ==
    \A i \in Invocations : exit[i] = "ok" =>
        /\ command[i] = "passed" /\ indexed = i /\ ~failed[i]
        /\ seen[i] = built[i] /\ (opt.diff => captured[i] = built[i])
        /\ opt.files => reports = i

\* A failing command is never told as anything else: where it does not decide
\* the status, the coverage policy failed and was preferred, or sv0cov broke.
FailureTold ==
    \A i \in Invocations : command[i] \in {"failed", "signaled"} /\ exit[i] \in Statuses =>
        \/ exit[i] = "test" /\ command[i] = "failed"
        \/ exit[i] = "signaled" /\ command[i] = "signaled"
        \/ exit[i] = "policy" /\ opt.prefer /\ failed[i]
        \/ exit[i] = "internal"

\* The one status tells what happened: 0 all that must hold, a failing command its
\* own failure.
StatusTold == ExitTold /\ FailureTold

\* Once its command has ended sv0cov ends too, even while images the command
\* left behind go on.
Finishes == \A i \in Invocations : command[i] \in Over ~> pc[i] = "done"

-----------------------------------------------------------------------------
\* What docs/run.md says and the code does not keep: with a command that exited
\* nonzero "anything" ends with 4 (or 1 where that is preferred).
TestFailureKept ==
    \A i \in Invocations : command[i] = "failed" /\ exit[i] \in Statuses =>
        exit[i] \in {"test", "policy"}

\* What cmd_run.execute says and the code does not keep: while the command runs
\* a signal sent to sv0cov is passed on, so ending sv0cov ends the command.
SignalsPassedOn ==
    \A i \in Invocations : exit[i] = "interrupted" => command[i] # "running"
=============================================================================
