------------------------- MODULE RunLifecycle_proofs -------------------------
(* Proofs about RunLifecycle, for any invocations, images, versions, edits   *)
(* and options.                                                              *)
EXTENDS RunLifecycle, TLAPS

-----------------------------------------------------------------------------
(* The inductive invariant. *)

Before    == {"check", "capture", "reserve", "build", "start"}
Inside    == {"build", "start", "spawned", "wait", "list", "index", "report", "last", "publish"}
Finishing == {"list", "index", "report", "last", "publish"}

\* The step an invocation has reached bounds what its command and its status
\* can be.
StageInv ==
    \A i \in Invocations :
        /\ exit[i] = "none" <=> pc[i] # "done"
        /\ pc[i] \in Before => command[i] = "none"
        /\ pc[i] \in Finishing => command[i] \in Over
        /\ pc[i] = "done" /\ command[i] = "running" => exit[i] \in Deaths

\* Whoever has come past the reservation made the directory, and so did whoever
\* left something in it; a profile that counts is committed and stays so.
OwnInv ==
    /\ \A i \in Invocations :
          /\ pc[i] \in Inside => dir = i
          /\ command[i] # "none" => dir = i
          /\ taken[i] # {} => dir = i
          /\ \A m \in taken[i] : image[m] = "published"
    /\ \A m \in Images : /\ by[m] # Nobody => by[m] = dir
                         /\ image[m] # "none" => by[m] # Nobody

\* The two publications come in order and are made at their own step.
PublishedInv ==
    \A i \in Invocations :
        /\ pc[i] \in {"report", "last", "publish"} => indexed = i
        /\ indexed = i => pc[i] \in {"report", "last", "publish", "done"}
        /\ indexed = i => dir = i /\ command[i] \in Over
        /\ reports = i => pc[i] = "done" /\ indexed = i

\* Every image that had begun to write is accepted or gave up.
Held(i) == /\ taken[i] # {}
           /\ \A m \in begun[i] : image[m] = "gone" \/ m \in taken[i]
HeldInv ==
    \A i \in Invocations :
        /\ \A m \in begun[i] : image[m] \in {"writing", "linked", "published", "gone"}
        /\ pc[i] \in {"index", "report", "last", "publish"} => Held(i)
        /\ indexed = i => Held(i)

\* What report_of accepted it found current.
Looked(i) == /\ opt.diff => captured[i] = built[i]
             /\ opt.diff \/ ~opt.allow => seen[i] = built[i]
             /\ ~failed[i] => seen[i] = built[i]
LookInv ==
    \A i \in Invocations : pc[i] \in {"last", "publish"} \/ reports = i => Looked(i)

IInv == /\ TypeOK /\ StageInv /\ OwnInv /\ PublishedInv /\ HeldInv /\ LookInv
        /\ ExitTold /\ FailureTold

USE DEF vars, files, tests, looks, Goto, Leave

-----------------------------------------------------------------------------
(* Facts about the operators. *)

\* The options are what their names say.
LEMMA OptionTypes ==
  ASSUME TypeOK
  PROVE  opt.diff \in BOOLEAN /\ opt.allow \in BOOLEAN /\ opt.prefer \in BOOLEAN /\ opt.files \in BOOLEAN
  BY RunAssumption DEF TypeOK

\* The combined status is one of those cli.py knows, and 0 only if the command
\* passed and nothing else was left to tell.
LEMMA StatusTypes ==
  ASSUME NEW i \in Invocations, NEW stage \in Statuses, NEW cov \in BOOLEAN
  PROVE  /\ FinalStatus(i, stage, cov) \in Statuses
         /\ FinalStatus(i, stage, cov) = "ok" => command[i] = "passed" /\ stage = "ok"
  BY DEF FinalStatus, Statuses

\* The names of steps, statuses and ends, one by one.
LEMMA StepNames ==
  /\ "check" \in Steps /\ "capture" \in Steps /\ "reserve" \in Steps /\ "build" \in Steps
  /\ "start" \in Steps /\ "spawned" \in Steps /\ "wait" \in Steps /\ "list" \in Steps
  /\ "index" \in Steps /\ "report" \in Steps /\ "last" \in Steps /\ "publish" \in Steps
  /\ "done" \in Steps
  BY DEF Steps
\* The names of the exits of cmd_run are statuses, and those of a death deaths.
LEMMA StatusNames ==
  /\ "ok" \in Statuses /\ "policy" \in Statuses /\ "refused" \in Statuses /\ "report" \in Statuses
  /\ "evidence" \in Statuses /\ "internal" \in Statuses
  /\ "interrupted" \in Deaths /\ "killed" \in Deaths
  BY DEF Statuses, Deaths

\* What the combined status of a failing command can be.
LEMMA FailureStatus ==
  ASSUME NEW i \in Invocations, NEW stage, NEW cov \in BOOLEAN,
         command[i] \in {"failed", "signaled"}
  PROVE  LET s == FinalStatus(i, stage, cov)
         IN  \/ s = "test" /\ command[i] = "failed"
             \/ s = "signaled" /\ command[i] = "signaled"
             \/ s = "policy" /\ opt.prefer /\ cov
  BY DEF FinalStatus

-----------------------------------------------------------------------------
(* The initial states. *)

\* The invariant holds before the command starts.
LEMMA InitIInv == Init => IInv
  <1> SUFFICES ASSUME Init PROVE IInv
    OBVIOUS
  <1> USE RunAssumption DEF Init
  <1>1. TypeOK
    BY DEF TypeOK, Steps, Over
  <1>2. StageInv /\ OwnInv /\ PublishedInv
    BY DEF StageInv, OwnInv, PublishedInv, Before, Inside, Finishing
  <1>3. HeldInv /\ LookInv
    BY DEF HeldInv, LookInv
  <1>4. ExitTold /\ FailureTold
    BY DEF ExitTold, FailureTold, Statuses
  <1> QED
    BY <1>1, <1>2, <1>3, <1>4 DEF IInv

-----------------------------------------------------------------------------
(* One lemma per conjunct: it is preserved by every step. *)

ControlType == /\ pc \in [Invocations -> Steps]
               /\ exit \in [Invocations -> Statuses \cup Deaths \cup {"none"}]
LookType ==
    /\ captured \in [Invocations -> Versions \cup {Unknown}]
    /\ built \in [Invocations -> Versions \cup {Unknown}]
    /\ seen \in [Invocations -> Versions \cup {Unknown}]
    /\ taken \in [Invocations -> SUBSET Images]
    /\ failed \in [Invocations -> BOOLEAN]
TestType ==
    /\ by \in [Images -> Invocations \cup {Nobody}]
    /\ image \in [Images -> {"none", "running", "writing", "linked", "published", "gone"}]
    /\ command \in [Invocations -> Over \cup {"none", "running"}]
    /\ begun \in [Invocations -> SUBSET Images]
FileType ==
    /\ opt \in Options /\ source \in Versions /\ edits \in 0 .. MaxEdits
    /\ dir \in Invocations \cup {Nobody}
    /\ indexed \in Invocations \cup {Nobody} /\ reports \in Invocations \cup {Nobody}

\* TypeOK in parts, each small enough for one step of the prover.
LEMMA TypeParts == TypeOK <=> ControlType /\ LookType /\ TestType /\ FileType
  BY DEF TypeOK, ControlType, LookType, TestType, FileType

\* No step takes the control state out of its type.
LEMMA ControlTypeStep == ControlType /\ LookType /\ [Next]_vars => ControlType'
  <1> SUFFICES ASSUME ControlType, LookType, [Next]_vars PROVE ControlType'
    OBVIOUS
  <1> USE DEF ControlType, Steps, Statuses, Deaths
  <1>1. ASSUME NEW i \in Invocations, Step(i) PROVE ControlType'
    <2>1. CASE Check(i)
      BY <2>1 DEF Check
    <2>2. CASE Capture(i)
      BY <2>2 DEF Capture
    <2>3. CASE Reserve(i)
      BY <2>3 DEF Reserve
    <2>4. CASE Build(i)
      BY <2>4 DEF Build
    <2>5. CASE Start(i)
      BY <2>5 DEF Start
    <2>6. CASE SetHandlers(i)
      BY <2>6 DEF SetHandlers
    <2>7. CASE Reap(i)
      BY <2>7 DEF Reap
    <2>8. CASE List(i)
      <3>1. \A s \in Statuses : FinalStatus(i, s, FALSE) \in Statuses
        BY StatusTypes DEF LookType
      <3> QED
        BY <2>8, <3>1 DEF List, Finish
    <2>9. CASE Index(i)
      <3>1. \A s \in Statuses : FinalStatus(i, s, FALSE) \in Statuses
        BY StatusTypes DEF LookType
      <3> QED
        BY <2>9, <3>1 DEF Index, Finish
    <2>10. CASE Report(i)
      <3>1. \A s \in Statuses : FinalStatus(i, s, FALSE) \in Statuses
        BY StatusTypes DEF LookType
      <3>2. \/ Goto(i, "last") /\ UNCHANGED exit
            \/ \E s \in Statuses : Leave(i, s)
        BY <2>10, <3>1 DEF Report, Finish
      <3> QED
        BY <3>2
    <2>11. CASE LastLook(i)
      <3>1. \A s \in Statuses : FinalStatus(i, s, FALSE) \in Statuses
        BY StatusTypes DEF LookType
      <3> QED
        BY <2>11, <3>1 DEF LastLook, Finish
    <2>12. CASE Publish(i)
      <3>1. \A s \in Statuses : FinalStatus(i, s, failed[i]) \in Statuses
        BY StatusTypes DEF LookType
      <3> QED
        BY <2>12, <3>1 DEF Publish, Finish
    <2> QED
      BY <1>1, <2>1, <2>2, <2>3, <2>4, <2>5, <2>6, <2>7, <2>8, <2>9, <2>10, <2>11, <2>12 DEF Step
  <1>2. ASSUME NEW i \in Invocations, CommandEnds(i) PROVE ControlType'
    BY <1>2 DEF CommandEnds
  <1>3. ASSUME NEW i \in Invocations, Death(i) PROVE ControlType'
    BY <1>3 DEF Death, Interrupted, Killed
  <1>4. ASSUME NEW m \in Images, Launch(m) PROVE ControlType'
    BY <1>4 DEF Launch
  <1>5. ASSUME NEW m \in Images, Flush(m) PROVE ControlType'
    BY <1>5 DEF Flush
  <1>6. CASE Edit
    BY <1>6 DEF Edit
  <1>7. CASE UNCHANGED vars
    BY <1>7
  <1> QED
    BY <1>1, <1>2, <1>3, <1>4, <1>5, <1>6, <1>7 DEF Next, Ended

\* No step takes what sv0cov saw of the directory out of its type.
LEMMA LookTypeStep == LookType /\ FileType /\ [Next]_vars => LookType'
  <1> SUFFICES ASSUME LookType, FileType, [Next]_vars PROVE LookType'
    OBVIOUS
  <1> USE DEF LookType
  <1>1. ASSUME NEW i \in Invocations, Step(i) PROVE LookType'
    <2>1. CASE Check(i)
      BY <2>1 DEF Check
    <2>2. CASE Capture(i)
      BY <2>2 DEF Capture, FileType
    <2>3. CASE Reserve(i)
      BY <2>3 DEF Reserve
    <2>4. CASE Build(i)
      BY <2>4 DEF Build, FileType
    <2>5. CASE Start(i)
      BY <2>5 DEF Start
    <2>6. CASE SetHandlers(i)
      BY <2>6 DEF SetHandlers
    <2>7. CASE Reap(i)
      BY <2>7 DEF Reap
    <2>8. CASE List(i)
      BY <2>8 DEF List, Finish, Final
    <2>9. CASE Index(i)
      BY <2>9 DEF Index, Finish
    <2>10. CASE Report(i)
      BY <2>10 DEF Report, Finish, Fails, FileType
    <2>11. CASE LastLook(i)
      BY <2>11 DEF LastLook, Finish
    <2>12. CASE Publish(i)
      BY <2>12 DEF Publish, Finish
    <2> QED
      BY <1>1, <2>1, <2>2, <2>3, <2>4, <2>5, <2>6, <2>7, <2>8, <2>9, <2>10, <2>11, <2>12 DEF Step
  <1>2. ASSUME NEW i \in Invocations, CommandEnds(i) PROVE LookType'
    BY <1>2 DEF CommandEnds
  <1>3. ASSUME NEW i \in Invocations, Death(i) PROVE LookType'
    BY <1>3 DEF Death, Interrupted, Killed
  <1>4. ASSUME NEW m \in Images, Launch(m) PROVE LookType'
    BY <1>4 DEF Launch
  <1>5. ASSUME NEW m \in Images, Flush(m) PROVE LookType'
    BY <1>5 DEF Flush
  <1>6. CASE Edit
    BY <1>6 DEF Edit
  <1>7. CASE UNCHANGED vars
    BY <1>7
  <1> QED
    BY <1>1, <1>2, <1>3, <1>4, <1>5, <1>6, <1>7 DEF Next, Ended

\* No step takes the state of the test command out of its type.
LEMMA TestTypeStep == TestType /\ [Next]_vars => TestType'
  <1> SUFFICES ASSUME TestType, [Next]_vars PROVE TestType'
    OBVIOUS
  <1> USE DEF TestType, Over
  <1>1. ASSUME NEW i \in Invocations, Step(i) PROVE TestType'
    <2>1. CASE Check(i)
      BY <2>1 DEF Check
    <2>2. CASE Capture(i)
      BY <2>2 DEF Capture
    <2>3. CASE Reserve(i)
      BY <2>3 DEF Reserve
    <2>4. CASE Build(i)
      BY <2>4 DEF Build
    <2>5. CASE Start(i)
      BY <2>5 DEF Start
    <2>6. CASE SetHandlers(i)
      BY <2>6 DEF SetHandlers
    <2>7. CASE Reap(i)
      BY <2>7 DEF Reap
    <2>8. CASE List(i)
      BY <2>8 DEF List, Finish
    <2>9. CASE Index(i)
      BY <2>9 DEF Index, Finish
    <2>10. CASE Report(i)
      BY <2>10 DEF Report, Finish
    <2>11. CASE LastLook(i)
      BY <2>11 DEF LastLook, Finish
    <2>12. CASE Publish(i)
      BY <2>12 DEF Publish, Finish
    <2> QED
      BY <1>1, <2>1, <2>2, <2>3, <2>4, <2>5, <2>6, <2>7, <2>8, <2>9, <2>10, <2>11, <2>12 DEF Step
  <1>2. ASSUME NEW i \in Invocations, CommandEnds(i) PROVE TestType'
    BY <1>2 DEF CommandEnds
  <1>3. ASSUME NEW i \in Invocations, Death(i) PROVE TestType'
    BY <1>3 DEF Death, Interrupted, Killed
  <1>4. ASSUME NEW m \in Images, Launch(m) PROVE TestType'
    BY <1>4 DEF Launch
  <1>5. ASSUME NEW m \in Images, Flush(m) PROVE TestType'
    BY <1>5 DEF Flush
  <1>6. CASE Edit
    BY <1>6 DEF Edit
  <1>7. CASE UNCHANGED vars
    BY <1>7
  <1> QED
    BY <1>1, <1>2, <1>3, <1>4, <1>5, <1>6, <1>7 DEF Next, Ended

\* No step takes the profile files out of their type.
LEMMA FileTypeStep == FileType /\ [Next]_vars => FileType'
  <1> SUFFICES ASSUME FileType, [Next]_vars PROVE FileType'
    OBVIOUS
  <1> USE DEF FileType
  <1>1. ASSUME NEW i \in Invocations, Step(i) PROVE FileType'
    <2>1. CASE Check(i)
      BY <2>1 DEF Check
    <2>2. CASE Capture(i)
      BY <2>2 DEF Capture
    <2>3. CASE Reserve(i)
      BY <2>3 DEF Reserve
    <2>4. CASE Build(i)
      BY <2>4 DEF Build
    <2>5. CASE Start(i)
      BY <2>5 DEF Start
    <2>6. CASE SetHandlers(i)
      BY <2>6 DEF SetHandlers
    <2>7. CASE Reap(i)
      BY <2>7 DEF Reap
    <2>8. CASE List(i)
      BY <2>8 DEF List, Finish
    <2>9. CASE Index(i)
      BY <2>9 DEF Index, Finish
    <2>10. CASE Report(i)
      BY <2>10 DEF Report, Finish
    <2>11. CASE LastLook(i)
      BY <2>11 DEF LastLook, Finish
    <2>12. CASE Publish(i)
      BY <2>12 DEF Publish, Finish
    <2> QED
      BY <1>1, <2>1, <2>2, <2>3, <2>4, <2>5, <2>6, <2>7, <2>8, <2>9, <2>10, <2>11, <2>12 DEF Step
  <1>2. ASSUME NEW i \in Invocations, CommandEnds(i) PROVE FileType'
    BY <1>2 DEF CommandEnds
  <1>3. ASSUME NEW i \in Invocations, Death(i) PROVE FileType'
    BY <1>3 DEF Death, Interrupted, Killed
  <1>4. ASSUME NEW m \in Images, Launch(m) PROVE FileType'
    BY <1>4 DEF Launch
  <1>5. ASSUME NEW m \in Images, Flush(m) PROVE FileType'
    BY <1>5 DEF Flush
  <1>6. CASE Edit
    BY <1>6, RunAssumption DEF Edit
  <1>7. CASE UNCHANGED vars
    BY <1>7
  <1> QED
    BY <1>1, <1>2, <1>3, <1>4, <1>5, <1>6, <1>7 DEF Next, Ended

\* No step of sv0cov or of its command breaks the type invariant.
LEMMA TypeStep == TypeOK /\ [Next]_vars => TypeOK'
  <1>1. TypeOK' <=> ControlType' /\ LookType' /\ TestType' /\ FileType'
    BY DEF TypeOK, ControlType, LookType, TestType, FileType
  <1> QED
    BY <1>1, TypeParts, ControlTypeStep, LookTypeStep, TestTypeStep, FileTypeStep

-----------------------------------------------------------------------------
(* The steps of finish() without the combination of statuses: each goes on,  *)
(* or leaves with some status of cli.py.                                     *)

Leaves(i) == \E s \in Statuses : Leave(i, s)

\* collect and merge.
LEMMA ListLeaves ==
  ASSUME TypeOK, NEW i \in Invocations, List(i)
  PROVE  /\ pc[i] = "list"
         /\ \/ /\ Temps = {} /\ Final # {}
               /\ taken' = [taken EXCEPT ![i] = Final]
               /\ Goto(i, "index") /\ UNCHANGED exit
            \/ Leaves(i) /\ UNCHANGED taken
         /\ UNCHANGED <<opt, source, edits, files, tests, looks, failed>>
  BY StatusTypes, StatusNames DEF List, Finish, Leaves

\* publish_file of the evidence.
LEMMA IndexLeaves ==
  ASSUME TypeOK, NEW i \in Invocations, Index(i)
  PROVE  /\ pc[i] = "index"
         /\ \/ indexed = Nobody /\ indexed' = i /\ Goto(i, "report") /\ UNCHANGED exit
            \/ Leaves(i) /\ UNCHANGED indexed
         /\ UNCHANGED <<opt, source, edits, dir, reports, tests, looks, taken, failed>>
  BY StatusTypes, StatusNames DEF Index, Finish, Leaves

\* report_of.
LEMMA ReportLeaves ==
  ASSUME TypeOK, NEW i \in Invocations, Report(i)
  PROVE  /\ pc[i] = "report"
         /\ seen' = [seen EXCEPT ![i] = source]
         /\ \/ /\ ~Refused(i)
               /\ \E b \in BOOLEAN : failed' = [failed EXCEPT ![i] = Fails(i, b)]
               /\ Goto(i, "last") /\ UNCHANGED exit
            \/ Leaves(i) /\ UNCHANGED failed
         /\ UNCHANGED <<opt, source, edits, files, tests, captured, built, taken>>
  BY StatusTypes, StatusNames DEF Report, Finish, Leaves

\* stale_paths.
LEMMA LastLookLeaves ==
  ASSUME TypeOK, NEW i \in Invocations, LastLook(i)
  PROVE  /\ pc[i] = "last"
         /\ (Goto(i, "publish") /\ UNCHANGED exit) \/ Leaves(i)
         /\ UNCHANGED <<opt, source, edits, files, tests, looks, taken, failed>>
  BY StatusTypes, StatusNames DEF LastLook, Finish, Leaves

\* publish_bundle and exit_status.
LEMMA PublishLeaves ==
  ASSUME TypeOK, NEW i \in Invocations, Publish(i)
  PROVE  /\ pc[i] = "publish"
         /\ Leaves(i)
         /\ reports' = reports \/ (opt.files /\ reports = Nobody /\ reports' = i)
         /\ UNCHANGED <<opt, source, edits, dir, indexed, tests, looks, taken, failed>>
  <1>1. failed[i] \in BOOLEAN
    BY TypeParts DEF LookType
  <1>2. \A s \in Statuses : FinalStatus(i, s, failed[i]) \in Statuses
    BY <1>1, StatusTypes
  <1>3. Leaves(i)
    BY <1>2, StatusNames DEF Publish, Finish, Leaves
  <1> QED
    BY <1>3, OptionTypes DEF Publish

-----------------------------------------------------------------------------
(* The invariant is preserved, conjunct by conjunct. *)

\* No step breaks what each stage of the command knows.
LEMMA StageStep == TypeOK /\ StageInv /\ [Next]_vars => StageInv'
  <1> SUFFICES ASSUME TypeOK, StageInv, [Next]_vars PROVE StageInv'
    OBVIOUS
  <1> USE TypeParts DEF StageInv, Before, Finishing, Over, Deaths, Statuses, ControlType, TestType, LookType
  <1>1. ASSUME NEW i \in Invocations, Step(i) PROVE StageInv'
    <2>1. CASE Check(i)
      BY <2>1 DEF Check
    <2>2. CASE Capture(i)
      BY <2>2 DEF Capture
    <2>3. CASE Reserve(i)
      BY <2>3 DEF Reserve
    <2>4. CASE Build(i)
      BY <2>4 DEF Build
    <2>5. CASE Start(i)
      BY <2>5 DEF Start
    <2>6. CASE SetHandlers(i)
      BY <2>6 DEF SetHandlers
    <2>7. CASE Reap(i)
      BY <2>7 DEF Reap, Reapable
    <2>8. CASE List(i)
      BY <2>8, ListLeaves DEF Leaves
    <2>9. CASE Index(i)
      BY <2>9, IndexLeaves DEF Leaves
    <2>10. CASE Report(i)
      BY <2>10, ReportLeaves DEF Leaves
    <2>11. CASE LastLook(i)
      BY <2>11, LastLookLeaves DEF Leaves
    <2>12. CASE Publish(i)
      BY <2>12, PublishLeaves DEF Leaves
    <2> QED
      BY <1>1, <2>1, <2>2, <2>3, <2>4, <2>5, <2>6, <2>7, <2>8, <2>9, <2>10, <2>11, <2>12 DEF Step
  <1>2. ASSUME NEW i \in Invocations, CommandEnds(i) PROVE StageInv'
    BY <1>2 DEF CommandEnds
  <1>3. ASSUME NEW i \in Invocations, Death(i) PROVE StageInv'
    BY <1>3 DEF Death, Interrupted, Killed
  <1>4. ASSUME NEW m \in Images, Launch(m) PROVE StageInv'
    BY <1>4 DEF Launch
  <1>5. ASSUME NEW m \in Images, Flush(m) PROVE StageInv'
    BY <1>5 DEF Flush
  <1>6. CASE Edit
    BY <1>6 DEF Edit
  <1>7. CASE UNCHANGED vars
    BY <1>7
  <1> QED
    BY <1>1, <1>2, <1>3, <1>4, <1>5, <1>6, <1>7 DEF Next, Ended

\* No step breaks what is known of the files of this run.
LEMMA OwnStep == TypeOK /\ StageInv /\ OwnInv /\ [Next]_vars => OwnInv'
  <1> SUFFICES ASSUME TypeOK, StageInv, OwnInv, [Next]_vars PROVE OwnInv'
    OBVIOUS
  <1> USE TypeParts, RunAssumption DEF OwnInv, StageInv, Before, Inside, Finishing, ControlType, TestType, LookType, FileType
  <1>1. ASSUME NEW i \in Invocations, Step(i) PROVE OwnInv'
    <2>1. CASE Check(i)
      BY <2>1 DEF Check
    <2>2. CASE Capture(i)
      BY <2>2 DEF Capture
    <2>3. CASE Reserve(i)
      BY <2>3 DEF Reserve, Unreserved
    <2>4. CASE Build(i)
      BY <2>4 DEF Build
    <2>5. CASE Start(i)
      BY <2>5 DEF Start
    <2>6. CASE SetHandlers(i)
      BY <2>6 DEF SetHandlers
    <2>7. CASE Reap(i)
      BY <2>7 DEF Reap
    <2>8. CASE List(i)
      BY <2>8, ListLeaves DEF Leaves, Final, Temps
    <2>9. CASE Index(i)
      BY <2>9, IndexLeaves DEF Leaves
    <2>10. CASE Report(i)
      BY <2>10, ReportLeaves DEF Leaves
    <2>11. CASE LastLook(i)
      BY <2>11, LastLookLeaves DEF Leaves
    <2>12. CASE Publish(i)
      BY <2>12, PublishLeaves DEF Leaves
    <2> QED
      BY <1>1, <2>1, <2>2, <2>3, <2>4, <2>5, <2>6, <2>7, <2>8, <2>9, <2>10, <2>11, <2>12 DEF Step
  <1>2. ASSUME NEW i \in Invocations, CommandEnds(i) PROVE OwnInv'
    BY <1>2 DEF CommandEnds
  <1>3. ASSUME NEW i \in Invocations, Death(i) PROVE OwnInv'
    BY <1>3 DEF Death, Interrupted, Killed, Unreserved
  <1>4. ASSUME NEW m \in Images, Launch(m) PROVE OwnInv'
    BY <1>4 DEF Launch
  <1>5. ASSUME NEW m \in Images, Flush(m) PROVE OwnInv'
    BY <1>5 DEF Flush
  <1>6. CASE Edit
    BY <1>6 DEF Edit
  <1>7. CASE UNCHANGED vars
    BY <1>7
  <1> QED
    BY <1>1, <1>2, <1>3, <1>4, <1>5, <1>6, <1>7 DEF Next, Ended

\* No step breaks what is known of the indexed profile.
LEMMA PublishedStep == TypeOK /\ StageInv /\ OwnInv /\ PublishedInv /\ [Next]_vars => PublishedInv'
  <1> SUFFICES ASSUME TypeOK, StageInv, OwnInv, PublishedInv, [Next]_vars PROVE PublishedInv'
    OBVIOUS
  <1> USE TypeParts, RunAssumption DEF PublishedInv, OwnInv, StageInv, Inside, Finishing, Over, ControlType, TestType, LookType, FileType
  <1>1. ASSUME NEW i \in Invocations, Step(i) PROVE PublishedInv'
    <2>1. CASE Check(i)
      BY <2>1 DEF Check
    <2>2. CASE Capture(i)
      BY <2>2 DEF Capture
    <2>3. CASE Reserve(i)
      BY <2>3 DEF Reserve, Unreserved
    <2>4. CASE Build(i)
      BY <2>4 DEF Build
    <2>5. CASE Start(i)
      BY <2>5 DEF Start
    <2>6. CASE SetHandlers(i)
      BY <2>6 DEF SetHandlers
    <2>7. CASE Reap(i)
      BY <2>7 DEF Reap
    <2>8. CASE List(i)
      BY <2>8, ListLeaves DEF Leaves
    <2>9. CASE Index(i)
      BY <2>9, IndexLeaves DEF Leaves
    <2>10. CASE Report(i)
      BY <2>10, ReportLeaves DEF Leaves
    <2>11. CASE LastLook(i)
      BY <2>11, LastLookLeaves DEF Leaves
    <2>12. CASE Publish(i)
      BY <2>12, PublishLeaves DEF Leaves
    <2> QED
      BY <1>1, <2>1, <2>2, <2>3, <2>4, <2>5, <2>6, <2>7, <2>8, <2>9, <2>10, <2>11, <2>12 DEF Step
  <1>2. ASSUME NEW i \in Invocations, CommandEnds(i) PROVE PublishedInv'
    BY <1>2 DEF CommandEnds
  <1>3. ASSUME NEW i \in Invocations, Death(i) PROVE PublishedInv'
    BY <1>3 DEF Death, Interrupted, Killed, Unreserved
  <1>4. ASSUME NEW m \in Images, Launch(m) PROVE PublishedInv'
    BY <1>4 DEF Launch
  <1>5. ASSUME NEW m \in Images, Flush(m) PROVE PublishedInv'
    BY <1>5 DEF Flush
  <1>6. CASE Edit
    BY <1>6 DEF Edit
  <1>7. CASE UNCHANGED vars
    BY <1>7
  <1> QED
    BY <1>1, <1>2, <1>3, <1>4, <1>5, <1>6, <1>7 DEF Next, Ended

\* No step breaks what is known of the images that had begun to write.
LEMMA HeldStep == TypeOK /\ StageInv /\ PublishedInv /\ HeldInv /\ [Next]_vars => HeldInv'
  <1> SUFFICES ASSUME TypeOK, StageInv, PublishedInv, HeldInv, [Next]_vars PROVE HeldInv'
    OBVIOUS
  <1> USE TypeParts, RunAssumption DEF HeldInv, Held, PublishedInv, StageInv, Finishing, Over, ControlType, TestType, LookType, FileType
  <1>1. ASSUME NEW i \in Invocations, Step(i) PROVE HeldInv'
    <2>1. CASE Check(i)
      BY <2>1 DEF Check
    <2>2. CASE Capture(i)
      BY <2>2 DEF Capture
    <2>3. CASE Reserve(i)
      BY <2>3 DEF Reserve
    <2>4. CASE Build(i)
      BY <2>4 DEF Build
    <2>5. CASE Start(i)
      BY <2>5 DEF Start
    <2>6. CASE SetHandlers(i)
      BY <2>6 DEF SetHandlers
    <2>7. CASE Reap(i)
      BY <2>7 DEF Reap
    <2>8. CASE List(i)
      BY <2>8, ListLeaves DEF Leaves, Final, Temps
    <2>9. CASE Index(i)
      BY <2>9, IndexLeaves DEF Leaves
    <2>10. CASE Report(i)
      BY <2>10, ReportLeaves DEF Leaves
    <2>11. CASE LastLook(i)
      BY <2>11, LastLookLeaves DEF Leaves
    <2>12. CASE Publish(i)
      BY <2>12, PublishLeaves DEF Leaves
    <2> QED
      BY <1>1, <2>1, <2>2, <2>3, <2>4, <2>5, <2>6, <2>7, <2>8, <2>9, <2>10, <2>11, <2>12 DEF Step
  <1>2. ASSUME NEW i \in Invocations, CommandEnds(i) PROVE HeldInv'
    BY <1>2 DEF CommandEnds
  <1>3. ASSUME NEW i \in Invocations, Death(i) PROVE HeldInv'
    BY <1>3 DEF Death, Interrupted, Killed
  <1>4. ASSUME NEW m \in Images, Launch(m) PROVE HeldInv'
    BY <1>4 DEF Launch
  <1>5. ASSUME NEW m \in Images, Flush(m) PROVE HeldInv'
    BY <1>5 DEF Flush
  <1>6. CASE Edit
    BY <1>6 DEF Edit
  <1>7. CASE UNCHANGED vars
    BY <1>7
  <1> QED
    BY <1>1, <1>2, <1>3, <1>4, <1>5, <1>6, <1>7 DEF Next, Ended

\* No step breaks what an accepted report found of its sources.
LEMMA LookStep == TypeOK /\ PublishedInv /\ LookInv /\ [Next]_vars => LookInv'
  <1> SUFFICES ASSUME TypeOK, PublishedInv, LookInv, [Next]_vars PROVE LookInv'
    OBVIOUS
  <1> USE TypeParts, OptionTypes, RunAssumption DEF LookInv, Looked, PublishedInv, ControlType, LookType, FileType
  <1>1. ASSUME NEW i \in Invocations, Step(i) PROVE LookInv'
    <2>1. CASE Check(i)
      BY <2>1 DEF Check
    <2>2. CASE Capture(i)
      BY <2>2 DEF Capture
    <2>3. CASE Reserve(i)
      BY <2>3 DEF Reserve
    <2>4. CASE Build(i)
      BY <2>4 DEF Build
    <2>5. CASE Start(i)
      BY <2>5 DEF Start
    <2>6. CASE SetHandlers(i)
      BY <2>6 DEF SetHandlers
    <2>7. CASE Reap(i)
      BY <2>7 DEF Reap
    <2>8. CASE List(i)
      BY <2>8, ListLeaves DEF Leaves
    <2>9. CASE Index(i)
      BY <2>9, IndexLeaves DEF Leaves
    <2>10. CASE Report(i)
      BY <2>10, ReportLeaves DEF Leaves, Refused, Fails
    <2>11. CASE LastLook(i)
      BY <2>11, LastLookLeaves DEF Leaves
    <2>12. CASE Publish(i)
      BY <2>12, PublishLeaves DEF Leaves
    <2> QED
      BY <1>1, <2>1, <2>2, <2>3, <2>4, <2>5, <2>6, <2>7, <2>8, <2>9, <2>10, <2>11, <2>12 DEF Step
  <1>2. ASSUME NEW i \in Invocations, CommandEnds(i) PROVE LookInv'
    BY <1>2 DEF CommandEnds
  <1>3. ASSUME NEW i \in Invocations, Death(i) PROVE LookInv'
    BY <1>3 DEF Death, Interrupted, Killed
  <1>4. ASSUME NEW m \in Images, Launch(m) PROVE LookInv'
    BY <1>4 DEF Launch
  <1>5. ASSUME NEW m \in Images, Flush(m) PROVE LookInv'
    BY <1>5 DEF Flush
  <1>6. CASE Edit
    BY <1>6 DEF Edit
  <1>7. CASE UNCHANGED vars
    BY <1>7
  <1> QED
    BY <1>1, <1>2, <1>3, <1>4, <1>5, <1>6, <1>7 DEF Next, Ended

-----------------------------------------------------------------------------
(* The statuses themselves. *)

\* Only the last step of finish() can end with 0.
LEMMA EarlyStatus ==
  ASSUME TypeOK, NEW i \in Invocations, List(i) \/ Index(i) \/ Report(i) \/ LastLook(i)
  PROVE  exit' = exit \/ \E s : s # "ok" /\ exit' = [exit EXCEPT ![i] = s]
  <1>1. \A s \in Statuses : s # "ok" => FinalStatus(i, s, FALSE) # "ok"
    BY StatusTypes
  <1> QED
    BY <1>1, StatusNames DEF List, Index, Report, LastLook, Finish

\* The last step ends with 0 only for a passed command and policy.
LEMMA LastStatus ==
  ASSUME TypeOK, NEW i \in Invocations, Publish(i)
  PROVE  \E s : /\ exit' = [exit EXCEPT ![i] = s]
                /\ s = "ok" => /\ command[i] = "passed" /\ ~failed[i]
                               /\ opt.files => reports' = i
  <1>1. failed[i] \in BOOLEAN
    BY TypeParts DEF LookType
  <1>2. \A s \in Statuses : FinalStatus(i, s, failed[i]) = "ok" => command[i] = "passed" /\ s = "ok"
    BY <1>1, StatusTypes
  <1> QED
    BY <1>1, <1>2, StatusNames, OptionTypes DEF Publish, Finish

\* A status told after the command failed is the combined one, or 8.
Plain(i, s) ==
    command[i] \in {"failed", "signaled"} =>
        \/ s = "test" /\ command[i] = "failed"
        \/ s = "signaled" /\ command[i] = "signaled"
        \/ s = "policy" /\ opt.prefer /\ failed[i]
        \/ s = "internal"

\* Every step of finish() tells a failed command plainly.
LEMMA PlainStatus ==
  ASSUME TypeOK, NEW i \in Invocations,
         List(i) \/ Index(i) \/ Report(i) \/ LastLook(i) \/ Publish(i)
  PROVE  exit' = exit \/ \E s : Plain(i, s) /\ exit' = [exit EXCEPT ![i] = s]
  <1>1. failed[i] \in BOOLEAN
    BY TypeParts DEF LookType
  <1>2. \A s : Plain(i, FinalStatus(i, s, FALSE)) /\ Plain(i, FinalStatus(i, s, failed[i]))
    BY <1>1, FailureStatus DEF Plain
  <1>3. Plain(i, "internal")
    BY DEF Plain
  <1> QED
    BY <1>2, <1>3 DEF List, Index, Report, LastLook, Publish, Finish

\* No step breaks what the exit status says.
LEMMA ExitStep == TypeOK /\ StageInv /\ PublishedInv /\ LookInv /\ ExitTold /\ [Next]_vars => ExitTold'
  <1> SUFFICES ASSUME TypeOK, StageInv, PublishedInv, LookInv, ExitTold, [Next]_vars PROVE ExitTold'
    OBVIOUS
  <1> USE TypeParts, OptionTypes, RunAssumption DEF ExitTold, LookInv, Looked, PublishedInv, StageInv, Before, ControlType, LookType, FileType, TestType
  <1>1. ASSUME NEW i \in Invocations, Step(i) PROVE ExitTold'
    <2>1. CASE Check(i)
      BY <2>1 DEF Check
    <2>2. CASE Capture(i)
      BY <2>2 DEF Capture
    <2>3. CASE Reserve(i)
      BY <2>3 DEF Reserve
    <2>4. CASE Build(i)
      BY <2>4 DEF Build
    <2>5. CASE Start(i)
      BY <2>5 DEF Start
    <2>6. CASE SetHandlers(i)
      BY <2>6 DEF SetHandlers
    <2>7. CASE Reap(i)
      BY <2>7 DEF Reap
    <2>8. CASE List(i)
      BY <2>8, ListLeaves, EarlyStatus DEF Leaves
    <2>9. CASE Index(i)
      BY <2>9, IndexLeaves, EarlyStatus DEF Leaves
    <2>10. CASE Report(i)
      BY <2>10, ReportLeaves, EarlyStatus DEF Leaves
    <2>11. CASE LastLook(i)
      BY <2>11, LastLookLeaves, EarlyStatus DEF Leaves
    <2>12. CASE Publish(i)
      BY <2>12, PublishLeaves, LastStatus DEF Leaves
    <2> QED
      BY <1>1, <2>1, <2>2, <2>3, <2>4, <2>5, <2>6, <2>7, <2>8, <2>9, <2>10, <2>11, <2>12 DEF Step
  <1>2. ASSUME NEW i \in Invocations, CommandEnds(i) PROVE ExitTold'
    BY <1>2 DEF CommandEnds
  <1>3. ASSUME NEW i \in Invocations, Death(i) PROVE ExitTold'
    BY <1>3 DEF Death, Interrupted, Killed
  <1>4. ASSUME NEW m \in Images, Launch(m) PROVE ExitTold'
    BY <1>4 DEF Launch
  <1>5. ASSUME NEW m \in Images, Flush(m) PROVE ExitTold'
    BY <1>5 DEF Flush
  <1>6. CASE Edit
    BY <1>6 DEF Edit
  <1>7. CASE UNCHANGED vars
    BY <1>7
  <1> QED
    BY <1>1, <1>2, <1>3, <1>4, <1>5, <1>6, <1>7 DEF Next, Ended

\* No step hides a failed command.
LEMMA FailureStep == TypeOK /\ StageInv /\ FailureTold /\ [Next]_vars => FailureTold'
  <1> SUFFICES ASSUME TypeOK, StageInv, FailureTold, [Next]_vars PROVE FailureTold'
    OBVIOUS
  <1> USE TypeParts, OptionTypes DEF FailureTold, Plain, StageInv, Before, Finishing, Over, Deaths, Statuses, ControlType, LookType, FileType, TestType
  <1>1. ASSUME NEW i \in Invocations, Step(i) PROVE FailureTold'
    <2>1. CASE Check(i)
      BY <2>1 DEF Check
    <2>2. CASE Capture(i)
      BY <2>2 DEF Capture
    <2>3. CASE Reserve(i)
      BY <2>3 DEF Reserve
    <2>4. CASE Build(i)
      BY <2>4 DEF Build
    <2>5. CASE Start(i)
      BY <2>5 DEF Start
    <2>6. CASE SetHandlers(i)
      BY <2>6 DEF SetHandlers
    <2>7. CASE Reap(i)
      BY <2>7 DEF Reap
    <2>8. CASE List(i)
      BY <2>8, ListLeaves, PlainStatus DEF Leaves
    <2>9. CASE Index(i)
      BY <2>9, IndexLeaves, PlainStatus DEF Leaves
    <2>10. CASE Report(i)
      BY <2>10, ReportLeaves, PlainStatus DEF Leaves
    <2>11. CASE LastLook(i)
      BY <2>11, LastLookLeaves, PlainStatus DEF Leaves
    <2>12. CASE Publish(i)
      BY <2>12, PublishLeaves, PlainStatus DEF Leaves
    <2> QED
      BY <1>1, <2>1, <2>2, <2>3, <2>4, <2>5, <2>6, <2>7, <2>8, <2>9, <2>10, <2>11, <2>12 DEF Step
  <1>2. ASSUME NEW i \in Invocations, CommandEnds(i) PROVE FailureTold'
    BY <1>2 DEF CommandEnds
  <1>3. ASSUME NEW i \in Invocations, Death(i) PROVE FailureTold'
    BY <1>3 DEF Death, Interrupted, Killed
  <1>4. ASSUME NEW m \in Images, Launch(m) PROVE FailureTold'
    BY <1>4 DEF Launch
  <1>5. ASSUME NEW m \in Images, Flush(m) PROVE FailureTold'
    BY <1>5 DEF Flush
  <1>6. CASE Edit
    BY <1>6 DEF Edit
  <1>7. CASE UNCHANGED vars
    BY <1>7
  <1> QED
    BY <1>1, <1>2, <1>3, <1>4, <1>5, <1>6, <1>7 DEF Next, Ended

-----------------------------------------------------------------------------
(* The theorems. *)

\* The inductive invariant: what holds at every step of every invocation.
THEOREM Inductive == Spec => []IInv
  <1>1. IInv /\ [Next]_vars => IInv'
    BY TypeStep, StageStep, OwnStep, PublishedStep, HeldStep, LookStep, ExitStep, FailureStep DEF IInv
  <1> QED
    BY InitIInv, <1>1, PTL DEF Spec

\* Every variable keeps its type (the values cmd_run works with).
THEOREM TypeCorrect == Spec => []TypeOK
  <1>1. IInv => TypeOK
    BY DEF IInv
  <1> QED
    BY Inductive, <1>1, PTL

\* Invocations that share a run ID never mix their profiles or publications.
THEOREM KeptApart == Spec => []RunsKeptApart
  <1>1. IInv => RunsKeptApart
    <2> SUFFICES ASSUME IInv PROVE RunsKeptApart
      OBVIOUS
    <2>1. ASSUME NEW i \in Invocations, indexed = i, NEW m \in taken[i] PROVE by[m] = i
      <3>1. m \in Images
        BY TypeParts DEF IInv, LookType
      <3> QED
        BY <2>1, <3>1 DEF IInv, OwnInv, PublishedInv
    <2>2. reports # Nobody => indexed = reports
      BY TypeParts DEF IInv, FileType, PublishedInv
    <2> QED
      BY <2>1, <2>2 DEF RunsKeptApart
  <1> QED
    BY Inductive, <1>1, PTL

\* Published evidence passes over no image that had begun to write its profile
\* when the command ended, unless that image gave up.
THEOREM NothingPassedOver == Spec => []EvidenceComplete
  <1>1. IInv => EvidenceComplete
    BY DEF IInv, HeldInv, Held, EvidenceComplete
  <1> QED
    BY Inductive, <1>1, PTL

\* Published reports show the compiled and, with a diff policy, the captured
\* source.
THEOREM NeverStale == Spec => []ReportsCurrent
  <1>1. IInv => ReportsCurrent
    BY DEF IInv, LookInv, Looked, ReportsCurrent
  <1> QED
    BY Inductive, <1>1, PTL

\* Status 0 is told only for a passed command, complete evidence, a current
\* source, a passed policy and published reports, and a failing command is told as
\* such, unless sv0cov itself broke.
THEOREM StatusIsTold == Spec => []StatusTold
  <1>1. IInv => StatusTold
    BY DEF IInv, StatusTold
  <1> QED
    BY Inductive, <1>1, PTL
=============================================================================
