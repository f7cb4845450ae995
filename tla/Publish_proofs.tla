--------------------------- MODULE Publish_proofs ---------------------------
(* Proofs about Publish, for any set of processes and any bundle size. *)
EXTENDS Publish, TLAPS

USE DEF fixed, name, vars, Goto, End, Fail, Take

-----------------------------------------------------------------------------
(* Every variable has its type. *)

\* A publication has at least one member and at most BundleSize.
LEMMA SizeInRange ==
  ASSUME TypeOK, NEW p \in Publishers
  PROVE  Size(p) \in 1 .. BundleSize
  BY BundleAssumption DEF TypeOK, Size

\* The protocol starts in its type.
LEMMA TypeInit == Init => TypeOK
  BY BundleAssumption DEF Init, TypeOK, Ops, Errors

\* done stays within the members: a member is written only if one is left.
DoneInv ==
    \A p \in Publishers : /\ pc[p] \in {"open", "look", "create"} => done[p] = 0
                          /\ pc[p] = "write" => done[p] < Size(p)
                          /\ done[p] <= Size(p)

\* No step writes more members than there are.
LEMMA DoneStep == TypeOK /\ DoneInv /\ [Next]_vars => DoneInv'
  <1> SUFFICES ASSUME TypeOK, DoneInv, [Next]_vars PROVE DoneInv'
    OBVIOUS
  <1>a. \A p \in Publishers : Size(p) \in 1 .. BundleSize /\ done[p] \in Nat
    BY SizeInRange DEF TypeOK
  <1>b. /\ UNCHANGED op
        /\ \A p \in Publishers : Size(p)' = Size(p)
    BY DEF Next, Step, Ended, Open, Look, Create, Write, Check, Rename, NoPrimitive, Link,
           Unlink, RenameOver, Return, Sync, Cleanup, Interrupt, Crash, Size
  <1>1. ASSUME NEW p \in Publishers, Step(p) \/ Interrupt(p) \/ Crash(p)
        PROVE  DoneInv'
    <2>1. CASE Write(p)
      BY <2>1, <1>a, <1>b, BundleAssumption DEF Write, DoneInv, TypeOK
    <2>2. CASE Check(p)
      BY <2>2, <1>a, <1>b, BundleAssumption DEF Check, More, DoneInv, TypeOK
    <2>3. CASE Open(p) \/ Look(p) \/ Create(p)
      BY <2>3, <1>a, <1>b, BundleAssumption DEF Open, Look, Create, DoneInv, TypeOK
    <2>4. CASE Rename(p) \/ NoPrimitive(p) \/ Link(p)
      BY <2>4, <1>a, <1>b DEF Rename, NoPrimitive, Link, Collide, DoneInv, TypeOK
    <2>5. CASE Unlink(p) \/ RenameOver(p)
      BY <2>5, <1>a, <1>b DEF Unlink, RenameOver, Leftover, DoneInv, TypeOK
    <2>6. CASE Return(p) \/ Sync(p) \/ Cleanup(p) \/ Interrupt(p) \/ Crash(p)
      BY <2>6, <1>a, <1>b DEF Return, Sync, Cleanup, Interrupt, Crash, DoneInv, TypeOK
    <2> QED
      BY <1>1, <2>1, <2>2, <2>3, <2>4, <2>5, <2>6 DEF Step
  <1>2. CASE UNCHANGED vars
    BY <1>2, <1>b DEF DoneInv
  <1> QED
    BY <1>1, <1>2 DEF Next, Ended

\* No step of a publication, and no crash, breaks the type invariant.
LEMMA TypeStep == TypeOK /\ DoneInv /\ [Next]_vars => TypeOK'
  <1> SUFFICES ASSUME TypeOK, DoneInv, [Next]_vars PROVE TypeOK'
    OBVIOUS
  <1> USE DEF TypeOK, Errors
  <1>1. ASSUME NEW p \in Publishers, Step(p) \/ Interrupt(p) \/ Crash(p)
        PROVE  TypeOK'
    <2>1. CASE Open(p) \/ Look(p) \/ Create(p)
      BY <2>1 DEF Open, Look, Create
    <2>2. CASE Write(p)
      <3>1. done[p] + 1 \in 1 .. BundleSize
        BY <2>2, SizeInRange, BundleAssumption DEF Write, DoneInv
      <3> QED
        BY <2>2, <3>1 DEF Write
    <2>3. CASE Check(p)
      BY <2>3 DEF Check
    <2>4. CASE Rename(p)
      BY <2>4 DEF Rename, Collide
    <2>5. CASE NoPrimitive(p) \/ Unlink(p)
      BY <2>5 DEF NoPrimitive, Unlink, Leftover
    <2>6. CASE Link(p)
      BY <2>6 DEF Link, Collide
    <2>7. CASE RenameOver(p)
      BY <2>7 DEF RenameOver
    <2>8. CASE Return(p) \/ Sync(p) \/ Cleanup(p) \/ Interrupt(p) \/ Crash(p)
      BY <2>8 DEF Return, Sync, Cleanup, Interrupt, Crash
    <2> QED
      BY <1>1, <2>1, <2>2, <2>3, <2>4, <2>5, <2>6, <2>7, <2>8 DEF Step
  <1>2. CASE UNCHANGED vars
    BY <1>2
  <1> QED
    BY <1>1, <1>2 DEF Next, Ended

\* The publication protocol stays in its type, for every number of publishers and members.
THEOREM TypeCorrect == Spec => []TypeOK
  <1>1. Init => TypeOK /\ DoneInv
    BY TypeInit, BundleAssumption DEF Init, DoneInv, Size
  <1>2. TypeOK /\ DoneInv /\ [Next]_vars => TypeOK' /\ DoneInv'
    BY TypeStep, DoneStep
  <1> QED
    BY <1>1, <1>2, PTL DEF Spec

-----------------------------------------------------------------------------
(* The inductive invariant. *)

BeforeTake == {"open", "look", "create", "write", "check", "commit", "link"}

\* What each process has in its temporary: everything before the member it is
\* at has been read back, and at the commit all of it has.
TempInv ==
    \A p \in Publishers :
        /\ temp[p] \subseteq 1 .. done[p]
        /\ pc[p] = "write" => 1 .. done[p] \subseteq temp[p]
        /\ pc[p] = "check" => done[p] > 0 /\ 1 .. done[p] - 1 \subseteq temp[p]
        /\ pc[p] \in {"commit", "link"} => temp[p] = Members(p) /\ valid[p]

\* Who has taken the name, and what each process will say.
ToldInv ==
    \A p \in Publishers :
        /\ pc[p] \in BeforeTake \cup {"unlink", "taken", "sync"} => result[p] = "none"
        /\ pc[p] \in BeforeTake => p \notin committed
        /\ pc[p] \in {"unlink", "taken", "sync"} => p \in committed
        /\ result[p] \in Errors => p \notin committed
        /\ result[p] = "published" => p \in committed

\* Where a temporary may still be.
ThereInv ==
    \A p \in Publishers :
        /\ pc[p] \in {"open", "look", "create"} => ~there[p]
        /\ pc[p] \in {"taken", "sync", "end"} /\ there[p] => p \in stuck

\* What replace_file looked at stays no obstacle: nothing makes a symlink.
ReplaceInv ==
    \A p \in Publishers :
        op[p] = "replace" /\ pc[p] \in {"create", "write", "check", "commit"} => dst # Foreign

IInv == /\ TypeOK /\ DoneInv /\ TempInv /\ DestinationWhole /\ ToldInv /\ ThereInv
        /\ ReplaceInv

\* No step breaks what is known of the temporary files.
LEMMA TempStep == TypeOK /\ DoneInv /\ TempInv /\ [Next]_vars => TempInv'
  <1> SUFFICES ASSUME TypeOK, DoneInv, TempInv, [Next]_vars PROVE TempInv'
    OBVIOUS
  <1>a. \A p \in Publishers : Size(p) \in Nat /\ done[p] \in Nat
    BY SizeInRange, BundleAssumption DEF TypeOK
  <1>b. /\ UNCHANGED <<op, valid>>
        /\ \A p \in Publishers : Size(p)' = Size(p) /\ Members(p)' = Members(p)
    BY DEF Next, Step, Ended, Open, Look, Create, Write, Check, Rename, NoPrimitive, Link,
           Unlink, RenameOver, Return, Sync, Cleanup, Interrupt, Crash, Size, Members
  <1>1. ASSUME NEW p \in Publishers, Step(p) \/ Interrupt(p) \/ Crash(p)
        PROVE  TempInv'
    <2>1. CASE Write(p)
      BY <2>1, <1>a, <1>b DEF Write, TempInv, TypeOK
    <2>2. CASE Check(p)
      <3>1. UNCHANGED <<done, temp>> /\ \A q \in Publishers : q # p => pc'[q] = pc[q]
        BY <2>2 DEF Check, TypeOK
      <3>2. CASE ReadsBack(p) /\ pc'[p] \in {"write", "commit"}
        <4>1. 1 .. done[p] \subseteq temp[p] /\ valid[p]
          BY <2>2, <3>2, <1>a DEF Check, ReadsBack, TempInv
        <4>2. pc'[p] = "commit" => done[p] = Size(p)
          BY <2>2, <3>2, <1>a DEF Check, More, DoneInv, TypeOK
        <4> QED
          BY <3>1, <3>2, <4>1, <4>2, <1>a, <1>b DEF TempInv, Members
      <3>3. CASE pc'[p] = "cleanup"
        BY <3>1, <3>3, <1>b DEF TempInv
      <3> QED
        BY <2>2, <3>2, <3>3 DEF Check, TypeOK
    <2>3. CASE Open(p) \/ Look(p)
      BY <2>3, <1>b DEF Open, Look, TempInv, TypeOK
    <2>4. CASE Create(p)
      BY <2>4, <1>a, <1>b DEF Create, DoneInv, TempInv, TypeOK
    <2>5. CASE Rename(p) \/ NoPrimitive(p) \/ Link(p)
      BY <2>5, <1>b DEF Rename, NoPrimitive, Link, Collide, TempInv, TypeOK
    <2>6. CASE Unlink(p) \/ RenameOver(p)
      BY <2>6, <1>b DEF Unlink, RenameOver, Leftover, TempInv, TypeOK
    <2>7. CASE Return(p) \/ Sync(p) \/ Cleanup(p) \/ Interrupt(p) \/ Crash(p)
      BY <2>7, <1>b DEF Return, Sync, Cleanup, Interrupt, Crash, TempInv, TypeOK
    <2> QED
      BY <1>1, <2>1, <2>2, <2>3, <2>4, <2>5, <2>6, <2>7 DEF Step
  <1>2. CASE UNCHANGED vars
    BY <1>2, <1>b DEF TempInv
  <1> QED
    BY <1>1, <1>2 DEF Next, Ended

\* Only a commit changes the name, and it puts there what was read back.
LEMMA NameStep ==
  ASSUME TypeOK, TempInv, [Next]_vars
  PROVE  \/ UNCHANGED <<dst, held>>
         \/ \E p \in Publishers :
               /\ dst' = p /\ held' = Members(p) /\ valid[p]
               /\ dst = Absent \/ RenameOver(p)
  <1>1. ASSUME NEW p \in Publishers, Rename(p) \/ Link(p)
        PROVE  \/ UNCHANGED <<dst, held>>
               \/ dst' = p /\ held' = Members(p) /\ valid[p] /\ dst = Absent
    BY <1>1 DEF Rename, Link, Collide, Free, TempInv
  <1>2. ASSUME NEW p \in Publishers, RenameOver(p)
        PROVE  \/ UNCHANGED <<dst, held>>
               \/ dst' = p /\ held' = Members(p) /\ valid[p]
    BY <1>2 DEF RenameOver, TempInv
  <1> QED
    BY <1>1, <1>2
    DEF Next, Step, Ended, Open, Look, Create, Write, Check, NoPrimitive, Unlink, Return,
        Sync, Cleanup, Interrupt, Crash

\* No step leaves a part of a document at the destination.
LEMMA WholeStep == TypeOK /\ TempInv /\ DestinationWhole /\ [Next]_vars => DestinationWhole'
  <1> SUFFICES ASSUME TypeOK, TempInv, DestinationWhole, [Next]_vars PROVE DestinationWhole'
    OBVIOUS
  <1>1. UNCHANGED valid /\ \A p \in Publishers : Members(p)' = Members(p)
    BY DEF Next, Step, Ended, Open, Look, Create, Write, Check, Rename, NoPrimitive, Link,
           Unlink, RenameOver, Return, Sync, Cleanup, Interrupt, Crash, Size, Members
  <1> QED
    BY <1>1, NameStep DEF DestinationWhole

\* No step breaks what callers were told.
LEMMA ToldStep == TypeOK /\ ToldInv /\ [Next]_vars => ToldInv'
  <1> SUFFICES ASSUME TypeOK, ToldInv, [Next]_vars PROVE ToldInv'
    OBVIOUS
  <1> USE DEF ToldInv, BeforeTake, Errors, TypeOK
  <1>1. ASSUME NEW p \in Publishers, Step(p) \/ Interrupt(p) \/ Crash(p)
        PROVE  ToldInv'
    <2>1. CASE Open(p) \/ Look(p) \/ Create(p)
      BY <2>1 DEF Open, Look, Create
    <2>2. CASE Write(p) \/ Check(p)
      BY <2>2 DEF Write, Check
    <2>3. CASE Rename(p) \/ NoPrimitive(p)
      BY <2>3 DEF Rename, NoPrimitive, Collide
    <2>4. CASE Link(p) \/ Unlink(p)
      BY <2>4 DEF Link, Unlink, Collide, Leftover
    <2>5. CASE RenameOver(p)
      BY <2>5 DEF RenameOver
    <2>6. CASE Return(p) \/ Sync(p) \/ Cleanup(p)
      BY <2>6 DEF Return, Sync, Cleanup
    <2>7. CASE Interrupt(p) \/ Crash(p)
      BY <2>7 DEF Interrupt, Crash
    <2> QED
      BY <1>1, <2>1, <2>2, <2>3, <2>4, <2>5, <2>6, <2>7 DEF Step
  <1>2. CASE UNCHANGED vars
    BY <1>2
  <1> QED
    BY <1>1, <1>2 DEF Next, Ended

\* No step leaves a temporary that nobody knows of.
LEMMA ThereStep == TypeOK /\ ThereInv /\ [Next]_vars => ThereInv'
  <1> SUFFICES ASSUME TypeOK, ThereInv, [Next]_vars PROVE ThereInv'
    OBVIOUS
  <1> USE DEF ThereInv, TypeOK
  <1>1. ASSUME NEW p \in Publishers, Step(p) \/ Interrupt(p) \/ Crash(p)
        PROVE  ThereInv'
    <2>1. CASE Open(p) \/ Look(p) \/ Create(p)
      BY <2>1 DEF Open, Look, Create
    <2>2. CASE Write(p) \/ Check(p)
      BY <2>2 DEF Write, Check
    <2>3. CASE Rename(p) \/ NoPrimitive(p)
      BY <2>3 DEF Rename, NoPrimitive, Collide
    <2>4. CASE Link(p) \/ Unlink(p)
      BY <2>4 DEF Link, Unlink, Collide, Leftover
    <2>5. CASE RenameOver(p)
      BY <2>5 DEF RenameOver
    <2>6. CASE Return(p) \/ Sync(p) \/ Cleanup(p)
      BY <2>6 DEF Return, Sync, Cleanup
    <2>7. CASE Interrupt(p) \/ Crash(p)
      BY <2>7 DEF Interrupt, Crash
    <2> QED
      BY <1>1, <2>1, <2>2, <2>3, <2>4, <2>5, <2>6, <2>7 DEF Step
  <1>2. CASE UNCHANGED vars
    BY <1>2
  <1> QED
    BY <1>1, <1>2 DEF Next, Ended

\* No step puts an obstacle where replace_file has looked.
LEMMA ReplaceStep == TypeOK /\ TempInv /\ ReplaceInv /\ [Next]_vars => ReplaceInv'
  <1> SUFFICES ASSUME TypeOK, TempInv, ReplaceInv, [Next]_vars PROVE ReplaceInv'
    OBVIOUS
  <1>1. dst # Foreign => dst' # Foreign
    BY NameStep, NameAssumption
  <1>2. UNCHANGED op
    BY DEF Next, Step, Ended, Open, Look, Create, Write, Check, Rename, NoPrimitive, Link,
           Unlink, RenameOver, Return, Sync, Cleanup, Interrupt, Crash
  <1>3. ASSUME NEW p \in Publishers, op[p] = "replace",
               pc'[p] \in {"create", "write", "check", "commit"}
        PROVE  dst # Foreign
    <2>1. CASE pc[p] \in {"create", "write", "check", "commit"}
      BY <1>3, <2>1 DEF ReplaceInv
    <2>2. CASE pc[p] \notin {"create", "write", "check", "commit"}
      <3>1. Look(p)
        BY <1>3, <2>2
        DEF Next, Step, Ended, Open, Look, Create, Write, Check, Rename, NoPrimitive, Link,
            Unlink, RenameOver, Return, Sync, Cleanup, Interrupt, Crash, Collide, Leftover,
            TypeOK
      <3> QED
        BY <1>3, <3>1 DEF Look, TypeOK
    <2> QED
      BY <2>1, <2>2
  <1> QED
    BY <1>1, <1>2, <1>3 DEF ReplaceInv

-----------------------------------------------------------------------------
(* The theorems. *)

\* The inductive invariant holds at the start.
LEMMA InvInit == Init => IInv
  <1> SUFFICES ASSUME Init PROVE IInv
    OBVIOUS
  <1>1. TypeOK /\ DoneInv
    BY TypeInit, BundleAssumption DEF Init, DoneInv, Size
  <1>2. TempInv /\ ToldInv /\ ThereInv /\ ReplaceInv
    BY DEF Init, TempInv, ToldInv, ThereInv, ReplaceInv, BeforeTake, Errors
  <1>3. DestinationWhole
    BY NameAssumption DEF Init, DestinationWhole
  <1> QED
    BY <1>1, <1>2, <1>3 DEF IInv

\* The strengthening of the properties of the protocol, which every step of publish.py keeps.
THEOREM Inductive == Spec => []IInv
  <1>1. IInv /\ [Next]_vars => IInv'
    BY TypeStep, DoneStep, TempStep, WholeStep, ToldStep, ThereStep, ReplaceStep DEF IInv
  <1> QED
    BY InvInit, <1>1, PTL DEF Spec

\* A reader of the name never sees part of an artifact or unvalidated bytes.
THEOREM NeverTorn == Spec => []DestinationWhole
  <1>1. IInv => DestinationWhole
    BY DEF IInv
  <1> QED
    BY Inductive, <1>1, PTL

\* What each caller is told of its publication is what happened.
THEOREM Truthful == Spec => []ToldTheTruth
  <1>1. IInv => ToldTheTruth
    BY DEF IInv, ToldInv, ToldTheTruth
  <1> QED
    BY Inductive, <1>1, PTL

\* An operation that ended left its temporary only if it could not be removed.
THEOREM CleansUp == Spec => []NoTemporary
  <1>1. IInv => NoTemporary
    BY DEF IInv, ThereInv, NoTemporary
  <1> QED
    BY Inductive, <1>1, PTL

\* Any number of processes publishing to one name keep the promise of
\* AtomicDestination.
THEOREM KeepsThePromise == Spec => Implements
  <1> DEFINE Object    == IF DestinationWhole THEN dst ELSE Foreign
             Replacing == {p \in Publishers : op[p] = "replace"}
  <1>1. Init => Promise!Init
    BY NameAssumption DEF Init, Promise!Init, DestinationWhole
  <1>2. ASSUME IInv, IInv', [Next]_vars
        PROVE  [Promise!Next]_<<Object, Replacing>>
    <2>1. DestinationWhole /\ DestinationWhole'
      BY <1>2 DEF IInv
    <2>2. Object = dst /\ Object' = dst'
      BY <2>1
    <2>3. Replacing' = Replacing
      BY <1>2 DEF Next, Step, Ended, Open, Look, Create, Write, Check, Rename, NoPrimitive,
             Link, Unlink, RenameOver, Return, Sync, Cleanup, Interrupt, Crash
    <2>4. CASE UNCHANGED dst
      BY <2>2, <2>3, <2>4
    <2>5. ASSUME NEW p \in Publishers, dst' = p, dst = Absent \/ RenameOver(p)
          PROVE  Promise!Next
      <3>1. CASE dst = Absent
        BY <2>1, <2>3, <2>5, <3>1 DEF Promise!Next, Promise!Publish
      <3>2. CASE RenameOver(p)
        <4>1. op[p] = "replace" /\ dst # Foreign
          BY <1>2, <3>2 DEF RenameOver, IInv, ReplaceInv
        <4> QED
          BY <2>1, <2>3, <2>5, <4>1 DEF Promise!Next, Promise!Replace
      <3> QED
        BY <2>5, <3>1, <3>2
    <2>6. TypeOK /\ TempInv
      BY <1>2 DEF IInv
    <2> QED
      BY <1>2, <2>4, <2>5, <2>6, NameStep
  <1> QED
    BY <1>1, <1>2, Inductive, PTL DEF Spec, Implements, Promise!Spec
=============================================================================
