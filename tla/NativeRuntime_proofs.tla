------------------------ MODULE NativeRuntime_proofs ------------------------
(* Proofs about NativeRuntime, for every number of threads and counters. *)
EXTENDS NativeRuntime, FiniteSetTheorems, TLAPS

USE DEF shared, handlers, threads, flush, files, history, vars, Running, Goto, Unregistered

-----------------------------------------------------------------------------
(* Every variable has its type. *)

\* The counter a pass over the counters is at, and the place after it.
LEMMA IndexInRange ==
  ASSUME NEW n \in 0 .. CounterCount, n < CounterCount
  PROVE  n \in Counters /\ n + 1 \in 0 .. CounterCount
  BY CounterAssumption DEF Counters

\* The runtime starts in its type.
LEMMA TypeInit == Init => TypeOK
  <1> SUFFICES ASSUME Init PROVE TypeOK
    OBVIOUS
  <1> USE CounterAssumption, BoundAssumption DEF Init, NoCounts, States
  <1>1. size \in SizeType
    BY DEF SizeType
  <1>2. out \in OutType
    BY DEF OutType, Counters
  <1>3. child \in ChildType
    BY DEF ChildType
  <1>4. pc \in [Threads -> PcType]
    BY DEF PcType
  <1>5. \A t \in Threads : pc[t] \notin {"load", "cas"}
    OBVIOUS
  <1>6. hits \in [Counters -> Nat] /\ base \in [Counters -> 0 .. MaxCount]
    OBVIOUS
  <1>7. /\ at \in [Threads -> Counters \cup {-1}]
        /\ old \in [Threads -> 0 .. MaxCount]
        /\ begun \in [Threads -> 0 .. HitBudget]
    OBVIOUS
  <1> QED
    BY <1>1, <1>2, <1>3, <1>4, <1>5, <1>6, <1>7 DEF TypeOK

\* A step of the end of a flush keeps the types of what it leaves alone.
LEMMA TypeFrame ==
  ASSUME TypeOK, UNCHANGED <<shared, required, handlers, at, old, begun, size, child, history>>,
         UNCHANGED pc, out' \in OutType,
         tmp' \in BOOLEAN, dst' \in {"absent", "other", "mine"},
         status' \in {"running", "user", "fail", "killed"}
  PROVE  TypeOK'
  BY DEF TypeOK

\* No step of a thread, of a fork or of a flush breaks the type invariant.
LEMMA TypeStep == TypeOK /\ [Next]_vars => TypeOK'
  <1> SUFFICES ASSUME TypeOK, [Next]_vars PROVE TypeOK'
    OBVIOUS
  <1> USE ThreadAssumption, CounterAssumption, TargetAssumption, BoundAssumption
      DEF TypeOK, PcType, Threads, States, InHit, InFlush
  <1>1. CASE StartFails             BY <1>1 DEF StartFails
  <1>2. CASE StartForkHandlersFail  BY <1>2 DEF StartForkHandlersFail
  <1>3. CASE Start                  BY <1>3 DEF Start
  <1>4. CASE StartAgain             BY <1>4 DEF StartAgain
  <1>5. CASE Exit                   BY <1>5 DEF Exit
  <1>6. ASSUME NEW t \in Workers, Spawn(t) PROVE TypeOK'
    BY <1>6 DEF Spawn
  <1>7. ASSUME NEW t \in Threads, NEW c \in Targets, Hit(t, c) PROVE TypeOK'
    <2>1. late' \in BOOLEAN
      BY <1>7 DEF Hit
    <2>2. at' \in [Threads -> Counters \cup {-1}] /\ begun' \in [Threads -> 0 .. HitBudget]
      BY <1>7 DEF Hit
    <2>3. pc' \in [Threads -> PcType]
      BY <1>7 DEF Hit
    <2>4. \A u \in Threads : pc'[u] \in {"load", "cas"} => at'[u] \in Counters
      BY <1>7 DEF Hit
    <2>5. missed' \in BOOLEAN
      BY <1>7 DEF Hit
    <2>6. UNCHANGED <<state, required, unresolved, counters, overflow, handlers, old,
                      flush, files, status, child, hits, base, joined>>
      BY <1>7 DEF Hit
    <2> QED
      BY <2>1, <2>2, <2>3, <2>4, <2>5, <2>6
  <1>8. ASSUME NEW t \in Threads, HitUnregistered(t) PROVE TypeOK'
    BY <1>8 DEF HitUnregistered
  <1>9. ASSUME NEW t \in Threads, HitLoad(t) PROVE TypeOK'
    BY <1>9 DEF HitLoad
  <1>10. ASSUME NEW t \in Threads, HitSaturated(t) PROVE TypeOK'
    BY <1>10 DEF HitSaturated
  <1>11. ASSUME NEW t \in Threads, HitIncrement(t) PROVE TypeOK'
    BY <1>11 DEF HitIncrement, Full
  <1>12. ASSUME NEW t \in Threads, HitRetry(t) PROVE TypeOK'
    BY <1>12 DEF HitRetry
  <1>19. CASE FlushEntry  BY <1>19 DEF FlushEntry, Unpublished
  <1>20. CASE FlushSwitch
    <2>1. CASE state = "ACTIVE"
      BY <1>20, <2>1 DEF FlushSwitch
    <2>2. CASE state # "ACTIVE"
      BY <1>20, <2>2 DEF FlushSwitch, Unpublished
    <2> QED
      BY <2>1, <2>2
  <1>21. CASE FlushSize
    <2>1. size' \in SizeType
      <3>1. CASE size.next < CounterCount
        <4> DEFINE n == size.next + 1
                   p == size.pairs + (IF counters[size.next] # 0 THEN 1 ELSE 0)
                   s == size.saturated \/ counters[size.next] = MaxCount
        <4>1. n \in 0 .. CounterCount /\ p \in Nat
          BY <3>1 DEF SizeType
        <4>2. s \in BOOLEAN
          OBVIOUS
        <4>3. size' = [next |-> n, pairs |-> p, saturated |-> s]
          BY <1>21, <3>1 DEF FlushSize
        <4> HIDE DEF n, p, s
        <4> QED
          BY <4>1, <4>2, <4>3 DEF SizeType
      <3>2. CASE ~(size.next < CounterCount)
        BY <1>21, <3>2 DEF FlushSize
      <3> QED
        BY <3>1, <3>2
    <2> QED
      BY <1>21, <2>1 DEF FlushSize
  <1>22. CASE FlushTemp
    <2>1. tmp' \in BOOLEAN /\ status' \in {"running", "user", "fail", "killed"}
      BY <1>22 DEF FlushTemp, Unpublished
    <2>2. pc' \in [Threads -> PcType] /\ pc'[Main] # "load" /\ pc'[Main] # "cas"
      BY <1>22 DEF FlushTemp, Unpublished
    <2>3. \A t \in Threads : t # Main => pc'[t] = pc[t]
      BY <1>22 DEF FlushTemp, Unpublished
    <2> QED
      BY <1>22, <2>1, <2>2, <2>3 DEF FlushTemp
  <1>23. CASE FlushWrite
    <2>1. out' \in OutType
      <3>1. CASE out.next < CounterCount
        <4> DEFINE i == out.next
                   w == out.written + (IF counters[i] # 0 THEN 1 ELSE 0)
                   v == IF w <= size.pairs THEN counters[i] ELSE 0
                   s == out.saturated \/ counters[i] = MaxCount
                   b == IF counters[i] = MaxCount /\ size.saturated
                        THEN out.bits \cup {i} ELSE out.bits
        <4>0. out.next \in 0 .. CounterCount
          BY DEF OutType
        <4>1. i \in Counters /\ i + 1 \in 0 .. CounterCount
          BY <3>1, <4>0, IndexInRange
        <4>2. w \in Nat /\ v \in 0 .. MaxCount /\ s \in BOOLEAN /\ b \in SUBSET Counters
          BY <4>1 DEF OutType
        <4>3. out' = [out EXCEPT !.next = i + 1, !.written = w, !.counts[i] = v,
                                 !.saturated = s, !.bits = b]
          BY <1>23, <3>1 DEF FlushWrite
        <4> HIDE DEF i, w, v, s, b
        <4> QED
          BY <4>1, <4>2, <4>3 DEF OutType
      <3>2. CASE ~(out.next < CounterCount)
        BY <1>23, <3>2 DEF FlushWrite
      <3> QED
        BY <3>1, <3>2
    <2> QED
      BY <1>23, <2>1 DEF FlushWrite
  <1>24. CASE FlushLate
    <2>1. out' \in OutType
      BY <1>24 DEF FlushLate, OutType, Racing
    <2> QED
      BY <1>24, <2>1 DEF FlushLate
  <1>25. CASE FlushBroken
    <2>1. out' \in OutType
      BY <1>25 DEF FlushBroken, OutType
    <2> QED
      BY <1>25, <2>1 DEF FlushBroken
  <1>26. CASE FlushClose
    <2>1. CASE Goto(Main, "commit") /\ UNCHANGED <<tmp, status>>
      BY <1>26, <2>1 DEF FlushClose
    <2>2. CASE DropTemp /\ Unpublished
      <3>1. /\ UNCHANGED <<shared, required, handlers, at, old, begun, size, child, history, pc>>
           /\ out' \in OutType /\ tmp' \in BOOLEAN /\ dst' \in {"absent", "other", "mine"}
           /\ status' \in {"running", "user", "fail", "killed"}
        BY <1>26, <2>2 DEF FlushClose, DropTemp, Unpublished
      <3> HIDE DEF TypeOK
      <3> QED
        BY <3>1, TypeFrame
    <2> QED
      BY <1>26, <2>1, <2>2 DEF FlushClose
  <1>27. CASE FlushCommit
    <2>1. out' \in OutType
      BY <1>27 DEF FlushCommit, CommitFails, OutType
    <2>2. CASE dst' = "mine" /\ tmp' = FALSE /\ status' = "user" /\ UNCHANGED pc
      BY <1>27, <2>1, <2>2 DEF FlushCommit
    <2>3. CASE CommitFails
      <3>1. /\ UNCHANGED <<shared, required, handlers, at, old, begun, size, child, history, pc>>
           /\ out' \in OutType /\ tmp' \in BOOLEAN /\ dst' \in {"absent", "other", "mine"}
           /\ status' \in {"running", "user", "fail", "killed"}
        BY <1>27, <2>1, <2>3 DEF FlushCommit, CommitFails, Unpublished, DropTemp
      <3> HIDE DEF TypeOK
      <3> QED
        BY <3>1, TypeFrame
    <2>4. CASE Goto(Main, "link") /\ UNCHANGED <<tmp, dst, status, out>>
      BY <1>27, <2>4 DEF FlushCommit
    <2> QED
      BY <1>27, <2>2, <2>3, <2>4 DEF FlushCommit
  <1>28. CASE FlushLink
    <2>1. out' \in OutType
      BY <1>28 DEF FlushLink, CommitFails, OutType
    <2>2. CASE dst' = "mine" /\ Goto(Main, "unlink") /\ UNCHANGED <<tmp, status>>
      BY <1>28, <2>1, <2>2 DEF FlushLink
    <2>3. CASE CommitFails
      <3>1. /\ UNCHANGED <<shared, required, handlers, at, old, begun, size, child, history, pc>>
           /\ out' \in OutType /\ tmp' \in BOOLEAN /\ dst' \in {"absent", "other", "mine"}
           /\ status' \in {"running", "user", "fail", "killed"}
        BY <1>28, <2>1, <2>3 DEF FlushLink, CommitFails, Unpublished, DropTemp
      <3> HIDE DEF TypeOK
      <3> QED
        BY <3>1, TypeFrame
    <2> QED
      BY <1>28, <2>2, <2>3 DEF FlushLink
  <1>29. CASE FlushUnlink
    <2>1. /\ UNCHANGED <<shared, required, handlers, at, old, begun, size, child, history, pc>>
         /\ out' \in OutType /\ tmp' \in BOOLEAN /\ dst' \in {"absent", "other", "mine"}
         /\ status' \in {"running", "user", "fail", "killed"}
      BY <1>29 DEF FlushUnlink
    <2> HIDE DEF TypeOK
    <2> QED
      BY <2>1, TypeFrame
  <1>30. ASSUME NEW t \in Threads, ForkPrepare(t) PROVE TypeOK'
    <2>1. child' \in ChildType
      BY <1>30 DEF ForkPrepare, ChildType
    <2> QED
      BY <1>30, <2>1 DEF ForkPrepare, MarksFork
  <1>31. ASSUME NEW t \in Threads, ForkCopy(t) PROVE TypeOK'
    <2>1. child' \in ChildType
      BY <1>31 DEF ForkCopy, Disarmed, ChildType
    <2> QED
      BY <1>31, <2>1 DEF ForkCopy
  <1>32. CASE ChildHit
    <2>1. child' \in ChildType
      BY <1>32 DEF ChildHit, ChildType
    <2> QED
      BY <1>32, <2>1 DEF ChildHit
  <1>33. CASE ChildExit
    <2>1. child' \in ChildType
      BY <1>33 DEF ChildExit, ChildType
    <2> QED
      BY <1>33, <2>1 DEF ChildExit
  <1>34. CASE Kill           BY <1>34 DEF Kill
  <1>35. CASE OtherPublishes BY <1>35 DEF OtherPublishes
  <1>36. CASE UNCHANGED vars BY <1>36
  <1> QED
    BY <1>1, <1>2, <1>3, <1>4, <1>5, <1>6, <1>7, <1>8, <1>9, <1>10, <1>11, <1>12, <1>19,
       <1>20, <1>21, <1>22, <1>23, <1>24, <1>25, <1>26, <1>27, <1>28, <1>29, <1>30,
       <1>31, <1>32, <1>33, <1>34, <1>35, <1>36
    DEF Next, HitStep, Flush, Ended

\* Type correctness, for any number of threads, counters and hits.
THEOREM TypeCorrect == Spec => []TypeOK
  BY TypeInit, TypeStep, PTL DEF Spec

-----------------------------------------------------------------------------
(* The inductive invariant, in the parts its proof uses one at a time.     *)

\* The flush past its compare-and-exchange, and past mkstemp.
AfterTemp   == {"write", "late", "broken", "close", "commit", "link", "unlink"}
AfterSwitch == {"size", "temp"} \cup AfterTemp
AtCommit    == {"commit", "link", "unlink"}

\* A value a thread is about to exchange is never ahead of the counter.
CountInv ==
    /\ CountersExact
    /\ \A t \in Threads : pc[t] = "cas" => old[t] <= counters[at[t]]

\* What the place of the exiting thread says of the state, the files, the child
\* and the end of the process.
PhaseInv ==
    /\ atexit => state # "OFF"
    /\ atfork \/ state \in {"OFF", "INCOMPLETE"}
    /\ Running /\ pc[Main] = "start" => state = "OFF" /\ \A t \in Workers : pc[t] = "idle"
    /\ required /\ pc[Main] # "start" => atexit
    /\ pc[Main] \in AfterSwitch => state \in {"FLUSHING", "INCOMPLETE"}
    /\ pc[Main] \notin AfterSwitch => state \in {"OFF", "ACTIVE", "INCOMPLETE"}
    /\ Published => pc[Main] \in AtCommit
    /\ pc[Main] = "unlink" => Published
    /\ required /\ status = "user" => Published
    /\ tmp => pc[Main] \in AfterTemp /\ status \in {"running", "killed"}
    /\ child.early => /\ pc[Main] \notin AfterSwitch
                      /\ state = "INCOMPLETE" \/ (unresolved /\ pc[Main] # "switch")
    /\ child.status \in {"none", "forking"} => child.state = "OFF"
    /\ child.early => child.state \in {"OFF", "FORKED", "INCOMPLETE"}
    /\ child.early /\ child.status = "running" => child.state # "OFF"
    /\ child.status = "none" => ~child.early
    /\ child.status # "none" => state # "OFF"
    /\ child.status \in {"none", "forking"} => ~child.counted /\ ~child.passed
    /\ ForkedChildStops

\* Counters only grow during the flush; with the threads joined they do not.
SnapshotInv ==
    pc[Main] \in AfterSwitch =>
        /\ \A c \in Counters : base[c] <= counters[c]
        /\ joined => /\ state = "FLUSHING"
                     /\ \A t \in Threads : pc[t] \notin InHit
                     /\ \A c \in Counters : base[c] = counters[c]

\* What pass 2 has written so far: until it has met more nonzero counters than
\* pass 1, each written count lies between the snapshot and the counter.
WriteInv ==
    /\ pc[Main] \notin AfterTemp => out.next = 0
    /\ \A c \in Counters : out.counts[c] <= counters[c]
    /\ \A c \in Counters : c >= out.next => out.counts[c] = 0
    /\ pc[Main] \in AfterTemp /\ out.written <= size.pairs =>
          \A c \in Counters : c < out.next => base[c] <= out.counts[c]
    /\ pc[Main] \in AfterTemp \ {"write"} => out.next = CounterCount
    /\ pc[Main] \in {"broken", "close"} /\ ~out.racing => out.written = size.pairs
    /\ pc[Main] \in AtCommit => out.written = size.pairs

\* What pass 2 has put into the file beside the pairs: until it has met more nonzero
\* counters than pass 1, it has written as many pairs as counts, the bitmap marks the
\* counts at the maximum, and the file is no longer than the tier allows.
FormInv ==
    /\ pc[Main] \in AfterTemp => EncodedBytes <= TierMaxBytes
    /\ pc[Main] \notin AfterTemp => out.written = 0 /\ out.bits = {} /\ ~out.saturated
    /\ out.written <= size.pairs =>
          /\ Cardinality(Nonzero(out.counts)) = out.written
          /\ out.bits = IF size.saturated THEN {c \in Counters : out.counts[c] = MaxCount} ELSE {}
          /\ out.saturated <=> \E c \in Counters : out.counts[c] = MaxCount
    /\ pc[Main] \in {"broken", "close"} /\ ~out.racing => out.saturated = size.saturated
    /\ pc[Main] \in AtCommit => out.saturated = size.saturated

\* What was turned away is marked, and the flush that sees a mark publishes nothing.
MissInv ==
    missed => /\ pc[Main] \in AfterSwitch \ AtCommit
              /\ late \/ state = "INCOMPLETE"
              /\ pc[Main] = "broken" => out.racing \/ state = "INCOMPLETE"
              /\ pc[Main] = "close" => out.racing \/ out.broken

IInv == TypeOK /\ CountInv /\ PhaseInv /\ SnapshotInv /\ WriteInv /\ FormInv /\ MissInv

-----------------------------------------------------------------------------
(* CountInv. *)

\* Steps that leave counters and hits alone leave what they say of each other.
LEMMA CountFrame ==
  ASSUME CountInv, UNCHANGED <<counters, overflow, old, hits>>,
         \A t \in Threads : pc'[t] = "cas" => pc[t] = "cas" /\ at'[t] = at[t]
  PROVE  CountInv'
  BY DEF CountInv, CountersExact, Saturated

\* No step breaks the relation of the counters to the hits.
LEMMA CountStep == TypeOK /\ CountInv /\ [Next]_vars => CountInv'
  <1> SUFFICES ASSUME TypeOK, CountInv, [Next]_vars PROVE CountInv'
    OBVIOUS
  <1>a. pc \in [Threads -> PcType] /\ at \in [Threads -> Counters \cup {-1}]
    BY DEF TypeOK
  <1>b. /\ counters \in [Counters -> 0 .. MaxCount] /\ hits \in [Counters -> Nat]
        /\ old \in [Threads -> 0 .. MaxCount] /\ overflow \subseteq Counters
        /\ \A t \in Threads : pc[t] \in {"load", "cas"} => at[t] \in Counters
        /\ MaxCount \in Nat \ {0}
    BY CounterAssumption DEF TypeOK
  <1>1. CASE StartFails \/ StartForkHandlersFail \/ Start \/ StartAgain \/ Exit
    BY <1>1, <1>a, CountFrame
    DEF StartFails, StartForkHandlersFail, Start, StartAgain, Exit, Threads
  <1>2. ASSUME NEW t \in Workers, Spawn(t) PROVE CountInv'
    BY <1>2, <1>a, CountFrame DEF Spawn, Threads
  <1>3. ASSUME NEW t \in Threads, NEW c \in Targets, Hit(t, c) PROVE CountInv'
    BY <1>3, <1>a, CountFrame DEF Hit
  <1>4. ASSUME NEW t \in Threads, HitUnregistered(t) PROVE CountInv'
    BY <1>4, <1>a, CountFrame DEF HitUnregistered
  <1>5. ASSUME NEW t \in Threads, HitLoad(t) PROVE CountInv'
    BY <1>5, <1>a, <1>b DEF HitLoad, CountInv, CountersExact, Saturated
  <1>6. ASSUME NEW t \in Threads, HitSaturated(t) PROVE CountInv'
    BY <1>6, <1>a, <1>b DEF HitSaturated, Full, CountInv, CountersExact, Saturated
  <1>7. ASSUME NEW t \in Threads, HitIncrement(t) PROVE CountInv'
    BY <1>7, <1>a, <1>b DEF HitIncrement, Full, Exchanges, CountInv, CountersExact, Saturated
  <1>8. ASSUME NEW t \in Threads, HitRetry(t) PROVE CountInv'
    BY <1>8, <1>a, <1>b DEF HitRetry, CountInv, CountersExact, Saturated
  <1>9. CASE FlushEntry \/ FlushSwitch \/ FlushSize \/ FlushTemp \/ FlushWrite
    BY <1>9, <1>a, CountFrame
    DEF FlushEntry, FlushSwitch, FlushSize, FlushTemp, FlushWrite, Unpublished, Threads
  <1>10. CASE FlushLate \/ FlushBroken \/ FlushClose \/ FlushUnlink
    BY <1>10, <1>a, CountFrame
    DEF FlushLate, FlushBroken, FlushClose, FlushUnlink, Unpublished, Threads
  <1>11. CASE FlushCommit \/ FlushLink
    BY <1>11, <1>a, CountFrame
    DEF FlushCommit, FlushLink, CommitFails, Unpublished, Threads
  <1>12. ASSUME NEW t \in Threads, ForkPrepare(t) \/ ForkCopy(t) PROVE CountInv'
    BY <1>12, <1>a, CountFrame DEF ForkPrepare, ForkCopy
  <1>13. CASE ChildHit \/ ChildExit \/ Kill \/ OtherPublishes \/ UNCHANGED vars
    BY <1>13, CountFrame DEF ChildHit, ChildExit, Kill, OtherPublishes
  <1> QED
    BY <1>1, <1>2, <1>3, <1>4, <1>5, <1>6, <1>7, <1>8, <1>9, <1>10, <1>11, <1>12, <1>13
    DEF Next, HitStep, Flush, Ended

-----------------------------------------------------------------------------
(* PhaseInv. *)

\* No step breaks what each phase of the flush knows.
LEMMA PhaseStep == TypeOK /\ PhaseInv /\ [Next]_vars => PhaseInv'
  <1> SUFFICES ASSUME TypeOK, PhaseInv, [Next]_vars PROVE PhaseInv'
    OBVIOUS
  <1>a. pc \in [Threads -> PcType] /\ Main \in Threads
    BY DEF TypeOK, Threads
  <1>b. child \in ChildType
    BY DEF TypeOK
  <1>c. child.status \in {"none", "forking"} => ~child.counted /\ ~child.passed
    BY DEF PhaseInv
  <1> USE <1>a DEF PhaseInv, ForkedChildStops, AfterSwitch, AfterTemp, AtCommit, Published
  <1>d. Workers \subseteq Threads /\ Main \notin Workers
    BY ThreadAssumption DEF Threads
  <1> USE <1>d
  <1>1. CASE StartFails \/ StartForkHandlersFail \/ Start \/ StartAgain \/ Exit
    <2>1. CASE StartFails
      BY <2>1 DEF StartFails
    <2>2. CASE StartForkHandlersFail
      BY <2>2 DEF StartForkHandlersFail
    <2>3. CASE Start
      BY <2>3 DEF Start
    <2>4. CASE StartAgain \/ Exit
      BY <2>4 DEF StartAgain, Exit
    <2> QED
      BY <1>1, <2>1, <2>2, <2>3, <2>4
  <1>2. ASSUME NEW t \in Workers, Spawn(t) PROVE PhaseInv'
    <2>1. pc'[Main] = pc[Main]
      BY <1>2, ThreadAssumption DEF Spawn, Threads
    <2> QED
      BY <1>2, <2>1 DEF Spawn
  <1>3. ASSUME NEW t \in Threads, NEW c \in Targets, Hit(t, c) PROVE PhaseInv'
    BY <1>3 DEF Hit
  <1>4. ASSUME NEW t \in Threads, HitUnregistered(t) PROVE PhaseInv'
    <2>1. pc[Main] # "start"
      BY <1>4 DEF HitUnregistered, Threads
    <2>2. pc'[Main] = pc[Main] \/ (pc[Main] = "bad" /\ pc'[Main] = "run")
      BY <1>4 DEF HitUnregistered
    <2>3. state' = "INCOMPLETE" /\ UNCHANGED <<unresolved, required, handlers, files, status, child>>
      BY <1>4 DEF HitUnregistered
    <2> QED
      BY <2>1, <2>2, <2>3
  <1>5. ASSUME NEW t \in Threads, HitLoad(t) PROVE PhaseInv'
    BY <1>5 DEF HitLoad
  <1>6. ASSUME NEW t \in Threads, HitSaturated(t) \/ HitIncrement(t) \/ HitRetry(t)
        PROVE PhaseInv'
    BY <1>6 DEF HitSaturated, HitIncrement, HitRetry
  <1>7. CASE FlushEntry
    <2>1. CASE unresolved
      BY <1>7, <2>1 DEF FlushEntry, Unpublished
    <2>2. CASE ~unresolved
      BY <1>7, <2>2 DEF FlushEntry
    <2> QED
      BY <2>1, <2>2
  <1>8. CASE FlushSwitch /\ state = "ACTIVE"
    BY <1>8 DEF FlushSwitch
  <1>9. CASE FlushSwitch /\ state # "ACTIVE"
    BY <1>9 DEF FlushSwitch, Unpublished
  <1>10. CASE FlushSize \/ FlushTemp
    BY <1>10 DEF FlushSize, FlushTemp, Unpublished
  <1>11. CASE FlushWrite \/ FlushLate \/ FlushBroken
    BY <1>11 DEF FlushWrite, FlushLate, FlushBroken
  <1>12. CASE FlushClose
    BY <1>12 DEF FlushClose, Unpublished, DropTemp
  <1>13. CASE FlushCommit
    BY <1>13 DEF FlushCommit, CommitFails, Unpublished, DropTemp, NameFree
  <1>14. CASE FlushLink
    BY <1>14 DEF FlushLink, CommitFails, Unpublished, DropTemp, NameFree
  <1>15. CASE FlushUnlink
    BY <1>15 DEF FlushUnlink
  <1>16. ASSUME NEW t \in Threads, ForkPrepare(t) PROVE PhaseInv'
    <2>1. /\ child'.early <=> pc[Main] \notin InFlush \ {"entry"}
          /\ child'.status = "forking" /\ child'.state = child.state
          /\ ~child'.counted /\ ~child'.passed
      BY <1>16, <1>b, <1>c DEF ForkPrepare, ChildType
    <2>2. pc'[Main] \in {pc[Main], "fork"} /\ (unresolved' \/ state = "INCOMPLETE")
      BY <1>16 DEF ForkPrepare, MarksFork
    <2>3. child.state = "OFF"
      BY <1>16 DEF ForkPrepare
    <2>4. ForkedChildStops'
      BY <2>1
    <2>5. /\ child'.early => pc'[Main] \notin AfterSwitch /\ pc'[Main] # "switch"
          /\ pc'[Main] \in AfterSwitch <=> pc[Main] \in AfterSwitch
          /\ pc'[Main] = "start" <=> pc[Main] = "start"
      BY <1>16, <2>1 DEF InFlush, ForkPrepare
    <2>6. /\ pc'[Main] \in AtCommit <=> pc[Main] \in AtCommit
          /\ pc'[Main] \in AfterTemp <=> pc[Main] \in AfterTemp
          /\ pc'[Main] = "unlink" <=> pc[Main] = "unlink"
      BY <1>16 DEF ForkPrepare
    <2> QED
      BY <1>16, <2>1, <2>2, <2>3, <2>4, <2>5, <2>6 DEF ForkPrepare
  <1>17. ASSUME NEW t \in Threads, ForkCopy(t) PROVE PhaseInv'
    <2>1. /\ child'.early <=> child.early
          /\ child'.status = "running" /\ child'.state = Disarmed
          /\ ~child'.counted /\ ~child'.passed
      <3> DEFINE h == atexit /\ pc[Main] \notin InFlush
      <3>1. child' = [child EXCEPT !.status = "running", !.state = Disarmed, !.handler = h]
        BY <1>17 DEF ForkCopy
      <3>2. child.status = "forking"
        BY <1>17 DEF ForkCopy
      <3> HIDE DEF h
      <3> QED
        BY <3>1, <3>2, <1>b, <1>c DEF ChildType
    <2>2. /\ pc'[Main] \in AfterSwitch <=> pc[Main] \in AfterSwitch
          /\ pc'[Main] \in AtCommit <=> pc[Main] \in AtCommit
          /\ pc'[Main] \in AfterTemp <=> pc[Main] \in AfterTemp
          /\ pc'[Main] = "unlink" <=> pc[Main] = "unlink"
          /\ pc'[Main] = "switch" <=> pc[Main] = "switch"
          /\ pc'[Main] = "start" <=> pc[Main] = "start"
      BY <1>17 DEF ForkCopy
    <2>3. child.early => Disarmed \in {"FORKED", "INCOMPLETE"}
      BY <1>17 DEF ForkCopy, Disarmed
    <2>4. ForkedChildStops'
      BY <2>1
    <2> QED
      BY <1>17, <2>1, <2>2, <2>3, <2>4 DEF ForkCopy
  <1>18. CASE ChildHit \/ ChildExit
    <2>1. /\ child'.early <=> child.early
          /\ child'.state = child.state
          /\ child.status = "running" /\ child'.status \notin {"none", "forking"}
      BY <1>18, <1>b DEF ChildHit, ChildExit, ChildType
    <2>2. \/ (child'.counted <=> child.counted) /\ (child'.passed <=> child.passed)
          \/ /\ child'.counted <=> child.state = "ACTIVE"
             /\ ~(child.state = "FORKED" /\ required)
      BY <1>18, <1>b DEF ChildHit, ChildExit, ChildType
    <2>3. ForkedChildStops'
      BY <1>18, <2>1, <2>2 DEF ChildHit, ChildExit
    <2>4. UNCHANGED <<shared, required, handlers, pc, files, status>>
      BY <1>18 DEF ChildHit, ChildExit
    <2> QED
      BY <2>1, <2>3, <2>4
  <1>19. CASE Kill \/ OtherPublishes \/ UNCHANGED vars
    BY <1>19 DEF Kill, OtherPublishes
  <1> QED
    BY <1>1, <1>2, <1>3, <1>4, <1>5, <1>6, <1>7, <1>8, <1>9, <1>10, <1>11, <1>12, <1>13,
       <1>14, <1>15, <1>16, <1>17, <1>18, <1>19
    DEF Next, HitStep, Flush, Ended

-----------------------------------------------------------------------------
(* Counters never go down, and only a thread inside a hit moves one. *)

\* Counters only grow, and only in a hit.
LEMMA Monotone ==
  ASSUME TypeOK, [Next]_vars
  PROVE  /\ \A c \in Counters : counters[c] <= counters'[c]
         /\ (\A t \in Threads : pc[t] \notin InHit) => UNCHANGED counters
  <1>a. counters \in [Counters -> 0 .. MaxCount] /\ MaxCount \in Nat \ {0}
    BY CounterAssumption DEF TypeOK
  <1>1. ASSUME NEW t \in Threads, HitIncrement(t)
        PROVE  /\ \A c \in Counters : counters[c] <= counters'[c]
               /\ pc[t] \in InHit
    <2>1. at[t] \in Counters /\ old[t] \in 0 .. MaxCount
      BY <1>1 DEF TypeOK, HitIncrement
    <2> QED
      BY <1>1, <1>a, <2>1 DEF HitIncrement, Exchanges, InHit
  <1>2. CASE UNCHANGED counters
    BY <1>2, <1>a
  <1>3. (\A t \in Threads : ~HitIncrement(t)) => UNCHANGED counters
    BY DEF Next, HitStep, Flush, Ended, StartFails, StartForkHandlersFail, Start,
           StartAgain, Exit, Spawn, Hit, HitUnregistered, HitLoad, HitSaturated, HitRetry,
           FlushEntry, FlushSwitch, FlushSize, FlushTemp, FlushWrite, FlushLate,
           FlushBroken, FlushClose, FlushCommit, FlushLink, FlushUnlink, ForkPrepare,
           ForkCopy, ChildHit, ChildExit, Kill, OtherPublishes
  <1> QED
    BY <1>1, <1>2, <1>3

-----------------------------------------------------------------------------
(* SnapshotInv. *)

\* A step that neither begins the flush nor touches the state keeps it.
LEMMA SnapshotFrame ==
  ASSUME TypeOK, SnapshotInv, [Next]_vars, UNCHANGED <<base, joined, state>>,
         pc'[Main] \in AfterSwitch => pc[Main] \in AfterSwitch,
         \A t \in Threads : pc'[t] \in InHit => pc[t] \in InHit \/ state = "ACTIVE"
  PROVE  SnapshotInv'
  <1>1. \A c \in Counters : base[c] \in Int /\ counters[c] \in Int /\ counters'[c] \in Int
    BY TypeStep DEF TypeOK
  <1> QED
    BY <1>1, Monotone DEF SnapshotInv

\* No step breaks what is known of the snapshot that is published.
LEMMA SnapshotStep == TypeOK /\ PhaseInv /\ SnapshotInv /\ [Next]_vars => SnapshotInv'
  <1> SUFFICES ASSUME TypeOK, PhaseInv, SnapshotInv, [Next]_vars PROVE SnapshotInv'
    OBVIOUS
  <1>a. pc \in [Threads -> PcType] /\ Main \in Threads
    BY DEF TypeOK, Threads
  <1> USE <1>a DEF AfterSwitch, AfterTemp, InHit
  <1>1. CASE StartFails \/ StartForkHandlersFail \/ Start \/ StartAgain \/ Exit
    BY <1>1 DEF StartFails, StartForkHandlersFail, Start, StartAgain, Exit, SnapshotInv
  <1>2. ASSUME NEW t \in Workers, Spawn(t) PROVE SnapshotInv'
    BY <1>2, ThreadAssumption, SnapshotFrame DEF Spawn, Threads
  <1>3. ASSUME NEW t \in Threads, NEW c \in Targets, Hit(t, c) PROVE SnapshotInv'
    BY <1>3, SnapshotFrame DEF Hit, Counting
  <1>4. ASSUME NEW t \in Threads, HitUnregistered(t) PROVE SnapshotInv'
    BY <1>4 DEF HitUnregistered, SnapshotInv
  <1>5. ASSUME NEW t \in Threads,
               HitLoad(t) \/ HitSaturated(t) \/ HitIncrement(t) \/ HitRetry(t)
        PROVE  SnapshotInv'
    BY <1>5, SnapshotFrame DEF HitLoad, HitSaturated, HitIncrement, HitRetry
  <1>6. CASE FlushEntry
    BY <1>6, SnapshotFrame DEF FlushEntry, Unpublished
  <1>7. CASE FlushSwitch
    <2>1. CASE state = "ACTIVE"
      <3>1. \A c \in Counters : counters[c] \in Int
        BY DEF TypeOK
      <3> QED
        BY <1>7, <2>1, <3>1 DEF FlushSwitch, SnapshotInv
    <2>2. CASE state # "ACTIVE"
      BY <1>7, <2>2, SnapshotFrame DEF FlushSwitch, Unpublished
    <2> QED
      BY <2>1, <2>2
  <1>8. CASE FlushSize \/ FlushTemp \/ FlushWrite
    BY <1>8, SnapshotFrame DEF FlushSize, FlushTemp, FlushWrite, Unpublished
  <1>9. CASE FlushLate \/ FlushBroken \/ FlushClose \/ FlushUnlink
    BY <1>9, SnapshotFrame DEF FlushLate, FlushBroken, FlushClose, FlushUnlink, Unpublished
  <1>10. CASE FlushCommit \/ FlushLink
    BY <1>10, SnapshotFrame DEF FlushCommit, FlushLink, CommitFails, Unpublished
  <1>11. ASSUME NEW t \in Threads, ForkPrepare(t) \/ ForkCopy(t) PROVE SnapshotInv'
    BY <1>11, SnapshotFrame DEF ForkPrepare, ForkCopy
  <1>12. CASE ChildHit \/ ChildExit \/ Kill \/ OtherPublishes \/ UNCHANGED vars
    BY <1>12, SnapshotFrame DEF ChildHit, ChildExit, Kill, OtherPublishes
  <1> QED
    BY <1>1, <1>2, <1>3, <1>4, <1>5, <1>6, <1>7, <1>8, <1>9, <1>10, <1>11, <1>12
    DEF Next, HitStep, Flush, Ended

-----------------------------------------------------------------------------
(* WriteInv. *)

\* A step that moves neither the flush nor what it has written keeps it.
LEMMA WriteFrame ==
  ASSUME TypeOK, WriteInv, [Next]_vars, UNCHANGED <<base, size, out>>,
         pc[Main] \in AfterTemp <=> pc'[Main] \in AfterTemp,
         pc'[Main] = "write" <=> pc[Main] = "write",
         pc'[Main] \in {"broken", "close"} => pc[Main] \in {"broken", "close"},
         pc'[Main] \in AtCommit =>
            pc[Main] \in AtCommit \/ (pc[Main] = "close" /\ ~out.racing)
  PROVE  WriteInv'
  <1>1. \A c \in Counters : /\ counters[c] \in Int /\ counters'[c] \in Int
                            /\ out.counts[c] \in Int
    BY TypeStep DEF TypeOK, OutType
  <1> QED
    BY <1>1, Monotone DEF WriteInv

\* No step breaks what is known of the files that were written.
LEMMA WriteStep == TypeOK /\ SnapshotInv /\ WriteInv /\ [Next]_vars => WriteInv'
  <1> SUFFICES ASSUME TypeOK, SnapshotInv, WriteInv, [Next]_vars PROVE WriteInv'
    OBVIOUS
  <1>a. pc \in [Threads -> PcType] /\ Main \in Threads
    BY DEF TypeOK, Threads
  <1> USE <1>a DEF AfterTemp, AtCommit
  <1>1. CASE StartFails \/ StartForkHandlersFail \/ Start \/ StartAgain \/ Exit
    BY <1>1, WriteFrame DEF StartFails, StartForkHandlersFail, Start, StartAgain, Exit
  <1>2. ASSUME NEW t \in Workers, Spawn(t) PROVE WriteInv'
    BY <1>2, ThreadAssumption, WriteFrame DEF Spawn, Threads
  <1>3. ASSUME NEW t \in Threads, NEW c \in Targets, Hit(t, c) PROVE WriteInv'
    BY <1>3, WriteFrame DEF Hit
  <1>4. ASSUME NEW t \in Threads, HitStep(t) PROVE WriteInv'
    BY <1>4, WriteFrame
    DEF HitStep, HitUnregistered, HitLoad, HitSaturated, HitIncrement, HitRetry
  <1>5. CASE FlushEntry \/ FlushSwitch
    <2>1. pc[Main] \notin AfterTemp /\ pc'[Main] \notin AfterTemp /\ UNCHANGED <<out, counters>>
      BY <1>5 DEF FlushEntry, FlushSwitch, Unpublished
    <2> QED
      BY <2>1 DEF WriteInv
  <1>6. CASE FlushSize
    <2>1. pc[Main] \notin AfterTemp /\ pc'[Main] \notin AfterTemp /\ UNCHANGED <<out, counters>>
      BY <1>6 DEF FlushSize
    <2> QED
      BY <2>1 DEF WriteInv
  <1>7. CASE FlushTemp
    <2>1. /\ pc[Main] \notin AfterTemp /\ UNCHANGED <<out, counters, base, size>>
          /\ pc'[Main] \notin AfterTemp \/ pc'[Main] = "write"
      BY <1>7 DEF FlushTemp, Unpublished
    <2>2. \A c \in Counters : ~(c < 0)
      BY DEF Counters
    <2> QED
      BY <2>1, <2>2 DEF WriteInv
  <1>8. CASE FlushWrite
    <2>a. /\ size.pairs \in Nat /\ out.written \in Nat /\ out.next \in 0 .. CounterCount
          /\ counters \in [Counters -> Nat] /\ out.counts \in [Counters -> Nat]
      BY CounterAssumption DEF TypeOK, SizeType, OutType
    <2>b. pc[Main] = "write" /\ UNCHANGED <<base, size, counters>>
      BY <1>8 DEF FlushWrite
    <2>1. CASE ~(out.next < CounterCount)
      <3>1. out' = out /\ pc'[Main] = "late" /\ out.next = CounterCount
        BY <1>8, <2>a, <2>1, CounterAssumption DEF FlushWrite
      <3> QED
        BY <2>b, <3>1 DEF WriteInv
    <2>2. CASE out.next < CounterCount
      <3> DEFINE i == out.next
                 w == out.written + (IF counters[i] # 0 THEN 1 ELSE 0)
                 v == IF w <= size.pairs THEN counters[i] ELSE 0
      <3>1. i \in Counters /\ i \in Nat
        BY <2>a, <2>2, IndexInRange
      <3>2. /\ out'.next = i + 1 /\ out'.written = w /\ UNCHANGED pc
            /\ out'.counts = [out.counts EXCEPT ![i] = v]
        BY <1>8, <2>2 DEF FlushWrite, TypeOK, OutType
      <3>3. w \in Nat /\ out.written <= w /\ v \in Nat /\ v <= counters[i]
        BY <2>a, <3>1
      <3>4. base[i] <= counters[i]
        BY <2>b, <3>1 DEF SnapshotInv, AfterSwitch
      <3>5. \A c \in Counters : c \in Int
        BY DEF Counters
      <3>6. \A c \in Counters : out'.counts[c] = IF c = i THEN v ELSE out.counts[c]
        BY <2>a, <3>1, <3>2
      <3>7. w <= size.pairs => v = counters[i] /\ out.written <= size.pairs
        BY <2>a, <3>3
      <3> HIDE DEF i, w, v
      <3>8. \A c \in Counters : out'.counts[c] <= counters'[c]
        BY <2>a, <2>b, <3>3, <3>6 DEF WriteInv
      <3>9. \A c \in Counters : c >= out'.next => out'.counts[c] = 0
        BY <2>a, <3>1, <3>2, <3>5, <3>6 DEF WriteInv, i
      <3>10. out'.written <= size.pairs =>
                \A c \in Counters : c < out'.next => base[c] <= out'.counts[c]
        BY <2>b, <3>1, <3>2, <3>4, <3>5, <3>6, <3>7 DEF WriteInv, i
      <3> QED
        BY <2>b, <3>2, <3>8, <3>9, <3>10 DEF WriteInv
    <2> QED
      BY <2>1, <2>2
  <1>9. CASE FlushLate
    <2>1. /\ pc[Main] = "late" /\ pc'[Main] = "broken" /\ UNCHANGED <<size, base, counters>>
          /\ out'.next = out.next /\ out'.written = out.written /\ out'.counts = out.counts
      BY <1>9 DEF FlushLate, TypeOK, OutType
    <2>2. ~out'.racing => out.written = size.pairs
      BY <1>9 DEF FlushLate, Racing, TypeOK, OutType
    <2> QED
      BY <2>1, <2>2 DEF WriteInv
  <1>10. CASE FlushBroken
    <2>1. /\ pc[Main] = "broken" /\ pc'[Main] = "close" /\ UNCHANGED <<size, base, counters>>
          /\ out'.next = out.next /\ out'.written = out.written /\ out'.counts = out.counts
          /\ out'.racing <=> out.racing
      BY <1>10 DEF FlushBroken, TypeOK, OutType
    <2> QED
      BY <2>1 DEF WriteInv
  <1>11. CASE FlushClose \/ FlushUnlink
    BY <1>11, WriteFrame DEF FlushClose, FlushUnlink, Unpublished
  <1>12. CASE FlushCommit \/ FlushLink
    <2>1. /\ pc[Main] \in AtCommit /\ pc'[Main] \in AtCommit
          /\ UNCHANGED <<size, base, counters>>
      BY <1>12 DEF FlushCommit, FlushLink, CommitFails, Unpublished
    <2>2. out'.next = out.next /\ out'.written = out.written /\ out'.counts = out.counts
      BY <1>12 DEF FlushCommit, FlushLink, CommitFails, TypeOK, OutType
    <2> QED
      BY <2>1, <2>2 DEF WriteInv
  <1>13. ASSUME NEW t \in Threads, ForkPrepare(t) \/ ForkCopy(t) PROVE WriteInv'
    BY <1>13, WriteFrame DEF ForkPrepare, ForkCopy
  <1>14. CASE ChildHit \/ ChildExit \/ Kill \/ OtherPublishes \/ UNCHANGED vars
    BY <1>14, WriteFrame DEF ChildHit, ChildExit, Kill, OtherPublishes
  <1> QED
    BY <1>1, <1>2, <1>3, <1>4, <1>5, <1>6, <1>7, <1>8, <1>9, <1>10, <1>11, <1>12, <1>13,
       <1>14
    DEF Next, Flush, Ended

-----------------------------------------------------------------------------
(* FormInv. *)

\* A step that moves neither the flush nor what it has written keeps it.
LEMMA FormFrame ==
  ASSUME FormInv, UNCHANGED size,
         out'.written = out.written /\ out'.counts = out.counts /\ out'.bits = out.bits,
         out'.saturated = out.saturated /\ out'.racing = out.racing,
         pc[Main] \in AfterTemp <=> pc'[Main] \in AfterTemp,
         pc'[Main] \in {"broken", "close"} => pc[Main] \in {"broken", "close"},
         pc'[Main] \in AtCommit =>
            pc[Main] \in AtCommit \/ (pc[Main] = "close" /\ ~out.racing)
  PROVE  FormInv'
  <1>1. EncodedBytes' = EncodedBytes
    BY DEF EncodedBytes, Words
  <1>2. Nonzero(out.counts)' = Nonzero(out.counts)
    BY DEF Nonzero
  <1> QED
    BY <1>1, <1>2 DEF FormInv

\* Before pass 2 nothing is written.
LEMMA NothingWritten ==
  ASSUME TypeOK, WriteInv, pc[Main] \notin AfterTemp
  PROVE  /\ \A c \in Counters : out.counts[c] = 0
         /\ Cardinality(Nonzero(out.counts)) = 0
         /\ ~\E c \in Counters : out.counts[c] = MaxCount
         /\ {c \in Counters : out.counts[c] = MaxCount} = {}
  <1>1. \A c \in Counters : c >= 0
    BY DEF Counters
  <1>2. \A c \in Counters : out.counts[c] = 0
    BY <1>1 DEF WriteInv
  <1>3. Nonzero(out.counts) = {}
    BY <1>2 DEF Nonzero
  <1> QED
    BY <1>2, <1>3, FS_EmptySet, CounterAssumption

\* No step breaks what is known of the form of the file.
LEMMA FormStep == TypeOK /\ WriteInv /\ FormInv /\ [Next]_vars => FormInv'
  <1> SUFFICES ASSUME TypeOK, WriteInv, FormInv, [Next]_vars PROVE FormInv'
    OBVIOUS
  <1>a. pc \in [Threads -> PcType] /\ Main \in Threads
    BY DEF TypeOK, Threads
  <1> USE <1>a DEF AfterTemp, AtCommit
  <1>1. CASE StartFails \/ StartForkHandlersFail \/ Start \/ StartAgain \/ Exit
    BY <1>1, FormFrame DEF StartFails, StartForkHandlersFail, Start, StartAgain, Exit
  <1>2. ASSUME NEW t \in Workers, Spawn(t) PROVE FormInv'
    BY <1>2, ThreadAssumption, FormFrame DEF Spawn, Threads
  <1>3. ASSUME NEW t \in Threads, NEW c \in Targets, Hit(t, c) PROVE FormInv'
    BY <1>3, FormFrame DEF Hit
  <1>4. ASSUME NEW t \in Threads, HitStep(t) PROVE FormInv'
    BY <1>4, FormFrame
    DEF HitStep, HitUnregistered, HitLoad, HitSaturated, HitIncrement, HitRetry
  <1>5. CASE FlushEntry \/ FlushSwitch
    BY <1>5, FormFrame DEF FlushEntry, FlushSwitch, Unpublished
  <1>6. CASE FlushSize
    <2>1. pc[Main] \notin AfterTemp /\ pc'[Main] \notin AfterTemp /\ UNCHANGED out
      BY <1>6 DEF FlushSize
    <2>2. Nonzero(out.counts)' = Nonzero(out.counts)
      BY <2>1 DEF Nonzero
    <2>3. pc'[Main] \notin {"broken", "close"} /\ pc'[Main] \notin AtCommit
      BY <2>1
    <2> HIDE DEF AfterTemp, AtCommit
    <2>4. out'.written = 0 /\ out'.bits = {} /\ ~out'.saturated
      BY <2>1 DEF FormInv
    <2>5. out.written = 0
      BY <2>1 DEF FormInv
    <2> QED
      BY <2>1, <2>2, <2>3, <2>4, <2>5, NothingWritten DEF FormInv
  <1>7. CASE FlushTemp
    <2>1. /\ pc[Main] \notin AfterTemp /\ UNCHANGED <<out, size>>
          /\ pc'[Main] \notin AfterTemp \/ (pc'[Main] = "write" /\ EncodedBytes <= TierMaxBytes)
      BY <1>7 DEF FlushTemp, Unpublished
    <2>2. Nonzero(out.counts)' = Nonzero(out.counts) /\ EncodedBytes' = EncodedBytes
      BY <2>1 DEF Nonzero, EncodedBytes, Words
    <2>3. pc'[Main] \notin {"broken", "close"} /\ pc'[Main] \notin AtCommit
      BY <2>1
    <2> QED
      BY <2>1, <2>2, <2>3 DEF FormInv
  <1>8. CASE FlushWrite
    <2>a. /\ size.pairs \in Nat /\ out.written \in Nat /\ out.next \in 0 .. CounterCount
          /\ counters \in [Counters -> Nat] /\ out.counts \in [Counters -> Nat]
          /\ MaxCount \in Nat \ {0}
      BY CounterAssumption DEF TypeOK, SizeType, OutType
    <2>b. pc[Main] = "write" /\ UNCHANGED size
      BY <1>8 DEF FlushWrite
    <2>c. EncodedBytes' = EncodedBytes /\ EncodedBytes <= TierMaxBytes
      BY <2>b DEF EncodedBytes, Words, FormInv
    <2>1. CASE ~(out.next < CounterCount)
      <3>1. out' = out /\ pc'[Main] = "late"
        BY <1>8, <2>1 DEF FlushWrite
      <3> QED
        BY <2>b, <3>1, FormFrame
    <2>2. CASE out.next < CounterCount
      <3> DEFINE i == out.next
                 n == counters[i]
                 w == out.written + (IF n # 0 THEN 1 ELSE 0)
                 full == {c \in Counters : out.counts[c] = MaxCount}
      <3>1. i \in Counters
        BY <2>a, <2>2, IndexInRange
      <3>2. /\ UNCHANGED pc /\ out'.written = w
            /\ out'.counts = [out.counts EXCEPT ![i] = IF w <= size.pairs THEN n ELSE 0]
            /\ out'.saturated = (out.saturated \/ n = MaxCount)
            /\ out'.bits = IF n = MaxCount /\ size.saturated THEN out.bits \cup {i} ELSE out.bits
        BY <1>8, <2>2 DEF FlushWrite, TypeOK, OutType
      <3>3. w \in Nat /\ out.written <= w /\ n \in Nat
        BY <2>a, <3>1
      <3>4. out.counts[i] = 0
        BY <2>a, <3>1 DEF WriteInv
      <3>5. SUFFICES ASSUME w <= size.pairs
            PROVE  /\ Cardinality(Nonzero(out'.counts)) = w
                   /\ out'.bits = IF size.saturated THEN {c \in Counters : out'.counts[c] = MaxCount} ELSE {}
                   /\ out'.saturated <=> \E c \in Counters : out'.counts[c] = MaxCount
        <4>1. Nonzero(out.counts)' = Nonzero(out'.counts)
          BY DEF Nonzero
        <4>2. pc'[Main] = "write" /\ size'.pairs = size.pairs /\ size'.saturated = size.saturated
          BY <2>b, <3>2
        <4> HIDE DEF i, n, w, full
        <4> QED
          BY <2>b, <2>c, <3>2, <4>1, <4>2 DEF FormInv
      <3>6. /\ Cardinality(Nonzero(out.counts)) = out.written
            /\ out.bits = IF size.saturated THEN full ELSE {}
            /\ out.saturated <=> \E c \in Counters : out.counts[c] = MaxCount
        BY <2>a, <3>3, <3>5 DEF FormInv
      <3>7. \A c \in Counters : out'.counts[c] = IF c = i THEN n ELSE out.counts[c]
        BY <2>a, <3>2, <3>5
      <3> HIDE DEF i, n, w, full
      <3>8. {c \in Counters : out'.counts[c] = MaxCount} = IF n = MaxCount THEN full \cup {i} ELSE full
        BY <2>a, <3>1, <3>4, <3>7 DEF full
      <3>9. Cardinality(Nonzero(out'.counts)) = w
        <4>1. IsFiniteSet(Nonzero(out.counts))
          <5>1. IsFiniteSet(Counters)
            BY CounterAssumption, FS_Interval DEF Counters
          <5> QED
            BY <5>1, FS_Subset DEF Nonzero
        <4>2. i \notin Nonzero(out.counts)
          BY <3>4 DEF Nonzero
        <4>3. Nonzero(out'.counts) = IF n # 0 THEN Nonzero(out.counts) \cup {i} ELSE Nonzero(out.counts)
          BY <3>1, <3>4, <3>7 DEF Nonzero
        <4>4. Cardinality(Nonzero(out.counts) \cup {i}) = out.written + 1
          BY <3>6, <4>1, <4>2, FS_AddElement
        <4>5. out.written \in Nat
          BY <2>a
        <4> QED
          BY <3>6, <4>3, <4>4, <4>5 DEF w
      <3>10. out'.bits = IF size.saturated THEN {c \in Counters : out'.counts[c] = MaxCount} ELSE {}
        BY <3>2, <3>6, <3>8
      <3>11. out'.saturated <=> \E c \in Counters : out'.counts[c] = MaxCount
        BY <3>1, <3>2, <3>4, <3>6, <3>7, <2>a
      <3> QED
        BY <3>9, <3>10, <3>11
    <2> QED
      BY <2>1, <2>2
  <1>9. CASE FlushLate
    <2>1. /\ pc[Main] = "late" /\ pc'[Main] = "broken" /\ UNCHANGED size
          /\ out'.written = out.written /\ out'.counts = out.counts /\ out'.bits = out.bits
          /\ out'.saturated = out.saturated
      BY <1>9 DEF FlushLate, TypeOK, OutType
    <2>2. ~out'.racing => out.saturated = size.saturated
      BY <1>9 DEF FlushLate, Racing, TypeOK, OutType
    <2>3. EncodedBytes' = EncodedBytes /\ Nonzero(out.counts)' = Nonzero(out.counts)
      BY <2>1 DEF EncodedBytes, Words, Nonzero
    <2> QED
      BY <2>1, <2>2, <2>3 DEF FormInv
  <1>10. CASE FlushBroken
    <2>1. /\ pc[Main] = "broken" /\ pc'[Main] = "close" /\ UNCHANGED size
          /\ out'.written = out.written /\ out'.counts = out.counts /\ out'.bits = out.bits
          /\ out'.saturated = out.saturated /\ out'.racing = out.racing
      BY <1>10 DEF FlushBroken, TypeOK, OutType
    <2> QED
      BY <2>1, FormFrame
  <1>11. CASE FlushClose \/ FlushUnlink
    BY <1>11, FormFrame DEF FlushClose, FlushUnlink, Unpublished
  <1>12. CASE FlushCommit \/ FlushLink
    <2>1. pc[Main] \in AtCommit /\ pc'[Main] \in AtCommit /\ UNCHANGED size
      BY <1>12 DEF FlushCommit, FlushLink, CommitFails, Unpublished
    <2>2. /\ out'.written = out.written /\ out'.counts = out.counts /\ out'.bits = out.bits
          /\ out'.saturated = out.saturated /\ out'.racing = out.racing
      BY <1>12 DEF FlushCommit, FlushLink, CommitFails, TypeOK, OutType
    <2> QED
      BY <2>1, <2>2, FormFrame
  <1>13. ASSUME NEW t \in Threads, ForkPrepare(t) \/ ForkCopy(t) PROVE FormInv'
    BY <1>13, FormFrame DEF ForkPrepare, ForkCopy
  <1>14. CASE ChildHit \/ ChildExit \/ Kill \/ OtherPublishes \/ UNCHANGED vars
    BY <1>14, FormFrame DEF ChildHit, ChildExit, Kill, OtherPublishes
  <1> QED
    BY <1>1, <1>2, <1>3, <1>4, <1>5, <1>6, <1>7, <1>8, <1>9, <1>10, <1>11, <1>12, <1>13,
       <1>14
    DEF Next, Flush, Ended

-----------------------------------------------------------------------------
(* MissInv. *)

\* A step that leaves the flush where it is and takes back no mark keeps it.
LEMMA MissFrame ==
  ASSUME MissInv, UNCHANGED <<out, missed>>, late => late', state = "INCOMPLETE" => state' = "INCOMPLETE",
         pc[Main] \in AfterSwitch => pc'[Main] = pc[Main]
  PROVE  MissInv'
  BY DEF MissInv

\* No step loses a hit that was turned away.
LEMMA MissStep == TypeOK /\ PhaseInv /\ MissInv /\ [Next]_vars => MissInv'
  <1> SUFFICES ASSUME TypeOK, PhaseInv, MissInv, [Next]_vars PROVE MissInv'
    OBVIOUS
  <1>a. pc \in [Threads -> PcType] /\ Main \in Threads
    BY DEF TypeOK, Threads
  <1> USE <1>a DEF AfterSwitch, AfterTemp, AtCommit
  <1>1. CASE StartFails \/ StartForkHandlersFail \/ Start \/ StartAgain \/ Exit
    BY <1>1, MissFrame DEF StartFails, StartForkHandlersFail, Start, StartAgain, Exit, MissInv
  <1>2. ASSUME NEW t \in Workers, Spawn(t) PROVE MissInv'
    BY <1>2, ThreadAssumption, MissFrame DEF Spawn, Threads
  <1>3. ASSUME NEW t \in Threads, NEW c \in Targets, Hit(t, c) PROVE MissInv'
    <2>1. pc[Main] \in AfterSwitch => pc'[Main] = pc[Main]
      BY <1>3 DEF Hit
    <2>2. (late => late') /\ UNCHANGED <<out, state>>
      BY <1>3 DEF Hit
    <2>3. CASE missed' = missed
      BY <2>1, <2>2, <2>3, MissFrame
    <2>4. CASE missed' # missed
      <3>1. pc[Main] \in Unlooked /\ pc' = pc /\ late' = (late \/ state = "FLUSHING")
        BY <1>3, <2>4 DEF Hit, TypeOK
      <3>2. state \in {"FLUSHING", "INCOMPLETE"}
        BY <3>1 DEF PhaseInv, Unlooked
      <3> QED
        BY <2>2, <3>1, <3>2 DEF MissInv, Unlooked
    <2> QED
      BY <2>3, <2>4
  <1>4. ASSUME NEW t \in Threads, HitStep(t) PROVE MissInv'
    BY <1>4, MissFrame
    DEF HitStep, HitUnregistered, HitLoad, HitSaturated, HitIncrement, HitRetry
  <1>5. CASE FlushEntry \/ FlushSwitch
    <2>1. pc[Main] \notin AfterSwitch /\ UNCHANGED missed
      BY <1>5 DEF FlushEntry, FlushSwitch
    <2> QED
      BY <2>1 DEF MissInv
  <1>6. CASE FlushSize \/ FlushTemp \/ FlushWrite
    <2>1. /\ pc[Main] \in {"size", "temp", "write"} /\ pc'[Main] \in {"size", "temp", "write", "late"}
          /\ UNCHANGED <<missed, late, state>>
      BY <1>6 DEF FlushSize, FlushTemp, FlushWrite, Unpublished
    <2> QED
      BY <2>1 DEF MissInv
  <1>7. CASE FlushLate
    <2>1. pc[Main] = "late" /\ pc'[Main] = "broken" /\ UNCHANGED <<missed, late, state>>
      BY <1>7 DEF FlushLate
    <2>2. late => out'.racing
      BY <1>7 DEF FlushLate, Racing, TypeOK, OutType
    <2> QED
      BY <2>1, <2>2 DEF MissInv
  <1>8. CASE FlushBroken
    <2>1. pc[Main] = "broken" /\ pc'[Main] = "close" /\ UNCHANGED <<missed, late, state>>
      BY <1>8 DEF FlushBroken
    <2>2. (state = "INCOMPLETE" => out'.broken) /\ (out'.racing <=> out.racing)
      BY <1>8 DEF FlushBroken, TypeOK, OutType
    <2> QED
      BY <2>1, <2>2 DEF MissInv
  <1>9. CASE FlushClose
    <2>1. /\ pc[Main] = "close" /\ UNCHANGED <<missed, late, state, out>>
          /\ pc'[Main] = "close" \/ (pc'[Main] = "commit" /\ ~out.broken /\ ~out.racing)
      BY <1>9 DEF FlushClose, Unpublished
    <2> QED
      BY <2>1 DEF MissInv
  <1>10. CASE FlushCommit \/ FlushLink \/ FlushUnlink
    <2>1. pc[Main] \in AtCommit /\ UNCHANGED missed
      BY <1>10 DEF FlushCommit, FlushLink, FlushUnlink
    <2> QED
      BY <2>1 DEF MissInv
  <1>11. ASSUME NEW t \in Threads, ForkPrepare(t) \/ ForkCopy(t) PROVE MissInv'
    BY <1>11, MissFrame DEF ForkPrepare, ForkCopy
  <1>12. CASE ChildHit \/ ChildExit \/ Kill \/ OtherPublishes \/ UNCHANGED vars
    BY <1>12, MissFrame DEF ChildHit, ChildExit, Kill, OtherPublishes
  <1> QED
    BY <1>1, <1>2, <1>3, <1>4, <1>5, <1>6, <1>7, <1>8, <1>9, <1>10, <1>11, <1>12
    DEF Next, Flush, Ended

-----------------------------------------------------------------------------
(* The theorems. *)

\* The inductive invariant holds at the start.
LEMMA InvInit == Init => IInv
  <1> SUFFICES ASSUME Init PROVE IInv
    OBVIOUS
  <1>1. TypeOK
    BY TypeInit
  <1>2. CountInv
    BY CounterAssumption DEF Init, NoCounts, CountInv, CountersExact, Saturated
  <1>3. PhaseInv
    BY ThreadAssumption DEF Init, PhaseInv, ForkedChildStops, AfterSwitch, AfterTemp, AtCommit, Published, Threads
  <1>4. SnapshotInv
    BY DEF Init, SnapshotInv, AfterSwitch, AfterTemp, Threads
  <1>5. WriteInv
    BY DEF Init, WriteInv, AfterTemp, AtCommit, Threads, NoCounts, Counters
  <1>6. FormInv
    <2>1. pc[Main] \notin AfterTemp /\ pc[Main] \notin AtCommit /\ pc[Main] \notin {"broken", "close"}
      BY DEF Init, AfterTemp, AtCommit, Threads
    <2>2. out.written = 0 /\ out.bits = {} /\ ~out.saturated
      BY DEF Init
    <2> QED
      BY <1>1, <1>5, <2>1, <2>2, NothingWritten DEF FormInv
  <1>7. MissInv
    BY DEF Init, MissInv
  <1> QED
    BY <1>1, <1>2, <1>3, <1>4, <1>5, <1>6, <1>7 DEF IInv

\* The strengthening of the properties of the runtime, which every step of rt.c keeps.
THEOREM Inductive == Spec => []IInv
  <1>1. IInv /\ [Next]_vars => IInv'
    BY TypeStep, CountStep, PhaseStep, SnapshotStep, WriteStep, FormStep, MissStep DEF IInv
  <1> QED
    BY InvInit, <1>1, PTL DEF Spec

\* No hit is lost or counted twice, for any number of threads racing on any
\* counters: the loop of __sv0cov_hit keeps each counter at its saturated count.
THEOREM NoHitLost == Spec => []CountersExact
  <1>1. IInv => CountersExact
    BY DEF IInv, CountInv
  <1> QED
    BY Inductive, <1>1, PTL

\* What rt_flush publishes lies, counter by counter, between the hits completed
\* when the flush began and the hits executed, whoever runs during the flush; and
\* no hit was turned away before the flush looked for late ones.
THEOREM NoTornProfile == Spec => []PublishedBetween
  <1>1. ASSUME IInv, Published, NEW c \in Counters
        PROVE  base[c] <= out.counts[c] /\ out.counts[c] <= counters[c]
    <2>1. pc[Main] \in AtCommit
      BY <1>1 DEF IInv, PhaseInv
    <2>2. out.next = CounterCount /\ out.written <= size.pairs
      BY <1>1, <2>1 DEF IInv, WriteInv, TypeOK, SizeType, AtCommit, AfterTemp
    <2>3. c < CounterCount
      BY CounterAssumption DEF Counters
    <2> QED
      BY <1>1, <2>1, <2>2, <2>3 DEF IInv, WriteInv, AtCommit, AfterTemp
  <1>2. IInv /\ Published => ~missed
    BY DEF IInv, PhaseInv, MissInv
  <1>3. IInv => PublishedBetween
    BY <1>1, <1>2 DEF PublishedBetween
  <1> QED
    BY Inductive, <1>3, PTL

\* A program that joined its threads before exit publishes exactly its hits.
THEOREM ExactWhenJoined == Spec => []JoinedIsExact
  <1>1. ASSUME IInv, Published, joined
        PROVE  /\ out.counts = [c \in Counters |-> Saturated(hits[c])]
               /\ state = "FLUSHING"
    <2>1. pc[Main] \in AtCommit /\ pc[Main] \in AfterSwitch
      BY <1>1 DEF IInv, PhaseInv, AtCommit, AfterTemp, AfterSwitch
    <2>2. state = "FLUSHING" /\ \A c \in Counters : base[c] = counters[c]
      BY <1>1, <2>1 DEF IInv, SnapshotInv
    <2>3. out.next = CounterCount /\ out.written <= size.pairs
      BY <1>1, <2>1 DEF IInv, WriteInv, TypeOK, SizeType, AtCommit, AfterTemp
    <2>4. \A c \in Counters : c < CounterCount
      BY CounterAssumption DEF Counters
    <2>5. \A c \in Counters : base[c] <= out.counts[c] /\ out.counts[c] <= counters[c]
      BY <1>1, <2>1, <2>3, <2>4 DEF IInv, WriteInv, AtCommit, AfterTemp
    <2>6. \A c \in Counters : out.counts[c] \in Int /\ counters[c] \in Int
      BY <1>1 DEF IInv, TypeOK, OutType
    <2>7. \A c \in Counters : out.counts[c] = Saturated(hits[c])
      BY <1>1, <2>2, <2>5, <2>6 DEF IInv, CountInv, CountersExact
    <2> QED
      BY <1>1, <2>2, <2>7 DEF IInv, TypeOK, OutType
  <1>2. IInv => JoinedIsExact
    BY <1>1 DEF JoinedIsExact
  <1> QED
    BY Inductive, <1>2, PTL

\* A required process never reports success without its profile.
THEOREM RequiredNeverSilent == Spec => []RequiredPublishes
  <1>1. IInv => RequiredPublishes
    BY DEF IInv, PhaseInv, RequiredPublishes
  <1> QED
    BY Inductive, <1>1, PTL

\* Only a process killed inside its flush leaves its temporary file.
THEOREM LitterOnlyWhenKilled == Spec => []NoLitter
  <1>1. IInv => NoLitter
    BY DEF IInv, PhaseInv, NoLitter, AfterTemp, InFlush
  <1> QED
    BY Inductive, <1>1, PTL

\* A fork that rt_flush can see withholds the profile (rt_fork_prepare); its
\* child never counts, and in required mode never passes a hit (rt_fork_child).
THEOREM ForkIsHandled == Spec => []ForkHandled
  <1>1. IInv => ForkedWithheld
    BY DEF IInv, PhaseInv, ForkedWithheld, AtCommit, AfterTemp, AfterSwitch
  <1>2. IInv => ForkedChildStops
    BY DEF IInv, PhaseInv
  <1>3. IInv => ForkHandled
    BY <1>1, <1>2 DEF ForkHandled
  <1> QED
    BY Inductive, <1>3, PTL

\* No step replaces or removes a name that exists in the profile directory.
THEOREM NoReplace == Spec => NeverReplaced
  <1>1. [Next]_vars => [dst # "absent" => dst' = dst]_vars
    BY DEF Next, HitStep, Flush, Ended, StartFails, StartForkHandlersFail, Start,
           StartAgain, Exit, Spawn, Hit, HitUnregistered, HitLoad, HitSaturated,
           HitIncrement, HitRetry, FlushEntry, FlushSwitch, FlushSize, FlushTemp,
           FlushWrite, FlushLate, FlushBroken, FlushClose, FlushCommit, FlushLink,
           FlushUnlink, CommitFails, NameFree, ForkPrepare, ForkCopy, ChildHit, ChildExit,
           Kill, OtherPublishes
  <1> QED
    BY <1>1, PTL DEF Spec, NeverReplaced

-----------------------------------------------------------------------------
(* The published profile is one the reader decodes. *)

\* The codec that ProfileFile is written in, with what is proved of it.
Codec == INSTANCE RawProfile_proofs WITH Null <- -1

\* The profile rt_flush means to write: the counts it read, without a context.
Meant == [backend |-> "native", map_id |-> MapID, run_id |-> 1, profile_id |-> 1,
          context |-> -1, context_length |-> 0,
          counts |-> [c \in Nonzero(out.counts) |-> out.counts[c]]]
TheTier == [max_counters |-> CounterCount, max_bytes |-> TierMaxBytes]

\* The facts of the order of the pairs, for the counters that are not zero.
LEMMA OrderFacts ==
  ASSUME NEW S \in SUBSET Int, IsFiniteSet(S)
  PROVE  /\ Len(Codec!InOrder(S)) = Cardinality(S)
         /\ \A k \in DOMAIN Codec!InOrder(S) : Codec!InOrder(S)[k] \in S
  <1>1. Codec!IsFiniteSet(S)
    BY DEF Codec!IsFiniteSet, IsFiniteSet
  <1>2. Codec!Cardinality(S) = Cardinality(S)
    BY DEF Codec!Cardinality, Cardinality
  <1> QED
    BY <1>1, <1>2, Codec!InOrderFacts

\* What the proofs say of the codec they say of the one the model reads with.
LEMMA SameCodec ==
  /\ \A S : Raw!InOrder(S) = Codec!InOrder(S)
  /\ \A c, p, w : Raw!EncodedLength(c, p, w) = Codec!EncodedLength(c, p, w)
  /\ \A f, tier, limit, map_id :
        Raw!Verdict(f, tier, limit, map_id) = Codec!Verdict(f, tier, limit, map_id)
  /\ \A f : Raw!Decoded(f) = Codec!Decoded(f)
  <1>0. \A S : Raw!Cardinality(S) = Cardinality(S) /\ Codec!Cardinality(S) = Cardinality(S)
    BY DEF Raw!Cardinality, Codec!Cardinality, Cardinality
  <1>1. \A f : Raw!BackendsOf(f) = Codec!BackendsOf(f)
    BY DEF Raw!BackendsOf, Codec!BackendsOf, Raw!Backends, Codec!Backends
  <1>2. \A f : Raw!FlagsOK(f) = Codec!FlagsOK(f)
    <2>1. Raw!KnownFlags = Codec!KnownFlags
      BY DEF Raw!KnownFlags, Codec!KnownFlags, Raw!Backends, Codec!Backends
    <2> QED
      BY <1>0, <1>1, <2>1 DEF Raw!FlagsOK, Codec!FlagsOK
  <1>3. \A f : Raw!NamesOK(f) = Codec!NamesOK(f) /\ Raw!ContextOK(f) = Codec!ContextOK(f)
    BY DEF Raw!NamesOK, Codec!NamesOK, Raw!ContextOK, Codec!ContextOK, Raw!MaxContext, Codec!MaxContext
  <1>4. \A n : Raw!Words(n) = Codec!Words(n)
    BY DEF Raw!Words, Codec!Words
  <1>5. \A c, p, w : Raw!EncodedLength(c, p, w) = Codec!EncodedLength(c, p, w)
    BY DEF Raw!EncodedLength, Codec!EncodedLength, Raw!HeaderBytes, Codec!HeaderBytes
  <1>6. \A f : /\ Raw!CountAt(f) = Codec!CountAt(f) /\ Raw!WordsAt(f) = Codec!WordsAt(f)
               /\ Raw!Total(f) = Codec!Total(f)
    BY <1>5 DEF Raw!CountAt, Codec!CountAt, Raw!WordsAt, Codec!WordsAt, Raw!Total, Codec!Total,
                Raw!HeaderBytes, Codec!HeaderBytes
  <1>7. \A tier, limit : Raw!Limit(tier, limit) = Codec!Limit(tier, limit)
    BY DEF Raw!Limit, Codec!Limit
  <1>8. \A f, limit : Raw!PairsOK(f, limit) = Codec!PairsOK(f, limit)
    BY DEF Raw!PairsOK, Codec!PairsOK
  <1>9. \A f, limit : Raw!BitmapOK(f, limit) = Codec!BitmapOK(f, limit)
    BY <1>4 DEF Raw!BitmapOK, Codec!BitmapOK
  <1>10. \A f, tier, limit, map_id :
            Raw!Checks(f, tier, limit, map_id) = Codec!Checks(f, tier, limit, map_id)
    BY <1>2, <1>3, <1>4, <1>6, <1>7, <1>8, <1>9
    DEF Raw!Checks, Codec!Checks, Raw!HeaderBytes, Codec!HeaderBytes
  <1>11. \A f, tier, limit, map_id :
            Raw!Verdict(f, tier, limit, map_id) = Codec!Verdict(f, tier, limit, map_id)
    <2> SUFFICES ASSUME NEW f, NEW tier, NEW counts, NEW map_id
                 PROVE  Raw!Verdict(f, tier, counts, map_id) = Codec!Verdict(f, tier, counts, map_id)
      OBVIOUS
    <2>1. Raw!Checks(f, tier, counts, map_id) = Codec!Checks(f, tier, counts, map_id)
      BY <1>10
    <2> DEFINE FirstFailed(checks) ==
                  LET failed == {k \in DOMAIN checks : ~checks[k][1]}
                  IN  IF failed = {} THEN "accepted" ELSE checks[CHOOSE k \in failed : \A j \in failed : k <= j][2]
    <2>2. Raw!Verdict(f, tier, counts, map_id) = FirstFailed(Raw!Checks(f, tier, counts, map_id))
      BY DEF Raw!Verdict
    <2>3. Codec!Verdict(f, tier, counts, map_id) = FirstFailed(Codec!Checks(f, tier, counts, map_id))
      BY DEF Codec!Verdict
    <2> HIDE DEF FirstFailed
    <2> QED
      BY <2>1, <2>2, <2>3
  <1>12. \A f : Raw!Backend(f) = Codec!Backend(f)
    BY <1>1 DEF Raw!Backend, Codec!Backend
  <1>13. \A f : Raw!Decoded(f) = Codec!Decoded(f)
    BY <1>12 DEF Raw!Decoded, Codec!Decoded
  <1>14. \A S : Raw!InOrder(S) = Codec!InOrder(S)
    <2> SUFFICES ASSUME NEW S PROVE Raw!InOrder(S) = Codec!InOrder(S)
      OBVIOUS
    <2> QED
      BY Zenon DEF Raw!InOrder, Codec!InOrder, Raw!Cardinality, Codec!Cardinality
  <1> QED
    BY <1>5, <1>11, <1>13, <1>14

\* What is known when the profile is published: as many pairs as were announced, and
\* the flag and the bitmap those of the counts.
LEMMA PublishedForm ==
  ASSUME IInv, Published
  PROVE  LET full == {c \in Counters : out.counts[c] = MaxCount} IN
         /\ Cardinality(Nonzero(out.counts)) = size.pairs
         /\ size.saturated <=> full # {}
         /\ out.bits = full /\ EncodedBytes <= TierMaxBytes
         /\ out.counts \in [Counters -> 0 .. MaxCount] /\ size.pairs \in Nat
  <1>1. pc[Main] \in AtCommit /\ pc[Main] \in AfterTemp
    BY DEF IInv, PhaseInv, AtCommit, AfterTemp
  <1>2. out.written = size.pairs /\ size.pairs \in Nat
    BY <1>1 DEF IInv, WriteInv, TypeOK, SizeType
  <1>3. out.counts \in [Counters -> 0 .. MaxCount]
    BY DEF IInv, TypeOK, OutType
  <1>4. out.written <= size.pairs
    BY <1>2
  <1>5. size.saturated <=> \E c \in Counters : out.counts[c] = MaxCount
    BY <1>1, <1>4 DEF IInv, FormInv
  <1> QED
    BY <1>1, <1>2, <1>3, <1>4, <1>5 DEF IInv, FormInv

\* The saturated counts of the profile, and its members.
LEMMA MeantFacts ==
  ASSUME IInv
  PROVE  /\ DOMAIN Meant.counts = Nonzero(out.counts)
         /\ \A c \in Nonzero(out.counts) : Meant.counts[c] = out.counts[c]
         /\ Codec!SaturatedIn(Meant.counts) = {c \in Counters : out.counts[c] = MaxCount}
         /\ Nonzero(out.counts) \in SUBSET Int /\ IsFiniteSet(Nonzero(out.counts))
  <1>1. DOMAIN Meant.counts = Nonzero(out.counts) /\ \A c \in Nonzero(out.counts) : Meant.counts[c] = out.counts[c]
    BY DEF Meant
  <1>2. Codec!SaturatedIn(Meant.counts) = {c \in Counters : out.counts[c] = MaxCount}
    BY <1>1, CounterAssumption DEF Codec!SaturatedIn, Nonzero
  <1>3. Nonzero(out.counts) \in SUBSET Counters /\ IsFiniteSet(Counters) /\ Counters \in SUBSET Int
    BY CounterAssumption, FS_Interval DEF Nonzero, Counters
  <1> QED
    BY <1>1, <1>2, <1>3, FS_Subset

\* The file rt_flush has written from its two passes is the encoding of the profile.
LEMMA FileIsEncoded ==
  ASSUME IInv, Published
  PROVE  ProfileFile = Codec!Encode(Meant, CounterCount)
  <1> DEFINE full  == {c \in Counters : out.counts[c] = MaxCount}
             order == Codec!InOrder(Nonzero(out.counts))
  <1>1. Codec!SaturatedIn(Meant.counts) = full /\ DOMAIN Meant.counts = Nonzero(out.counts)
    BY MeantFacts
  <1>2. size.saturated <=> full # {}
    BY PublishedForm
  <1>3. Cardinality(Nonzero(out.counts)) = size.pairs /\ out.bits = full
    BY PublishedForm
  <1>4. Len(order) = size.pairs /\ \A k \in DOMAIN order : order[k] \in Nonzero(out.counts)
    <2>1. Nonzero(out.counts) \in SUBSET Int /\ IsFiniteSet(Nonzero(out.counts))
      BY MeantFacts
    <2> QED
      BY <1>3, <2>1, OrderFacts
  <1>5. Words(size.saturated) = IF full = {} THEN 0 ELSE Codec!Words(CounterCount)
    BY <1>2 DEF Words, Codec!Words
  <1>6. [k \in DOMAIN order |-> [index |-> order[k], count |-> out.counts[order[k]]]]
           = [k \in DOMAIN order |-> [index |-> order[k], count |-> Meant.counts[order[k]]]]
    BY <1>4, MeantFacts
  <1>7. Raw!InOrder(Nonzero(out.counts)) = order
        /\ \A c, p, w : Raw!EncodedLength(c, p, w) = Codec!EncodedLength(c, p, w)
    BY SameCodec
  <1>8. ({"native"} \cup (IF size.saturated THEN {"overflow"} ELSE {}))
           = {"native"} \cup {} \cup (IF full = {} THEN {} ELSE {"overflow"})
    BY <1>2
  <1>9. /\ Meant.backend = "native" /\ Meant.map_id = MapID /\ Meant.run_id = 1 /\ Meant.profile_id = 1
        /\ Meant.context = -1 /\ Meant.context_length = 0
    BY DEF Meant
  <1> HIDE DEF full, order
  <1> QED
    BY <1>1, <1>3, <1>4, <1>5, <1>6, <1>7, <1>8, <1>9 DEF ProfileFile, Codec!Encode, order

\* A published profile decodes, for its map, to the counts rt_flush read: whatever
\* threads ran between its two passes, the lengths, the flag and the bitmap of the
\* first fit the pairs of the second.
THEOREM DecodesToWhatWasRead == Spec => []PublishedWellFormed
  <1>1. ASSUME IInv, Published
        PROVE  /\ Raw!Verdict(ProfileFile, TheTier, CounterCount, MapID) = "accepted"
               /\ Raw!Decoded(ProfileFile).counts = [c \in Nonzero(out.counts) |-> out.counts[c]]
    <2>1. Codec!Widths /\ CounterCount \in Nat /\ TheTier \in Codec!Tier
      BY CounterAssumption, BoundAssumption DEF Codec!Widths, Codec!Tier, TheTier
    <2>2. Codec!IsProfile(Meant)
      <3>1. Meant.counts \in [DOMAIN Meant.counts -> Nat]
        <4>1. \A c \in Nonzero(out.counts) : out.counts[c] \in Nat
          BY <1>1, PublishedForm, CounterAssumption DEF Nonzero
        <4> QED
          BY <4>1 DEF Meant
      <3> QED
        BY <3>1 DEF Codec!IsProfile, Meant, MapID
    <2>3. Codec!Encodable(Meant, CounterCount, TheTier)
      <3>1. \A c \in DOMAIN Meant.counts : c \in 0 .. CounterCount - 1 /\ Meant.counts[c] \in 1 .. MaxCount
        BY <1>1, MeantFacts, PublishedForm, CounterAssumption DEF Nonzero, Counters
      <3>2. Codec!Encode(Meant, CounterCount).bytes <= TierMaxBytes
        <4>1. ProfileFile.bytes = EncodedBytes
          <5>1. Len(Raw!InOrder(Nonzero(out.counts))) = size.pairs
            <6>1. Nonzero(out.counts) \in SUBSET Int /\ IsFiniteSet(Nonzero(out.counts))
              BY <1>1, MeantFacts
            <6>2. Cardinality(Nonzero(out.counts)) = size.pairs
              BY <1>1, PublishedForm
            <6>3. Len(Codec!InOrder(Nonzero(out.counts))) = Cardinality(Nonzero(out.counts))
              BY <6>1, OrderFacts
            <6> QED
              BY <6>2, <6>3, SameCodec
          <5>2. ProfileFile.bytes = Raw!EncodedLength(0, size.pairs, Words(size.saturated))
            BY <5>1 DEF ProfileFile
          <5>3. size.pairs \in Nat /\ Words(size.saturated) \in Int
            BY <1>1, PublishedForm, CounterAssumption DEF Words
          <5> QED
            BY <5>2, <5>3 DEF EncodedBytes, Raw!EncodedLength, Raw!HeaderBytes
        <4> QED
          BY <1>1, <4>1, FileIsEncoded, PublishedForm
      <3> QED
        <4>1. /\ Meant.backend = "native" /\ Meant.run_id = 1 /\ Meant.profile_id = 1
              /\ Meant.context_length = 0
              /\ TheTier.max_counters = CounterCount /\ TheTier.max_bytes = TierMaxBytes
          BY DEF Meant, TheTier
        <4> QED
          BY <3>1, <3>2, <4>1, CounterAssumption DEF Codec!Encodable, Codec!Backends, Codec!MaxContext
    <2>4. MapID \in {-1, Meant.map_id} /\ CounterCount \in {-1, CounterCount}
      BY DEF Meant
    <2>5. Codec!Verdict(ProfileFile, TheTier, CounterCount, MapID) = "accepted"
      BY <1>1, <2>1, <2>2, <2>3, <2>4, FileIsEncoded, Codec!WrittenIsAccepted
    <2>6. Codec!Decoded(ProfileFile).counts = Meant.counts
      BY <1>1, <2>1, <2>2, <2>3, FileIsEncoded, Codec!WrittenIsReadBack
    <2> QED
      BY <2>5, <2>6, SameCodec DEF Meant
  <1>2. IInv => PublishedWellFormed
    BY <1>1 DEF PublishedWellFormed, TheTier
  <1> QED
    BY Inductive, <1>2, PTL
-----------------------------------------------------------------------------
(* What a valid registration promises of the counters that hits name, for  *)
(* every number of modules and counters.                                   *)

At == INSTANCE RuntimeStart

Fragment == [fragment_id : Nat, slice_base : Nat, slice_length : Nat]
Module ==
    [protocol_major : Nat, map_id : Nat, target : Nat, compiler_identity : Nat, program_counter_count : Nat,
     slice_base : Nat, slice_length : Nat, fragments : Seq(Fragment)]

\* Two intervals with a common number begin before each other's end.
LEMMA Crossing ==
    ASSUME NEW p \in Nat, NEW m \in Nat, NEW q \in Nat, NEW n \in Nat, NEW a \in Nat, NEW b \in Nat,
           a < m, b < n, p + a = q + b
    PROVE  m > 0 /\ n > 0 /\ p < q + n /\ q < p + m
  OBVIOUS

\* Two modules of a valid registration share no counter: a hit of one is never
\* counted as a hit of the other, nor as one of another index of the same module.
THEOREM CountersApart ==
    ASSUME NEW modules \in Seq(Module), At!ValidRegistration(modules),
           NEW j \in DOMAIN modules, NEW k \in DOMAIN modules,
           NEW a \in Nat, NEW b \in Nat,
           At!Named(modules, modules[j], a) # At!Unregistered,
           At!Named(modules, modules[j], a) = At!Named(modules, modules[k], b)
    PROVE  j = k /\ a = b
  <1>1. modules[j] \in Module /\ modules[k] \in Module
    OBVIOUS
  <1> DEFINE x == modules[j]
             y == modules[k]
  <1>2. a < x.slice_length /\ At!Named(modules, x, a) = x.slice_base + a
    BY <1>1 DEF At!Named, Module, At!Unregistered
  <1>3. At!Named(modules, y, b) # At!Unregistered
    OBVIOUS
  <1>4. b < y.slice_length /\ At!Named(modules, y, b) = y.slice_base + b
    BY <1>1, <1>3 DEF At!Named, Module, At!Unregistered
  <1>5. x.slice_base \in Nat /\ x.slice_length \in Nat /\ y.slice_base \in Nat /\ y.slice_length \in Nat
    BY <1>1 DEF Module
  <1>6. x.slice_base + a = y.slice_base + b
    BY <1>2, <1>4
  <1>7. At!Overlap(x, y)
    <2>1. a < x.slice_length /\ b < y.slice_length
      BY <1>2, <1>4
    <2> HIDE DEF x, y
    <2>2. /\ x.slice_length > 0 /\ y.slice_length > 0
          /\ x.slice_base < y.slice_base + y.slice_length
          /\ y.slice_base < x.slice_base + x.slice_length
      BY ONLY <2>1, <1>5, <1>6, a \in Nat, b \in Nat, Crossing
    <2>3. QED
      BY <2>2 DEF At!Overlap, At!Starts, At!End
  <1>8. j = k
    BY <1>7 DEF At!ValidRegistration
  <1>9. QED
    BY <1>5, <1>6, <1>8

\* No registered hit leaves the arena that __sv0cov_start allocated.
THEOREM CountersInside ==
    ASSUME NEW modules \in Seq(Module), At!ValidRegistration(modules),
           NEW k \in DOMAIN modules, NEW a \in Nat,
           At!Named(modules, modules[k], a) # At!Unregistered
    PROVE  At!Named(modules, modules[k], a) \in 0 .. modules[1].program_counter_count - 1
  <1>1. modules[k] \in Module
    OBVIOUS
  <1>2. a < modules[k].slice_length /\ At!Named(modules, modules[k], a) = modules[k].slice_base + a
    BY <1>1 DEF At!Named, Module, At!Unregistered
  <1>3. modules # <<>> /\ modules[1] \in Module
    BY DEF At!ValidRegistration
  <1>4. modules[k].slice_base + modules[k].slice_length <= modules[1].program_counter_count
    <2>1. At!ModuleOK(modules[k], modules[1])
      BY DEF At!ValidRegistration
    <2>2. QED
      BY <2>1 DEF At!ModuleOK, At!End
  <1>5. /\ modules[k].slice_base \in Nat /\ modules[k].slice_length \in Nat
        /\ modules[1].program_counter_count \in Nat
    BY <1>1, <1>3 DEF Module
  <1>6. modules[k].slice_base + a \in 0 .. modules[1].program_counter_count - 1
    BY <1>2, <1>4, <1>5
  <1>7. QED
    BY <1>2, <1>6
=============================================================================
