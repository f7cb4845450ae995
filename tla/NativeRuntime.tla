--------------------------- MODULE NativeRuntime ---------------------------
(***************************************************************************)
(* The native coverage runtime, runtime/c/sv0cov_rt.c, inside one process  *)
(* image: registration before user code, coverage hits of several threads  *)
(* on shared saturating counters, the exit-time flush that reads those     *)
(* counters while threads that were never joined may still run, the        *)
(* no-replace publication of the profile, and fork.                        *)
(*                                                                         *)
(* One step is one access to shared memory or one file-system call.  The   *)
(* weak compare-and-exchange may fail spuriously; that reloads the value   *)
(* it holds and is a stuttering step here.                                 *)
(***************************************************************************)
EXTENDS Integers, FiniteSets, Sequences

CONSTANTS
    Main,           \* the thread that runs __sv0cov_start and calls exit()
    Workers,        \* the other threads
    CounterCount,   \* rt.count
    MaxCount,       \* UINT64_MAX
    Targets,        \* what a hit may name: counters, and Unregistered
    HitBudget,      \* bound: how many hits one thread executes
    TierMaxBytes    \* rt_tier_max_bytes

Counters     == 0 .. CounterCount - 1
Unregistered == -1      \* a module or index no fragment registered
Threads      == {Main} \cup Workers

ASSUME ThreadAssumption  == Main \notin Workers
ASSUME CounterAssumption == CounterCount \in Nat /\ MaxCount \in Nat \ {0}
ASSUME TargetAssumption  == Targets \subseteq Counters \cup {Unregistered}
ASSUME BoundAssumption   == HitBudget \in Nat /\ TierMaxBytes \in Nat

VARIABLES
    state,      \* rt.state
    required,   \* rt.required
    unresolved, \* rt.unresolved
    late,       \* rt.late
    counters,   \* rt.counters
    overflow,   \* the indices whose bit of rt.overflow is set
    atexit,     \* rt_flush is registered
    atfork,     \* rt_fork_prepare and rt_fork_child are registered
    pc,         \* per thread: where it is in the runtime's code
    at,         \* per thread: what its current hit names
    old,        \* per thread: the local of the compare-and-exchange loop
    begun,      \* per thread: hits it has executed so far
    size,       \* locals of the flush, pass 1
    out,        \* locals of the flush, pass 2: the profile being written
    tmp,        \* does the .tmp- file exist
    dst,        \* who owns the final name
    status,     \* how the process ended, "running" until then
    child,      \* the forked copy of the image
    hits,       \* history: executed hits per counter
    base,       \* history: the counters when the flush began
    joined,     \* history: no hit was in flight when the flush began
    missed      \* history: a hit was turned away before the flush looked for one

shared   == <<state, unresolved, late, counters, overflow>>
threads  == <<pc, at, old, begun>>
handlers == <<atexit, atfork>>
flush    == <<size, out>>
files    == <<tmp, dst>>
history  == <<hits, base, joined, missed>>
vars     == <<shared, required, handlers, threads, flush, files, status, child,
              history>>

-----------------------------------------------------------------------------
(* What a program counter and the flush hold. *)

Saturated(n) == IF n < MaxCount THEN n ELSE MaxCount
NoCounts     == [c \in Counters |-> 0]

States    == {"OFF", "ACTIVE", "INCOMPLETE", "FLUSHING", "FORKED"}
InHit     == {"load", "cas", "bad"}
InFlush   == {"entry", "switch", "size", "temp", "write", "late", "broken",
              "close", "commit", "link", "unlink"}
Unlooked  == {"size", "temp", "write", "late"}  \* of the flush, until it reads rt.late
Nonzero(counts) == {c \in Counters : counts[c] # 0}

\* The encoded length of a profile with no context string.
Words(saturated) == IF saturated THEN (CounterCount + 63) \div 64 ELSE 0
EncodedBytes     == 84 + 4 + 12 * size.pairs + 4 + 8 * Words(size.saturated) + 8 + 4

Init ==
    /\ state = "OFF" /\ required \in BOOLEAN
    /\ unresolved = FALSE /\ late = FALSE
    /\ counters = NoCounts /\ overflow = {}
    /\ atexit = FALSE /\ atfork = FALSE
    /\ pc = [t \in Threads |-> IF t = Main THEN "start" ELSE "idle"]
    /\ at = [t \in Threads |-> Unregistered]
    /\ old = [t \in Threads |-> 0]
    /\ begun = [t \in Threads |-> 0]
    /\ size = [next |-> 0, pairs |-> 0, saturated |-> FALSE]
    /\ out = [next |-> 0, written |-> 0, counts |-> NoCounts, bits |-> {},
              saturated |-> FALSE, racing |-> FALSE, broken |-> FALSE, forked |-> FALSE]
    /\ tmp = FALSE /\ dst \in {"absent", "other"}
    /\ status = "running"
    /\ child = [status |-> "none", state |-> "OFF", handler |-> FALSE,
                early |-> FALSE, counted |-> FALSE, passed |-> FALSE]
    /\ hits = NoCounts /\ base = NoCounts /\ joined = FALSE /\ missed = FALSE

Running  == status = "running"
Goto(t, where) == pc' = [pc EXCEPT ![t] = where]

(***************************************************************************)
(* The conditions the code decides on, each with the mistakes it could     *)
(* have been written with: a definition ..._wrong is never part of the     *)
(* specification, and stands only to show that a property depends on the   *)
(* definition that follows it.                                             *)
(***************************************************************************)

\* A hit counts only if it reads ACTIVE.
Counting_wrong == state \in {"ACTIVE", "FLUSHING"}
Counting       == state = "ACTIVE"

\* A counter at the maximum is never incremented.
Full_wrong(t) == FALSE
Full(t)       == old[t] = MaxCount

\* The exchange stores only over the value that was loaded.
Exchanges_wrong(t) == TRUE
Exchanges(t)       == counters[at[t]] = old[t]

\* Pass 2 compared with pass 1, and the late mark.
Racing_wrong  == out.written # size.pairs \/ out.saturated # size.saturated
Racing_unseen == out.written # size.pairs \/ late
Racing        == \/ out.written # size.pairs
                 \/ out.saturated # size.saturated
                 \/ late

\* renameat2(RENAME_NOREPLACE) and link succeed only on an absent name.
NameFree == dst = "absent"

\* unlink(tmp) of a failing flush.
DropTemp_wrong == UNCHANGED tmp
DropTemp       == tmp' = FALSE

\* rt_fork_prepare, where it is registered, marks every image that has started.
MarksFork_wrong == FALSE
MarksFork       == atfork /\ state # "OFF"

\* rt_fork_child disarms an active copy.
Disarmed == IF state = "ACTIVE" THEN "FORKED" ELSE state

\* rt_unpublished, and the end of the handler: the program's own status, unless
\* coverage is required.
Unpublished_wrong == status' = "user" /\ UNCHANGED pc
Unpublished       == status' = (IF required THEN "fail" ELSE "user") /\ UNCHANGED pc

\* A commit that fails gives up; it does not start over.
CommitFails_wrong == DropTemp /\ Goto(Main, "temp") /\ UNCHANGED <<status, dst, out>>
CommitFails       == DropTemp /\ Unpublished /\ UNCHANGED <<dst, out>>

-----------------------------------------------------------------------------
(* __sv0cov_start. *)

\* Everything before atexit can fail: transport, registration, tier, memory,
\* entropy.  rt_fail ends a required process at once; no handler is set yet.
StartFails ==
    /\ Running /\ pc[Main] = "start"
    /\ state' = "INCOMPLETE"
    /\ IF required THEN status' = "fail" /\ UNCHANGED pc
                   ELSE Goto(Main, "run") /\ UNCHANGED status
    /\ UNCHANGED <<required, unresolved, late, counters, overflow, handlers, at, old,
                   begun, flush, files, child, history>>

\* pthread_atfork fails after atexit has registered rt_flush, so the exit(1)
\* of rt_fail runs the flush.
StartForkHandlersFail ==
    /\ Running /\ pc[Main] = "start"
    /\ atexit' = TRUE /\ state' = "INCOMPLETE"
    /\ Goto(Main, IF required THEN "entry" ELSE "run")
    /\ UNCHANGED <<required, unresolved, late, counters, overflow, atfork, at, old, begun,
                   flush, files, status, child, history>>

Start ==
    /\ Running /\ pc[Main] = "start"
    /\ atexit' = TRUE /\ atfork' = TRUE /\ state' = "ACTIVE"
    /\ Goto(Main, "run")
    /\ UNCHANGED <<required, unresolved, late, counters, overflow, at, old, begun,
                   flush, files, status, child, history>>

\* A second call finds the state not OFF; in required mode rt_fail calls exit(1),
\* and a required process that runs user code has its handler registered.
StartAgain ==
    /\ Running /\ pc[Main] = "run" /\ state # "OFF"
    /\ state' = "INCOMPLETE"
    /\ IF required THEN Goto(Main, "entry") ELSE UNCHANGED pc
    /\ UNCHANGED <<required, unresolved, late, counters, overflow, handlers, at, old,
                   begun, flush, files, status, child, history>>

\* User code starts a thread.
Spawn(t) ==
    /\ Running /\ pc[Main] = "run" /\ pc[t] = "idle"
    /\ Goto(t, "run")
    /\ UNCHANGED <<shared, required, handlers, at, old, begun, flush, files, status,
                   child, history>>

-----------------------------------------------------------------------------
(* __sv0cov_hit. *)

\* The entry of a hit reads the state once.
Hit(t, c) ==
    /\ Running /\ pc[t] = "run" /\ begun[t] < HitBudget
    /\ begun' = [begun EXCEPT ![t] = @ + 1]
    /\ IF Counting
       THEN /\ Goto(t, IF c = Unregistered THEN "bad" ELSE "load")
            /\ at' = [at EXCEPT ![t] = c]
            /\ UNCHANGED <<late, missed>>
       ELSE /\ late' = (late \/ state = "FLUSHING")
            /\ missed' = (missed \/ pc[Main] \in Unlooked)
            /\ UNCHANGED <<pc, at>>
    /\ UNCHANGED <<state, required, unresolved, counters, overflow, handlers, old,
                   flush, files, status, child, hits, base, joined>>

HitUnregistered(t) ==
    /\ Running /\ pc[t] = "bad"
    /\ state' = "INCOMPLETE"
    /\ Goto(t, "run")
    /\ UNCHANGED <<required, unresolved, late, counters, overflow, handlers, at, old,
                   begun, flush, files, status, child, history>>

HitLoad(t) ==
    /\ Running /\ pc[t] = "load"
    /\ old' = [old EXCEPT ![t] = counters[at[t]]]
    /\ Goto(t, "cas")
    /\ UNCHANGED <<shared, required, handlers, at, begun, flush, files, status, child,
                   history>>

\* The value read is already the maximum: set the overflow bit.
HitSaturated(t) ==
    /\ Running /\ pc[t] = "cas" /\ Full(t)
    /\ overflow' = overflow \cup {at[t]}
    /\ hits' = [hits EXCEPT ![at[t]] = @ + 1]
    /\ Goto(t, "run")
    /\ UNCHANGED <<state, required, unresolved, late, counters, handlers, at, old,
                   begun, flush, files, status, child, base, joined, missed>>

HitIncrement(t) ==
    /\ Running /\ pc[t] = "cas" /\ ~Full(t) /\ Exchanges(t)
    /\ counters' = [counters EXCEPT ![at[t]] = old[t] + 1]
    /\ hits' = [hits EXCEPT ![at[t]] = @ + 1]
    /\ Goto(t, "run")
    /\ UNCHANGED <<state, required, unresolved, late, overflow, handlers, at, old,
                   begun, flush, files, status, child, base, joined, missed>>

\* The exchange failed: it reloads the current value and tries again.
HitRetry(t) ==
    /\ Running /\ pc[t] = "cas" /\ ~Full(t) /\ ~Exchanges(t)
    /\ old' = [old EXCEPT ![t] = counters[at[t]]]
    /\ UNCHANGED <<shared, required, handlers, pc, at, begun, flush, files, status,
                   child, history>>

-----------------------------------------------------------------------------
(* rt_flush, run by exit() on the main thread; nothing joins the others. *)

\* main returns, or calls exit().
Exit ==
    /\ Running /\ pc[Main] = "run"
    /\ IF atexit THEN Goto(Main, "entry") /\ UNCHANGED status
                  ELSE status' = "user" /\ UNCHANGED pc
    /\ UNCHANGED <<shared, required, handlers, at, old, begun, flush, files, child,
                   history>>

\* The process-id check passes in the image that registered.
FlushEntry ==
    /\ Running /\ pc[Main] = "entry"
    /\ IF unresolved THEN Unpublished ELSE Goto(Main, "switch") /\ UNCHANGED status
    /\ UNCHANGED <<shared, required, handlers, at, old, begun, flush, files, child,
                   history>>

FlushSwitch ==
    /\ Running /\ pc[Main] = "switch"
    /\ IF state = "ACTIVE"
       THEN /\ state' = "FLUSHING"
            /\ base' = counters
            /\ joined' = (\A t \in Threads : pc[t] \notin InHit)
            /\ Goto(Main, "size") /\ UNCHANGED status
       ELSE Unpublished /\ UNCHANGED <<state, base, joined>>
    /\ UNCHANGED <<required, unresolved, late, counters, overflow, handlers, at, old,
                   begun, flush, files, child, hits, missed>>

\* Pass 1: one relaxed load per counter, in index order.
FlushSize ==
    /\ Running /\ pc[Main] = "size"
    /\ IF size.next < CounterCount
       THEN /\ size' = [next |-> size.next + 1,
                        pairs |-> size.pairs + (IF counters[size.next] # 0 THEN 1 ELSE 0),
                        saturated |-> size.saturated \/ counters[size.next] = MaxCount]
            /\ UNCHANGED pc
       ELSE Goto(Main, "temp") /\ UNCHANGED size
    /\ UNCHANGED <<shared, required, handlers, at, old, begun, out, files, status,
                   child, history>>

\* The tier check, the allocations and mkstemp: any may refuse.
FlushTemp ==
    /\ Running /\ pc[Main] = "temp"
    /\ \/ /\ EncodedBytes <= TierMaxBytes
          /\ tmp' = TRUE
          /\ Goto(Main, "write") /\ UNCHANGED status
       \/ Unpublished /\ UNCHANGED tmp
    /\ UNCHANGED <<shared, required, handlers, at, old, begun, flush, dst, child,
                   history>>

\* Pass 2: load each counter again and write the nonzero ones, never more
\* pairs than pass 1 announced; a bitmap exists only if pass 1 saw saturation.
FlushWrite ==
    /\ Running /\ pc[Main] = "write"
    /\ IF out.next < CounterCount
       THEN LET i == out.next
                c == counters[i]
                written == out.written + (IF c # 0 THEN 1 ELSE 0)
            IN  /\ out' = [out EXCEPT
                      !.next = i + 1,
                      !.written = written,
                      !.counts[i] = IF written <= size.pairs THEN c ELSE 0,
                      !.saturated = @ \/ c = MaxCount,
                      !.bits = IF c = MaxCount /\ size.saturated THEN @ \cup {i} ELSE @]
                /\ UNCHANGED pc
       ELSE Goto(Main, "late") /\ UNCHANGED out
    /\ UNCHANGED <<shared, required, handlers, at, old, begun, size, files, status,
                   child, history>>

FlushLate ==
    /\ Running /\ pc[Main] = "late"
    /\ out' = [out EXCEPT !.racing = Racing]
    /\ Goto(Main, "broken")
    /\ UNCHANGED <<shared, required, handlers, at, old, begun, size, files, status,
                   child, history>>

FlushBroken ==
    /\ Running /\ pc[Main] = "broken"
    /\ out' = [out EXCEPT !.broken = state # "FLUSHING"]
    /\ Goto(Main, "close")
    /\ UNCHANGED <<shared, required, handlers, at, old, begun, size, files, status,
                   child, history>>

\* The tail is written, fsynced and closed; an error of any of the three, a race
\* or a bad hit removes the temporary file.
FlushClose ==
    /\ Running /\ pc[Main] = "close"
    /\ \/ ~out.broken /\ ~out.racing /\ Goto(Main, "commit") /\ UNCHANGED <<tmp, status>>
       \/ DropTemp /\ Unpublished
    /\ UNCHANGED <<shared, required, handlers, at, old, begun, flush, dst, child,
                   history>>

\* rt_publish_noreplace with the atomic primitive: the rename succeeds only on
\* an absent name; EEXIST and any other error remove the temporary file; a
\* file system without the primitive falls back to link.
FlushCommit ==
    /\ Running /\ pc[Main] = "commit"
    /\ \/ /\ NameFree /\ dst' = "mine" /\ tmp' = FALSE
          /\ out' = [out EXCEPT !.forked = unresolved]
          /\ status' = "user" /\ UNCHANGED pc
       \/ CommitFails
       \/ Goto(Main, "link") /\ UNCHANGED <<tmp, dst, status, out>>
    /\ UNCHANGED <<shared, required, handlers, at, old, begun, size, child, history>>

FlushLink ==
    /\ Running /\ pc[Main] = "link"
    /\ \/ /\ NameFree /\ dst' = "mine"
          /\ out' = [out EXCEPT !.forked = unresolved]
          /\ Goto(Main, "unlink") /\ UNCHANGED <<tmp, status>>
       \/ CommitFails
    /\ UNCHANGED <<shared, required, handlers, at, old, begun, size, child, history>>

FlushUnlink ==
    /\ Running /\ pc[Main] = "unlink"
    /\ tmp' = FALSE /\ status' = "user"
    /\ UNCHANGED <<shared, required, handlers, threads, flush, dst, child, history>>

Flush ==
    \/ FlushEntry \/ FlushSwitch \/ FlushSize \/ FlushTemp \/ FlushWrite \/ FlushLate
    \/ FlushBroken \/ FlushClose \/ FlushCommit \/ FlushLink \/ FlushUnlink

-----------------------------------------------------------------------------
(* fork: the prepare handler, the copy, and the child's two entry points. *)

ForkPrepare(t) ==
    /\ Running /\ pc[t] = "run" /\ state # "OFF" /\ child.status = "none"
    /\ unresolved' = (unresolved \/ MarksFork)
    /\ child' = [child EXCEPT !.status = "forking",
                              !.early = pc[Main] \notin InFlush \ {"entry"}]
    /\ Goto(t, "fork")
    /\ UNCHANGED <<state, required, late, counters, overflow, handlers, at, old, begun,
                   flush, files, status, history>>

\* The copy is taken and rt_fork_child runs in it.  exit() takes a handler off
\* the list before it calls it: a copy taken during the flush has none left.
ForkCopy(t) ==
    /\ Running /\ pc[t] = "fork" /\ child.status = "forking"
    /\ child' = [child EXCEPT !.status = "running",
                              !.state = Disarmed,
                              !.handler = atexit /\ pc[Main] \notin InFlush]
    /\ Goto(t, "run")
    /\ UNCHANGED <<shared, required, handlers, at, old, begun, flush, files, status,
                   history>>

\* A hit in the child: counted, ended by rt_forked_hit, or passed over.
ChildHit ==
    /\ child.status = "running"
    /\ child' = IF child.state = "FORKED" /\ required
                THEN [child EXCEPT !.status = "fail"]
                ELSE [child EXCEPT !.passed = TRUE, !.counted = child.state = "ACTIVE"]
    /\ UNCHANGED <<shared, required, handlers, threads, flush, files, status, history>>

\* The child's rt_flush stops at the process-id check.
ChildExit ==
    /\ child.status = "running"
    /\ child' = [child EXCEPT !.status = IF child.handler /\ required THEN "fail" ELSE "user"]
    /\ UNCHANGED <<shared, required, handlers, threads, flush, files, status, history>>

-----------------------------------------------------------------------------
(* The environment. *)

\* A signal, a crash, or _exit: no exit handler runs, from any point.
Kill ==
    /\ Running /\ status' = "killed"
    /\ UNCHANGED <<shared, required, handlers, threads, flush, files, child, history>>

\* Another image publishes under the same run and profile ID.
OtherPublishes ==
    /\ Running /\ dst = "absent" /\ dst' = "other"
    /\ UNCHANGED <<shared, required, handlers, threads, flush, tmp, status, child,
                   history>>

\* Everything ended (so that the run can be checked for deadlock).
Ended ==
    /\ ~Running /\ child.status # "running"
    /\ UNCHANGED vars

HitStep(t) == HitUnregistered(t) \/ HitLoad(t) \/ HitSaturated(t) \/ HitIncrement(t)
              \/ HitRetry(t)

Next ==
    \/ StartFails \/ StartForkHandlersFail \/ Start \/ StartAgain \/ Exit
    \/ \E t \in Workers : Spawn(t)
    \/ \E t \in Threads : \E c \in Targets : Hit(t, c)
    \/ \E t \in Threads : HitStep(t)
    \/ Flush
    \/ \E t \in Threads : ForkPrepare(t) \/ ForkCopy(t)
    \/ ChildHit \/ ChildExit
    \/ Kill \/ OtherPublishes \/ Ended

Spec     == Init /\ [][Next]_vars
FairSpec == Spec /\ WF_vars(Flush)

-----------------------------------------------------------------------------
(* Properties. *)

Published == dst = "mine"

\* What rt_flush has put into the temporary file once it is closed: the pairs that
\* pass 2 wrote under the lengths of pass 1.
Raw   == INSTANCE RawProfile WITH Null <- -1
MapID == 1
ProfileFile ==
    LET order == Raw!InOrder(Nonzero(out.counts))
        words == Words(size.saturated)
    IN  [bytes |-> Raw!EncodedLength(0, Len(order), words), magic |-> TRUE, version |-> "1.0",
         flags |-> {"native"} \cup (IF size.saturated THEN {"overflow"} ELSE {}),
         map_id |-> MapID, run_id |-> 1, profile_id |-> 1, context_length |-> 0, context |-> -1,
         pair_count |-> size.pairs,
         pairs |-> [k \in DOMAIN order |-> [index |-> order[k], count |-> out.counts[order[k]]]],
         word_count |-> words, bits |-> out.bits, marker |-> TRUE, crc |-> TRUE]

SizeType  == [next : 0 .. CounterCount, pairs : Nat, saturated : BOOLEAN]
OutType   == [next : 0 .. CounterCount, written : Nat,
              counts : [Counters -> 0 .. MaxCount], bits : SUBSET Counters,
              saturated : BOOLEAN, racing : BOOLEAN, broken : BOOLEAN, forked : BOOLEAN]
ChildType == [status : {"none", "forking", "running", "user", "fail"},
              state : States, handler : BOOLEAN, early : BOOLEAN,
              counted : BOOLEAN, passed : BOOLEAN]
PcType    == {"start", "idle", "run", "fork"} \cup InHit \cup InFlush

\* Every variable has its type; a thread inside the exchange loop names a counter.
TypeOK ==
    /\ state \in States /\ required \in BOOLEAN
    /\ unresolved \in BOOLEAN /\ late \in BOOLEAN
    /\ counters \in [Counters -> 0 .. MaxCount] /\ overflow \subseteq Counters
    /\ atexit \in BOOLEAN /\ atfork \in BOOLEAN
    /\ pc \in [Threads -> PcType]
    /\ at \in [Threads -> Counters \cup {Unregistered}]
    /\ \A t \in Threads : pc[t] \in {"load", "cas"} => at[t] \in Counters
    /\ old \in [Threads -> 0 .. MaxCount]
    /\ begun \in [Threads -> 0 .. HitBudget]
    /\ size \in SizeType /\ out \in OutType
    /\ tmp \in BOOLEAN /\ dst \in {"absent", "other", "mine"}
    /\ status \in {"running", "user", "fail", "killed"}
    /\ child \in ChildType
    /\ hits \in [Counters -> Nat]
    /\ base \in [Counters -> 0 .. MaxCount] /\ joined \in BOOLEAN
    /\ missed \in BOOLEAN

\* No hit is lost or counted twice, whatever threads race on a counter: the
\* compare-and-exchange loop of __sv0cov_hit keeps each counter at the number
\* of hits executed on it, saturated at UINT64_MAX, and an overflow bit is only
\* ever set on a counter that is at the maximum.
CountersExact ==
    \A c \in Counters : /\ counters[c] = Saturated(hits[c])
                        /\ c \in overflow => counters[c] = MaxCount

\* A published profile holds every hit that had completed when the flush began
\* and none that was never executed, whatever the other threads did while
\* rt_flush read the counters twice; and until it looked for late ones, no hit
\* was turned away that the profile would have to hold.
PublishedBetween ==
    Published => /\ \A c \in Counters : base[c] <= out.counts[c] /\ out.counts[c] <= counters[c]
                 /\ ~missed

\* A published profile is one the reader decodes for its map to the counts that were
\* read: the lengths, the flag and the bitmap that rt_flush writes from pass 1 fit
\* the pairs it writes in pass 2, by the rules of formats/rawprofile.py.
PublishedWellFormed ==
    Published =>
        LET file == ProfileFile IN
        /\ Raw!Verdict(file, [max_counters |-> CounterCount, max_bytes |-> TierMaxBytes], CounterCount, MapID) = "accepted"
        /\ Raw!Decoded(file).counts = [c \in Nonzero(out.counts) |-> out.counts[c]]

\* If no thread was inside a hit when the flush began (the program joined its
\* threads), the published counts are exactly the hits executed, and none of
\* them named an unregistered counter.
JoinedIsExact ==
    Published /\ joined =>
        /\ out.counts = [c \in Counters |-> Saturated(hits[c])]
        /\ state = "FLUSHING"

\* A required process that exits with its own status has published its profile:
\* every failure of start, flush and publication ends it with status 1.
RequiredPublishes == required /\ status = "user" => Published

\* Only a process killed inside its flush leaves a temporary file; rt_flush
\* unlinks it on every one of its own failures.
NoLitter ==
    tmp => \/ status = "running" /\ pc[Main] \in InFlush
           \/ status = "killed" /\ pc[Main] \in InFlush

\* rt_publish_noreplace never replaces a name that exists, and nothing removes it.
NeverReplaced == [][dst # "absent" => dst' = dst]_vars

\* An image that forked before rt_flush looked never publishes: rt_fork_prepare
\* marks it before the copy is taken and nothing clears the mark.
ForkedWithheld == child.early => ~Published

\* The child of such a fork never counts a hit in the copied arena,
\* and in required mode no hit passes unless collection had already failed.
ForkedChildStops ==
    child.early => /\ ~child.counted
                   /\ required /\ child.passed => child.state = "INCOMPLETE"

\* What a fork before the look does to both images: no profile of the one shows
\* counts of the other, and coverage that is required is not silently missing.
ForkHandled == ForkedWithheld /\ ForkedChildStops

\* Once exit has begun the process ends: no path of the flush waits on anything.
FlushEnds == pc[Main] \in InFlush ~> ~Running
=============================================================================
