------------------------------ MODULE Publish ------------------------------
(***************************************************************************)
(* src/sv0cov/publish.py: several processes publish to one name in one     *)
(* directory with publish_file, publish_bundle and replace_file.  Each     *)
(* writes a temporary sibling, reads it back and commits it.  A system     *)
(* call may fail at any step, a write may be lost without an error, an     *)
(* interrupt may be raised at any step and a process may die at any step.  *)
(***************************************************************************)
EXTENDS Naturals, FiniteSets

CONSTANTS
    Publishers,         \* the processes
    BundleSize,         \* bound: members of a bundle
    Absent,             \* no such name
    Old,                \* a regular file that was there before
    Foreign             \* a symlink or anything that is not a regular file

ASSUME NameAssumption ==
    /\ Absent \notin Publishers /\ Old \notin Publishers /\ Foreign \notin Publishers
    /\ Absent # Old /\ Absent # Foreign /\ Old # Foreign
ASSUME BundleAssumption == BundleSize \in Nat \ {0}

VARIABLES
    op,         \* per process: the operation it calls
    valid,      \* per process: does its validator accept the bytes
    primitive,  \* the file system has a rename that cannot replace
    pc,         \* per process: the next step of its operation
    done,       \* per process: members written so far
    there,      \* per process: does its temporary exist
    temp,       \* per process: the members its temporary really holds
    dst,        \* whose artifact the final name holds
    held,       \* the members that artifact holds
    result,     \* per process: what it returned or raised
    committed,  \* history: the processes whose commit took effect
    stuck       \* history: the processes whose temporary was not removed

fixed == <<op, valid, primitive>>
name  == <<dst, held>>
vars  == <<fixed, pc, done, there, temp, name, result, committed, stuck>>

Ops     == {"file", "bundle", "replace"}
Errors  == {"collision", "unsafe", "failed"}
Size(p) == IF op[p] = "bundle" THEN BundleSize ELSE 1
Members(p) == 1 .. Size(p)

\* What the final name holds is a directory: a published bundle.
Directory == dst \in Publishers /\ op[dst] = "bundle"

Init ==
    /\ op \in [Publishers -> Ops]
    /\ valid \in [Publishers -> BOOLEAN]
    /\ primitive \in BOOLEAN
    /\ pc = [p \in Publishers |-> "open"]
    /\ done = [p \in Publishers |-> 0]
    /\ there = [p \in Publishers |-> FALSE]
    /\ temp = [p \in Publishers |-> {}]
    /\ dst \in {Absent, Old, Foreign} /\ held = {}
    /\ result = [p \in Publishers |-> "none"]
    /\ committed = {} /\ stuck = {}

Goto(p, where) == pc' = [pc EXCEPT ![p] = where]

\* The operation ends with r, with nothing to remove.
End(p, r) ==
    /\ Goto(p, "end") /\ result' = [result EXCEPT ![p] = r]

\* The except clause: remove the temporary, then raise r.
Fail(p, r) ==
    /\ Goto(p, "cleanup") /\ result' = [result EXCEPT ![p] = r]

-----------------------------------------------------------------------------
(* The decisions a property depends on, each after the mistake that would  *)
(* break it; a definition ..._wrong is not part of the specification.      *)

\* _rename_noreplace and link take only an absent name.
Free_wrong == TRUE
Free       == dst = Absent

\* _read_back: the member holds the bytes and the validator accepts them.
ReadsBack(p) == done[p] \in temp[p] /\ valid[p]

\* A bundle has members left to write.
More_wrong(p) == done[p] <= Size(p)
More(p)       == done[p] < Size(p)

\* A leftover name of a linked temporary is only litter.
Leftover_wrong(p) == Fail(p, "failed")
Leftover(p)       == Goto(p, "taken") /\ UNCHANGED result

\* The except clause removes the temporary before it raises.
Collide_wrong(p) == End(p, "collision")
Collide_again(p) == Goto(p, "check") /\ UNCHANGED result
Collide(p)       == Fail(p, "collision")

-----------------------------------------------------------------------------

\* _open_parent: the parent directory opens, or the destination is refused.
Open(p) ==
    /\ pc[p] = "open"
    /\ \/ Goto(p, "look") /\ UNCHANGED result
       \/ End(p, "unsafe")
       \/ End(p, "failed")
    /\ UNCHANGED <<fixed, done, there, temp, name, committed, stuck>>

\* _absent, or the lstat of replace_file: what it finds may change before the
\* commit.
Look(p) ==
    /\ pc[p] = "look"
    /\ \/ /\ IF op[p] = "replace" THEN dst # Foreign /\ ~Directory ELSE dst = Absent
          /\ Goto(p, "create") /\ UNCHANGED result
       \/ /\ op[p] # "replace" /\ dst # Absent
          /\ End(p, "collision")
       \/ /\ op[p] = "replace" /\ (dst = Foreign \/ Directory)
          /\ End(p, "unsafe")
       \/ End(p, "failed")
    /\ UNCHANGED <<fixed, done, there, temp, name, committed, stuck>>

\* O_CREAT|O_EXCL of the temporary file, mkdir of the temporary bundle.
Create(p) ==
    /\ pc[p] = "create"
    /\ \/ there' = [there EXCEPT ![p] = TRUE] /\ Goto(p, "write") /\ UNCHANGED result
       \/ Fail(p, "failed") /\ UNCHANGED there
    /\ UNCHANGED <<fixed, done, temp, name, committed, stuck>>

\* _write_file of the next member; the bytes may not be what was written.
Write(p) ==
    /\ pc[p] = "write"
    /\ \/ /\ done' = [done EXCEPT ![p] = @ + 1]
          /\ \/ temp' = [temp EXCEPT ![p] = @ \cup {done[p] + 1}]
             \/ UNCHANGED temp
          /\ Goto(p, "check") /\ UNCHANGED result
       \/ Fail(p, "failed") /\ UNCHANGED <<done, temp>>
    /\ UNCHANGED <<fixed, there, name, committed, stuck>>

\* _read_back of that member, and of a bundle the listing after the last one.
Check(p) ==
    /\ pc[p] = "check"
    /\ \/ /\ ReadsBack(p)
          /\ Goto(p, IF More(p) THEN "write" ELSE "commit")
          /\ UNCHANGED result
       \/ Fail(p, "failed")
    /\ UNCHANGED <<fixed, done, there, temp, name, committed, stuck>>

\* The artifact of p becomes what the name holds.
Take(p) ==
    /\ dst' = p /\ held' = temp[p]
    /\ committed' = committed \cup {p}

\* _commit with the primitive: one rename that takes only an absent name.
Rename(p) ==
    /\ pc[p] = "commit" /\ op[p] # "replace" /\ primitive
    /\ \/ /\ Free /\ Take(p)
          /\ there' = [there EXCEPT ![p] = FALSE]
          /\ Goto(p, "taken") /\ UNCHANGED result
       \/ dst # Absent /\ Collide(p) /\ UNCHANGED <<there, name, committed>>
       \/ Fail(p, "failed") /\ UNCHANGED <<there, name, committed>>
    /\ UNCHANGED <<fixed, done, temp, stuck>>

\* _NoPrimitive: a directory fails, a file is linked under the final name.
NoPrimitive(p) ==
    /\ pc[p] = "commit" /\ op[p] # "replace" /\ ~primitive
    /\ IF op[p] = "bundle" THEN Fail(p, "failed") ELSE Goto(p, "link") /\ UNCHANGED result
    /\ UNCHANGED <<fixed, done, there, temp, name, committed, stuck>>

Link(p) ==
    /\ pc[p] = "link"
    /\ \/ Free /\ Take(p) /\ Goto(p, "unlink") /\ UNCHANGED result
       \/ dst # Absent /\ Collide(p) /\ UNCHANGED <<name, committed>>
       \/ Fail(p, "failed") /\ UNCHANGED <<name, committed>>
    /\ UNCHANGED <<fixed, done, there, temp, stuck>>

Unlink(p) ==
    /\ pc[p] = "unlink"
    /\ \/ /\ there' = [there EXCEPT ![p] = FALSE]
          /\ Goto(p, "taken") /\ UNCHANGED <<result, stuck>>
       \/ Leftover(p) /\ stuck' = stuck \cup {p} /\ UNCHANGED there
    /\ UNCHANGED <<fixed, done, temp, name, committed>>

\* os.rename of replace_file replaces what is there, but not a directory.
RenameOver(p) ==
    /\ pc[p] = "commit" /\ op[p] = "replace"
    /\ \/ /\ ~Directory /\ Take(p)
          /\ there' = [there EXCEPT ![p] = FALSE]
          /\ Goto(p, "taken") /\ UNCHANGED result
       \/ Fail(p, "failed") /\ UNCHANGED <<there, name, committed>>
    /\ UNCHANGED <<fixed, done, temp, stuck>>

\* _commit and the try return.
Return(p) ==
    /\ pc[p] = "taken"
    /\ Goto(p, "sync")
    /\ UNCHANGED <<fixed, done, there, temp, name, result, committed, stuck>>

\* _sync_dir never fails the operation.
Sync(p) ==
    /\ pc[p] = "sync"
    /\ End(p, "published")
    /\ UNCHANGED <<fixed, done, there, temp, name, committed, stuck>>

\* _remove_file and _remove_tree ignore what the system refuses to remove; a
\* temporary that was committed by a rename is no longer under its name.
Cleanup(p) ==
    /\ pc[p] = "cleanup"
    /\ \/ there' = [there EXCEPT ![p] = FALSE] /\ UNCHANGED stuck
       \/ there[p] /\ stuck' = stuck \cup {p} /\ UNCHANGED there
    /\ Goto(p, "end")
    /\ UNCHANGED <<fixed, done, temp, name, result, committed>>

\* A KeyboardInterrupt inside the try is caught: the temporary is removed and
\* the interrupt raised again.  Before the try there is no temporary, after it
\* the name is taken, and the interrupt just leaves; one that arrives during the
\* removal leaves the temporary where it is.
Interrupt(p) ==
    /\ \/ pc[p] \in {"open", "look", "sync"} /\ End(p, "stopped") /\ UNCHANGED stuck
       \/ pc[p] \in {"create", "write", "check", "commit", "link", "unlink", "taken"}
          /\ Fail(p, "interrupted") /\ UNCHANGED stuck
       \/ pc[p] = "cleanup" /\ End(p, "interrupted")
          /\ stuck' = stuck \cup {q \in {p} : there[q]}
    /\ UNCHANGED <<fixed, done, there, temp, name, committed>>

Crash(p) ==
    /\ pc[p] \notin {"end", "crashed"}
    /\ Goto(p, "crashed")
    /\ UNCHANGED <<fixed, done, there, temp, name, result, committed, stuck>>

Step(p) ==
    \/ Open(p) \/ Look(p) \/ Create(p) \/ Write(p) \/ Check(p) \/ Rename(p)
    \/ NoPrimitive(p) \/ Link(p) \/ Unlink(p) \/ RenameOver(p) \/ Return(p) \/ Sync(p)
    \/ Cleanup(p)

Ended ==
    /\ \A p \in Publishers : pc[p] \in {"end", "crashed"}
    /\ UNCHANGED vars

Next ==
    \/ \E p \in Publishers : Step(p)
    \/ \E p \in Publishers : Interrupt(p) \/ Crash(p)
    \/ Ended

Spec     == Init /\ [][Next]_vars
FairSpec == Spec /\ \A p \in Publishers : WF_vars(Step(p))

-----------------------------------------------------------------------------
(* Properties. *)

\* Every variable has its type.
TypeOK ==
    /\ op \in [Publishers -> Ops]
    /\ valid \in [Publishers -> BOOLEAN] /\ primitive \in BOOLEAN
    /\ pc \in [Publishers -> {"open", "look", "create", "write", "check", "commit", "link",
                              "unlink", "taken", "sync", "cleanup", "end", "crashed"}]
    /\ done \in [Publishers -> 0 .. BundleSize]
    /\ there \in [Publishers -> BOOLEAN]
    /\ temp \in [Publishers -> SUBSET (1 .. BundleSize)]
    /\ dst \in Publishers \cup {Absent, Old, Foreign}
    /\ held \in SUBSET (1 .. BundleSize)
    /\ result \in [Publishers -> Errors \cup {"none", "published", "interrupted", "stopped"}]
    /\ committed \in SUBSET Publishers /\ stuck \in SUBSET Publishers

\* A reader of the name never sees part of an artifact, bytes that were not
\* read back, or bytes a validator refused.
DestinationWhole == dst \in Publishers => held = Members(dst) /\ valid[dst]

\* What the caller is told is what happened: an error leaves the destination as
\* it was, success means the artifact was committed.
ToldTheTruth ==
    \A p \in Publishers : /\ result[p] \in Errors => p \notin committed
                          /\ result[p] = "published" => p \in committed

\* An operation that ended left no temporary, unless the system refused to
\* remove it or an interrupt stopped the removal; otherwise only a process that
\* died leaves one behind.
NoTemporary ==
    \A p \in Publishers : pc[p] = "end" /\ there[p] => p \in stuck

\* Every operation ends: none of them waits or tries again.
Ends == \A p \in Publishers : <>(pc[p] \in {"end", "crashed"})

\* What AtomicDestination promises, of the name: the mapping shows an artifact
\* only if the name holds all of it, and otherwise something no step may show.
Promise == INSTANCE AtomicDestination WITH
    object    <- IF DestinationWhole THEN dst ELSE Foreign,
    replacing <- {p \in Publishers : op[p] = "replace"}

\* publish_file, publish_bundle and replace_file together keep the promise: the
\* first of those that may not replace wins, and nothing but a replacement of a
\* regular file changes a name that exists.
Implements == Promise!Spec
=============================================================================
