----------------------------- MODULE OutputTree -----------------------------
(***************************************************************************)
(* The output directory: sv0cov report (src/sv0cov/cmd_report.py with      *)
(* exports.py) publishes a standard export in one of its three layouts,    *)
(* while sv0cov clean (src/sv0cov/cmd_clean.py) examines the tree and then *)
(* removes what it examined, by name, and a user drops a file into it.     *)
(*                                                                         *)
(* A node is a file or a directory on disk, called by who made it and for  *)
(* which artifact.  While it is linked it has a place: the directory it is *)
(* in and its name there.  A process that opened a directory keeps the     *)
(* node, whatever happens to the name.  A commit is one step, as Publish   *)
(* shows; the steps around it are the ones a removal can come between.     *)
(***************************************************************************)
EXTENDS Naturals, Sequences, FiniteSets

CONSTANTS
    Reports,    \* runs of sv0cov report --format lcov, without --output or with -
    Layouts,    \* the layouts they may be asked for together: one a report
    Cleans,     \* runs of sv0cov clean
    Project,    \* the project root
    Mine,       \* a file no sv0cov command makes
    None

-----------------------------------------------------------------------------
(* Nodes and names. *)

Members == {"native", "primary", "manifest"}
Pieces  == Members \cup {"bundle"}

\* What a report may make: the managed directories on the way to each commit,
\* its files, and the directory of a bundle.
Dirs  == Reports \X {"output", "reports"} \X Members \cup Reports \X {"artifact"} \X {"bundle"}
Files == Reports \X {"artifact"} \X Members \cup {Mine}
Nodes == Dirs \cup Files
Artifact(r, a) == <<r, "artifact", a>>

Final(s)     == [name |-> s]
Temp(n)      == [temp |-> n]    \* .sv0cov-tmp- and 32 random hex digits
IsTemp(s)    == "temp" \in DOMAIN s
ReportNames  == {"lcov.info", "lcov.info.sv0cov.json", "lcov.info.manifest.json",
                 "coverage.json", "lcov.manifest.json"}
SupportNames == {"coverage.json", "lcov.manifest.json"}
Names == {Final(s) : s \in ReportNames \cup {"output", "reports", "lcov-stdout-support", "mine"}}
         \cup {Temp(n) : n \in Nodes}
Paths == Seq(Names)      \* from the project root down

ASSUME NodeAssumption ==
    /\ Reports \cap Cleans = {}
    /\ Project \notin Nodes /\ None \notin Nodes \cup {Project}
    /\ \A r \in Reports, k \in {"output", "reports", "artifact"}, a \in Pieces : Mine # <<r, k, a>>

ASSUME LayoutAssumption == Layouts \subseteq [Reports -> {"single", "bundle", "stdout"}]

VARIABLES
    layout,     \* per report: "single", "bundle" or "stdout"
    dir, name,  \* per node: its place
    pc,         \* per report and clean: its next step
    fd,         \* per report: the open directory it publishes into
    next,       \* per report: how many of its files it has written or committed
    printed,    \* per report: stdout took the whole primary
    agenda,     \* per clean: the directories it has still to examine
    plan,       \* per clean: the paths it has examined and not yet removed
    refused,    \* per clean: it met something that is not to be removed
    open,       \* per clean: the directories it is inside of while it removes
    exit,       \* per report and clean: the exit status
    seen,       \* history, per clean at work: the nodes it examined, and by which path
    took,       \* history, per clean: the nodes it removed
    blind       \* history: the cleans that removed a node they had not examined

tree    == <<dir, name>>
report  == <<fd, next, printed>>
locals  == <<agenda, plan, refused, open, seen>>
clean   == <<locals, took, blind>>
vars    == <<layout, tree, pc, report, clean, exit>>

Init ==
    /\ layout \in Layouts
    /\ dir = [n \in Nodes |-> None] /\ name = [n \in Nodes |-> Temp(n)]
    /\ pc = [p \in Reports \cup Cleans |-> IF p \in Reports THEN "check" ELSE "look"]
    /\ fd = [r \in Reports |-> None] /\ next = [r \in Reports |-> 0]
    /\ printed = [r \in Reports |-> FALSE]
    /\ agenda = [c \in Cleans |-> {}] /\ plan = [c \in Cleans |-> {}]
    /\ refused = [c \in Cleans |-> FALSE] /\ open = [c \in Cleans |-> <<>>]
    /\ exit = [p \in Reports \cup Cleans |-> "none"]
    /\ seen = [c \in Cleans |-> {}] /\ took = [c \in Cleans |-> {}] /\ blind = {}

Goto(p, step)    == pc' = [pc EXCEPT ![p] = step]
Leave(p, status) == Goto(p, "done") /\ exit' = [exit EXCEPT ![p] = status]

Entries(d)  == {n \in Nodes : dir[n] = d}
Child(d, s) == {n \in Entries(d) : name[n] = s}
Linked(d)   == d \in {Project} \cup {n \in Nodes : dir[n] # None}

Place(n, d, s) == dir' = [dir EXCEPT ![n] = d] /\ name' = [name EXCEPT ![n] = s]
Unlink(ns)     == dir' = [n \in Nodes |-> IF n \in ns THEN None ELSE dir[n]] /\ UNCHANGED name

-----------------------------------------------------------------------------
(* Decisions, each after the mistake a property would reveal; a definition *)
(* ..._wrong is not part of the specification.                             *)

\* What a report publishes, in this order: the manifest is the commit record.
Contents_wrong(r) == <<"native", "manifest", "primary">>
Contents(r) == IF layout[r] = "stdout" THEN <<"native", "manifest">>
                                       ELSE <<"native", "primary", "manifest">>

\* A commit takes only a name that is absent.
Free_wrong(d, s) == TRUE
Free(d, s)       == Child(d, s) = {}

\* One file is three commits; the report is over after the last of them.
More_wrong(r) == next[r] + 2 < Len(Contents(r))
More(r)       == next[r] + 1 < Len(Contents(r))

\* _child_level: whether a level may hold this name.
Level(path) ==
    LET s == path[Len(path)] IN
    CASE \E i \in 1 .. Len(path) : IsTemp(path[i]) -> "free"
      [] OTHER -> s.name
Known_wrong(path, n) == TRUE
Known(path, n) ==
    \/ Level(path) = "free" \/ IsTemp(name[n])
    \/ n \in Dirs /\ \/ Level(path) = "output" /\ name[n] = Final("reports")
                     \/ Level(path) = "reports" /\ name[n] = Final("lcov-stdout-support")
    \/ n \in Files /\ \/ Level(path) = "reports" /\ name[n].name \in ReportNames
                      \/ Level(path) = "lcov-stdout-support" /\ name[n].name \in SupportNames

\* rmdir removes only an empty directory.
Empty(d) == Entries(d) = {}

\* What _remove still has to remove of a directory: the plan, not the listing.
Planned_wrong(c, path, d) == {[path |-> Append(path, name[n]), isDir |-> n \in Dirs] : n \in Entries(d)}
Planned(c, path, d) ==
    {e \in plan[c] : Len(e.path) = Len(path) + 1 /\ SubSeq(e.path, 1, Len(path)) = path}

-----------------------------------------------------------------------------
(* sv0cov report. *)

\* What is being published: one file after another, or a bundle of them.
Piece(r) == IF layout[r] = "single" THEN Contents(r)[next[r] + 1] ELSE "bundle"

NameOf(r, a) ==
    CASE a = "bundle" -> Final(IF layout[r] = "bundle" THEN "reports" ELSE "lcov-stdout-support")
      [] a = "native" -> Final(IF layout[r] = "single" THEN "lcov.info.sv0cov.json" ELSE "coverage.json")
      [] a = "primary" -> Final("lcov.info")
      [] OTHER -> Final(IF layout[r] = "single" THEN "lcov.info.manifest.json" ELSE "lcov.manifest.json")

\* check_destination of every name: in the managed directories as they are.
InTheWay(r) ==
    LET output  == Child(Project, Final("output"))
        reports == UNION {Child(d, Final("reports")) : d \in output}
    IN  \E d \in IF layout[r] = "bundle" THEN output ELSE reports :
        \E a \in IF layout[r] = "single" THEN Members ELSE {"bundle"} : ~Free(d, NameOf(r, a))

\* The checks, the evidence and the rendering of everything in memory.
Check(r) ==
    /\ pc[r] = "check"
    /\ \/ /\ ~InTheWay(r)
          /\ Goto(r, IF layout[r] = "stdout" THEN "stdout" ELSE "open") /\ UNCHANGED exit
       \/ Leave(r, "refused")
    /\ UNCHANGED <<layout, tree, report, clean>>

\* publish_stdout
Emit(r) ==
    /\ pc[r] = "stdout"
    /\ \/ printed' = [printed EXCEPT ![r] = TRUE] /\ Goto(r, "open") /\ UNCHANGED exit
       \/ Leave(r, "failed") /\ UNCHANGED printed
    /\ UNCHANGED <<layout, tree, fd, next, clean>>

\* _open_parent: each managed directory is made unless it is there, and opened.
\* It may fail at any of them, and what it made stays.
OpenParent(r) ==
    /\ pc[r] = "open"
    /\ LET first   == Contents(r)[next[r] + 1]
           old     == Child(Project, Final("output"))
           output  == IF old = {} THEN <<r, "output", first>> ELSE CHOOSE d \in old : TRUE
           below   == Child(output, Final("reports"))
           reports == IF below = {} THEN <<r, "reports", first>> ELSE CHOOSE d \in below : TRUE
           Make(made) ==
              /\ dir' = [n \in Nodes |-> IF n \notin made THEN dir[n]
                                         ELSE IF n = output THEN Project ELSE output]
              /\ name' = [n \in Nodes |-> IF n \notin made THEN name[n]
                                          ELSE Final(IF n = output THEN "output" ELSE "reports")]
       IN  \/ /\ Make(IF layout[r] = "bundle" THEN {output} ELSE {output, reports})
              /\ fd' = [fd EXCEPT ![r] = IF layout[r] = "bundle" THEN output ELSE reports]
              /\ Goto(r, "create") /\ UNCHANGED exit
           \/ /\ \E made \in {{}, {output}} : Make(made)
              /\ Leave(r, "failed") /\ UNCHANGED fd
    /\ UNCHANGED <<layout, next, printed, clean>>

\* _absent, then the temporary file with its contents, or the directory.
Create(r) ==
    /\ pc[r] = "create"
    /\ \/ /\ Linked(fd[r]) /\ Free(fd[r], NameOf(r, Piece(r)))
          /\ Place(Artifact(r, Piece(r)), fd[r], Temp(Artifact(r, Piece(r))))
          /\ Goto(r, IF layout[r] = "single" THEN "commit" ELSE "members")
       \/ Goto(r, "cleanup") /\ UNCHANGED tree
    /\ UNCHANGED <<layout, report, clean, exit>>

\* The members of a bundle, in order of their names.
Member(r) ==
    /\ pc[r] = "members" /\ next[r] < Len(Contents(r))
    /\ LET a == Contents(r)[next[r] + 1] IN
       \/ /\ Linked(Artifact(r, "bundle"))
          /\ Place(Artifact(r, a), Artifact(r, "bundle"), NameOf(r, a))
          /\ next' = [next EXCEPT ![r] = @ + 1] /\ UNCHANGED pc
       \/ Goto(r, "cleanup") /\ UNCHANGED <<tree, next>>
    /\ UNCHANGED <<layout, fd, printed, clean, exit>>

\* The listing of the temporary directory.
Listing(r) ==
    /\ pc[r] = "members" /\ next[r] = Len(Contents(r))
    /\ \/ /\ Cardinality(Entries(Artifact(r, "bundle"))) = Len(Contents(r))
          /\ Goto(r, "commit")
       \/ Goto(r, "cleanup")
    /\ UNCHANGED <<layout, tree, report, clean, exit>>

\* The commit needs the temporary: clean takes it for a leftover.
Commit(r) ==
    /\ pc[r] = "commit"
    /\ LET n == Artifact(r, Piece(r)) IN
       \/ /\ Linked(n) /\ Free(fd[r], NameOf(r, Piece(r)))
          /\ Place(n, fd[r], NameOf(r, Piece(r)))
          /\ IF layout[r] = "single"
             THEN /\ next' = [next EXCEPT ![r] = @ + 1]
                  /\ IF More(r)
                     THEN Goto(r, "open") /\ UNCHANGED exit
                     ELSE Leave(r, "ok")
             ELSE Leave(r, "ok") /\ UNCHANGED next
       \/ Goto(r, "cleanup") /\ UNCHANGED <<tree, next, exit>>
    /\ UNCHANGED <<layout, fd, printed, clean>>

\* _remove_file or _remove_tree of the temporary, which may not succeed.
Cleanup(r) ==
    /\ pc[r] = "cleanup"
    /\ \/ LET n == Artifact(r, Piece(r)) IN Unlink({n} \cup Entries(n))
       \/ UNCHANGED tree
    /\ Leave(r, "failed")
    /\ UNCHANGED <<layout, report, clean>>

-----------------------------------------------------------------------------
(* sv0cov clean. *)

Root == <<Final("output")>>

\* The command returns, and its locals are gone.
Quit(c, status) ==
    /\ Leave(c, status)
    /\ agenda' = [agenda EXCEPT ![c] = {}] /\ plan' = [plan EXCEPT ![c] = {}]
    /\ refused' = [refused EXCEPT ![c] = FALSE] /\ open' = [open EXCEPT ![c] = <<>>]
    /\ seen' = [seen EXCEPT ![c] = {}]

Look(c) ==
    /\ pc[c] = "look"
    /\ \/ /\ Child(Project, Final("output")) # {}
          /\ agenda' = [agenda EXCEPT ![c] = {[path |-> Root, in |-> Project]}]
          /\ Goto(c, "scan") /\ UNCHANGED <<exit, plan, refused, open, seen>>
       \/ Child(Project, Final("output")) = {} /\ Quit(c, "ok")
       \/ Quit(c, "refused")
    /\ UNCHANGED <<layout, tree, report, took, blind>>

\* _scan of one directory, opened by name.  A symlink, a special file, another
\* file system, too great a depth or a failing call are refusals too.
Scan(c) ==
    /\ pc[c] = "scan"
    /\ \E a \in agenda[c] :
       \/ \E d \in Child(a.in, a.path[Len(a.path)]) \cap Dirs :
             LET known == {n \in Entries(d) : Known(a.path, n)} IN
             /\ refused' = [refused EXCEPT ![c] = @ \/ known # Entries(d)]
             /\ plan' = [plan EXCEPT ![c] = @ \cup
                   {[path |-> Append(a.path, name[n]), isDir |-> n \in Dirs] : n \in known}]
             /\ agenda' = [agenda EXCEPT ![c] = (@ \ {a}) \cup
                   {[path |-> Append(a.path, name[n]), in |-> d] : n \in known \cap Dirs}]
             /\ seen' = [seen EXCEPT ![c] = @ \cup {[path |-> a.path, node |-> d]} \cup
                   {[path |-> Append(a.path, name[n]), node |-> n] : n \in known}]
       \/ /\ refused' = [refused EXCEPT ![c] = TRUE]
          /\ agenda' = [agenda EXCEPT ![c] = @ \ {a}]
          /\ UNCHANGED <<plan, seen>>
    /\ UNCHANGED <<layout, tree, pc, report, open, exit, took, blind>>

Scanned(c) ==
    /\ pc[c] = "scan" /\ agenda[c] = {}
    /\ IF refused[c] THEN Quit(c, "refused")
                     ELSE Goto(c, "remove") /\ UNCHANGED <<exit, locals>>
    /\ UNCHANGED <<layout, tree, report, took, blind>>

\* The directory it is inside of, and what contains that.
Top(c)    == open[c][Len(open[c])]
Outer(c)  == SubSeq(open[c], 1, Len(open[c]) - 1)
Parent(c) == IF Len(open[c]) = 1 THEN Project ELSE open[c][Len(open[c]) - 1].node

\* _remove opens the next directory by name.
Enter(c) ==
    /\ pc[c] = "remove"
    /\ \E entry \in IF open[c] = <<>> THEN {[path |-> Root, isDir |-> TRUE]}
                       ELSE Planned(c, Top(c).path, Top(c).node) :
       LET from == IF open[c] = <<>> THEN Project ELSE Top(c).node IN
       /\ entry.isDir
       /\ \/ /\ \E d \in Child(from, entry.path[Len(entry.path)]) \cap Dirs :
                   open' = [open EXCEPT ![c] = Append(@, [path |-> entry.path, node |-> d])]
             /\ UNCHANGED <<pc, exit, agenda, plan, refused, seen>>
          \/ Quit(c, "stopped")
    /\ UNCHANGED <<layout, tree, report, took, blind>>

\* The removal of one node.
Take(c, n) ==
    /\ Unlink({n})
    /\ took' = [took EXCEPT ![c] = @ \cup {n}]
    /\ blind' = blind \cup {d \in {c} : \A x \in seen[c] : x.node # n}

\* unlink of a file of the plan, by name; a directory there stops it.
RemoveFile(c) ==
    /\ pc[c] = "remove" /\ open[c] # <<>>
    /\ \E e \in Planned(c, Top(c).path, Top(c).node) :
       /\ ~e.isDir
       /\ \/ /\ \E n \in Child(Top(c).node, e.path[Len(e.path)]) \cap Files : Take(c, n)
             /\ plan' = [plan EXCEPT ![c] = @ \ {e}]
             /\ UNCHANGED <<pc, exit, agenda, refused, open, seen>>
          \/ Quit(c, "stopped") /\ UNCHANGED <<tree, took, blind>>
    /\ UNCHANGED <<layout, report>>

\* rmdir once nothing of the plan is left in it, by name again.
RemoveDir(c) ==
    /\ pc[c] = "remove" /\ open[c] # <<>> /\ Planned(c, Top(c).path, Top(c).node) = {}
    /\ LET path == Top(c).path IN
       \/ /\ \E d \in Child(Parent(c), path[Len(path)]) \cap Dirs : Empty(d) /\ Take(c, d)
          /\ IF Outer(c) = <<>>
             THEN Quit(c, "ok")
             ELSE /\ plan' = [plan EXCEPT ![c] = {e \in @ : e.path # path}]
                  /\ open' = [open EXCEPT ![c] = Outer(c)]
                  /\ UNCHANGED <<pc, exit, agenda, refused, seen>>
       \/ Quit(c, "stopped") /\ UNCHANGED <<tree, took, blind>>
    /\ UNCHANGED <<layout, report>>

-----------------------------------------------------------------------------
(* The environment.  A report or a clean that is killed is one that takes no *)
(* further step.                                                           *)

\* The user saves a file of their own in one of the directories.
Drop ==
    /\ dir[Mine] = None
    /\ \E d \in Dirs : Linked(d) /\ ~IsTemp(name[d]) /\ Place(Mine, d, Final("mine"))
    /\ UNCHANGED <<layout, pc, report, clean, exit>>

Ended ==
    /\ \A p \in Reports \cup Cleans : pc[p] = "done"
    /\ UNCHANGED vars

Next ==
    \/ \E r \in Reports : Check(r) \/ Emit(r) \/ OpenParent(r) \/ Create(r)
                          \/ Member(r) \/ Listing(r) \/ Commit(r) \/ Cleanup(r)
    \/ \E c \in Cleans : Look(c) \/ Scan(c) \/ Scanned(c) \/ Enter(c) \/ RemoveFile(c) \/ RemoveDir(c)
    \/ Drop \/ Ended

Spec == Init /\ [][Next]_vars

-----------------------------------------------------------------------------
(* Properties. *)

\* Every variable has its type, and a directory holds one node of a name.
TypeOK ==
    /\ layout \in [Reports -> {"single", "bundle", "stdout"}]
    /\ dir \in [Nodes -> Dirs \cup {Project, None}] /\ name \in [Nodes -> Names]
    /\ LET linked == {n \in Nodes : dir[n] # None}
       IN  \A m, n \in linked : dir[m] = dir[n] /\ name[m] = name[n] => m = n
    /\ pc \in [Reports \cup Cleans -> {"check", "stdout", "open", "create", "members",
                                       "commit", "cleanup", "look", "scan", "remove", "done"}]
    /\ fd \in [Reports -> Dirs \cup {None}] /\ next \in [Reports -> 0 .. 3]
    /\ printed \in [Reports -> BOOLEAN]
    /\ agenda \in [Cleans -> SUBSET [path : Paths, in : Dirs \cup {Project}]]
    /\ plan \in [Cleans -> SUBSET [path : Paths, isDir : BOOLEAN]]
    /\ open \in [Cleans -> Seq([path : Paths, node : Dirs])]
    /\ refused \in [Cleans -> BOOLEAN]
    /\ exit \in [Reports \cup Cleans -> {"none", "ok", "refused", "failed", "stopped"}]
    /\ seen \in [Cleans -> SUBSET [path : Paths, node : Nodes]] /\ took \in [Cleans -> SUBSET Nodes]
    /\ blind \subseteq Cleans

\* An artifact that can be found under its final name, in a committed bundle if
\* it is in one.
Published(r, a) ==
    /\ dir[Artifact(r, a)] # None /\ ~IsTemp(name[Artifact(r, a)])
    /\ layout[r] # "single" => /\ dir[Artifact(r, "bundle")] # None
                               /\ ~IsTemp(name[Artifact(r, "bundle")])

\* A clean took something of this report's set.
Cut(r) == \E c \in Cleans : \E a \in Pieces : Artifact(r, a) \in took[c]

\* The manifest is the commit record: where it stands, every file it names
\* stands beside it and is of the same report, and stdout took the primary,
\* wherever the report failed or died; only a clean breaks a set up.
ManifestCommits ==
    \A r \in Reports : Published(r, "manifest") /\ ~Cut(r) =>
        /\ \A i \in DOMAIN Contents(r) :
              /\ Published(r, Contents(r)[i])
              /\ dir[Artifact(r, Contents(r)[i])] = dir[Artifact(r, "manifest")]
        /\ layout[r] = "stdout" => printed[r]
        /\ layout[r] # "stdout" => Published(r, "primary")

\* Status 0 says that the set is there, and a report that ended with another
\* one has published no manifest.
ReportTold ==
    \A r \in Reports :
        /\ exit[r] = "ok" /\ ~Cut(r) => Published(r, "manifest")
        /\ exit[r] \in {"refused", "failed"} => ~Published(r, "manifest")

\* No clean removes or moves a file that no command of sv0cov made.
UserFilesKept == [][dir[Mine] # None => dir'[Mine] = dir[Mine]]_vars

\* A clean that is alone removes exactly nodes it examined, though it removes by
\* name and reports publish, fail and clean up behind it.
ExaminedOnly ==
    \A c \in Cleans : (\A d \in Cleans \ {c} : took[d] = {}) => c \notin blind
=============================================================================
