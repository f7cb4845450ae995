-------------------------- MODULE OutputTree_proofs --------------------------
(***************************************************************************)
(* Proofs about OutputTree, for every number of reports and cleans.        *)
(***************************************************************************)
EXTENDS OutputTree, SequenceTheorems, TLAPS

-----------------------------------------------------------------------------
(* The inductive invariant. *)

OutputDirs  == Reports \X {"output"} \X Members
ReportsDirs == Reports \X {"reports"} \X Members
Bundles     == Reports \X {"artifact"} \X {"bundle"}

Finals == {Final(s) : s \in ReportNames \cup {"output", "reports", "lcov-stdout-support", "mine"}}

Above(path)  == SubSeq(path, 1, Len(path) - 1)
LastOf(path) == path[Len(path)]

\* A node keeps its temporary name, which no other node ever has, until its one
\* commit, and only the user's file is called mine.
NameInv ==
    \A n \in Nodes : /\ IsTemp(name[n]) => name[n] = Temp(n)
                     /\ ~IsTemp(name[n]) => name[n] \in Finals
                     /\ n # Mine => name[n] # Final("mine")
                     /\ name[n] = Final("reports") => n \in Dirs
                     /\ dir[n] = Project => n \in OutputDirs

\* Where the managed directories are, that a node in a directory keeps it, and
\* that nobody puts anything into a bundle that is not committed.
PlaceInv ==
    /\ \A n \in OutputDirs : dir[n] # None => dir[n] = Project /\ name[n] = Final("output")
    /\ \A n \in ReportsDirs : dir[n] # None => name[n] = Final("reports")
    /\ \A d \in Dirs : dir[d] # None /\ name[d] = Final("reports") => dir[d] \in OutputDirs
    /\ \A n \in Nodes : dir[n] \notin {None, Project} => dir[dir[n]] # None
    /\ \A r \in Reports : IsTemp(name[Artifact(r, "bundle")]) =>
          \A n \in Nodes : dir[n] = Artifact(r, "bundle") =>
             \E a \in Members : n = Artifact(r, a)

\* The user's file, once it is there.
MineInv ==
    /\ dir[Mine] = None => name[Mine] = Temp(Mine)
    /\ dir[Mine] # None => /\ dir[Mine] \in Dirs /\ ~IsTemp(name[dir[Mine]])
                           /\ name[Mine] = Final("mine")
    /\ \A c \in Cleans : /\ \A e \in plan[c] : LastOf(e.path) # Final("mine")
                         /\ \A x \in seen[c] : x.node # Mine
                         /\ \A a \in agenda[c] : \A i \in 1 .. Len(a.path) - 1 : ~IsTemp(a.path[i])

\* A node that has not been made: no clean has met it.
Pristine(n) ==
    /\ dir[n] = None /\ name[n] = Temp(n)
    /\ \A c \in Cleans : \A x \in seen[c] : x.node # n
LinkedOrTaken(n) == dir[n] # None \/ \E c \in Cleans : n \in took[c]

\* How far a report has come, in any layout.
StepInv(r) ==
    /\ pc[r] \in {"check", "stdout", "open", "create", "members", "commit", "cleanup", "done"}
    /\ exit[r] \in {"none", "ok", "refused", "failed"} /\ (exit[r] = "none" <=> pc[r] # "done")
    /\ next[r] <= Len(Contents(r)) /\ (pc[r] \in {"check", "stdout", "open", "create"} => next[r] < Len(Contents(r)))
    /\ pc[r] \in {"check", "stdout", "open"} => \A i \in DOMAIN Contents(r) : i > next[r] =>
          Pristine(<<r, "output", Contents(r)[i]>>) /\ Pristine(<<r, "reports", Contents(r)[i]>>)
    /\ pc[r] \in {"create", "members", "commit", "cleanup"} =>
          /\ fd[r] \in Dirs /\ ~IsTemp(name[fd[r]])
          /\ layout[r] = "bundle" => fd[r] \in OutputDirs
          /\ layout[r] # "bundle" => name[fd[r]] = Final("reports")

\* One file after the other.
SingleInv(r) ==
    /\ pc[r] \notin {"stdout", "members"} /\ (exit[r] = "ok" <=> next[r] = Len(Contents(r)))
    /\ \A i \in DOMAIN Contents(r) : LET n == Artifact(r, Contents(r)[i]) IN
          /\ i > next[r] => name[n] = Temp(n) /\ dir[n] \in {fd[r], None}
          /\ i > next[r] + 1 \/ (i > next[r] /\ pc[r] \in {"check", "open", "create"}) => Pristine(n)
          /\ i > next[r] + 1 => /\ Pristine(<<r, "output", Contents(r)[i]>>)
                                /\ Pristine(<<r, "reports", Contents(r)[i]>>)
          /\ i <= next[r] => /\ name[n] = NameOf(r, Contents(r)[i]) /\ LinkedOrTaken(n)
                             /\ dir[n] # None => dir[n] \in Dirs /\ name[dir[n]] = Final("reports")

\* A bundle and its members.
BundleInv(r) ==
    LET b == Artifact(r, "bundle") IN
    /\ pc[r] \in {"check", "stdout", "open", "create"} => next[r] = 0 /\ Pristine(b)
    /\ pc[r] \in {"members", "commit"} => name[b] = Temp(b) /\ dir[b] \in {fd[r], None} /\ LinkedOrTaken(b)
    /\ pc[r] \in {"members", "commit"} \/ exit[r] = "ok" =>
          \A i \in DOMAIN Contents(r) : i <= next[r] => LinkedOrTaken(Artifact(r, Contents(r)[i]))
    /\ \A i \in DOMAIN Contents(r) : LET n == Artifact(r, Contents(r)[i]) IN
          /\ i > next[r] => Pristine(n)
          /\ i <= next[r] => name[n] = NameOf(r, Contents(r)[i]) /\ dir[n] \in {b, None}
    /\ \A a \in Members : (\A i \in DOMAIN Contents(r) : Contents(r)[i] # a) => Pristine(Artifact(r, a))
    /\ pc[r] = "commit" \/ exit[r] = "ok" => next[r] = Len(Contents(r))
    /\ exit[r] = "ok" => name[b] = NameOf(r, "bundle") /\ LinkedOrTaken(b)
    /\ pc[r] = "cleanup" \/ exit[r] \in {"refused", "failed"} => name[b] = Temp(b)
    /\ layout[r] = "stdout" => (pc[r] \in {"open", "create", "members", "commit"} \/ exit[r] = "ok" => printed[r])

ReportInv ==
    \A r \in Reports : /\ StepInv(r)
                       /\ layout[r] = "single" => SingleInv(r)
                       /\ layout[r] # "single" => BundleInv(r)

\* No other clean has removed anything.
Alone(c) == \A d \in Cleans \ {c} : took[d] = {}

\* A clean alone examined each node by one path and each path once; what it
\* has still to remove is where it found it, unless it was a temporary.
SeenInv(c) ==
    /\ \A x, y \in seen[c] : x.path = y.path <=> x.node = y.node
    /\ \A x \in seen[c] :
          /\ x.path # <<>> /\ LastOf(x.path) \in {name[x.node], Temp(x.node)}
          /\ Len(x.path) = 1 => x.path = Root /\ dir[x.node] = Project /\ x.node \in Dirs
          /\ Len(x.path) # 1 => \E d \in seen[c] : /\ d.path = Above(x.path) /\ d.node \in Dirs
                                                   /\ dir[x.node] \in {d.node, None}
PlanInv(c) ==
    \A e \in plan[c] :
        /\ Len(e.path) > 1
        /\ \E x \in seen[c] : /\ x.path = e.path /\ (e.isDir <=> x.node \in Dirs)
        /\ \A x, d \in seen[c] : /\ x.path = e.path /\ d.path = Above(e.path)
                                 /\ ~IsTemp(LastOf(e.path)) /\ dir[d.node] # None
                                 => dir[x.node] = d.node
AgendaInv(c) ==
    /\ \A a \in agenda[c] :
          \/ a.path = Root /\ a.in = Project /\ seen[c] = {} /\ plan[c] = {} /\ agenda[c] = {a}
          \/ /\ Len(a.path) > 1 /\ [path |-> a.path, isDir |-> TRUE] \in plan[c]
             /\ [path |-> Above(a.path), node |-> a.in] \in seen[c]
             /\ \A x \in seen[c] : Above(x.path) # a.path
    /\ pc[c] = "scan" => \/ refused[c] \/ [path |-> Root, in |-> Project] \in agenda[c]
                         \/ \E x \in seen[c] : x.path = Root
    /\ pc[c] = "remove" => \E x \in seen[c] : x.path = Root
    /\ pc[c] # "scan" => agenda[c] = {}
    /\ pc[c] \notin {"scan", "remove"} => seen[c] = {} /\ plan[c] = {} /\ open[c] = <<>>
OpenInv(c) ==
    \A i \in DOMAIN open[c] :
        /\ open[c][i] \in seen[c] /\ Len(open[c][i].path) = i
        /\ i > 1 => /\ open[c][i - 1].path = Above(open[c][i].path)
                    /\ [path |-> open[c][i].path, isDir |-> TRUE] \in plan[c]

CleanInv ==
    \A c \in Cleans : Alone(c) => /\ SeenInv(c) /\ PlanInv(c) /\ AgendaInv(c) /\ OpenInv(c)
                                  /\ c \notin blind

IInv == TypeOK /\ NameInv /\ PlaceInv /\ MineInv /\ ReportInv /\ CleanInv

-----------------------------------------------------------------------------
(* Nodes, names and what a report publishes. *)

\* Final and temporary names are told apart, and each says what it was made of.
LEMMA NameFacts ==
  ASSUME NEW s, NEW t
  PROVE  /\ Final(s) # Temp(t) /\ IsTemp(Temp(t)) /\ ~IsTemp(Final(s)) /\ Final(s).name = s
         /\ (Final(s) = Final(t) => s = t) /\ (Temp(s) = Temp(t) => s = t)
  BY DEF Final, Temp, IsTemp

\* The names of nodes are the final ones and one temporary name for each.
LEMMA NamesAre ==
  /\ Names = Finals \cup {Temp(n) : n \in Nodes}
  /\ \A s \in Finals : ~IsTemp(s)
  /\ {Final("output"), Final("reports"), Final("mine")} \subseteq Finals
  /\ Final("mine") # Final("output") /\ Final("mine") # Final("reports")
  /\ Final("output") # Final("reports")
  BY NameFacts DEF Names, Finals

\* Nodes of different reports, kinds or artifacts are different nodes.
LEMMA NodeFacts ==
  /\ Nodes = Dirs \cup Files /\ Dirs \cap Files = {}
  /\ Dirs = OutputDirs \cup ReportsDirs \cup Bundles
  /\ OutputDirs \cap ReportsDirs = {} /\ OutputDirs \cap Bundles = {} /\ ReportsDirs \cap Bundles = {}
  /\ Mine \in Files /\ Project \notin Nodes /\ None \notin Nodes /\ Project # None
  BY NodeAssumption DEF Nodes, Dirs, Files, OutputDirs, ReportsDirs, Bundles, Members, Pieces

\* A node that is not an artifact of a report is no artifact.
LEMMA ArtifactKinds ==
  ASSUME NEW r \in Reports, NEW a \in Pieces
  PROVE  /\ Artifact(r, a) \in Nodes \ (OutputDirs \cup ReportsDirs \cup {Mine})
         /\ Artifact(r, a) \in Dirs <=> a = "bundle"
  BY NodeAssumption DEF Nodes, Dirs, Files, OutputDirs, ReportsDirs, Members, Pieces, Artifact

\* What a report may make, by report and kind.
LEMMA OwnFacts ==
  ASSUME NEW r \in Reports, NEW a \in Members
  PROVE  /\ <<r, "output", a>> \in OutputDirs /\ <<r, "reports", a>> \in ReportsDirs
         /\ Artifact(r, "bundle") \in Bundles
         /\ Artifact(r, a) \in Files /\ Artifact(r, a) # Mine
  BY NodeAssumption DEF OutputDirs, ReportsDirs, Bundles, Files, Artifact, Members, Pieces

\* An artifact belongs to one report and is one piece of it.
LEMMA ArtifactIsOne ==
  ASSUME NEW r, NEW a, NEW q, NEW b, Artifact(r, a) = Artifact(q, b)
  PROVE  r = q /\ a = b
  BY DEF Artifact

\* The files of a report in the order it publishes them, the manifest last.
LEMMA ContentsFacts ==
  ASSUME NEW r \in Reports
  PROVE  /\ Contents(r) \in Seq(Members) /\ Len(Contents(r)) \in {2, 3}
         /\ DOMAIN Contents(r) = 1 .. Len(Contents(r))
         /\ \A i \in DOMAIN Contents(r) : Contents(r)[i] \in Members
         /\ \A i, j \in DOMAIN Contents(r) : Contents(r)[i] = Contents(r)[j] => i = j
         /\ Contents(r)[Len(Contents(r))] = "manifest"
         /\ layout[r] = "single" => Len(Contents(r)) = 3
         /\ layout[r] # "stdout" => \E i \in DOMAIN Contents(r) : Contents(r)[i] = "primary"
  <1>1. CASE layout[r] = "stdout"
    BY <1>1 DEF Contents, Members
  <1>2. CASE layout[r] # "stdout"
    <2>1. Contents(r)[2] = "primary"
      BY <1>2 DEF Contents
    <2> QED
      BY <1>2, <2>1 DEF Contents, Members
  <1> QED
    BY <1>1, <1>2

\* The names of a report's files: final, different from each other and from
\* the names of directories and of the user's file.
LEMMA NameOfFacts ==
  ASSUME NEW r \in Reports
  PROVE  /\ \A a \in Pieces : NameOf(r, a) \in Finals \ {Final("mine"), Final("output")}
         /\ \A a \in Members : NameOf(r, a) # Final("reports")
         /\ \A a, b \in Members : NameOf(r, a) = NameOf(r, b) => a = b
         /\ NameOf(r, "bundle") = Final("reports") <=> layout[r] = "bundle"
  <1>1. /\ NameOf(r, "bundle") = Final(IF layout[r] = "bundle" THEN "reports" ELSE "lcov-stdout-support")
        /\ NameOf(r, "native") = Final(IF layout[r] = "single" THEN "lcov.info.sv0cov.json" ELSE "coverage.json")
        /\ NameOf(r, "primary") = Final("lcov.info")
        /\ NameOf(r, "manifest") = Final(IF layout[r] = "single" THEN "lcov.info.manifest.json" ELSE "lcov.manifest.json")
    BY DEF NameOf
  <1>2. \A s, u : Final(s) = Final(u) => s = u
    BY NameFacts
  <1> QED
    BY <1>1, <1>2 DEF Finals, ReportNames, Members, Pieces

\* A path is the path above it and a last name.
LEMMA PathFacts ==
  ASSUME NEW p \in Paths, NEW s \in Names
  PROVE  /\ Append(p, s) \in Paths /\ Len(Append(p, s)) = Len(p) + 1 /\ Append(p, s) # <<>>
         /\ LastOf(Append(p, s)) = s /\ Above(Append(p, s)) = p
         /\ \A i \in 1 .. Len(p) : Append(p, s)[i] = p[i]
  <1>1. /\ Append(p, s) \in Paths /\ Len(Append(p, s)) = Len(p) + 1 /\ Len(p) \in Nat
        /\ LastOf(Append(p, s)) = s /\ \A i \in 1 .. Len(p) : Append(p, s)[i] = p[i]
    BY DEF Paths, LastOf
  <1>2. Above(Append(p, s)) = p
    <2>1. Above(Append(p, s)) = SubSeq(Append(p, s), 1, Len(p))
      BY <1>1 DEF Above
    <2>2. \A i \in 1 .. Len(p) : Append(p, s)[i] \in Names
      BY <1>1 DEF Paths
    <2>3. /\ SubSeq(Append(p, s), 1, Len(p)) \in Seq(Names)
          /\ Len(SubSeq(Append(p, s), 1, Len(p))) = Len(p)
          /\ \A i \in 1 .. Len(p) : SubSeq(Append(p, s), 1, Len(p))[i] = p[i]
      BY <1>1, <2>2, SubSeqProperties
    <2> QED
      BY <2>1, <2>3, SeqEqual DEF Paths
  <1> QED
    BY <1>1, <1>2

\* The path above a path is one shorter.
LEMMA AboveFacts ==
  ASSUME NEW p \in Paths, p # <<>>
  PROVE  /\ Len(p) \in Nat \ {0} /\ LastOf(p) \in Names
         /\ Above(p) \in Paths /\ Len(Above(p)) = Len(p) - 1
         /\ \A i \in 1 .. Len(p) - 1 : Above(p)[i] = p[i]
  <1>1. Len(p) \in Nat \ {0}
    BY EmptySeq DEF Paths
  <1>2. \A i \in 1 .. Len(p) : p[i] \in Names
    BY <1>1 DEF Paths
  <1>3. \A i \in 1 .. Len(p) - 1 : p[i] \in Names
    BY <1>1, <1>2
  <1>4. /\ SubSeq(p, 1, Len(p) - 1) \in Seq(Names)
        /\ Len(SubSeq(p, 1, Len(p) - 1)) = IF 1 <= Len(p) - 1 THEN Len(p) - 1 - 1 + 1 ELSE 0
        /\ \A i \in 1 .. Len(p) - 1 - 1 + 1 : SubSeq(p, 1, Len(p) - 1)[i] = p[1 + i - 1]
    BY <1>1, <1>3, SubSeqProperties
  <1>5. Len(Above(p)) = Len(p) - 1
    <2> DEFINE k == Len(p)
               m == Len(SubSeq(p, 1, Len(p) - 1))
    <2>1. k \in Nat \ {0} /\ m = IF 1 <= k - 1 THEN k - 1 - 1 + 1 ELSE 0
      BY <1>1, <1>4
    <2> HIDE DEF k, m
    <2>2. m = k - 1
      BY <2>1
    <2> QED
      BY <2>2 DEF k, m, Above
  <1>6. \A i \in 1 .. Len(p) - 1 : Above(p)[i] = p[i]
    BY <1>1, <1>4 DEF Above
  <1> QED
    BY <1>1, <1>2, <1>4, <1>5, <1>6 DEF Above, LastOf, Paths

\* Of two paths with the same path above and last name there is only one.
LEMMA PathIsOne ==
  ASSUME NEW p \in Paths, NEW q \in Paths, p # <<>>, q # <<>>, Above(p) = Above(q), LastOf(p) = LastOf(q)
  PROVE  p = q
  <1>1. Len(p) = Len(q) /\ Len(p) \in Nat \ {0}
    BY AboveFacts
  <1>2. \A i \in 1 .. Len(p) : p[i] = q[i]
    <2> SUFFICES ASSUME NEW i \in 1 .. Len(p) PROVE p[i] = q[i]
      OBVIOUS
    <2>1. CASE i = Len(p)
      BY <1>1, <2>1 DEF LastOf
    <2>2. CASE i # Len(p)
      <3>1. i \in 1 .. Len(p) - 1 /\ i \in 1 .. Len(q) - 1
        BY <1>1, <2>2
      <3> QED
        BY <3>1, AboveFacts
    <2> QED
      BY <2>1, <2>2
  <1> QED
    BY <1>1, <1>2, SeqEqual DEF Paths

-----------------------------------------------------------------------------
(* What a step does to the tree: each node is left alone, or appears in a    *)
(* free place, or takes its final name there, or goes.                       *)

Same(n) == dir'[n] = dir[n] /\ name'[n] = name[n]

Appears(r, n) ==
    /\ Pristine(n) /\ Child(dir'[n], name'[n]) = {}
    /\ \/ n \in OutputDirs /\ dir'[n] = Project /\ name'[n] = Final("output")
       \/ /\ n \in ReportsDirs /\ dir'[n] \in OutputDirs /\ name'[n] = Final("reports")
          /\ dir'[dir'[n]] = Project
       \/ \E a \in Pieces : /\ n = Artifact(r, a) /\ dir'[n] \in Dirs /\ name'[n] = Temp(n)
                            /\ dir'[dir'[n]] # None /\ ~IsTemp(name'[dir'[n]])
       \/ \E a \in Members : /\ n = Artifact(r, a) /\ dir'[n] = Artifact(r, "bundle")
                             /\ dir'[dir'[n]] # None /\ name'[n] = NameOf(r, a)

Renamed(r, n) ==
    \E a \in Pieces : /\ n = Artifact(r, a) /\ dir[n] \in Dirs /\ dir'[n] = dir[n]
                      /\ name[n] = Temp(n) /\ name'[n] = NameOf(r, a)
                      /\ Child(dir[n], name'[n]) = {}
                      /\ name'[n] = Final("reports") => dir[n] \in OutputDirs

Discarded(r, n) ==
    /\ dir'[n] = None /\ name'[n] = name[n] /\ \A m \in Nodes : dir'[m] # n
    /\ \E a \in Pieces : n = Artifact(r, a)
    /\ \/ IsTemp(name[n])
       \/ dir[n] \in Dirs /\ IsTemp(name[dir[n]]) /\ dir'[dir[n]] = None

Owned(r, n) == \E a \in Pieces : n \in {<<r, "output", a>>, <<r, "reports", a>>, Artifact(r, a)}

ReportEffect(r) ==
    /\ \A n \in Nodes : \/ Same(n)
                        \/ Owned(r, n) /\ (Appears(r, n) \/ Renamed(r, n) \/ Discarded(r, n))
    /\ \A m, n \in Nodes : ~Same(m) /\ ~Same(n) /\ dir'[m] # None /\ dir'[n] # None
                             /\ name'[m] = name'[n] => m = n
    /\ dir' \in [Nodes -> Dirs \cup {Project, None}] /\ name' \in [Nodes -> Names]

\* A step that leaves the tree alone.
LEMMA NoEffect ==
  ASSUME TypeOK, NEW r \in Reports, UNCHANGED tree
  PROVE  ReportEffect(r)
  BY DEF ReportEffect, Same, tree, TypeOK

\* Opening the parent makes the managed directories that are missing.
LEMMA OpenEffect ==
  ASSUME IInv, NEW r \in Reports, OpenParent(r)
  PROVE  /\ ReportEffect(r)
         /\ \A i \in DOMAIN Contents(r) : i > next[r] + 1 =>
               Same(<<r, "output", Contents(r)[i]>>) /\ Same(<<r, "reports", Contents(r)[i]>>)
         /\ \A a \in Pieces : Same(Artifact(r, a))
         /\ \E d \in Dirs : fd' \in {fd, [fd EXCEPT ![r] = d]}
         /\ pc'[r] = "create" => /\ fd'[r] \in Dirs /\ ~IsTemp(name'[fd'[r]])
                                 /\ layout[r] = "bundle" => fd'[r] \in OutputDirs
                                 /\ layout[r] # "bundle" => name'[fd'[r]] = Final("reports")
  <1> DEFINE first   == Contents(r)[next[r] + 1]
             old     == Child(Project, Final("output"))
             output  == IF old = {} THEN <<r, "output", first>> ELSE CHOOSE d \in old : TRUE
             below   == Child(output, Final("reports"))
             reports == IF below = {} THEN <<r, "reports", first>> ELSE CHOOSE d \in below : TRUE
  <1>1. /\ next[r] + 1 \in DOMAIN Contents(r) /\ first \in Members
        /\ Pristine(<<r, "output", first>>) /\ Pristine(<<r, "reports", first>>)
    <2>1. pc[r] = "open" /\ StepInv(r) /\ next[r] \in 0 .. 3
      BY DEF OpenParent, IInv, ReportInv, TypeOK
    <2>2. next[r] + 1 \in DOMAIN Contents(r) /\ next[r] + 1 > next[r]
      BY <2>1, ContentsFacts DEF StepInv
    <2> QED
      BY <2>1, <2>2, ContentsFacts DEF StepInv
  <1>2. /\ output \in OutputDirs
        /\ old = {} => output = <<r, "output", first>> /\ Pristine(output)
        /\ old # {} => dir[output] = Project /\ name[output] = Final("output")
    BY <1>1, OwnFacts DEF IInv, NameInv, Child, Entries
  <1>3. /\ below = {} => reports = <<r, "reports", first>> /\ reports \in ReportsDirs /\ Pristine(reports)
        /\ below # {} => reports \in Dirs /\ dir[reports] = output /\ name[reports] = Final("reports")
    BY <1>1, OwnFacts DEF IInv, NameInv, Child, Entries
  <1>4. output \in Nodes /\ reports \in Nodes /\ reports # output
    BY <1>2, <1>3, NodeFacts DEF Pristine
  <1>5. PICK made \in {{}, {output}, {output, reports}} :
           /\ dir' = [n \in Nodes |-> IF n \notin made THEN dir[n]
                                      ELSE IF n = output THEN Project ELSE output]
           /\ name' = [n \in Nodes |-> IF n \notin made THEN name[n]
                                       ELSE Final(IF n = output THEN "output" ELSE "reports")]
           /\ fd' \in {fd, [fd EXCEPT ![r] = output], [fd EXCEPT ![r] = reports]}
           /\ pc'[r] = "create" => /\ layout[r] = "bundle" => output \in made /\ fd'[r] = output
                                   /\ layout[r] # "bundle" => reports \in made /\ fd'[r] = reports
    <2> DEFINE Make(made) ==
          /\ dir' = [n \in Nodes |-> IF n \notin made THEN dir[n]
                                     ELSE IF n = output THEN Project ELSE output]
          /\ name' = [n \in Nodes |-> IF n \notin made THEN name[n]
                                      ELSE Final(IF n = output THEN "output" ELSE "reports")]
    <2>1. \/ /\ Make(IF layout[r] = "bundle" THEN {output} ELSE {output, reports})
             /\ fd' = [fd EXCEPT ![r] = IF layout[r] = "bundle" THEN output ELSE reports]
          \/ /\ \E made \in {{}, {output}} : Make(made)
             /\ pc' = [pc EXCEPT ![r] = "done"] /\ fd' = fd
      BY DEF OpenParent, Goto, Leave
    <2>2. fd \in [Reports -> Dirs \cup {None}] /\ r \in DOMAIN pc
      BY DEF IInv, TypeOK
    <2> HIDE DEF first, old, output, below, reports
    <2>3. CASE /\ Make(IF layout[r] = "bundle" THEN {output} ELSE {output, reports})
               /\ fd' = [fd EXCEPT ![r] = IF layout[r] = "bundle" THEN output ELSE reports]
      BY <2>2, <2>3
    <2>4. CASE /\ \E made \in {{}, {output}} : Make(made)
               /\ pc' = [pc EXCEPT ![r] = "done"] /\ fd' = fd
      BY <2>2, <2>4
    <2> QED
      BY <2>1, <2>3, <2>4
  <1> HIDE DEF first, old, output, below, reports
  <1>6. \A n \in Nodes : n \notin made \/ (n = output /\ old # {}) \/ (n = reports /\ below # {}) => Same(n)
    BY <1>2, <1>3, <1>4, <1>5 DEF Same
  <1>7. output \in made /\ old = {} => Appears(r, output) /\ Owned(r, output) /\ name'[output] = Final("output")
    BY <1>1, <1>2, <1>4, <1>5 DEF Appears, Owned, Members, Pieces, old
  <1>8. reports \in made /\ below = {} => Appears(r, reports) /\ Owned(r, reports) /\ name'[reports] = Final("reports")
    BY <1>1, <1>2, <1>3, <1>4, <1>5 DEF Appears, Owned, Members, Pieces, below
  <1>9. ReportEffect(r)
    <2>1. \A n \in Nodes : Same(n) \/ (n = output /\ output \in made /\ old = {})
                                   \/ (n = reports /\ reports \in made /\ below = {})
      BY <1>5, <1>6
    <2>2. dir' \in [Nodes -> Dirs \cup {Project, None}] /\ name' \in [Nodes -> Names]
      BY <1>2, <1>5, NamesAre, NodeFacts DEF IInv, TypeOK
    <2> QED
      BY <2>1, <2>2, <1>7, <1>8, NamesAre DEF ReportEffect
  <1>10. \A i \in DOMAIN Contents(r) : i > next[r] + 1 =>
            Same(<<r, "output", Contents(r)[i]>>) /\ Same(<<r, "reports", Contents(r)[i]>>)
    <2> SUFFICES ASSUME NEW i \in DOMAIN Contents(r), i > next[r] + 1
                 PROVE  Same(<<r, "output", Contents(r)[i]>>) /\ Same(<<r, "reports", Contents(r)[i]>>)
      OBVIOUS
    <2>1. Contents(r)[i] # first /\ Contents(r)[i] \in Members
      BY <1>1, ContentsFacts DEF first, IInv, TypeOK
    <2>2. <<r, "output", Contents(r)[i]>> \in OutputDirs /\ <<r, "reports", Contents(r)[i]>> \in ReportsDirs
      BY <2>1, OwnFacts
    <2> QED
      BY <2>1, <2>2, <1>2, <1>3, <1>6, NodeFacts
  <1>11. \A a \in Pieces : Same(Artifact(r, a))
    BY <1>2, <1>3, <1>6, ArtifactKinds, NodeFacts
  <1>12. pc'[r] = "create" => /\ fd'[r] \in Dirs /\ ~IsTemp(name'[fd'[r]])
                              /\ layout[r] = "bundle" => fd'[r] \in OutputDirs
                              /\ layout[r] # "bundle" => name'[fd'[r]] = Final("reports")
    BY <1>2, <1>3, <1>4, <1>5, NodeFacts, NameFacts
  <1>13. \E d \in Dirs : fd' \in {fd, [fd EXCEPT ![r] = d]}
    BY <1>2, <1>3, <1>5, NodeFacts
  <1> QED
    BY <1>9, <1>10, <1>11, <1>12, <1>13

\* The file or directory being made, of the report as it is.
LEMMA PieceFacts ==
  ASSUME IInv, NEW r \in Reports, pc[r] \in {"create", "commit", "cleanup"}
  PROVE  /\ Piece(r) \in Pieces /\ name[Artifact(r, Piece(r))] = Temp(Artifact(r, Piece(r)))
         /\ Artifact(r, Piece(r)) \in Nodes
         /\ layout[r] = "single" <=> Piece(r) # "bundle"
         /\ layout[r] = "single" => next[r] + 1 \in DOMAIN Contents(r) /\ Piece(r) = Contents(r)[next[r] + 1]
         /\ pc[r] = "create" => Pristine(Artifact(r, Piece(r)))
         /\ pc[r] = "commit" => dir[Artifact(r, Piece(r))] \in {fd[r], None}
  <1>1. StepInv(r) /\ next[r] \in 0 .. 3
    BY DEF IInv, ReportInv, TypeOK
  <1>2. CASE layout[r] = "single"
    <2>1. SingleInv(r)
      BY <1>2 DEF IInv, ReportInv
    <2>2. next[r] < Len(Contents(r))
      BY <1>1, <2>1, ContentsFacts DEF StepInv, SingleInv
    <2>3. next[r] + 1 \in DOMAIN Contents(r) /\ next[r] + 1 > next[r]
      BY <1>1, <2>2, ContentsFacts
    <2>4. Piece(r) = Contents(r)[next[r] + 1] /\ Piece(r) \in Members
      BY <1>2, <2>3, ContentsFacts DEF Piece
    <2>5. name[Artifact(r, Piece(r))] = Temp(Artifact(r, Piece(r)))
      BY <2>1, <2>3, <2>4 DEF SingleInv
    <2>6. dir[Artifact(r, Piece(r))] \in {fd[r], None} /\ (pc[r] = "create" => Pristine(Artifact(r, Piece(r))))
      BY <2>1, <2>3, <2>4 DEF SingleInv
    <2> QED
      BY <1>2, <2>3, <2>4, <2>5, <2>6, ArtifactKinds DEF Members, Pieces
  <1>3. CASE layout[r] # "single"
    <2>1. BundleInv(r) /\ Piece(r) = "bundle"
      BY <1>3 DEF IInv, ReportInv, Piece
    <2> QED
      BY <1>3, <2>1, ArtifactKinds DEF BundleInv, Pristine, Pieces
  <1> QED
    BY <1>2, <1>3

\* Two nodes with a temporary name are two nodes with different names.
LEMMA TempIsOne ==
  ASSUME IInv, NEW m \in Nodes, NEW n, name[m] = Temp(n)
  PROVE  m = n
  BY NameFacts DEF IInv, NameInv

\* What is created appears under its temporary name, in a directory that is linked.
LEMMA CreateEffect ==
  ASSUME IInv, NEW r \in Reports, Create(r)
  PROVE  /\ ReportEffect(r) /\ \A n \in Nodes : n # Artifact(r, Piece(r)) => Same(n)
         /\ \/ /\ pc' = [pc EXCEPT ![r] = IF layout[r] = "single" THEN "commit" ELSE "members"]
               /\ dir'[Artifact(r, Piece(r))] = fd[r]
               /\ name'[Artifact(r, Piece(r))] = Temp(Artifact(r, Piece(r)))
            \/ pc' = [pc EXCEPT ![r] = "cleanup"] /\ UNCHANGED tree
  <1> DEFINE n == Artifact(r, Piece(r))
  <1>1. CASE pc' = [pc EXCEPT ![r] = "cleanup"] /\ UNCHANGED tree
    BY <1>1, NoEffect DEF IInv, tree, Same
  <1>2. CASE /\ Linked(fd[r]) /\ Place(n, fd[r], Temp(n))
             /\ pc' = [pc EXCEPT ![r] = IF layout[r] = "single" THEN "commit" ELSE "members"]
    <2>1. fd[r] \in Dirs /\ ~IsTemp(name[fd[r]]) /\ fd[r] \in Nodes
      BY NodeFacts DEF Create, IInv, ReportInv, StepInv
    <2>2. dir[fd[r]] # None
      BY <1>2, <2>1, NodeFacts DEF Linked
    <2>3. Piece(r) \in Pieces /\ n \in Nodes /\ Pristine(n)
      BY PieceFacts DEF Create
    <2>4. dir' = [dir EXCEPT ![n] = fd[r]] /\ name' = [name EXCEPT ![n] = Temp(n)]
      BY <1>2 DEF Place
    <2> HIDE DEF n
    <2>5. dir \in [Nodes -> Dirs \cup {Project, None}] /\ name \in [Nodes -> Names]
      BY DEF IInv, TypeOK
    <2>6. n # fd[r] /\ dir'[n] = fd[r] /\ name'[n] = Temp(n)
      BY <2>1, <2>2, <2>3, <2>4, <2>5 DEF Pristine
    <2>7. \A m \in Nodes : m # n => Same(m)
      BY <2>4, <2>5 DEF Same
    <2>8. Child(dir'[n], name'[n]) = {}
      BY <2>1, <2>3, <2>6, NodeFacts, TempIsOne DEF Child, Entries, Pristine
    <2>9. dir'[fd[r]] # None /\ ~IsTemp(name'[fd[r]])
      BY <2>1, <2>2, <2>6, <2>7 DEF Same
    <2>10. Appears(r, n) /\ Owned(r, n)
      BY <2>1, <2>3, <2>6, <2>8, <2>9 DEF Appears, Owned, n
    <2>11. dir' \in [Nodes -> Dirs \cup {Project, None}] /\ name' \in [Nodes -> Names]
      BY <2>1, <2>3, <2>4, <2>5, NamesAre
    <2>12. ReportEffect(r)
      BY <2>7, <2>10, <2>11 DEF ReportEffect
    <2> QED
      BY <1>2, <2>6, <2>7, <2>12 DEF n
  <1> QED
    BY <1>1, <1>2 DEF Create, Goto

\* A member appears under its final name, in its own bundle.
LEMMA MemberEffect ==
  ASSUME IInv, NEW r \in Reports, Member(r)
  PROVE  LET n == Artifact(r, Contents(r)[next[r] + 1]) IN
         /\ ReportEffect(r) /\ \A m \in Nodes : m # n => Same(m)
         /\ \/ /\ next' = [next EXCEPT ![r] = @ + 1] /\ UNCHANGED pc
               /\ dir'[n] = Artifact(r, "bundle") /\ name'[n] = NameOf(r, Contents(r)[next[r] + 1])
            \/ pc' = [pc EXCEPT ![r] = "cleanup"] /\ UNCHANGED <<tree, next>>
  <1> DEFINE a == Contents(r)[next[r] + 1]
             n == Artifact(r, a)
             b == Artifact(r, "bundle")
  <1>1. CASE pc' = [pc EXCEPT ![r] = "cleanup"] /\ UNCHANGED <<tree, next>>
    BY <1>1, NoEffect DEF IInv, tree, Same
  <1>2. CASE /\ Linked(b) /\ Place(n, b, NameOf(r, a))
             /\ next' = [next EXCEPT ![r] = @ + 1] /\ UNCHANGED pc
    <2>1. /\ pc[r] = "members" /\ next[r] \in 0 .. 3 /\ next[r] < Len(Contents(r))
          /\ StepInv(r) /\ BundleInv(r)
      BY DEF Member, IInv, TypeOK, ReportInv, SingleInv
    <2>2. next[r] + 1 \in DOMAIN Contents(r) /\ next[r] + 1 > next[r] /\ a \in Members
      BY <2>1, ContentsFacts
    <2>3. b \in Dirs /\ b \in Nodes /\ n \in Files /\ n \in Nodes /\ Pristine(n)
      BY <2>1, <2>2, ArtifactKinds, OwnFacts, NodeFacts DEF BundleInv, Pieces
    <2>4. dir[b] # None /\ name[b] = Temp(b)
      BY <1>2, <2>1, <2>3, NodeFacts DEF Linked, BundleInv
    <2>5. dir' = [dir EXCEPT ![n] = b] /\ name' = [name EXCEPT ![n] = NameOf(r, a)]
      BY <1>2 DEF Place
    <2>6. \A m \in Nodes : dir[m] = b => name[m] # NameOf(r, a)
      <3> SUFFICES ASSUME NEW m \in Nodes, dir[m] = b, name[m] = NameOf(r, a) PROVE FALSE
        OBVIOUS
      <3>1. PICK c \in Members : m = Artifact(r, c)
        BY <2>4, NameFacts DEF IInv, PlaceInv
      <3>2. ~Pristine(m)
        BY <2>3, NodeFacts DEF Pristine
      <3>3. PICK i \in DOMAIN Contents(r) : Contents(r)[i] = c
        BY <2>1, <3>1, <3>2 DEF BundleInv
      <3>4. i <= next[r] /\ i \in Nat
        BY <2>1, <3>1, <3>2, <3>3, ContentsFacts DEF BundleInv
      <3>5. name[m] = NameOf(r, c)
        BY <2>1, <3>1, <3>3, <3>4 DEF BundleInv
      <3>6. c = a
        BY <2>2, <3>5, NameOfFacts
      <3> QED
        BY <2>1, <2>2, <3>3, <3>4, <3>6, ContentsFacts
    <2> HIDE DEF n, a, b
    <2>7. dir \in [Nodes -> Dirs \cup {Project, None}] /\ name \in [Nodes -> Names]
      BY DEF IInv, TypeOK
    <2>8. n # b /\ dir'[n] = b /\ name'[n] = NameOf(r, a) /\ dir'[b] # None
      BY <2>3, <2>4, <2>5, <2>7, NodeFacts DEF Pristine
    <2>9. \A m \in Nodes : m # n => Same(m)
      BY <2>5, <2>7 DEF Same
    <2>10. Appears(r, n) /\ Owned(r, n)
      <3>1. Child(dir'[n], name'[n]) = {}
        BY <2>6, <2>8 DEF Child, Entries
      <3> QED
        BY <2>2, <2>3, <2>8, <3>1 DEF Appears, Owned, n, b, Pieces
    <2>11. dir' \in [Nodes -> Dirs \cup {Project, None}] /\ name' \in [Nodes -> Names]
      BY <2>2, <2>3, <2>5, <2>7, NamesAre, NameOfFacts DEF Pieces
    <2>12. ReportEffect(r)
      BY <2>9, <2>10, <2>11 DEF ReportEffect
    <2> QED
      BY <1>2, <2>8, <2>9, <2>12 DEF n, a, b
  <1> QED
    BY <1>1, <1>2 DEF Member, Goto

\* A commit renames the temporary in the directory it was made in.
LEMMA CommitEffect ==
  ASSUME IInv, NEW r \in Reports, Commit(r)
  PROVE  LET n == Artifact(r, Piece(r)) IN
         /\ ReportEffect(r) /\ \A m \in Nodes : m # n => Same(m)
         /\ \/ /\ dir[n] = fd[r] /\ dir'[n] = fd[r] /\ name'[n] = NameOf(r, Piece(r))
               /\ IF layout[r] = "single" THEN next' = [next EXCEPT ![r] = @ + 1] ELSE UNCHANGED next
               /\ IF layout[r] = "single" /\ More(r)
                  THEN pc' = [pc EXCEPT ![r] = "open"] /\ UNCHANGED exit
                  ELSE pc' = [pc EXCEPT ![r] = "done"] /\ exit' = [exit EXCEPT ![r] = "ok"]
            \/ pc' = [pc EXCEPT ![r] = "cleanup"] /\ UNCHANGED <<tree, next, exit>>
  <1> DEFINE n == Artifact(r, Piece(r))
             Told == /\ IF layout[r] = "single" THEN next' = [next EXCEPT ![r] = @ + 1] ELSE UNCHANGED next
                     /\ IF layout[r] = "single" /\ More(r)
                        THEN pc' = [pc EXCEPT ![r] = "open"] /\ UNCHANGED exit
                        ELSE pc' = [pc EXCEPT ![r] = "done"] /\ exit' = [exit EXCEPT ![r] = "ok"]
  <1>1. CASE pc' = [pc EXCEPT ![r] = "cleanup"] /\ UNCHANGED <<tree, next, exit>>
    BY <1>1, NoEffect DEF IInv, tree, Same
  <1>2. CASE /\ Linked(n) /\ Free(fd[r], NameOf(r, Piece(r))) /\ Place(n, fd[r], NameOf(r, Piece(r)))
             /\ Told
    <2>1. /\ Piece(r) \in Pieces /\ n \in Nodes /\ name[n] = Temp(n) /\ dir[n] \in {fd[r], None}
          /\ layout[r] = "single" <=> Piece(r) # "bundle"
      BY PieceFacts DEF Commit
    <2>2. fd[r] \in Dirs /\ (layout[r] = "bundle" => fd[r] \in OutputDirs)
      BY DEF Commit, IInv, ReportInv, StepInv
    <2>3. dir[n] = fd[r]
      BY <1>2, <2>1, NodeFacts DEF Linked
    <2>4. dir' = [dir EXCEPT ![n] = fd[r]] /\ name' = [name EXCEPT ![n] = NameOf(r, Piece(r))]
      BY <1>2 DEF Place
    <2>5. dir \in [Nodes -> Dirs \cup {Project, None}] /\ name \in [Nodes -> Names]
      BY DEF IInv, TypeOK
    <2>6. NameOf(r, Piece(r)) = Final("reports") => fd[r] \in OutputDirs
      BY <2>1, <2>2, NameOfFacts DEF Members, Pieces
    <2>7. Child(fd[r], NameOf(r, Piece(r))) = {}
      BY <1>2 DEF Free
    <2> HIDE DEF n
    <2>8. dir'[n] = fd[r] /\ name'[n] = NameOf(r, Piece(r)) /\ \A m \in Nodes : m # n => Same(m)
      BY <2>1, <2>4, <2>5 DEF Same
    <2>9. Renamed(r, n) /\ Owned(r, n)
      BY <2>1, <2>2, <2>3, <2>6, <2>7, <2>8 DEF Renamed, Owned, n
    <2>10. dir' \in [Nodes -> Dirs \cup {Project, None}] /\ name' \in [Nodes -> Names]
      BY <2>1, <2>2, <2>4, <2>5, NamesAre, NameOfFacts
    <2>11. ReportEffect(r)
      BY <2>8, <2>9, <2>10 DEF ReportEffect
    <2> QED
      BY <1>2, <2>3, <2>8, <2>11 DEF n
  <1> QED
    BY <1>1, <1>2 DEF Commit, Goto, Leave

\* Cleaning up discards the temporary and, of a bundle, its members.
LEMMA CleanupEffect ==
  ASSUME IInv, NEW r \in Reports, Cleanup(r)
  PROVE  /\ ReportEffect(r) /\ UNCHANGED name
         /\ \A n \in Nodes : Same(n) \/ /\ dir'[n] = None
                                        /\ IF layout[r] = "single" THEN n = Artifact(r, Piece(r))
                                                                   ELSE \E a \in Pieces : n = Artifact(r, a)
  <1> DEFINE n == Artifact(r, Piece(r))
  <1>1. CASE UNCHANGED tree
    BY <1>1, NoEffect DEF IInv, tree, Same
  <1>2. CASE Unlink({n} \cup Entries(n))
    <2>1. /\ Piece(r) \in Pieces /\ n \in Nodes /\ name[n] = Temp(n)
          /\ layout[r] = "single" <=> Piece(r) # "bundle"
      BY PieceFacts DEF Cleanup
    <2>2. dir' = [m \in Nodes |-> IF m \in {n} \cup Entries(n) THEN None ELSE dir[m]] /\ name' = name
      BY <1>2 DEF Unlink
    <2>3. dir \in [Nodes -> Dirs \cup {Project, None}] /\ name \in [Nodes -> Names]
      BY DEF IInv, TypeOK
    <2>4. \A m \in Entries(n) : n \in Dirs /\ layout[r] # "single" /\ \E a \in Members : m = Artifact(r, a)
      <3> SUFFICES ASSUME NEW m \in Entries(n)
                   PROVE  n \in Dirs /\ layout[r] # "single" /\ \E a \in Members : m = Artifact(r, a)
        OBVIOUS
      <3>1. m \in Nodes /\ dir[m] = n
        BY DEF Entries
      <3>2. n \in Dirs /\ Piece(r) = "bundle"
        BY <2>1, <2>3, <3>1, ArtifactKinds, NodeFacts
      <3> QED
        BY <2>1, <3>1, <3>2, NameFacts DEF IInv, PlaceInv
    <2>5. \A m \in Entries(n) : m \in Files /\ \A k \in Nodes : dir[k] # m
      <3> SUFFICES ASSUME NEW m \in Entries(n), NEW k \in Nodes PROVE m \in Files /\ dir[k] # m
        BY <2>1 DEF Entries
      <3>1. m \in Files
        BY <2>4, OwnFacts
      <3>2. m \notin Dirs \cup {Project, None}
        BY <3>1, NodeFacts
      <3> QED
        BY <2>3, <3>1, <3>2
    <2> HIDE DEF n
    <2>6. \A m \in Nodes : dir'[m] \notin {n} \cup Entries(n)
      BY <2>1, <2>2, <2>3, <2>5, NodeFacts DEF Entries
    <2>7. \A m \in Nodes : m \notin {n} \cup Entries(n) => Same(m)
      BY <2>2 DEF Same
    <2>8. \A m \in {n} \cup Entries(n) : dir'[m] = None /\ name'[m] = name[m] /\ m \in Nodes
      BY <2>1, <2>2 DEF Entries
    <2>9. Discarded(r, n) /\ Owned(r, n)
      BY <2>1, <2>6, <2>8, NameFacts DEF Discarded, Owned, n
    <2>10. \A m \in Entries(n) : Discarded(r, m) /\ Owned(r, m)
      <3> SUFFICES ASSUME NEW m \in Entries(n) PROVE Discarded(r, m) /\ Owned(r, m)
        OBVIOUS
      <3>1. dir[m] \in Dirs /\ IsTemp(name[dir[m]]) /\ dir'[dir[m]] = None
        BY <2>1, <2>4, <2>8, NameFacts DEF Entries
      <3> QED
        BY <2>4, <2>6, <2>8, <3>1 DEF Discarded, Owned, Pieces
    <2>11. dir' \in [Nodes -> Dirs \cup {Project, None}] /\ name' \in [Nodes -> Names]
      BY <2>2, <2>3
    <2>12. ReportEffect(r)
      BY <2>7, <2>8, <2>9, <2>10, <2>11 DEF ReportEffect
    <2>13. \A m \in Nodes : Same(m) \/ /\ dir'[m] = None
                                       /\ IF layout[r] = "single" THEN m = n
                                                                  ELSE \E a \in Pieces : m = Artifact(r, a)
      BY <2>1, <2>4, <2>7, <2>8 DEF n, Pieces
    <2> QED
      BY <2>2, <2>12, <2>13 DEF n
  <1> QED
    BY <1>1, <1>2 DEF Cleanup

\* One step of a report.
ReportStep(r) ==
    \/ Check(r) \/ Emit(r) \/ OpenParent(r) \/ Create(r)
    \/ Member(r) \/ Listing(r) \/ Commit(r) \/ Cleanup(r)

\* The effect of any step of a report; the cleans notice nothing.
LEMMA ReportStepEffect ==
  ASSUME IInv, NEW r \in Reports, ReportStep(r)
  PROVE  ReportEffect(r) /\ UNCHANGED <<layout, clean>>
  <1>1. ReportEffect(r)
    <2>1. CASE Check(r) \/ Emit(r) \/ Listing(r)
      BY <2>1, NoEffect DEF Check, Emit, Listing, IInv
    <2> QED
      BY <2>1, OpenEffect, CreateEffect, MemberEffect, CommitEffect, CleanupEffect DEF ReportStep
  <1>2. UNCHANGED <<layout, clean>>
    BY DEF ReportStep, Check, Emit, OpenParent, Create, Member, Listing, Commit, Cleanup
  <1> QED
    BY <1>1, <1>2

\* What a clean does to the tree: nothing, or it takes one node that nothing is in.
CleanEffect(c) ==
    /\ \A n \in Nodes : Same(n) \/ /\ dir'[n] = None /\ name'[n] = name[n] /\ n # Mine
                                   /\ n \in took'[c] /\ \A m \in Nodes : dir'[m] # n
    /\ dir' \in [Nodes -> Dirs \cup {Project, None}] /\ name' \in [Nodes -> Names]
    /\ took' \in [Cleans -> SUBSET Nodes] /\ \A d \in Cleans : took[d] \subseteq took'[d]

\* The removal of a node that nothing is in.
LEMMA TakeEffect ==
  ASSUME TypeOK, NEW c \in Cleans, NEW n \in Nodes, n # Mine, \A m \in Nodes : dir[m] # n, Take(c, n)
  PROVE  CleanEffect(c)
  <1>1. /\ dir' = [m \in Nodes |-> IF m \in {n} THEN None ELSE dir[m]] /\ name' = name
        /\ took' = [took EXCEPT ![c] = @ \cup {n}]
    BY DEF Take, Unlink
  <1>2. took' \in [Cleans -> SUBSET Nodes] /\ n \in took'[c] /\ \A d \in Cleans : took[d] \subseteq took'[d]
    BY <1>1 DEF TypeOK
  <1>3. dir' \in [Nodes -> Dirs \cup {Project, None}] /\ name' \in [Nodes -> Names]
    BY <1>1 DEF TypeOK
  <1>4. \A m \in Nodes : dir'[m] # n
    BY <1>1, NodeFacts
  <1> QED
    BY <1>1, <1>2, <1>3, <1>4 DEF CleanEffect, Same

\* The directory on top of the stack of a clean.
LEMMA TopFacts ==
  ASSUME TypeOK, NEW c \in Cleans, open[c] # <<>>
  PROVE  /\ Len(open[c]) \in DOMAIN open[c] /\ Len(open[c]) \in Nat \ {0} /\ Top(c) = open[c][Len(open[c])]
         /\ Top(c) \in [path : Paths, node : Dirs]
  <1> DEFINE Entry == [path : Paths, node : Dirs]
  <1>1. open[c] \in Seq(Entry)
    BY DEF TypeOK
  <1> HIDE DEF Entry
  <1>2. Len(open[c]) \in Nat \ {0} /\ DOMAIN open[c] = 1 .. Len(open[c])
    BY <1>1, EmptySeq, LenProperties
  <1>3. \A i \in 1 .. Len(open[c]) : open[c][i] \in Entry
    BY <1>1, ElementOfSeq
  <1> QED
    BY <1>2, <1>3 DEF Top, Entry

\* unlink by name of a file that is in the plan never meets the user's file.
LEMMA RemoveFileEffect ==
  ASSUME IInv, NEW c \in Cleans, RemoveFile(c)
  PROVE  CleanEffect(c)
  <1>1. CASE UNCHANGED <<tree, took>>
    BY <1>1 DEF CleanEffect, Same, tree, IInv, TypeOK
  <1>2. CASE \E e \in Planned(c, Top(c).path, Top(c).node) :
                \E n \in Child(Top(c).node, e.path[Len(e.path)]) \cap Files : Take(c, n)
    <2>1. PICK e \in plan[c] : \E n \in Child(Top(c).node, e.path[Len(e.path)]) \cap Files : Take(c, n)
      BY <1>2 DEF Planned
    <2>2. PICK n \in Nodes : /\ n \in Files /\ dir[n] = Top(c).node /\ name[n] = LastOf(e.path) /\ Take(c, n)
      BY <2>1 DEF Child, Entries, LastOf
    <2>3. Top(c).node \in Dirs
      BY TopFacts DEF RemoveFile, IInv
    <2>4. n # Mine
      BY <2>2, <2>3, NodeFacts DEF IInv, MineInv
    <2>5. \A m \in Nodes : dir[m] # n
      <3>1. n \notin Dirs \cup {Project, None}
        BY <2>2, NodeFacts
      <3> QED
        BY <3>1 DEF IInv, TypeOK
    <2> QED
      BY <2>2, <2>4, <2>5, TakeEffect DEF IInv
  <1> QED
    BY <1>1, <1>2 DEF RemoveFile

\* rmdir takes a directory that nothing is in.
LEMMA RemoveDirEffect ==
  ASSUME IInv, NEW c \in Cleans, RemoveDir(c)
  PROVE  CleanEffect(c)
  <1>1. CASE UNCHANGED <<tree, took>>
    BY <1>1 DEF CleanEffect, Same, tree, IInv, TypeOK
  <1>2. CASE \E d \in Dirs : Empty(d) /\ Take(c, d)
    <2>1. PICK d \in Dirs : Empty(d) /\ Take(c, d)
      BY <1>2
    <2> QED
      BY <2>1, NodeFacts, TakeEffect DEF Empty, Entries, IInv
  <1> QED
    BY <1>1, <1>2 DEF RemoveDir

\* One step of a clean.
CleanStep(c) == Look(c) \/ Scan(c) \/ Scanned(c) \/ Enter(c) \/ RemoveFile(c) \/ RemoveDir(c)

\* The effect of any step of a clean; the reports notice nothing.
LEMMA CleanStepEffect ==
  ASSUME IInv, NEW c \in Cleans, CleanStep(c)
  PROVE  CleanEffect(c) /\ UNCHANGED <<layout, report>>
  <1>1. CASE Look(c) \/ Scan(c) \/ Scanned(c) \/ Enter(c)
    BY <1>1 DEF Look, Scan, Scanned, Enter, CleanEffect, Same, tree, IInv, TypeOK
  <1>2. CASE RemoveFile(c) \/ RemoveDir(c)
    BY <1>2, RemoveFileEffect, RemoveDirEffect DEF RemoveFile, RemoveDir
  <1> QED
    BY <1>1, <1>2 DEF CleanStep

\* The user's file appears in a directory that is not a temporary.
DropEffect ==
    /\ dir[Mine] = None /\ dir'[Mine] \in Dirs /\ dir[dir'[Mine]] # None
    /\ ~IsTemp(name[dir'[Mine]]) /\ name'[Mine] = Final("mine")
    /\ \A n \in Nodes : n # Mine => Same(n)
    /\ dir' \in [Nodes -> Dirs \cup {Project, None}] /\ name' \in [Nodes -> Names]

\* Saving the user's file has that effect.
LEMMA DropHasEffect ==
  ASSUME IInv, Drop
  PROVE  DropEffect
  <1>1. PICK d \in Dirs : Linked(d) /\ ~IsTemp(name[d]) /\ Place(Mine, d, Final("mine"))
    BY DEF Drop
  <1>2. dir[d] # None
    BY <1>1, NodeFacts DEF Linked
  <1>3. dir \in [Nodes -> Dirs \cup {Project, None}] /\ name \in [Nodes -> Names]
    BY DEF IInv, TypeOK
  <1>4. dir' = [dir EXCEPT ![Mine] = d] /\ name' = [name EXCEPT ![Mine] = Final("mine")]
    BY <1>1 DEF Place
  <1> QED
    BY <1>1, <1>2, <1>3, <1>4, NodeFacts, NamesAre DEF DropEffect, Same, Drop

-----------------------------------------------------------------------------
(* The tree stays in order. *)

\* A directory holds one node of a name.
OneName == \A m, n \in Nodes : dir[m] # None /\ dir[m] = dir[n] /\ name[m] = name[n] => m = n

TreeInv == OneName /\ NameInv /\ PlaceInv

\* The steps of the system, by who takes them.
LEMMA StepsAre ==
  ASSUME [Next]_vars
  PROVE  \/ \E r \in Reports : ReportStep(r)
         \/ \E c \in Cleans : CleanStep(c)
         \/ Drop
         \/ UNCHANGED vars
  BY DEF Next, ReportStep, CleanStep, Ended

\* What a report does keeps one node of a name in a directory.
LEMMA ReportOneName ==
  ASSUME IInv, NEW r \in Reports, ReportEffect(r)
  PROVE  OneName'
  <1> SUFFICES ASSUME NEW m \in Nodes, NEW n \in Nodes, dir'[m] # None, dir'[m] = dir'[n], name'[m] = name'[n]
               PROVE  m = n
    BY DEF OneName
  <1>1. CASE Same(m) /\ Same(n)
    BY <1>1 DEF Same, IInv, TypeOK
  <1>2. CASE ~Same(m) /\ ~Same(n)
    BY <1>2 DEF ReportEffect
  <1>3. ASSUME NEW k \in Nodes, NEW l \in Nodes, Same(k), ~Same(l),
               dir'[l] # None, dir'[k] = dir'[l], name'[k] = name'[l]
        PROVE  FALSE
    <2>1. Appears(r, l) \/ Renamed(r, l)
      BY <1>3 DEF ReportEffect, Discarded
    <2>2. Child(dir'[l], name'[l]) = {}
      BY <2>1 DEF Appears, Renamed
    <2> QED
      BY <1>3, <2>2 DEF Same, Child, Entries
  <1> QED
    BY <1>1, <1>2, <1>3

\* What a report does gives nodes the names they may have.
LEMMA ReportNameInv ==
  ASSUME IInv, NEW r \in Reports, ReportEffect(r)
  PROVE  NameInv'
  <1> SUFFICES ASSUME NEW n \in Nodes
               PROVE  /\ IsTemp(name'[n]) => name'[n] = Temp(n)
                      /\ ~IsTemp(name'[n]) => name'[n] \in Finals
                      /\ n # Mine => name'[n] # Final("mine")
                      /\ name'[n] = Final("reports") => n \in Dirs
                      /\ dir'[n] = Project => n \in OutputDirs
    BY DEF NameInv
  <1> USE NodeFacts, NamesAre
  <1>1. CASE Same(n)
    BY <1>1 DEF Same, IInv, NameInv
  <1>2. CASE Appears(r, n)
    <2>1. Final("mine") # Temp(n) /\ Final("reports") # Temp(n)
      BY NameFacts
    <2>2. CASE n \in OutputDirs \/ n \in ReportsDirs
      <3>1. \A a \in Pieces : n # Artifact(r, a)
        BY <2>2, ArtifactKinds
      <3> QED
        BY <1>2, <2>2, <3>1 DEF Appears, Pieces
    <2>3. CASE \E a \in Pieces : n = Artifact(r, a) /\ dir'[n] \in Dirs /\ name'[n] = Temp(n)
      BY <2>1, <2>3, NameFacts
    <2>4. CASE \E a \in Members : /\ n = Artifact(r, a) /\ dir'[n] = Artifact(r, "bundle")
                                  /\ name'[n] = NameOf(r, a)
      <3>1. Artifact(r, "bundle") \in Dirs
        BY ArtifactKinds DEF Pieces
      <3>2. name'[n] \in Finals \ {Final("mine"), Final("reports")}
        BY <2>4, NameOfFacts DEF Pieces
      <3> QED
        BY <2>4, <3>1, <3>2
    <2> QED
      BY <1>2, <2>2, <2>3, <2>4 DEF Appears
  <1>3. CASE Renamed(r, n)
    BY <1>3, NameOfFacts, ArtifactKinds DEF Renamed, Pieces, IInv, NameInv
  <1>4. CASE Discarded(r, n)
    BY <1>4 DEF Discarded, IInv, NameInv
  <1> QED
    BY <1>1, <1>2, <1>3, <1>4 DEF ReportEffect

\* What a report does keeps every node where it may be.
LEMMA ReportPlaceInv ==
  ASSUME IInv, NEW r \in Reports, ReportEffect(r)
  PROVE  PlaceInv'
  <1> USE NodeFacts, NamesAre
  <1>0. PlaceInv /\ dir \in [Nodes -> Dirs \cup {Project, None}]
    BY DEF IInv, TypeOK
  <1>1. ASSUME NEW n \in Nodes
        PROVE  Same(n) \/ Appears(r, n) \/ Renamed(r, n) \/ (Discarded(r, n) /\ dir'[n] = None)
    BY DEF ReportEffect, Discarded
  <1>2. ASSUME NEW n \in OutputDirs, dir'[n] # None
        PROVE  dir'[n] = Project /\ name'[n] = Final("output")
    <2>1. n \in Nodes /\ \A a \in Pieces : n # Artifact(r, a)
      BY ArtifactKinds
    <2>2. Same(n) \/ Appears(r, n)
      BY <1>1, <1>2, <2>1 DEF Renamed
    <2> QED
      BY <1>0, <1>2, <2>1, <2>2 DEF Same, Appears, PlaceInv, Pieces
  <1>3. ASSUME NEW n \in ReportsDirs, dir'[n] # None
        PROVE  name'[n] = Final("reports")
    <2>1. n \in Nodes /\ \A a \in Pieces : n # Artifact(r, a)
      BY ArtifactKinds
    <2>2. Same(n) \/ Appears(r, n)
      BY <1>1, <1>3, <2>1 DEF Renamed
    <2> QED
      BY <1>0, <1>3, <2>1, <2>2 DEF Same, Appears, PlaceInv, Pieces
  <1>4. ASSUME NEW d \in Dirs, dir'[d] # None, name'[d] = Final("reports")
        PROVE  dir'[d] \in OutputDirs
    <2>1. CASE Same(d)
      BY <1>0, <1>4, <2>1 DEF Same, PlaceInv
    <2>2. CASE Appears(r, d)
      BY <1>4, <2>2, NameFacts, NameOfFacts DEF Appears
    <2>3. CASE Renamed(r, d)
      BY <1>4, <2>3 DEF Renamed
    <2> QED
      BY <1>1, <1>4, <2>1, <2>2, <2>3
  <1>5. ASSUME NEW n \in Nodes, dir'[n] \notin {None, Project}
        PROVE  dir'[dir'[n]] # None
    <2>1. CASE dir'[n] = dir[n]
      <3>1. dir[n] \in Dirs /\ dir[dir[n]] # None
        BY <1>0, <1>5, <2>1 DEF PlaceInv
      <3>2. ~Discarded(r, dir[n]) /\ ~Appears(r, dir[n])
        BY <2>1, <3>1 DEF Discarded, Appears, Pristine
      <3> QED
        BY <1>1, <2>1, <3>1, <3>2 DEF Same, Renamed
    <2>2. CASE Appears(r, n)
      BY <1>5, <2>2 DEF Appears
    <2> QED
      BY <1>1, <1>5, <2>1, <2>2 DEF Same, Renamed
  <1>6. ASSUME NEW q \in Reports, IsTemp(name'[Artifact(q, "bundle")]),
               NEW n \in Nodes, dir'[n] = Artifact(q, "bundle")
        PROVE  \E a \in Members : n = Artifact(q, a)
    <2> DEFINE b == Artifact(q, "bundle")
    <2>1. b \in Dirs /\ b \in Nodes /\ b \notin OutputDirs
      BY ArtifactKinds DEF Pieces
    <2>2. CASE dir'[n] = dir[n]
      <3>1. dir[b] # None
        BY <1>0, <1>6, <2>1, <2>2 DEF PlaceInv
      <3>2. ~Discarded(r, b) /\ ~Appears(r, b)
        BY <1>6, <3>1 DEF Discarded, Appears, Pristine
      <3>3. IsTemp(name[b])
        BY <1>1, <1>6, <2>1, <3>2, NameFacts DEF Same, Renamed
      <3> QED
        BY <1>0, <1>6, <2>2, <3>3 DEF PlaceInv
    <2>3. CASE Appears(r, n)
      <3>1. PICK a \in Members : n = Artifact(r, a) /\ dir'[n] = Artifact(r, "bundle")
        BY <1>6, <2>1, <2>3 DEF Appears
      <3> QED
        BY <1>6, <3>1, ArtifactIsOne
    <2> QED
      BY <1>1, <1>6, <2>1, <2>2, <2>3 DEF Same, Renamed
  <1> QED
    BY <1>2, <1>3, <1>4, <1>5, <1>6 DEF PlaceInv

\* What a clean takes leaves the others where they are.
LEMMA CleanTreeInv ==
  ASSUME IInv, NEW c \in Cleans, CleanEffect(c)
  PROVE  TreeInv'
  <1>1. \A n \in Nodes : name'[n] = name[n] /\ (dir'[n] # None => dir'[n] = dir[n])
    BY DEF CleanEffect, Same
  <1>2. OneName' /\ NameInv'
    BY <1>1, NodeFacts DEF OneName, NameInv, IInv, TypeOK
  <1>3. \A n \in Nodes : dir'[n] \notin {None, Project} => dir'[dir'[n]] # None
    <2> SUFFICES ASSUME NEW n \in Nodes, dir'[n] \notin {None, Project} PROVE dir'[dir'[n]] # None
      OBVIOUS
    <2>1. dir'[n] = dir[n] /\ dir[n] \in Nodes /\ dir[dir[n]] # None
      BY <1>1, NodeFacts DEF IInv, TypeOK, PlaceInv
    <2> QED
      BY <2>1 DEF CleanEffect, Same
  <1>4. PlaceInv'
    <2>1. \A r \in Reports : IsTemp(name'[Artifact(r, "bundle")]) =>
            \A n \in Nodes : dir'[n] = Artifact(r, "bundle") => \E a \in Members : n = Artifact(r, a)
      BY <1>1, ArtifactKinds, NodeFacts DEF IInv, PlaceInv, Pieces
    <2> QED
      BY <1>1, <1>3, <2>1, NodeFacts DEF PlaceInv, IInv
  <1> QED
    BY <1>2, <1>4 DEF TreeInv

\* The user's file does not disturb the tree.
LEMMA DropTreeInv ==
  ASSUME IInv, DropEffect
  PROVE  TreeInv'
  <1> USE NodeFacts
  <1>0. NameInv /\ PlaceInv
    BY DEF IInv
  <1>1. \A n \in Nodes : n # Mine => dir'[n] = dir[n] /\ name'[n] = name[n]
    BY DEF DropEffect, Same
  <1>2. NameInv'
    BY <1>0, <1>1, NamesAre DEF DropEffect, NameInv
  <1>3. OneName'
    <2> SUFFICES ASSUME NEW m \in Nodes, NEW n \in Nodes, dir'[m] # None, dir'[m] = dir'[n], name'[m] = name'[n]
                 PROVE  m = n
      BY DEF OneName
    <2>1. m = Mine <=> n = Mine
      BY <1>0, <1>1 DEF DropEffect, NameInv
    <2>2. CASE m # Mine
      <3>1. dir[m] # None /\ dir[m] = dir[n] /\ name[m] = name[n]
        BY <1>1, <2>1, <2>2
      <3> QED
        BY <3>1 DEF IInv, TypeOK
    <2> QED
      BY <2>1, <2>2
  <1>4. dir \in [Nodes -> Dirs \cup {Project, None}] /\ Mine \notin Dirs
    BY DEF IInv, TypeOK
  <1>5. \A n \in Nodes : dir'[n] \notin {None, Project} => dir'[dir'[n]] # None
    BY <1>0, <1>1, <1>4 DEF DropEffect, PlaceInv
  <1>6. \A r \in Reports : IsTemp(name'[Artifact(r, "bundle")]) =>
            \A n \in Nodes : dir'[n] = Artifact(r, "bundle") => \E a \in Members : n = Artifact(r, a)
    BY <1>0, <1>1, ArtifactKinds DEF DropEffect, PlaceInv, Pieces
  <1>7. PlaceInv'
    BY <1>0, <1>1, <1>4, <1>5, <1>6 DEF DropEffect, PlaceInv
  <1> QED
    BY <1>2, <1>3, <1>7 DEF TreeInv

\* Every step keeps the tree in order.
LEMMA TreeStep == IInv /\ [Next]_vars => TreeInv'
  <1> SUFFICES ASSUME IInv, [Next]_vars PROVE TreeInv'
    OBVIOUS
  <1>1. ASSUME NEW r \in Reports, ReportStep(r) PROVE TreeInv'
    BY <1>1, ReportStepEffect, ReportOneName, ReportNameInv, ReportPlaceInv DEF TreeInv
  <1>2. ASSUME NEW c \in Cleans, CleanStep(c) PROVE TreeInv'
    BY <1>2, CleanStepEffect, CleanTreeInv
  <1>3. CASE Drop
    BY <1>3, DropHasEffect, DropTreeInv
  <1>4. CASE UNCHANGED vars
    BY <1>4 DEF vars, tree, TreeInv, OneName, NameInv, PlaceInv, IInv, TypeOK
  <1> QED
    BY <1>1, <1>2, <1>3, <1>4, StepsAre

-----------------------------------------------------------------------------
(* Every variable has its type. *)

Steps    == {"check", "stdout", "open", "create", "members", "commit", "cleanup",
             "look", "scan", "remove", "done"}
Statuses == {"none", "ok", "refused", "failed", "stopped"}
Processes == Reports \cup Cleans

\* TypeOK without OneName.
ReportTypes ==
    /\ layout \in [Reports -> {"single", "bundle", "stdout"}]
    /\ fd \in [Reports -> Dirs \cup {None}] /\ next \in [Reports -> 0 .. 3]
    /\ printed \in [Reports -> BOOLEAN]
SharedTypes ==
    /\ dir \in [Nodes -> Dirs \cup {Project, None}] /\ name \in [Nodes -> Names]
    /\ pc \in [Processes -> Steps] /\ exit \in [Processes -> Statuses]
Due     == [path : Paths, in : Dirs \cup {Project}]
Planning == [path : Paths, isDir : BOOLEAN]
Inside  == [path : Paths, node : Dirs]
Sight   == [path : Paths, node : Nodes]
CleanTypes ==
    /\ agenda \in [Cleans -> SUBSET Due] /\ plan \in [Cleans -> SUBSET Planning]
    /\ open \in [Cleans -> Seq(Inside)] /\ refused \in [Cleans -> BOOLEAN]
    /\ seen \in [Cleans -> SUBSET Sight]
    /\ took \in [Cleans -> SUBSET Nodes] /\ blind \subseteq Cleans

\* The parts are the whole, in this state and in the next one.
LEMMA TypeParts ==
  /\ TypeOK <=> OneName /\ ReportTypes /\ SharedTypes /\ CleanTypes
  /\ TypeOK' <=> OneName' /\ ReportTypes' /\ SharedTypes' /\ CleanTypes'
  BY DEF TypeOK, OneName, ReportTypes, SharedTypes, CleanTypes, Processes, Steps, Statuses,
         Due, Planning, Inside, Sight

\* A process goes to a step, or it leaves with a status.
LEMMA ProcessTypes ==
  ASSUME TypeOK, NEW p \in Processes,
         pc' = pc \/ \E s \in Steps : pc' = [pc EXCEPT ![p] = s],
         exit' = exit \/ \E s \in Statuses : exit' = [exit EXCEPT ![p] = s]
  PROVE  pc' \in [Processes -> Steps] /\ exit' \in [Processes -> Statuses]
  BY TypeParts DEF SharedTypes

\* A step of a report keeps the types.
LEMMA ReportTypeOK ==
  ASSUME IInv, NEW r \in Reports, ReportStep(r), OneName'
  PROVE  TypeOK'
  <1>1. ReportEffect(r) /\ UNCHANGED <<layout, clean>>
    BY ReportStepEffect
  <1>2. TypeOK /\ r \in Reports \cup Cleans
    BY DEF IInv
  <1>3. next' \in [Reports -> 0 .. 3]
    <2>1. CASE Member(r)
      <3>1. next[r] < Len(Contents(r)) => next[r] + 1 \in 0 .. 3
        <4>1. next[r] \in 0 .. 3 /\ Len(Contents(r)) \in {2, 3}
          BY <1>2, ContentsFacts, TypeParts DEF ReportTypes
        <4> DEFINE k == next[r]
                   l == Len(Contents(r))
        <4>2. k \in 0 .. 3 /\ l \in {2, 3}
          BY <4>1
        <4> HIDE DEF k, l
        <4>3. k < l => k + 1 \in 0 .. 3
          BY <4>2
        <4> QED
          BY <4>3 DEF k, l
      <3> QED
        BY <1>2, <2>1, <3>1 DEF Member, TypeOK
    <2>2. CASE Commit(r)
      <3>1. layout[r] = "single" => next[r] + 1 \in 0 .. 3
        BY <2>2, PieceFacts, ContentsFacts DEF Commit
      <3> QED
        BY <1>2, <2>2, <3>1, CommitEffect DEF TypeOK, Commit
    <2> QED
      BY <1>2, <2>1, <2>2 DEF ReportStep, Check, Emit, OpenParent, Create, Listing, Cleanup, report, TypeOK
  <1>4. fd' \in [Reports -> Dirs \cup {None}]
    <2>1. CASE OpenParent(r)
      BY <1>2, <2>1, OpenEffect DEF TypeOK
    <2> QED
      BY <1>2, <2>1 DEF ReportStep, Check, Emit, Create, Member, Listing, Commit, Cleanup, report, TypeOK
  <1>5. printed' \in [Reports -> BOOLEAN]
    BY <1>2 DEF ReportStep, Check, Emit, OpenParent, Create, Member, Listing, Commit, Cleanup, report, TypeOK
  <1>6. /\ pc' = pc \/ \E s \in Steps : pc' = [pc EXCEPT ![r] = s]
        /\ exit' = exit \/ \E s \in Statuses : exit' = [exit EXCEPT ![r] = s]
    <2> USE DEF Goto, Leave, Steps, Statuses
    <2>1. CASE Check(r)       BY <2>1 DEF Check
    <2>2. CASE Emit(r)        BY <2>2 DEF Emit
    <2>3. CASE OpenParent(r)  BY <2>3 DEF OpenParent
    <2>4. CASE Create(r)      BY <2>4, CreateEffect DEF Create
    <2>5. CASE Member(r)      BY <2>5 DEF Member
    <2>6. CASE Listing(r)     BY <2>6 DEF Listing
    <2>7. CASE Commit(r)      BY <2>7, CommitEffect
    <2>8. CASE Cleanup(r)     BY <2>8 DEF Cleanup
    <2> QED
      BY <2>1, <2>2, <2>3, <2>4, <2>5, <2>6, <2>7, <2>8 DEF ReportStep
  <1>7. SharedTypes'
    BY <1>1, <1>2, <1>6, ProcessTypes DEF ReportEffect, SharedTypes, Processes
  <1>8. ReportTypes' /\ CleanTypes'
    BY <1>1, <1>2, <1>3, <1>4, <1>5, TypeParts DEF ReportTypes, CleanTypes, clean, locals
  <1> QED
    BY <1>7, <1>8, TypeParts

\* The entries a clean works with.
LEMMA EntryFacts ==
  /\ \A p \in Paths : \A d \in Dirs \cup {Project} : [path |-> p, in |-> d] \in Due
  /\ \A p \in Paths : [path |-> p, isDir |-> TRUE] \in Planning /\ [path |-> p, isDir |-> FALSE] \in Planning
  /\ \A p \in Paths : \A d \in Dirs : [path |-> p, node |-> d] \in Inside
  /\ \A p \in Paths : \A n \in Nodes : [path |-> p, node |-> n] \in Sight
  /\ \A a \in Due : a.path \in Paths /\ a.in \in Dirs \cup {Project} /\ a = [path |-> a.path, in |-> a.in]
  /\ \A e \in Planning : e.path \in Paths /\ e.isDir \in BOOLEAN
  /\ \A o \in Inside : o.path \in Paths /\ o.node \in Dirs /\ o = [path |-> o.path, node |-> o.node]
  /\ \A x \in Sight : x.path \in Paths /\ x.node \in Nodes /\ x = [path |-> x.path, node |-> x.node]
  /\ \A e, f \in Planning : e.path = f.path /\ (e.isDir <=> f.isDir) => e = f
  /\ Root \in Paths /\ Root # <<>> /\ Len(Root) = 1 /\ LastOf(Root) = Final("output")
  <1>1. /\ \A e \in Planning : e.path \in Paths /\ e.isDir \in BOOLEAN
        /\ \A e, f \in Planning : e.path = f.path /\ (e.isDir <=> f.isDir) => e = f
    BY DEF Planning
  <1>2. /\ \A p \in Paths : \A d \in Dirs \cup {Project} : [path |-> p, in |-> d] \in Due
        /\ \A a \in Due : a.path \in Paths /\ a.in \in Dirs \cup {Project} /\ a = [path |-> a.path, in |-> a.in]
    BY DEF Due
  <1>3. /\ \A p \in Paths : \A d \in Dirs : [path |-> p, node |-> d] \in Inside
        /\ \A o \in Inside : o.path \in Paths /\ o.node \in Dirs /\ o = [path |-> o.path, node |-> o.node]
    BY DEF Inside
  <1>4. /\ \A p \in Paths : \A n \in Nodes : [path |-> p, node |-> n] \in Sight
        /\ \A x \in Sight : x.path \in Paths /\ x.node \in Nodes /\ x = [path |-> x.path, node |-> x.node]
    BY DEF Sight
  <1>5. \A p \in Paths : [path |-> p, isDir |-> TRUE] \in Planning /\ [path |-> p, isDir |-> FALSE] \in Planning
    BY DEF Planning
  <1>6. Root \in Paths /\ Root # <<>> /\ Len(Root) = 1 /\ LastOf(Root) = Final("output")
    BY NamesAre DEF Root, Paths, LastOf
  <1> QED
    BY <1>1, <1>2, <1>3, <1>4, <1>5, <1>6

\* What the scan of a directory adds: the nodes it knows there, by their paths.
NewPlan(p, known) == {[path |-> Append(p, name[n]), isDir |-> n \in Dirs] : n \in known}
NewDue(p, d, known) == {[path |-> Append(p, name[n]), in |-> d] : n \in known \cap Dirs}
NewSeen(p, d, known) ==
    {[path |-> p, node |-> d]} \cup {[path |-> Append(p, name[n]), node |-> n] : n \in known}

\* A scan takes one directory from the agenda, and examines or refuses it.
Examines(c, a, d) ==
    LET known == {n \in Entries(d) : Known(a.path, n)} IN
    /\ d \in Child(a.in, LastOf(a.path)) \cap Dirs
    /\ refused' = [refused EXCEPT ![c] = @ \/ known # Entries(d)]
    /\ plan' = [plan EXCEPT ![c] = @ \cup NewPlan(a.path, known)]
    /\ agenda' = [agenda EXCEPT ![c] = (@ \ {a}) \cup NewDue(a.path, d, known)]
    /\ seen' = [seen EXCEPT ![c] = @ \cup NewSeen(a.path, d, known)]
Refuses(c, a) ==
    /\ refused' = [refused EXCEPT ![c] = TRUE] /\ agenda' = [agenda EXCEPT ![c] = @ \ {a}]
    /\ UNCHANGED <<plan, seen>>

\* That is what Scan does.
LEMMA ScanSteps ==
  ASSUME NEW c, Scan(c)
  PROVE  /\ pc[c] = "scan" /\ UNCHANGED <<layout, tree, pc, report, open, exit, took, blind>>
         /\ \E a \in agenda[c] : (\E d : Examines(c, a, d)) \/ Refuses(c, a)
  <1>1. pc[c] = "scan" /\ UNCHANGED <<layout, tree, pc, report, open, exit, took, blind>>
    BY DEF Scan
  <1>2. PICK a \in agenda[c] :
           \/ \E d \in Child(a.in, a.path[Len(a.path)]) \cap Dirs :
                 LET known == {n \in Entries(d) : Known(a.path, n)} IN
                 /\ refused' = [refused EXCEPT ![c] = @ \/ known # Entries(d)]
                 /\ plan' = [plan EXCEPT ![c] = @ \cup
                       {[path |-> Append(a.path, name[n]), isDir |-> n \in Dirs] : n \in known}]
                 /\ agenda' = [agenda EXCEPT ![c] = (@ \ {a}) \cup
                       {[path |-> Append(a.path, name[n]), in |-> d] : n \in known \cap Dirs}]
                 /\ seen' = [seen EXCEPT ![c] = @ \cup {[path |-> a.path, node |-> d]} \cup
                       {[path |-> Append(a.path, name[n]), node |-> n] : n \in known}]
           \/ /\ refused' = [refused EXCEPT ![c] = TRUE]
              /\ agenda' = [agenda EXCEPT ![c] = @ \ {a}]
              /\ UNCHANGED <<plan, seen>>
    BY Zenon DEF Scan
  <1>3. CASE Refuses(c, a)
    BY <1>1, <1>3
  <1>4. ASSUME NEW d \in Child(a.in, a.path[Len(a.path)]) \cap Dirs,
               LET known == {n \in Entries(d) : Known(a.path, n)} IN
                 /\ refused' = [refused EXCEPT ![c] = @ \/ known # Entries(d)]
                 /\ plan' = [plan EXCEPT ![c] = @ \cup
                       {[path |-> Append(a.path, name[n]), isDir |-> n \in Dirs] : n \in known}]
                 /\ agenda' = [agenda EXCEPT ![c] = (@ \ {a}) \cup
                       {[path |-> Append(a.path, name[n]), in |-> d] : n \in known \cap Dirs}]
                 /\ seen' = [seen EXCEPT ![c] = @ \cup {[path |-> a.path, node |-> d]} \cup
                       {[path |-> Append(a.path, name[n]), node |-> n] : n \in known}]
        PROVE  Examines(c, a, d)
    <2> DEFINE known == {n \in Entries(d) : Known(a.path, n)}
               X == {[path |-> a.path, node |-> d]}
               Y == {[path |-> Append(a.path, name[n]), node |-> n] : n \in known}
    <2>1. /\ refused' = [refused EXCEPT ![c] = @ \/ known # Entries(d)]
          /\ plan' = [plan EXCEPT ![c] = @ \cup NewPlan(a.path, known)]
          /\ agenda' = [agenda EXCEPT ![c] = (@ \ {a}) \cup NewDue(a.path, d, known)]
      BY <1>4, Zenon DEF NewPlan, NewDue
    <2>2. seen' = [seen EXCEPT ![c] = seen[c] \cup X \cup Y]
      BY <1>4, Zenon
    <2>3. NewSeen(a.path, d, known) = X \cup Y
      BY Zenon DEF NewSeen
    <2> HIDE DEF known, X, Y
    <2>4. seen[c] \cup X \cup Y = seen[c] \cup NewSeen(a.path, d, known)
      BY <2>3
    <2>5. seen' = [seen EXCEPT ![c] = seen[c] \cup NewSeen(a.path, d, known)]
      BY <2>2, <2>4
    <2> QED
      BY <1>4, <2>1, <2>5, Zenon DEF Examines, known, LastOf
  <1> QED
    BY <1>1, <1>2, <1>3, <1>4, Zenon DEF Refuses

\* The scan adds entries of the right types.
LEMMA ScanTypes ==
  ASSUME TypeOK, NEW p \in Paths, NEW d \in Dirs, NEW known \in SUBSET Nodes
  PROVE  NewPlan(p, known) \subseteq Planning /\ NewDue(p, d, known) \subseteq Due /\ NewSeen(p, d, known) \subseteq Sight
  <1>1. \A n \in Nodes : Append(p, name[n]) \in Paths
    BY PathFacts, TypeParts DEF SharedTypes
  <1>2. NewPlan(p, known) \subseteq Planning
    <2> SUFFICES ASSUME NEW n \in known PROVE [path |-> Append(p, name[n]), isDir |-> n \in Dirs] \in Planning
      BY Zenon DEF NewPlan
    <2>1. (n \in Dirs) = TRUE \/ (n \in Dirs) = FALSE
      OBVIOUS
    <2> QED
      BY <1>1, <2>1, EntryFacts, Zenon
  <1>3. NewDue(p, d, known) \subseteq Due
    <2> SUFFICES ASSUME NEW n \in known \cap Dirs PROVE [path |-> Append(p, name[n]), in |-> d] \in Due
      BY Zenon DEF NewDue
    <2> QED
      BY <1>1, EntryFacts, Zenon
  <1>4. NewSeen(p, d, known) \subseteq Sight
    <2>1. [path |-> p, node |-> d] \in Sight
      BY NodeFacts, EntryFacts
    <2>2. ASSUME NEW n \in known PROVE [path |-> Append(p, name[n]), node |-> n] \in Sight
      BY <1>1, EntryFacts, Zenon
    <2> QED
      BY <2>1, <2>2, Zenon DEF NewSeen
  <1> QED
    BY <1>2, <1>3, <1>4

\* The locals of a clean change within their types.
LocalTypes ==
    /\ agenda \in [Cleans -> SUBSET Due] /\ plan \in [Cleans -> SUBSET Planning]
    /\ open \in [Cleans -> Seq(Inside)] /\ refused \in [Cleans -> BOOLEAN]
    /\ seen \in [Cleans -> SUBSET Sight]

\* No step of a clean breaks them.
LEMMA LocalsTyped ==
  ASSUME IInv, NEW c \in Cleans, CleanStep(c)
  PROVE  LocalTypes'
  <1>1. LocalTypes
    BY TypeParts DEF IInv, CleanTypes, LocalTypes
  <1>2. ASSUME NEW s, Quit(c, s) PROVE LocalTypes'
    BY <1>1, <1>2 DEF Quit, LocalTypes
  <1>3. CASE UNCHANGED locals
    BY <1>1, <1>3 DEF locals, LocalTypes
  <1>4. CASE Look(c)
    <2>1. CASE agenda' = [agenda EXCEPT ![c] = {[path |-> Root, in |-> Project]}]
               /\ UNCHANGED <<plan, refused, open, seen>>
      <3>1. [path |-> Root, in |-> Project] \in Due
        BY EntryFacts
      <3> QED
        BY <1>1, <2>1, <3>1 DEF LocalTypes
    <2> QED
      BY <1>2, <1>4, <2>1 DEF Look
  <1>5. CASE Scan(c)
    <2>1. PICK a \in agenda[c] : (\E d : Examines(c, a, d)) \/ Refuses(c, a)
      BY <1>5, ScanSteps
    <2>2. a.path \in Paths /\ open' = open
      BY <1>1, <1>5, EntryFacts, ScanSteps DEF LocalTypes
    <2>3. CASE Refuses(c, a)
      BY <1>1, <2>2, <2>3 DEF LocalTypes, Refuses
    <2>4. ASSUME NEW d, Examines(c, a, d) PROVE LocalTypes'
      <3> DEFINE known == {n \in Entries(d) : Known(a.path, n)}
      <3>1. d \in Dirs /\ known \in SUBSET Nodes
        BY <2>4 DEF Examines, Entries
      <3>2. /\ NewPlan(a.path, known) \subseteq Planning /\ NewDue(a.path, d, known) \subseteq Due
            /\ NewSeen(a.path, d, known) \subseteq Sight
        BY <2>2, <3>1, ScanTypes DEF IInv
      <3>3. /\ refused' = [refused EXCEPT ![c] = @ \/ known # Entries(d)]
            /\ plan' = [plan EXCEPT ![c] = @ \cup NewPlan(a.path, known)]
            /\ agenda' = [agenda EXCEPT ![c] = (@ \ {a}) \cup NewDue(a.path, d, known)]
            /\ seen' = [seen EXCEPT ![c] = @ \cup NewSeen(a.path, d, known)]
        BY <2>4, Zenon DEF Examines
      <3> HIDE DEF known
      <3>4. refused' \in [Cleans -> BOOLEAN]
        BY <1>1, <3>3 DEF LocalTypes
      <3> QED
        BY <1>1, <2>2, <3>2, <3>3, <3>4 DEF LocalTypes
    <2> QED
      BY <2>1, <2>3, <2>4
  <1>6. CASE Enter(c)
    <2>1. CASE \E p \in Paths : \E d \in Dirs :
                 open' = [open EXCEPT ![c] = Append(@, [path |-> p, node |-> d])]
                 /\ UNCHANGED <<agenda, plan, refused, seen>>
      <3>1. PICK o \in Inside : open' = [open EXCEPT ![c] = Append(@, o)]
        BY <2>1, EntryFacts
      <3> QED
        BY <1>1, <2>1, <3>1 DEF LocalTypes
    <2>2. \A e \in IF open[c] = <<>> THEN {[path |-> Root, isDir |-> TRUE]}
                     ELSE Planned(c, Top(c).path, Top(c).node) : e.path \in Paths
      <3>1. CASE open[c] = <<>>
        BY <3>1, EntryFacts
      <3>2. CASE open[c] # <<>>
        BY <1>1, <3>2, EntryFacts DEF Planned, LocalTypes
      <3> QED
        BY <3>1, <3>2
    <2> QED
      BY <1>2, <1>6, <2>1, <2>2 DEF Enter
  <1>7. CASE RemoveFile(c)
    <2>1. \/ \E s \in Statuses : Quit(c, s)
          \/ (\E e \in plan[c] : plan' = [plan EXCEPT ![c] = @ \ {e}]) /\ UNCHANGED <<agenda, refused, open, seen>>
      BY <1>7 DEF RemoveFile, Statuses, Planned
    <2> QED
      BY <1>1, <1>2, <2>1 DEF LocalTypes
  <1>8. CASE RemoveDir(c)
    <2>1. Outer(c) \in Seq(Inside)
      <3>1. open[c] \in Seq(Inside) /\ Len(open[c]) \in Nat \ {0}
        BY <1>1, <1>8, TopFacts DEF LocalTypes, RemoveDir, IInv
      <3>2. \A i \in 1 .. Len(open[c]) - 1 : open[c][i] \in Inside
        BY <3>1, ElementOfSeq
      <3> QED
        BY <3>1, <3>2, SubSeqProperties DEF Outer
    <2>2. \/ \E s \in Statuses : Quit(c, s)
          \/ UNCHANGED locals
          \/ /\ plan' = [plan EXCEPT ![c] = {e \in @ : e.path # Top(c).path}]
             /\ open' = [open EXCEPT ![c] = Outer(c)]
             /\ UNCHANGED <<agenda, refused, seen>>
      BY <1>8 DEF RemoveDir, Statuses
    <2> QED
      BY <1>1, <1>2, <1>3, <2>1, <2>2 DEF LocalTypes
  <1> QED
    BY <1>2, <1>3, <1>4, <1>5, <1>6, <1>7, <1>8 DEF CleanStep, Scanned

\* A step of a clean keeps the types.
LEMMA CleanTypeOK ==
  ASSUME IInv, NEW c \in Cleans, CleanStep(c), OneName'
  PROVE  TypeOK'
  <1>1. CleanEffect(c) /\ UNCHANGED <<layout, report>>
    BY CleanStepEffect
  <1>2. TypeOK /\ c \in Processes /\ CleanTypes
    BY TypeParts DEF IInv, Processes
  <1>3. /\ pc' = pc \/ \E s \in Steps : pc' = [pc EXCEPT ![c] = s]
        /\ exit' = exit \/ \E s \in Statuses : exit' = [exit EXCEPT ![c] = s]
    <2> USE DEF Goto, Leave, Steps, Statuses, Quit
    <2>1. CASE Look(c)        BY <2>1 DEF Look
    <2>2. CASE Scan(c)        BY <2>2 DEF Scan
    <2>3. CASE Scanned(c)     BY <2>3 DEF Scanned
    <2>4. CASE Enter(c)       BY <2>4 DEF Enter
    <2>5. CASE RemoveFile(c)  BY <2>5 DEF RemoveFile
    <2>6. CASE RemoveDir(c)   BY <2>6 DEF RemoveDir
    <2> QED
      BY <2>1, <2>2, <2>3, <2>4, <2>5, <2>6 DEF CleanStep
  <1>4. blind' \subseteq Cleans
    BY <1>2 DEF CleanTypes, CleanStep, Look, Scan, Scanned, Enter, RemoveFile, RemoveDir, Take
  <1>5. LocalTypes'
    BY LocalsTyped
  <1>6. SharedTypes'
    BY <1>1, <1>2, <1>3, ProcessTypes DEF CleanEffect, SharedTypes
  <1>7. ReportTypes' /\ CleanTypes'
    BY <1>1, <1>2, <1>4, <1>5, TypeParts DEF ReportTypes, CleanTypes, LocalTypes, report, CleanEffect
  <1> QED
    BY <1>6, <1>7, TypeParts

\* The user's file keeps the types.
LEMMA DropTypeOK ==
  ASSUME IInv, Drop, OneName'
  PROVE  TypeOK'
  <1>1. TypeOK /\ DropEffect /\ UNCHANGED <<layout, pc, report, clean, exit>>
    BY DropHasEffect DEF Drop, IInv
  <1> QED
    BY <1>1, TypeParts DEF ReportTypes, SharedTypes, CleanTypes, DropEffect, report, clean, locals

-----------------------------------------------------------------------------
(* The user's file.                                                        *)

\* A directory with a temporary name is a bundle that holds files of its report.
LEMMA TempDirs ==
  ASSUME IInv, NEW d \in Dirs, dir[d] # None, IsTemp(name[d]), NEW n \in Nodes, dir[n] = d
  PROVE  n \in Files /\ n # Mine
  <1>1. d \notin OutputDirs /\ d \notin ReportsDirs
    BY NamesAre DEF IInv, PlaceInv
  <1>2. PICK q \in Reports : d = Artifact(q, "bundle")
    BY <1>1, NodeFacts DEF Bundles, Artifact
  <1>3. PICK a \in Members : n = Artifact(q, a)
    BY <1>2 DEF IInv, PlaceInv
  <1> QED
    BY <1>3, OwnFacts

\* A scan does not know the user's file.
LEMMA MineUnknown ==
  ASSUME IInv, NEW c \in Cleans, NEW a \in agenda[c], NEW d \in Dirs, name[d] = LastOf(a.path),
         dir[Mine] = d
  PROVE  ~Known(a.path, Mine)
  <1>1. /\ dir[Mine] # None /\ name[Mine] = Final("mine") /\ ~IsTemp(LastOf(a.path))
        /\ \A i \in 1 .. Len(a.path) - 1 : ~IsTemp(a.path[i])
    BY NodeFacts DEF IInv, MineInv
  <1>2. a \in Due /\ a.path \in Paths
    BY EntryFacts, TypeParts DEF IInv, CleanTypes
  <1>3. Len(a.path) \in Nat
    BY <1>2 DEF Paths
  <1>4. \A i \in 1 .. Len(a.path) : ~IsTemp(a.path[i])
    <2> SUFFICES ASSUME NEW i \in 1 .. Len(a.path) PROVE ~IsTemp(a.path[i])
      OBVIOUS
    <2>1. i = Len(a.path) \/ i \in 1 .. Len(a.path) - 1
      BY <1>3
    <2> QED
      BY <1>1, <2>1 DEF LastOf
  <1>5. LastOf(a.path) \in Finals
    BY <1>1, NodeFacts, NamesAre, TypeParts DEF IInv, NameInv
  <1>6. Level(a.path) # "free"
    <2>1. LastOf(a.path).name # "free"
      BY <1>5, NameFacts DEF Finals, ReportNames
    <2> QED
      BY <1>4, <2>1, Zenon DEF Level, LastOf
  <1>7. name[Mine].name = "mine" /\ ~IsTemp(name[Mine]) /\ Mine \notin Dirs
    BY <1>1, NodeFacts, NameFacts
  <1>8. "mine" \notin ReportNames /\ "mine" \notin SupportNames
    BY DEF ReportNames, SupportNames
  <1> QED
    BY <1>6, <1>7, <1>8, Zenon DEF Known

\* The user's file stays where it is and is called what it was called.
LEMMA MineStays ==
  ASSUME IInv, [Next]_vars
  PROVE  dir[Mine] # None => Same(Mine)
  <1>1. Mine \in Nodes
    BY NodeFacts
  <1>2. ASSUME NEW r \in Reports, ReportStep(r) PROVE Same(Mine)
    <2>1. ~Owned(r, Mine)
      BY NodeAssumption DEF Owned, Artifact, Pieces
    <2> QED
      BY <1>1, <1>2, <2>1, ReportStepEffect DEF ReportEffect
  <1>3. ASSUME NEW c \in Cleans, CleanStep(c) PROVE Same(Mine)
    BY <1>1, <1>3, CleanStepEffect DEF CleanEffect
  <1>4. CASE Drop
    BY <1>4, DropHasEffect DEF DropEffect
  <1>5. CASE UNCHANGED vars
    BY <1>5 DEF vars, tree, Same
  <1> QED
    BY <1>2, <1>3, <1>4, <1>5, StepsAre

\* What a directory that is linked and not temporary is called, it stays.
LEMMA FinalDirs ==
  ASSUME IInv, [Next]_vars, NEW d \in Dirs, ~IsTemp(name[d])
  PROVE  name'[d] = name[d]
  <1>1. d \in Nodes /\ d # Mine /\ name[d] # Temp(d)
    BY NodeFacts, NameFacts
  <1>2. ASSUME NEW r \in Reports, ReportStep(r) PROVE name'[d] = name[d]
    BY <1>1, <1>2, ReportStepEffect DEF ReportEffect, Same, Appears, Pristine, Renamed, Discarded
  <1>3. ASSUME NEW c \in Cleans, CleanStep(c) PROVE name'[d] = name[d]
    BY <1>1, <1>3, CleanStepEffect DEF CleanEffect, Same
  <1>4. CASE Drop
    BY <1>1, <1>4, DropHasEffect DEF DropEffect, Same
  <1>5. CASE UNCHANGED vars
    BY <1>5 DEF vars, tree
  <1> QED
    BY <1>2, <1>3, <1>4, <1>5, StepsAre

\* What each clean has examined and plans leaves the user's file out.
MineUnplanned(c) ==
    /\ \A e \in plan[c] : LastOf(e.path) # Final("mine")
    /\ \A x \in seen[c] : x.node # Mine
    /\ \A a \in agenda[c] : \A i \in 1 .. Len(a.path) - 1 : ~IsTemp(a.path[i])

\* A scan keeps it out.
LEMMA ScanUnplanned ==
  ASSUME IInv, NEW c \in Cleans, Scan(c)
  PROVE  MineUnplanned(c)'
  <1>1. PICK a \in agenda[c] : (\E d : Examines(c, a, d)) \/ Refuses(c, a)
    BY ScanSteps
  <1>2. MineUnplanned(c) /\ c \in DOMAIN agenda /\ c \in DOMAIN plan /\ c \in DOMAIN seen
    BY TypeParts DEF IInv, MineInv, MineUnplanned, CleanTypes
  <1>3. a.path \in Paths /\ a.in \in Dirs \cup {Project}
    BY EntryFacts, TypeParts DEF IInv, CleanTypes
  <1>4. CASE Refuses(c, a)
    BY <1>2, <1>4 DEF Refuses, MineUnplanned
  <1>5. ASSUME NEW d, Examines(c, a, d) PROVE MineUnplanned(c)'
    <2> DEFINE known == {n \in Entries(d) : Known(a.path, n)}
    <2>1. d \in Dirs /\ dir[d] = a.in /\ name[d] = LastOf(a.path) /\ dir[d] # None
      BY <1>3, <1>5, NodeFacts DEF Examines, Child, Entries
    <2>2. /\ plan'[c] = plan[c] \cup NewPlan(a.path, known)
          /\ agenda'[c] = (agenda[c] \ {a}) \cup NewDue(a.path, d, known)
          /\ seen'[c] = seen[c] \cup NewSeen(a.path, d, known)
      BY <1>2, <1>5 DEF Examines
    <2>3. \A n \in known : n \in Nodes /\ dir[n] = d /\ n # Mine
      BY <2>1, MineUnknown DEF Entries
    <2> HIDE DEF known
    <2>4. \A n \in known : /\ Append(a.path, name[n]) \in Paths /\ LastOf(Append(a.path, name[n])) = name[n]
                           /\ Len(Append(a.path, name[n])) = Len(a.path) + 1
                           /\ \A i \in 1 .. Len(a.path) : Append(a.path, name[n])[i] = a.path[i]
      BY <1>3, <2>3, PathFacts, TypeParts DEF SharedTypes, IInv
    <2>5. \A e \in NewPlan(a.path, known) : LastOf(e.path) # Final("mine")
      <3> SUFFICES ASSUME NEW n \in known
                   PROVE  LastOf([path |-> Append(a.path, name[n]), isDir |-> n \in Dirs].path) # Final("mine")
        BY Zenon DEF NewPlan
      <3>1. LastOf(Append(a.path, name[n])) # Final("mine")
        BY <2>3, <2>4 DEF IInv, NameInv
      <3>2. \A p, q : [path |-> p, isDir |-> q].path = p
        OBVIOUS
      <3> QED
        BY <3>1, <3>2, Zenon
    <2>6. \A x \in NewSeen(a.path, d, known) : x.node # Mine
      BY <2>1, <2>3, NodeFacts DEF NewSeen
    <2>7. ASSUME NEW b \in NewDue(a.path, d, known), NEW i \in 1 .. Len(b.path) - 1
          PROVE  ~IsTemp(b.path[i])
      <3>1. PICK n \in known \cap Dirs : b.path = Append(a.path, name[n])
        BY <2>7 DEF NewDue
      <3>2. ~IsTemp(LastOf(a.path))
        BY <2>1, <2>3, <3>1, TempDirs, NodeFacts
      <3>3. i \in 1 .. Len(a.path) /\ Len(a.path) \in Nat
        BY <1>3, <2>4, <2>7, <3>1 DEF Paths
      <3>4. b.path[i] = a.path[i]
        BY <2>4, <3>1, <3>3
      <3>5. i = Len(a.path) \/ i \in 1 .. Len(a.path) - 1
        BY <3>3
      <3> QED
        BY <1>2, <3>2, <3>4, <3>5 DEF MineUnplanned, LastOf
    <2> QED
      BY <1>2, <2>2, <2>5, <2>6, <2>7 DEF MineUnplanned
  <1> QED
    BY <1>1, <1>4, <1>5

\* So does every other step of a clean.
LEMMA CleanUnplanned ==
  ASSUME IInv, NEW c \in Cleans, CleanStep(c), NEW b \in Cleans
  PROVE  MineUnplanned(b)'
  <1>1. MineUnplanned(b) /\ MineUnplanned(c) /\ CleanTypes
    BY TypeParts DEF IInv, MineInv, MineUnplanned
  <1>2. ASSUME NEW s, Quit(c, s) PROVE MineUnplanned(b)'
    BY <1>1, <1>2 DEF Quit, MineUnplanned, CleanTypes
  <1>3. CASE UNCHANGED <<plan, seen, agenda>>
    BY <1>1, <1>3 DEF MineUnplanned
  <1>4. CASE Look(c)
    <2>1. CASE agenda' = [agenda EXCEPT ![c] = {[path |-> Root, in |-> Project]}] /\ UNCHANGED <<plan, seen>>
      <3>1. \A i \in 1 .. Len(Root) - 1 : FALSE
        BY EntryFacts
      <3> QED
        BY <1>1, <2>1, <3>1 DEF MineUnplanned, CleanTypes
    <2> QED
      BY <1>2, <1>4, <2>1 DEF Look
  <1>5. CASE Scan(c)
    <2>1. b # c => plan'[b] = plan[b] /\ seen'[b] = seen[b] /\ agenda'[b] = agenda[b]
      BY <1>1, <1>5, ScanSteps DEF Examines, Refuses, CleanTypes
    <2> QED
      BY <1>1, <1>5, <2>1, ScanUnplanned DEF MineUnplanned
  <1>6. CASE RemoveFile(c)
    <2>1. CASE (\E e \in plan[c] : plan' = [plan EXCEPT ![c] = @ \ {e}]) /\ UNCHANGED <<agenda, seen>>
      BY <1>1, <2>1 DEF MineUnplanned, CleanTypes
    <2> QED
      BY <1>2, <1>6, <2>1 DEF RemoveFile, Planned
  <1>7. CASE RemoveDir(c)
    <2>1. CASE plan' = [plan EXCEPT ![c] = {e \in @ : e.path # Top(c).path}] /\ UNCHANGED <<agenda, seen>>
      BY <1>1, <2>1 DEF MineUnplanned, CleanTypes
    <2> QED
      BY <1>2, <1>7, <2>1 DEF RemoveDir
  <1>8. CASE Scanned(c) \/ Enter(c)
    BY <1>2, <1>3, <1>8 DEF Scanned, Enter, locals
  <1> QED
    BY <1>4, <1>5, <1>6, <1>7, <1>8 DEF CleanStep

\* Every step keeps the user's file.
LEMMA MineStep == IInv /\ [Next]_vars => MineInv'
  <1> SUFFICES ASSUME IInv, [Next]_vars PROVE MineInv'
    OBVIOUS
  <1> USE NodeFacts
  <1>1. \A c \in Cleans : MineUnplanned(c)'
    <2>1. ASSUME NEW r \in Reports, ReportStep(r) PROVE \A c \in Cleans : MineUnplanned(c)'
      BY <2>1, ReportStepEffect DEF clean, locals, IInv, MineInv, MineUnplanned
    <2>2. CASE Drop \/ UNCHANGED vars
      BY <2>2 DEF Drop, vars, clean, locals, IInv, MineInv, MineUnplanned
    <2> QED
      BY <2>1, <2>2, CleanUnplanned, StepsAre
  <1>2. CASE dir[Mine] # None
    <2>1. dir'[Mine] = dir[Mine] /\ name'[Mine] = name[Mine]
      BY <1>2, MineStays DEF Same
    <2>2. dir[Mine] \in Dirs /\ ~IsTemp(name[dir[Mine]]) /\ name[Mine] = Final("mine")
      BY <1>2 DEF IInv, MineInv
    <2>3. name'[dir[Mine]] = name[dir[Mine]]
      BY <2>2, FinalDirs
    <2> QED
      BY <1>1, <1>2, <2>1, <2>2, <2>3 DEF MineInv, MineUnplanned
  <1>3. CASE dir[Mine] = None
    <2>1. name[Mine] = Temp(Mine)
      BY <1>3 DEF IInv, MineInv
    <2>2. ASSUME Same(Mine) PROVE MineInv'
      BY <1>1, <1>3, <2>1, <2>2 DEF Same, MineInv, MineUnplanned
    <2>3. ASSUME NEW r \in Reports, ReportStep(r) PROVE Same(Mine)
      <3>1. ~Owned(r, Mine)
        BY NodeAssumption DEF Owned, Artifact, Pieces
      <3> QED
        BY <2>3, <3>1, ReportStepEffect DEF ReportEffect
    <2>4. ASSUME NEW c \in Cleans, CleanStep(c) PROVE Same(Mine)
      BY <2>4, CleanStepEffect DEF CleanEffect
    <2>5. CASE Drop
      <3>1. dir'[Mine] \in Dirs /\ ~IsTemp(name[dir'[Mine]]) /\ name'[Mine] = Final("mine")
        BY <2>5, DropHasEffect DEF DropEffect
      <3>2. name'[dir'[Mine]] = name[dir'[Mine]]
        BY <3>1, FinalDirs
      <3> QED
        BY <1>1, <3>1, <3>2 DEF MineInv, MineUnplanned
    <2>6. CASE UNCHANGED vars
      BY <2>2, <2>6 DEF vars, tree, Same
    <2> QED
      BY <2>2, <2>3, <2>4, <2>5, <2>6, StepsAre
  <1> QED
    BY <1>2, <1>3

\* Every step keeps the types.
LEMMA TypeStep == IInv /\ [Next]_vars => TypeOK'
  <1> SUFFICES ASSUME IInv, [Next]_vars PROVE TypeOK'
    OBVIOUS
  <1>1. OneName'
    BY TreeStep DEF TreeInv
  <1>2. CASE UNCHANGED vars
    BY <1>2 DEF vars, tree, report, clean, locals, IInv, TypeOK
  <1> QED
    BY <1>1, <1>2, ReportTypeOK, CleanTypeOK, DropTypeOK, StepsAre

-----------------------------------------------------------------------------
(* How far each report has come. *)

\* ReportInv of one report.
ReportPart(r) ==
    /\ StepInv(r)
    /\ layout[r] = "single" => SingleInv(r)
    /\ layout[r] # "single" => BundleInv(r)

\* What the others' steps may do to the nodes of a report.
Spared(r) ==
    /\ \A n \in Nodes : Owned(r, n) =>
          /\ name'[n] = name[n] /\ dir'[n] \in {dir[n], None}
          /\ LinkedOrTaken(n) => LinkedOrTaken(n)'
          /\ Pristine(n) => Pristine(n)'
    /\ \A d \in Dirs : ~IsTemp(name[d]) => name'[d] = name[d]

\* What is said of a report stays true while the report takes no step.
LEMMA SparedPart ==
  ASSUME IInv, NEW r \in Reports, Spared(r), UNCHANGED layout,
         pc'[r] = pc[r], exit'[r] = exit[r], fd'[r] = fd[r], next'[r] = next[r], printed'[r] = printed[r]
  PROVE  ReportPart(r)'
  <1>1. ReportPart(r)
    BY DEF IInv, ReportInv, ReportPart
  <1>2. Contents(r)' = Contents(r) /\ \A a : NameOf(r, a)' = NameOf(r, a)
    BY DEF Contents, NameOf
  <1>3. \A i \in DOMAIN Contents(r) : Contents(r)[i] \in Members
    BY ContentsFacts
  <1>4. ASSUME NEW a \in Members, NEW n \in {<<r, "output", a>>, <<r, "reports", a>>, Artifact(r, a)}
        PROVE  /\ name'[n] = name[n] /\ dir'[n] \in {dir[n], None}
               /\ LinkedOrTaken(n) => LinkedOrTaken(n)'
               /\ Pristine(n) => Pristine(n)'
    <2>1. n \in Nodes /\ Owned(r, n)
      BY OwnFacts, NodeFacts DEF Owned, Pieces
    <2> QED
      BY <2>1 DEF Spared
  <1>5. LET b == Artifact(r, "bundle") IN
        /\ name'[b] = name[b] /\ dir'[b] \in {dir[b], None}
        /\ LinkedOrTaken(b) => LinkedOrTaken(b)'
        /\ Pristine(b) => Pristine(b)'
    <2>1. Artifact(r, "bundle") \in Nodes /\ Owned(r, Artifact(r, "bundle"))
      BY ArtifactKinds DEF Owned, Pieces
    <2> QED
      BY <2>1 DEF Spared
  <1>6. StepInv(r)'
    BY <1>1, <1>2, <1>3, <1>4, NameFacts DEF ReportPart, StepInv, Spared
  <1>7. CASE layout[r] = "single"
    <2>1. ASSUME NEW i \in DOMAIN Contents(r), NEW a \in Members, a = Contents(r)[i],
                 NEW n, n = Artifact(r, a)
          PROVE  /\ i > next[r] => name'[n] = Temp(n) /\ dir'[n] \in {fd[r], None}
                 /\ i > next[r] + 1 \/ (i > next[r] /\ pc[r] \in {"check", "open", "create"}) => Pristine(n)'
                 /\ i > next[r] + 1 => Pristine(<<r, "output", a>>)' /\ Pristine(<<r, "reports", a>>)'
                 /\ i <= next[r] => /\ name'[n] = NameOf(r, a) /\ LinkedOrTaken(n)'
                                    /\ dir'[n] # None => dir'[n] \in Dirs /\ name'[dir'[n]] = Final("reports")
      <3>1. /\ i > next[r] => name[n] = Temp(n) /\ dir[n] \in {fd[r], None}
            /\ i > next[r] + 1 \/ (i > next[r] /\ pc[r] \in {"check", "open", "create"}) => Pristine(n)
            /\ i > next[r] + 1 => Pristine(<<r, "output", a>>) /\ Pristine(<<r, "reports", a>>)
            /\ i <= next[r] => /\ name[n] = NameOf(r, a) /\ LinkedOrTaken(n)
                               /\ dir[n] # None => dir[n] \in Dirs /\ name[dir[n]] = Final("reports")
        BY <1>1, <1>7, <2>1 DEF ReportPart, SingleInv
      <3>2. /\ name'[n] = name[n] /\ dir'[n] \in {dir[n], None}
            /\ LinkedOrTaken(n) => LinkedOrTaken(n)'
            /\ Pristine(n) => Pristine(n)'
            /\ Pristine(<<r, "output", a>>) => Pristine(<<r, "output", a>>)'
            /\ Pristine(<<r, "reports", a>>) => Pristine(<<r, "reports", a>>)'
        BY <1>4, <2>1
      <3>3. dir'[n] # None /\ dir[n] \in Dirs /\ name[dir[n]] = Final("reports")
               => dir'[n] \in Dirs /\ name'[dir'[n]] = Final("reports")
        BY <3>2, NameFacts DEF Spared
      <3> QED
        BY <3>1, <3>2, <3>3
    <2>2. SingleInv(r)'
      BY <1>1, <1>2, <1>3, <1>7, <2>1 DEF ReportPart, SingleInv
    <2> QED
      BY <1>6, <1>7, <2>2 DEF ReportPart
  <1>8. CASE layout[r] # "single"
    <2> DEFINE b == Artifact(r, "bundle")
    <2>1. BundleInv(r)
      BY <1>1, <1>8 DEF ReportPart
    <2>2. ASSUME NEW i \in DOMAIN Contents(r), NEW a \in Members, a = Contents(r)[i],
                 NEW n, n = Artifact(r, a)
          PROVE  /\ i > next[r] => Pristine(n)'
                 /\ i <= next[r] => name'[n] = NameOf(r, a) /\ dir'[n] \in {b, None}
                 /\ (pc[r] \in {"members", "commit"} \/ exit[r] = "ok") /\ i <= next[r] => LinkedOrTaken(n)'
      <3>1. /\ i > next[r] => Pristine(n)
            /\ i <= next[r] => name[n] = NameOf(r, a) /\ dir[n] \in {b, None}
            /\ (pc[r] \in {"members", "commit"} \/ exit[r] = "ok") /\ i <= next[r] => LinkedOrTaken(n)
        BY <2>1, <2>2 DEF BundleInv
      <3>2. /\ name'[n] = name[n] /\ dir'[n] \in {dir[n], None}
            /\ LinkedOrTaken(n) => LinkedOrTaken(n)'
            /\ Pristine(n) => Pristine(n)'
        BY <1>4, <2>2
      <3> QED
        BY <3>1, <3>2
    <2>3. ASSUME NEW a \in Members, \A i \in DOMAIN Contents(r) : Contents(r)[i] # a
          PROVE  Pristine(Artifact(r, a))'
      <3>1. Pristine(Artifact(r, a))
        BY <2>1, <2>3 DEF BundleInv
      <3> QED
        BY <1>4, <3>1
    <2>4. /\ pc[r] \in {"check", "stdout", "open", "create"} => next[r] = 0 /\ Pristine(b)'
          /\ pc[r] \in {"members", "commit"} => name'[b] = Temp(b) /\ dir'[b] \in {fd[r], None} /\ LinkedOrTaken(b)'
          /\ pc[r] = "commit" \/ exit[r] = "ok" => next[r] = Len(Contents(r))
          /\ exit[r] = "ok" => name'[b] = NameOf(r, "bundle") /\ LinkedOrTaken(b)'
          /\ pc[r] = "cleanup" \/ exit[r] \in {"refused", "failed"} => name'[b] = Temp(b)
          /\ layout[r] = "stdout" => (pc[r] \in {"open", "create", "members", "commit"} \/ exit[r] = "ok" => printed[r])
      BY <2>1, <1>5 DEF BundleInv
    <2>5. BundleInv(r)'
      BY <1>2, <1>3, <2>2, <2>3, <2>4 DEF BundleInv
    <2> QED
      BY <1>6, <1>8, <2>5 DEF ReportPart
  <1> QED
    BY <1>7, <1>8

\* A clean at work sees nothing that is not linked.
LEMMA CleanSees ==
  ASSUME IInv, NEW c \in Cleans, CleanStep(c), NEW b \in Cleans, NEW x \in seen'[b]
  PROVE  x \in seen[b] \/ dir[x.node] # None
  <1>1. CleanTypes
    BY TypeParts DEF IInv
  <1>2. CASE seen' = seen \/ seen' = [seen EXCEPT ![c] = {}]
    BY <1>1, <1>2 DEF CleanTypes
  <1>3. CASE Scan(c)
    <2>1. PICK a \in agenda[c] : (\E d : Examines(c, a, d)) \/ Refuses(c, a)
      BY <1>3, ScanSteps
    <2>2. a.in \in Dirs \cup {Project}
      BY <1>1, EntryFacts DEF CleanTypes
    <2>3. ASSUME NEW d, Examines(c, a, d) PROVE x \in seen[b] \/ dir[x.node] # None
      <3> DEFINE known == {n \in Entries(d) : Known(a.path, n)}
      <3>1. dir[d] # None /\ d \in Dirs
        BY <2>2, <2>3, NodeFacts DEF Examines, Child, Entries
      <3>2. \A n \in known : dir[n] # None
        BY <3>1, NodeFacts DEF Entries
      <3>3. seen' = [seen EXCEPT ![c] = @ \cup NewSeen(a.path, d, known)]
        BY <2>3, Zenon DEF Examines
      <3> HIDE DEF known
      <3>4. \A y \in NewSeen(a.path, d, known) : dir[y.node] # None
        BY <3>1, <3>2 DEF NewSeen
      <3> QED
        BY <1>1, <3>3, <3>4 DEF CleanTypes
    <2> QED
      BY <1>2, <2>1, <2>3 DEF Refuses
  <1> QED
    BY <1>2, <1>3 DEF CleanStep, Look, Scanned, Enter, RemoveFile, RemoveDir, Quit, locals

\* A clean spares what is said of every report.
LEMMA CleanReports ==
  ASSUME IInv, [Next]_vars, NEW c \in Cleans, CleanStep(c)
  PROVE  ReportInv'
  <1> SUFFICES ASSUME NEW r \in Reports PROVE ReportPart(r)'
    BY DEF ReportInv, ReportPart
  <1>1. CleanEffect(c) /\ UNCHANGED <<layout, report>>
    BY CleanStepEffect
  <1>2. c # r /\ c \in Processes /\ (pc' = pc \/ (\E s : pc' = [pc EXCEPT ![c] = s]))
    BY NodeAssumption DEF CleanStep, Look, Scan, Scanned, Enter, RemoveFile, RemoveDir, Goto, Leave, Quit, Processes
  <1>3. exit' = exit \/ (\E s : exit' = [exit EXCEPT ![c] = s])
    BY DEF CleanStep, Look, Scan, Scanned, Enter, RemoveFile, RemoveDir, Leave, Quit
  <1>4. pc'[r] = pc[r] /\ exit'[r] = exit[r]
    BY <1>2, <1>3, NodeAssumption, TypeParts DEF IInv, SharedTypes, Processes
  <1>5. ASSUME NEW n \in Nodes
        PROVE  /\ name'[n] = name[n] /\ dir'[n] \in {dir[n], None}
               /\ LinkedOrTaken(n) => LinkedOrTaken(n)'
               /\ Pristine(n) => Pristine(n)'
    <2>1. name'[n] = name[n] /\ dir'[n] \in {dir[n], None} /\ (dir'[n] = dir[n] \/ \E b \in Cleans : n \in took'[b])
      BY <1>1 DEF CleanEffect, Same
    <2>2. LinkedOrTaken(n) => LinkedOrTaken(n)'
      BY <1>1, <2>1 DEF LinkedOrTaken, CleanEffect
    <2>3. Pristine(n) => Pristine(n)'
      BY <2>1, CleanSees DEF Pristine
    <2> QED
      BY <2>1, <2>2, <2>3
  <1>6. Spared(r)
    BY <1>5, FinalDirs DEF Spared
  <1> QED
    BY <1>1, <1>4, <1>6, SparedPart DEF report

\* A step that touches neither the nodes of a report nor what the cleans know spares it.
LEMMA SparedBySame ==
  ASSUME IInv, [Next]_vars, NEW r \in Reports, UNCHANGED clean, \A n \in Nodes : Owned(r, n) => Same(n)
  PROVE  Spared(r)
  <1>1. ASSUME NEW n \in Nodes, Same(n)
        PROVE  /\ name'[n] = name[n] /\ dir'[n] \in {dir[n], None}
               /\ LinkedOrTaken(n) => LinkedOrTaken(n)'
               /\ Pristine(n) => Pristine(n)'
    BY <1>1 DEF Same, LinkedOrTaken, Pristine, clean, locals
  <1> QED
    BY <1>1, FinalDirs DEF Spared

\* So does the step of another report.
LEMMA OtherReports ==
  ASSUME IInv, [Next]_vars, NEW q \in Reports, ReportStep(q), NEW r \in Reports \ {q}
  PROVE  ReportPart(r)'
  <1>1. ReportEffect(q) /\ UNCHANGED <<layout, clean>>
    BY ReportStepEffect
  <1>2. \A n \in Nodes : Owned(r, n) => Same(n)
    BY <1>1 DEF ReportEffect, Owned, Artifact
  <1>3. Spared(r)
    BY <1>1, <1>2, SparedBySame
  <1>4. pc'[r] = pc[r] /\ exit'[r] = exit[r]
    BY DEF ReportStep, Check, Emit, OpenParent, Create, Member, Listing, Commit, Cleanup, Goto, Leave,
           IInv, TypeOK
  <1>5. fd'[r] = fd[r] /\ next'[r] = next[r] /\ printed'[r] = printed[r]
    BY DEF ReportStep, Check, Emit, OpenParent, Create, Member, Listing, Commit, Cleanup, report,
           IInv, TypeOK
  <1> QED
    BY <1>1, <1>3, <1>4, <1>5, SparedPart

\* A node that a report leaves alone is as made or unmade as it was.
LEMMA SameKept ==
  ASSUME UNCHANGED clean, NEW n, Same(n)
  PROVE  /\ Pristine(n) => Pristine(n)'
         /\ LinkedOrTaken(n) => LinkedOrTaken(n)'
  BY DEF clean, locals, Same, Pristine, LinkedOrTaken

\* The layout fixes what a report publishes and under which names.
LEMMA LayoutKept ==
  ASSUME NEW r, UNCHANGED layout
  PROVE  Contents(r)' = Contents(r) /\ \A a : NameOf(r, a)' = NameOf(r, a)
  BY DEF Contents, NameOf

\* A step to the next one, or out of the command.
LEMMA StepTaken ==
  ASSUME TypeOK, NEW r \in Reports, NEW s, NEW e
  PROVE  /\ Goto(r, s) => pc'[r] = s
         /\ Leave(r, e) => pc'[r] = "done" /\ exit'[r] = e
         /\ UNCHANGED exit => exit'[r] = exit[r]
  BY DEF TypeOK, Goto, Leave

\* The steps of a report that leave the tree alone.
LEMMA QuietSteps ==
  ASSUME IInv, NEW r \in Reports, Check(r) \/ Emit(r) \/ Listing(r)
  PROVE  ReportPart(r)'
  <1>1. ReportPart(r) /\ TypeOK
    BY DEF IInv, ReportInv, ReportPart
  <1>2. /\ UNCHANGED <<layout, tree, fd, next, clean>>
        /\ (~Check(r) /\ ~Listing(r)) \/ UNCHANGED printed
    BY DEF Check, Emit, Listing, report
  <1>3. Contents(r)' = Contents(r) /\ \A a : NameOf(r, a)' = NameOf(r, a)
    BY <1>2, LayoutKept
  <1>4. \A n : (Pristine(n) => Pristine(n)') /\ (LinkedOrTaken(n) => LinkedOrTaken(n)')
    BY <1>2 DEF clean, locals, tree, Pristine, LinkedOrTaken
  <1>5. /\ Check(r) => /\ pc[r] = "check" /\ (UNCHANGED printed)
                       /\ \/ /\ pc'[r] = (IF layout[r] = "stdout" THEN "stdout" ELSE "open")
                             /\ exit'[r] = exit[r]
                          \/ pc'[r] = "done" /\ exit'[r] = "refused"
    BY <1>1, StepTaken DEF Check, report
  <1>6. Emit(r) => /\ pc[r] = "stdout"
                   /\ \/ pc'[r] = "open" /\ exit'[r] = exit[r] /\ printed'[r] = TRUE
                      \/ pc'[r] = "done" /\ exit'[r] = "failed" /\ printed'[r] = printed[r]
    BY <1>1, StepTaken DEF Emit, TypeOK
  <1>7. Listing(r) => /\ pc[r] = "members" /\ (UNCHANGED printed) /\ exit'[r] = exit[r]
                      /\ next[r] = Len(Contents(r)) /\ pc'[r] \in {"commit", "cleanup"}
    BY <1>1, StepTaken DEF Listing, report
  <1> HIDE DEF IInv
  <1>8. StepInv(r)'
    <2>1. StepInv(r)
      BY <1>1 DEF ReportPart
    <2> QED
      BY <2>1, <1>2, <1>3, <1>4, <1>5, <1>6, <1>7 DEF StepInv, tree
  <1>9. CASE layout[r] = "single"
    <2>1. SingleInv(r)
      BY <1>1, <1>9 DEF ReportPart
    <2>2. Check(r)
      BY <2>1, <1>6, <1>7 DEF SingleInv
    <2>3. SingleInv(r)'
      <3>1. next[r] < Len(Contents(r))
        BY <1>1, <1>5, <2>2 DEF ReportPart, StepInv
      <3>2. exit[r] # "ok" /\ next[r] # Len(Contents(r))
        BY <3>1, <2>1, <1>1, ContentsFacts DEF SingleInv, TypeOK
      <3> QED
        BY <2>1, <2>2, <3>2, <1>2, <1>3, <1>4, <1>5, <1>9 DEF SingleInv, tree
    <2> QED
      BY <1>2, <1>8, <1>9, <2>3 DEF ReportPart
  <1>10. CASE layout[r] # "single"
    <2>1. BundleInv(r) /\ StepInv(r)
      BY <1>1, <1>10 DEF ReportPart
    <2> DEFINE b == Artifact(r, "bundle")
    <2>2. /\ \A i \in DOMAIN Contents(r) :
                /\ i > next[r] => Pristine(Artifact(r, Contents(r)[i]))
                /\ i <= next[r] => /\ name[Artifact(r, Contents(r)[i])] = NameOf(r, Contents(r)[i])
                                   /\ dir[Artifact(r, Contents(r)[i])] \in {b, None}
          /\ \A a \in Members : (\A i \in DOMAIN Contents(r) : Contents(r)[i] # a) => Pristine(Artifact(r, a))
          /\ Pristine(b) => name[b] = Temp(b)
      BY <2>1 DEF BundleInv, Pristine
    <2>3. /\ pc'[r] \in {"check", "stdout", "open", "create"} => next[r] = 0 /\ Pristine(b)
          /\ pc'[r] \in {"members", "commit"} => name[b] = Temp(b) /\ dir[b] \in {fd[r], None} /\ LinkedOrTaken(b)
          /\ pc'[r] \in {"members", "commit"} =>
                \A i \in DOMAIN Contents(r) : i <= next[r] => LinkedOrTaken(Artifact(r, Contents(r)[i]))
          /\ pc'[r] = "commit" => next[r] = Len(Contents(r))
          /\ exit'[r] # "ok"
          /\ pc'[r] = "cleanup" \/ exit'[r] \in {"refused", "failed"} => name[b] = Temp(b)
          /\ layout[r] = "stdout" => (pc'[r] \in {"open", "create", "members", "commit"} => printed'[r])
      <3>1. CASE Check(r)
        BY <2>1, <2>2, <3>1, <1>5 DEF BundleInv, StepInv
      <3>2. CASE Emit(r)
        BY <2>1, <2>2, <3>2, <1>6 DEF BundleInv, StepInv
      <3>3. CASE Listing(r)
        BY <2>1, <2>2, <3>3, <1>7 DEF BundleInv, StepInv
      <3> QED
        BY <3>1, <3>2, <3>3
    <2>4. BundleInv(r)'
      BY <2>2, <2>3, <1>2, <1>3, <1>4 DEF BundleInv, tree
    <2> QED
      BY <1>2, <1>8, <1>10, <2>4 DEF ReportPart
  <1> QED
    BY <1>9, <1>10

\* A file of one report that is not touched by a step.
LEMMA FileKept ==
  ASSUME IInv, [Next]_vars, NEW r \in Reports, layout[r] = "single", UNCHANGED <<layout, clean>>,
         NEW i \in DOMAIN Contents(r), NEW a \in Members, a = Contents(r)[i], NEW n, n = Artifact(r, a), Same(n)
  PROVE  /\ i > next[r] + 1 \/ (i > next[r] /\ pc[r] \in {"check", "open", "create"}) => Pristine(n)'
         /\ i > next[r] => name'[n] = Temp(n)
         /\ i > next[r] + 1 \/ (i > next[r] /\ pc[r] \in {"check", "open", "create"}) => dir'[n] = None
         /\ i > next[r] => dir'[n] \in {fd[r], None}
         /\ i <= next[r] => /\ name'[n] = NameOf(r, a) /\ LinkedOrTaken(n)'
                            /\ dir'[n] # None => dir'[n] \in Dirs /\ name'[dir'[n]] = Final("reports")
  <1>1. SingleInv(r)
    BY DEF IInv, ReportInv
  <1>2. /\ i > next[r] => name[n] = Temp(n) /\ dir[n] \in {fd[r], None}
        /\ i > next[r] + 1 \/ (i > next[r] /\ pc[r] \in {"check", "open", "create"}) => Pristine(n)
        /\ i <= next[r] => /\ name[n] = NameOf(r, a) /\ LinkedOrTaken(n)
                           /\ dir[n] # None => dir[n] \in Dirs /\ name[dir[n]] = Final("reports")
    BY <1>1 DEF SingleInv
  <1>3. /\ Pristine(n) => Pristine(n)'
        /\ LinkedOrTaken(n) => LinkedOrTaken(n)'
        /\ dir'[n] = dir[n] /\ name'[n] = name[n] /\ (Pristine(n) => dir[n] = None)
    BY SameKept DEF Same, Pristine
  <1>4. dir[n] \in Dirs /\ name[dir[n]] = Final("reports") => name'[dir[n]] = Final("reports")
    BY FinalDirs, NameFacts
  <1> QED
    BY <1>2, <1>3, <1>4

\* How many files a report has, and how many of them it has done.
LEMMA NumberFacts ==
  ASSUME TypeOK, NEW r \in Reports
  PROVE  next[r] \in Nat /\ Len(Contents(r)) \in Nat
  <1>1. next[r] \in 0 .. 3
    BY TypeParts DEF ReportTypes
  <1>2. Len(Contents(r)) \in {2, 3}
    BY ContentsFacts
  <1> QED
    BY <1>1, <1>2

\* Opening the parent of what comes next.
LEMMA OpenSteps ==
  ASSUME IInv, [Next]_vars, NEW r \in Reports, OpenParent(r)
  PROVE  ReportPart(r)'
  <1>1. ReportPart(r) /\ TypeOK
    BY DEF IInv, ReportInv, ReportPart
  <1>2. UNCHANGED <<layout, next, printed, clean>> /\ pc[r] = "open"
    BY DEF OpenParent
  <1>3. Contents(r)' = Contents(r) /\ \A a : NameOf(r, a)' = NameOf(r, a)
    BY <1>2, LayoutKept
  <1>4. \/ pc'[r] = "create" /\ exit'[r] = exit[r]
        \/ pc'[r] = "done" /\ exit'[r] = "failed"
    BY <1>1, StepTaken DEF OpenParent
  <1>5. /\ \A a \in Pieces : Same(Artifact(r, a))
        /\ pc'[r] = "create" => /\ fd'[r] \in Dirs /\ ~IsTemp(name'[fd'[r]])
                                /\ layout[r] = "bundle" => fd'[r] \in OutputDirs
                                /\ layout[r] # "bundle" => name'[fd'[r]] = Final("reports")
        /\ \A i \in DOMAIN Contents(r) : i > next[r] + 1 =>
               Same(<<r, "output", Contents(r)[i]>>) /\ Same(<<r, "reports", Contents(r)[i]>>)
    BY OpenEffect
  <1>6. StepInv(r)'
    <2>1. StepInv(r)
      BY <1>1 DEF ReportPart
    <2> QED
      BY <2>1, <1>2, <1>3, <1>4, <1>5 DEF StepInv
  <1>7. next[r] < Len(Contents(r)) /\ next[r] \in Nat /\ Len(Contents(r)) \in Nat /\ exit[r] = "none"
    <2>1. next[r] < Len(Contents(r)) /\ exit[r] = "none"
      BY <1>1, <1>2 DEF ReportPart, StepInv
    <2>2. next[r] \in Nat /\ Len(Contents(r)) \in Nat
      BY <1>1, NumberFacts
    <2> QED
      BY <2>1, <2>2
  <1>8. CASE layout[r] = "single"
    <2>1. SingleInv(r)
      BY <1>1, <1>8 DEF ReportPart
    <2>2. ASSUME NEW i \in DOMAIN Contents(r), NEW a \in Members, a = Contents(r)[i],
                 NEW n, n = Artifact(r, a)
          PROVE  /\ i > next[r] => name'[n] = Temp(n) /\ dir'[n] = None /\ Pristine(n)'
                 /\ i > next[r] + 1 => Pristine(<<r, "output", a>>)' /\ Pristine(<<r, "reports", a>>)'
                 /\ i <= next[r] => /\ name'[n] = NameOf(r, a) /\ LinkedOrTaken(n)'
                                    /\ dir'[n] # None => dir'[n] \in Dirs /\ name'[dir'[n]] = Final("reports")
      <3>1. Same(n)
        BY <1>5, <2>2 DEF Members, Pieces
      <3>2. i > next[r] + 1 => /\ Pristine(<<r, "output", a>>) /\ Same(<<r, "output", a>>)
                               /\ Pristine(<<r, "reports", a>>) /\ Same(<<r, "reports", a>>)
        BY <1>5, <2>1, <2>2 DEF SingleInv
      <3>3. i > next[r] + 1 => Pristine(<<r, "output", a>>)' /\ Pristine(<<r, "reports", a>>)'
        BY <1>2, <3>2, SameKept
      <3> HIDE DEF IInv
      <3> QED
        BY <1>2, <1>8, <2>2, <3>1, <3>3, FileKept
    <2>3. \A i \in DOMAIN Contents(r) : Contents(r)[i] \in Members
      BY ContentsFacts
    <2>4. SingleInv(r)'
      BY <1>2, <1>3, <1>4, <1>7, <2>2, <2>3 DEF SingleInv
    <2> QED
      BY <1>2, <1>6, <1>8, <2>4 DEF ReportPart
  <1>9. CASE layout[r] # "single"
    <2>1. BundleInv(r) /\ next[r] = 0 /\ Pristine(Artifact(r, "bundle"))
      BY <1>1, <1>2, <1>9 DEF ReportPart, BundleInv
    <2>2. \A a \in Pieces : Pristine(Artifact(r, a)) => Pristine(Artifact(r, a))'
      BY <1>2, <1>5, SameKept
    <2>3. \A i \in DOMAIN Contents(r) : Contents(r)[i] \in Members /\ i > next[r]
      BY <2>1, ContentsFacts
    <2>4. Pristine(Artifact(r, "bundle"))' /\ name'[Artifact(r, "bundle")] = Temp(Artifact(r, "bundle"))
      BY <1>5, <2>1, <2>2 DEF Pieces, Pristine, Same
    <2>5. \A i \in DOMAIN Contents(r) : Pristine(Artifact(r, Contents(r)[i]))
      BY <2>1, <2>3 DEF BundleInv
    <2>6. layout[r] = "stdout" => printed[r]
      BY <1>2, <2>1 DEF BundleInv
    <2>7. ASSUME NEW a \in Members, \A i \in DOMAIN Contents(r) : Contents(r)[i] # a
          PROVE  Pristine(Artifact(r, a))'
      BY <2>1, <2>2, <2>7 DEF BundleInv, Pieces
    <2>8. \A i \in DOMAIN Contents(r) : ~(i <= next[r])
      BY <2>1, ContentsFacts
    <2>9. ASSUME NEW i \in DOMAIN Contents(r), NEW a \in Members, a = Contents(r)[i]
          PROVE  Pristine(Artifact(r, a))'
      BY <2>2, <2>5, <2>9 DEF Pieces
    <2>10. BundleInv(r)'
      BY <1>2, <1>3, <1>4, <1>7, <2>1, <2>3, <2>4, <2>6, <2>7, <2>8, <2>9 DEF BundleInv
    <2> QED
      BY <1>2, <1>6, <1>9, <2>10 DEF ReportPart
  <1> QED
    BY <1>8, <1>9

\* Making the temporary of what comes next.
LEMMA CreateSteps ==
  ASSUME IInv, [Next]_vars, NEW r \in Reports, Create(r)
  PROVE  ReportPart(r)'
  <1> DEFINE t == Artifact(r, Piece(r))
  <1>1. ReportPart(r) /\ TypeOK /\ StepInv(r)
    BY DEF IInv, ReportInv, ReportPart
  <1>2. UNCHANGED <<layout, fd, next, printed, clean>> /\ pc[r] = "create" /\ exit'[r] = exit[r] /\ exit[r] = "none"
    BY <1>1 DEF Create, report, StepInv
  <1>3. Contents(r)' = Contents(r) /\ \A a : NameOf(r, a)' = NameOf(r, a)
    BY <1>2, LayoutKept
  <1>4. /\ Piece(r) \in Pieces /\ t \in Nodes /\ Pristine(t)
        /\ layout[r] = "single" <=> Piece(r) # "bundle"
        /\ layout[r] = "single" => next[r] + 1 \in DOMAIN Contents(r) /\ Piece(r) = Contents(r)[next[r] + 1]
    BY PieceFacts DEF Create
  <1>5. /\ \A n \in Nodes : n # t => Same(n)
        /\ \/ /\ pc'[r] = (IF layout[r] = "single" THEN "commit" ELSE "members")
              /\ dir'[t] = fd[r] /\ name'[t] = Temp(t)
           \/ pc'[r] = "cleanup" /\ Same(t)
    BY <1>1, CreateEffect DEF TypeOK, tree, Same
  <1>6. dir'[t] \in {fd[r], None} /\ name'[t] = Temp(t)
    BY <1>4, <1>5 DEF Same, Pristine
  <1>7. /\ fd[r] \in Dirs /\ ~IsTemp(name[fd[r]]) /\ name'[fd[r]] = name[fd[r]]
        /\ fd[r] # None /\ next[r] < Len(Contents(r)) /\ next[r] \in Nat /\ Len(Contents(r)) \in Nat
    <2>1. fd[r] \in Dirs /\ ~IsTemp(name[fd[r]]) /\ next[r] < Len(Contents(r))
      BY <1>1, <1>2 DEF StepInv
    <2>2. next[r] \in Nat /\ Len(Contents(r)) \in Nat
      BY <1>1, NumberFacts
    <2> QED
      BY <2>1, <2>2, FinalDirs, NodeFacts
  <1> HIDE DEF t
  <1>8. StepInv(r)'
    BY <1>1, <1>2, <1>3, <1>5, <1>7 DEF StepInv
  <1>9. CASE layout[r] = "single"
    <2>1. SingleInv(r) /\ pc'[r] \in {"commit", "cleanup"}
      BY <1>1, <1>5, <1>9 DEF ReportPart
    <2>2. ASSUME NEW i \in DOMAIN Contents(r), NEW a \in Members, a = Contents(r)[i],
                 NEW n, n = Artifact(r, a)
          PROVE  /\ i > next[r] => name'[n] = Temp(n) /\ dir'[n] \in {fd[r], None}
                 /\ i > next[r] + 1 => Pristine(n)'
                 /\ i > next[r] + 1 => Pristine(<<r, "output", a>>)' /\ Pristine(<<r, "reports", a>>)'
                 /\ i <= next[r] => /\ name'[n] = NameOf(r, a) /\ LinkedOrTaken(n)'
                                    /\ dir'[n] # None => dir'[n] \in Dirs /\ name'[dir'[n]] = Final("reports")
      <3>1. i # next[r] + 1 => Same(n)
        <4>1. i # next[r] + 1 => n # t /\ n \in Nodes
          BY <1>4, <1>9, <2>2, ContentsFacts, ArtifactIsOne, ArtifactKinds DEF t, Members, Pieces
        <4> QED
          BY <1>5, <4>1
      <3>2. i = next[r] + 1 => n = t /\ ~(i > next[r] + 1) /\ ~(i <= next[r])
        BY <1>4, <1>7, <1>9, <2>2 DEF t
      <3>3. i > next[r] + 1 => Pristine(<<r, "output", a>>)' /\ Pristine(<<r, "reports", a>>)'
        <4>1. i > next[r] + 1 => Pristine(<<r, "output", a>>) /\ Pristine(<<r, "reports", a>>)
          BY <2>1, <2>2 DEF SingleInv
        <4>2. Same(<<r, "output", a>>) /\ Same(<<r, "reports", a>>)
          BY <1>5, <1>4, OwnFacts, ArtifactKinds, NodeFacts DEF t
        <4> QED
          BY <1>2, <4>1, <4>2, SameKept
      <3>4. i > next[r] + 1 => Same(n)
        BY <3>1, <3>2
      <3> QED
        BY <1>2, <1>6, <1>9, <2>2, <3>1, <3>2, <3>3, FileKept
    <2>3. \A i \in DOMAIN Contents(r) : Contents(r)[i] \in Members
      BY ContentsFacts
    <2>4. SingleInv(r)'
      BY <1>2, <1>3, <1>7, <2>1, <2>2, <2>3 DEF SingleInv
    <2> QED
      BY <1>2, <1>8, <1>9, <2>4 DEF ReportPart
  <1>10. CASE layout[r] # "single"
    <2>1. BundleInv(r) /\ next[r] = 0 /\ t = Artifact(r, "bundle")
      BY <1>1, <1>2, <1>4, <1>10 DEF ReportPart, BundleInv, t
    <2>2. \A a \in Members : Pristine(Artifact(r, a)) => Pristine(Artifact(r, a))'
      <3> SUFFICES ASSUME NEW a \in Members, Pristine(Artifact(r, a)) PROVE Pristine(Artifact(r, a))'
        OBVIOUS
      <3>1. Artifact(r, a) # t /\ Artifact(r, a) \in Nodes
        BY <2>1, ArtifactIsOne, ArtifactKinds DEF Members, Pieces
      <3> QED
        BY <1>2, <1>5, <3>1, SameKept
    <2>3. \A i \in DOMAIN Contents(r) : Contents(r)[i] \in Members /\ i > next[r] /\ ~(i <= next[r])
      BY <2>1, ContentsFacts
    <2>4. pc'[r] = "members" => dir'[t] = fd[r] /\ dir'[t] # None
      BY <1>5, <1>7, <1>10
    <2>5. \A i \in DOMAIN Contents(r) : Pristine(Artifact(r, Contents(r)[i]))
      BY <2>1, <2>3 DEF BundleInv
    <2>6. layout[r] = "stdout" => printed[r]
      BY <1>2, <2>1 DEF BundleInv
    <2>7. ASSUME NEW a \in Members, \A i \in DOMAIN Contents(r) : Contents(r)[i] # a
          PROVE  Pristine(Artifact(r, a))'
      BY <2>1, <2>2, <2>7 DEF BundleInv
    <2>8. ASSUME NEW i \in DOMAIN Contents(r), NEW a \in Members, a = Contents(r)[i]
          PROVE  Pristine(Artifact(r, a))'
      BY <2>2, <2>5, <2>8
    <2>9. pc'[r] \in {"members", "cleanup"}
      BY <1>5, <1>10
    <2>10. name'[Artifact(r, "bundle")] = Temp(Artifact(r, "bundle"))
           /\ (pc'[r] = "members" => dir'[Artifact(r, "bundle")] = fd[r] /\ LinkedOrTaken(Artifact(r, "bundle"))')
      BY <1>6, <2>1, <2>4 DEF LinkedOrTaken
    <2>11. BundleInv(r)'
      BY <1>2, <1>3, <2>3, <2>6, <2>7, <2>8, <2>9, <2>10 DEF BundleInv
    <2> QED
      BY <1>2, <1>8, <1>10, <2>11 DEF ReportPart
  <1> QED
    BY <1>9, <1>10

\* Writing the next member of a bundle.
LEMMA MemberSteps ==
  ASSUME IInv, [Next]_vars, NEW r \in Reports, Member(r)
  PROVE  ReportPart(r)'
  <1> DEFINE b == Artifact(r, "bundle")
  <1>1. ReportPart(r) /\ TypeOK /\ StepInv(r)
    BY DEF IInv, ReportInv, ReportPart
  <1>2. /\ UNCHANGED <<layout, fd, printed, clean>> /\ exit'[r] = exit[r] /\ exit[r] = "none"
        /\ pc[r] = "members" /\ next[r] < Len(Contents(r))
    BY <1>1 DEF Member, StepInv
  <1>3. Contents(r)' = Contents(r) /\ \A a : NameOf(r, a)' = NameOf(r, a)
    BY <1>2, LayoutKept
  <1>4. layout[r] # "single" /\ BundleInv(r)
    BY <1>1, <1>2 DEF ReportPart, SingleInv
  <1>5. /\ next[r] \in Nat /\ Len(Contents(r)) \in Nat /\ next[r] + 1 \in DOMAIN Contents(r)
        /\ next[r] + 1 <= Len(Contents(r))
    BY <1>1, <1>2, NumberFacts, ContentsFacts
  <1>6. PICK m \in Members : m = Contents(r)[next[r] + 1]
    BY <1>5, ContentsFacts
  <1> DEFINE n == Artifact(r, m)
  <1>7. n \in Nodes /\ n # b /\ b \in Dirs /\ b \in Nodes
    BY <1>6, ArtifactIsOne, ArtifactKinds DEF Members, Pieces
  <1>8. /\ \A k \in Nodes : k # n => Same(k)
        /\ \/ /\ next'[r] = next[r] + 1 /\ pc'[r] = "members"
              /\ dir'[n] = b /\ name'[n] = NameOf(r, m)
           \/ pc'[r] = "cleanup" /\ next'[r] = next[r] /\ Same(n)
    BY <1>1, <1>2, <1>6, MemberEffect DEF TypeOK, tree, Same
  <1>9. fd[r] \in Dirs /\ ~IsTemp(name[fd[r]]) /\ name'[fd[r]] = name[fd[r]]
    <2>1. fd[r] \in Dirs /\ ~IsTemp(name[fd[r]])
      BY <1>1, <1>2 DEF StepInv
    <2> QED
      BY <2>1, FinalDirs
  <1> HIDE DEF n, b
  <1>10. StepInv(r)'
    BY <1>1, <1>2, <1>3, <1>5, <1>8, <1>9 DEF StepInv
  <1>11. ASSUME NEW i \in DOMAIN Contents(r), NEW a \in Members, a = Contents(r)[i],
                NEW k, k = Artifact(r, a)
         PROVE  /\ i > next'[r] => Pristine(k)'
                /\ i <= next'[r] => name'[k] = NameOf(r, a) /\ dir'[k] \in {b, None}
                /\ pc'[r] = "members" /\ i <= next'[r] => LinkedOrTaken(k)'
    <2>1. /\ i > next[r] => Pristine(k)
          /\ i <= next[r] => name[k] = NameOf(r, a) /\ dir[k] \in {b, None}
          /\ i <= next[r] => LinkedOrTaken(k)
      BY <1>2, <1>4, <1>11 DEF BundleInv, b
    <2>2. i # next[r] + 1 => k # n /\ k \in Nodes
      BY <1>5, <1>6, <1>11, ContentsFacts, ArtifactIsOne, ArtifactKinds DEF n, Members, Pieces
    <2>3. i = next[r] + 1 => k = n
      BY <1>6, <1>11 DEF n
    <2>4. i \in Nat
      BY ContentsFacts
    <2>5. CASE Same(k)
      <3>1. /\ Pristine(k) => Pristine(k)'
            /\ LinkedOrTaken(k) => LinkedOrTaken(k)'
        BY <1>2, <2>5, SameKept
      <3>2. i # next[r] + 1 \/ next'[r] = next[r] \/ (dir'[k] = b /\ name'[k] = NameOf(r, m))
        BY <1>8, <2>3
      <3>3. i = next[r] + 1 => a = m
        BY <1>6, <1>11
      <3>4. i = next[r] + 1 /\ next'[r] # next[r] => LinkedOrTaken(k)'
        BY <1>7, <3>2, NodeFacts DEF LinkedOrTaken
      <3> QED
        BY <1>5, <1>8, <2>1, <2>4, <2>5, <3>1, <3>2, <3>3, <3>4 DEF Same
    <2>6. CASE ~Same(k)
      <3>1. i = next[r] + 1 /\ k = n /\ a = m
        BY <1>6, <1>8, <1>11, <2>2, <2>3, <2>6
      <3>2. dir'[k] = b /\ name'[k] = NameOf(r, m) /\ next'[r] = next[r] + 1
        BY <1>8, <2>6, <3>1
      <3>3. LinkedOrTaken(k)'
        BY <1>7, <3>2, NodeFacts DEF LinkedOrTaken
      <3> QED
        BY <1>5, <3>1, <3>2, <3>3
    <2> QED
      BY <2>5, <2>6
  <1>12. /\ name'[b] = Temp(b) /\ dir'[b] \in {fd[r], None} /\ LinkedOrTaken(Artifact(r, "bundle"))'
    <2>1. name[b] = Temp(b) /\ dir[b] \in {fd[r], None} /\ LinkedOrTaken(b)
      BY <1>2, <1>4 DEF BundleInv, b
    <2>2. Same(b)
      BY <1>7, <1>8
    <2>3. LinkedOrTaken(Artifact(r, "bundle"))'
      BY <1>2, <2>1, <2>2, SameKept DEF b
    <2> QED
      BY <2>1, <2>2, <2>3 DEF Same
  <1>13. ASSUME NEW a \in Members, \A i \in DOMAIN Contents(r) : Contents(r)[i] # a
         PROVE  Pristine(Artifact(r, a))'
    <2>1. Artifact(r, a) # n /\ Artifact(r, a) \in Nodes
      BY <1>5, <1>6, <1>13, ArtifactIsOne, ArtifactKinds DEF n, Members, Pieces
    <2>2. Pristine(Artifact(r, a))
      BY <1>4, <1>13 DEF BundleInv
    <2> QED
      BY <1>2, <1>8, <2>1, <2>2, SameKept
  <1>14. \A i \in DOMAIN Contents(r) : Contents(r)[i] \in Members
    BY ContentsFacts
  <1>15. layout[r] = "stdout" => printed[r]
    BY <1>2, <1>4 DEF BundleInv
  <1>16. pc'[r] \in {"members", "cleanup"}
    BY <1>8
  <1>17. BundleInv(r)'
    BY <1>2, <1>3, <1>11, <1>12, <1>13, <1>14, <1>15, <1>16 DEF BundleInv, b
  <1> QED
    BY <1>2, <1>4, <1>10, <1>17 DEF ReportPart

\* Committing a file or a bundle.
LEMMA CommitSteps ==
  ASSUME IInv, [Next]_vars, NEW r \in Reports, Commit(r)
  PROVE  ReportPart(r)'
  <1>1. ReportPart(r) /\ TypeOK /\ StepInv(r)
    BY DEF IInv, ReportInv, ReportPart
  <1>2. /\ UNCHANGED <<layout, fd, printed, clean>> /\ exit[r] = "none" /\ pc[r] = "commit"
    BY <1>1 DEF Commit, StepInv
  <1>3. Contents(r)' = Contents(r) /\ \A a : NameOf(r, a)' = NameOf(r, a)
    BY <1>2, LayoutKept
  <1>4. PICK m \in Pieces : m = Piece(r)
    BY <1>2, PieceFacts
  <1> DEFINE n == Artifact(r, m)
  <1>5. /\ n \in Nodes /\ name[n] = Temp(n)
        /\ layout[r] = "single" <=> m # "bundle"
        /\ layout[r] = "single" => next[r] + 1 \in DOMAIN Contents(r) /\ m = Contents(r)[next[r] + 1]
    BY <1>2, <1>4, PieceFacts
  <1>6. next[r] \in Nat /\ Len(Contents(r)) \in Nat
    BY <1>1, NumberFacts
  <1>7. /\ \A k \in Nodes : k # n => Same(k)
        /\ \/ /\ dir'[n] = fd[r] /\ name'[n] = NameOf(r, m)
              /\ next'[r] = (IF layout[r] = "single" THEN next[r] + 1 ELSE next[r])
              /\ \/ /\ layout[r] = "single" /\ next[r] + 1 < Len(Contents(r))
                    /\ pc'[r] = "open" /\ exit'[r] = "none"
                 \/ /\ ~(layout[r] = "single" /\ next[r] + 1 < Len(Contents(r)))
                    /\ pc'[r] = "done" /\ exit'[r] = "ok"
           \/ pc'[r] = "cleanup" /\ next'[r] = next[r] /\ exit'[r] = "none" /\ Same(n)
    <2>1. r \in DOMAIN pc /\ r \in DOMAIN exit /\ r \in DOMAIN next
      BY <1>1 DEF TypeOK
    <2> QED
      BY <1>2, <1>4, <2>1, CommitEffect DEF tree, Same, More
  <1>8. /\ fd[r] \in Dirs /\ fd[r] # None /\ ~IsTemp(name[fd[r]]) /\ name'[fd[r]] = name[fd[r]]
        /\ layout[r] # "bundle" => name'[fd[r]] = Final("reports")
    <2>1. fd[r] \in Dirs /\ ~IsTemp(name[fd[r]]) /\ (layout[r] # "bundle" => name[fd[r]] = Final("reports"))
      BY <1>1, <1>2 DEF StepInv
    <2> QED
      BY <2>1, FinalDirs, NodeFacts
  <1> HIDE DEF n
  <1>9. CASE layout[r] = "single"
    <2>1. SingleInv(r) /\ next[r] + 1 <= Len(Contents(r)) /\ m \in Members
      BY <1>1, <1>5, <1>6, <1>9, ContentsFacts DEF ReportPart, Pieces
    <2>2. ASSUME NEW i \in DOMAIN Contents(r), NEW a \in Members, a = Contents(r)[i]
          PROVE  i > next[r] + 1 => Pristine(<<r, "output", a>>)' /\ Pristine(<<r, "reports", a>>)'
      <3>1. i > next[r] + 1 => Pristine(<<r, "output", a>>) /\ Pristine(<<r, "reports", a>>)
        BY <2>1, <2>2 DEF SingleInv
      <3>2. Same(<<r, "output", a>>) /\ Same(<<r, "reports", a>>)
        BY <1>7, OwnFacts, ArtifactKinds, NodeFacts DEF n
      <3> QED
        BY <1>2, <3>1, <3>2, SameKept
    <2>3. ASSUME NEW i \in DOMAIN Contents(r), NEW a \in Members, a = Contents(r)[i],
                 NEW k, k = Artifact(r, a)
          PROVE  /\ i > next'[r] => name'[k] = Temp(k) /\ dir'[k] \in {fd[r], None}
                 /\ i > next'[r] + 1 \/ (i > next'[r] /\ pc'[r] = "open") => Pristine(k)'
                 /\ i <= next'[r] => /\ name'[k] = NameOf(r, a) /\ LinkedOrTaken(k)'
                                     /\ dir'[k] # None => dir'[k] \in Dirs /\ name'[dir'[k]] = Final("reports")
      <3>1. i \in Nat
        BY ContentsFacts
      <3>2. i # next[r] + 1 => k # n /\ k \in Nodes
        BY <1>5, <1>9, <2>3, ContentsFacts, ArtifactIsOne, ArtifactKinds DEF n, Members, Pieces
      <3>3. i = next[r] + 1 => k = n /\ a = m
        BY <1>5, <1>9, <2>3 DEF n
      <3>4. CASE Same(k)
        <4>1. next'[r] # next[r] /\ i = next[r] + 1 =>
                 /\ dir'[k] = fd[r] /\ name'[k] = NameOf(r, a) /\ LinkedOrTaken(k)'
          BY <1>7, <1>8, <3>3 DEF LinkedOrTaken
        <4>2. /\ i > next[r] + 1 => Pristine(k)'
              /\ i > next[r] => name'[k] = Temp(k) /\ dir'[k] \in {fd[r], None}
              /\ i <= next[r] => /\ name'[k] = NameOf(r, a) /\ LinkedOrTaken(k)'
                                 /\ dir'[k] # None => dir'[k] \in Dirs /\ name'[dir'[k]] = Final("reports")
          BY <1>2, <1>9, <2>3, <3>4, FileKept
        <4>3. next'[r] \in {next[r], next[r] + 1} /\ (pc'[r] = "open" => next'[r] = next[r] + 1)
          BY <1>7, <1>9
        <4>4. CASE next'[r] = next[r]
          BY <1>6, <3>1, <4>2, <4>3, <4>4
        <4>5. CASE next'[r] = next[r] + 1
          BY <1>6, <1>8, <1>9, <3>1, <4>1, <4>2, <4>5
        <4> QED
          BY <4>3, <4>4, <4>5
      <3>5. CASE ~Same(k)
        <4>1. i = next[r] + 1 /\ k = n /\ a = m
          BY <1>7, <3>2, <3>3, <3>5
        <4>2. dir'[k] = fd[r] /\ name'[k] = NameOf(r, a) /\ next'[r] = next[r] + 1
          BY <1>7, <1>9, <3>5, <4>1
        <4>3. LinkedOrTaken(k)'
          BY <1>8, <4>2 DEF LinkedOrTaken
        <4> QED
          BY <1>6, <1>8, <1>9, <4>1, <4>2, <4>3
      <3> QED
        BY <3>4, <3>5
    <2>4. next'[r] \in {next[r], next[r] + 1} /\ pc'[r] \in {"open", "done", "cleanup"}
          /\ next'[r] <= Len(Contents(r)) /\ (pc'[r] = "open" => next'[r] < Len(Contents(r)) /\ next'[r] = next[r] + 1)
          /\ exit'[r] \in {"none", "ok"} /\ (exit'[r] = "ok" <=> pc'[r] = "done")
          /\ (exit'[r] = "ok" <=> next'[r] = Len(Contents(r)))
      BY <1>6, <1>7, <1>9, <2>1
    <2>5. \A i \in DOMAIN Contents(r) : Contents(r)[i] \in Members /\ i \in Nat
      BY ContentsFacts
    <2>6. StepInv(r)'
      <3>1. \A i \in DOMAIN Contents(r) : pc'[r] = "open" /\ i > next'[r] => i > next[r] + 1
        BY <2>4
      <3> QED
        BY <1>1, <1>2, <1>3, <1>8, <1>9, <2>2, <2>4, <2>5, <3>1 DEF StepInv
    <2>7. SingleInv(r)'
      <3>1. \A i \in DOMAIN Contents(r) : i > next'[r] + 1 => i > next[r] + 1
        BY <1>6, <2>4, <2>5
      <3> QED
        BY <1>2, <1>3, <2>2, <2>3, <2>4, <2>5, <3>1 DEF SingleInv
    <2> QED
      BY <1>2, <1>9, <2>6, <2>7 DEF ReportPart
  <1>10. CASE layout[r] # "single"
    <2>1. BundleInv(r) /\ m = "bundle" /\ next'[r] = next[r] /\ next[r] = Len(Contents(r))
      BY <1>1, <1>2, <1>5, <1>7, <1>10 DEF ReportPart, BundleInv
    <2>2. \/ pc'[r] = "done" /\ exit'[r] = "ok" /\ dir'[n] = fd[r] /\ name'[n] = NameOf(r, "bundle")
          \/ pc'[r] = "cleanup" /\ exit'[r] = "none" /\ Same(n)
      BY <1>7, <1>10, <2>1
    <2>3. n = Artifact(r, "bundle") /\ \A a \in Members : Artifact(r, a) # n /\ Artifact(r, a) \in Nodes
      BY <2>1, ArtifactIsOne, ArtifactKinds DEF n, Members, Pieces
    <2>4. ASSUME NEW i \in DOMAIN Contents(r), NEW a \in Members, a = Contents(r)[i],
                 NEW k, k = Artifact(r, a)
          PROVE  /\ i > next[r] => Pristine(k)'
                 /\ i <= next[r] => name'[k] = NameOf(r, a) /\ dir'[k] \in {n, None}
                 /\ i <= next[r] => LinkedOrTaken(k)'
      <3>1. /\ i > next[r] => Pristine(k)
            /\ i <= next[r] => name[k] = NameOf(r, a) /\ dir[k] \in {n, None}
            /\ i <= next[r] => LinkedOrTaken(k)
        BY <1>2, <2>1, <2>3, <2>4 DEF BundleInv
      <3>2. Same(k)
        BY <1>7, <2>3, <2>4
      <3>3. /\ Pristine(k) => Pristine(k)'
            /\ LinkedOrTaken(k) => LinkedOrTaken(k)'
        BY <1>2, <3>2, SameKept
      <3> QED
        BY <3>1, <3>2, <3>3 DEF Same
    <2>5. ASSUME NEW a \in Members, \A i \in DOMAIN Contents(r) : Contents(r)[i] # a
          PROVE  Pristine(Artifact(r, a))'
      <3>1. Pristine(Artifact(r, a))
        BY <2>1, <2>5 DEF BundleInv
      <3> QED
        BY <1>2, <1>7, <2>3, <3>1, SameKept
    <2>6. \A i \in DOMAIN Contents(r) : Contents(r)[i] \in Members
      BY ContentsFacts
    <2>7. StepInv(r)'
      BY <1>1, <1>2, <1>3, <1>8, <2>1, <2>2 DEF StepInv
    <2>8. /\ exit'[r] = "ok" => name'[n] = NameOf(r, "bundle") /\ dir'[n] # None
          /\ pc'[r] = "cleanup" => name'[n] = Temp(n)
      BY <1>5, <1>8, <2>2 DEF Same
    <2>9. exit'[r] = "ok" => LinkedOrTaken(Artifact(r, "bundle"))'
      BY <2>3, <2>8 DEF LinkedOrTaken
    <2>10. layout[r] = "stdout" => printed[r]
      BY <1>2, <2>1 DEF BundleInv
    <2>11. BundleInv(r)'
      BY <1>2, <1>3, <2>1, <2>2, <2>3, <2>4, <2>5, <2>6, <2>8, <2>9, <2>10 DEF BundleInv
    <2> QED
      BY <1>2, <1>10, <2>7, <2>11 DEF ReportPart
  <1> QED
    BY <1>9, <1>10

\* Cleaning up behind a failure.
LEMMA CleanupSteps ==
  ASSUME IInv, [Next]_vars, NEW r \in Reports, Cleanup(r)
  PROVE  ReportPart(r)'
  <1>1. ReportPart(r) /\ TypeOK /\ StepInv(r)
    BY DEF IInv, ReportInv, ReportPart
  <1>2. /\ UNCHANGED <<layout, fd, next, printed, clean>> /\ exit[r] = "none" /\ pc[r] = "cleanup"
        /\ pc'[r] = "done" /\ exit'[r] = "failed"
    BY <1>1, StepTaken DEF Cleanup, StepInv, report
  <1>3. Contents(r)' = Contents(r) /\ \A a : NameOf(r, a)' = NameOf(r, a)
    BY <1>2, LayoutKept
  <1>4. PICK m \in Pieces : m = Piece(r)
    BY <1>2, PieceFacts
  <1>5. layout[r] = "single" => next[r] + 1 \in DOMAIN Contents(r) /\ m = Contents(r)[next[r] + 1]
    BY <1>2, <1>4, PieceFacts
  <1>6. \A n \in Nodes : /\ name'[n] = name[n]
                         /\ \/ Same(n)
                            \/ dir'[n] = None /\ (layout[r] = "single" => n = Artifact(r, m))
    BY <1>4, CleanupEffect
  <1>7. \A i \in DOMAIN Contents(r) : Contents(r)[i] \in Members /\ i \in Nat
    BY ContentsFacts
  <1>8. StepInv(r)'
    BY <1>1, <1>2, <1>3 DEF StepInv
  <1>9. next[r] \in Nat /\ Len(Contents(r)) \in Nat
    BY <1>1, NumberFacts
  <1>10. CASE layout[r] = "single"
    <2>1. SingleInv(r) /\ next[r] # Len(Contents(r))
      BY <1>1, <1>2, <1>10 DEF ReportPart, SingleInv
    <2>2. ASSUME NEW i \in DOMAIN Contents(r), NEW a \in Members, a = Contents(r)[i],
                 NEW n, n = Artifact(r, a)
          PROVE  /\ i > next[r] => name'[n] = Temp(n) /\ dir'[n] \in {fd[r], None}
                 /\ i > next[r] + 1 => Pristine(n)'
                 /\ i > next[r] + 1 => Pristine(<<r, "output", a>>)' /\ Pristine(<<r, "reports", a>>)'
                 /\ i <= next[r] => /\ name'[n] = NameOf(r, a) /\ LinkedOrTaken(n)'
                                    /\ dir'[n] # None => dir'[n] \in Dirs /\ name'[dir'[n]] = Final("reports")
      <3>1. n \in Nodes
        BY <2>2, ArtifactKinds DEF Members, Pieces
      <3>2. i # next[r] + 1 => Same(n)
        <4>1. i # next[r] + 1 => a # m
          BY <1>5, <1>10, <2>2, ContentsFacts
        <4> QED
          BY <1>6, <1>10, <2>2, <3>1, <4>1, ArtifactIsOne
      <3>3. i = next[r] + 1 => i > next[r] /\ ~(i > next[r] + 1) /\ ~(i <= next[r])
        BY <1>9
      <3>4. i > next[r] => name[n] = Temp(n) /\ dir[n] \in {fd[r], None}
        BY <2>1, <2>2 DEF SingleInv
      <3>5. i > next[r] => name'[n] = Temp(n) /\ dir'[n] \in {fd[r], None}
        BY <1>6, <3>1, <3>4 DEF Same
      <3>6. i > next[r] + 1 => Pristine(<<r, "output", a>>)' /\ Pristine(<<r, "reports", a>>)'
        <4>1. i > next[r] + 1 => Pristine(<<r, "output", a>>) /\ Pristine(<<r, "reports", a>>)
          BY <2>1, <2>2 DEF SingleInv
        <4>2. Same(<<r, "output", a>>) /\ Same(<<r, "reports", a>>)
          BY <1>6, <1>10, OwnFacts, ArtifactKinds, NodeFacts
        <4> QED
          BY <1>2, <4>1, <4>2, SameKept
      <3>7. i # next[r] + 1 => /\ i > next[r] + 1 => Pristine(n)'
                               /\ i <= next[r] => /\ name'[n] = NameOf(r, a) /\ LinkedOrTaken(n)'
                                                  /\ dir'[n] # None => dir'[n] \in Dirs /\ name'[dir'[n]] = Final("reports")
        BY <1>2, <1>10, <2>2, <3>2, FileKept
      <3> QED
        BY <3>3, <3>5, <3>6, <3>7
    <2>3. SingleInv(r)'
      BY <1>2, <1>3, <1>7, <2>1, <2>2 DEF SingleInv
    <2> QED
      BY <1>2, <1>8, <1>10, <2>3 DEF ReportPart
  <1>11. CASE layout[r] # "single"
    <2> DEFINE b == Artifact(r, "bundle")
    <2>1. BundleInv(r) /\ name[b] = Temp(b)
      BY <1>1, <1>2, <1>11 DEF ReportPart, BundleInv
    <2>2. b \in Nodes
      BY ArtifactKinds DEF Pieces
    <2>3. \A n \in Nodes : Pristine(n) => Pristine(n)'
      <3> SUFFICES ASSUME NEW n \in Nodes, Pristine(n) PROVE Pristine(n)'
        OBVIOUS
      <3>1. Same(n)
        BY <1>6 DEF Same, Pristine
      <3> QED
        BY <1>2, <3>1, SameKept
    <2>4. ASSUME NEW i \in DOMAIN Contents(r), NEW a \in Members, a = Contents(r)[i],
                 NEW n, n = Artifact(r, a)
          PROVE  /\ i > next[r] => Pristine(n)'
                 /\ i <= next[r] => name'[n] = NameOf(r, a) /\ dir'[n] \in {b, None}
      <3>1. n \in Nodes
        BY <2>4, ArtifactKinds DEF Members, Pieces
      <3>2. /\ i > next[r] => Pristine(n)
            /\ i <= next[r] => name[n] = NameOf(r, a) /\ dir[n] \in {b, None}
        BY <2>1, <2>4 DEF BundleInv
      <3> QED
        BY <1>6, <2>3, <3>1, <3>2 DEF Same
    <2>5. ASSUME NEW a \in Members, \A i \in DOMAIN Contents(r) : Contents(r)[i] # a
          PROVE  Pristine(Artifact(r, a))'
      <3>1. Pristine(Artifact(r, a)) /\ Artifact(r, a) \in Nodes
        BY <2>1, <2>5, ArtifactKinds DEF BundleInv, Members, Pieces
      <3> QED
        BY <2>3, <3>1
    <2>6. name'[b] = Temp(b)
      BY <1>6, <2>1, <2>2
    <2>7. BundleInv(r)'
      BY <1>2, <1>3, <1>7, <2>4, <2>5, <2>6 DEF BundleInv
    <2> QED
      BY <1>2, <1>8, <1>11, <2>7 DEF ReportPart
  <1> QED
    BY <1>10, <1>11

\* Every step keeps what is said of the reports.
LEMMA ReportsStep == IInv /\ [Next]_vars => ReportInv'
  <1> SUFFICES ASSUME IInv, [Next]_vars PROVE ReportInv'
    OBVIOUS
  <1>1. ASSUME NEW q \in Reports, ReportStep(q) PROVE ReportInv'
    <2>1. ReportPart(q)'
      BY <1>1, QuietSteps, OpenSteps, CreateSteps, MemberSteps, CommitSteps, CleanupSteps DEF ReportStep
    <2>2. \A r \in Reports \ {q} : ReportPart(r)'
      BY <1>1, OtherReports
    <2>3. \A r \in Reports : ReportPart(r)'
      BY <2>1, <2>2
    <2> QED
      BY <2>3 DEF ReportInv, ReportPart
  <1>2. ASSUME NEW c \in Cleans, CleanStep(c) PROVE ReportInv'
    BY <1>2, CleanReports
  <1>3. CASE Drop \/ UNCHANGED vars
    <2> SUFFICES ASSUME NEW r \in Reports PROVE ReportPart(r)'
      BY DEF ReportInv, ReportPart
    <2>1. UNCHANGED <<layout, pc, report, clean, exit>>
      BY <1>3 DEF Drop, vars
    <2>2. ~Owned(r, Mine)
      BY NodeAssumption DEF Owned, Artifact, Pieces
    <2>3. \A n \in Nodes : Owned(r, n) => Same(n)
      BY <1>3, <2>2, DropHasEffect DEF DropEffect, Same, vars, tree
    <2>4. Spared(r)
      BY <2>1, <2>3, SparedBySame
    <2> QED
      BY <2>1, <2>4, SparedPart DEF report
  <1> QED
    BY <1>1, <1>2, <1>3, StepsAre

-----------------------------------------------------------------------------
(* What a clean has examined. *)

\* CleanInv of one clean.
CleanPart(c) == SeenInv(c) /\ PlanInv(c) /\ AgendaInv(c) /\ OpenInv(c) /\ c \notin blind

\* What the others' steps may do to the nodes a clean has examined.
Undisturbed(c) ==
    \A x \in seen[c] :
        /\ name'[x.node] = name[x.node] \/ name[x.node] = Temp(x.node)
        /\ dir'[x.node] \in {dir[x.node], None}
        /\ dir[x.node] = Project => dir'[x.node] = Project
        /\ ~IsTemp(name[x.node]) /\ dir[x.node] \in Dirs /\ dir'[dir[x.node]] # None => dir'[x.node] = dir[x.node]

\* What a clean has examined is a node with a path.
LEMMA SeenTypes ==
  ASSUME TypeOK, NEW c \in Cleans
  PROVE  /\ \A x \in seen[c] : x \in Sight /\ x.path \in Paths /\ x.node \in Nodes
         /\ \A e \in plan[c] : e \in Planning /\ e.path \in Paths
         /\ \A a \in agenda[c] : a \in Due /\ a.path \in Paths /\ a.in \in Dirs \cup {Project}
  BY TypeParts, EntryFacts DEF CleanTypes

\* What is said of a clean stays true while the clean takes no step.
LEMMA CleanFrame ==
  ASSUME IInv, NEW c \in Cleans, CleanPart(c), Undisturbed(c),
         pc'[c] = pc[c], agenda'[c] = agenda[c], plan'[c] = plan[c], refused'[c] = refused[c],
         open'[c] = open[c], seen'[c] = seen[c], c \notin blind'
  PROVE  CleanPart(c)'
  <1>1. SeenInv(c)'
    BY DEF CleanPart, SeenInv, Undisturbed
  <1>2. PlanInv(c)'
    <2>1. ASSUME NEW e \in plan[c], NEW x \in seen[c], NEW d \in seen[c], x.path = e.path, d.path = Above(e.path),
                 ~IsTemp(LastOf(e.path)), dir'[d.node] # None
          PROVE  dir'[x.node] = d.node
      <3>1. dir[d.node] # None /\ dir'[d.node] = dir[d.node]
        BY <2>1 DEF Undisturbed
      <3>2. dir[x.node] = d.node
        BY <2>1, <3>1 DEF CleanPart, PlanInv
      <3>3. ~IsTemp(name[x.node])
        BY <2>1, NameFacts DEF CleanPart, SeenInv
      <3>4. d.node \in Dirs
        <4>1. x.node \in Nodes /\ d.node \in Nodes
          BY SeenTypes DEF IInv
        <4>2. dir[x.node] \in Dirs \cup {Project, None}
          BY <4>1, TypeParts DEF IInv, SharedTypes
        <4> QED
          BY <3>2, <4>1, <4>2, NodeFacts
      <3> QED
        BY <2>1, <3>2, <3>3, <3>4 DEF Undisturbed
    <2> QED
      BY <2>1 DEF CleanPart, PlanInv
  <1>3. AgendaInv(c)'
    BY DEF CleanPart, AgendaInv
  <1>4. OpenInv(c)'
    BY DEF CleanPart, OpenInv
  <1> QED
    BY <1>1, <1>2, <1>3, <1>4 DEF CleanPart

\* No step of a report disturbs it.
LEMMA ReportsDisturb ==
  ASSUME IInv, NEW r \in Reports, ReportStep(r), NEW c \in Cleans
  PROVE  Undisturbed(c)
  <1> SUFFICES ASSUME NEW x \in seen[c], NEW n \in Nodes, n = x.node
               PROVE  /\ name'[n] = name[n] \/ name[n] = Temp(n)
                      /\ dir'[n] \in {dir[n], None}
                      /\ dir[n] = Project => dir'[n] = Project
                      /\ ~IsTemp(name[n]) /\ dir[n] \in Dirs /\ dir'[dir[n]] # None => dir'[n] = dir[n]
    BY SeenTypes DEF Undisturbed, IInv
  <1>1. ~Pristine(n)
    BY DEF Pristine
  <1>2. Same(n) \/ Renamed(r, n) \/ Discarded(r, n)
    BY <1>1, ReportStepEffect DEF ReportEffect, Appears
  <1>3. dir[n] = Project => \A a \in Pieces : n # Artifact(r, a)
    BY ArtifactKinds DEF IInv, NameInv
  <1> QED
    BY <1>2, <1>3 DEF Same, Renamed, Discarded

\* Nor does another clean, as long as it removes nothing.
LEMMA StillDisturb ==
  ASSUME NEW c \in Cleans, \A n \in Nodes : Same(n) \/ \A x \in seen[c] : x.node # n, TypeOK
  PROVE  Undisturbed(c)
  BY SeenTypes DEF Undisturbed, Same

\* A clean that stays alone was alone.
LEMMA AloneBefore ==
  ASSUME IInv, [Next]_vars, NEW c \in Cleans, Alone(c)'
  PROVE  Alone(c)
  <1>1. \A d \in Cleans : took[d] \subseteq took'[d]
    <2>1. ASSUME NEW r \in Reports, ReportStep(r) PROVE took' = took
      BY <2>1, ReportStepEffect DEF clean
    <2>2. ASSUME NEW d \in Cleans, CleanStep(d) PROVE \A b \in Cleans : took[b] \subseteq took'[b]
      BY <2>2, CleanStepEffect DEF CleanEffect
    <2> QED
      BY <2>1, <2>2, StepsAre DEF Drop, vars, clean
  <1> QED
    BY <1>1 DEF Alone

\* What is said of a clean stays true when others step.
LEMMA OthersStep ==
  ASSUME IInv, NEW c \in Cleans, CleanPart(c), Alone(c)',
         \/ \E r \in Reports : ReportStep(r)
         \/ \E b \in Cleans \ {c} : CleanStep(b)
         \/ Drop
         \/ UNCHANGED vars
  PROVE  CleanPart(c)'
  <1>0. TypeOK /\ CleanTypes /\ SharedTypes
    BY TypeParts DEF IInv
  <1>1. ASSUME NEW r \in Reports, ReportStep(r) PROVE CleanPart(c)'
    <2>1. UNCHANGED clean
      BY <1>1, ReportStepEffect
    <2>2. pc'[c] = pc[c]
      BY <1>0, <1>1, NodeAssumption DEF ReportStep, Check, Emit, OpenParent, Create, Member, Listing, Commit, Cleanup,
                                        Goto, Leave, SharedTypes, Processes
    <2>3. Undisturbed(c)
      BY <1>1, ReportsDisturb
    <2> QED
      BY <2>1, <2>2, <2>3, CleanFrame DEF clean, locals, CleanPart
  <1>2. ASSUME NEW b \in Cleans \ {c}, CleanStep(b) PROVE CleanPart(c)'
    <2>1. CleanEffect(b)
      BY <1>2, CleanStepEffect
    <2>2. \A n \in Nodes : Same(n)
      BY <2>1 DEF CleanEffect, Alone
    <2>3. pc' = pc \/ (\E s : pc' = [pc EXCEPT ![b] = s])
      BY <1>2 DEF CleanStep, Look, Scan, Scanned, Enter, RemoveFile, RemoveDir, Goto, Leave, Quit
    <2>4. pc'[c] = pc[c]
      BY <1>0, <2>3 DEF SharedTypes, Processes
    <2>5. /\ agenda'[c] = agenda[c] /\ plan'[c] = plan[c] /\ refused'[c] = refused[c]
          /\ open'[c] = open[c] /\ seen'[c] = seen[c]
      <3>1. CASE Scan(b)
        BY <1>0, <1>2, <3>1, ScanSteps DEF Examines, Refuses, CleanTypes
      <3> QED
        BY <1>0, <1>2, <3>1 DEF CleanStep, Look, Scanned, Enter, RemoveFile, RemoveDir, Quit, locals, CleanTypes
    <2>6. blind' \subseteq blind \cup {b}
      BY <1>2 DEF CleanStep, Look, Scan, Scanned, Enter, RemoveFile, RemoveDir, Take
    <2>7. c \notin blind'
      BY <1>2, <2>6 DEF CleanPart
    <2> QED
      BY <1>0, <2>2, <2>4, <2>5, <2>7, StillDisturb, CleanFrame
  <1>3. CASE Drop \/ UNCHANGED vars
    <2>1. UNCHANGED <<pc, clean>>
      BY <1>3 DEF Drop, vars
    <2>2. \A n \in Nodes : n # Mine => Same(n)
      BY <1>3, DropHasEffect DEF DropEffect, Same, vars, tree
    <2>3. \A x \in seen[c] : x.node # Mine
      BY DEF IInv, MineInv
    <2>4. Undisturbed(c)
      BY <1>0, <2>2, <2>3, StillDisturb
    <2> QED
      BY <2>1, <2>4, CleanFrame DEF clean, locals, CleanPart
  <1> QED
    BY <1>1, <1>2, <1>3

\* A clean that returns has forgotten what it examined.
LEMMA QuitPart ==
  ASSUME TypeOK, NEW c \in Cleans, NEW s, Quit(c, s), c \notin blind'
  PROVE  CleanPart(c)'
  <1>1. /\ agenda'[c] = {} /\ plan'[c] = {} /\ open'[c] = <<>> /\ seen'[c] = {} /\ pc'[c] = "done"
    BY TypeParts DEF Quit, Leave, Goto, CleanTypes, SharedTypes, Processes
  <1>2. DOMAIN open'[c] = {}
    BY <1>1
  <1> QED
    BY <1>1, <1>2 DEF CleanPart, SeenInv, PlanInv, AgendaInv, OpenInv

\* A node that is found again under the path of the plan is the one examined:
\* its directory is the same, and names are not used twice.
LEMMA FoundAgain ==
  ASSUME IInv, NEW c \in Cleans, SeenInv(c), PlanInv(c), NEW e \in plan[c],
         NEW x \in seen[c], x.path = e.path, NEW d \in seen[c], d.path = Above(e.path),
         NEW n \in Nodes, dir[n] = d.node, name[n] = LastOf(e.path)
  PROVE  n = x.node
  <1>1. x.node \in Nodes /\ d.node \in Nodes
    BY SeenTypes DEF IInv
  <1>2. LastOf(e.path) \in {name[x.node], Temp(x.node)}
    BY DEF SeenInv
  <1>3. CASE IsTemp(name[n])
    <2>1. name[n] = Temp(n) /\ IsTemp(name[x.node]) => name[x.node] = Temp(x.node)
      BY <1>1, <1>3 DEF IInv, NameInv
    <2>2. name[n] = Temp(n)
      BY <1>3 DEF IInv, NameInv
    <2>3. name[n] = Temp(x.node)
      BY <1>1, <1>2, <1>3, <2>1, <2>2
    <2> QED
      BY <2>2, <2>3, NameFacts
  <1>4. CASE ~IsTemp(name[n])
    <2>1. name[n] = name[x.node]
      BY <1>2, <1>4, NameFacts
    <2>2. dir[n] \notin {None, Project} /\ dir[dir[n]] # None
      BY <1>1, NodeFacts DEF IInv, PlaceInv
    <2>3. dir[x.node] = d.node
      BY <1>4, <2>2 DEF PlanInv
    <2> QED
      BY <1>1, <2>1, <2>2, <2>3 DEF IInv, TypeOK
  <1> QED
    BY <1>3, <1>4

\* The output directory that is found again is the one examined.
LEMMA RootAgain ==
  ASSUME IInv, NEW c \in Cleans, SeenInv(c), NEW x \in seen[c], x.path = Root,
         NEW n \in Nodes, dir[n] = Project, name[n] = Final("output")
  PROVE  n = x.node
  <1>1. x.node \in Nodes /\ dir[x.node] = Project /\ name[x.node] = Final("output")
    BY SeenTypes, EntryFacts, NameFacts DEF SeenInv, IInv
  <1> QED
    BY <1>1, NodeFacts DEF IInv, TypeOK

\* Beginning a scan, or ending it.
LEMMA LookPart ==
  ASSUME IInv, NEW c \in Cleans, CleanPart(c), Look(c) \/ Scanned(c)
  PROVE  CleanPart(c)'
  <1>0. TypeOK /\ CleanTypes /\ SharedTypes /\ c \in Processes
    BY TypeParts DEF IInv, Processes
  <1>1. UNCHANGED <<tree, blind>>
    BY DEF Look, Scanned
  <1>2. c \notin blind'
    BY <1>1 DEF CleanPart
  <1>3. ASSUME NEW s, Quit(c, s) PROVE CleanPart(c)'
    BY <1>0, <1>2, <1>3, QuitPart
  <1>4. CASE /\ pc[c] = "look" /\ agenda' = [agenda EXCEPT ![c] = {[path |-> Root, in |-> Project]}]
             /\ Goto(c, "scan") /\ UNCHANGED <<exit, plan, refused, open, seen>>
    <2>1. seen[c] = {} /\ plan[c] = {} /\ open[c] = <<>>
      BY <1>4 DEF CleanPart, AgendaInv
    <2>2. /\ agenda'[c] = {[path |-> Root, in |-> Project]} /\ pc'[c] = "scan"
          /\ seen'[c] = {} /\ plan'[c] = {} /\ open'[c] = <<>>
      BY <1>0, <1>4, <2>1 DEF Goto, CleanTypes, SharedTypes
    <2>3. DOMAIN open'[c] = {}
      BY <2>2
    <2> QED
      BY <1>2, <2>2, <2>3 DEF CleanPart, SeenInv, PlanInv, AgendaInv, OpenInv
  <1>5. CASE /\ pc[c] = "scan" /\ agenda[c] = {} /\ ~refused[c]
             /\ Goto(c, "remove") /\ UNCHANGED <<exit, locals>>
    <2>1. pc'[c] = "remove" /\ UNCHANGED <<tree, locals>>
      BY <1>0, <1>1, <1>5 DEF Goto, SharedTypes
    <2>2. SeenInv(c)' /\ PlanInv(c)' /\ OpenInv(c)'
      BY <2>1 DEF CleanPart, SeenInv, PlanInv, OpenInv, locals, tree
    <2>3. AgendaInv(c)'
      BY <1>5, <2>1 DEF CleanPart, AgendaInv, locals
    <2> QED
      BY <1>2, <2>2, <2>3 DEF CleanPart
  <1> QED
    BY <1>3, <1>4, <1>5 DEF Look, Scanned

\* SeenInv of a set of nodes with their paths.
SightsFit(s) ==
    /\ \A x, y \in s : x.path = y.path <=> x.node = y.node
    /\ \A x \in s :
          /\ x.path # <<>> /\ LastOf(x.path) \in {name[x.node], Temp(x.node)}
          /\ Len(x.path) = 1 => x.path = Root /\ dir[x.node] = Project /\ x.node \in Dirs
          /\ Len(x.path) # 1 => \E d \in s : /\ d.path = Above(x.path) /\ d.node \in Dirs
                                             /\ dir[x.node] \in {d.node, None}

\* Nothing that was examined is in a directory, neither by path nor on disk.
Unvisited(s, p, d) ==
    /\ \A x \in s : Above(x.path) # p
    /\ \A x \in s, n \in Nodes : dir[n] = d => x.node # n

\* Nodes of a directory by their paths, and that they are new.
Below(s, p, ns) == \A x \in s : x.node \in ns /\ x.path = Append(p, name[x.node])
Apart(s, more, p) ==
    /\ \A x \in s, y \in more : x.path # y.path /\ Above(x.path) # y.path
    /\ \A y \in more : y \notin s /\ y.path # <<>> /\ Len(y.path) > 1 /\ Above(y.path) = p
    /\ \A x, y \in more : Above(x.path) # y.path

\* A directory of the agenda that is opened is one that was examined, unless it
\* is the output directory itself; nothing that is in it was examined before.
LEMMA ScanSight ==
  ASSUME IInv, NEW c \in Cleans, CleanPart(c), NEW a \in agenda[c],
         NEW d \in Dirs, dir[d] = a.in, name[d] = LastOf(a.path),
         NEW new, new = [path |-> a.path, node |-> d],
         NEW old, old = seen[c] \cup {new}
  PROVE  /\ SightsFit(old) /\ old \subseteq Sight /\ a.path # <<>>
         /\ Unvisited(old, a.path, d)
         /\ \/ a.path = Root /\ (\A b \in agenda[c] : b = a) /\ \A e \in plan[c] : FALSE
            \/ new \in seen[c] /\ \A b \in agenda[c] : Len(b.path) > 1
  <1>1. TypeOK /\ SeenInv(c) /\ PlanInv(c) /\ AgendaInv(c)
    BY DEF IInv, CleanPart
  <1>2. a \in Due /\ a.path \in Paths /\ d \in Nodes /\ new \in Sight /\ new.path = a.path /\ new.node = d
    BY <1>1, SeenTypes, EntryFacts, NodeFacts
  <1>3. seen[c] \subseteq Sight
    BY <1>1, SeenTypes
  <1>4. CASE /\ a.path = Root /\ a.in = Project /\ seen[c] = {} /\ plan[c] = {} /\ agenda[c] = {a}
    <2>1. old = {new} /\ Root # <<>> /\ Len(Root) = 1
      BY <1>4, EntryFacts
    <2>2. Above(Root) # Root
      BY EntryFacts, AboveFacts
    <2>3. SightsFit(old)
      BY <1>2, <1>4, <2>1 DEF SightsFit
    <2>4. \A n \in Nodes : dir[n] = d => d # n
      BY <1>2, <1>4, NodeFacts
    <2> QED
      BY <1>2, <1>4, <2>1, <2>2, <2>3, <2>4 DEF Unvisited
  <1>5. CASE /\ Len(a.path) > 1 /\ [path |-> a.path, isDir |-> TRUE] \in plan[c]
             /\ [path |-> Above(a.path), node |-> a.in] \in seen[c]
             /\ \A x \in seen[c] : Above(x.path) # a.path
    <2> DEFINE e == [path |-> a.path, isDir |-> TRUE]
               u == [path |-> Above(a.path), node |-> a.in]
    <2>1. PICK x \in seen[c] : x.path = a.path
      BY <1>1, <1>5 DEF PlanInv
    <2>2. e \in plan[c] /\ e.path = a.path /\ u \in seen[c] /\ u.path = Above(a.path) /\ u.node = a.in
      BY <1>5
    <2> HIDE DEF e, u
    <2>3. d = x.node
      BY <1>1, <1>2, <2>1, <2>2, FoundAgain
    <2>4. x = new /\ old = seen[c]
      BY <1>2, <1>3, <2>1, <2>3, EntryFacts
    <2>5. SightsFit(old)
      BY <1>1, <2>4 DEF SightsFit, SeenInv
    <2>6. ASSUME NEW y \in old, NEW n \in Nodes, dir[n] = d, y.node = n PROVE FALSE
      <3>1. y \in seen[c] /\ y.path \in Paths
        BY <1>1, <2>4, <2>6, SeenTypes
      <3>2. Len(y.path) # 1
        BY <1>1, <1>2, <2>6, <3>1, NodeFacts DEF SeenInv
      <3>3. PICK z \in seen[c] : /\ z.path = Above(y.path) /\ z.node \in Dirs
                                 /\ dir[y.node] \in {z.node, None}
        BY <1>1, <3>1, <3>2 DEF SeenInv
      <3>4. z.node = d
        BY <1>2, <2>6, <3>3, NodeFacts
      <3>5. z.path = a.path
        BY <1>1, <2>1, <2>3, <3>4 DEF SeenInv
      <3> QED
        BY <1>5, <3>1, <3>3, <3>5
    <2>7. \A b \in agenda[c] : Len(b.path) > 1
      <3> SUFFICES ASSUME NEW b \in agenda[c], ~(Len(b.path) > 1) PROVE FALSE
        OBVIOUS
      <3>1. agenda[c] = {b}
        BY <1>1 DEF AgendaInv
      <3> QED
        BY <1>5, <3>1
    <2>8. a.path # <<>>
      BY <1>1, <2>1 DEF SeenInv
    <2> QED
      BY <1>3, <1>5, <2>4, <2>5, <2>6, <2>7, <2>8 DEF Unvisited
  <1> QED
    BY <1>1, <1>4, <1>5 DEF AgendaInv

\* What a scan adds fits what was examined before.
LEMMA ScanFits ==
  ASSUME IInv, NEW d \in Dirs, NEW p \in Paths, p # <<>>,
         NEW new \in Sight, new.path = p, new.node = d,
         NEW old \in SUBSET Sight, new \in old, SightsFit(old), Unvisited(old, p, d),
         NEW known \in SUBSET Nodes, \A n \in known : dir[n] = d,
         NEW more \in SUBSET Sight, Below(more, p, known)
  PROVE  SightsFit(old \cup more) /\ Apart(old, more, p)
  <1>1. \A x \in old \cup more : x.path \in Paths /\ x.node \in Nodes
    BY EntryFacts
  <1>2. Len(p) \in Nat \ {0}
    BY AboveFacts
  <1>3. \A y \in more : /\ y.path # <<>> /\ Len(y.path) = Len(p) + 1 /\ Above(y.path) = p
                        /\ LastOf(y.path) = name[y.node] /\ dir[y.node] = d /\ y.node \in known
    <2> SUFFICES ASSUME NEW y \in more
                 PROVE  /\ y.path # <<>> /\ Len(y.path) = Len(p) + 1 /\ Above(y.path) = p
                        /\ LastOf(y.path) = name[y.node] /\ dir[y.node] = d /\ y.node \in known
      OBVIOUS
    <2>1. y.node \in known /\ y.path = Append(p, name[y.node]) /\ dir[y.node] = d
      BY DEF Below
    <2>2. name[y.node] \in Names
      BY <2>1, TypeParts DEF IInv, SharedTypes
    <2> QED
      BY <2>1, <2>2, PathFacts
  <1>4. \A y \in more : Len(y.path) > 1 /\ Len(y.path) # 1 /\ y.path # p
    <2> SUFFICES ASSUME NEW y \in more PROVE Len(y.path) > 1 /\ Len(y.path) # 1 /\ y.path # p
      OBVIOUS
    <2>1. Len(y.path) = Len(p) + 1
      BY <1>3
    <2> QED
      BY <1>2, <2>1
  <1>5. \A x \in old, y \in more : x.path # y.path /\ x.node # y.node
    BY <1>1, <1>3 DEF Unvisited
  <1>6. \A x, y \in more : x.path = y.path <=> x.node = y.node
    <2> SUFFICES ASSUME NEW x \in more, NEW y \in more PROVE x.path = y.path <=> x.node = y.node
      OBVIOUS
    <2>1. x.node = y.node => x.path = y.path
      BY DEF Below
    <2>2. x.path = y.path => name[x.node] = name[y.node] /\ dir[x.node] = dir[y.node] /\ dir[x.node] # None
      BY <1>3, NodeFacts
    <2> QED
      BY <1>1, <2>1, <2>2 DEF IInv, TypeOK
  <1>7. \A x, y \in old \cup more : x.path = y.path <=> x.node = y.node
    BY <1>5, <1>6 DEF SightsFit
  <1>8. \A x \in old \cup more :
          /\ x.path # <<>> /\ LastOf(x.path) \in {name[x.node], Temp(x.node)}
          /\ Len(x.path) = 1 => x.path = Root /\ dir[x.node] = Project /\ x.node \in Dirs
          /\ Len(x.path) # 1 => \E z \in old \cup more : /\ z.path = Above(x.path) /\ z.node \in Dirs
                                                         /\ dir[x.node] \in {z.node, None}
    <2>1. ASSUME NEW x \in old PROVE
            /\ x.path # <<>> /\ LastOf(x.path) \in {name[x.node], Temp(x.node)}
            /\ Len(x.path) = 1 => x.path = Root /\ dir[x.node] = Project /\ x.node \in Dirs
            /\ Len(x.path) # 1 => \E z \in old \cup more : /\ z.path = Above(x.path) /\ z.node \in Dirs
                                                           /\ dir[x.node] \in {z.node, None}
      BY DEF SightsFit
    <2>2. new.path = p /\ new.node = d /\ new \in old \cup more
      OBVIOUS
    <2>3. ASSUME NEW x \in more PROVE
            /\ x.path # <<>> /\ LastOf(x.path) = name[x.node] /\ Len(x.path) # 1
            /\ new.path = Above(x.path) /\ new.node \in Dirs /\ dir[x.node] = new.node
      <3>1. x.path # <<>> /\ LastOf(x.path) = name[x.node] /\ Above(x.path) = p /\ dir[x.node] = d
        BY <1>3
      <3>2. Len(x.path) # 1
        BY <1>4
      <3> QED
        BY <2>2, <3>1, <3>2
    <2> QED
      BY <2>1, <2>2, <2>3
  <1>9. SightsFit(old \cup more)
    BY <1>7, <1>8 DEF SightsFit
  <1>10. ASSUME NEW x \in old, NEW y \in more, Above(x.path) = y.path PROVE FALSE
    <2>1. CASE Len(x.path) = 1
      <3>1. x.path # <<>> /\ x.path \in Paths
        BY <1>1 DEF SightsFit
      <3>2. Len(Above(x.path)) = Len(x.path) - 1
        BY <3>1, AboveFacts
      <3>3. Len(y.path) = 1 - 1
        BY <1>10, <2>1, <3>2
      <3> QED
        BY <1>4, <3>3
    <2>2. CASE Len(x.path) # 1
      <3>1. PICK z \in old : z.path = Above(x.path)
        BY <2>2 DEF SightsFit
      <3> QED
        BY <1>5, <1>10, <3>1
    <2> QED
      BY <2>1, <2>2
  <1>11. \A x, y \in more : Above(x.path) # y.path
    BY <1>3, <1>4
  <1>12. \A y \in more : y \notin old
    BY <1>5
  <1> QED
    BY <1>3, <1>4, <1>5, <1>9, <1>10, <1>11, <1>12 DEF Apart

\* A scan keeps what is said of the clean.
LEMMA ScanPart ==
  ASSUME IInv, NEW c \in Cleans, CleanPart(c), Scan(c)
  PROVE  CleanPart(c)'
  <1>0. TypeOK /\ CleanTypes /\ SharedTypes /\ SeenInv(c) /\ PlanInv(c) /\ AgendaInv(c) /\ OpenInv(c)
    BY TypeParts DEF IInv, CleanPart
  <1>1. PICK a \in agenda[c] : (\E d : Examines(c, a, d)) \/ Refuses(c, a)
    BY ScanSteps
  <1>2. pc[c] = "scan" /\ UNCHANGED <<tree, pc, open, blind>>
    BY ScanSteps
  <1>3. CASE Refuses(c, a)
    <2>1. seen' = seen /\ plan' = plan /\ agenda'[c] = agenda[c] \ {a} /\ refused'[c] = TRUE
      BY <1>0, <1>3 DEF Refuses, CleanTypes
    <2>2. SeenInv(c)' /\ PlanInv(c)' /\ OpenInv(c)'
      BY <1>0, <1>2, <2>1 DEF SeenInv, PlanInv, OpenInv, tree
    <2>3. AgendaInv(c)'
      BY <1>0, <1>2, <2>1 DEF AgendaInv
    <2> QED
      BY <1>2, <2>2, <2>3 DEF CleanPart
  <1>4. ASSUME NEW d, Examines(c, a, d) PROVE CleanPart(c)'
    <2> DEFINE p == a.path
    <2>1. a \in Due /\ p \in Paths /\ a.in \in Dirs \cup {Project}
      BY <1>0, SeenTypes
    <2>2. d \in Dirs /\ d \in Nodes /\ dir[d] = a.in /\ name[d] = LastOf(p)
      BY <1>4, NodeFacts DEF Examines, Child, Entries
    <2>3. PICK known \in SUBSET Nodes :
             /\ \A n \in known : dir[n] = d
             /\ plan' = [plan EXCEPT ![c] = @ \cup NewPlan(p, known)]
             /\ agenda' = [agenda EXCEPT ![c] = (@ \ {a}) \cup NewDue(p, d, known)]
             /\ seen' = [seen EXCEPT ![c] = @ \cup NewSeen(p, d, known)]
             /\ refused[c] => refused'[c]
      <3> DEFINE k == {n \in Entries(d) : Known(p, n)}
      <3>1. /\ plan' = [plan EXCEPT ![c] = @ \cup NewPlan(p, k)]
            /\ agenda' = [agenda EXCEPT ![c] = (@ \ {a}) \cup NewDue(p, d, k)]
            /\ seen' = [seen EXCEPT ![c] = @ \cup NewSeen(p, d, k)]
            /\ refused' = [refused EXCEPT ![c] = @ \/ k # Entries(d)]
        BY <1>4, Zenon DEF Examines
      <3>2. k \in SUBSET Nodes /\ \A n \in k : dir[n] = d
        BY DEF Entries
      <3> HIDE DEF k
      <3>3. refused[c] => refused'[c]
        BY <1>0, <3>1 DEF CleanTypes
      <3> QED
        BY <3>1, <3>2, <3>3
    <2>4. PICK new \in Sight : new = [path |-> p, node |-> d]
      BY <2>1, <2>2, EntryFacts
    <2>5. PICK old \in SUBSET Sight : old = seen[c] \cup {new}
      BY <1>0, SeenTypes
    <2>6. /\ SightsFit(old) /\ p # <<>>
          /\ Unvisited(old, p, d)
          /\ \/ p = Root /\ (\A b \in agenda[c] : b = a) /\ \A e \in plan[c] : FALSE
             \/ new \in seen[c] /\ \A b \in agenda[c] : Len(b.path) > 1
      BY <2>2, <2>4, <2>5, ScanSight
    <2>7. PICK more \in SUBSET Sight : more = {[path |-> Append(p, name[n]), node |-> n] : n \in known}
      <3>1. \A n \in known : [path |-> Append(p, name[n]), node |-> n] \in Sight
        <4> SUFFICES ASSUME NEW n \in known PROVE [path |-> Append(p, name[n]), node |-> n] \in Sight
          OBVIOUS
        <4>1. Append(p, name[n]) \in Paths /\ n \in Nodes
          BY <1>0, <2>1, PathFacts DEF SharedTypes
        <4> QED
          BY <4>1, EntryFacts, Zenon
      <3> QED
        BY <3>1
    <2>8. NewSeen(p, d, known) = {new} \cup more
      BY <2>4, <2>7, Zenon DEF NewSeen
    <2>9. /\ \A x \in more : x.node \in known /\ x.path = Append(p, name[x.node])
          /\ \A n \in known : \E x \in more : x.node = n /\ x.path = Append(p, name[n])
      <3>1. ASSUME NEW x \in more PROVE x.node \in known /\ x.path = Append(p, name[x.node])
        <4>1. PICK n \in known : x = [path |-> Append(p, name[n]), node |-> n]
          BY <2>7, <3>1, Zenon
        <4>2. x.path = Append(p, name[n]) /\ x.node = n
          BY <4>1
        <4> QED
          BY <4>1, <4>2
      <3>2. ASSUME NEW n \in known PROVE \E x \in more : x.node = n /\ x.path = Append(p, name[n])
        <4>1. [path |-> Append(p, name[n]), node |-> n] \in more
          BY <2>7, Zenon
        <4> QED
          BY <4>1
      <3> QED
        BY <3>1, <3>2
    <2>10. seen'[c] = old \cup more
      BY <1>0, <2>3, <2>5, <2>8 DEF CleanTypes
    <2>11. plan'[c] = plan[c] \cup NewPlan(p, known)
      BY <1>0, <2>3 DEF CleanTypes
    <2>12. agenda'[c] = (agenda[c] \ {a}) \cup NewDue(p, d, known)
      BY <1>0, <2>3 DEF CleanTypes
    <2>13. new \in old /\ new.path = p /\ new.node = d
      BY <2>4, <2>5
    <2>14. /\ SightsFit(old \cup more)
           /\ \A x \in old, y \in more : x.path # y.path /\ Above(x.path) # y.path
           /\ \A y \in more : y \notin old /\ y.path # <<>> /\ Len(y.path) > 1 /\ Above(y.path) = p
           /\ \A x, y \in more : Above(x.path) # y.path
      <3>1. Below(more, p, known)
        BY <2>9 DEF Below
      <3>2. SightsFit(old \cup more) /\ Apart(old, more, p)
        BY <2>1, <2>2, <2>3, <2>4, <2>5, <2>6, <2>7, <2>13, <3>1, ScanFits
      <3> QED
        BY <3>2 DEF Apart
    <2>15. \A e \in NewPlan(p, known) :
              \E n \in known : e.path = Append(p, name[n]) /\ (e.isDir <=> n \in Dirs)
      <3> SUFFICES ASSUME NEW n \in known
                   PROVE  LET e == [path |-> Append(p, name[n]), isDir |-> n \in Dirs] IN
                          e.path = Append(p, name[n]) /\ (e.isDir <=> n \in Dirs)
        BY Zenon DEF NewPlan
      <3> QED
        OBVIOUS
    <2>16. \A n \in known \cap Dirs : [path |-> Append(p, name[n]), isDir |-> TRUE] \in NewPlan(p, known)
      <3> SUFFICES ASSUME NEW n \in known, n \in Dirs
                   PROVE  [path |-> Append(p, name[n]), isDir |-> TRUE] \in NewPlan(p, known)
        OBVIOUS
      <3>1. [path |-> Append(p, name[n]), isDir |-> n \in Dirs] \in NewPlan(p, known)
        BY Zenon DEF NewPlan
      <3>2. (n \in Dirs) = TRUE
        OBVIOUS
      <3> QED
        BY <3>1, <3>2, Zenon
    <2>17. \A b \in NewDue(p, d, known) : \E n \in known \cap Dirs : b.path = Append(p, name[n]) /\ b.in = d
      BY DEF NewDue
    <2> HIDE DEF p
    <2>18. SeenInv(c)'
      BY <1>2, <2>10, <2>14 DEF SightsFit, SeenInv, tree
    <2>19. PlanInv(c)'
      <3>1. ASSUME NEW e \in plan[c]
            PROVE  /\ Len(e.path) > 1
                   /\ \E x \in old \cup more : x.path = e.path /\ (e.isDir <=> x.node \in Dirs)
                   /\ \A x, z \in old \cup more : /\ x.path = e.path /\ z.path = Above(e.path)
                                                  /\ ~IsTemp(LastOf(e.path)) /\ dir[z.node] # None
                                                  => dir[x.node] = z.node
        <4>1. old = seen[c]
          BY <2>5, <2>6, <3>1
        <4>2. PICK y \in old : y.path = e.path /\ (e.isDir <=> y.node \in Dirs)
          BY <1>0, <3>1, <4>1 DEF PlanInv
        <4>3. Len(e.path) > 1
          BY <1>0, <3>1 DEF PlanInv
        <4>4. \A x \in more : x.path # e.path
          BY <2>14, <4>2
        <4>5. \A x \in more : x.path # Above(e.path)
          BY <2>14, <4>2
        <4> QED
          BY <1>0, <4>1, <4>2, <4>3, <4>4, <4>5 DEF PlanInv
      <3>2. ASSUME NEW e \in NewPlan(p, known)
            PROVE  /\ Len(e.path) > 1
                   /\ \E x \in old \cup more : x.path = e.path /\ (e.isDir <=> x.node \in Dirs)
                   /\ \A x, z \in old \cup more : /\ x.path = e.path /\ z.path = Above(e.path)
                                                  => dir[x.node] = z.node
        <4>1. PICK n \in known : e.path = Append(p, name[n]) /\ (e.isDir <=> n \in Dirs)
          BY <2>15, <3>2
        <4>2. PICK y \in more : y.node = n /\ y.path = e.path
          BY <2>9, <4>1
        <4>3. Len(e.path) > 1 /\ Above(e.path) = p
          BY <2>14, <4>2
        <4>4. \A x \in old \cup more : x.path = e.path => x.node = n
          BY <2>14, <4>2 DEF SightsFit
        <4>5. \A z \in old \cup more : z.path = p => z.node = d
          BY <2>13, <2>14 DEF SightsFit
        <4> QED
          BY <2>3, <4>1, <4>2, <4>3, <4>4, <4>5
      <3>3. \A e \in plan'[c] : e \in plan[c] \/ e \in NewPlan(p, known)
        BY <2>11
      <3>4. dir' = dir
        BY <1>2 DEF tree
      <3> QED
        BY <2>10, <3>1, <3>2, <3>3, <3>4 DEF PlanInv
    <2>20. AgendaInv(c)'
      <3>1. ASSUME NEW b \in agenda[c], b # a
            PROVE  /\ Len(b.path) > 1 /\ [path |-> b.path, isDir |-> TRUE] \in plan'[c]
                   /\ [path |-> Above(b.path), node |-> b.in] \in seen'[c]
                   /\ \A x \in old \cup more : Above(x.path) # b.path
        <4>1. old = seen[c]
          BY <2>5, <2>6, <3>1
        <4>2. /\ Len(b.path) > 1 /\ [path |-> b.path, isDir |-> TRUE] \in plan[c]
              /\ [path |-> Above(b.path), node |-> b.in] \in seen[c]
              /\ \A x \in seen[c] : Above(x.path) # b.path
          BY <1>0, <3>1 DEF AgendaInv
        <4>3. [path |-> Above(a.path), node |-> a.in] \in seen[c]
          BY <1>0, <3>1 DEF AgendaInv
        <4>4. b.path = p => b.in = a.in
          <5>1. b.path = p => Above(b.path) = Above(a.path)
            BY DEF p
          <5>2. \A x, y \in seen[c] : x.path = y.path => x.node = y.node
            BY <1>0 DEF SeenInv
          <5> QED
            BY <4>2, <4>3, <5>1, <5>2
        <4>5. b.path # p
          BY <1>0, <2>1, <3>1, <4>4, SeenTypes, EntryFacts DEF p
        <4> QED
          BY <2>10, <2>11, <2>14, <4>1, <4>2, <4>5
      <3>2. ASSUME NEW b \in NewDue(p, d, known)
            PROVE  /\ Len(b.path) > 1 /\ [path |-> b.path, isDir |-> TRUE] \in plan'[c]
                   /\ [path |-> Above(b.path), node |-> b.in] \in seen'[c]
                   /\ \A x \in old \cup more : Above(x.path) # b.path
        <4>1. PICK n \in known \cap Dirs : b.path = Append(p, name[n]) /\ b.in = d
          BY <2>17, <3>2
        <4>2. PICK y \in more : y.node = n /\ y.path = b.path
          BY <2>9, <4>1
        <4>3. Len(b.path) > 1 /\ Above(b.path) = p
          BY <2>14, <4>2
        <4>4. [path |-> b.path, isDir |-> TRUE] \in plan'[c]
          BY <2>11, <2>16, <4>1
        <4>5. [path |-> Above(b.path), node |-> b.in] \in seen'[c]
          BY <2>4, <2>10, <2>13, <4>1, <4>3
        <4>6. \A x \in old \cup more : Above(x.path) # b.path
          BY <2>14, <4>2
        <4> QED
          BY <4>3, <4>4, <4>5, <4>6
      <3>3. \A b \in agenda'[c] : (b \in agenda[c] /\ b # a) \/ b \in NewDue(p, d, known)
        BY <2>12
      <3>4. \/ refused'[c] \/ [path |-> Root, in |-> Project] \in agenda'[c]
            \/ \E x \in seen'[c] : x.path = Root
        <4>1. CASE p = Root
          BY <2>10, <2>13, <4>1
        <4>2. CASE new \in seen[c] /\ \A b \in agenda[c] : Len(b.path) > 1
          <5>1. [path |-> Root, in |-> Project] \notin agenda[c]
            <6>1. [path |-> Root, in |-> Project].path = Root /\ ~(Len(Root) > 1)
              BY EntryFacts
            <6> QED
              BY <4>2, <6>1, Zenon
          <5> QED
            BY <1>0, <1>2, <2>3, <2>5, <2>10, <5>1 DEF AgendaInv
        <4> QED
          BY <2>6, <4>1, <4>2
      <3>5. pc'[c] = "scan"
        BY <1>2
      <3> QED
        BY <2>10, <3>1, <3>2, <3>3, <3>4, <3>5 DEF AgendaInv
    <2>21. OpenInv(c)'
      BY <1>0, <1>2, <2>5, <2>10, <2>11 DEF OpenInv
    <2> QED
      BY <1>2, <2>18, <2>19, <2>20, <2>21 DEF CleanPart
  <1> QED
    BY <1>1, <1>3, <1>4

\* The directory a clean is inside of, and the one that is in.
LEMMA InsideFacts ==
  ASSUME TypeOK, NEW c \in Cleans, CleanPart(c), open[c] # <<>>
  PROVE  /\ Top(c) \in seen[c] /\ Top(c).path \in Paths /\ Len(Top(c).path) = Len(open[c])
         /\ Len(open[c]) \in Nat \ {0} /\ DOMAIN open[c] = 1 .. Len(open[c])
         /\ Outer(c) \in Seq(Inside) /\ Len(Outer(c)) = Len(open[c]) - 1
         /\ \A i \in DOMAIN Outer(c) : i \in DOMAIN open[c] /\ i < Len(open[c]) /\ Outer(c)[i] = open[c][i]
  <1>1. open[c] \in Seq(Inside) /\ Len(open[c]) \in Nat \ {0}
    BY TopFacts, TypeParts DEF CleanTypes
  <1>2. Top(c) \in seen[c] /\ Len(Top(c).path) = Len(open[c])
    BY TopFacts DEF CleanPart, OpenInv
  <1>3. \A i \in 1 .. Len(open[c]) - 1 : open[c][i] \in Inside
    BY <1>1, ElementOfSeq
  <1>4. /\ Outer(c) \in Seq(Inside)
        /\ Len(Outer(c)) = IF 1 <= Len(open[c]) - 1 THEN Len(open[c]) - 1 - 1 + 1 ELSE 0
        /\ \A i \in 1 .. Len(open[c]) - 1 - 1 + 1 : Outer(c)[i] = open[c][1 + i - 1]
    BY <1>1, <1>3, SubSeqProperties DEF Outer
  <1> DEFINE k == Len(open[c])
             m == Len(Outer(c))
  <1>5. k \in Nat \ {0} /\ m = IF 1 <= k - 1 THEN k - 1 - 1 + 1 ELSE 0
    BY <1>1, <1>4
  <1> HIDE DEF k, m
  <1>6. m = k - 1
    BY <1>5
  <1>7. Len(Outer(c)) = Len(open[c]) - 1
    BY <1>6 DEF k, m
  <1>8. DOMAIN Outer(c) = 1 .. Len(open[c]) - 1 /\ DOMAIN open[c] = 1 .. Len(open[c])
    BY <1>1, <1>4, <1>7, LenProperties
  <1>9. \A i \in 1 .. Len(open[c]) - 1 : i \in 1 .. Len(open[c]) /\ i < Len(open[c]) /\ Outer(c)[i] = open[c][i]
    BY <1>1, <1>4
  <1>10. Top(c).path \in Paths
    BY <1>2, SeenTypes
  <1> QED
    BY <1>1, <1>2, <1>4, <1>7, <1>8, <1>9, <1>10

\* What is left of the plan in a directory is under its path.
LEMMA PlannedFacts ==
  ASSUME TypeOK, NEW c \in Cleans, NEW p \in Paths, NEW d, NEW e \in Planned(c, p, d)
  PROVE  e \in plan[c] /\ e \in Planning /\ Above(e.path) = p /\ Len(e.path) = Len(p) + 1
  <1>1. e \in plan[c] /\ Len(e.path) = Len(p) + 1 /\ SubSeq(e.path, 1, Len(p)) = p
    BY DEF Planned
  <1>2. Len(e.path) - 1 = Len(p)
    <2>1. Len(p) \in Nat
      BY DEF Paths
    <2> QED
      BY <1>1, <2>1
  <1> QED
    BY <1>1, <1>2, SeenTypes DEF Above

\* Entering a directory keeps what is said of the clean.
LEMMA EnterPart ==
  ASSUME IInv, NEW c \in Cleans, CleanPart(c), Enter(c)
  PROVE  CleanPart(c)'
  <1>0. TypeOK /\ CleanTypes /\ SharedTypes /\ SeenInv(c) /\ PlanInv(c) /\ AgendaInv(c) /\ OpenInv(c)
    BY TypeParts DEF IInv, CleanPart
  <1>1. UNCHANGED <<tree, blind>> /\ c \notin blind' /\ pc[c] = "remove"
    BY DEF Enter, CleanPart
  <1>2. ASSUME NEW s, Quit(c, s) PROVE CleanPart(c)'
    BY <1>0, <1>1, <1>2, QuitPart
  <1> DEFINE from == IF open[c] = <<>> THEN Project ELSE Top(c).node
  <1>3. ASSUME NEW e \in IF open[c] = <<>> THEN {[path |-> Root, isDir |-> TRUE]}
                         ELSE Planned(c, Top(c).path, Top(c).node),
               e.isDir,
               NEW d \in Child(from, e.path[Len(e.path)]) \cap Dirs,
               open' = [open EXCEPT ![c] = Append(@, [path |-> e.path, node |-> d])],
               UNCHANGED <<pc, exit, agenda, plan, refused, seen>>
        PROVE  CleanPart(c)'
    <2>1. d \in Nodes /\ d \in Dirs /\ dir[d] = from /\ name[d] = LastOf(e.path)
      BY <1>3 DEF Child, Entries, LastOf
    <2>2. /\ e.path \in Paths /\ [path |-> e.path, node |-> d] \in seen[c] /\ Len(e.path) = Len(open[c]) + 1
          /\ open[c] # <<>> => /\ Top(c).path = Above(e.path)
                               /\ [path |-> e.path, isDir |-> TRUE] \in plan[c]
      <3>1. CASE open[c] = <<>>
        <4>1. e.path = Root
          BY <1>3, <3>1
        <4>2. PICK x \in seen[c] : x.path = Root
          BY <1>0, <1>1 DEF AgendaInv
        <4>3. d = x.node
          BY <1>0, <2>1, <3>1, <4>1, <4>2, RootAgain, EntryFacts
        <4>4. x = [path |-> Root, node |-> d]
          BY <1>0, <4>2, <4>3, SeenTypes, EntryFacts
        <4>5. Len(e.path) = 0 + 1 /\ Len(open[c]) = 0
          BY <3>1, <4>1, EntryFacts
        <4> QED
          BY <3>1, <4>1, <4>2, <4>4, <4>5, EntryFacts
      <3>2. CASE open[c] # <<>>
        <4>1. Top(c) \in seen[c] /\ Top(c).path \in Paths /\ Len(Top(c).path) = Len(open[c])
          BY <1>0, <3>2, InsideFacts
        <4>2. e \in plan[c] /\ e \in Planning /\ Above(e.path) = Top(c).path /\ Len(e.path) = Len(open[c]) + 1
          BY <1>0, <1>3, <3>2, <4>1, PlannedFacts
        <4>3. PICK x \in seen[c] : x.path = e.path
          BY <1>0, <4>2 DEF PlanInv
        <4>4. d = x.node
          BY <1>0, <2>1, <3>2, <4>1, <4>2, <4>3, FoundAgain
        <4>5. x = [path |-> e.path, node |-> d]
          BY <1>0, <4>3, <4>4, SeenTypes, EntryFacts
        <4>6. e.path \in Paths
          BY <4>2, EntryFacts
        <4>7. e = [path |-> e.path, isDir |-> TRUE]
          BY <1>3, <4>2 DEF Planning
        <4> QED
          BY <4>2, <4>3, <4>5, <4>6, <4>7
      <3> QED
        BY <3>1, <3>2
    <2>3. PICK o \in Inside : o = [path |-> e.path, node |-> d]
      BY <2>1, <2>2, EntryFacts
    <2>4. open[c] \in Seq(Inside)
      BY <1>0 DEF CleanTypes
    <2>5. open'[c] = Append(open[c], o)
      BY <1>0, <1>3, <2>3 DEF CleanTypes
    <2>6. /\ Len(open[c]) \in Nat /\ DOMAIN open'[c] = 1 .. Len(open[c]) + 1
          /\ \A i \in 1 .. Len(open[c]) : open'[c][i] = open[c][i]
          /\ open'[c][Len(open[c]) + 1] = o /\ DOMAIN open[c] = 1 .. Len(open[c])
      BY <2>4, <2>5, LenProperties, AppendProperties
    <2>7. o.path = e.path /\ o \in seen[c]
      BY <2>2, <2>3
    <2>8. OpenInv(c)'
      <3>1. ASSUME NEW i \in 1 .. Len(open[c]) + 1
            PROVE  /\ open'[c][i] \in seen[c] /\ Len(open'[c][i].path) = i
                   /\ i > 1 => /\ open'[c][i - 1].path = Above(open'[c][i].path)
                               /\ [path |-> open'[c][i].path, isDir |-> TRUE] \in plan[c]
        <4>1. CASE i \in 1 .. Len(open[c])
          <5>1. i > 1 => i - 1 \in 1 .. Len(open[c])
            BY <2>6, <4>1
          <5> QED
            BY <1>0, <2>6, <4>1, <5>1 DEF OpenInv
        <4>2. CASE i = Len(open[c]) + 1
          <5>1. i > 1 => open[c] # <<>> /\ i - 1 = Len(open[c]) /\ i - 1 \in 1 .. Len(open[c])
            BY <2>4, <2>6, <4>2
          <5>2. i > 1 => open'[c][i - 1] = Top(c)
            BY <2>6, <5>1 DEF Top
          <5>3. open'[c][i] = o
            BY <2>6, <4>2
          <5> QED
            BY <2>2, <2>7, <4>2, <5>1, <5>2, <5>3
        <4> QED
          BY <2>6, <4>1, <4>2
      <3> QED
        BY <1>3, <2>6, <3>1 DEF OpenInv
    <2>9. SeenInv(c)' /\ PlanInv(c)'
      BY <1>0, <1>1, <1>3 DEF SeenInv, PlanInv, tree
    <2>10. AgendaInv(c)'
      BY <1>0, <1>1, <1>3 DEF AgendaInv
    <2> QED
      BY <1>1, <2>8, <2>9, <2>10 DEF CleanPart
  <1> QED
    BY <1>2, <1>3 DEF Enter

\* Removing a node that was examined is not blind.
LEMMA NotBlind ==
  ASSUME NEW c, c \notin blind, NEW x \in seen[c], NEW n, n = x.node, Take(c, n)
  PROVE  c \notin blind'
  BY DEF Take

\* What was examined below the output directory and is removed and no longer
\* planned leaves the rest as it is.
LEMMA TakenPart ==
  ASSUME IInv, NEW c \in Cleans, CleanPart(c), NEW x \in seen[c], NEW n \in Nodes, n = x.node, Len(x.path) # 1,
         Take(c, n), seen'[c] = seen[c], plan'[c] \subseteq plan[c], \A e \in plan'[c] : e.path # x.path
  PROVE  SeenInv(c)' /\ PlanInv(c)'
  <1>1. TypeOK /\ SeenInv(c) /\ PlanInv(c)
    BY DEF IInv, CleanPart
  <1>2. name' = name /\ \A m \in Nodes : dir'[m] = IF m = n THEN None ELSE dir[m]
    BY DEF Take, Unlink
  <1>3. \A y \in seen[c] : /\ y.node \in Nodes /\ name'[y.node] = name[y.node] /\ dir'[y.node] \in {dir[y.node], None}
                           /\ dir'[y.node] # None => dir[y.node] # None
                           /\ y.path # x.path => dir'[y.node] = dir[y.node]
    BY <1>1, <1>2, SeenTypes DEF SeenInv
  <1>4. SeenInv(c)'
    BY <1>1, <1>3 DEF SeenInv
  <1>5. PlanInv(c)'
    BY <1>1, <1>3 DEF PlanInv
  <1> QED
    BY <1>4, <1>5

\* Removing a file of the plan keeps what is said of the clean.
LEMMA RemoveFilePart ==
  ASSUME IInv, NEW c \in Cleans, CleanPart(c), RemoveFile(c)
  PROVE  CleanPart(c)'
  <1>0. TypeOK /\ CleanTypes /\ SharedTypes /\ SeenInv(c) /\ PlanInv(c) /\ AgendaInv(c) /\ OpenInv(c)
    BY TypeParts DEF IInv, CleanPart
  <1>1. open[c] # <<>> /\ pc[c] = "remove" /\ c \notin blind
    BY DEF RemoveFile, CleanPart
  <1>2. ASSUME NEW s, Quit(c, s), UNCHANGED blind PROVE CleanPart(c)'
    BY <1>0, <1>1, <1>2, QuitPart
  <1>3. ASSUME NEW e \in Planned(c, Top(c).path, Top(c).node), ~e.isDir,
               NEW n \in Child(Top(c).node, e.path[Len(e.path)]) \cap Files, Take(c, n),
               plan' = [plan EXCEPT ![c] = @ \ {e}],
               UNCHANGED <<pc, exit, agenda, refused, open, seen>>
        PROVE  CleanPart(c)'
    <2>1. n \in Nodes /\ dir[n] = Top(c).node /\ name[n] = LastOf(e.path)
      BY <1>3 DEF Child, Entries, LastOf
    <2>2. Top(c) \in seen[c] /\ Top(c).path \in Paths
      BY <1>0, <1>1, InsideFacts
    <2>3. e \in plan[c] /\ e \in Planning /\ Above(e.path) = Top(c).path
      BY <1>0, <1>3, <2>2, PlannedFacts
    <2>4. PICK x \in seen[c] : x.path = e.path /\ (e.isDir <=> x.node \in Dirs)
      BY <1>0, <2>3 DEF PlanInv
    <2>5. n = x.node
      BY <1>0, <2>1, <2>2, <2>3, <2>4, FoundAgain
    <2>6. Len(x.path) # 1
      <3>1. Len(e.path) > 1
        BY <1>0, <2>3 DEF PlanInv
      <3>2. Len(e.path) \in Nat
        BY <2>3, EntryFacts DEF Paths
      <3> QED
        BY <2>4, <3>1, <3>2
    <2>7. plan'[c] = plan[c] \ {e}
      BY <1>0, <1>3 DEF CleanTypes
    <2>8. \A f \in plan[c] : f.path = e.path => f = e
      <3> SUFFICES ASSUME NEW f \in plan[c], f.path = e.path PROVE f = e
        OBVIOUS
      <3>1. f \in Planning
        BY <1>0, SeenTypes
      <3>2. f.isDir <=> x.node \in Dirs
        BY <1>0, <2>4 DEF PlanInv, SeenInv
      <3> QED
        BY <2>3, <2>4, <3>1, <3>2, EntryFacts
    <2>9. SeenInv(c)' /\ PlanInv(c)'
      BY <1>3, <2>1, <2>4, <2>5, <2>6, <2>7, <2>8, TakenPart
    <2>10. c \notin blind'
      BY <1>1, <1>3, <2>5, NotBlind
    <2>11. AgendaInv(c)'
      BY <1>0, <1>1, <1>3 DEF AgendaInv
    <2>12. OpenInv(c)'
      <3>1. ASSUME NEW q, [path |-> q, isDir |-> TRUE] \in plan[c] PROVE [path |-> q, isDir |-> TRUE] \in plan'[c]
        <4>1. [path |-> q, isDir |-> TRUE] # e
          BY <1>3
        <4> QED
          BY <2>7, <3>1, <4>1
      <3> QED
        BY <1>0, <1>3, <3>1 DEF OpenInv
    <2> QED
      BY <2>9, <2>10, <2>11, <2>12 DEF CleanPart
  <1> QED
    BY <1>2, <1>3 DEF RemoveFile

\* Removing the directory it is inside of keeps what is said of the clean.
LEMMA RemoveDirPart ==
  ASSUME IInv, NEW c \in Cleans, CleanPart(c), RemoveDir(c)
  PROVE  CleanPart(c)'
  <1>0. TypeOK /\ CleanTypes /\ SharedTypes /\ SeenInv(c) /\ PlanInv(c) /\ AgendaInv(c) /\ OpenInv(c)
    BY TypeParts DEF IInv, CleanPart
  <1>1. open[c] # <<>> /\ pc[c] = "remove" /\ c \notin blind
    BY DEF RemoveDir, CleanPart
  <1> DEFINE x == Top(c)
  <1>2. /\ x \in seen[c] /\ x.path \in Paths /\ Len(x.path) = Len(open[c])
        /\ Len(open[c]) \in Nat \ {0} /\ DOMAIN open[c] = 1 .. Len(open[c])
        /\ Outer(c) \in Seq(Inside) /\ Len(Outer(c)) = Len(open[c]) - 1
        /\ \A i \in DOMAIN Outer(c) : i \in DOMAIN open[c] /\ i < Len(open[c]) /\ Outer(c)[i] = open[c][i]
    BY <1>0, <1>1, InsideFacts
  <1>3. ASSUME NEW s, Quit(c, s), UNCHANGED blind PROVE CleanPart(c)'
    BY <1>0, <1>1, <1>3, QuitPart
  <1>4. ASSUME NEW d \in Child(Parent(c), x.path[Len(x.path)]) \cap Dirs, Take(c, d)
        PROVE  d = x.node /\ d \in Nodes
    <2>1. d \in Nodes /\ dir[d] = Parent(c) /\ name[d] = LastOf(x.path)
      BY <1>4 DEF Child, Entries, LastOf
    <2>2. CASE Len(open[c]) = 1
      <3>1. x.path = Root /\ dir[d] = Project
        BY <1>0, <1>2, <2>1, <2>2 DEF SeenInv, Parent
      <3> QED
        BY <1>0, <1>2, <2>1, <3>1, RootAgain, EntryFacts
    <2>3. CASE Len(open[c]) # 1
      <3> DEFINE k == Len(open[c])
      <3>a. x = open[c][k]
        BY DEF Top
      <3>b. k \in Nat \ {0} /\ k # 1 /\ DOMAIN open[c] = 1 .. k
        BY <1>2, <2>3
      <3>1. k \in DOMAIN open[c] /\ k - 1 \in DOMAIN open[c] /\ k > 1 /\ x = open[c][k]
        <4> HIDE DEF x, k
        <4> QED
          BY <3>a, <3>b
      <3>2. /\ open[c][k - 1] \in seen[c] /\ open[c][k - 1].path = Above(x.path)
            /\ [path |-> x.path, isDir |-> TRUE] \in plan[c]
        BY <1>0, <3>1 DEF OpenInv
      <3>3. PICK e \in plan[c] : e.path = x.path
        BY <3>2
      <3>4. dir[d] = open[c][k - 1].node
        BY <2>1, <2>3 DEF Parent
      <3> HIDE DEF x, k
      <3> QED
        BY <1>0, <1>2, <2>1, <3>2, <3>3, <3>4, FoundAgain
    <2> QED
      BY <2>1, <2>2, <2>3
  <1>5. ASSUME NEW d \in Child(Parent(c), x.path[Len(x.path)]) \cap Dirs, Take(c, d)
        PROVE  c \notin blind'
    BY <1>1, <1>2, <1>4, <1>5, NotBlind
  <1>6. ASSUME NEW d \in Child(Parent(c), x.path[Len(x.path)]) \cap Dirs, Take(c, d), Quit(c, "ok")
        PROVE  CleanPart(c)'
    BY <1>0, <1>5, <1>6, QuitPart
  <1>7. ASSUME NEW d \in Child(Parent(c), x.path[Len(x.path)]) \cap Dirs, Take(c, d), Outer(c) # <<>>,
               plan' = [plan EXCEPT ![c] = {e \in @ : e.path # x.path}],
               open' = [open EXCEPT ![c] = Outer(c)],
               UNCHANGED <<pc, exit, agenda, refused, seen>>
        PROVE  CleanPart(c)'
    <2>1. d = x.node /\ d \in Nodes
      BY <1>4, <1>7
    <2>2. plan'[c] = {e \in plan[c] : e.path # x.path} /\ open'[c] = Outer(c) /\ seen'[c] = seen[c]
      BY <1>0, <1>7 DEF CleanTypes
    <2>3. Len(x.path) # 1
      BY <1>2, <1>7, EmptySeq
    <2> HIDE DEF x
    <2>4. SeenInv(c)' /\ PlanInv(c)'
      BY <1>2, <1>7, <2>1, <2>2, <2>3, TakenPart
    <2>5. c \notin blind'
      BY <1>5, <1>7
    <2>6. AgendaInv(c)'
      BY <1>0, <1>1, <1>7 DEF AgendaInv
    <2>7. OpenInv(c)'
      <3>1. ASSUME NEW i \in DOMAIN Outer(c)
            PROVE  /\ Outer(c)[i] \in seen[c] /\ Len(Outer(c)[i].path) = i
                   /\ i > 1 => /\ Outer(c)[i - 1].path = Above(Outer(c)[i].path)
                               /\ [path |-> Outer(c)[i].path, isDir |-> TRUE] \in plan'[c]
        <4>1. i \in DOMAIN open[c] /\ i < Len(open[c]) /\ Outer(c)[i] = open[c][i] /\ i \in Nat
          BY <1>2, <3>1
        <4>2. i > 1 => i - 1 \in DOMAIN Outer(c)
          BY <1>2, <3>1, LenProperties
        <4>3. /\ open[c][i] \in seen[c] /\ Len(open[c][i].path) = i
              /\ i > 1 => /\ open[c][i - 1].path = Above(open[c][i].path)
                          /\ [path |-> open[c][i].path, isDir |-> TRUE] \in plan[c]
          BY <1>0, <4>1 DEF OpenInv
        <4>4. open[c][i].path # x.path
          BY <1>2, <4>1, <4>3
        <4>5. i > 1 => [path |-> open[c][i].path, isDir |-> TRUE] \in plan'[c]
          BY <2>2, <4>3, <4>4
        <4> QED
          BY <1>2, <4>1, <4>2, <4>3, <4>5
      <3> QED
        BY <2>2, <3>1 DEF OpenInv
    <2> QED
      BY <2>4, <2>5, <2>6, <2>7 DEF CleanPart
  <1> QED
    BY <1>3, <1>6, <1>7 DEF RemoveDir

\* Every step keeps what is said of the cleans that are alone.
LEMMA CleansStep == IInv /\ [Next]_vars => CleanInv'
  <1> SUFFICES ASSUME IInv, [Next]_vars, NEW c \in Cleans, Alone(c)' PROVE CleanPart(c)'
    BY DEF CleanInv, CleanPart
  <1>1. CleanPart(c)
    BY AloneBefore DEF IInv, CleanInv, CleanPart
  <1>2. CASE CleanStep(c)
    BY <1>1, <1>2, LookPart, ScanPart, EnterPart, RemoveFilePart, RemoveDirPart DEF CleanStep
  <1>3. CASE ~CleanStep(c)
    <2>1. \/ \E r \in Reports : ReportStep(r)
          \/ \E b \in Cleans \ {c} : CleanStep(b)
          \/ Drop
          \/ UNCHANGED vars
      BY <1>3, StepsAre
    <2> QED
      BY <1>1, <2>1, OthersStep
  <1> QED
    BY <1>2, <1>3

-----------------------------------------------------------------------------
(* The initial states. *)

\* Nothing is made and nobody has begun.
LEMMA InitInv == Init => IInv
  <1> SUFFICES ASSUME Init PROVE IInv
    OBVIOUS
  <1>1. /\ \A n \in Nodes : dir[n] = None /\ name[n] = Temp(n) /\ Temp(n) \in Names /\ Pristine(n)
        /\ \A n \in Nodes : IsTemp(name[n]) /\ name[n] \notin Finals /\ name[n] # Final("mine")
                            /\ name[n] # Final("reports") /\ name[n] # Final("output")
    BY NameFacts, NamesAre DEF Init, Pristine
  <1>2. TypeOK
    <2>1. OneName
      BY <1>1 DEF OneName
    <2>2. ReportTypes
      BY LayoutAssumption DEF Init, ReportTypes
    <2>3. SharedTypes
      BY <1>1 DEF Init, SharedTypes, Processes, Steps, Statuses
    <2>4. CleanTypes
      <3>1. <<>> \in Seq(Inside)
        OBVIOUS
      <3> QED
        BY <3>1 DEF Init, CleanTypes
    <2> QED
      BY <2>1, <2>2, <2>3, <2>4, TypeParts
  <1>3. NameInv
    BY <1>1, NodeFacts DEF NameInv
  <1>4. PlaceInv
    <2>1. \A r \in Reports : Artifact(r, "bundle") # None
      BY ArtifactKinds, NodeFacts DEF Pieces
    <2>2. OutputDirs \subseteq Nodes /\ ReportsDirs \subseteq Nodes /\ Dirs \subseteq Nodes
      BY NodeFacts
    <2> QED
      BY <1>1, <2>1, <2>2 DEF PlaceInv
  <1>5. MineInv
    BY <1>1, NodeFacts DEF Init, MineInv
  <1>6. ReportInv
    <2> SUFFICES ASSUME NEW r \in Reports PROVE ReportPart(r)
      BY DEF ReportInv, ReportPart
    <2>1. /\ pc[r] = "check" /\ exit[r] = "none" /\ next[r] = 0 /\ fd[r] = None
          /\ Len(Contents(r)) \in {2, 3}
          /\ \A i \in DOMAIN Contents(r) : i \in Nat \ {0} /\ Contents(r)[i] \in Members
      BY ContentsFacts DEF Init
    <2>2. \A a \in Members : /\ Pristine(<<r, "output", a>>) /\ Pristine(<<r, "reports", a>>)
                             /\ Pristine(Artifact(r, a)) /\ dir[Artifact(r, a)] = None
                             /\ name[Artifact(r, a)] = Temp(Artifact(r, a))
      BY <1>1, OwnFacts, NodeFacts
    <2>3. Pristine(Artifact(r, "bundle"))
      BY <1>1, ArtifactKinds DEF Pieces
    <2>4. StepInv(r)
      BY <2>1, <2>2 DEF StepInv
    <2>5. SingleInv(r)
      <3>1. \A i \in DOMAIN Contents(r) : /\ Pristine(<<r, "output", Contents(r)[i]>>)
                                          /\ Pristine(<<r, "reports", Contents(r)[i]>>)
                                          /\ Pristine(Artifact(r, Contents(r)[i]))
                                          /\ dir[Artifact(r, Contents(r)[i])] = None
                                          /\ name[Artifact(r, Contents(r)[i])] = Temp(Artifact(r, Contents(r)[i]))
                                          /\ i \in Nat \ {0}
        BY <2>1, <2>2
      <3>2. next[r] # Len(Contents(r))
        BY <2>1
      <3> HIDE DEF Init
      <3> QED
        BY <2>1, <3>1, <3>2 DEF SingleInv
    <2>6. BundleInv(r)
      <3>1. \A i \in DOMAIN Contents(r) : Pristine(Artifact(r, Contents(r)[i])) /\ ~(i <= next[r])
        <4> SUFFICES ASSUME NEW i \in DOMAIN Contents(r)
                     PROVE  Pristine(Artifact(r, Contents(r)[i])) /\ ~(i <= next[r])
          OBVIOUS
        <4>1. i \in Nat \ {0} /\ next[r] = 0
          BY <2>1
        <4>2. ~(i <= next[r])
          BY <4>1
        <4> QED
          BY <2>1, <2>2, <4>2
      <3>2. /\ pc[r] \notin {"members", "commit", "cleanup"} /\ exit[r] \notin {"ok", "refused", "failed"}
            /\ pc[r] \notin {"open", "create", "members", "commit"}
        BY <2>1
      <3>3. \A a \in Members : Pristine(Artifact(r, a))
        BY <2>2
      <3>4. next[r] = 0 /\ Pristine(Artifact(r, "bundle"))
        BY <2>1, <2>3
      <3> HIDE DEF Init
      <3> QED
        BY <3>1, <3>2, <3>3, <3>4 DEF BundleInv
    <2> QED
      BY <2>4, <2>5, <2>6 DEF ReportPart
  <1>7. CleanInv
    <2> SUFFICES ASSUME NEW c \in Cleans PROVE CleanPart(c)
      BY DEF CleanInv, CleanPart
    <2>1. /\ pc[c] = "look" /\ agenda[c] = {} /\ plan[c] = {} /\ seen[c] = {} /\ open[c] = <<>>
          /\ c \notin blind
      BY NodeAssumption DEF Init
    <2> QED
      BY <2>1 DEF CleanPart, SeenInv, PlanInv, AgendaInv, OpenInv
  <1> QED
    BY <1>2, <1>3, <1>4, <1>5, <1>6, <1>7 DEF IInv

-----------------------------------------------------------------------------
(* What the invariant says of a set that is published. *)

\* There is one directory called reports.
LEMMA OneReportsDir ==
  ASSUME IInv, NEW d \in Dirs, NEW e \in Dirs, dir[d] # None, dir[e] # None,
         name[d] = Final("reports"), name[e] = Final("reports")
  PROVE  d = e
  <1>1. d \in Nodes /\ e \in Nodes /\ dir[d] \in OutputDirs /\ dir[e] \in OutputDirs
    BY NodeFacts DEF IInv, PlaceInv
  <1>2. dir[d] \in Nodes /\ dir[e] \in Nodes
    BY <1>1, NodeFacts
  <1>3. dir[dir[d]] # None /\ dir[dir[e]] # None
    BY <1>1, <1>2, NodeFacts DEF IInv, PlaceInv
  <1>4. /\ dir[dir[d]] = Project /\ name[dir[d]] = Final("output")
        /\ dir[dir[e]] = Project /\ name[dir[e]] = Final("output")
    BY <1>1, <1>3 DEF IInv, PlaceInv
  <1>5. OneName
    BY TypeParts DEF IInv
  <1>6. dir[d] = dir[e]
    BY <1>2, <1>4, <1>5, NodeFacts DEF OneName
  <1> QED
    BY <1>1, <1>5, <1>6 DEF OneName

\* What no clean took of a report's set is there, once it was put there.
LEMMA Uncut ==
  ASSUME NEW r \in Reports, ~Cut(r), NEW a \in Pieces, LinkedOrTaken(Artifact(r, a))
  PROVE  dir[Artifact(r, a)] # None
  BY DEF Cut, LinkedOrTaken

\* One file after the other: the manifest is the last to be there, and with it
\* are the others, in the one directory.
LEMMA SingleSet ==
  ASSUME IInv, NEW r \in Reports, layout[r] = "single"
  PROVE  /\ Published(r, "manifest") => exit[r] = "ok"
         /\ exit[r] = "ok" /\ ~Cut(r) =>
               \A i \in DOMAIN Contents(r) : /\ Published(r, Contents(r)[i])
                                             /\ dir[Artifact(r, Contents(r)[i])] = dir[Artifact(r, "manifest")]
  <1> DEFINE k == Len(Contents(r))
  <1>1. SingleInv(r) /\ next[r] \in 0 .. 3 /\ next[r] <= k
    BY DEF IInv, ReportInv, StepInv, TypeOK
  <1>2. k = 3 /\ DOMAIN Contents(r) = 1 .. k /\ Contents(r)[k] = "manifest"
    BY ContentsFacts
  <1>3. ASSUME Published(r, "manifest") PROVE exit[r] = "ok"
    <2>1. name[Artifact(r, "manifest")] # Temp(Artifact(r, "manifest"))
      BY <1>3, NameFacts DEF Published
    <2>2. ~(k > next[r])
      BY <1>1, <1>2, <2>1 DEF SingleInv
    <2>3. next[r] = k
      BY <1>1, <1>2, <2>2
    <2> QED
      BY <1>1, <2>3 DEF SingleInv
  <1>4. ASSUME exit[r] = "ok", ~Cut(r), NEW i \in DOMAIN Contents(r)
        PROVE  LET n == Artifact(r, Contents(r)[i])
               IN  /\ Published(r, Contents(r)[i]) /\ dir[n] \in Dirs
                   /\ name[dir[n]] = Final("reports") /\ dir[dir[n]] # None
    <2> DEFINE a == Contents(r)[i]
               n == Artifact(r, a)
    <2>1. a \in Members /\ a \in Pieces
      BY <1>4, ContentsFacts DEF Pieces
    <2>2. i <= next[r]
      BY <1>1, <1>2, <1>4 DEF SingleInv
    <2>3. /\ name[n] = NameOf(r, a) /\ LinkedOrTaken(n)
          /\ dir[n] # None => dir[n] \in Dirs /\ name[dir[n]] = Final("reports")
      BY <1>1, <1>4, <2>2 DEF SingleInv
    <2>4. dir[n] # None
      BY <1>4, <2>1, <2>3, Uncut
    <2>5. n \in Nodes /\ dir[n] \in Dirs
      BY <2>1, <2>3, <2>4, ArtifactKinds
    <2>6. dir[dir[n]] # None
      BY <2>4, <2>5, NodeFacts DEF IInv, PlaceInv
    <2>7. ~IsTemp(name[n])
      BY <2>1, <2>3, NameOfFacts, NamesAre
    <2> QED
      BY <2>3, <2>4, <2>5, <2>6, <2>7 DEF Published
  <1>5. ASSUME exit[r] = "ok", ~Cut(r), NEW i \in DOMAIN Contents(r)
        PROVE  /\ Published(r, Contents(r)[i])
               /\ dir[Artifact(r, Contents(r)[i])] = dir[Artifact(r, "manifest")]
    <2>1. k \in DOMAIN Contents(r)
      BY <1>2
    <2>2. /\ dir[Artifact(r, "manifest")] \in Dirs
          /\ name[dir[Artifact(r, "manifest")]] = Final("reports")
          /\ dir[dir[Artifact(r, "manifest")]] # None
      BY <1>2, <1>4, <1>5, <2>1
    <2> QED
      BY <1>4, <1>5, <2>2, OneReportsDir
  <1> QED
    BY <1>3, <1>5

\* A bundle: its manifest is published when the whole of it is.
LEMMA BundleSet ==
  ASSUME IInv, NEW r \in Reports, layout[r] # "single"
  PROVE  /\ Published(r, "manifest") => exit[r] = "ok"
         /\ exit[r] = "ok" /\ ~Cut(r) =>
               /\ \A i \in DOMAIN Contents(r) : /\ Published(r, Contents(r)[i])
                                                /\ dir[Artifact(r, Contents(r)[i])] = dir[Artifact(r, "manifest")]
               /\ layout[r] = "stdout" => printed[r]
  <1> DEFINE b == Artifact(r, "bundle")
  <1>1. BundleInv(r) /\ StepInv(r) /\ ReportTypes /\ SharedTypes
    BY TypeParts DEF IInv, ReportInv
  <1>2. DOMAIN Contents(r) = 1 .. Len(Contents(r)) /\ Contents(r)[Len(Contents(r))] = "manifest"
        /\ Len(Contents(r)) \in {2, 3}
    BY ContentsFacts
  <1>3. ASSUME Published(r, "manifest") PROVE exit[r] = "ok"
    <2>1. dir[b] # None /\ name[b] # Temp(b)
      BY <1>3, NameFacts DEF Published
    <2>2. pc[r] \notin {"check", "stdout", "open", "create", "members", "commit", "cleanup"}
      BY <1>1, <2>1 DEF BundleInv, Pristine
    <2>3. exit[r] \notin {"refused", "failed", "none"}
      BY <1>1, <2>1, <2>2 DEF BundleInv, StepInv
    <2> QED
      BY <1>1, <2>3 DEF StepInv
  <1>4. ASSUME exit[r] = "ok", ~Cut(r), NEW i \in DOMAIN Contents(r)
        PROVE  Published(r, Contents(r)[i]) /\ dir[Artifact(r, Contents(r)[i])] = b
    <2> DEFINE a == Contents(r)[i]
               n == Artifact(r, a)
    <2>1. a \in Members /\ a \in Pieces /\ "bundle" \in Pieces
      BY <1>4, ContentsFacts DEF Pieces
    <2>2. i <= next[r]
      BY <1>1, <1>2, <1>4 DEF BundleInv
    <2>3. name[n] = NameOf(r, a) /\ LinkedOrTaken(n) /\ dir[n] \in {b, None}
      BY <1>1, <1>4, <2>2 DEF BundleInv
    <2>4. dir[n] = b
      BY <1>4, <2>1, <2>3, Uncut
    <2>5. name[b] = NameOf(r, "bundle") /\ LinkedOrTaken(b)
      BY <1>1, <1>4 DEF BundleInv
    <2>6. dir[b] # None /\ dir[n] # None
      BY <1>4, <2>1, <2>3, <2>5, Uncut
    <2>7. ~IsTemp(name[n]) /\ ~IsTemp(name[b])
      BY <2>1, <2>3, <2>5, NameOfFacts, NamesAre
    <2> QED
      BY <2>4, <2>6, <2>7 DEF Published
  <1>5. exit[r] = "ok" /\ layout[r] = "stdout" => printed[r]
    BY <1>1 DEF BundleInv
  <1>6. ASSUME exit[r] = "ok", ~Cut(r) PROVE dir[Artifact(r, "manifest")] = b
    BY <1>2, <1>4, <1>6
  <1> QED
    BY <1>3, <1>4, <1>5, <1>6

\* Both layouts together.
LEMMA SetIsWhole ==
  ASSUME IInv, NEW r \in Reports
  PROVE  /\ Published(r, "manifest") => exit[r] = "ok"
         /\ exit[r] = "ok" /\ ~Cut(r) =>
               /\ \A i \in DOMAIN Contents(r) : /\ Published(r, Contents(r)[i])
                                                /\ dir[Artifact(r, Contents(r)[i])] = dir[Artifact(r, "manifest")]
               /\ layout[r] = "stdout" => printed[r]
  BY SingleSet, BundleSet

-----------------------------------------------------------------------------
(* The theorems. *)

\* The inductive invariant: what holds between any two steps of any number of
\* reports and cleans on one output directory.
THEOREM Inductive == Spec => []IInv
  <1>1. IInv /\ [Next]_vars => IInv'
    BY TypeStep, TreeStep, MineStep, ReportsStep, CleansStep DEF IInv, TreeInv
  <1> QED
    BY InitInv, <1>1, PTL DEF Spec

\* Every variable has its type, and a directory never holds two nodes of a name.
THEOREM TypeCorrect == Spec => []TypeOK
  <1>1. IInv => TypeOK
    BY DEF IInv
  <1> QED
    BY Inductive, <1>1, PTL

\* Where a manifest of cmd_report stands, every file it names stands beside it
\* and is of the same report, unless a clean cut the set.
THEOREM ManifestIsTheCommit == Spec => []ManifestCommits
  <1>1. IInv => ManifestCommits
    <2> SUFFICES ASSUME IInv, NEW r \in Reports, Published(r, "manifest"), ~Cut(r)
                 PROVE  /\ \A i \in DOMAIN Contents(r) :
                              /\ Published(r, Contents(r)[i])
                              /\ dir[Artifact(r, Contents(r)[i])] = dir[Artifact(r, "manifest")]
                        /\ layout[r] = "stdout" => printed[r]
                        /\ layout[r] # "stdout" => Published(r, "primary")
      BY DEF ManifestCommits
    <2>1. /\ \A i \in DOMAIN Contents(r) :
                /\ Published(r, Contents(r)[i])
                /\ dir[Artifact(r, Contents(r)[i])] = dir[Artifact(r, "manifest")]
          /\ layout[r] = "stdout" => printed[r]
      BY SetIsWhole
    <2> QED
      BY <2>1, ContentsFacts
  <1> QED
    BY Inductive, <1>1, PTL

\* Status 0 of cmd_report means a set that is there, any other status one whose
\* manifest is not.
THEOREM StatusOfAReport == Spec => []ReportTold
  <1>1. IInv => ReportTold
    <2> SUFFICES ASSUME IInv, NEW r \in Reports
                 PROVE  /\ exit[r] = "ok" /\ ~Cut(r) => Published(r, "manifest")
                        /\ exit[r] \in {"refused", "failed"} => ~Published(r, "manifest")
      BY DEF ReportTold
    <2>1. ASSUME exit[r] = "ok", ~Cut(r) PROVE Published(r, "manifest")
      <3>1. Len(Contents(r)) \in DOMAIN Contents(r) /\ Contents(r)[Len(Contents(r))] = "manifest"
        BY ContentsFacts
      <3>2. \A i \in DOMAIN Contents(r) : Published(r, Contents(r)[i])
        BY <2>1, SetIsWhole
      <3> QED
        BY <3>1, <3>2
    <2>2. exit[r] \in {"refused", "failed"} => ~Published(r, "manifest")
      BY SetIsWhole
    <2> QED
      BY <2>1, <2>2
  <1> QED
    BY Inductive, <1>1, PTL

\* A clean that no other clean interferes with removes, name by name, only nodes
\* _scan examined, whatever reports publish, fail at and clean up meanwhile.
THEOREM OnlyExamined == Spec => []ExaminedOnly
  <1>1. IInv => ExaminedOnly
    BY DEF IInv, CleanInv, Alone, ExaminedOnly
  <1> QED
    BY Inductive, <1>1, PTL

\* No step of a report or of a clean removes or moves a file of the user's.
THEOREM NeverAUserFile == Spec => UserFilesKept
  <1>1. IInv /\ [Next]_vars => [dir[Mine] # None => dir'[Mine] = dir[Mine]]_vars
    BY MineStays DEF Same
  <1> QED
    BY Inductive, <1>1, PTL DEF Spec, UserFilesKept
=============================================================================
