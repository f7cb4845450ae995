-------------------------- MODULE Baseline_proofs --------------------------
(***************************************************************************)
(* Proofs about the baseline file: for every set of commands, history and  *)
(* evidence, whatever the file goes through, a baseline that decodes was   *)
(* made from reliable evidence, a check passes only against such a         *)
(* baseline, of the history Git showed it, and one that fails by policy    *)
(* has a reason other than the baseline its own evidence gives.            *)
(***************************************************************************)
EXTENDS Baseline, TLAPS

\* What an actor holds at each step.
Holds(a) ==
    /\ pc[a] \notin {"start", "end"} => mem[a].evidence # Null
    /\ mem[a].evidence # Null => ~mem[a].evidence.stops
    /\ mem[a].data \in kept \cup {Damaged}
    /\ pc[a] \in {"start", "read", "head", "ancestor"} => mem[a].ancestor # TRUE
    /\ mem[a].ancestor = TRUE =>
          /\ mem[a].data \in Baselines /\ mem[a].data.commit # Null
          /\ mem[a].seen # Null /\ mem[a].data.commit \in Ancestors[mem[a].seen]
    /\ pc[a] \in {"body", "replace"} => a \in Updates /\ Reliable(mem[a].evidence)
    /\ pc[a] = "replace" =>
          /\ mem[a].body \in Baselines
          /\ MadeFrom(mem[a].body, mem[a].evidence)
    /\ a \in Checks /\ status[a] \in {"ok", "policy"} => pc[a] = "end" /\ mem[a].evidence # Null
    /\ a \in Checks /\ status[a] = "ok" => Eligibility(mem[a]) = "passing"
    /\ a \in Checks /\ status[a] = "policy" => Eligibility(mem[a]) \notin {"incomplete", "passing"}

\* The inductive invariant.
Inv ==
    /\ file \in kept \cup {Damaged}
    /\ \A b \in kept \ {Null} : \E e \in Evidence : Reliable(e) /\ MadeFrom(b, e)
    /\ \A a \in Actors : Holds(a)

Memory == [evidence : Evidence \cup {Null}, data : Files,
           seen : Commits \cup {Null}, ancestor : BOOLEAN \cup {Null},
           body : Baselines \cup {Null}]

\* What the assumptions say of a piece of evidence.
LEMMA EvidenceFacts ==
    ASSUME NEW e \in Evidence
    PROVE  /\ e.policy \in {"fail", "allow-ordinary"}
           /\ e.sources \in Nat /\ e.covered \in Nat /\ e.total \in Nat /\ e.covered <= e.total
           /\ e.excluded \in Nat /\ e.records \in Nat
    BY EvidenceAssumption DEF Facts

\* The body an update makes of evidence is a baseline made from it.
LEMMA BodyMade ==
    ASSUME NEW e \in Evidence, NEW c \in Commits \cup {Null}
    PROVE  Body(e, c) \in Baselines /\ MadeFrom(Body(e, c), e)
    BY EvidenceFacts DEF Body, Baselines, MadeFrom

\* The limit of evidence with units is a fraction that is not above its share, and
\* below it by no more than the tolerance.
LEMMA LimitFacts ==
    ASSUME NEW f \in Evidence, f.total # 0
    PROVE  LET limit == RatchetLimit(f) IN
           /\ limit.numerator \in Nat /\ limit.denominator = f.total * 10000
           /\ limit.numerator <= f.covered * 10000
           /\ f.covered * 10000 - Tolerance * f.total <= limit.numerator
<1>1. /\ f.covered \in Nat /\ f.total \in Nat /\ Tolerance \in Nat
      /\ f.covered * 10000 \in Nat /\ Tolerance * f.total \in Nat
  BY EvidenceFacts, BoundAssumption
<1> QED BY <1>1 DEF RatchetLimit

\* A product grows with its factor.
LEMMA Grows ==
    ASSUME NEW a \in Int, NEW b \in Int, a <= b, NEW t \in Nat
    PROVE  a * t <= b * t
<1>1. (b - a) * t >= 0
  OBVIOUS
<1>2. (b - a) * t = b * t - a * t
  OBVIOUS
<1> QED BY <1>1, <1>2

\* Evidence that meets the limit of another is not below it.
LEMMA MeetsLimit ==
    ASSUME NEW e \in Evidence, NEW f \in Evidence, e.total # 0,
           e.covered * RatchetLimit(f).denominator >= RatchetLimit(f).numerator * e.total
    PROVE  NotBelow(e, f)
<1>1. /\ e.covered \in Nat /\ e.total \in Nat /\ f.covered \in Nat /\ f.total \in Nat
      /\ f.covered <= f.total /\ Tolerance \in Nat
  BY EvidenceFacts, BoundAssumption
<1>2. CASE f.total = 0
  <2>1. f.covered = 0
    BY <1>1, <1>2
  <2>2. /\ f.covered * e.total * 10000 = 0 /\ e.covered * f.total * 10000 = 0
        /\ Tolerance * f.total * e.total = 0
    BY <1>1, <1>2, <2>1
  <2> QED BY <1>1, <2>2 DEF NotBelow
<1>3. CASE f.total # 0
  <2> DEFINE n == RatchetLimit(f).numerator
             low == f.covered * 10000 - Tolerance * f.total
  <2>1. n \in Nat /\ low \in Int /\ low <= n /\ RatchetLimit(f).denominator = f.total * 10000
    BY <1>1, <1>3, LimitFacts
  <2>2. e.covered * (f.total * 10000) >= n * e.total
    BY <2>1
  <2> HIDE DEF n
  <2>3. low * e.total <= n * e.total
    <3> HIDE DEF low
    <3> QED BY <1>1, <2>1, Grows
  <2>4. low * e.total = f.covered * e.total * 10000 - Tolerance * f.total * e.total
    BY <1>1
  <2>5. e.covered * (f.total * 10000) = e.covered * f.total * 10000
    BY <1>1
  <2> DEFINE x == e.covered * f.total * 10000
             y == f.covered * e.total * 10000
             z == Tolerance * f.total * e.total
  <2>6. x \in Int /\ y \in Int /\ z \in Int /\ n * e.total \in Int
    BY <1>1, <2>1
  <2>7. x >= n * e.total /\ y - z <= n * e.total
    BY <2>2, <2>3, <2>4, <2>5
  <2>8. y <= x + z
    <3> DEFINE w == n * e.total
    <3>1. w \in Int /\ x >= w /\ y - z <= w
      BY <2>6, <2>7
    <3> HIDE DEF x, y, z, w
    <3> QED BY <2>6, <3>1
  <2> QED BY <1>1, <2>8 DEF NotBelow
<1> QED BY <1>2, <1>3

\* Evidence with units meets the limit it sets itself.
LEMMA MeetsItsOwn ==
    ASSUME NEW e \in Evidence, e.total # 0
    PROVE  e.covered * RatchetLimit(e).denominator >= RatchetLimit(e).numerator * e.total
<1> DEFINE n == RatchetLimit(e).numerator
           most == e.covered * 10000
<1>1. /\ e.covered \in Nat /\ e.total \in Nat /\ n \in Nat /\ most \in Nat /\ n <= most
      /\ RatchetLimit(e).denominator = e.total * 10000
  BY EvidenceFacts, LimitFacts
<1>2. n * e.total <= most * e.total
  <2> HIDE DEF n, most
  <2> QED BY <1>1, Grows
<1>3. most * e.total = e.covered * (e.total * 10000)
  BY <1>1
<1> QED BY <1>1, <1>2, <1>3

\* The limit is of what a baseline keeps of its evidence.
LEMMA LimitKept ==
    ASSUME NEW b, NEW e, MadeFrom(b, e)
    PROVE  RatchetLimit(b) = RatchetLimit(e)
    BY DEF MadeFrom, RatchetLimit

\* The parts of TypeOK a step of one actor concerns.
Types ==
    /\ file \in Files /\ head \in Commits
    /\ pc \in [Actors -> {"start", "read", "head", "ancestor", "report", "body", "replace", "end"}]
    /\ mem \in [Actors -> Memory]
    /\ status \in [Actors -> Statuses]
    /\ kept \subseteq Baselines \cup {Null}
    /\ unshown \subseteq Updates
    /\ trouble \in Nat /\ trouble <= MaxTrouble

\* The type invariant, by variable.
LEMMA TypesAre == TypeOK <=> Types
    BY BoundAssumption DEF TypeOK, Types, Memory

\* A step of one actor leaves the others what they hold.
LEMMA OthersHold ==
    ASSUME Types, Inv, NEW a \in Actors, NEW b \in Actors, b # a, kept \subseteq kept',
           pc'[b] = pc[b], mem'[b] = mem[b], status'[b] = status[b]
    PROVE  Holds(b)'
    BY DEF Inv, Holds

\* Where an actor ends without passing, it holds no more than before.
LEMMA ExitHolds ==
    ASSUME Types, Inv, NEW a \in Actors, NEW s \in Statuses, Exit(a, s), kept \subseteq kept',
           Null \in kept,
           a \in Checks /\ s \in {"ok", "policy"} => mem[a].evidence # Null,
           a \in Checks /\ s = "ok" => Eligibility(mem[a]) = "passing",
           a \in Checks /\ s = "policy" => Eligibility(mem[a]) \notin {"incomplete", "passing"}
    PROVE  /\ pc' \in [Actors -> {"start", "read", "head", "ancestor", "report", "body", "replace", "end"}]
           /\ status' \in [Actors -> Statuses]
           /\ mem' \in [Actors -> Memory]
           /\ \A b \in Actors : Holds(b)'
<1>1. /\ pc' \in [Actors -> {"start", "read", "head", "ancestor", "report", "body", "replace", "end"}]
      /\ status' \in [Actors -> Statuses]
      /\ mem' \in [Actors -> Memory]
  BY DEF Types, Exit, Goto, NoMemory, Memory, Files
<1>2. ASSUME NEW b \in Actors, b # a PROVE Holds(b)'
  <2>1. pc'[b] = pc[b] /\ mem'[b] = mem[b] /\ status'[b] = status[b]
    BY <1>2 DEF Types, Exit, Goto
  <2> QED BY <2>1, <1>2, OthersHold
<1>3. Holds(a)'
  <2>1. pc'[a] = "end" /\ status'[a] = s /\ Holds(a)
    BY DEF Types, Exit, Goto, Inv
  <2>2. CASE a \in Updates
    <3>1. mem'[a] = NoMemory /\ a \notin Checks
      BY <2>2, ActorAssumption DEF Types, Exit
    <3>2. Null # TRUE
      BY NullAssumption
    <3>3. /\ mem'[a].evidence = Null /\ mem'[a].data = Null /\ mem'[a].ancestor = Null
      BY <3>1 DEF NoMemory
    <3> QED BY <3>1, <3>2, <3>3, <2>1 DEF Holds
  <2>3. CASE a \notin Updates
    <3>1. mem'[a] = mem[a]
      BY <2>3 DEF Exit
    <3> QED BY <3>1, <2>1 DEF Holds
  <2> QED BY <2>2, <2>3
<1> QED BY <1>1, <1>2, <1>3

\* Where an actor goes on, its own part is what is left to show.
LEMMA GoesOn ==
    ASSUME Types, Inv, NEW a \in Actors, kept' = kept, file' = file, head' = head, unshown' = unshown,
           status' = status, NEW m \in Memory, mem' = [mem EXCEPT ![a] = m],
           NEW where \in {"read", "head", "ancestor", "report", "body", "replace"}, Goto(a, where),
           trouble' \in Nat, trouble' <= MaxTrouble,
           pc[a] # "end", Holds(a)'
    PROVE  Types' /\ Inv'
<1>1. Types'
  BY DEF Types, Goto
<1>2. ASSUME NEW b \in Actors PROVE Holds(b)'
  <2>1. CASE b # a
    <3>1. pc'[b] = pc[b] /\ mem'[b] = mem[b] /\ status'[b] = status[b]
      BY <2>1 DEF Types, Goto
    <3> QED BY <3>1, <2>1, OthersHold
  <2> QED BY <2>1
<1> QED BY <1>1, <1>2 DEF Inv

\* Starting a command keeps the invariant.
LEMMA StartKeeps ==
    ASSUME Types, Inv, Null \in kept, NEW a \in Actors, Start(a) PROVE Types' /\ Inv'
<1>1. PICK e \in Evidence : IF e.stops THEN Exit(a, "evidence")
                            ELSE Set(a, "evidence", e) /\ Goto(a, "read") /\ UNCHANGED status
  BY DEF Start
<1>2. CASE e.stops
  <2>1. Exit(a, "evidence") /\ "evidence" \in Statuses
    BY <1>1, <1>2 DEF Statuses
  <2> QED BY <2>1, ExitHolds DEF Start, history, Inv, Types
<1>3. CASE ~e.stops
  <2> DEFINE m == [mem[a] EXCEPT !.evidence = e]
  <2>1. m \in Memory /\ mem' = [mem EXCEPT ![a] = m] /\ mem'[a] = m
    BY <1>1, <1>3 DEF Types, Set, Memory
  <2>2. e # Null
    BY NullAssumption
  <2>3. Holds(a)'
    <3>1. pc'[a] = "read" /\ status' = status /\ kept' = kept /\ pc[a] = "start" /\ Holds(a)
      BY <1>1, <1>3 DEF Types, Goto, Start, history, Inv
    <3> QED BY <3>1, <2>1, <2>2, <1>3 DEF Holds, Memory, Types
  <2> QED BY <1>1, <1>3, <2>1, <2>3, GoesOn DEF Start, history, Types
<1> QED BY <1>2, <1>3

\* Reading the baseline keeps the invariant.
LEMMA ReadKeeps ==
    ASSUME Types, Inv, Null \in kept, NEW a \in Actors, ReadBaseline(a) PROVE Types' /\ Inv'
<1>1. CASE Works /\ Set(a, "data", file) /\ Goto(a, "head") /\ UNCHANGED status
  <2> DEFINE m == [mem[a] EXCEPT !.data = file]
  <2>1. m \in Memory /\ mem' = [mem EXCEPT ![a] = m] /\ mem'[a] = m
    BY <1>1 DEF Types, Set, Memory
  <2>2. Holds(a)'
    <3>1. pc'[a] = "head" /\ status' = status /\ kept' = kept /\ pc[a] = "read" /\ Holds(a)
      BY <1>1 DEF Types, Goto, ReadBaseline, history, Inv
    <3>2. mem[a].ancestor # TRUE
      BY <3>1 DEF Holds
    <3> QED BY <3>1, <3>2, <2>1 DEF Holds, Memory, Types, Inv
  <2> QED BY <1>1, <2>1, <2>2, GoesOn DEF ReadBaseline, history, Types, Works
<1>2. CASE Fails /\ Exit(a, "evidence")
  <2>1. "evidence" \in Statuses
    BY DEF Statuses
  <2> QED BY <1>2, <2>1, ExitHolds, BoundAssumption DEF ReadBaseline, history, Inv, Types, Fails
<1> QED BY <1>1, <1>2 DEF ReadBaseline

\* Asking for HEAD keeps the invariant.
LEMMA HeadKeeps ==
    ASSUME Types, Inv, NEW a \in Actors, AskHead(a) PROVE Types' /\ Inv'
<1>1. PICK h \in {head, Null} : HeadCommit(h) /\ Set(a, "seen", h)
  BY DEF AskHead
<1> DEFINE m == [mem[a] EXCEPT !.seen = h]
<1>2. m \in Memory /\ mem' = [mem EXCEPT ![a] = m] /\ mem'[a] = m
  BY <1>1 DEF Types, Set, Memory
<1>3. trouble' \in Nat /\ trouble' <= MaxTrouble
  BY <1>1, BoundAssumption DEF HeadCommit, Works, Fails, Types
<1>4. Holds(a)'
  <2>1. pc'[a] = "ancestor" /\ status' = status /\ kept' = kept /\ pc[a] = "head" /\ Holds(a)
    BY DEF Types, Goto, AskHead, history, Inv
  <2> QED BY <2>1, <1>2 DEF Holds, Memory, Types, Inv
<1> QED BY <1>2, <1>3, <1>4, GoesOn DEF AskHead, history, Types

\* Asking for the ancestor keeps the invariant.
LEMMA AncestorKeeps ==
    ASSUME Types, Inv, NEW a \in Actors, AskAncestor(a) PROVE Types' /\ Inv'
<1> DEFINE asked == mem[a].seen # Null /\ Commit(mem[a].data) \in Ancestors[mem[a].seen]
<1>1. PICK v \in BOOLEAN \cup {Null} :
         /\ mem' = [mem EXCEPT ![a] = [mem[a] EXCEPT !.ancestor = v]]
         /\ v = TRUE => mem[a].ancestor = TRUE \/ (Commit(mem[a].data) # Null /\ asked)
  <2>1. CASE UNCHANGED mem
    <3>1. mem' = [mem EXCEPT ![a] = [mem[a] EXCEPT !.ancestor = mem[a].ancestor]] /\ mem[a].ancestor \in BOOLEAN \cup {Null}
      BY <2>1 DEF Types, Memory
    <3> QED BY <3>1
  <2>2. CASE Set(a, "ancestor", asked) /\ Commit(mem[a].data) # Null
    <3>1. asked \in BOOLEAN
      OBVIOUS
    <3> QED BY <2>2, <3>1 DEF Set
  <2>3. CASE Set(a, "ancestor", FALSE)
    BY <2>3 DEF Set
  <2> QED BY <2>1, <2>2, <2>3 DEF AskAncestor
<1> DEFINE m == [mem[a] EXCEPT !.ancestor = v]
<1>2. m \in Memory /\ mem' = [mem EXCEPT ![a] = m] /\ mem'[a] = m
  BY <1>1 DEF Types, Memory
<1>3. trouble' \in Nat /\ trouble' <= MaxTrouble
  <2>1. Works \/ Fails
    BY DEF AskAncestor
  <2> QED BY <2>1, BoundAssumption DEF Works, Fails, Types
<1>4. Holds(a)'
  <2>1. pc'[a] = "report" /\ status' = status /\ kept' = kept /\ pc[a] = "ancestor" /\ Holds(a)
    BY DEF Types, Goto, AskAncestor, history, Inv
  <2>2. v = TRUE => /\ mem[a].data \in Baselines /\ mem[a].data.commit # Null
                    /\ mem[a].seen # Null /\ mem[a].data.commit \in Ancestors[mem[a].seen]
    <3>1. mem[a].data \in Files
      BY DEF Types, Memory
    <3> QED BY <1>1, <2>1, <3>1 DEF Holds, Commit, Files
  <2>3. /\ m.evidence = mem[a].evidence /\ m.data = mem[a].data /\ m.seen = mem[a].seen /\ m.ancestor = v
    BY DEF Types, Memory
  <2> QED BY <2>1, <2>2, <2>3, <1>2 DEF Holds
<1> QED BY <1>2, <1>3, <1>4, GoesOn DEF AskAncestor, history, Types

\* The comparison keeps the invariant.
LEMMA CheckKeeps ==
    ASSUME Types, Inv, Null \in kept, NEW a \in Actors, Check(a) PROVE Types' /\ Inv'
<1>1. PICK s \in Statuses : /\ Exit(a, s)
                            /\ s = "ok" => Eligibility(mem[a]) = "passing"
                            /\ s = "policy" => Eligibility(mem[a]) \notin {"incomplete", "passing"}
  BY DEF Check, Statuses
<1>2. mem[a].evidence # Null
  BY DEF Check, Inv, Holds
<1> QED BY <1>1, <1>2, ExitHolds DEF Check, history, Inv, Types

\* A refusal keeps the invariant.
LEMMA RefuseKeeps ==
    ASSUME Types, Inv, Null \in kept, NEW a \in Actors, Refuse(a) PROVE Types' /\ Inv'
<1>1. CASE Eligibility(mem[a]) \in {"incomplete", "diagnostic_only"}
  <2>1. "evidence" \in Statuses /\ Exit(a, "evidence")
    BY <1>1 DEF Statuses, Refuse
  <2> QED BY <2>1, ExitHolds DEF Refuse, history, Inv, Types
<1>2. CASE Eligibility(mem[a]) \notin {"incomplete", "diagnostic_only"}
  <2>1. mem' = [mem EXCEPT ![a] = mem[a]] /\ mem[a] \in Memory
    BY <1>2 DEF Refuse, Types
  <2>2. Reliable(mem[a].evidence)
    <3>1. ~mem[a].evidence.stops
      BY DEF Refuse, Inv, Holds
    <3> QED BY <1>2, <3>1 DEF Eligibility, Reliable
  <2>3. Holds(a)'
    <3>1. pc'[a] = "body" /\ status' = status /\ kept' = kept /\ pc[a] = "report" /\ Holds(a) /\ mem' = mem
      BY <1>2 DEF Types, Goto, Refuse, history, Inv
    <3>2. a \in Updates /\ a \notin Checks
      BY ActorAssumption DEF Refuse
    <3> QED BY <3>1, <3>2, <2>2 DEF Holds
  <2> QED BY <1>2, <2>1, <2>3, GoesOn DEF Refuse, history, Types
<1> QED BY <1>1, <1>2

\* Asking for HEAD a second time keeps the invariant.
LEMMA AgainKeeps ==
    ASSUME Types, Inv, NEW a \in Actors, AskHeadAgain(a) PROVE Types' /\ Inv'
<1>1. PICK h \in {head, Null} : HeadCommit(h) /\ Set(a, "body", Body(mem[a].evidence, h))
  BY DEF AskHeadAgain
<1>2. mem[a].evidence \in Evidence /\ h \in Commits \cup {Null}
  BY DEF AskHeadAgain, Inv, Holds, Types, Memory
<1> DEFINE m == [mem[a] EXCEPT !.body = Body(mem[a].evidence, h)]
<1>3. Body(mem[a].evidence, h) \in Baselines /\ MadeFrom(Body(mem[a].evidence, h), mem[a].evidence)
  BY <1>2, BodyMade
<1>4. m \in Memory /\ mem' = [mem EXCEPT ![a] = m] /\ mem'[a] = m
  BY <1>1, <1>3 DEF Types, Set, Memory
<1>5. trouble' \in Nat /\ trouble' <= MaxTrouble
  BY <1>1, BoundAssumption DEF HeadCommit, Works, Fails, Types
<1>6. Holds(a)'
  <2>1. pc'[a] = "replace" /\ status' = status /\ kept' = kept /\ pc[a] = "body" /\ Holds(a)
    BY DEF Types, Goto, AskHeadAgain, history, Inv
  <2>2. /\ m.evidence = mem[a].evidence /\ m.data = mem[a].data /\ m.seen = mem[a].seen
        /\ m.ancestor = mem[a].ancestor /\ m.body = Body(mem[a].evidence, h)
    BY DEF Types, Memory
  <2>3. a \in Updates /\ a \notin Checks
    BY <2>1, ActorAssumption DEF Holds
  <2> QED BY <2>1, <2>2, <2>3, <1>3, <1>4 DEF Holds
<1> QED BY <1>4, <1>5, <1>6, GoesOn DEF AskHeadAgain, history, Types

\* The replacement keeps the invariant.
LEMMA ReplaceKeeps ==
    ASSUME Types, Inv, Null \in kept, NEW a \in Actors, Replace(a) PROVE Types' /\ Inv'
<1>1. a \in Updates /\ a \notin Checks /\ mem[a].body \in Baselines
  BY ActorAssumption DEF Replace, Inv, Holds
<1>2. CASE Fails /\ Exit(a, "report") /\ UNCHANGED <<file, history>>
  <2>1. "report" \in Statuses
    BY DEF Statuses
  <2> QED BY <1>1, <1>2, <2>1, ExitHolds, BoundAssumption DEF Replace, history, Inv, Types, Fails
<1>3. CASE /\ Works /\ Exit(a, "ok")
           /\ file' = mem[a].body
           /\ kept' = kept \cup {mem[a].body}
           /\ unshown' = IF file = mem[a].data THEN unshown ELSE unshown \cup {a}
  <2>1. "ok" \in Statuses
    BY DEF Statuses
  <2>2. /\ pc' \in [Actors -> {"start", "read", "head", "ancestor", "report", "body", "replace", "end"}]
        /\ status' \in [Actors -> Statuses]
        /\ mem' \in [Actors -> Memory]
        /\ \A b \in Actors : Holds(b)'
    BY <1>1, <1>3, <2>1, ExitHolds
  <2>3. Types'
    BY <1>1, <1>3, <2>2 DEF Types, Replace, Works, Files
  <2>4. \E e \in Evidence : Reliable(e) /\ MadeFrom(mem[a].body, e)
    <3>1. /\ mem[a].evidence # Null /\ Reliable(mem[a].evidence)
          /\ MadeFrom(mem[a].body, mem[a].evidence)
      BY DEF Replace, Inv, Holds
    <3>2. mem[a].evidence \in Evidence
      BY <3>1 DEF Types, Memory
    <3> QED BY <3>1, <3>2
  <2> QED BY <1>3, <2>2, <2>3, <2>4 DEF Inv
<1> QED BY <1>2, <1>3 DEF Replace

\* What other hands do to the file and to HEAD leaves the commands what they hold.
LEMMA TroubleKeeps ==
    ASSUME Types, Inv, MoveHead \/ EditFile \/ UNCHANGED vars PROVE Types' /\ Inv'
<1>1. pc' = pc /\ mem' = mem /\ status' = status /\ kept' = kept /\ unshown' = unshown
  BY DEF MoveHead, EditFile, vars, history
<1>2. Types'
  BY <1>1, BoundAssumption DEF Types, MoveHead, EditFile, vars, Files
<1>3. \A b \in Actors : Holds(b)'
  BY <1>1 DEF Inv, Holds
<1>4. file' \in kept' \cup {Damaged}
  BY <1>1 DEF Inv, MoveHead, EditFile, vars
<1> QED BY <1>1, <1>2, <1>3, <1>4 DEF Inv

IInv == Types /\ Inv /\ Null \in kept

\* The inductive invariant holds in every state (cmd_baseline.py).
LEMMA Inductive == Spec => []IInv
<1>1. Init => IInv
  <2> SUFFICES ASSUME Init PROVE IInv
    OBVIOUS
  <2>1. Types
    BY BoundAssumption DEF Init, Types, NoMemory, Memory, Files, Statuses
  <2>2. ASSUME NEW a \in Actors PROVE Holds(a)
    <3>1. /\ pc[a] = "start" /\ status[a] = "none" /\ mem[a].evidence = Null
          /\ mem[a].data = Null /\ mem[a].ancestor = Null
      BY DEF Init, NoMemory
    <3>2. Null # TRUE
      BY NullAssumption
    <3> QED BY <3>1, <3>2 DEF Holds, Init
  <2> QED BY <2>1, <2>2 DEF Init, Inv, IInv
<1>2. IInv /\ [Next]_vars => IInv'
  <2> SUFFICES ASSUME IInv, [Next]_vars PROVE IInv'
    OBVIOUS
  <2>1. Null \in kept'
    BY DEF IInv, Next, Step, Start, ReadBaseline, AskHead, AskAncestor, Check, Refuse,
           AskHeadAgain, Replace, MoveHead, EditFile, Ended, vars, history
  <2>2. ASSUME NEW a \in Actors, Step(a) PROVE Types' /\ Inv'
    BY <2>2, StartKeeps, ReadKeeps, HeadKeeps, AncestorKeeps, CheckKeeps, RefuseKeeps,
       AgainKeeps, ReplaceKeeps DEF IInv, Step
  <2>3. CASE MoveHead \/ EditFile \/ UNCHANGED vars
    BY <2>1, <2>3, TroubleKeeps DEF IInv
  <2>4. (\E a \in Actors : Step(a)) \/ MoveHead \/ EditFile \/ UNCHANGED vars
    <3>1. CASE Next
      BY <3>1 DEF Next, Ended
    <3>2. CASE vars' = vars
      BY <3>2
    <3> QED BY <3>1, <3>2
  <2>5. CASE \E a \in Actors : Step(a)
    <3>1. PICK a \in Actors : Step(a)
      BY <2>5
    <3> QED BY <2>1, <3>1, <2>2 DEF IInv
  <2> QED BY <2>1, <2>3, <2>4, <2>5 DEF IInv
<1> QED BY <1>1, <1>2, PTL DEF Spec

\* Every reachable state has the types of the code's variables (evidence.py,
\* formats/baseline.py).
THEOREM TypeCorrect == Spec => []TypeOK
<1>1. IInv => TypeOK
  BY TypesAre DEF IInv
<1> QED BY <1>1, Inductive, PTL

\* Whatever hands the file goes through, a baseline that decodes was made
\* from evidence a policy could pass on (cmd_baseline.py:86-95).
THEOREM BaselinesAreReliable == Spec => []OnlyReliable
<1>1. IInv => OnlyReliable
  BY DEF IInv, Inv, OnlyReliable
<1> QED BY <1>1, Inductive, PTL

\* A check passes only against such a baseline, of the history Git showed it
\* and with a share of covered units within the tolerance of its own, or none under
\* empty = "pass" (evidence.py:112-136, model/report.py:508-565).
THEOREM PassesAreSound == Spec => []PassComparedSoundly
<1>1. IInv => PassComparedSoundly
  <2> SUFFICES ASSUME IInv, NEW a \in Checks, status[a] = "ok"
               PROVE  LET m == mem[a] IN
                      /\ Reliable(m.evidence) /\ m.data \in Baselines
                      /\ m.data.commit = Null \/ (m.seen # Null /\ m.data.commit \in Ancestors[m.seen])
                      /\ \E e \in Evidence :
                            /\ Reliable(e) /\ MadeFrom(m.data, e)
                            /\ e.policy = m.evidence.policy /\ e.sources = m.evidence.sources
                            /\ NotBelow(m.evidence, e) \/ (m.evidence.total = 0 /\ m.evidence.empty = "pass")
                            /\ m.evidence.excluded <= e.excluded /\ m.evidence.records <= e.records
    BY DEF PassComparedSoundly
  <2> DEFINE m == mem[a]
  <2>1. a \in Actors /\ Holds(a) /\ m \in Memory
    BY DEF Actors, IInv, Inv, Types
  <2>2. m.evidence # Null /\ Eligibility(m) = "passing" /\ ~m.evidence.stops
    BY <2>1 DEF Holds
  <2>3. Reliable(m.evidence) /\ RatchetPasses(m)
    BY <2>2 DEF Eligibility, Reliable
  <2>4. m.data # Null /\ m.data # Damaged
    <3>1. RatchetState(m) = "ok"
      BY <2>3 DEF RatchetPasses
    <3> QED BY <3>1 DEF RatchetState
  <2>5. m.data \in Baselines /\ m.data \in kept
    BY <2>1, <2>4 DEF Memory, Files, Holds
  <2>6. m.data.policy = m.evidence.policy /\ (m.data.commit = Null \/ m.ancestor = TRUE)
    BY <2>3, <2>4 DEF RatchetPasses, RatchetState, Commit
  <2>7. PICK e \in Evidence : Reliable(e) /\ MadeFrom(m.data, e)
    BY <2>4, <2>5 DEF IInv, Inv
  <2>8. /\ m.data.sources = m.evidence.sources
        /\ m.evidence.excluded <= m.data.excluded /\ m.evidence.records <= m.data.records
        /\ RatioPasses(m)
    BY <2>3 DEF RatchetPasses
  <2>9. /\ e.policy = m.evidence.policy /\ e.sources = m.evidence.sources
        /\ NotBelow(m.evidence, e) \/ (m.evidence.total = 0 /\ m.evidence.empty = "pass")
        /\ m.evidence.excluded <= e.excluded /\ m.evidence.records <= e.records
    <3>1. m.evidence \in Evidence
      BY <2>1, <2>2 DEF Memory
    <3>2. NotBelow(m.evidence, e) \/ (m.evidence.total = 0 /\ m.evidence.empty = "pass")
      <4>1. RatchetLimit(m.data) = RatchetLimit(e)
        BY <2>7, LimitKept
      <4>2. CASE m.evidence.total = 0
        BY <2>8, <4>2 DEF RatioPasses
      <4>3. CASE m.evidence.total # 0
        <5>1. m.evidence.covered * RatchetLimit(e).denominator >= RatchetLimit(e).numerator * m.evidence.total
          BY <2>8, <4>1, <4>3 DEF RatioPasses
        <5> QED BY <3>1, <4>3, <5>1, MeetsLimit
      <4> QED BY <4>2, <4>3
    <3> QED BY <2>6, <2>7, <2>8, <3>2 DEF MadeFrom
  <2> QED BY <2>1, <2>3, <2>5, <2>6, <2>7, <2>9 DEF Holds
<1> QED BY <1>1, Inductive, PTL

\* Evidence that passes on its own passes against the baseline made from it, in a
\* history that has its commit, unless its metric has no units and `empty` is "fail"
\* (cmd_baseline.py:86-95, model/report.py:539-542).
THEOREM UpdatesAreFixpoints == Spec => []UpdateIsFixpoint
<1>1. IInv => UpdateIsFixpoint
  <2> SUFFICES ASSUME IInv, NEW a \in Checks, status[a] = "policy",
                      Reliable(mem[a].evidence), mem[a].evidence.passes,
                      mem[a].evidence.total # 0 \/ mem[a].evidence.empty # "fail",
                      mem[a].data \notin {Null, Damaged}, MadeFrom(mem[a].data, mem[a].evidence),
                      mem[a].data.commit = Null \/ mem[a].ancestor = TRUE
               PROVE  FALSE
    BY DEF UpdateIsFixpoint
  <2> DEFINE m == mem[a]
  <2>1. a \in Actors /\ Holds(a) /\ m \in Memory
    BY DEF Actors, IInv, Inv, Types
  <2>2. m.evidence \in Evidence /\ Eligibility(m) \notin {"incomplete", "passing"}
    BY <2>1 DEF Holds, Memory
  <2>3. RatchetState(m) = "ok"
    BY DEF RatchetState, Commit, MadeFrom
  <2>4. /\ m.data.sources = m.evidence.sources
        /\ m.evidence.excluded <= m.data.excluded /\ m.evidence.records <= m.data.records
    BY <2>2, EvidenceFacts DEF MadeFrom
  <2>5. RatioPasses(m)
    <3>1. CASE m.evidence.total = 0
      <4>1. m.evidence.empty \in {"fail", "pass"}
        BY <2>2, EvidenceAssumption DEF Facts
      <4> QED BY <3>1, <4>1 DEF RatioPasses
    <3>2. CASE m.evidence.total # 0
      <4>1. RatchetLimit(m.data) = RatchetLimit(m.evidence)
        BY LimitKept
      <4> QED BY <2>2, <3>2, <4>1, MeetsItsOwn DEF RatioPasses
    <3> QED BY <3>1, <3>2
  <2>6. RatchetPasses(m)
    BY <2>3, <2>4, <2>5 DEF RatchetPasses, Reliable
  <2> QED BY <2>2, <2>6 DEF Eligibility, Reliable
<1> QED BY <1>1, Inductive, PTL

=============================================================================
