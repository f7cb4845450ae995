------------------------------ MODULE Baseline ------------------------------
(***************************************************************************)
(* The ratchet baseline as a file several commands share: `sv0cov          *)
(* baseline` (src/sv0cov/cmd_baseline.py) and `sv0cov check` (evidence.py, *)
(* cmd_check.py) each read it, then ask Git for HEAD, then ask whether its *)
(* commit is an ancestor, and an update asks for HEAD again before it      *)
(* replaces the file.  Between any two of these steps another command may  *)
(* replace the file, a user may edit, remove or restore it, and HEAD may   *)
(* move.                                                                   *)
(***************************************************************************)
EXTENDS Integers

CONSTANTS
    Null,           \* Python's None; no file; Git has no answer
    Damaged,        \* bytes that are no baseline, or do not match their pin
    Updates,        \* the invocations of `sv0cov baseline`
    Checks,         \* the invocations of `sv0cov check`
    Commits,        \* the commits of the repository
    Ancestors,      \* of each commit: the commits it descends from, and itself
    Evidence,       \* the indexed profiles there are
    Tolerance,      \* tolerance_basis_points of the ratchet
    MaxTrouble      \* bound: how often HEAD moves, other hands change the
                    \* file, or a call fails (Git, a read, the rename)

Actors == Updates \cup Checks

\* What a report of an indexed profile depends on, besides the baseline.  The
\* ratchet has one metric: covered units of total, and what exclusions removed.
Facts == [stops     : BOOLEAN,  \* a source is not current and that is not allowed
          complete  : BOOLEAN,
          mismatch  : BOOLEAN,  \* a source is not current and that is allowed
          saturated : BOOLEAN,
          passes    : BOOLEAN,  \* every assertion but the ratchet's passes
          policy    : {"fail", "allow-ordinary"},
          empty     : {"fail", "pass"},     \* coverage.empty, of a metric without units
          sources   : Nat,      \* the set of compiled sources, by a number
          covered   : Nat, total : Nat,
          excluded  : Nat,      \* units of the metric
          records   : Nat]      \* exclusion records

\* What formats/baseline.py keeps of the evidence, and the commit.
Baselines == [commit   : Commits \cup {Null},
              policy   : {"fail", "allow-ordinary"},
              sources  : Nat, covered : Nat, total : Nat, excluded : Nat, records : Nat]

Files == Baselines \cup {Damaged, Null}

ASSUME ActorAssumption    == Updates \cap Checks = {}
ASSUME FileAssumption     == Damaged \notin Baselines /\ Null # Damaged
ASSUME NullAssumption     == /\ Null \notin Baselines /\ Null \notin Commits
                             /\ Null \notin Evidence /\ Null \notin BOOLEAN
ASSUME AncestorAssumption == Ancestors \in [Commits -> SUBSET Commits]
                             /\ \A c \in Commits : c \in Ancestors[c]
ASSUME EvidenceAssumption == Evidence \subseteq Facts /\ \A e \in Evidence : e.covered <= e.total
ASSUME BoundAssumption    == Tolerance \in Nat /\ MaxTrouble \in Nat

VARIABLES
    file,       \* the baseline file
    head,       \* the commit HEAD names
    pc,         \* per actor: its next step
    mem,        \* per actor: what it holds, until an update exits
    status,     \* per actor: its exit status
    unshown,    \* history: the updates that replaced what they had not read
    kept,       \* history: every file content there has been
    trouble     \* how often one of the troubles MaxTrouble bounds happened

history == <<kept, unshown>>
vars    == <<file, head, pc, mem, status, history, trouble>>

Statuses == {"none", "ok", "policy", "evidence", "report"}

\* evidence: the operand; data: the baseline bytes ratchet_input read; seen:
\* HEAD as it read it; ancestor: is the baseline's commit an ancestor (or
\* Null); body: the baseline an update is about to write.
NoMemory == [evidence |-> Null, data |-> Null, seen |-> Null, ancestor |-> Null, body |-> Null]

Init ==
    /\ file = Null
    /\ head \in Commits
    /\ pc = [a \in Actors |-> "start"]
    /\ mem = [a \in Actors |-> NoMemory]
    /\ status = [a \in Actors |-> "none"]
    /\ kept = {Null} /\ unshown = {}
    /\ trouble = 0

Goto(a, where)     == pc' = [pc EXCEPT ![a] = where]
Set(a, field, val) == mem' = [mem EXCEPT ![a][field] = val]

Exit(a, s) ==
    /\ Goto(a, "end") /\ status' = [status EXCEPT ![a] = s]
    /\ IF a \in Updates THEN mem' = [mem EXCEPT ![a] = NoMemory] ELSE UNCHANGED mem

\* A call works, or it is one of the calls that fail.
Works == UNCHANGED trouble
Fails == trouble < MaxTrouble /\ trouble' = trouble + 1

-----------------------------------------------------------------------------
(* The comparison (model/report.py).                                       *)

\* The commit of baseline bytes, where they decode and name one.
Commit(f) == IF f \in {Null, Damaged} THEN Null ELSE f.commit

\* ratchet_state, with the two states a file that cannot be decoded gives.
RatchetState_wrong(m) ==
    CASE m.data = Null                                -> "missing"
      [] m.data = Damaged                             -> "invalid"
      [] m.data \notin {Null, Damaged}                ->
            IF m.data.policy # m.evidence.policy THEN "incompatible"
            ELSE IF Commit(m.data) # Null /\ m.seen # Null /\ m.ancestor # TRUE THEN "stale" ELSE "ok"
RatchetState(m) ==
    CASE m.data = Null                                -> "missing"
      [] m.data = Damaged                             -> "invalid"
      [] m.data \notin {Null, Damaged}                ->
            IF m.data.policy # m.evidence.policy THEN "incompatible"
            ELSE IF Commit(m.data) # Null /\ m.ancestor # TRUE THEN "stale" ELSE "ok"

\* ratchet_limit: the baseline's share less the tolerance, never below nothing.
RatchetLimit(old) ==
    LET left == old.covered * 10000 - Tolerance * old.total IN
    IF old.total = 0 THEN [numerator |-> 0, denominator |-> 1]
    ELSE [numerator |-> IF left < 0 THEN 0 ELSE left, denominator |-> old.total * 10000]

\* The evaluation of the ratio: of a metric without units there is none to
\* compare, and the empty policy decides.
RatioPasses_wrong(m) ==
    LET limit == RatchetLimit(m.data) IN
    m.evidence.total # 0 /\ m.evidence.covered * limit.denominator >= limit.numerator * m.evidence.total
RatioPasses(m) ==
    LET limit == RatchetLimit(m.data) IN
    IF m.evidence.total = 0 THEN m.evidence.empty = "pass"
    ELSE m.evidence.covered * limit.denominator >= limit.numerator * m.evidence.total

\* _ratchet_evaluations: every one of them passes.
RatchetPasses(m) ==
    /\ RatchetState(m) = "ok"
    /\ ~m.evidence.saturated
    /\ m.data.sources = m.evidence.sources
    /\ RatioPasses(m)
    /\ m.evidence.excluded <= m.data.excluded
    /\ m.evidence.records <= m.data.records

\* _eligibility: a ratchet is an exact-count use, so saturation makes the
\* evidence diagnostic (_ineligible_uses).
Eligibility_wrong(m) ==
    IF m.evidence.mismatch \/ m.evidence.saturated THEN "diagnostic_only"
    ELSE IF m.evidence.passes /\ RatchetPasses(m) THEN "passing" ELSE "policy_failed"
Eligibility(m) ==
    IF ~m.evidence.complete THEN "incomplete"
    ELSE IF m.evidence.mismatch \/ m.evidence.saturated THEN "diagnostic_only"
    ELSE IF m.evidence.passes /\ RatchetPasses(m) THEN "passing" ELSE "policy_failed"

\* baseline_body.
Body_wrong(e, commit) ==
    [commit |-> IF commit = Null THEN Damaged ELSE commit, policy |-> e.policy, sources |-> e.sources,
     covered |-> e.covered, total |-> e.total, excluded |-> e.excluded, records |-> e.records]
Body(e, commit) ==
    [commit |-> commit, policy |-> e.policy, sources |-> e.sources,
     covered |-> e.covered, total |-> e.total, excluded |-> e.excluded, records |-> e.records]

\* head_commit: h is HEAD, or nothing when Git cannot be asked.
HeadCommit(h) == (h = head /\ Works) \/ (h = Null /\ Fails)

-----------------------------------------------------------------------------

\* load_report reads the operand and its sources; it may stop there (5).
Start(a) ==
    /\ pc[a] = "start"
    /\ \E e \in Evidence :
          IF e.stops THEN Exit(a, "evidence")
          ELSE Set(a, "evidence", e) /\ Goto(a, "read") /\ UNCHANGED status
    /\ UNCHANGED <<file, head, history, trouble>>

\* ratchet_input reads the baseline; a path that is unsafe or too long stops (5).
ReadBaseline(a) ==
    /\ pc[a] = "read"
    /\ \/ Works /\ Set(a, "data", file) /\ Goto(a, "head") /\ UNCHANGED status
       \/ Fails /\ Exit(a, "evidence")
    /\ UNCHANGED <<file, head, history>>

\* ratchet_input asks for HEAD.
AskHead(a) ==
    /\ pc[a] = "head"
    /\ \E h \in {head, Null} : HeadCommit(h) /\ Set(a, "seen", h)
    /\ Goto(a, "ancestor")
    /\ UNCHANGED <<file, status, head, history>>

\* ratchet_input asks is_ancestor, of a baseline it can decode that names a
\* commit; Git may fail to answer, which reads as no.
AskAncestor(a) ==
    /\ pc[a] = "ancestor"
    /\ IF Commit(mem[a].data) = Null THEN Works /\ UNCHANGED mem
       ELSE \/ /\ Works
               /\ Set(a, "ancestor", mem[a].seen # Null /\ Commit(mem[a].data) \in Ancestors[mem[a].seen])
            \/ Fails /\ Set(a, "ancestor", FALSE)
    /\ Goto(a, "report")
    /\ UNCHANGED <<file, status, head, history>>

\* cmd_check: exit_status of the report.
Check(a) ==
    /\ a \in Checks /\ pc[a] = "report"
    /\ Exit(a, CASE Eligibility(mem[a]) = "incomplete" -> "evidence"
                 [] Eligibility(mem[a]) = "passing"    -> "ok"
                 [] OTHER                              -> "policy")
    /\ UNCHANGED <<file, head, history, trouble>>

\* cmd_baseline: evidence a policy could not pass on is refused (5).
Refuse(a) ==
    /\ a \in Updates /\ pc[a] = "report"
    /\ IF Eligibility(mem[a]) \in {"incomplete", "diagnostic_only"}
       THEN Exit(a, "evidence") ELSE Goto(a, "body") /\ UNCHANGED <<mem, status>>
    /\ UNCHANGED <<file, head, history, trouble>>

\* cmd_baseline asks for HEAD once more, for the body, and says what the file
\* was (data) and what it is to be.
AskHeadAgain(a) ==
    /\ pc[a] = "body"
    /\ \E h \in {head, Null} : HeadCommit(h) /\ Set(a, "body", Body(mem[a].evidence, h))
    /\ Goto(a, "replace")
    /\ UNCHANGED <<file, status, head, history>>

\* replace_file: one rename, or a failure that leaves the file (6).
Replace(a) ==
    /\ pc[a] = "replace"
    /\ \/ /\ Works /\ Exit(a, "ok")
          /\ file' = mem[a].body
          /\ kept' = kept \cup {mem[a].body}
          /\ unshown' = IF file = mem[a].data THEN unshown ELSE unshown \cup {a}
       \/ Fails /\ Exit(a, "report") /\ UNCHANGED <<file, history>>
    /\ UNCHANGED head

-----------------------------------------------------------------------------
(* Everybody else.                                                         *)

\* A commit, a checkout or a reset.
MoveHead ==
    /\ trouble < MaxTrouble /\ trouble' = trouble + 1
    /\ \E c \in Commits \ {head} : head' = c
    /\ UNCHANGED <<file, pc, mem, status, history>>

\* The file is damaged or changed by hand, removed, or restored (git checkout)
\* to something it once held: without the pin nobody makes a new baseline.
EditFile ==
    /\ trouble < MaxTrouble /\ trouble' = trouble + 1
    /\ \E f \in (kept \cup {Damaged}) \ {file} : file' = f
    /\ UNCHANGED <<pc, mem, status, head, history>>

Step(a) ==
    \/ Start(a) \/ ReadBaseline(a) \/ AskHead(a) \/ AskAncestor(a)
    \/ Check(a) \/ Refuse(a) \/ AskHeadAgain(a) \/ Replace(a)

Ended == (\A a \in Actors : pc[a] = "end") /\ UNCHANGED vars

Next ==
    \/ \E a \in Actors : Step(a)
    \/ MoveHead \/ EditFile \/ Ended

Spec == Init /\ [][Next]_vars

-----------------------------------------------------------------------------

\* The types of the variables (formats/baseline.py, evidence.py).
TypeOK ==
    /\ file \in Files
    /\ head \in Commits
    /\ pc \in [Actors -> {"start", "read", "head", "ancestor", "report", "body", "replace", "end"}]
    /\ mem \in [Actors -> [evidence : Evidence \cup {Null}, data : Files,
                           seen : Commits \cup {Null}, ancestor : BOOLEAN \cup {Null},
                           body : Baselines \cup {Null}]]
    /\ status \in [Actors -> Statuses]
    /\ kept \subseteq Baselines \cup {Null}
    /\ unshown \subseteq Updates
    /\ trouble \in 0 .. MaxTrouble

\* Evidence a policy could pass on (cmd_baseline.py:19-21).
Reliable(e) == ~e.stops /\ e.complete /\ ~e.mismatch /\ ~e.saturated

\* b is what the evidence e gives.
MadeFrom(b, e) ==
    /\ b.policy = e.policy /\ b.sources = e.sources /\ b.covered = e.covered /\ b.total = e.total
    /\ b.excluded = e.excluded /\ b.records = e.records

\* Whatever hands it went through, a baseline a command can decode was made
\* from evidence a policy could pass on: complete, of current sources, with no
\* saturated count (cmd_baseline.py:19-21).
OnlyReliable ==
    \A b \in (kept \cup {file}) \ {Null, Damaged} : \E e \in Evidence : Reliable(e) /\ MadeFrom(b, e)

\* e has units, and by its share is at most the tolerance below the evidence f.
NotBelow(e, f) ==
    e.total > 0 /\ f.covered * e.total * 10000 <= e.covered * f.total * 10000 + Tolerance * f.total * e.total

\* A check that passes saw a whole baseline, of the history Git showed it, that
\* was made from evidence as reliable as its own: never a missing, damaged,
\* foreign or unanswered one.  Its share of covered units is not below that
\* evidence's by more than the tolerance, unless it has no units and `empty` is
\* "pass", and exclusions did not grow (evidence.py:112-136, model/report.py).
PassComparedSoundly ==
    \A a \in Checks : status[a] = "ok" =>
        LET m == mem[a] IN
        /\ Reliable(m.evidence) /\ m.data \in Baselines
        /\ m.data.commit = Null \/ (m.seen # Null /\ m.data.commit \in Ancestors[m.seen])
        /\ \E e \in Evidence :
              /\ Reliable(e) /\ MadeFrom(m.data, e)
              /\ e.policy = m.evidence.policy /\ e.sources = m.evidence.sources
              /\ NotBelow(m.evidence, e) \/ (m.evidence.total = 0 /\ m.evidence.empty = "pass")
              /\ m.evidence.excluded <= e.excluded /\ m.evidence.records <= e.records

\* An update is a fixpoint: evidence that passes on its own, checked against
\* the baseline made from it in a history that has its commit, passes, whoever
\* else updated or moved HEAD meanwhile (cmd_baseline.py:86-95).  Except where the
\* metric has no units and `empty` is "fail": an update takes that evidence, and
\* no check of it passes (docs/ratchets.md:77-78).
UpdateIsFixpoint ==
    \A a \in Checks : status[a] = "policy" =>
        LET m == mem[a] IN
        \/ ~Reliable(m.evidence) \/ ~m.evidence.passes
        \/ m.evidence.total = 0 /\ m.evidence.empty = "fail"
        \/ m.data \in {Null, Damaged}
        \/ ~MadeFrom(m.data, m.evidence)
        \/ m.data.commit # Null /\ m.ancestor # TRUE

\* An update replaces the baseline it read and printed as the old one
\* (cmd_baseline.py:8-14).  It does not: nothing is checked again at the
\* rename, so of two overlapping updates one is lost without being shown.
ReplacesWhatItShowed == unshown = {}

=============================================================================
