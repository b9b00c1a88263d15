------------------------------- MODULE CdclT -------------------------------
(***************************************************************************)
(* CDCL(T): the main loop of cdclt/orchestrator.rs over the SAT solver of  *)
(* sat/solver.rs and a theory plug-in.  One behaviour loads a formula,     *)
(* clause by clause, and searches until the loop returns.  An action is    *)
(* one turn of a loop of the code: a clause visited by propagate, a reason *)
(* resolved by analyze, a fact propagated by the theory, a decision.       *)
(*                                                                         *)
(* The theory is the contract of cdclt/theory.rs: it keeps the facts it is *)
(* told with a snapshot per level (ff_theory.rs: notify_fact, push, pop),  *)
(* may derive any literal some of its facts entail, and refutes a full     *)
(* assignment with any inconsistent set of its facts.                      *)
(***************************************************************************)
EXTENDS SatSolver

CONSTANTS
    Formulas,       \* sequences of clauses
    Atoms,          \* variables the theory knows; the others are auxiliary
    Theories,       \* a theory is the set of the assignments it admits
    Explain(_),     \* the sets of facts a theory that has these facts may
                    \* name as a reason or as a core
    MayCancel,      \* TRUE: the cancel token or the iteration cap may fire
    TheoryGivesUp   \* TRUE: post_check may answer Unknown

Assignments == [Vars -> BOOLEAN]

(* A theory looks at the atoms only. *)
ASSUME CdclTAssumption ==
    /\ Formulas \subseteq Seq(SUBSET Lits)
    /\ Atoms \subseteq Vars
    /\ \A T \in Theories :
          /\ T # {} /\ T \subseteq Assignments
          /\ \A m \in T, n \in Assignments :
                (\A v \in Atoms : m[v] = n[v]) => n \in T
    /\ \A F \in SUBSET Lits : Explain(F) \subseteq (SUBSET F) \ {{}}
    /\ MayCancel \in BOOLEAN
    /\ TheoryGivesUp \in BOOLEAN

VARIABLES
    formula, theory,    \* the problem: input clauses, admitted assignments
    todo,               \* input clauses not yet added
    loading,            \* TRUE until the main loop starts
    sat,                \* the SAT solver, see SatSolver
    scan,               \* propagate: the literal that became false, and its
                        \* watchers not yet visited
    an,                 \* the locals of analyze
    facts, levels,      \* theory: facts, and facts at the start of each level
    notified,           \* how much of the trail the theory has been told
    giveUp,             \* Solver.give_up
    verdict, pc

vars == <<formula, theory, todo, loading, sat, scan, an, facts, levels,
          notified, giveUp, verdict, pc>>

problem == <<formula, theory>>
loadVars == <<todo, loading>>
theoryVars == <<facts, levels, notified>>

NoScan == [lit |-> 0, rest |-> {}]
NoAnalysis == [conf |-> NoClause, pivot |-> 0, seen |-> {}, learnt |-> {},
               counter |-> 0, idx |-> 0, restarts |-> FALSE]

Init ==
    /\ formula \in Formulas
    /\ theory \in Theories
    /\ todo = formula
    /\ loading = TRUE
    /\ sat = NewSolver
    /\ scan = NoScan
    /\ an = NoAnalysis
    /\ facts = {}
    /\ levels = <<>>
    /\ notified = 0
    /\ giveUp = FALSE
    /\ verdict = "running"
    /\ pc = "load"

-----------------------------------------------------------------------------
(* Meaning: which assignments satisfy what.                                *)

Holds(m, l) == m[Var(l)] = (l > 0)
Satisfies(m, c) == \E l \in c : Holds(m, l)
IsModel(m) == m \in theory /\ \A i \in 1..Len(formula) : Satisfies(m, formula[i])
Entails(R, l) == \A m \in theory : (\A r \in R : Holds(m, r)) => Holds(m, l)
Inconsistent(R) == \A m \in theory : \E r \in R : ~Holds(m, r)

Finish(answer) == verdict' = answer /\ pc' = "done"

-----------------------------------------------------------------------------
(* Loading: Solver::add_clause, at level 0.                                *)

Redundant(c) == \E l \in c : -l \in c \/ LitValue(sat, l) = "True"

AddClause ==
    /\ pc = "load" /\ todo # <<>>
    /\ todo' = Tail(todo)
    /\ LET c == Head(todo)
           open == {l \in c : LitValue(sat, l) = "Undef"}
       IN  \/ /\ Redundant(c)
              /\ UNCHANGED <<sat, verdict, pc>>
           \/ /\ ~Redundant(c) /\ open = {}
              /\ Finish("unsat")
              /\ UNCHANGED sat
           \/ /\ ~Redundant(c)
              /\ \E l \in open : open = {l} /\ sat' = Enqueue(sat, l, NoClause)
              /\ pc' = "propagate"
              /\ UNCHANGED verdict
           \/ /\ ~Redundant(c)
              /\ \E w0, w1 \in open :
                    /\ Raw(w0) < Raw(w1)
                    /\ \A l \in open \ {w0, w1} : Raw(w1) < Raw(l)
                    /\ sat' = AddWatched(sat, open, w0, w1)
              /\ UNCHANGED <<verdict, pc>>
    /\ UNCHANGED <<problem, loading, scan, an, theoryVars, giveUp>>

StartLoop ==
    /\ pc = "load" /\ todo = <<>>
    /\ loading' = FALSE
    /\ pc' = "loop"
    /\ UNCHANGED <<problem, todo, sat, scan, an, theoryVars, giveUp, verdict>>

(* The head of cdclt_loop: cancellation and the iteration cap. *)
BeginIteration ==
    /\ pc = "loop"
    /\ \/ MayCancel /\ Finish("unknown")
       \/ pc' = "propagate" /\ UNCHANGED verdict
    /\ UNCHANGED <<problem, loadVars, sat, scan, an, theoryVars, giveUp>>

-----------------------------------------------------------------------------
(* Solver::propagate.  The literal p at the head of the queue is true: the *)
(* clauses that watch -p are visited.                                      *)

NextLiteral ==
    /\ pc = "propagate" /\ sat.qhead < Len(sat.trail)
    /\ LET p == sat.trail[sat.qhead + 1]
       IN  scan' = [lit |-> -p, rest |-> sat.watches[-p]]
    /\ sat' = [sat EXCEPT !.qhead = @ + 1]
    /\ pc' = "scan"
    /\ UNCHANGED <<problem, loadVars, an, theoryVars, giveUp, verdict>>

Quiet ==
    /\ pc = "propagate" /\ sat.qhead = Len(sat.trail)
    /\ pc' = IF loading THEN "load" ELSE "sync"
    /\ UNCHANGED <<problem, loadVars, sat, scan, an, theoryVars, giveUp, verdict>>

ScanEnd ==
    /\ pc = "scan" /\ scan.rest = {}
    /\ scan' = NoScan
    /\ pc' = "propagate"
    /\ UNCHANGED <<problem, loadVars, sat, an, theoryVars, giveUp, verdict>>

(* Clause c is satisfied by its other watch: keep this watch. *)
KeepWatch(c, other) ==
    /\ LitValue(sat, other) = "True"
    /\ scan' = [scan EXCEPT !.rest = @ \ {c}]
    /\ UNCHANGED <<sat, an, verdict, pc>>

(* Mutant: a false literal may be watched. *)
ReplacementsAny(c, other) == sat.arena[c] \ {scan.lit, other}

Replacements(c, other) ==
    {l \in sat.arena[c] \ {scan.lit, other} : LitValue(sat, l) # "False"}

MoveWatch(c, other) ==
    /\ LitValue(sat, other) # "True"
    /\ \E new \in Replacements(c, other) :
          sat' = [sat EXCEPT !.watches[scan.lit] = @ \ {c},
                             !.watches[new] = @ \cup {c}]
    /\ scan' = [scan EXCEPT !.rest = @ \ {c}]
    /\ UNCHANGED <<an, verdict, pc>>

UnitPropagate(c, other) ==
    /\ LitValue(sat, other) = "Undef"
    /\ Replacements(c, other) = {}
    /\ sat' = Enqueue(sat, other, c)
    /\ scan' = [scan EXCEPT !.rest = @ \ {c}]
    /\ UNCHANGED <<an, verdict, pc>>

(* Solver::analyze is entered with a conflict; restarts tells whether its  *)
(* caller restarts afterwards.                                             *)
StartAnalysis(s, c, restarts) ==
    /\ sat' = [s EXCEPT !.conflicts = @ + 1]
    /\ an' = [NoAnalysis EXCEPT !.conf = c, !.idx = Len(s.trail) + 1,
                                !.restarts = restarts]
    /\ pc' = "analyze"
    /\ UNCHANGED verdict

Conflict(c, other) ==
    /\ LitValue(sat, other) = "False"
    /\ Replacements(c, other) = {}
    /\ scan' = NoScan
    /\ \/ DecisionLevel(sat) = 0 /\ Finish("unsat") /\ UNCHANGED <<sat, an>>
       \/ DecisionLevel(sat) > 0 /\ StartAnalysis(sat, c, TRUE)

VisitWatcher ==
    /\ pc = "scan"
    /\ \E c \in scan.rest, other \in Lits :
          /\ other # scan.lit /\ c \in sat.watches[other]
          /\ \/ KeepWatch(c, other)
             \/ MoveWatch(c, other)
             \/ UnitPropagate(c, other)
             \/ Conflict(c, other)
    /\ UNCHANGED <<problem, loadVars, theoryVars, giveUp>>

-----------------------------------------------------------------------------
(* Solver::analyze: resolve back along the trail to the first unique       *)
(* implication point.                                                      *)

GiveUp == giveUp' = TRUE /\ Finish("unknown")

(* The literals of the clause at hand that are new and above level 0. *)
Marked ==
    {q \in sat.arena[an.conf] :
        q # an.pivot /\ Var(q) \notin an.seen /\ LevelOf(sat, q) > 0}

Resolve ==
    /\ pc = "analyze"
    /\ IF an.conf = NoClause
       THEN GiveUp /\ UNCHANGED an
       ELSE LET here == {q \in Marked : LevelOf(sat, q) = DecisionLevel(sat)}
                seen == an.seen \cup {Var(q) : q \in Marked}
                before == 1..(an.idx - 1)
                hits == {i \in before : Var(sat.trail[i]) \in seen}
                Walk(i) ==
                    LET next == sat.trail[i]
                    IN  [an EXCEPT !.conf    = sat.reason[Var(next)],
                                   !.pivot   = next,
                                   !.seen    = seen \ {Var(next)},
                                   !.learnt  = @ \cup (Marked \ here),
                                   !.counter = @ + Cardinality(here) - 1,
                                   !.idx     = i]
            IN  IF hits = {}
                THEN GiveUp /\ UNCHANGED an
                ELSE \E i \in hits :
                        /\ \A j \in hits : j <= i
                        /\ an' = Walk(i)
                        /\ pc' = IF an'.counter = 0 THEN "learn" ELSE "analyze"
                        /\ UNCHANGED <<giveUp, verdict>>
    /\ UNCHANGED <<problem, loadVars, sat, scan, theoryVars>>

(* resync_after_lemma: the theory pops down to the level of s, and the next *)
(* pass notifies from where the asserting literal was put.                  *)
PopTheory(s) ==
    LET k == DecisionLevel(s)
    IN  IF Len(levels) > k
        THEN facts' = levels[k + 1] /\ levels' = SubSeq(levels, 1, k)
        ELSE UNCHANGED <<facts, levels>>

Lower(x, y) == IF x < y THEN x ELSE y

(* Mutant: the asserting literal is not notified again. *)
ResyncForward(s, before) == PopTheory(s) /\ notified' = notified

Resync(s, before) ==
    /\ PopTheory(s)
    /\ notified' = Lower(Lower(notified, before), Len(s.trail))

(* Backjump to level bt, learn, restart if it is due. *)
BackjumpAndLearn(bt, asserting, rest, w, restarts) ==
    LET s1 == BacktrackTo(sat, bt)
        s2 == LearnClause(s1, asserting, rest, w)
        s3 == IF restarts /\ ShouldRestart(s2) THEN PerformRestart(s2) ELSE s2
    IN  /\ sat' = s3
        /\ Resync(s3, Len(s1.trail))
        /\ pc' = "loop"

(* bt is the highest level among the literals of rest, 0 if it is empty. *)
IsHighest(bt, rest) ==
    /\ \A l \in rest : LevelOf(sat, l) <= bt
    /\ IF rest = {} THEN bt = 0 ELSE \E l \in rest : LevelOf(sat, l) = bt

Learn ==
    /\ pc = "learn"
    /\ \E bt \in 0..DecisionLevel(sat) :
          /\ IsHighest(bt, an.learnt)
          /\ \E w \in IF an.learnt = {} THEN {0} ELSE an.learnt :
                BackjumpAndLearn(bt, -an.pivot, an.learnt, w, an.restarts)
    /\ an' = NoAnalysis
    /\ UNCHANGED <<problem, loadVars, scan, giveUp, verdict>>

-----------------------------------------------------------------------------
(* Solver::add_theory_lemma_with_trail, on literals that are all false.    *)

(* The level to go back to before a lemma with one literal at level top. *)
AssertionLevel(al, top, rest) ==
    LET lower == {l \in rest : LevelOf(sat, l) \in 0..(top - 1)}
    IN  IF lower = {} THEN al = top - 1 ELSE IsHighest(al, lower)

AtRoot(lits) == \A l \in lits : LevelOf(sat, l) <= 0

(* Mutant: every lemma is learnt as it is. *)
AddRawLemma(lits) ==
    \/ AtRoot(lits) /\ Finish("unsat") /\ UNCHANGED <<sat, an, theoryVars>>
    \/ \E asserting \in lits :
          LET top == LevelOf(sat, asserting)
              rest == lits \ {asserting}
          IN  /\ top > 0
              /\ \A l \in rest : LevelOf(sat, l) <= top
              /\ \E al \in 0..(top - 1) :
                    /\ AssertionLevel(al, top, rest)
                    /\ \E w \in IF rest = {} THEN {0} ELSE rest :
                          BackjumpAndLearn(al, asserting, rest, w, FALSE)
              /\ UNCHANGED <<an, verdict>>

AddTheoryLemma(lits) ==
    \/ /\ AtRoot(lits)
       /\ Finish("unsat")
       /\ UNCHANGED <<sat, an, theoryVars>>
    \/ \E asserting \in lits :
          LET top == LevelOf(sat, asserting)
              rest == lits \ {asserting}
          IN  /\ top > 0
              /\ \A l \in rest : LevelOf(sat, l) <= top
              /\ \/ /\ \E l \in rest : LevelOf(sat, l) = top
                    /\ LET s1 == AddToArena(BacktrackTo(sat, top), lits)
                       IN  StartAnalysis(s1, Len(s1.arena), FALSE)
                    /\ UNCHANGED theoryVars
                 \/ /\ \A l \in rest : LevelOf(sat, l) < top
                    /\ \E al \in 0..(top - 1) :
                          /\ AssertionLevel(al, top, rest)
                          /\ \E w \in IF rest = {} THEN {0} ELSE rest :
                                /\ \A l \in rest : LevelOf(sat, l) <= LevelOf(sat, w)
                                /\ BackjumpAndLearn(al, asserting, rest, w, FALSE)
                    /\ UNCHANGED <<an, verdict>>

-----------------------------------------------------------------------------
(* The theory side of cdclt_loop.                                          *)

AtomLits(from, to) ==
    {sat.trail[i] : i \in {j \in from..to : Var(sat.trail[j]) \in Atoms}}

(* sync_theory_after_propagate, then notify_fact for the rest of the trail. *)
Sync ==
    /\ pc = "sync"
    /\ levels' = levels \o [i \in 1..(DecisionLevel(sat) - Len(levels)) |-> facts]
    /\ facts' = facts \cup AtomLits(notified + 1, Len(sat.trail))
    /\ notified' = Len(sat.trail)
    /\ pc' = "theory"
    /\ UNCHANGED <<problem, loadVars, sat, scan, an, giveUp, verdict>>

(* run_theory_propagation, one derived literal at a time. *)
TheoryPropagates ==
    /\ pc = "theory"
    /\ \E v \in Atoms : \E l \in {v, -v}, R \in Explain(facts) :
          /\ Entails(R, l)
          /\ \/ /\ LitValue(sat, l) = "Undef"
                /\ \A r \in R : LitValue(sat, r) = "True"
                /\ \E w \in R :
                      /\ \A r \in R : LevelOf(sat, r) <= LevelOf(sat, w)
                      /\ sat' = EnqueueTheory(sat, l, R, -w)
                /\ UNCHANGED <<an, theoryVars, verdict, pc>>
             \/ /\ LitValue(sat, l) = "False"
                /\ AddTheoryLemma({l} \cup {-r : r \in R})
    /\ UNCHANGED <<problem, loadVars, scan, giveUp>>

(* Mutant: a derivation that enqueues nothing counts as progress. *)
RoundAlwaysProgresses ==
    /\ pc = "theory"
    /\ pc' = "loop"
    /\ UNCHANGED <<problem, loadVars, sat, scan, an, theoryVars, giveUp, verdict>>

(* The round is over: go on if it enqueued anything. *)
TheoryRoundEnds ==
    /\ pc = "theory"
    /\ pc' = IF Len(sat.trail) > notified THEN "loop" ELSE "check"
    /\ UNCHANGED <<problem, loadVars, sat, scan, an, theoryVars, giveUp, verdict>>

(* post_check at a full assignment. *)
TheoryAccepts ==
    /\ ~Inconsistent(facts)
    /\ Finish("sat")
    /\ UNCHANGED <<sat, an, theoryVars, giveUp>>

(* apply_theory_conflict: the lemma negates what SAT assigned to the core. *)
TheoryRefutes ==
    \E core \in Explain(facts) :
        /\ Inconsistent(core)
        /\ IF \E f \in core : LitValue(sat, f) = "Undef"
           THEN GiveUp /\ UNCHANGED <<sat, an, theoryVars>>
           ELSE /\ AddTheoryLemma({IF LitValue(sat, f) = "True" THEN -f ELSE f : f \in core})
                /\ UNCHANGED giveUp

PostCheck ==
    /\ pc = "check" /\ AllAssigned(sat)
    /\ \/ TheoryAccepts
       \/ TheoryRefutes
       \/ /\ TheoryGivesUp
          /\ Finish("unknown")
          /\ UNCHANGED <<sat, an, theoryVars, giveUp>>
    /\ UNCHANGED <<problem, loadVars, scan>>

(* pick_decision pops the heap up to an Undef variable; the popped ones    *)
(* that are assigned leave the heap.                                       *)
PickDecision ==
    /\ pc = "check" /\ ~AllAssigned(sat)
    /\ \E v \in sat.heap :
          LET popped == [sat EXCEPT !.heap = @ \ {v}]
          IN  IF LitValue(sat, v) = "Undef"
              THEN /\ \E l \in {v, -v} : sat' = Decide(popped, l)
                   /\ pc' = "loop"
              ELSE /\ sat' = popped
                   /\ UNCHANGED pc
    /\ UNCHANGED <<problem, loadVars, scan, an, theoryVars, giveUp, verdict>>

Terminated == pc = "done" /\ UNCHANGED vars

Next ==
    \/ AddClause \/ StartLoop \/ BeginIteration
    \/ NextLiteral \/ Quiet \/ ScanEnd \/ VisitWatcher
    \/ Resolve \/ Learn
    \/ Sync \/ TheoryPropagates \/ TheoryRoundEnds \/ PostCheck \/ PickDecision
    \/ Terminated

(* The loop runs in one thread. *)
Spec == Init /\ [][Next]_vars /\ WF_vars(Next)
-----------------------------------------------------------------------------
(* Properties                                                              *)

Assignment == [v \in Vars |-> sat.assigns[v] = "True"]

(* An answer is right: a Sat assignment satisfies every input clause and    *)
(* the theory admits it; an Unsat answer, from whichever of four places,    *)
(* means that no such assignment exists; and Unknown is answered only by    *)
(* a cancellation or the theory, never by the give-up exits the comments in *)
(* analyze and apply_theory_conflict call unreachable.                      *)
AnswersRight ==
    /\ verdict = "sat" => AllAssigned(sat) /\ IsModel(Assignment)
    /\ verdict = "unsat" => \A m \in theory : ~IsModel(m)
    /\ ~giveUp

(* What analyze resolves on: the reason of a literal contains it, and its   *)
(* other literals are false and were so before it (the comment on learning  *)
(* raw lemmas in add_theory_lemma_with_trail).                              *)
ReasonsAssert ==
    \A i \in 1..Len(sat.trail) :
        LET l == sat.trail[i]
            c == sat.reason[Var(l)]
        IN  c # NoClause =>
              /\ l \in sat.arena[c]
              /\ \A q \in sat.arena[c] \ {l} : \E j \in 1..(i - 1) : sat.trail[j] = -q

(* A drained queue hides no conflict: every watched clause has a true       *)
(* literal or one still open, although the second watch of a learnt clause  *)
(* is an arbitrary literal (the comment in learn_clause).                   *)
NoConflictMissed ==
    pc = "sync" =>
        \A c \in 1..Len(sat.arena) :
            (\E l \in Lits : c \in sat.watches[l]) =>
                \E l \in sat.arena[c] : LitValue(sat, l) # "False"

(* The search ends, with no bound on its iterations: restarts, unit lemmas  *)
(* stored unwatched and theory rounds that derive nothing never cycle.      *)
Decides == <>(verdict # "running")
=============================================================================
