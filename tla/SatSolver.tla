----------------------------- MODULE SatSolver -----------------------------
(***************************************************************************)
(* The state of sat::Solver (picus-solver/src/sat/solver.rs) as a record,  *)
(* and the functions that change it.  CdclT.tla drives them the way        *)
(* cdclt/orchestrator.rs does.                                             *)
(*                                                                         *)
(* A literal is a variable or its negative.  A clause is the set of its    *)
(* literals: the two at the front are the ones whose watch lists hold the  *)
(* clause, the order of the others is abstracted, and so are the VSIDS     *)
(* activities that order the heap and the saved phases.                    *)
(***************************************************************************)
EXTENDS Integers, Sequences, FiniteSets

CONSTANTS
    NVars,          \* propositional variables
    RestartBase     \* conflicts before the first restart (100 in the code)

ASSUME SolverAssumption == NVars \in Nat /\ RestartBase \in Nat \ {0}

Vars == 1..NVars
Lits == Vars \cup {-v : v \in Vars}
Var(l) == IF l > 0 THEN l ELSE -l
NoClause == 0

(* The order of Lit::raw, by which add_clause sorts. *)
Raw(l) == IF l > 0 THEN 2 * l ELSE 2 * (-l) + 1

NewSolver ==
    [assigns     |-> [v \in Vars |-> "Undef"],
     level       |-> [v \in Vars |-> -1],
     reason      |-> [v \in Vars |-> NoClause],
     trail       |-> <<>>,
     lim         |-> <<>>,
     qhead       |-> 0,
     arena       |-> <<>>,
     watches     |-> [l \in Lits |-> {}],
     heap        |-> Vars,
     conflicts   |-> 0,
     restartStep |-> RestartBase,
     lubyIdx     |-> 1]

LitValue(s, l) ==
    CASE s.assigns[Var(l)] = "Undef"                -> "Undef"
      [] s.assigns[Var(l)] = (IF l > 0 THEN "True" ELSE "False") -> "True"
      [] OTHER                                      -> "False"

DecisionLevel(s) == Len(s.lim)
LevelOf(s, l) == s.level[Var(l)]
AllAssigned(s) == Len(s.trail) = NVars

-----------------------------------------------------------------------------
(* Assign an Undef literal at the current level. *)
Enqueue(s, l, r) ==
    [s EXCEPT !.assigns[Var(l)] = IF l > 0 THEN "True" ELSE "False",
              !.level[Var(l)]   = DecisionLevel(s),
              !.reason[Var(l)]  = r,
              !.trail           = Append(@, l)]

Decide(s, l) ==
    Enqueue([s EXCEPT !.lim = Append(@, Len(s.trail))], l, NoClause)

HeapWith(s, undone) == s.heap \cup undone

QheadAfter(s, keep) == keep

(* Cancel every assignment above level k. *)
BacktrackTo(s, k) ==
    IF k >= DecisionLevel(s) THEN s ELSE
    LET keep   == s.lim[k + 1]
        undone == {Var(s.trail[i]) : i \in (keep + 1)..Len(s.trail)}
        Reset(f, d) == [v \in Vars |-> IF v \in undone THEN d ELSE f[v]]
    IN  [s EXCEPT !.assigns = Reset(s.assigns, "Undef"),
                  !.level   = Reset(s.level, -1),
                  !.reason  = Reset(s.reason, NoClause),
                  !.heap    = HeapWith(s, undone),
                  !.trail   = SubSeq(s.trail, 1, keep),
                  !.lim     = SubSeq(s.lim, 1, k),
                  !.qhead   = QheadAfter(s, keep)]

(* Add a clause to the arena without watching it; its reference is the new *)
(* length of the arena.                                                    *)
AddToArena(s, lits) == [s EXCEPT !.arena = Append(@, lits)]

AddWatched(s, lits, w0, w1) ==
    [AddToArena(s, lits) EXCEPT
        !.watches[w0] = @ \cup {Len(s.arena) + 1},
        !.watches[w1] = @ \cup {Len(s.arena) + 1}]

(* Learn {asserting} \cup rest and enqueue its asserting literal.  A unit  *)
(* clause is stored without a watch; w is the second watch of the others.  *)
LearnClause(s, asserting, rest, w) ==
    Enqueue(IF rest = {} THEN AddToArena(s, {asserting})
            ELSE AddWatched(s, {asserting} \cup rest, asserting, w),
            asserting, Len(s.arena) + 1)

(* Justify a theory-propagated literal by the clause "reasons imply l"; w  *)
(* negates a reason of the highest level.                                  *)
EnqueueTheory(s, l, reasons, w) ==
    Enqueue(AddWatched(s, {l} \cup {-r : r \in reasons}, l, w),
            l, Len(s.arena) + 1)

-----------------------------------------------------------------------------
(* The Luby sequence 1, 1, 2, 1, 1, 2, 4, ... (1-indexed). *)
Luby[i \in Nat] ==
    LET k == CHOOSE k \in 1..i : 2^k - 1 >= i /\ 2^(k - 1) - 1 < i
    IN  IF 2^k - 1 = i THEN 2^(k - 1) ELSE Luby[i - 2^(k - 1) + 1]

ShouldRestart(s) == s.conflicts >= s.restartStep

PerformRestart(s) ==
    [BacktrackTo(s, 0) EXCEPT
        !.lubyIdx     = @ + 1,
        !.restartStep = s.conflicts + RestartBase * Luby[s.lubyIdx]]
=============================================================================
