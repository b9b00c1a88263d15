---------------------------- MODULE SplitSearch -----------------------------
(***************************************************************************)
(* Solving one polynomial system: solve_split_gb_cancel and                *)
(* solve_single_gb of picus-solver/src/core.rs, the traced fixpoint of     *)
(* split_gb/fixpoint.rs with its cores, the loop of split_find_zero_cancel *)
(* (split_gb/mod.rs), and the depth-first search of split_gb/search.rs     *)
(* with its branching rule, its saved phases and its nogoods.              *)
(*                                                                         *)
(* QueryCache.tla has what crosses between the partitions; here a          *)
(* partition is the inputs it was generated from.                          *)
(***************************************************************************)
EXTENDS FindZero

CONSTANTS
    Methods,       \* of {"single", "split"}
    Triangular, Radical,    \* settings split_triangular, radical_membership
    MaxNogoods,    \* 4096
    MaxRounds,     \* max_fixpoint_iters
    MayCancel

ASSUME SearchAssumption ==
    /\ Methods \subseteq {"single", "split"}
    /\ Triangular \in BOOLEAN /\ Radical \in BOOLEAN /\ MayCancel \in BOOLEAN
    /\ MaxNogoods \in Nat /\ MaxRounds \in Nat

VARIABLES
    method,
    deps, incoming,    \* of each partition: inputs it, and its new generators, depend on
    rounds,
    linear,        \* polynomials that basis 0 contains whatever is assigned
    saved,         \* saved_phase
    nogoods,
    answer         \* SolveOutcome

searchVars == <<method, deps, incoming, rounds, linear, saved, nogoods, answer>>
vars == <<zeroVars, searchVars>>

Inputs == {f \in problem.polys : ~f.bitsum}
Definitions == problem.polys \ Inputs

(* The unit a basis shows when it is the whole ring. *)
One == [support |-> {}, zeros |-> {}, linear |-> TRUE, bitsum |-> FALSE]

NoDeps == [j \in 1 .. 2 |-> {}]

Init ==
    /\ problem \in Problems /\ method \in Methods
    /\ pc = "start" /\ stack = <<>> /\ bounded = FALSE
    /\ cancelled = FALSE /\ outcome = None /\ unsplit = 0 /\ misled = FALSE
    /\ deps = NoDeps /\ incoming = NoDeps /\ rounds = 0
    /\ linear = {} /\ saved = Nowhere /\ nogoods = {} /\ answer = None

Cancel ==
    /\ MayCancel /\ method = "split" /\ ~cancelled /\ answer = None
    /\ cancelled' = TRUE
    /\ UNCHANGED <<problem, pc, stack, bounded, outcome, unsplit, misled, searchVars>>

-----------------------------------------------------------------------------
(* Answers.                                                                *)

Sat(z) == [kind |-> "sat", point |-> z]
Unsat(core) == [kind |-> "unsat", core |-> core]
Unknown == [kind |-> "unknown"]

Answer(a) ==
    /\ answer' = a /\ pc' = "answered"
    /\ stack' = <<>> /\ saved' = Nowhere /\ nogoods' = {} /\ linear' = {}
    /\ bounded' = FALSE /\ deps' = NoDeps /\ incoming' = NoDeps /\ rounds' = 0
    /\ UNCHANGED <<problem, cancelled, outcome, unsplit, misled, method>>

(* verify_model, against the inputs and the definitions. *)
Verified(z) == IF z \in ZerosOf(problem, problem.polys) THEN Sat(z) ELSE Unknown

GiveUp ==
    /\ pc \in {"extend1", "extend2", "cross", "search", "dfs"}
    /\ cancelled
    /\ Answer(Unknown)

Goto(label) ==
    pc' = label /\ UNCHANGED <<problem, stack, bounded, cancelled, outcome, unsplit, misled>>

-----------------------------------------------------------------------------
(* Up to the search.                                                       *)

(* An input that is a nonzero constant is a core of its own. *)
Constants == {f \in Inputs : f.support = {} /\ f.zeros = {}}

ShortCircuit ==
    /\ pc = "start" /\ method = "split"
    /\ \E f \in Constants : Answer(Unsat({f}))

(* radical_membership_unsat, under its own budget: one basis of everything, *)
(* and a verdict only if it is the whole ring.                              *)
RadicalMembership ==
    /\ pc = "start" /\ method = "split" /\ Constants = {} /\ Radical
    /\ ZerosOf(problem, problem.polys) = {}
    /\ Answer(Unsat(Inputs))

(* build_partitions: a definition contributes no dependency. *)
BuildPartitions ==
    /\ pc = "start" /\ method = "split" /\ Constants = {}
    /\ Goto("extend1")
    /\ incoming' = [j \in 1 .. 2 |-> {f \in Inputs : j = 2 \/ f.linear}]
    /\ UNCHANGED <<method, deps, rounds, linear, saved, nogoods, answer>>

(* Everything that fed the partition. *)
AllInputDeps(j) == deps[j] \cup incoming[j]

(* extend_with_cancel_traced; the whole ring ends the fixpoint.  A core     *)
(* that would be empty is every input.                                      *)
ExtendTraced(j, here, next) ==
    /\ pc = here /\ ~cancelled
    /\ \/ /\ ZerosOf(problem, AllInputDeps(j) \cup Definitions) = {}
          /\ Answer(Unsat(IF AllInputDeps(j) = {} THEN Inputs ELSE AllInputDeps(j)))
       \/ /\ Goto(next)
          /\ deps' = [deps EXCEPT ![j] = AllInputDeps(j)]
          /\ incoming' = [incoming EXCEPT ![j] = {}]
          /\ UNCHANGED <<method, rounds, linear, saved, nogoods, answer>>

(* A bit equality may use any basis element. *)
BitEqualityDeps(j) == deps[1] \cup deps[2]

(* classify_propagation: an element of the other partition, or a bit        *)
(* equality, is a new generator; or nothing is new.                         *)
Cross ==
    /\ pc = "cross" /\ ~cancelled /\ rounds < MaxRounds
    /\ incoming' \in [1 .. 2 -> SUBSET Inputs]
    /\ \A j \in 1 .. 2 : incoming'[j] \in {{}, deps[3 - j], BitEqualityDeps(j)}
    /\ incoming' # NoDeps
    /\ rounds' = rounds + 1
    /\ Goto("extend1")
    /\ UNCHANGED <<method, deps, linear, saved, nogoods, answer>>

(* Nothing new, or the cap. *)
Settle ==
    /\ pc = "cross" /\ ~cancelled
    /\ linear' = {f \in problem.polys : f.linear}
    /\ deps' = NoDeps /\ incoming' = NoDeps /\ rounds' = 0
    /\ Goto("search")
    /\ UNCHANGED <<method, saved, nogoods, answer>>

-----------------------------------------------------------------------------
(* split_find_zero_cancel.                                                 *)

(* The frame of a new search; try_split_triangular goes first if the        *)
(* system is zero-dimensional.                                              *)
Search ==
    /\ pc = "search" /\ ~cancelled
    /\ \/ Triangular /\ problem.finite /\ Goto("triangular")
       \/ /\ pc' = "root" /\ stack' = <<NewFrame(Nowhere)>>
          /\ bounded' = FALSE
          /\ UNCHANGED <<problem, cancelled, outcome, unsplit, misled>>
    /\ UNCHANGED <<method, deps, incoming, rounds, linear, saved, nogoods, answer>>

(* solve_single_gb: the basis of everything, then find_zero. *)
Single ==
    /\ pc = "start" /\ method = "single"
    /\ \/ ZerosOf(problem, problem.polys) = {} /\ Answer(Unsat(Inputs))
       \/ Goto("triangular") /\ UNCHANGED searchVars

FindZeroRuns == FindZeroStep /\ UNCHANGED searchVars

(* What find_zero found; only the loop of the split basis searches on.      *)
AfterFindZero ==
    /\ pc = "found"
    /\ CASE outcome.kind = "sat" -> Answer(Verified(outcome.point))
         [] outcome.kind = "unsat" -> Answer(Unsat(Inputs))
         [] outcome.kind = "unknown" /\ method = "single" -> Answer(Unknown)
         [] OTHER -> /\ pc' = "root" /\ stack' = <<NewFrame(Nowhere)>>
                     /\ bounded' = FALSE
                     /\ UNCHANGED <<problem, cancelled, outcome, unsplit, misled, searchVars>>

(* Conflict: the polynomial is added to every basis and the search starts   *)
(* afresh.                                                                  *)
Conflict(f) ==
    /\ linear' = linear \cup {f}
    /\ pc' = "search" /\ stack' = <<>> /\ saved' = Nowhere /\ nogoods' = {}
    /\ UNCHANGED <<problem, bounded, cancelled, outcome, unsplit, misled, method, deps,
                   incoming, rounds, answer>>

-----------------------------------------------------------------------------
(* split_zero_extend_cancel.                                               *)

Unassigned(at) == problem.vars \ DOMAIN at

(* apply_rule_multi: complete roots of some basis, or a round robin. *)
ApplyRule(at) == RootBranchers(at, Unassigned(at)) \cup {RoundRobin(Unassigned(at))}

(* Mutant: the saved value is taken out and not put back. *)
PhaseSavedAndLost(b) ==
    [b EXCEPT !.left = SelectSeq(@, LAMBDA c : c[1] \notin DOMAIN saved \/ saved[c[1]] # c[2])]

(* apply_phase_save: the last candidate that repeats a saved value goes to  *)
(* the back.                                                                *)
PhaseSaved(b) ==
    LET n == Len(b.left)
        repeats == {i \in 1 .. n : /\ b.left[i][1] \in DOMAIN saved
                                   /\ saved[b.left[i][1]] = b.left[i][2]}
        last == CHOOSE i \in repeats : \A j \in repeats : j <= i
        moved == [i \in 1 .. n |-> IF i < last THEN b.left[i]
                                   ELSE IF i < n THEN b.left[i + 1] ELSE b.left[last]]
    IN  IF b.kind = "roots" /\ repeats # {} THEN [b EXCEPT !.left = moved] ELSE b

(* evaluate_full gives a value, and it is not zero. *)
Nonzero(f, at) ==
    f.support \subseteq DOMAIN at /\ \A z \in f.zeros : ~Extends(z, at)

Root ==
    /\ pc = "root"
    /\ \/ /\ ZerosAt(Nowhere) = {}
          /\ IF One \in linear THEN Answer(Unsat(Inputs))
             ELSE Conflict(One) \/ Answer(Unsat(Inputs))
       \/ /\ Total(Nowhere) /\ ZerosAt(Nowhere) # {}
          /\ Answer(Verified(Nowhere))
       \/ /\ ~Total(Nowhere)
          /\ \E b \in ApplyRule(Nowhere) :
                stack' = <<[NewFrame(Nowhere) EXCEPT !.brancher = PhaseSaved(b)]>>
          /\ pc' = "dfs"
          /\ UNCHANGED <<problem, bounded, cancelled, outcome, unsplit, misled, searchVars>>

InSearch == pc = "dfs" /\ ~cancelled

NoZero ==
    /\ InSearch /\ stack = <<>>
    /\ Answer(IF bounded THEN Unknown ELSE Unsat(Inputs))

(* The brancher of the top frame is exhausted. *)
Backtrack ==
    /\ InSearch /\ stack # <<>> /\ Top.brancher.left = <<>>
    /\ bounded' = (bounded \/ ~Top.brancher.exhaustive)
    /\ saved' = IF Top.last = None THEN saved ELSE Assign(saved, Top.last)
    /\ stack' = Pop
    /\ UNCHANGED <<problem, pc, cancelled, outcome, unsplit, misled, method, deps, incoming,
                   rounds, linear, nogoods, answer>>

HasCandidate == InSearch /\ stack # <<>> /\ Top.brancher.left # <<>>
Candidate == LastCandidate(Top.brancher)
NewAt == Assign(Top.at, Candidate)

(* The stack once the candidate is taken and noted. *)
Taken ==
    [stack EXCEPT ![Len(stack)] =
        [at |-> Top.at, brancher |-> WithoutLast(Top.brancher), last |-> Candidate]]

(* point_covers, against every nogood. *)
Covered == \E n \in nogoods : \A v \in DOMAIN n : v \in DOMAIN NewAt /\ NewAt[v] = n[v]

Keep == UNCHANGED <<problem, pc, bounded, cancelled, outcome, unsplit, misled, method, deps,
                    incoming, rounds, linear, saved, answer>>

SkipNogood == HasCandidate /\ Covered /\ stack' = Taken /\ nogoods' = nogoods /\ Keep

(* A basis shows that nothing extends the candidate: by a full evaluation,  *)
(* by the linear basis, or by becoming the whole ring.                      *)
Refuted == HasCandidate /\ ~Covered /\ ZerosAt(NewAt) = {}

(* Mutant: a polynomial that basis 0 has already will do. *)
ConflictsAny == {f \in problem.polys : Nonzero(f, NewAt)}

(* A polynomial of the bases that is not zero at the candidate and that     *)
(* basis 0 does not contain.                                                *)
Conflicts == {f \in problem.polys \ linear : Nonzero(f, NewAt)}

ReturnConflict == Refuted /\ \E f \in Conflicts : Conflict(f)

(* Mutant: the prefix without the failing decision is recorded. *)
PrefixOnly == Top.at

(* point_to_map of the path and the failing decision. *)
Nogood == NewAt

RecordNogood ==
    /\ Refuted
    /\ nogoods' = IF Cardinality(nogoods) < MaxNogoods
                  THEN nogoods \cup {Nogood} ELSE nogoods
    /\ stack' = Taken
    /\ Keep

ReachPoint ==
    /\ HasCandidate /\ ~Covered /\ Total(NewAt) /\ ZerosAt(NewAt) # {}
    /\ Answer(Verified(NewAt))

Descend ==
    /\ HasCandidate /\ ~Covered /\ ~Total(NewAt)
    /\ \E b \in ApplyRule(NewAt) :
          stack' = Append(Taken, [NewFrame(NewAt) EXCEPT !.brancher = PhaseSaved(b)])
    /\ nogoods' = nogoods
    /\ Keep

Step ==
    \/ GiveUp \/ ShortCircuit \/ RadicalMembership \/ BuildPartitions
    \/ ExtendTraced(1, "extend1", "extend2") \/ ExtendTraced(2, "extend2", "cross")
    \/ Cross \/ Settle \/ Search \/ Single \/ FindZeroRuns \/ AfterFindZero
    \/ Root \/ NoZero \/ Backtrack \/ SkipNogood \/ ReturnConflict \/ RecordNogood
    \/ ReachPoint \/ Descend

(* Answered: the process may stop. *)
Done == answer # None /\ UNCHANGED vars

Next == Step \/ Cancel \/ Done

Spec == Init /\ [][Next]_vars /\ WF_vars(Step)

-----------------------------------------------------------------------------
(* An answer is right: a model is a zero of every polynomial, the inputs of *)
(* a core and the definitions have no zero, and the solver gives up only    *)
(* when it is cancelled or the field is too large to enumerate (what        *)
(* core.rs:30-41 promises of SolveOutcome).  A walk of the Lex basis that   *)
(* misled the search has no such promise.                                   *)
AnswerRight ==
    answer # None =>
        CASE answer.kind = "sat" -> answer.point \in ZerosOf(problem, problem.polys)
          [] answer.kind = "unsat" ->
                misled \/ ZerosOf(problem, answer.core \cup Definitions) = {}
          [] OTHER -> cancelled \/ misled \/ ~problem.small

(* Zero z is still to be met: by a candidate left at a node it extends, or  *)
(* at one not branched on yet; or the search already counts as bounded, or  *)
(* will when a node runs out.                                               *)
InReach(z) ==
    \/ bounded
    \/ \E i \in DOMAIN stack :
         /\ Extends(z, stack[i].at)
         /\ \/ stack[i].brancher = None
            \/ ~stack[i].brancher.exhaustive
            \/ \E k \in DOMAIN stack[i].brancher.left :
                  z[stack[i].brancher.left[k][1]] = stack[i].brancher.left[k][2]

(* The search loses no zero: not by a nogood, a saved phase, a pruned       *)
(* candidate or a node that is popped.  find_zero may lose some, never all. *)
NothingLost ==
    LET zeros == ZerosOf(problem, problem.polys)
    IN  /\ pc = "dfs" => \A z \in zeros : InReach(z)
        /\ pc = "branch" /\ zeros # {} /\ ~misled => \E z \in zeros : InReach(z)

(* A nogood kept for the rest of the search is barren: no zero extends it   *)
(* (search.rs:75-79).                                                       *)
NogoodsBarren == \A n \in nogoods : ZerosAt(n) = {}

(* The search answers: a conflict is new each time, so the restarts end.    *)
Answers == <>(answer # None)
=============================================================================
