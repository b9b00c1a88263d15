------------------------------ MODULE FindZero ------------------------------
(***************************************************************************)
(* The search for a zero of one Groebner basis: find_zero_cancel of        *)
(* picus-solver/src/gb/model.rs and the branchers of gb/brancher.rs.       *)
(*                                                                         *)
(* Algebra is abstract.  A polynomial is the variables that occur in it    *)
(* and its zeros over the field; what a basis shows at a node (that it is  *)
(* the whole ring, that it fixes a variable, a univariate polynomial and   *)
(* its roots) is any fact that is true of the zeros that extend the        *)
(* assignment of the node.  SplitSearch.tla has the callers.               *)
(***************************************************************************)
EXTENDS Integers, Sequences, FiniteSets

CONSTANTS
    None,
    Problems,     \* [vars, values, small, finite, polys]
    ValueLimit,   \* values of a variable that a large field's round robin reaches
    MaxUnsplit    \* bound: nodes at which root finding leaves a factor unsplit

Points(pb) == [pb.vars -> pb.values]

ASSUME ProblemAssumption ==
    /\ ValueLimit \in Nat /\ MaxUnsplit \in Nat
    /\ \A pb \in Problems :
         /\ pb.vars = 1 .. Cardinality(pb.vars) /\ IsFiniteSet(pb.vars)
         /\ pb.values = 0 .. Cardinality(pb.values) - 1 /\ IsFiniteSet(pb.values)
         /\ pb.values # {}
         /\ pb.small \in BOOLEAN     \* the prime has at most 16 bits
         /\ pb.finite \in BOOLEAN    \* zero-dimensional
         /\ pb.polys \subseteq [support : SUBSET pb.vars, zeros : SUBSET Points(pb),
                                linear : BOOLEAN, bitsum : BOOLEAN]

Branchers(pb) ==
    [kind : {"roots", "robin", "unsat"}, left : Seq(pb.vars \X pb.values),
     exhaustive : BOOLEAN]

ASSUME NoneAssumption == \A pb \in Problems : None \notin Branchers(pb)

VARIABLES
    problem,
    pc,
    stack,      \* ideals and branchers: [at, brancher], at the partial assignment
    bounded,    \* bounded_search_used
    cancelled,  \* the token has fired
    outcome,    \* FindZeroOutcome
    unsplit,    \* nodes so far with an unsplit factor
    misled      \* history: a walk of a Lex basis refuted a system with zeros,
                \* or found what is none

zeroVars == <<problem, pc, stack, bounded, cancelled, outcome, unsplit, misled>>

ZerosOf(pb, F) == {z \in Points(pb) : \A f \in F : z \in f.zeros}

Extends(z, at) == \A v \in DOMAIN at : z[v] = at[v]

(* The zeros of the problem that extend a partial assignment. *)
ZerosAt(at) == {z \in ZerosOf(problem, problem.polys) : Extends(z, at)}

Nowhere == [v \in {} |-> 0]

Assign(at, c) == [v \in DOMAIN at \cup {c[1]} |-> IF v = c[1] THEN c[2] ELSE at[v]]

Total(at) == DOMAIN at = problem.vars

-----------------------------------------------------------------------------
(* Branchers: the candidates left, popped from the back, and whether       *)
(* running out of them shows that the node has no zero.                    *)

Candidates == problem.vars \X problem.values

(* The elements of a set in order; that of roots does not matter. *)
Ordered(U) ==
    [i \in 1 .. Cardinality(U) |->
        CHOOSE v \in U : Cardinality({w \in U : w < v}) = i - 1]

Roots(v, values) ==
    [kind |-> "roots",
     left |-> [i \in 1 .. Cardinality(values) |-> <<v, Ordered(values)[i]>>],
     exhaustive |-> TRUE]

ProvedUnsat == [kind |-> "unsat", left |-> <<>>, exhaustive |-> TRUE]

(* next of a RoundRobin: the variable changes fastest. *)
RobinAt(unassigned, k) ==
    <<unassigned[(k % Len(unassigned)) + 1],
      (k \div Len(unassigned)) % Cardinality(problem.values)>>

(* Mutant: running out of candidates always counts as a proof. *)
RobinAlwaysProves(U) ==
    LET perVar == IF problem.small THEN Cardinality(problem.values) ELSE ValueLimit
        total == perVar * Cardinality(U)
    IN  [kind |-> "robin",
         left |-> [i \in 1 .. total |-> RobinAt(Ordered(U), total - i)],
         exhaustive |-> TRUE]

(* round_robin, exhaustive when the prime has at most 16 bits. *)
RoundRobin(U) ==
    LET perVar == IF problem.small THEN Cardinality(problem.values) ELSE ValueLimit
        total == perVar * Cardinality(U)
    IN  [kind |-> "robin",
         left |-> [i \in 1 .. total |-> RobinAt(Ordered(U), total - i)],
         exhaustive |-> problem.small]

(* find_roots_checked, complete: every value a zero takes is among the      *)
(* roots of a univariate polynomial of the ideal, or of a minimal one.  The *)
(* polynomial is sharp, or it is the field's own.                           *)
RootBranchers(at, U) ==
    UNION {{Roots(v, {z[v] : z \in ZerosAt(at)}), Roots(v, problem.values)} : v \in U}

(* model_as_assignment_sequence: x_0 is popped first. *)
ModelAsSequence(z) ==
    LET n == Cardinality(problem.vars)
    IN  [kind |-> "roots",
         left |-> [i \in 1 .. n |-> <<n + 1 - i, z[n + 1 - i]>>],
         exhaustive |-> TRUE]

(* What tri_dfs on the Lex basis can assign: the value found last solves    *)
(* one residue and no other polynomial is looked at again.                  *)
Walked(at) ==
    {m \in Points(problem) :
        /\ Extends(m, at)
        /\ \E v \in problem.vars :
              \A f \in problem.polys : v \notin f.support => m \in f.zeros}

(* Case 2.5, reached when find_roots_checked was incomplete: a failed walk  *)
(* counts as a proof.  A positive-dimensional ideal, a conversion that is   *)
(* declined, and a cancellation fall through.                               *)
LexWalk(at) ==
    IF at = Nowhere /\ ~problem.finite THEN {}
    ELSE {ModelAsSequence(m) : m \in Walked(at)} \cup {ProvedUnsat}

(* The walk uses the root finder that has just failed, and does not ask     *)
(* whether it was complete.                                                 *)
Misleads(at, b) ==
    \/ b = ProvedUnsat /\ ZerosAt(at) # {}
    \/ b.kind = "roots" /\ b \notin {ModelAsSequence(z) : z \in ZerosAt(at)}

(* The variables the basis fixes by a linear univariate element. *)
Fixes(at, A) ==
    /\ DOMAIN at \subseteq A
    /\ \A v \in A, y, z \in ZerosAt(at) : y[v] = z[v]

(* What the basis leaves open: not everything, or the assignment was read   *)
(* off it.                                                                  *)
Unfixed(at) ==
    {problem.vars \ A : A \in {B \in SUBSET problem.vars :
                                 B # problem.vars /\ Fixes(at, B)}}

(* compute_candidates: roots, or a round robin for an ideal of positive     *)
(* dimension.                                                               *)
ComputeCandidates(at) ==
    UNION {RootBranchers(at, U) \cup (IF problem.finite THEN {} ELSE {RoundRobin(U)}) :
             U \in Unfixed(at)}

(* The same when a factor stays unsplit. *)
UnsplitCandidates(at) == LexWalk(at) \cup {RoundRobin(U) : U \in Unfixed(at)}

-----------------------------------------------------------------------------
Top == stack[Len(stack)]
Pop == SubSeq(stack, 1, Len(stack) - 1)

NewFrame(at) == [at |-> at, brancher |-> None, last |-> None]

Frames == [at : UNION {[D -> problem.values] : D \in SUBSET problem.vars},
           brancher : Branchers(problem) \cup {None},
           last : Candidates \cup {None}]

Found(z) == [kind |-> "sat", point |-> z]
Infeasible == [kind |-> "unsat"]
Inconclusive == [kind |-> "unknown"]

Yield(o) ==
    /\ outcome' = o /\ pc' = "found" /\ stack' = <<>>
    /\ UNCHANGED <<problem, bounded, cancelled, unsplit, misled>>

(* try_triangular_solve: verified against the basis, or no model. *)
TryTriangular ==
    /\ pc = "triangular"
    /\ \/ /\ ~cancelled /\ problem.finite
          /\ \E z \in ZerosAt(Nowhere) : Yield(Found(z))
       \/ /\ pc' = "branch"
          /\ stack' = <<NewFrame(Nowhere)>>
          /\ bounded' = FALSE
          /\ UNCHANGED <<problem, cancelled, outcome, unsplit, misled>>

Searching == pc = "branch" /\ ~cancelled /\ stack # <<>>

Stop == pc = "branch" /\ cancelled /\ stack # <<>> /\ Yield(Inconclusive)

Advance(s) ==
    stack' = s /\ UNCHANGED <<problem, pc, bounded, cancelled, outcome, unsplit, misled>>

(* The whole ring: the ideal goes, it has no brancher yet. *)
DropWholeRing ==
    /\ Searching /\ Top.brancher = None
    /\ ZerosAt(Top.at) = {}
    /\ Advance(Pop)

(* try_extract_full_assignment: every variable has its linear element, so  *)
(* the ideal is that of one point.                                          *)
ExtractAssignment ==
    /\ Searching /\ Top.brancher = None
    /\ \E z \in ZerosAt(Top.at) : ZerosAt(Top.at) = {z} /\ Yield(Found(z))

Branch ==
    /\ Searching /\ Top.brancher = None /\ ~Total(Top.at)
    /\ \E b \in ComputeCandidates(Top.at) :
          Advance([stack EXCEPT ![Len(stack)].brancher = b])

LastCandidate(b) == b.left[Len(b.left)]

WithoutLast(b) == [b EXCEPT !.left = SubSeq(@, 1, Len(@) - 1)]

BranchUnsplit ==
    /\ Searching /\ Top.brancher = None /\ ~Total(Top.at)
    /\ unsplit < MaxUnsplit
    /\ \E b \in UnsplitCandidates(Top.at) :
          /\ stack' = [stack EXCEPT ![Len(stack)].brancher = b]
          /\ misled' = (misled \/ Misleads(Top.at, b))
    /\ unsplit' = unsplit + 1
    /\ UNCHANGED <<problem, pc, bounded, cancelled, outcome>>

TryCandidate ==
    /\ Searching /\ Top.brancher # None /\ Top.brancher.left # <<>>
    /\ Advance(Append([stack EXCEPT ![Len(stack)].brancher = WithoutLast(@)],
                      NewFrame(Assign(Top.at, LastCandidate(Top.brancher)))))

BacktrackIdeal ==
    /\ Searching /\ Top.brancher # None /\ Top.brancher.left = <<>>
    /\ stack' = Pop
    /\ bounded' = (bounded \/ ~Top.brancher.exhaustive)
    /\ UNCHANGED <<problem, pc, cancelled, outcome, unsplit, misled>>

Exhaust ==
    /\ pc = "branch" /\ stack = <<>>
    /\ Yield(IF bounded THEN Inconclusive ELSE Infeasible)

FindZeroStep ==
    \/ TryTriangular \/ Stop \/ DropWholeRing \/ ExtractAssignment
    \/ Branch \/ BranchUnsplit \/ TryCandidate \/ BacktrackIdeal \/ Exhaust
=============================================================================
