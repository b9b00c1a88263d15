-------------------------------- MODULE Dpvl --------------------------------
(***************************************************************************)
(* The DPVL driver: picus-analysis/src/dpvl.rs (run_dpvl, iterate,         *)
(* propagate, solve) with the wire selector of selector.rs and the         *)
(* bookkeeping of the query it hands to the solver (poly_ir.rs:            *)
(* add_known_wire, set_target).  One run of `iterate` alternates a         *)
(* propagation pass with solver calls on one wire at a time.               *)
(*                                                                         *)
(* A propagation lemma is abstract here: it may promote any wires that the *)
(* known ones force.  Propagation.tla has the lemmas themselves.  The      *)
(* solver is abstract too: it may give up on any query, and answers        *)
(* otherwise what the query says.                                          *)
(***************************************************************************)
EXTENDS Circuits

CONSTANTS
    Configs,        \* resolved configurations, and whether the solver may
                    \* answer Unknown or fail
    Connectivity    \* wire_connectivity_score of the circuit

ASSUME ConfigAssumption ==
    /\ Configs \subseteq [lemmas : BOOLEAN, backend : BOOLEAN,
                          selector : {"first", "counter"},
                          solverGivesUp : BOOLEAN]
    /\ Connectivity \in [Wires -> Nat]

None == "none"

VARIABLES
    sols,           \* the circuit
    config,
    ks, us,         \* wires proved unique, wires still open
    knownSignals,   \* PolyIR.known_signals
    markers,        \* how many equalities x_w - y_w = 0 the IR holds
    target,         \* PolyIR.target_signal, as a set: empty before a solve
    uspool,         \* wires of this round not yet tried
    weights,        \* SelectorState.weights
    progress,       \* made_progress of this round
    witness,        \* the two-witness model of an Unsafe answer
    verdict,
    pc,
    asked           \* history: wires the solver was asked since ks grew

irVars == <<knownSignals, markers, target>>
vars == <<sols, config, ks, us, knownSignals, markers, target, uspool,
          weights, progress, witness, verdict, pc, asked>>

Init ==
    /\ sols \in SolutionSets
    /\ config \in Configs
    /\ ks = Inputs
    /\ us = Wires \ Inputs
    /\ knownSignals = Inputs
    /\ markers = [w \in Wires |-> 0]
    /\ target = {}
    /\ uspool = {}
    /\ weights = [w \in Wires |-> 0]
    /\ progress = FALSE
    /\ witness = <<>>
    /\ verdict = "running"
    /\ pc = "propagate"
    /\ asked = {}

-----------------------------------------------------------------------------
(* The query: both copies satisfy the circuit, share the inputs and the    *)
(* marked wires, and differ on the target.                                 *)

Shared == Inputs \cup {w \in Wires : markers[w] > 0}

DiffersOn(s, a, b) == Agree(a, b, Shared) /\ a[s] # b[s]

QuerySat(s) == \E a, b \in sols : DiffersOn(s, a, b)

(* Mutant: the equality is pushed without asking known_signals first. *)
AddKnownWiresUnguarded(W) ==
    /\ knownSignals' = knownSignals \cup W
    /\ markers' = [w \in Wires |->
                      IF w \in W \ Inputs THEN markers[w] + 1 ELSE markers[w]]

(* add_known_wire for every wire of W. *)
AddKnownWires(W) ==
    /\ knownSignals' = knownSignals \cup W
    /\ markers' = [w \in Wires |->
                      IF w \in W \ (knownSignals \cup Inputs)
                      THEN markers[w] + 1 ELSE markers[w]]

-----------------------------------------------------------------------------
(* SelectorState::select: First takes the smallest index; Counter the      *)
(* largest connectivity plus weight, the smaller index on a tie.           *)

Score(w) == Connectivity[w] + weights[w]

Selected(w, pool) ==
    /\ w \in pool
    /\ \A v \in pool \ {w} :
          IF config.selector = "first" THEN w < v
          ELSE \/ Score(w) > Score(v)
               \/ Score(w) = Score(v) /\ w < v

(* SelectorState::feedback(sid, Skip). *)
FeedbackSkip(s) ==
    weights' = IF config.selector = "counter"
               THEN [weights EXCEPT ![s] = @ - 1] ELSE weights

-----------------------------------------------------------------------------
AllTargetsKnown == Outputs \subseteq ks

Answer(v) == verdict' = v /\ pc' = "done"

(* The propagation pass at the top of the loop, and the sync of ks into the *)
(* IR that follows it whether or not any lemma is enabled.                  *)
Propagate ==
    /\ pc = "propagate"
    /\ \E new \in IF config.lemmas THEN SUBSET us ELSE {{}} :
          /\ \A w \in new : Determines(sols, ks, w)
          /\ ks' = ks \cup new
          /\ us' = us \ new
          /\ AddKnownWires(ks \cup new)
          /\ asked' = IF new = {} THEN asked ELSE {}
    /\ pc' = "check"
    /\ UNCHANGED <<sols, config, target, uspool, weights, progress, witness,
                   verdict>>

(* Mutant: a round tries the open targets only. *)
OpenTargets == us \cap Outputs

(* The wires a round tries. *)
RoundPool == us

StartRound ==
    /\ uspool' = RoundPool
    /\ progress' = FALSE
    /\ pc' = "pick"
    /\ UNCHANGED verdict

(* Are all targets known?  Without a backend nothing else can be tried. *)
Check ==
    /\ pc = "check"
    /\ \/ AllTargetsKnown /\ Answer("safe") /\ UNCHANGED <<uspool, progress>>
       \/ /\ ~AllTargetsKnown /\ ~config.backend
          /\ Answer("unknown") /\ UNCHANGED <<uspool, progress>>
       \/ ~AllTargetsKnown /\ config.backend /\ StartRound
    /\ UNCHANGED <<sols, config, ks, us, irVars, weights, witness, asked>>

(* Mutant: the wire stays in the pool. *)
PoolUntouched(s) == uspool

PoolWithout(s) == uspool \ {s}

(* Take the selected wire out of the pool and make it the query's target. *)
Pick ==
    /\ pc = "pick"
    /\ \E s \in uspool :
          /\ Selected(s, uspool)
          /\ uspool' = PoolWithout(s)
          /\ target' = {s}
          /\ asked' = asked \cup {s}
    /\ pc' = "solve"
    /\ UNCHANGED <<sols, config, ks, us, knownSignals, markers, weights,
                   progress, witness, verdict>>

(* Mutant: a solver that gave up counts as one that refuted. *)
RefutedOrUnknown(s) == ~QuerySat(s) \/ config.solverGivesUp

Refuted(s) == ~QuerySat(s)

(* Mutant: the verified wire stays among the open ones. *)
AddToKnown(s) == ks' = ks \cup {s} /\ us' = us

MoveToKnown(s) == ks' = ks \cup {s} /\ us' = us \ {s}

(* The solver refutes the query: the wire is unique, and the round ends. *)
Verified(s) ==
    /\ Refuted(s)
    /\ MoveToKnown(s)
    /\ AddKnownWires({s})
    /\ progress' = TRUE
    /\ asked' = {}
    /\ pc' = "decide"
    /\ UNCHANGED <<weights, witness, verdict>>

IsTarget(s) == s \in Outputs

(* A model for a target is a counterexample; the run ends with it. *)
SatOnTarget(s) ==
    /\ IsTarget(s)
    /\ \E a, b \in sols : DiffersOn(s, a, b) /\ witness' = <<a, b>>
    /\ Answer("unsafe")
    /\ UNCHANGED <<ks, us, knownSignals, markers, weights, progress, asked>>

(* A model for another wire, no answer or an error: try the next wire. *)
SkipWire(s) ==
    /\ (~IsTarget(s) /\ QuerySat(s)) \/ config.solverGivesUp
    /\ FeedbackSkip(s)
    /\ pc' = "pick"
    /\ UNCHANGED <<ks, us, knownSignals, markers, progress, witness, verdict,
                   asked>>

Solve ==
    /\ pc = "solve"
    /\ \E s \in target : Verified(s) \/ SatOnTarget(s) \/ SkipWire(s)
    /\ UNCHANGED <<sols, config, target, uspool>>

(* The pool is exhausted, or a wire was verified: start over, or decide. *)
Decide ==
    /\ pc = "decide" \/ (pc = "pick" /\ uspool = {})
    /\ \/ progress /\ pc' = "propagate" /\ UNCHANGED verdict
       \/ ~progress /\ Answer(IF AllTargetsKnown THEN "safe" ELSE "unknown")
    /\ UNCHANGED <<sols, config, ks, us, irVars, uspool, weights, progress,
                   witness, asked>>

Terminated == pc = "done" /\ UNCHANGED vars

Next == Propagate \/ Check \/ Pick \/ Solve \/ Decide \/ Terminated

(* One thread runs the loop, and every solver call returns: it has a        *)
(* timeout.                                                                 *)
Spec == Init /\ [][Next]_vars /\ WF_vars(Next)
-----------------------------------------------------------------------------
(* Properties                                                              *)

TypeOK ==
    /\ sols \subseteq [Wires -> Value]
    /\ config \in Configs
    /\ ks \subseteq Wires /\ us \subseteq Wires
    /\ knownSignals \subseteq Wires
    /\ markers \in [Wires -> Nat]
    /\ target \subseteq Wires /\ uspool \subseteq Wires
    /\ weights \in [Wires -> Int]
    /\ progress \in BOOLEAN
    /\ verdict \in {"running", "safe", "unsafe", "unknown"}
    /\ pc \in {"propagate", "check", "pick", "solve", "decide", "done"}
    /\ asked \subseteq Wires

(* A Safe verdict is true: the inputs determine every output, through every *)
(* chain of lemma promotions and solver refutations that led to it          *)
(* (dpvl.rs, iterate).                                                      *)
SafeIsSound ==
    verdict = "safe" => \A o \in Outputs : Determined(sols, o)

(* An Unsafe verdict carries a counterexample to uniqueness itself and not  *)
(* just to the strengthened query: two solutions with the same inputs and   *)
(* different outputs (dpvl.rs, solve, the comment on SAT models).           *)
UnsafeIsSound ==
    verdict = "unsafe" =>
        \E a, b \in sols : /\ witness = <<a, b>>
                          /\ Agree(a, b, Inputs)
                          /\ \E o \in Outputs : a[o] # b[o]

(* When the solver is called, the query equates the two copies of exactly   *)
(* the wires proved so far, one equality each, and asks about an open wire, *)
(* never an input (the assertion in set_target).                            *)
QueryMatchesKnown ==
    pc = "solve" =>
        /\ \A w \in Wires : markers[w] = IF w \in ks \ Inputs THEN 1 ELSE 0
        /\ target # {} /\ target \subseteq us
        /\ ks \cap us = {} /\ ks \cup us = Wires

(* Unknown is given up on nothing: every wire still open was put to the     *)
(* solver with all that is known now, unless there is no solver             *)
(* (the comment at the end of iterate).                                     *)
UnknownOnlyWhenExhausted ==
    verdict = "unknown" /\ config.backend => us \subseteq asked

(* With a solver that answers every query, the run ends with Safe or Unsafe. *)
DecisiveSolverDecides ==
    ~config.solverGivesUp /\ config.backend => verdict # "unknown"

(* The same query is never put to the solver twice: between two questions   *)
(* about a wire, some wire became known.                                    *)
NoQueryRepeated ==
    [][pc = "pick" /\ pc' = "solve" => target' \cap asked = {}]_vars

(* Every run ends, whatever the solver answers and the selector prefers.    *)
Termination == <>(pc = "done")

(* The driver implements the promise of Uniqueness.tla.                     *)
Abstract == INSTANCE Uniqueness WITH known <- ks

RefinesUniqueness == Abstract!Spec
=============================================================================
