------------------------------ MODULE Circuits ------------------------------
(***************************************************************************)
(* The vocabulary of a uniqueness question.  A circuit is known here by    *)
(* its solution set: the assignments of field elements to wires that       *)
(* satisfy every R1CS constraint.  A wire is determined when two solutions *)
(* that agree on the inputs always agree on it.  The engine compares two   *)
(* copies x_w and y_w of every wire; a pair of solutions is one value for  *)
(* each copy.                                                              *)
(***************************************************************************)
EXTENDS Integers, FiniteSets

CONSTANTS
    Wires,          \* wire indices 0 .. n_wires - 1
    Inputs,         \* input wires, the one-wire 0 among them
    Outputs,        \* output wires: the targets
    Value,          \* field elements
    SolutionSets    \* the circuits considered, each as its solution set

ASSUME CircuitAssumption ==
    /\ Wires \subseteq Nat
    /\ Inputs \subseteq Wires
    /\ Outputs \subseteq Wires \ Inputs
    /\ SolutionSets \subseteq SUBSET [Wires -> Value]

(* Two solutions give the wires of K the same values. *)
Agree(a, b, K) == \A w \in K : a[w] = b[w]

(* In every solution, the wires of K leave one value for w. *)
Determines(S, K, w) == \A a, b \in S : Agree(a, b, K) => a[w] = b[w]

(* The inputs alone determine w: what "unique" means for a signal. *)
Determined(S, w) == Determines(S, Inputs, w)
=============================================================================
