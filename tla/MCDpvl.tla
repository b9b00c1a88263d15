------------------------------- MODULE MCDpvl -------------------------------
(* Instances of Dpvl for TLC: five wires, of which 0 is the one-wire, 2 an  *)
(* input, 1 and 3 outputs and 4 internal, over two field elements; every    *)
(* circuit with at most MaxSolutions solutions.                             *)
EXTENDS Dpvl, FiniteSetsExt

CONSTANT MaxSolutions

MCWires == 0..4
MCInputs == {0, 2}
MCOutputs == {1, 3}
MCValue == {0, 1}
MCSolutionSets ==
    LET assignments == {a \in [MCWires -> MCValue] : a[0] = 1}
    IN  UNION {kSubset(k, assignments) : k \in 0..MaxSolutions}

(* Ties and a wire that overtakes another once it has been skipped. *)
MCConnectivity == [w \in MCWires |-> IF w \in {1, 3} THEN 2 ELSE 1]

(* A decisive solver is tried with the backend on, the only case it is used. *)
MCConfigs ==
    {c \in [lemmas : BOOLEAN, backend : BOOLEAN, selector : {"first", "counter"},
            solverGivesUp : BOOLEAN] : c.backend \/ c.solverGivesUp}
=============================================================================
