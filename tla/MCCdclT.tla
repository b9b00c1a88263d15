------------------------------ MODULE MCCdclT ------------------------------
(* CdclT for TLC: every selection of clauses from a pool that holds three   *)
(* of them, four theories and every explanation.                            *)
EXTENDS CdclT

MCAtoms == 1..3

Pool3 == <<{1, 2, 3}, {-1, 2, -3}, {1, -2}, {3, -3, 1}, {2, 3}, {-2}>>

Selection(pool, S) ==
    LET index == SelectSeq([i \in 1..Len(pool) |-> i], LAMBDA i : i \in S)
    IN  [k \in 1..Len(index) |-> pool[index[k]]]

Formulas3 ==
    {Selection(Pool3, S) : S \in {T \in SUBSET (1..Len(Pool3)) : {1, 3, 4} \subseteq T}}

Admitting(P(_)) == {m \in Assignments : P(m)}
(* x1 and x2 exclude each other, as x = 0 and x = 1 do; x1 forces x3. *)
Linked(m) == ~(m[1] /\ m[2]) /\ (m[1] => m[3])
Parity(m) == (m[1] = m[2]) = m[3]
(* x1 is false by itself: a core of one atom. *)
Never(m) == ~m[1] /\ (m[2] => m[3])

Theories3 == {Assignments, Admitting(Linked), Admitting(Parity), Admitting(Never)}

AnySet(F) == (SUBSET F) \ {{}}
=============================================================================
