----------------------------- MODULE Monomials ------------------------------
(***************************************************************************)
(* Monomials in NV variables as sequences of exponents                     *)
(* (picus-core/src/ff/monomial.rs) under the DegRevLex order, the one the  *)
(* incremental engine runs in.  Exponents are u16 in the code and checked  *)
(* for overflow; the instances stay far below.                             *)
(***************************************************************************)
EXTENDS Integers

CONSTANT NV

ASSUME VariablesAssumption == NV \in Nat \ {0}

Monomial == [1..NV -> Nat]

Degree(m) ==
    LET upTo[k \in 0..NV] == IF k = 0 THEN 0 ELSE upTo[k - 1] + m[k]
    IN  upTo[NV]
Times(a, b) == [k \in 1..NV |-> a[k] + b[k]]
Divides(a, b) == \A k \in 1..NV : a[k] <= b[k]
Quotient(a, b) == [k \in 1..NV |-> a[k] - b[k]]
Lcm(a, b) == [k \in 1..NV |-> IF a[k] >= b[k] THEN a[k] ELSE b[k]]
Coprime(a, b) == \A k \in 1..NV : a[k] = 0 \/ b[k] = 0

(* Total degree first; on a tie the smaller exponent of the last variable   *)
(* that differs makes the larger monomial.                                  *)
Greater(a, b) ==
    \/ Degree(a) > Degree(b)
    \/ /\ Degree(a) = Degree(b)
       /\ \E k \in 1..NV : /\ a[k] < b[k]
                           /\ \A j \in k + 1 .. NV : a[j] = b[j]
=============================================================================
