-------------------------- MODULE HilbertFunction ---------------------------
(***************************************************************************)
(* The Hilbert numerator of a monomial ideal and the dimension of the      *)
(* quotient read off it: picus-solver/src/ff/hilbert.rs.                   *)
(*                                                                         *)
(* An integer polynomial in t is the sequence of its coefficients, lowest  *)
(* first.  Saturation of i64 and i128 and the cap on the socle degree      *)
(* (65536) are out of the instances' reach.                                *)
(***************************************************************************)
EXTENDS Monomials, Sequences, FiniteSets, FiniteSetsExt, Combinatorics

Coeff(n, d) == IF d + 1 \in DOMAIN n THEN n[d + 1] ELSE 0

(* 1 - t^d *)
OneMinusPower(d) ==
    IF d = 0 THEN <<>>
    ELSE [k \in 1 .. d + 1 |-> IF k = 1 THEN 1 ELSE IF k = d + 1 THEN -1 ELSE 0]

(* n + c * t^d * other *)
PlusShifted(n, c, d, other) ==
    [k \in 1 .. Max({Len(n), Len(other) + d}) |-> Coeff(n, k - 1) + c * Coeff(other, k - 1 - d)]

NumeratorProduct(n, other) ==
    IF n = <<>> \/ other = <<>> THEN <<>>
    ELSE [k \in 1 .. Len(n) + Len(other) - 1 |->
             MapThenSumSet(LAMBDA i : Coeff(n, i) * Coeff(other, k - 1 - i), 0 .. k - 1)]

RECURSIVE CoprimeProduct(_)
CoprimeProduct(gens) ==
    IF gens = {} THEN <<1>>
    ELSE LET g == CHOOSE g \in gens : TRUE
         IN  NumeratorProduct(OneMinusPower(Degree(g)), CoprimeProduct(gens \ {g}))

Minimal(gens) == {g \in gens : \A h \in gens \ {g} : ~Divides(h, g)}

(* The variable in most generators, the last of several, to its least power. *)
PivotVariable(gens) ==
    LET occurs(v) == Cardinality({g \in gens : g[v] > 0})
        most == Max({occurs(v) : v \in 1..NV})
    IN  Max({v \in 1..NV : occurs(v) = most})

PurePower(v, e) == [k \in 1..NV |-> IF k = v THEN e ELSE 0]

Pivot(gens) ==
    LET v == PivotVariable(gens)
    IN  PurePower(v, Min({g[v] : g \in gens} \ {0}))

(* m / gcd(m, p) *)
Without(m, p) == [k \in 1..NV |-> IF m[k] > p[k] THEN m[k] - p[k] ELSE 0]

Colon(gens, p) == {Without(g, p) : g \in gens}

(* N(I) = N(I + (p)) + t^deg(p) * N(I : p), down to pairwise coprime        *)
(* generators.                                                              *)
RECURSIVE HilbertNumerator(_)
HilbertNumerator(gens) ==
    LET minimal == Minimal(gens)
        p == Pivot(minimal)
    IN  IF gens = {} THEN <<1>>
        ELSE IF \E g \in gens : Degree(g) = 0 THEN <<>>
        ELSE IF \A g, h \in minimal : g # h => Coprime(g, h) THEN CoprimeProduct(minimal)
        ELSE PlusShifted(
                HilbertNumerator({g \in minimal : ~Divides(p, g)} \cup {p}),
                1, Degree(p), HilbertNumerator(Colon(minimal, p)))

(* Mutant: off by one in the number of monomials of a degree. *)
HilbertAtNextDegree(n, d) ==
    MapThenSumSet(LAMBDA k : Coeff(n, k) * choose(d - k + NV, NV - 1), 0..d)

(* hf_at: the coefficient of t^d in n / (1 - t)^NV. *)
HilbertAt(n, d) ==
    MapThenSumSet(LAMBDA k : Coeff(n, k) * choose(d - k + NV - 1, NV - 1), 0..d)

PureExponents(leads, v) ==
    {m[v] : m \in {l \in leads : l[v] > 0 /\ \A k \in 1..NV \ {v} : l[k] = 0}}

ZeroDimensional(leads) == \A v \in 1..NV : PureExponents(leads, v) # {}

(* quotient_dimension, of leading monomials that give a finite quotient: the *)
(* sum of the Hilbert function up to the first degree where it vanishes.     *)
QuotientDimension(leads) ==
    LET n == HilbertNumerator(leads)
        top == MapThenSumSet(LAMBDA v : Min(PureExponents(leads, v)) - 1, 1..NV)
        at[d \in 0..top] == HilbertAt(n, d)
        end == Min({d \in 0..top : at[d] <= 0} \cup {top + 1})
    IN  IF \E m \in leads : Degree(m) = 0 THEN 0
        ELSE MapThenSumSet(LAMBDA d : at[d], 0 .. end - 1)
-----------------------------------------------------------------------------
(* The reference: the monomials no leading monomial divides.               *)

StandardMonomials(leads) ==
    {m \in [1..NV -> 0 .. Max({0} \cup UNION {PureExponents(leads, v) : v \in 1..NV})] :
        \A l \in leads : ~Divides(l, m)}
=============================================================================
