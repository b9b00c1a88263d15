----------------------------- MODULE Univariate -----------------------------
(***************************************************************************)
(* Polynomials in one variable over the integers modulo the prime P, and   *)
(* their roots: picus-solver/src/ff/univariate.rs behind gb/roots.rs.      *)
(*                                                                         *)
(* A polynomial is the sequence of its coefficients, lowest first, with a  *)
(* nonzero last one; the zero polynomial is empty.  The table of           *)
(* x^P mod f (frobenius_cached, keyed by all it depends on) is left out.   *)
(***************************************************************************)
EXTENDS Integers, Sequences, FiniteSets, FiniteSetsExt

CONSTANT P  \* a prime

One == <<1>>
X == <<0, 1>>

(* from_coeffs *)
Trimmed(s) ==
    SubSeq(s, 1, Max({0} \cup {i \in DOMAIN s : s[i] # 0}))

DegreeOf(f) == IF f = <<>> THEN 0 ELSE Len(f) - 1

At(f, i) == IF i \in DOMAIN f THEN f[i] ELSE 0

(* f + c * g *)
Combined(f, c, g) ==
    Trimmed([i \in 1 .. Max({Len(f), Len(g)}) |-> (At(f, i) + c * At(g, i)) % P])

Product(f, g) ==
    LET term(k) == MapThenSumSet(LAMBDA i : At(f, i) * At(g, k + 1 - i), 1..k)
    IN  IF f = <<>> \/ g = <<>> THEN <<>>
        ELSE Trimmed([k \in 1 .. Len(f) + Len(g) - 1 |-> term(k) % P])

Evaluated(f, x) ==
    LET horner[i \in 1 .. Len(f) + 1] ==
            IF i > Len(f) THEN 0 ELSE (horner[i + 1] * x + f[i]) % P
    IN  horner[1]

Inverted(c) == CHOOSE d \in 1 .. P - 1 : (c * d) % P = 1

MonicForm(f) ==
    IF f = <<>> THEN f
    ELSE LET inv == Inverted(f[Len(f)]) IN [i \in DOMAIN f |-> (f[i] * inv) % P]

(* c * x^k *)
Shifted(c, k) == [i \in 1 .. k + 1 |-> IF i = k + 1 THEN c ELSE 0]

(* div_rem, for a divisor that is not zero. *)
RECURSIVE DivRem(_, _)
DivRem(f, g) ==
    IF Len(f) < Len(g) THEN [quotient |-> <<>>, rest |-> f]
    ELSE LET factor == Shifted((f[Len(f)] * Inverted(g[Len(g)])) % P, Len(f) - Len(g))
             next == DivRem(Combined(f, P - 1, Product(factor, g)), g)
         IN  [next EXCEPT !.quotient = Combined(factor, 1, @)]

RECURSIVE Gcd(_, _)
Gcd(f, g) == IF g = <<>> THEN MonicForm(f) ELSE Gcd(g, DivRem(f, g).rest)

Derivative(f) ==
    IF Len(f) < 2 THEN <<>>
    ELSE Trimmed([i \in 1 .. Len(f) - 1 |-> (i * f[i + 1]) % P])

(* Square and multiply from the most significant bit. *)
RECURSIVE PowMod(_, _, _)
PowMod(f, e, modulus) ==
    IF e = 0 THEN DivRem(One, modulus).rest
    ELSE LET root == PowMod(f, e \div 2, modulus)
             square == DivRem(Product(root, root), modulus).rest
         IN  IF e % 2 = 0 THEN square
             ELSE DivRem(Product(square, DivRem(f, modulus).rest), modulus).rest
-----------------------------------------------------------------------------
(* Root finding.                                                           *)

(* f / gcd(f, f'), or f itself where the derivative vanishes. *)
Squarefree(f) ==
    IF Derivative(f) = <<>> THEN MonicForm(f)
    ELSE MonicForm(DivRem(f, Gcd(f, Derivative(f))).quotient)

(* gcd(f, x^P - x): the product of the linear factors. *)
DistinctLinearPart(f) == Gcd(f, Combined(PowMod(X, P, f), P - 1, X))

LinearFactor(r) == <<(P - r) % P, 1>>

(* What one attempt with the random shift a splits off from g. *)
Attempt(g, a) ==
    LET power == PowMod(<<a, 1>>, (P - 1) \div 2, g)
    IN  Gcd(g, Combined(power, P - 1, One))

Proper(g, h) == DegreeOf(h) > 0 /\ DegreeOf(h) < DegreeOf(g)

(* split_linear_factors: the sets of factors it may end with, a set for     *)
(* each sequence of draws.  A factor stays whole when forty draws in a row  *)
(* do not split it.                                                         *)
RECURSIVE Factorings(_)
Factorings(g) ==
    IF DegreeOf(g) = 0 THEN {{}}
    ELSE IF DegreeOf(g) = 1 THEN {{MonicForm(g)}}
    ELSE IF P = 2 THEN {{LinearFactor(r) : r \in {c \in {0, 1} : Evaluated(g, c) = 0}}}
    ELSE LET parts == {Attempt(g, a) : a \in 0 .. P - 1}
             splits(h) == {l \cup r : l \in Factorings(h),
                                      r \in Factorings(DivRem(g, h).quotient)}
         IN  UNION {IF Proper(g, h) THEN splits(h) ELSE {{g}} : h \in parts}

CantorZassenhaus(f) ==
    LET linear == DistinctLinearPart(f)
    IN  IF DegreeOf(linear) = 0 THEN {{}} ELSE Factorings(linear)

(* Mutant: an unsplit factor is forgotten without a word. *)
ReadAlwaysComplete(factors) ==
    [roots |-> {(P - f[1]) % P : f \in {h \in factors : DegreeOf(h) = 1}},
     complete |-> TRUE]

(* The roots a set of factors shows, and whether it shows all. *)
Read(factors) ==
    [roots |-> {(P - f[1]) % P : f \in {h \in factors : DegreeOf(h) = 1}},
     complete |-> \A f \in factors : DegreeOf(f) < 2]

(* find_roots_checked: what it may return. *)
FoundRoots(f) ==
    IF DegreeOf(f) = 0 THEN {[roots |-> {}, complete |-> TRUE]}
    ELSE IF DegreeOf(f) = 1
         THEN {[roots |-> {((P - f[1]) * Inverted(f[2])) % P}, complete |-> TRUE]}
         ELSE {Read(factors) : factors \in CantorZassenhaus(Squarefree(MonicForm(f)))}
-----------------------------------------------------------------------------
(* The reference: all roots, and how often one occurs.                     *)

RootsOf(f) == {x \in 0 .. P - 1 : Evaluated(f, x) = 0}

RECURSIVE Multiplicity(_, _)
Multiplicity(f, r) ==
    IF f = <<>> \/ Evaluated(f, r) # 0 THEN 0
    ELSE 1 + Multiplicity(DivRem(f, LinearFactor(r)).quotient, r)
=============================================================================
