-------------------------------- MODULE Terms --------------------------------
(***************************************************************************)
(* Polynomials over GF(p) as the solver's front end keeps them: lists of  *)
(* terms.  A term [c |-> coefficient, m |-> variables] names its variables *)
(* in a sequence, one occurrence for each power (an AtomKey's `vars`; a    *)
(* PolyTerm folds the repetitions into exponents).  Variables are numbers, *)
(* the indices of the producing builder's frame.  The prime is a parameter *)
(* of each operator, since one query may mix several.                      *)
(***************************************************************************)
EXTENDS Integers, Sequences, FiniteSets, SequencesExt

\* The variables of a term list.
Variables(ts) == UNION {ToSet(ts[i].m) : i \in DOMAIN ts}

Product(seq) ==
    LET upTo[k \in 0..Len(seq)] == IF k = 0 THEN 1 ELSE upTo[k - 1] * seq[k] IN upTo[Len(seq)]
SumOf(seq) ==
    LET upTo[k \in 0..Len(seq)] == IF k = 0 THEN 0 ELSE upTo[k - 1] + seq[k] IN upTo[Len(seq)]

\* The value of a term list at a point of the variables.
ValueAt(ts, x, p) ==
    SumOf([i \in DOMAIN ts |->
             ts[i].c * Product([j \in DOMAIN ts[i].m |-> x[ts[i].m[j]]])]) % p

\* Lexicographic order of sorted variable lists, as Vec<String> compares.
Before(m, n) ==
    \/ Len(m) < Len(n) /\ \A i \in DOMAIN m : m[i] = n[i]
    \/ \E i \in DOMAIN m \cap DOMAIN n :
          m[i] < n[i] /\ \A j \in 1..(i - 1) : m[j] = n[j]

Monomial(m) == SortSeq(m, <)

\* Coefficients reduced, variables sorted, terms sorted, like terms merged,
\* zero terms dropped: one normal form for each polynomial.
Normalize(ts, p) ==
    LET mono(i) == Monomial(ts[i].m)
        first == SelectSeq([i \in DOMAIN ts |-> i], LAMBDA i : \A j \in 1..(i - 1) : mono(j) # mono(i))
        coeff(i) == SumOf([j \in DOMAIN ts |-> IF mono(j) = mono(i) THEN ts[j].c ELSE 0]) % p
        merged == [k \in DOMAIN first |-> [c |-> coeff(first[k]), m |-> mono(first[k])]]
    IN  SortSeq(SelectSeq(merged, LAMBDA t : t.c # 0), LAMBDA s, t : Before(s.m, t.m))

Negated(ts, p) == [i \in DOMAIN ts |-> [ts[i] EXCEPT !.c = (p - @) % p]]

\* Fermat's little theorem.  The inverse is not looked for over GF(2).
FieldInverse(a, p) == IF a = 1 THEN 1 ELSE (CHOOSE b \in 1..(p - 1) : (a * b) % p = 1)

\* The canonical key of the atom lhs = rhs: the normal form of the
\* difference, with the first coefficient in the lower half of the field so
\* that both orders of the sides agree.
AtomKey(lhs, rhs, p) ==
    LET poly == Normalize(lhs \o Negated(rhs, p), p)
    IN  IF poly # <<>> /\ poly[1].c > p \div 2 THEN Negated(poly, p) ELSE poly

\* <<variable, value>> when the atom pins one variable to a constant, else <<>>.
SingleVarEq(key, p) ==
    IF Len(key) = 1 /\ Len(key[1].m) = 1 THEN <<key[1].m[1], 0>>
    ELSE IF Len(key) = 2 /\ key[1].m = <<>> /\ Len(key[2].m) = 1
         THEN <<key[2].m[1], ((p - key[1].c) * FieldInverse(key[2].c, p)) % p>>
         ELSE <<>>

\* The atoms of a key table that pin x, and the constant one of them pins it to.
PinningAtoms(keys, x, p) ==
    {v \in DOMAIN keys : LET eq == SingleVarEq(keys[v], p) IN eq # <<>> /\ eq[1] = x}
PinnedConstant(keys, v, p) == SingleVarEq(keys[v], p)[2]
=============================================================================
