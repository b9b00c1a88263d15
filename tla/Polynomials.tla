---------------------------- MODULE Polynomials -----------------------------
(***************************************************************************)
(* Polynomials over the integers modulo the prime P, as functions from the *)
(* monomials that occur to their coefficients (picus-core/src/ff/          *)
(* polynomial.rs, polynomial/dense_reduce.rs).  The module declares        *)
(* RECURSIVE operators: only runs of TLC use it.                           *)
(***************************************************************************)
EXTENDS Monomials, Sequences, FiniteSets

CONSTANT P

ASSUME PrimeAssumption == P \in Nat /\ P > 1

ZeroPoly == [m \in {} |-> 0]

Coefficient(p, m) == IF m \in DOMAIN p THEN p[m] ELSE 0

InverseOf(c) == CHOOSE d \in 1 .. P - 1 : (c * d) % P = 1

(* p + c * q *)
AddScaled(p, c, q) ==
    LET at(m) == (Coefficient(p, m) + c * Coefficient(q, m)) % P
    IN  [m \in {n \in DOMAIN p \cup DOMAIN q : at(n) # 0} |-> at(m)]

MulMonomial(p, m) ==
    [n \in {Times(m, k) : k \in DOMAIN p} |-> p[Quotient(n, m)]]

LeadOf(p) == CHOOSE m \in DOMAIN p : \A n \in DOMAIN p \ {m} : Greater(m, n)

LeadCoefficient(p) == p[LeadOf(p)]

MonicOf(p) == [m \in DOMAIN p |-> (p[m] * InverseOf(LeadCoefficient(p))) % P]

HomogeneousOf(p) == \A m, n \in DOMAIN p : Degree(m) = Degree(n)

(* build_spoly: the leading terms cancel. *)
SPolynomialOf(f, g) ==
    LET l == Lcm(LeadOf(f), LeadOf(g))
        scale == LeadCoefficient(f) * InverseOf(LeadCoefficient(g))
    IN  AddScaled(MulMonomial(f, Quotient(l, LeadOf(f))), P - (scale % P),
                  MulMonomial(g, Quotient(l, LeadOf(g))))

(* Take off the leading term of p: by the first divisor whose leading       *)
(* monomial divides it, or into the normal form if there is none.           *)
RECURSIVE ReduceFrom(_, _, _, _, _)
ReduceFrom(p, D, leads, nf, used) ==
    IF p = ZeroPoly THEN [nf |-> nf, used |-> used]
    ELSE
    LET lead == LeadOf(p)
        hits == {d \in DOMAIN D : Divides(leads[d], lead)}
        first == CHOOSE d \in hits : \A e \in hits : d <= e
        ratio == p[lead] * InverseOf(D[first][leads[first]])
    IN  IF hits = {}
        THEN ReduceFrom([m \in DOMAIN p \ {lead} |-> p[m]], D, leads,
                        [m \in DOMAIN nf \cup {lead} |->
                            IF m = lead THEN p[lead] ELSE nf[m]], used)
        ELSE ReduceFrom(AddScaled(p, P - (ratio % P),
                            MulMonomial(D[first], Quotient(lead, leads[first]))),
                        D, leads, nf, used \cup {first})

(* reduce_by_refs_counted: the normal form of p, and the positions of the   *)
(* divisors that took part in it.                                           *)
NormalFormOf(p, D) ==
    ReduceFrom(p, D, [d \in DOMAIN D |-> LeadOf(D[d])], ZeroPoly, {})
-----------------------------------------------------------------------------
(* The reference: Buchberger's algorithm with no criteria, no queue and no  *)
(* deactivation, and ideal membership by it.                                *)

RECURSIVE Completed(_)
Completed(D) ==
    LET rest == {NormalFormOf(SPolynomialOf(D[i], D[j]), D).nf :
                    i, j \in DOMAIN D} \ {ZeroPoly}
    IN  IF rest = {} THEN D
        ELSE Completed(Append(D, MonicOf(CHOOSE r \in rest : TRUE)))

IsGroebner(D) ==
    \A i, j \in DOMAIN D :
        i < j => NormalFormOf(SPolynomialOf(D[i], D[j]), D).nf = ZeroPoly
=============================================================================
