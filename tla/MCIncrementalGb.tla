-------------------------- MODULE MCIncrementalGb ---------------------------
(* IncrementalGb over GF(3) in three variables, with the arithmetic of      *)
(* Polynomials.tla.                                                         *)
EXTENDS IncrementalGb, Polynomials, TLC

X == <<1, 0, 0>>
Y == <<0, 1, 0>>
Z == <<0, 0, 1>>
One == <<0, 0, 0>>
XY == <<1, 1, 0>>
YZ == <<0, 1, 1>>
XZ == <<1, 0, 1>>
XX == <<2, 0, 0>>
YY == <<0, 2, 0>>
ZZ == <<0, 0, 2>>
XYZ == <<1, 1, 1>>

Named == [
    bit   |-> (XX :> 1) @@ (X :> 2),              \* x^2 - x
    prod  |-> (XY :> 1) @@ (Z :> 2),              \* xy - z
    prod2 |-> (YZ :> 1) @@ (X :> 2),              \* yz - x
    prod3 |-> (XZ :> 1) @@ (Y :> 2),              \* xz - y
    hom   |-> (XY :> 1) @@ (ZZ :> 2),             \* xy - z^2
    hom2  |-> (YZ :> 1) @@ (XX :> 2),             \* yz - x^2
    inv   |-> (XY :> 1) @@ (One :> 2),            \* xy - 1
    sq    |-> (YY :> 1) @@ (X :> 2),              \* y^2 - x
    cube  |-> (XYZ :> 1) @@ (X :> 1) @@ (Y :> 1), \* xyz + x + y
    lin   |-> (X :> 1) @@ (Y :> 1) @@ (One :> 1), \* x + y + 1
    zero  |-> (X :> 1),
    off   |-> (X :> 1) @@ (One :> 2),             \* x - 1
    nil   |-> (XX :> 1),                          \* x^2
    twice |-> (X :> 2)]

Distinct(pool, n) == {b \in [1..n -> pool] : Cardinality({b[k] : k \in 1..n}) = n}

(* What a caller may add: sequences of so many different generators. *)
BatchesOf(c) ==
    UNION {{[k \in 1..n |-> Named[b[k]]] : b \in Distinct(c.pool, n)} : n \in c.lengths}

Pools == {{"prod", "hom", "hom2", "inv", "nil"}, {"prod", "hom", "cube"},
          {"prod", "prod2", "bit", "inv", "nil", "off", "cube"},
          {"prod", "prod2", "hom", "inv"}, {"bit", "prod", "prod2", "prod3", "inv"},
          {"zero", "off", "twice", "prod"}}

Plain(pool, lengths, most, deepest) ==
    [pool |-> pool, lengths |-> lengths, calls |-> most, depth |-> deepest,
     cancels |-> FALSE, period |-> 2, homogPeriod |-> 2,
     traced |-> FALSE, trackDeps |-> FALSE, indexCache |-> FALSE, threshold |-> 2]

Levels == Plain({"prod", "hom", "hom2", "inv", "nil"}, {1, 2}, 2, 1)
Cancelling == [Plain({"prod", "hom", "cube"}, {1, 3}, 2, 1) EXCEPT !.cancels = TRUE]
Observed ==
    [Plain({"prod", "prod2", "bit", "inv", "nil", "off", "cube"}, {3}, 1, 0)
        EXCEPT !.period = 1, !.homogPeriod = 1, !.traced = TRUE, !.trackDeps = TRUE]

Indexed == [Plain({"prod", "prod2", "hom", "inv"}, {1, 3}, 2, 0) EXCEPT !.indexCache = TRUE]

AllConfigs == {Levels, Cancelling, Observed, Indexed}

SkippingConfigs ==
    {[Plain({"zero", "off", "twice", "prod"}, {3}, 1, 0)
        EXCEPT !.traced = TRUE, !.trackDeps = TRUE]}

(* @@ makes TLC tabulate the function once. *)
Ideals ==
    [S \in UNION {SUBSET {Named[n] : n \in pool} : pool \in Pools}
        |-> Completed(SetToSeq(S))] @@ <<>>

MemberOf(p, S) ==
    LET D == S \ {ZeroPoly}
    IN  NormalFormOf(p, IF D \in DOMAIN Ideals THEN Ideals[D]
                        ELSE Completed(SetToSeq(D))).nf = ZeroPoly

(* r without the leading monomial of the monic p. *)
Cleared(r, p) == AddScaled(r, P - Coefficient(r, LeadOf(p)), p)

(* Gaussian elimination: the rows in echelon form. *)
RECURSIVE Echelon(_)
Echelon(rows) ==
    IF rows = {} THEN <<>>
    ELSE LET p == MonicOf(CHOOSE r \in rows : TRUE)
         IN  <<p>> \o Echelon({Cleared(r, p) : r \in rows} \ {ZeroPoly})

JoinedOf(p, q, t, D) ==
    LET at(f) == MulMonomial(MonicOf(f), Quotient(t, LeadOf(f)))
        factors(d) == {m \in [1..NV -> 0..Degree(t)] : Greater(t, Times(m, LeadOf(d)))}
        rows == UNION {{MulMonomial(d, m) : m \in factors(d)} : d \in D}
    IN  FoldLeft(Cleared, AddScaled(at(p), P - 1, at(q)), Echelon(rows)) = ZeroPoly

\* The arithmetic keeps what the proofs ask of it, on samples.
Few == {Named[n] : n \in {"prod", "prod2", "inv", "off"}}
Sample == Few \cup {ZeroPoly, Named.twice, MonicOf((One :> 2))}
              \cup {SPolynomialOf(p, q) : p, q \in Few}
Divisors == {<<>>} \cup UNION {[1..n -> Few \cup {(One :> 1)}] : n \in 1..2}

\* x^2 - x and x^2 are joined by x.
Fewer == {Named[n] : n \in {"bit", "nil", "twice"}}
Leading == {X, XX, <<2, 1, 0>>}

ASSUME SampleAssumption ==
    /\ Membership(Sample, Divisors, SUBSET Few)
    /\ Dividing(Sample, Divisors)
    /\ Joining(Fewer, Leading, SUBSET Fewer)
    /\ Criteria(Few \cup Fewer, Divisors, SUBSET Fewer)
    /\ Buchberger(Sample, Divisors, SUBSET Few)
=============================================================================
