---------------------------- MODULE Propagation -----------------------------
(***************************************************************************)
(* The propagation layer on real polynomials: R1CS lowering into the two   *)
(* copies (picus-smt/src/poly_ir.rs), the lemmas aboz, basis2, bim,        *)
(* binary01, linear and tecomplete with their matchers (picus-analysis/    *)
(* src/propagation/), and the loop that runs them in rounds (dpvl.rs,      *)
(* propagate).  Circuits are R1CS constraint lists over a small prime      *)
(* field, so that what a lemma concludes can be compared with the          *)
(* solutions themselves.                                                   *)
(*                                                                         *)
(* A polynomial is a function from its monomials to nonzero coefficients;  *)
(* a monomial is the ascending sequence of its variables, with repetition. *)
(* Not modelled: the 254-bit CompConstant companion of basis2, which no    *)
(* circuit this small can contain.                                         *)
(***************************************************************************)
EXTENDS Selection, FiniteSets, Functions, FiniteSetsExt, SequencesExt

CONSTANTS
    Circuits,   \* [p, n, inputs, r1cs]: the prime, the number of wires, the
                \* input wires, the constraints
    Lemmas      \* enabled lemmas, sorted by name

ASSUME PropagationAssumption ==
    /\ \A c \in Circuits :
          /\ c.p \in Nat \ {0, 1} /\ c.n \in Nat \ {0}
          /\ 0 \in c.inputs /\ c.inputs \subseteq 0 .. c.n - 1
          /\ c.r1cs \in Seq(Range(c.r1cs))
          /\ \A k \in Range(c.r1cs) : \A block \in {k.a, k.b, k.c} :
                /\ DOMAIN block \subseteq 0 .. c.n - 1
                /\ block \in [DOMAIN block -> Nat]
          /\ \A x \in 1 .. c.p - 1 : \E y \in 1 .. c.p - 1 : (x * y) % c.p = 1
    /\ Lemmas \in Seq(Range(Lemmas))

VARIABLES
    circuit,
    equalities,     \* PolyIR.equalities
    known, unknown, \* the partition of PropagationCtx
    ranges,         \* wire -> set of possible values; absent: unconstrained
    disjunctions,   \* PolyIR.disjunctions, each a set of variables, one zero
    learned,        \* learned_disjunctions of this round
    emitted,        \* AbozLemma.emitted
    binaryWires,    \* Binary01Lemma.binary_wires
    turn,           \* index of the next lemma of the round
    fired,          \* any_run_progress of the round
    knownBefore,    \* known at the start of the round
    emittedBefore,  \* history: emitted at the start of the round
    pc,
    solutions       \* history: the solutions of the circuit

P == circuit.p
NWires == circuit.n
Inputs == circuit.inputs

Wires == 0 .. NWires - 1    \* wire 0 is the one-wire
GF == 0 .. P - 1
One == 2 * NWires           \* index of the constant in a linear form
Neg(c) == (P - c) % P

given == <<circuit, solutions>>
ctxVars == <<known, unknown, ranges, learned>>
before == <<knownBefore, emittedBefore>>
vars == <<given, equalities, known, unknown, ranges, disjunctions, learned,
          emitted, binaryWires, turn, fired, before, pc>>

-----------------------------------------------------------------------------
(* Lowering *)

Var(w, alt) == IF alt /\ w \notin Inputs THEN NWires + w ELSE w
Wire(v) == v % NWires
VarsOf(poly) == UNION {Range(mono) : mono \in DOMAIN poly}

NonZero(f) == Restrict(f, {m \in DOMAIN f : f[m] # 0})

(* block_to_linear: the one-wire folds into the constant, and an input      *)
(* keeps its x variable in both copies.                                     *)
LinearForm(block, alt) ==
    [v \in 0 .. One |->
        LET ws == {w \in DOMAIN block :
                      v = IF w = 0 THEN One ELSE Var(w, alt)}
        IN  IF ws = {} THEN 0 ELSE block[CHOOSE w \in ws : TRUE] % P]

(* Mutant: a product term keeps one of its two halves. *)
ConstraintPolyHalf(c, alt) ==
    LET A == LinearForm(c.a, alt)
        B == LinearForm(c.b, alt)
        C == LinearForm(c.c, alt)
        used == {v \in 0 .. One - 1 : A[v] + B[v] + C[v] > 0}
        constant == << <<>>, A[One] * B[One] - C[One] >>
        linear == {<< <<v>>, A[v] * B[One] + A[One] * B[v] - C[v] >> : v \in used}
        products == {<< <<v, w>>, A[v] * B[w] >> : v \in used, w \in used}
        ascending == {t \in products : t[1][1] <= t[1][2]}
        terms == {constant} \cup linear \cup ascending
    IN  NonZero([m \in {t[1] : t \in terms} |->
                    (CHOOSE t \in terms : t[1] = m)[2] % P])

(* constraint_to_poly: A * B - C in one copy. *)
ConstraintPoly(c, alt) ==
    LET A == LinearForm(c.a, alt)
        B == LinearForm(c.b, alt)
        C == LinearForm(c.c, alt)
        used == {v \in 0 .. One - 1 : A[v] + B[v] + C[v] > 0}
        constant == << <<>>, A[One] * B[One] - C[One] >>
        linear == {<< <<v>>, A[v] * B[One] + A[One] * B[v] - C[v] >> : v \in used}
        squares == {<< <<v, v>>, A[v] * B[v] >> : v \in used}
        products == {<< <<v, w>>, A[v] * B[w] + A[w] * B[v] >> :
                        v \in used, w \in used}
        ascending == {t \in products : t[1][1] < t[1][2]}
        terms == {constant} \cup linear \cup squares \cup ascending
    IN  NonZero([m \in {t[1] : t \in terms} |->
                    (CHOOSE t \in terms : t[1] = m)[2] % P])

CopyOf(r1cs, alt) ==
    LET polys == [i \in DOMAIN r1cs |-> ConstraintPoly(r1cs[i], alt)]
    IN  Selected(polys, {q \in Range(polys) : DOMAIN q # {}})

OnePin == [m \in {<<0>>, <<>>} |-> IF m = <<0>> THEN 1 ELSE P - 1]

LoweredIR(r1cs) == CopyOf(r1cs, FALSE) \o CopyOf(r1cs, TRUE) \o <<OnePin>>

Marker(w) == [m \in {<<w>>, <<NWires + w>>} |-> IF m = <<w>> THEN 1 ELSE P - 1]

(* The markers the wires of K lack. *)
NewMarkers(K) ==
    LET missing == {w \in K \ Inputs : Marker(w) \notin Range(equalities)}
    IN  Selected([i \in 1 .. NWires |-> Marker(i - 1)], {Marker(w) : w \in missing})

-----------------------------------------------------------------------------
(* Ranges (range.rs) *)

IsSingleton(r) == Cardinality(r) = 1
IsBinary(w) == w \in DOMAIN ranges /\ ranges[w] # {} /\ ranges[w] \subseteq {0, 1}
ExcludesZero(w) == w \in DOMAIN ranges /\ ranges[w] # {} /\ 0 \notin ranges[w]

-----------------------------------------------------------------------------
(* linear: a variable that occurs only in degree-1 terms is forced once the *)
(* other wires of its polynomial are known.                                 *)

LinearOnly(poly) ==
    {v \in VarsOf(poly) :
        \A m \in DOMAIN poly : v \in Range(m) => Len(m) = 1}

Implications ==
    UNION {{<<Wire(v), {Wire(u) : u \in VarsOf(poly) \ {v}} \ {Wire(v)}>> :
               v \in LinearOnly(poly)} : poly \in Range(equalities)}

(* The least set that holds the known wires and is closed under the          *)
(* implications to unknown ones.                                             *)
LinearClosure ==
    LET imps == {imp \in Implications : imp[1] \in unknown}
        heads == {imp[1] : imp \in imps}
        closed == {K \in SUBSET heads :
                      \A imp \in imps : imp[2] \subseteq known \cup K => imp[1] \in K}
    IN  known \cup {w \in heads : \A K \in closed : w \in K}

-----------------------------------------------------------------------------
(* binary01: c * (x^2 - x) = 0 *)

BinaryMatches ==
    {Wire(v) : v \in {u \in 0 .. One - 1 :
        \E poly \in Range(equalities) :
            /\ DOMAIN poly = {<<u, u>>, <<u>>}
            /\ (poly[<<u, u>>] + poly[<<u>>]) % P = 0}}

TightenedRanges ==
    LET fresh == BinaryMatches \ binaryWires
    IN  [w \in DOMAIN ranges \cup fresh |->
            IF w \notin fresh THEN ranges[w]
            ELSE IF w \in DOMAIN ranges THEN ranges[w] \cap {0, 1} ELSE {0, 1}]

-----------------------------------------------------------------------------
(* basis2: target = sum of 2^k * bit_k, up to sign *)

IsLinear(poly) == \A m \in DOMAIN poly : Len(m) = 1

PowerOfTwo(k) ==
    LET upTo[i \in 0 .. k] == IF i = 0 THEN 1 ELSE 2 * upTo[i - 1]
    IN  upTo[k]

(* The weight of v when cand is taken for the target of +-1. *)
BitWeight(poly, cand, v) ==
    IF poly[<<cand>>] = 1 THEN Neg(poly[<<v>>]) ELSE poly[<<v>>]

IsTarget(poly, cand) ==
    LET bits == VarsOf(poly) \ {cand}
    IN  /\ poly[<<cand>>] \in {1, P - 1}
        /\ {BitWeight(poly, cand, v) : v \in bits}
               = {PowerOfTwo(k) : k \in 0 .. Cardinality(bits) - 1}

(* match_decomp takes the first candidate in term order, which for linear   *)
(* terms is the order of the variables.                                     *)
Decompositions(poly) ==
    LET cands == {v \in VarsOf(poly) : IsTarget(poly, v)}
    IN  IF IsLinear(poly) /\ Cardinality(VarsOf(poly)) > 1
        THEN {v \in cands : \A u \in cands : v <= u} ELSE {}

(* 2^n <= P, n the number of bits: the sum does not wrap. *)
FitsField(poly) == PowerOfTwo(Cardinality(VarsOf(poly)) - 1) <= P

(* One equality of the pass, K being what is known so far. *)
Basis2At(poly, K) ==
    K \cup UNION {LET bits == {Wire(v) : v \in VarsOf(poly) \ {t}}
                  IN  IF /\ \A b \in bits : IsBinary(b)
                         /\ FitsField(poly)
                         /\ Wire(t) \in K
                      THEN bits \cap unknown ELSE {} : t \in Decompositions(poly)}

Basis2Known == FoldLeft(LAMBDA K, poly : Basis2At(poly, K), known, equalities)

-----------------------------------------------------------------------------
(* bim: a square invertible homogeneous linear system over unknown wires *)

BimRows ==
    LET rows == Selected(equalities, {q \in Range(equalities) : IsLinear(q)})
    IN  [i \in DOMAIN rows |->
            [w \in Wires |->
                LET coeff(v) == IF <<v>> \in DOMAIN rows[i] THEN rows[i][<<v>>] ELSE 0
                IN  (coeff(w) + coeff(NWires + w)) % P]]

BimWires ==
    UNION {{Wire(v) : v \in VarsOf(poly)} :
              poly \in {q \in Range(equalities) : IsLinear(q)}}

RowProduct(row, z) ==
    SumFunctionOnSet([w \in DOMAIN z |-> row[w] * z[w]], DOMAIN z) % P

(* A nonzero determinant: only the zero vector is mapped to zero. *)
Invertible(rows, ws) ==
    \A z \in [ws -> GF] :
        (\A i \in DOMAIN rows : RowProduct(rows[i], z) = 0) =>
            \A w \in ws : z[w] = 0

BimFires ==
    /\ BimWires # {}
    /\ Len(BimRows) = Cardinality(BimWires)
    /\ BimWires \subseteq unknown
    /\ Invertible(BimRows, BimWires)

-----------------------------------------------------------------------------
(* aboz: x * y0 = 0, x * y1 = 0 and a linear sum over x, y0, y1 and a known *)
(* partner.                                                                 *)

IsBilinear(poly) ==
    \E v, w \in VarsOf(poly) : v # w /\ DOMAIN poly = {<<v, w>>}

Products ==
    LET polys == Selected(equalities, {q \in Range(equalities) : IsBilinear(q)})
    IN  [i \in DOMAIN polys |-> {Wire(v) : v \in VarsOf(polys[i])}]

LinearSums ==
    LET polys == Selected(equalities, {q \in Range(equalities) :
                     VarsOf(q) # {} /\ \A m \in DOMAIN q : Len(m) <= 1})
    IN  [i \in DOMAIN polys |-> {Wire(v) : v \in VarsOf(polys[i])}]

(* The matches of one pass, in the order of its loops: two products that    *)
(* share a wire and differ in the other, and a sum over the three wires.    *)
Matches(products, sums) ==
    LET n == Len(products)
        m == Len(sums)
        nth == [k \in 1 .. n * n * m |->
                   <<((k - 1) \div (n * m)) + 1, (((k - 1) \div m) % n) + 1,
                     ((k - 1) % m) + 1>>]
    IN  Selected(nth, {t \in Range(nth) :
            /\ t[1] < t[2]
            /\ Cardinality(products[t[1]] \cap products[t[2]]) = 1
            /\ products[t[1]] \cup products[t[2]] \subseteq sums[t[3]]})

AltVar(w) == Var(w, TRUE)

(* Mutant: the alt copy of the clause names the y variables of inputs too. *)
ZeroProductAlt(s, o) == {{s, o}, {NWires + s, NWires + o}}

ZeroProduct(s, o) == {{s, o}, {AltVar(s), AltVar(o)}}

SelectorNonZero(x) == ExcludesZero(x)

(* Mutant: every pass emits its clauses again. *)
NotDeduplicated(pairs) == pairs

Fresh(pairs) == pairs \ emitted

(* One match, acc holding what the pass promoted and matched so far: with   *)
(* the shared wire x and a partner known, y0 and y1 are zero if x is not;   *)
(* otherwise only the zero-product clauses follow.                          *)
AbozAt(acc, y0, y1, x, sum) ==
    IF x \notin acc.known \/ (sum \ {x, y0, y1}) \cap acc.known = {} THEN acc
    ELSE IF SelectorNonZero(x)
    THEN [acc EXCEPT !.known = @ \cup ({y0, y1} \cap unknown)]
    ELSE [acc EXCEPT !.pairs = @ \cup Fresh({<<x, y0>>, <<x, y1>>})]

AbozPass ==
    LET products == Products
        sums == LinearSums
        The(S) == CHOOSE w \in S : TRUE
        At(acc, t) ==
            LET p == products[t[1]]
                q == products[t[2]]
            IN  AbozAt(acc, The(p \ q), The(q \ p), The(p \cap q), sums[t[3]])
    IN  FoldLeft(At, [known |-> known, pairs |-> {}], Matches(products, sums))

-----------------------------------------------------------------------------
(* tecomplete: the addition of two points of a twisted Edwards curve,       *)
(*     xout (1 + d tau) = beta + gamma    beta = x1 y2    tau = beta gamma  *)
(*     yout (1 - d tau) = a beta - gamma + delta          gamma = y1 x2     *)
(*     delta = (y1 - a x1) (x2 + y2)                                        *)

Originals == Selected(equalities, {q \in Range(equalities) : VarsOf(q) \subseteq Wires})

IsProduct(m) == Len(m) = 2 /\ m[1] # m[2]
Coefficient(q, m) == IF m \in DOMAIN q THEN q[m] ELSE 0

(* product_defs: the factors of w = a b, of the last such equality. *)
DefinesProduct(q, w) ==
    \E m \in DOMAIN q : /\ IsProduct(m) /\ q[m] = P - 1
                        /\ DOMAIN q = {<<w>>, m} /\ q[<<w>>] = 1

Factors(polys, w) ==
    LET defs == {i \in DOMAIN polys : DefinesProduct(polys[i], w)}
    IN  IF defs = {} THEN {} ELSE VarsOf(polys[Max(defs)]) \ {w}

(* as_denominator: v + d v tau - num, with v the first of the two factors   *)
(* that also stands alone.                                                  *)
Denominators(q) ==
    LET quads == {m \in DOMAIN q : Len(m) > 1}
        heads(m) == {k \in 1 .. 2 : Coefficient(q, <<m[k]>>) = 1}
    IN  {[v |-> m[Min(heads(m))], tau |-> m[3 - Min(heads(m))], d |-> q[m],
          num |-> [t \in {t \in DOMAIN q : m[Min(heads(m))] \notin Range(t)} |-> Neg(q[t])]] :
            m \in {m \in quads : quads = {m} /\ IsProduct(m) /\ heads(m) # {}}}

(* expected_delta; a product of a wire with itself matches nothing. *)
Ascending(v, w) == IF v < w THEN <<v, w>> ELSE <<w, v>>

ExpectedDelta(wd, x1, y1, x2, y2, a) ==
    LET terms == << << <<wd>>, 1>>,
                    <<Ascending(x2, y1), P - 1>>, <<Ascending(y2, y1), P - 1>>,
                    <<Ascending(x2, x1), a>>, <<Ascending(y2, x1), a>> >>
        part(m) == [k \in 1 .. 5 |-> IF terms[k][1] = m THEN terms[k][2] ELSE 0]
        sum(m) == SumFunctionOnSet(part(m), 1 .. 5)
    IN  NonZero([m \in {terms[k][1] : k \in 1 .. 5} |-> sum(m) % P])

IsDelta(polys, wd, x1, y1, x2, y2, a) ==
    LET bare == {i \in DOMAIN polys : Coefficient(polys[i], <<wd>>) = 1}
    IN  /\ bare # {} /\ {x1, y1} \cap {x2, y2} = {}
        /\ polys[Min(bare)] = ExpectedDelta(wd, x1, y1, x2, y2, a)

IsSquare(c) == \E r \in GF \ {0} : (r * r) % P = c

(* Mutant: the two Legendre symbols are not looked at. *)
AnyParameters(a, d) == TRUE

(* With these neither denominator is zero on a solution. *)
Certified(a, d) == IsSquare(a) /\ d # 0 /\ ~IsSquare(d)

(* The inputs of the gadget with these two denominators: the factors of beta *)
(* and gamma, the factors of tau.                                            *)
IsGadget(polys, dx, dy, beta, gamma) ==
    LET a == Coefficient(dy.num, <<beta>>) IN
    /\ beta # gamma
    /\ dx.num = [m \in {<<beta>>, <<gamma>>} |-> 1]
    /\ Certified(a, dx.d)
    /\ \E wd \in Wires \ {beta, gamma} :
          /\ dy.num = [m \in {<<beta>>, <<gamma>>, <<wd>>} |->
                          IF m = <<beta>> THEN a ELSE IF m = <<gamma>> THEN P - 1 ELSE 1]
          /\ \E x1, y2 \in Factors(polys, beta), y1, x2 \in Factors(polys, gamma) :
                x1 # y2 /\ y1 # x2 /\ IsDelta(polys, wd, x1, y1, x2, y2, a)

GadgetInputs(polys, dx, dy) ==
    LET tau == Factors(polys, dx.tau)
    IN  {Factors(polys, pr[1]) \cup Factors(polys, pr[2]) :
            pr \in {pr \in tau \X tau : IsGadget(polys, dx, dy, pr[1], pr[2])}}

(* One pair of equalities of the pass, K being what is known so far. *)
TecompleteAt(polys, K, i, j) ==
    LET outputs(dx, dy) ==
            IF /\ dx.v # dy.v /\ dx.tau = dy.tau /\ dy.d = Neg(dx.d)
               /\ \E ins \in GadgetInputs(polys, dx, dy) : ins \subseteq K
            THEN {dx.v, dy.v} ELSE {}
    IN  K \cup (unknown \cap
            UNION {outputs(dx, dy) : dx \in Denominators(polys[i]),
                                     dy \in Denominators(polys[j])})

TecompletePass ==
    LET polys == Originals
        n == Len(polys)
    IN  FoldLeft(LAMBDA K, k : TecompleteAt(polys, K, ((k - 1) \div n) + 1,
                                            ((k - 1) % n) + 1),
                 known, [k \in 1 .. n * n |-> k])

-----------------------------------------------------------------------------
(* Solutions of the circuit, from the R1CS constraints alone *)

LinearAt(block, a, p) ==
    SumFunctionOnSet([w \in DOMAIN block |-> block[w] * a[w]], DOMAIN block) % p

Holds(k, a, p) ==
    (LinearAt(k.a, a, p) * LinearAt(k.b, a, p)) % p = LinearAt(k.c, a, p)

Assignments(c) ==
    {[w \in 0 .. c.n - 1 |-> IF w = 0 THEN 1 ELSE a[w]] :
        a \in [1 .. c.n - 1 -> 0 .. c.p - 1]}

SolutionsOf(c) ==
    {a \in Assignments(c) : \A i \in DOMAIN c.r1cs : Holds(c.r1cs[i], a, c.p)}

(* Solutions with the same inputs give the wire the same value. *)
Unique(w) ==
    Cardinality({<<Restrict(a, Inputs), a[w]>> : a \in solutions})
        = Cardinality({Restrict(a, Inputs) : a \in solutions})

-----------------------------------------------------------------------------
(* The propagation loop *)

Init ==
    /\ circuit \in Circuits
    /\ equalities = <<>>
    /\ known = Inputs
    /\ unknown = Wires \ Inputs
    /\ ranges = [w \in {0} |-> {1}]
    /\ disjunctions = {}
    /\ learned = {}
    /\ emitted = {}
    /\ binaryWires = {}
    /\ turn = 1
    /\ fired = FALSE
    /\ knownBefore = Inputs
    /\ emittedBefore = {}
    /\ pc = "lower"
    /\ solutions = SolutionsOf(circuit)

Lower ==
    /\ pc = "lower"
    /\ equalities' = LoweredIR(circuit.r1cs)
    /\ pc' = "round"
    /\ UNCHANGED <<given, ctxVars, disjunctions, emitted, binaryWires, turn,
                   fired, before>>

Turn(lemma) == pc = "round" /\ turn <= Len(Lemmas) /\ Lemmas[turn] = lemma

(* A lemma returns whether it learned something and the next one runs. *)
Returns(progress) ==
    /\ fired' = (fired \/ progress)
    /\ turn' = turn + 1

Promote(K) == known' = K /\ unknown' = unknown \ K

Aboz ==
    /\ Turn("aboz")
    /\ LET pass == AbozPass IN
          /\ Promote(pass.known)
          /\ emitted' = emitted \cup pass.pairs
          /\ learned' = learned \cup
                          UNION {ZeroProduct(pr[1], pr[2]) : pr \in pass.pairs}
          /\ Returns(pass.known # known \/ pass.pairs # {})
    /\ UNCHANGED <<given, equalities, ranges, disjunctions, binaryWires,
                   before, pc>>

Basis2 ==
    /\ Turn("basis2")
    /\ Promote(Basis2Known)
    /\ Returns(Basis2Known # known)
    /\ UNCHANGED <<given, equalities, ranges, disjunctions, learned, emitted,
                   binaryWires, before, pc>>

Bim ==
    /\ Turn("bim")
    /\ Promote(IF BimFires THEN known \cup BimWires ELSE known)
    /\ Returns(BimFires)
    /\ UNCHANGED <<given, equalities, ranges, disjunctions, learned, emitted,
                   binaryWires, before, pc>>

(* The result says whether a wire was promoted; a tightened range does not  *)
(* count.                                                                   *)
Binary01 ==
    /\ Turn("binary01")
    /\ ranges' = TightenedRanges
    /\ binaryWires' = binaryWires \cup BinaryMatches
    /\ LET single == {w \in unknown \cap DOMAIN ranges' : IsSingleton(ranges'[w])}
       IN  Promote(known \cup single) /\ Returns(single # {})
    /\ UNCHANGED <<given, equalities, disjunctions, learned, emitted,
                   before, pc>>

Linear ==
    /\ Turn("linear")
    /\ Promote(LinearClosure)
    /\ Returns(LinearClosure # known)
    /\ UNCHANGED <<given, equalities, ranges, disjunctions, learned, emitted,
                   binaryWires, before, pc>>

Tecomplete ==
    /\ Turn("tecomplete")
    /\ LET K == TecompletePass IN Promote(K) /\ Returns(K # known)
    /\ UNCHANGED <<given, equalities, ranges, disjunctions, learned, emitted,
                   binaryWires, before, pc>>

(* The end of a round folds the learned clauses into the IR; another round  *)
(* follows when a lemma reported progress, a clause was learned or known    *)
(* grew.                                                                    *)
RoundProgress == fired \/ learned # {} \/ known # knownBefore

EndRound ==
    /\ pc = "round" /\ turn > Len(Lemmas)
    /\ disjunctions' = disjunctions \cup learned
    /\ learned' = {}
    /\ turn' = 1
    /\ fired' = FALSE
    /\ knownBefore' = known
    /\ emittedBefore' = emitted
    /\ pc' = IF RoundProgress THEN "round" ELSE "stable"
    /\ UNCHANGED <<given, equalities, known, unknown, ranges, emitted,
                   binaryWires>>

-----------------------------------------------------------------------------
(* The driver between two calls of propagate: every known wire has its      *)
(* marker, and the solver has proved one more wire unique.                  *)
SolverProves(w) ==
    /\ pc = "stable"
    /\ Unique(w)
    /\ known' = known \cup {w}
    /\ unknown' = unknown \ {w}
    /\ knownBefore' = known'
    /\ equalities' = equalities \o NewMarkers(known')
    /\ pc' = "round"
    /\ UNCHANGED <<given, ranges, disjunctions, learned, emitted, binaryWires,
                   turn, fired, emittedBefore>>

Stopped == pc = "stable" /\ UNCHANGED vars

Next ==
    \/ Lower
    \/ Aboz \/ Basis2 \/ Bim \/ Binary01 \/ Linear \/ Tecomplete
    \/ EndRound
    \/ \E w \in unknown : SolverProves(w)
    \/ Stopped

Spec == Init /\ [][Next]_vars

-----------------------------------------------------------------------------
(* Properties *)

(* Whatever the lemmas have promoted, in whatever rounds and with whatever   *)
(* the solver proved in between, the inputs determine it: no pattern match   *)
(* and no gate lets a wire through that two solutions disagree on.           *)
KnownIsUnique == \A w \in known : Unique(w)

(* The value of a variable for a pair of solutions with the same inputs; the *)
(* y variable of an input is not constrained by anything.                    *)
IsZero(v, a, b) ==
    IF v < NWires THEN a[v] = 0 ELSE Wire(v) \notin Inputs /\ b[Wire(v)] = 0

(* A learned clause follows from the circuit for both copies: it never        *)
(* removes a pair of solutions from the query (emit_zero_product).            *)
ClausesEntailed ==
    \A clause \in disjunctions \cup learned :
        \A a, b \in solutions :
            (\A i \in Inputs : a[i] = b[i]) => \E v \in clause : IsZero(v, a, b)

(* The values of a monomial and of a polynomial when every variable takes    *)
(* its wire's value.                                                         *)
MonomialAt(m, a) ==
    LET upTo[k \in 0 .. Len(m)] == IF k = 0 THEN 1 ELSE upTo[k - 1] * a[Wire(m[k])]
    IN  upTo[Len(m)]

PolyAt(poly, a) ==
    SumFunctionOnSet([m \in DOMAIN poly |-> poly[m] * MonomialAt(m, a)], DOMAIN poly) % P

(* Lowering is exact: in each copy, the polynomials over that copy's         *)
(* variables vanish on the solutions of the circuit and nowhere else         *)
(* (r1cs_to_poly_ir, the copy-symmetry invariant).                           *)
LoweringIsExact ==
    pc = "round" /\ turn = 1 /\ known = Inputs =>
        \A alt \in BOOLEAN :
            LET copy == {Var(w, alt) : w \in Wires}
                polys == {p \in Range(equalities) : VarsOf(p) \subseteq copy}
            IN  \A a \in Assignments(circuit) :
                    (\A p \in polys : PolyAt(p, a) = 0) <=> a \in solutions

(* propagate ends: what is known and which products were reported never       *)
(* shrink, and it starts another round only when the last one added to one    *)
(* of them; both are bounded by the wires.  The clauses the IR holds need not *)
(* grow: a product is reported from either side, with the same two clauses.   *)
RoundsMakeProgress ==
    [][/\ known \subseteq known' /\ emitted \subseteq emitted'
       /\ pc = "round" /\ turn > Len(Lemmas) /\ pc' = "round" =>
             known # knownBefore \/ emitted # emittedBefore]_vars

=============================================================================
