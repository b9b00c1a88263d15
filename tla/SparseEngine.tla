---------------------------- MODULE SparseEngine ----------------------------
(***************************************************************************)
(* Buchberger's algorithm over sparse polynomials, the engine behind every *)
(* Ideal: picus-solver/src/ff/sparse_gb.rs with the criteria of            *)
(* ff/spair_criteria.rs.                                                   *)
(*                                                                         *)
(* The state of a run is a record, and its steps (one generator, one pair) *)
(* are functions of it, so that the same engine serves the ring of an      *)
(* ideal and the ring with a homogenising variable.                        *)
(***************************************************************************)
EXTENDS Geobucket, SequencesExt

NoEngine == [basis |-> <<>>, open |-> {}, age |-> 0, trivial |-> FALSE]

ConstantOf(p) == p # ZeroPoly /\ Degree(LeadOf(p)) = 0

UnitBasis == <<[m \in {[k \in 1..NV |-> 0]} |-> 1]>>

ElementOf(p, sugar) ==
    [poly |-> p, lt |-> LeadOf(p), active |-> TRUE, sugar |-> sugar]

ActivePolys(e) ==
    LET active == SelectSeq(e.basis, LAMBDA b : b.active)
    IN  [k \in DOMAIN active |-> active[k].poly]

Deactivated(basis, lt) ==
    [k \in DOMAIN basis |-> [basis[k] EXCEPT !.active = @ /\ ~Divides(lt, basis[k].lt)]]

(* seed_reduced_basis: a reduced basis owes no pairs among its elements. *)
RECURSIVE SeededFrom(_, _)
SeededFrom(e, known) ==
    IF known = <<>> THEN e
    ELSE IF ConstantOf(Head(known)) THEN [e EXCEPT !.trivial = TRUE]
    ELSE SeededFrom(
            [e EXCEPT !.basis = Append(Deactivated(@, LeadOf(Head(known))),
                                       ElementOf(Head(known), Degree(LeadOf(Head(known)))))],
            Tail(known))

Seeded(known) == SeededFrom(NoEngine, known)
-----------------------------------------------------------------------------
(* Pairs and criteria.                                                     *)

(* The active elements the new one makes a pair with: coprime ones are      *)
(* dropped (the product criterion).                                         *)
PartnersOf(e, lt) ==
    {k \in DOMAIN e.basis : e.basis[k].active /\ ~Coprime(lt, e.basis[k].lt)}

PairOf(e, k, lt, sugar) ==
    LET l == Lcm(lt, e.basis[k].lt)
        mine == sugar + Degree(l) - Degree(lt)
        its == e.basis[k].sugar + Degree(l) - Degree(e.basis[k].lt)
    IN  [i |-> k, j |-> Len(e.basis) + 1, lcm |-> l,
         sugar |-> IF mine >= its THEN mine ELSE its,
         age |-> e.age + Cardinality({c \in PartnersOf(e, lt) : c <= k})]

(* gm_insert: of the new pairs those whose lcm no other one divides, and    *)
(* the first of equal ones.                                                 *)
Foremost(pairs) ==
    {p \in pairs : \A q \in pairs :
        Divides(q.lcm, p.lcm) => q.lcm = p.lcm /\ p.i <= q.i}

(* b_criterion_kill *)
Superfluous(e, q, lt) ==
    /\ Divides(lt, q.lcm)
    /\ Lcm(e.basis[q.j].lt, lt) # q.lcm
    /\ Lcm(e.basis[q.i].lt, lt) # q.lcm

(* integrate: pairs first, then the elements it supersedes. *)
Integrated(e, p, sugar) ==
    LET lt == LeadOf(p)
    IN  [e EXCEPT
            !.open = {q \in @ : ~Superfluous(e, q, lt)}
                         \cup Foremost({PairOf(e, k, lt, sugar) : k \in PartnersOf(e, lt)}),
            !.age = @ + Cardinality(PartnersOf(e, lt)),
            !.basis = Append(Deactivated(@, lt), ElementOf(p, sugar))]
-----------------------------------------------------------------------------
(* Steps.                                                                  *)

(* add_generators, for one that reduces to r. *)
Received(e, r) ==
    IF r = ZeroPoly THEN e
    ELSE IF ConstantOf(r) THEN [e EXCEPT !.trivial = TRUE]
    ELSE Integrated(e, MonicOf(r), Degree(LeadOf(r)))

Sooner(p, q) ==
    \/ p.sugar < q.sugar
    \/ p.sugar = q.sugar /\ Degree(p.lcm) < Degree(q.lcm)
    \/ p.sugar = q.sugar /\ Degree(p.lcm) = Degree(q.lcm) /\ p.age < q.age

FirstPair(e) == CHOOSE p \in e.open : \A q \in e.open \ {p} : Sooner(p, q)

(* s_polynomial: each part divided by its leading coefficient. *)
SPoly(e, pair) == SPolynomialOf(MonicOf(e.basis[pair.i].poly), MonicOf(e.basis[pair.j].poly))

(* run, for the first pair, whose S-polynomial reduces to r. *)
Processed(e, r) ==
    LET popped == [e EXCEPT !.open = @ \ {FirstPair(e)}]
    IN  IF r = ZeroPoly THEN popped
        ELSE IF ConstantOf(r) THEN [popped EXCEPT !.trivial = TRUE]
        ELSE Integrated(popped, MonicOf(r), FirstPair(e).sugar)

Finished(e) == e.trivial \/ e.open = {}

IntoBasis(e) == IF e.trivial THEN UnitBasis ELSE ActivePolys(e)
-----------------------------------------------------------------------------
(* interreduce: the canonical basis, leading monomials descending.         *)

PickedFrom(D, at) == [k \in DOMAIN at |-> D[at[k]]]

Descending(D) ==
    LET before(i, j) == \/ Greater(LeadOf(D[i]), LeadOf(D[j]))
                        \/ LeadOf(D[i]) = LeadOf(D[j]) /\ i < j
    IN  PickedFrom(D, SortSeq([k \in DOMAIN D |-> k], before))

(* Of equal leading monomials the first stays. *)
MinimisedOf(D) ==
    LET stays(j) == \A i \in DOMAIN D \ {j} :
            Divides(LeadOf(D[i]), LeadOf(D[j])) => LeadOf(D[i]) = LeadOf(D[j]) /\ j < i
    IN  PickedFrom(D, SelectSeq([j \in DOMAIN D |-> j], stays))

TailReducedAt(D, i) == [D EXCEPT ![i] = MonicOf(ReducedBy(D[i], RemoveAt(D, i)))]

RECURSIVE TailsReduced(_, _)
TailsReduced(D, i) == IF i > Len(D) THEN D ELSE TailsReduced(TailReducedAt(D, i), i + 1)

Interreduced(D) ==
    IF \E k \in DOMAIN D : ConstantOf(D[k]) THEN UnitBasis
    ELSE TailsReduced(MinimisedOf(Descending([k \in DOMAIN D |-> MonicOf(D[k])])), 1)
=============================================================================
