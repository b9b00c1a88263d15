----------------------------- MODULE Geobucket ------------------------------
(***************************************************************************)
(* Reduction with a geobucket: picus-core/src/ff/sparse_geobucket.rs.      *)
(*                                                                         *)
(* The polynomial being reduced is the sum of a few buckets of growing     *)
(* capacity, so that a scaled divisor is merged with a bucket of its own   *)
(* size and not with all the rest.  A leading monomial may head several    *)
(* buckets, and what cancels is noticed only when it is popped.            *)
(***************************************************************************)
EXTENDS Polynomials, FiniteSetsExt

CONSTANTS
    BaseCapacity, CapacityRatio,    \* 128 and 4
    MaxBuckets                      \* 16

Capacity(i) == BaseCapacity * CapacityRatio ^ (i - 1)

Terms(p) == Cardinality(DOMAIN p)

Fits(p, i) == Terms(p) <= Capacity(i) \/ i >= MaxBuckets

FittingBucket(p) ==
    CHOOSE i \in 1..MaxBuckets : Fits(p, i) /\ \A j \in 1 .. i - 1 : ~Fits(p, j)

EmptyBuckets == [i \in 1..MaxBuckets |-> ZeroPoly]

(* Put p into bucket i, or move on with the sum of both. *)
RECURSIVE Cascade(_, _, _)
Cascade(buckets, p, i) ==
    LET merged == AddScaled(buckets[i], 1, p)
    IN  IF Fits(merged, i) THEN [buckets EXCEPT ![i] = merged]
        ELSE Cascade([buckets EXCEPT ![i] = ZeroPoly], merged, i + 1)

AddTerms(buckets, p) ==
    IF p = ZeroPoly THEN buckets ELSE Cascade(buckets, p, FittingBucket(p))

(* The largest head.  A bucket that holds it has it for its head. *)
TopMonomial(buckets) ==
    CHOOSE m \in UNION {DOMAIN buckets[i] : i \in DOMAIN buckets} :
        \A i \in DOMAIN buckets : \A n \in DOMAIN buckets[i] \ {m} : Greater(m, n)

(* Its coefficients summed up, and what is left. *)
PoppedAt(buckets, lead) ==
    [lead |-> lead,
     coefficient |-> MapThenSumSet(LAMBDA i : Coefficient(buckets[i], lead), DOMAIN buckets) % P,
     rest |-> [i \in DOMAIN buckets |->
                  [m \in DOMAIN buckets[i] \ {lead} |-> buckets[i][m]]]]

Popped(buckets) == PoppedAt(buckets, TopMonomial(buckets))

(* sub_scaled_tail: c * shift * (d without its leading term). *)
ScaledTail(d, shift, c) ==
    AddScaled(ZeroPoly, c, MulMonomial([m \in DOMAIN d \ {LeadOf(d)} |-> d[m]], shift))

DivisorsOf(D, m) == {d \in DOMAIN D : Divides(LeadOf(D[d]), m)}

Subtracted(top, by) ==
    AddTerms(top.rest,
        ScaledTail(by, Quotient(top.lead, LeadOf(by)),
                   P - ((top.coefficient * InverseOf(LeadCoefficient(by))) % P)))

(* The term that was popped is nothing, reduced by the first divisor that   *)
(* fits, or a term of the normal form.                                      *)
Taken(top, D, nf) ==
    IF top.coefficient = 0 THEN [buckets |-> top.rest, nf |-> nf]
    ELSE IF DivisorsOf(D, top.lead) = {}
    THEN [buckets |-> top.rest,
          nf |-> [m \in DOMAIN nf \cup {top.lead} |->
                     IF m = top.lead THEN top.coefficient ELSE nf[m]]]
    ELSE [buckets |-> Subtracted(top, D[Min(DivisorsOf(D, top.lead))]), nf |-> nf]

RECURSIVE Drained(_, _)
Drained(s, D) ==
    IF s.buckets = EmptyBuckets THEN s.nf
    ELSE Drained(Taken(Popped(s.buckets), D, s.nf), D)

(* reduce_by_refs: the normal form of p by a sequence of divisors, the first *)
(* that divides taken each time.                                             *)
ReducedBy(p, D) ==
    IF p = ZeroPoly \/ D = <<>> THEN p
    ELSE Drained([buckets |-> AddTerms(EmptyBuckets, p), nf |-> ZeroPoly], D)
=============================================================================
