-------------------------------- MODULE Gvw ---------------------------------
(***************************************************************************)
(* The signature-based engine (Gao, Volny, Wang) that signature_criterion  *)
(* turns on: picus-solver/src/ff/buchberger/gvw.rs and signature.rs.       *)
(*                                                                         *)
(* Every polynomial carries a signature, the index of a generator and a    *)
(* monomial.  A pair is reduced only by elements of smaller signature, and *)
(* left out when a syzygy or a later element accounts for its signature.   *)
(* The state of a run is a record; ProcessedPair is one turn of its loop.  *)
(***************************************************************************)
EXTENDS Polynomials, SequencesExt

Signature(idx, monom) == [idx |-> idx, monom |-> monom]

InputSignature(i) == Signature(i, [k \in 1..NV |-> 0])

SigTimes(s, m) == [s EXCEPT !.monom = Times(@, m)]

(* Index first, then the order of the ring. *)
SigLess(s, t) ==
    \/ s.idx < t.idx
    \/ s.idx = t.idx /\ Greater(t.monom, s.monom)

SigDivides(s, t) == s.idx = t.idx /\ Divides(s.monom, t.monom)

NoRun == [basis |-> <<>>, syz |-> {}, queue |-> <<>>, unit |-> FALSE]

Labelled(sig, p) == [sig |-> sig, poly |-> p, lm |-> LeadOf(p)]

(* make_jpair: none when both cofactors have the same signature. *)
JPairs(basis, a, b) ==
    LET lcm == Lcm(basis[a].lm, basis[b].lm)
        sa == SigTimes(basis[a].sig, Quotient(lcm, basis[a].lm))
        sb == SigTimes(basis[b].sig, Quotient(lcm, basis[b].lm))
        pair(sig, src) == [sig |-> sig, i |-> a, j |-> b, src |-> src, lcm |-> lcm]
    IN  IF sa = sb THEN <<>>
        ELSE IF SigLess(sb, sa) THEN <<pair(sa, a)>> ELSE <<pair(sb, b)>>

(* The pairs of the last element with those before it. *)
RECURSIVE PairsUpTo(_, _)
PairsUpTo(basis, k) ==
    IF k = 0 THEN <<>> ELSE PairsUpTo(basis, k - 1) \o JPairs(basis, k, Len(basis))

Admitted(run, sig, p) ==
    LET basis == Append(run.basis, Labelled(sig, p))
    IN  [run EXCEPT !.basis = basis, !.queue = @ \o PairsUpTo(basis, Len(basis) - 1)]

UnitRun(run, p) ==
    [run EXCEPT !.basis = <<Labelled(InputSignature(0), p)>>, !.queue = <<>>, !.unit = TRUE]

(* The seeding loop: generator number i has signature (i, 1), zeros keep    *)
(* their number, and a constant ends it all.                                *)
RECURSIVE SeededRun(_, _, _)
SeededRun(run, gens, i) ==
    IF i > Len(gens) THEN run
    ELSE IF gens[i] = ZeroPoly THEN SeededRun(run, gens, i + 1)
    ELSE IF Degree(LeadOf(gens[i])) = 0 THEN UnitRun(run, gens[i])
    ELSE SeededRun(Admitted(run, InputSignature(i), gens[i]), gens, i + 1)

(* The first pair of smallest signature, and the queue without it: the last *)
(* one takes its place (swap_remove).                                       *)
Smallest(queue) ==
    CHOOSE k \in DOMAIN queue :
        /\ \A j \in DOMAIN queue : ~SigLess(queue[j].sig, queue[k].sig)
        /\ \A j \in 1 .. k - 1 : SigLess(queue[k].sig, queue[j].sig)

SwapRemoved(queue, k) == Front([queue EXCEPT ![k] = Last(queue)])

Safe(b, lead, sig) ==
    Divides(b.lm, lead) /\ SigLess(SigTimes(b.sig, Quotient(lead, b.lm)), sig)

SafeReducers(p, sig, basis) ==
    {k \in DOMAIN basis : Safe(basis[k], LeadOf(p), sig)}

LeadCancelled(p, by) ==
    AddScaled(p, P - ((p[LeadOf(p)] * InverseOf(by.poly[by.lm])) % P),
              MulMonomial(by.poly, Quotient(LeadOf(p), by.lm)))

(* sig_reduce: only the leading term is reduced. *)
RECURSIVE SigReduced(_, _, _)
SigReduced(p, sig, basis) ==
    IF p = ZeroPoly \/ SafeReducers(p, sig, basis) = {} THEN p
    ELSE SigReduced(LeadCancelled(p, basis[Min(SafeReducers(p, sig, basis))]), sig, basis)

(* The syzygy and the rewrite criterion. *)
Redundant(run, jp) ==
    \/ \E h \in run.syz : SigDivides(h, jp.sig)
    \/ \E k \in jp.src + 1 .. Len(run.basis) : SigDivides(run.basis[k].sig, jp.sig)

(* Checked on the reduced polynomial. *)
Singular(run, sig, p) ==
    \E b \in {run.basis[k] : k \in DOMAIN run.basis} : b.sig = sig /\ Divides(b.lm, LeadOf(p))

Settled(run, sig, nf) ==
    IF nf = ZeroPoly THEN [run EXCEPT !.syz = @ \cup {sig}]
    ELSE IF Singular(run, sig, nf) THEN run
    ELSE IF Degree(LeadOf(nf)) = 0 THEN UnitRun(run, nf)
    ELSE Admitted(run, sig, nf)

Treated(run, jp) ==
    IF Redundant(run, jp) THEN run
    ELSE Settled(run, jp.sig,
            SigReduced(SPolynomialOf(run.basis[jp.i].poly, run.basis[jp.j].poly),
                       jp.sig, run.basis))

ProcessedPair(run) ==
    LET at == Smallest(run.queue)
    IN  Treated([run EXCEPT !.queue = SwapRemoved(@, at)], run.queue[at])

RunPolys(run) == [k \in DOMAIN run.basis |-> run.basis[k].poly]
=============================================================================
