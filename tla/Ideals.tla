------------------------------- MODULE Ideals -------------------------------
(***************************************************************************)
(* An ideal and its Groebner basis: picus-solver/src/gb/ideal.rs, the      *)
(* engine front door gb/ideal/engine.rs, the detour through a homogeneous  *)
(* ring (gb/gb_homog.rs, gb/homog_ring.rs), and what is read off a         *)
(* finished basis: minimal polynomials with their roots, and the Lex basis *)
(* (gb/fglm.rs).                                                           *)
(*                                                                         *)
(* An ideal is built from generators and extended; every computation may   *)
(* be cancelled, which leaves a basis of some smaller ideal behind that    *)
(* must not be taken for the basis.  One step is one generator or one      *)
(* S-pair, the interval between two looks at the token.  A panic of an     *)
(* engine (an empty basis) and the caps of 4096 powers and 200000          *)
(* monomials are left out.                                                 *)
(***************************************************************************)
EXTENDS SparseEngine

CONSTANTS
    Starts, Additions,  \* sequences of polynomials an ideal is built of, extended by
    Strategies,         \* gb_strategy, or signature_criterion ("gvw")
    MaxExtends,
    None,               \* min_poly, fglm_to_lex: no answer
    Reference(_)        \* the reduced Groebner basis of a sequence, as a set

VARIABLES
    strategy,
    given,      \* history: all the polynomials the ideal is to contain
    ideal,      \* history: the reduced Groebner basis of given
    dropped,    \* history: GVW was started without a generator that was superseded
    basis,      \* of the Ideal; while one is computed, the basis it starts from
    via,        \* of a computation: "direct", "by_homog" or "gvw"
    engine, run, todo,
    cancelled, extends,
    reply,      \* of the last query
    pc

vars == <<strategy, given, ideal, dropped, basis, via, engine, run, todo, cancelled, extends, reply, pc>>

Homog == INSTANCE SparseEngine WITH NV <- NV + 1
Sig == INSTANCE Gvw
Uni == INSTANCE Univariate
Hilbert == INSTANCE HilbertFunction

NoReply == [kind |-> "none"]

Init ==
    /\ strategy \in Strategies
    /\ given = <<>> /\ ideal = {} /\ dropped = FALSE /\ basis = <<>>
    /\ via = "direct" /\ engine = NoEngine /\ run = Sig!NoRun /\ todo = <<>>
    /\ cancelled = FALSE /\ extends = 0
    /\ reply = NoReply
    /\ pc = "start"
-----------------------------------------------------------------------------
(* The homogeneous ring: one more variable, the smallest.                  *)

TopDegree(p) == CHOOSE d \in {Degree(m) : m \in DOMAIN p} :
                    \A m \in DOMAIN p : Degree(m) <= d

(* lift_and_homogenize *)
Homogenized(p) ==
    [m \in {Append(n, TopDegree(p) - Degree(n)) : n \in DOMAIN p} |-> p[SubSeq(m, 1, NV)]]

(* dehom: of a homogeneous polynomial, whose terms stay different. *)
Dehomogenized(q) == [m \in {SubSeq(n, 1, NV) : n \in DOMAIN q} |->
                        q[CHOOSE n \in DOMAIN q : SubSeq(n, 1, NV) = m]]

AllDehomogenized(D) == [k \in DOMAIN D |-> Dehomogenized(D[k])]

NonZero(s) == SelectSeq(s, LAMBDA p : p # ZeroPoly)

(* resolve_strategy *)
Resolved(gens) ==
    IF strategy # "auto" THEN strategy
    ELSE IF \A k \in DOMAIN gens : HomogeneousOf(gens[k]) THEN "direct" ELSE "by_homog"

(* The operations of the engine, in the ring of the computation. *)
ReceivedBy(g) ==
    IF via = "by_homog"
    THEN Homog!Received(engine, Homog!ReducedBy(g, Homog!ActivePolys(engine)))
    ELSE Received(engine, ReducedBy(g, ActivePolys(engine)))

ProcessedBy(pair) ==
    IF via = "by_homog"
    THEN Homog!Processed(engine,
            Homog!ReducedBy(Homog!SPoly(engine, pair), Homog!ActivePolys(engine)))
    ELSE Processed(engine, ReducedBy(SPoly(engine, pair), ActivePolys(engine)))

(* The basis the engine hands back, inter-reduced there, brought back, and  *)
(* inter-reduced again.                                                     *)
Computed ==
    IF via = "gvw" /\ ~engine.trivial THEN Interreduced(Sig!RunPolys(run))
    ELSE IF via = "by_homog"
    THEN Interreduced(AllDehomogenized(Homog!Interreduced(Homog!IntoBasis(engine))))
    ELSE Interreduced(IntoBasis(engine))
-----------------------------------------------------------------------------
(* compute_gb_with_order *)
FromScratch(gens) ==
    /\ via' = Resolved(gens)
    /\ todo' = IF via' = "by_homog"
               THEN [k \in DOMAIN NonZero(gens) |-> Homogenized(NonZero(gens)[k])]
               ELSE gens
    /\ engine' = NoEngine
    /\ pc' = "adding"

(* new_with_cancel *)
New ==
    /\ pc = "start"
    /\ \E gens \in Starts :
          /\ given' = gens /\ ideal' = Reference(gens)
          /\ IF gens = <<>>
             THEN pc' = "idle" /\ UNCHANGED <<via, todo, engine>>
             ELSE FromScratch(gens)
    /\ UNCHANGED <<strategy, dropped, basis, run, cancelled, extends, reply>>

(* extend_with_cancel; each call comes with a token of its own. *)
Extend ==
    /\ pc = "idle" /\ extends < MaxExtends
    /\ \E polys \in Additions :
          /\ given' = given \o polys /\ ideal' = Reference(given \o polys)
          /\ todo' = NonZero(polys)
    /\ extends' = extends + 1
    /\ reply' = NoReply
    /\ pc' = "reducing"
    /\ UNCHANGED <<strategy, dropped, basis, via, engine, run, cancelled>>

(* Nothing is computed when all of them reduced to zero. *)
Continue(fresh) ==
    IF fresh = <<>>
    THEN pc' = "idle" /\ todo' = <<>> /\ UNCHANGED <<via, engine>>
    ELSE IF basis = <<>> THEN FromScratch(fresh)
    ELSE /\ via' = IF strategy = "gvw" THEN "gvw" ELSE "direct"
         /\ todo' = fresh
         /\ engine' = Seeded(basis)
         /\ pc' = "adding"

PreReduce ==
    /\ pc = "reducing" /\ ~cancelled
    /\ Continue(NonZero([k \in DOMAIN todo |-> ReducedBy(todo[k], basis)]))
    /\ UNCHANGED <<strategy, given, ideal, dropped, basis, run, cancelled, extends, reply>>

RaiseCancel ==
    /\ pc \in {"reducing", "adding", "running", "finishing"} /\ ~cancelled
    /\ cancelled' = TRUE
    /\ UNCHANGED <<strategy, given, ideal, dropped, basis, via, engine, run, todo, extends, reply, pc>>

AddGenerator ==
    /\ pc = "adding" /\ todo # <<>> /\ ~cancelled /\ ~engine.trivial
    /\ engine' = ReceivedBy(Head(todo))
    /\ todo' = Tail(todo)
    /\ UNCHANGED <<strategy, given, ideal, dropped, basis, via, run, cancelled, extends, reply, pc>>

(* What is left to add is dropped on a unit or a cancelled token.  GVW      *)
(* takes the active elements for its generators.                            *)
StartRun ==
    /\ pc = "adding" /\ (todo = <<>> \/ cancelled \/ engine.trivial)
    /\ todo' = <<>>
    /\ run' = IF via = "gvw" THEN Sig!SeededRun(Sig!NoRun, ActivePolys(engine), 1)
              ELSE Sig!NoRun
    /\ dropped' = \/ dropped
                   \/ /\ via = "gvw" /\ ~engine.trivial
                      /\ \E k \in DOMAIN engine.basis : ~engine.basis[k].active
    /\ pc' = "running"
    /\ UNCHANGED <<strategy, given, ideal, basis, via, engine, cancelled, extends, reply>>

ProcessPair ==
    /\ pc = "running" /\ via # "gvw" /\ ~cancelled /\ ~Finished(engine)
    /\ engine' = ProcessedBy(FirstPair(engine))
    /\ UNCHANGED <<strategy, given, ideal, dropped, basis, via, run, todo, cancelled, extends, reply, pc>>

ProcessJPair ==
    /\ pc = "running" /\ via = "gvw" /\ ~cancelled /\ ~engine.trivial /\ run.queue # <<>>
    /\ run' = Sig!ProcessedPair(run)
    /\ UNCHANGED <<strategy, given, ideal, dropped, basis, via, engine, todo, cancelled, extends, reply, pc>>

RunOver ==
    \/ cancelled \/ engine.trivial
    \/ IF via = "gvw" THEN run.queue = <<>> ELSE engine.open = {}

EndRun ==
    /\ pc = "running" /\ RunOver
    /\ pc' = "finishing"
    /\ UNCHANGED <<strategy, given, ideal, dropped, basis, via, engine, run, todo, cancelled, extends, reply>>

(* Mutant: what a cancelled engine returns is taken for the basis. *)
TrustedAlways == pc = "finishing"

(* The checks after the engine and after the inter-reduction. *)
Trusted == pc = "finishing" /\ ~cancelled

Finish ==
    /\ Trusted
    /\ basis' = Computed
    /\ pc' = "idle"
    /\ engine' = NoEngine /\ run' = Sig!NoRun
    /\ UNCHANGED <<strategy, given, ideal, dropped, via, todo, cancelled, extends, reply>>

(* Err(Cancelled): the ideal is gone. *)
Fail ==
    /\ pc \in {"reducing", "finishing"} /\ cancelled
    /\ pc' = "failed"
    /\ basis' = <<>> /\ engine' = NoEngine /\ run' = Sig!NoRun /\ todo' = <<>>
    /\ UNCHANGED <<strategy, given, ideal, dropped, via, cancelled, extends, reply>>
-----------------------------------------------------------------------------
(* Queries.                                                                *)

LeadsOf(D) == {LeadOf(D[k]) : k \in DOMAIN D}
WholeRing == \E k \in DOMAIN basis : ConstantOf(basis[k])
ZeroDim == WholeRing \/ Hilbert!ZeroDimensional(LeadsOf(basis))

Term(m) == [n \in {m} |-> 1]
Power(v, e) == [k \in 1..NV |-> IF k = v THEN e ELSE 0]

(* A row of an echelon form is a normal form with its pivot and the         *)
(* polynomial dep it is the normal form of.  Subtract the rows, in order.   *)
(* Mutant: the combination that gave the row is not followed. *)
EliminateUnrecorded(row, by) ==
    LET factor == (Coefficient(row.nf, by.pivot) * InverseOf(by.nf[by.pivot])) % P
    IN  [nf |-> AddScaled(row.nf, P - factor, by.nf), dep |-> row.dep]

Eliminate(row, by) ==
    LET factor == (Coefficient(row.nf, by.pivot) * InverseOf(by.nf[by.pivot])) % P
    IN  [nf |-> AddScaled(row.nf, P - factor, by.nf),
         dep |-> AddScaled(row.dep, P - factor, by.dep)]

RECURSIVE Eliminated(_, _)
Eliminated(row, rows) ==
    IF rows = <<>> THEN row ELSE Eliminated(Eliminate(row, Head(rows)), Tail(rows))

RowOf(nf, m, rows) == Eliminated([nf |-> nf, dep |-> Term(m)], rows)

WithPivot(row) == [nf |-> row.nf, dep |-> row.dep, pivot |-> LeadOf(row.nf)]

(* The rows of 1, x, ... x^(d-1) are independent; nf is the normal form of  *)
(* x^d, and row what the rows leave of it.                                  *)
RECURSIVE Krylov(_, _, _, _)
KrylovStep(v, d, nf, rows, row) ==
    IF row.nf = ZeroPoly THEN [k \in 1 .. d + 1 |-> Coefficient(row.dep, Power(v, k - 1))]
    ELSE Krylov(v, d + 1, ReducedBy(MulMonomial(nf, Power(v, 1)), basis),
                Append(rows, WithPivot(row)))

Krylov(v, d, nf, rows) == KrylovStep(v, d, nf, rows, RowOf(nf, Power(v, d), rows))

(* min_poly: coefficients, lowest first. *)
MinPolyOf(v) ==
    IF WholeRing THEN <<1>>
    ELSE IF ~ZeroDim THEN None
    ELSE Krylov(v, 0, ReducedBy(Term(Power(v, 0)), basis), <<>>)

LexGreater(a, b) == \E k \in 1..NV : a[k] > b[k] /\ \A j \in 1 .. k - 1 : a[j] = b[j]

LexLeast(queue) == CHOOSE m \in queue : \A n \in queue \ {m} : LexGreater(n, m)

(* The walk of the monomials in increasing Lex order: rows of the staircase *)
(* found so far, and the elements of the Lex basis with their leads.        *)
Placed(w, m, row) ==
    IF row.nf = ZeroPoly
    THEN [w EXCEPT !.found = Append(@, [lead |-> m, poly |-> row.dep])]
    ELSE [w EXCEPT !.queue = @ \cup {Times(m, Power(k, 1)) : k \in 1..NV},
                   !.rows = Append(@, WithPivot(row))]

Visited(w, m) ==
    IF \E k \in DOMAIN w.found : Divides(w.found[k].lead, m) THEN w
    ELSE Placed(w, m, RowOf(ReducedBy(Term(m), basis), m, w.rows))

RECURSIVE Walk(_)
Walk(w) ==
    IF w.queue = {} THEN w
    ELSE LET m == LexLeast(w.queue) IN Walk(Visited([w EXCEPT !.queue = @ \ {m}], m))

(* fglm_to_lex: refused unless the staircase is as large as the leading     *)
(* monomials say.                                                           *)
CrossChecked(w) ==
    IF Len(w.rows) # Hilbert!QuotientDimension(LeadsOf(basis)) THEN None ELSE w.found

LexBasis ==
    IF WholeRing THEN <<[lead |-> Power(1, 0), poly |-> Term(Power(1, 0))]>>
    ELSE IF ~ZeroDim THEN None
    ELSE CrossChecked(Walk([queue |-> {Power(1, 0)}, rows |-> <<>>, found |-> <<>>]))

Asks == pc = "idle" /\ reply = NoReply

AskMinPoly ==
    /\ Asks
    /\ \E v \in 1..NV : reply' = [kind |-> "minpoly", var |-> v, poly |-> MinPolyOf(v)]
    /\ UNCHANGED <<strategy, given, ideal, dropped, basis, via, engine, run, todo, cancelled, extends, pc>>

(* find_roots_checked, of a minimal polynomial. *)
FindRoots ==
    /\ reply.kind = "minpoly" /\ reply.poly # None
    /\ \E found \in Uni!FoundRoots(reply.poly) :
          reply' = [kind |-> "roots", var |-> reply.var, poly |-> reply.poly,
                    roots |-> found.roots, complete |-> found.complete]
    /\ UNCHANGED <<strategy, given, ideal, dropped, basis, via, engine, run, todo, cancelled, extends, pc>>

AskLex ==
    /\ Asks
    /\ reply' = [kind |-> "lex", basis |-> LexBasis]
    /\ UNCHANGED <<strategy, given, ideal, dropped, basis, via, engine, run, todo, cancelled, extends, pc>>

Done ==
    /\ \/ pc = "failed"
       \/ pc = "idle" /\ extends = MaxExtends /\ reply # NoReply
    /\ UNCHANGED vars

Next ==
    \/ New \/ Extend \/ PreReduce \/ RaiseCancel \/ AddGenerator \/ StartRun
    \/ ProcessPair \/ ProcessJPair \/ EndRun \/ Finish \/ Fail
    \/ AskMinPoly \/ FindRoots \/ AskLex \/ Done

Spec == Init /\ [][Next]_vars
-----------------------------------------------------------------------------
(* Properties.                                                             *)

BasisIsReference ==
    /\ {basis[k] : k \in DOMAIN basis} = ideal
    /\ Len(basis) = Cardinality(ideal)

(* An ideal that was handed out has the reduced Groebner basis of all that  *)
(* it was built of and extended by, whichever way it was computed; one that *)
(* was cancelled is never handed out (ideal.rs, new_with_cancel and         *)
(* extend_with_cancel).                                                     *)
ReducedGroebner == pc = "idle" /\ ~dropped => BasisIsReference

(* "The output polynomials form a Groebner basis of the input ideal", and   *)
(* "the GVW basis must equal the per-pair reduced GB" (gvw.rs).             *)
GvwEqualsPerPair == pc = "idle" /\ via = "gvw" => BasisIsReference

Vanishes(p) == NormalFormOf(p, SetToSeq(ideal)).nf = ZeroPoly

Finite ==
    LET leads == {LeadOf(g) : g \in ideal}
    IN  Hilbert!ZeroDimensional(leads) \/ \E m \in leads : Degree(m) = 0

Standard == Hilbert!StandardMonomials({LeadOf(g) : g \in ideal})

(* The converted basis lies in the ideal, and under its Lex leads there are *)
(* as many monomials as the quotient has dimensions, so it is a Lex basis;  *)
(* the cross-check refuses none (fglm.rs, hilbert.rs).                      *)
LexBasisRight ==
    reply.kind = "lex" /\ ~dropped =>
        IF ~Finite THEN reply.basis = None
        ELSE /\ reply.basis # None
             /\ \A k \in DOMAIN reply.basis :
                   /\ Vanishes(reply.basis[k].poly)
                   /\ \A m \in DOMAIN reply.basis[k].poly \ {reply.basis[k].lead} :
                         LexGreater(reply.basis[k].lead, m)
             /\ Cardinality(Hilbert!StandardMonomials(
                      {reply.basis[k].lead : k \in DOMAIN reply.basis})) =
                Cardinality(Standard)

(* c[1] + c[2] x_v + ... *)
AtVariable(c, v) ==
    [m \in {Power(v, k - 1) : k \in {j \in DOMAIN c : c[j] # 0}} |-> c[m[v] + 1]]

(* The minimal polynomial vanishes in the quotient, and nothing of lower    *)
(* degree does (ideal.rs, min_poly): a factor of it would lose zeros, a     *)
(* multiple would add branches.                                             *)
MinPolyLeast ==
    reply.kind = "minpoly" /\ ~dropped =>
        IF ~Finite THEN reply.poly = None
        ELSE /\ reply.poly[Len(reply.poly)] = 1
             /\ Vanishes(AtVariable(reply.poly, reply.var))
             /\ \A c \in [1 .. Len(reply.poly) - 1 -> 0 .. P - 1] :
                   (\E k \in DOMAIN c : c[k] # 0) => ~Vanishes(AtVariable(c, reply.var))

Substituted(p, z) ==
    LET power[e \in Nat, x \in 0 .. P - 1] == IF e = 0 THEN 1 ELSE (x * power[e - 1, x]) % P
        upTo[k \in 0..NV, m \in DOMAIN p] ==
            IF k = 0 THEN p[m] ELSE (upTo[k - 1, m] * power[m[k], z[k]]) % P
    IN  MapThenSumSet(LAMBDA m : upTo[NV, m], DOMAIN p) % P

(* No zero of the ideal is lost on the way through the minimal polynomial   *)
(* and its roots, as long as the search says it is complete and no root is  *)
(* repeated P times or more, and no root is made up (univariate.rs,         *)
(* find_roots_checked; branches are cut on it).                             *)
RootsCoverZeros ==
    reply.kind = "roots" /\ ~dropped =>
        /\ reply.roots \subseteq Uni!RootsOf(reply.poly)
        /\ reply.complete /\ (\A r \in 0 .. P - 1 : Uni!Multiplicity(reply.poly, r) < P) =>
              \A z \in [1..NV -> 0 .. P - 1] :
                 (\A k \in DOMAIN given : Substituted(given[k], z) = 0) =>
                     z[reply.var] \in reply.roots

=============================================================================
