--------------------------- MODULE IncrementalGb ----------------------------
(***************************************************************************)
(* The incremental Groebner-basis engine: picus-solver/src/ff/buchberger/  *)
(* mod.rs (BuchbergerState) and incremental.rs (IncrementalGB: calls,      *)
(* resumption, push and pop), with the S-pair criteria of spair_criteria.rs*)
(* and the dependency tracer of gb/tracer.rs.                              *)
(*                                                                         *)
(* The arithmetic is a parameter: Polynomials.tla gives it to TLC.  One    *)
(* step is one generator, one S-pair or one inter-reduction, the intervals *)
(* between two looks at the cancellation token.  The divisor order by use  *)
(* counts starts at 32 active elements and is left out, and so are F4 and  *)
(* GVW, which the configuration leaves off.                                *)
(***************************************************************************)
EXTENDS Monomials, Selection, FiniteSets, SequencesExt

CONSTANTS
    Zero,               \* the zero polynomial
    Lead(_),            \* leading monomial
    Monic(_),
    Homogeneous(_),
    NormalForm(_, _),   \* by a sequence of divisors: [nf, used]
    SPolynomial(_, _),
    Member(_, _),       \* of the ideal of a set of polynomials
    Groebner(_),        \* is this sequence a Groebner basis?
    Joined(_, _, _, _), \* of critical pairs, see Joining
    Batches(_),         \* of a setting: what callers may add, sequences
    Configs             \* settings and bounds of one behaviour each:
    (* pool, lengths: of what callers may add; calls, depth: bounds on calls *)
    (* and pushes; cancels: may the token be raised?  period, homogPeriod:   *)
    (* in-loop inter-reduction, 128 and 32; traced: a GbTracer observes;     *)
    (* trackDeps: track_inter_reduce_deps; indexCache: reducer_index_cache;  *)
    (* threshold: SORT_THRESHOLD, 64.                                        *)

(* What the engine asks of the arithmetic, for polynomials of Polys, lists of *)
(* divisors in Lists, sets of generators in Sets and monomials of Bounds.     *)
Closed(Polys) ==
    /\ Zero \in Polys
    /\ \A p \in Polys \ {Zero} : Monic(p) \in Polys \ {Zero}
    /\ \A p, q \in Polys \ {Zero} : SPolynomial(p, q) \in Polys
    /\ \A p \in Polys, D \in Seq(Polys \ {Zero}) : NormalForm(p, D).nf \in Polys

Membership(Polys, Lists, Sets) ==
    /\ \A S \in Sets : \A p \in S \cup {Zero} : Member(p, S)
    /\ \A S, T \in Sets, p \in Polys : (\A q \in S : Member(q, T)) /\ Member(p, S) => Member(p, T)
    /\ \A S \in Sets, p \in Polys \ {Zero} : Member(p, S) <=> Member(Monic(p), S)
    /\ \A S \in Sets, p, q \in Polys \ {Zero} :
          Member(p, S) /\ Member(q, S) => Member(SPolynomial(p, q), S)
    /\ \A S \in Sets, p \in Polys, D \in Lists :
          (\A k \in NormalForm(p, D).used : Member(D[k], S))
              => (Member(p, S) <=> Member(NormalForm(p, D).nf, S))

Dividing(Polys, Lists) ==
    /\ \A p \in Polys \ {Zero} : Lead(p) \in Monomial /\ Lead(Monic(p)) = Lead(p)
    /\ \A p \in Polys, D \in Lists :
        LET r == NormalForm(p, D)
        IN  /\ r.used \subseteq DOMAIN D
            /\ (\E k \in DOMAIN D : Degree(Lead(D[k])) = 0) => r.nf = Zero
            /\ r.nf # Zero => \A k \in DOMAIN D : ~Divides(Lead(D[k]), Lead(r.nf))

(* Joined at t: the monic multiples with the leading monomial t differ by     *)
(* smaller multiples of D.  A relation of equivalence, kept at multiples of t *)
(* and when each divisor gives way to one that is joined with it.             *)
Joining(Polys, Bounds, Sets) ==
    \A t \in Bounds : \A p, q, r \in {f \in Polys \ {Zero} : Divides(Lead(f), t)}, D \in Sets :
        /\ Joined(p, p, t, D)
        /\ Joined(p, q, t, D) => Joined(q, p, t, D)
        /\ Joined(p, q, t, D) /\ Joined(q, r, t, D) => Joined(p, r, t, D)
        /\ \A u \in Bounds : Divides(t, u) /\ Joined(p, q, t, D) => Joined(p, q, u, D)
        /\ \A E \in Sets :
              /\ Joined(p, q, t, D)
              /\ \A d \in D : \E e \in E : Lead(e) = Lead(d) /\ Joined(d, e, Lead(d), E)
              => Joined(p, q, t, E)

\* A list of divisors, and what is left of a polynomial if anything is.
With(D, r) == ToSet(D) \cup {Monic(f) : f \in {r} \ {Zero}}

(* What joins polynomials: being coprime, the reduction of the S-polynomial,  *)
(* division of the tail, scaling.                                             *)
Criteria(Polys, Lists, Sets) ==
    /\ \A p, q \in Polys \ {Zero} :
        LET l == Lcm(Lead(p), Lead(q))
        IN  /\ Coprime(Lead(p), Lead(q)) => Joined(p, q, l, {p, q})
            /\ \A D \in Lists : Joined(p, q, l, With(D, NormalForm(SPolynomial(p, q), D).nf))
    /\ \A p \in Polys \ {Zero} :
        /\ Joined(p, Monic(p), Lead(p), {})
        /\ \A D \in Lists :
            LET r == NormalForm(p, D).nf
            IN  (\A k \in DOMAIN D : ~Divides(Lead(D[k]), Lead(p)))
                    => r # Zero /\ Lead(r) = Lead(p) /\ Joined(p, r, Lead(p), ToSet(D))
    /\ \A S \in Sets, p, q \in Polys \ {Zero} :
          Lead(p) = Lead(q) /\ Joined(p, q, Lead(p), S) /\ Member(q, S) => Member(p, S)

(* Buchberger's theorem: where all pairs are joined, elements whose leading   *)
(* monomials divide those of the others are a Groebner basis.                 *)
Buchberger(Polys, Lists, Sets) ==
    \A S \in Sets, D \in Lists :
        /\ \A p, q \in S : Joined(p, q, Lcm(Lead(p), Lead(q)), S)
        /\ ToSet(D) \subseteq S
        /\ \A p \in S : \E k \in DOMAIN D : Divides(Lead(D[k]), Lead(p))
        => Groebner(D) /\ \A p \in Polys : Member(p, S) => NormalForm(p, D).nf = Zero

\* An observed engine is given up with the call that is cancelled.
ASSUME ConfigAssumption ==
    \A c \in Configs :
        /\ c.calls \in Nat
        /\ c.traced /\ c.cancels => c.calls <= 1

VARIABLES
    config,
    basis,      \* [poly, lt, active, sugar]
    open,       \* S-pairs: [i, j, lcm, sugar, age, generation]
    age, generation, trivial, useful, homog,
    redIndex,   \* [idx, lts] of the cached divisor index
    trail,      \* Checkpoints
    todo,       \* generators of the current call still to be added
    cancelled, pc,
    deps, inputCount,   \* GbTracer
    calls, told, inputs, \* history: calls made, generators consumed, all given
    tick                \* changes with each step of a call

basisVars == <<basis, open, age, trivial>>
tracer == <<deps, inputCount>>
vars == <<config, basisVars, generation, useful, homog, redIndex, trail, todo,
          cancelled, pc, tracer, calls, told, inputs, tick>>

NoIndex == [idx |-> <<>>, lts |-> <<>>]

Init ==
    /\ config \in Configs
    /\ basis = <<>> /\ open = {} /\ age = 0 /\ trivial = FALSE
    /\ generation = 0 /\ useful = 0 /\ homog = FALSE
    /\ redIndex = NoIndex
    /\ trail = <<>>
    /\ todo = <<>>
    /\ cancelled = FALSE /\ pc = "idle"
    /\ deps = <<>> /\ inputCount = 0
    /\ calls = 0 /\ told = <<>> /\ inputs = <<>> /\ tick = FALSE

-----------------------------------------------------------------------------
ActiveIndices(b) == Selected([i \in DOMAIN b |-> i], {i \in DOMAIN b : b[i].active})

PolysAt(b, idx) == [k \in DOMAIN idx |-> b[idx[k]].poly]

Active == PolysAt(basis, ActiveIndices(basis))

Reduced(p) == NormalForm(p, Active).nf

Element(f, sugar) ==
    [poly |-> f, lt |-> Lead(f), active |-> TRUE, sugar |-> sugar]

IsConstant(f) == Degree(Lead(f)) = 0

-----------------------------------------------------------------------------
(* generate_pairs_against: pairs of a new element with the active ones that *)
(* are not coprime to it (the product criterion).                           *)

Partners(lt) == {k \in DOMAIN basis : basis[k].active /\ ~Coprime(lt, basis[k].lt)}

Larger(x, y) == IF x >= y THEN x ELSE y

PairSugar(k, lt, sugar) ==
    LET d == Degree(Lcm(lt, basis[k].lt))
    IN  Larger(sugar + d - Degree(lt), basis[k].sugar + d - Degree(basis[k].lt))

NewPair(k, lt, sugar) ==
    LET l == Lcm(lt, basis[k].lt)
    IN  [i |-> k, j |-> Len(basis) + 1, lcm |-> l,
         sugar |-> PairSugar(k, lt, sugar),
         age |-> age + Cardinality({c \in Partners(lt) : c <= k}),
         generation |-> generation]

(* What gm_insert, called on the pairs in the order of k, leaves: a pair    *)
(* stays unless the lcm of another divides its own; of equal ones the       *)
(* first stays.                                                             *)
Undominated(pairs) ==
    {p \in pairs : \A q \in pairs :
        Divides(q.lcm, p.lcm) => q.lcm = p.lcm /\ p.i <= q.i}

(* Mutant: the chain criterion without its two side conditions. *)
KilledByDivision(q, lt) == Divides(lt, q.lcm)

(* b_criterion_kill *)
Killed(q, lt) ==
    /\ Divides(lt, q.lcm)
    /\ Lcm(basis[q.j].lt, lt) # q.lcm
    /\ Lcm(basis[q.i].lt, lt) # q.lcm

OpenWith(queue, lt, sugar) ==
    {q \in queue : ~Killed(q, lt)}
        \cup Undominated({NewPair(k, lt, sugar) : k \in Partners(lt)})

(* deactivate_superseded, then push. *)
BasisWith(f, sugar) ==
    Append([k \in DOMAIN basis |->
                [basis[k] EXCEPT !.active = @ /\ ~Divides(Lead(f), basis[k].lt)]],
           Element(f, sugar))

-----------------------------------------------------------------------------
(* tail_reduce_active: each active element by the others, in place, with    *)
(* the reducers' dependencies folded into its own when they are tracked.    *)

Others(idx, w, i) ==
    Selected([k \in DOMAIN idx |-> k], {k \in DOMAIN idx : k # i /\ w.polys[k] # Zero})

(* Mutant: dependencies of the reducers are not folded in. *)
ReduceAtUntracked(idx, w, i) ==
    LET others == Others(idx, w, i)
    IN  [w EXCEPT !.polys[i] =
            NormalForm(w.polys[i], [k \in DOMAIN others |-> w.polys[others[k]]]).nf]

ReduceAt(idx, w, i) ==
    LET others == Others(idx, w, i)
        r == NormalForm(w.polys[i], [k \in DOMAIN others |-> w.polys[others[k]]])
        used == {idx[others[k]] : k \in r.used}
    IN  [polys |-> [w.polys EXCEPT ![i] = r.nf],
         deps  |-> IF config.traced /\ config.trackDeps
                   THEN [w.deps EXCEPT ![idx[i]] = @ \cup UNION {w.deps[u] : u \in used}]
                   ELSE w.deps]

TailReduced(b, d) ==
    LET idx == ActiveIndices(b)
        after[n \in 0 .. Len(idx)] ==
            IF n = 0 THEN [polys |-> PolysAt(b, idx), deps |-> d]
            ELSE ReduceAt(idx, after[n - 1], n)
        w == after[Len(idx)]
        slot(i) == CHOOSE k \in DOMAIN idx : idx[k] = i
    IN  IF Len(idx) < 2 \/ cancelled THEN [basis |-> b, deps |-> d]
        ELSE [basis |-> [i \in DOMAIN b |->
                            IF ~b[i].active THEN b[i]
                            ELSE IF w.polys[slot(i)] = Zero
                                 THEN [b[i] EXCEPT !.active = FALSE]
                                 ELSE [b[i] EXCEPT !.poly = Monic(w.polys[slot(i)])]],
              deps |-> w.deps]

-----------------------------------------------------------------------------
(* Calls.                                                                  *)

Fresh == cancelled' = FALSE /\ calls' = calls + 1

(* add_generators: an empty basis decides once whether the input counts as  *)
(* homogeneous.                                                             *)
AddCall ==
    /\ pc = "idle" /\ calls < config.calls
    /\ \E batch \in Batches(config) :
          /\ todo' = batch
          /\ inputs' = inputs \o batch
          /\ homog' = IF basis = <<>> THEN \A k \in DOMAIN batch : Homogeneous(batch[k])
                      ELSE homog
    /\ pc' = "adding"
    /\ Fresh
    /\ UNCHANGED <<config, basisVars, generation, useful, redIndex, trail,
                   tracer, told, tick>>

(* run_only: go on with what an earlier call left. *)
RunOnly ==
    /\ pc = "idle" /\ calls < config.calls /\ open # {}
    /\ pc' = IF trivial THEN "idle" ELSE "running"
    /\ Fresh
    /\ UNCHANGED <<config, basisVars, generation, useful, homog, redIndex, trail, todo,
                   tracer, told, inputs, tick>>

Cancel ==
    /\ config.cancels /\ pc # "idle" /\ ~cancelled
    /\ cancelled' = TRUE
    /\ UNCHANGED <<config, basisVars, generation, useful, homog, redIndex, trail, todo,
                   pc, tracer, calls, told, inputs, tick>>

(* The token is looked at before each generator: the rest is dropped. *)
DropGenerators ==
    /\ pc = "adding" /\ todo # <<>> /\ cancelled
    /\ todo' = <<>>
    /\ pc' = "idle"
    /\ tick' = ~tick
    /\ UNCHANGED <<config, basisVars, generation, useful, homog, redIndex, trail,
                   cancelled, tracer, calls, told, inputs>>

(* on_initial_reducers, on_initial_basis: the next input, and all that the  *)
(* active elements depend on.                                               *)
InitialDeps ==
    /\ inputCount' = inputCount + 1
    /\ deps' = Append(deps,
                  (IF inputCount < Len(inputs) THEN {inputCount + 1}
                   ELSE DOMAIN inputs)
                  \cup UNION {deps[i] : i \in {k \in DOMAIN basis : basis[k].active}})

SkipGenerator(g) ==
    /\ Reduced(g) = Zero
    /\ todo' = Tail(todo)
    /\ UNCHANGED <<basisVars, tracer>>

UnitGenerator(g) ==
    /\ Reduced(g) # Zero /\ IsConstant(Reduced(g))
    /\ basis' = Append(basis, Element(Monic(Reduced(g)), 0))
    /\ trivial' = TRUE
    /\ todo' = <<>>
    /\ InitialDeps
    /\ UNCHANGED <<open, age>>

NewGenerator(g) ==
    LET f == Monic(Reduced(g))
        lt == Lead(f)
    IN  /\ Reduced(g) # Zero /\ ~IsConstant(Reduced(g))
        /\ open' = OpenWith(open, lt, Degree(lt))
        /\ age' = age + Cardinality(Partners(lt))
        /\ basis' = BasisWith(f, Degree(lt))
        /\ todo' = Tail(todo)
        /\ InitialDeps
        /\ UNCHANGED trivial

InsertGenerator ==
    /\ pc = "adding" /\ todo # <<>> /\ ~cancelled
    /\ LET g == Head(todo)
       IN  /\ SkipGenerator(g) \/ UnitGenerator(g) \/ NewGenerator(g)
           /\ told' = Append(told, g)
    /\ tick' = ~tick
    /\ UNCHANGED <<config, generation, useful, homog, redIndex, trail, cancelled, pc,
                   calls, inputs>>

(* run returns at once on a trivial basis, and nothing is reduced then. *)
StartRun ==
    /\ pc = "adding" /\ todo = <<>>
    /\ pc' = IF trivial THEN "idle" ELSE "running"
    /\ tick' = ~tick
    /\ UNCHANGED <<config, basisVars, generation, useful, homog, redIndex, trail, todo,
                   cancelled, tracer, calls, told, inputs>>

-----------------------------------------------------------------------------
(* The main loop.  The pair is popped before the token is looked at.        *)

Less(p, q) ==
    \/ p.sugar < q.sugar
    \/ p.sugar = q.sugar /\ Degree(p.lcm) < Degree(q.lcm)
    \/ p.sugar = q.sugar /\ Degree(p.lcm) = Degree(q.lcm) /\ p.age < q.age

NextPairs == {p \in open : \A q \in open : ~Less(q, p)}

(* Mutant: the pair is looked at and stays. *)
RestKept(p) == open

Rest(p) == open \ {p}

LosePair ==
    /\ pc = "running" /\ cancelled
    /\ \E p \in NextPairs : open' = Rest(p)
    /\ pc' = "idle"
    /\ tick' = ~tick
    /\ UNCHANGED <<config, basis, age, trivial, generation, useful, homog, redIndex,
                   trail, todo, cancelled, tracer, calls, told, inputs>>

Older(p) == p.generation < generation

SkipPair(p) ==
    /\ open' = Rest(p)
    /\ UNCHANGED <<basis, age, trivial, useful, redIndex, tracer>>

UsesIndex(idx) == config.indexCache /\ Len(idx) >= config.threshold

Leads(idx) == [k \in DOMAIN idx |-> Lead(basis[idx[k]].poly)]

ReusesIndex(idx) == UsesIndex(idx) /\ redIndex.idx = idx

(* reduce_spoly_against_active; its debug assertion is the second conjunct. *)
Look(idx) ==
    /\ redIndex' = IF UsesIndex(idx) /\ ~ReusesIndex(idx)
                   THEN [idx |-> idx, lts |-> Leads(idx)] ELSE redIndex
    /\ ReusesIndex(idx) => redIndex.lts = Leads(idx)

UselessPair(p, r) ==
    /\ r.nf = Zero
    /\ open' = Rest(p)
    /\ UNCHANGED <<basis, age, trivial, useful, tracer>>

(* on_pair_reducers, on_new_poly: the parents and the reducers used. *)
PairDeps(p, idx, r) ==
    Append(deps, deps[p.i] \cup deps[p.j]
                     \cup UNION {deps[idx[k]] : k \in r.used})

UnitPair(p, idx, r) ==
    /\ r.nf # Zero /\ IsConstant(r.nf)
    /\ basis' = Append(basis, Element(Monic(r.nf), p.sugar))
    /\ trivial' = TRUE
    /\ open' = Rest(p)
    /\ useful' = useful + 1
    /\ deps' = PairDeps(p, idx, r)
    /\ UNCHANGED <<age, inputCount>>

NewPoly(p, idx, r) ==
    LET f == Monic(r.nf)
        lt == Lead(f)
        due == (useful + 1) % (IF homog THEN config.homogPeriod ELSE config.period) = 0
        grown == BasisWith(f, p.sugar)
        reduced == TailReduced(grown, PairDeps(p, idx, r))
    IN  /\ r.nf # Zero /\ ~IsConstant(r.nf)
        /\ open' = OpenWith(Rest(p), lt, p.sugar)
        /\ age' = age + Cardinality(Partners(lt))
        /\ useful' = useful + 1
        /\ basis' = IF due THEN reduced.basis ELSE grown
        /\ deps' = IF due THEN reduced.deps ELSE PairDeps(p, idx, r)
        /\ UNCHANGED <<trivial, inputCount>>

ReducePair(p) ==
    LET idx == ActiveIndices(basis)
        r == NormalForm(SPolynomial(basis[p.i].poly, basis[p.j].poly), PolysAt(basis, idx))
    IN  /\ Look(idx)
        /\ UselessPair(p, r) \/ UnitPair(p, idx, r) \/ NewPoly(p, idx, r)

ProcessPair ==
    /\ pc = "running" /\ ~cancelled /\ ~trivial
    /\ \E p \in NextPairs : IF Older(p) THEN SkipPair(p) ELSE ReducePair(p)
    /\ tick' = ~tick
    /\ UNCHANGED <<config, generation, homog, trail, todo, cancelled, pc, calls, told,
                   inputs>>

(* The end of the run; the body of the basis is inter-reduced unless it is  *)
(* trivial or observed.                                                     *)
FinishRun ==
    /\ pc = "running" /\ (open = {} \/ trivial)
    /\ basis' = IF trivial \/ config.traced THEN basis ELSE TailReduced(basis, deps).basis
    /\ pc' = "idle"
    /\ tick' = ~tick
    /\ UNCHANGED <<config, open, age, trivial, generation, useful, homog, redIndex,
                   trail, todo, cancelled, tracer, calls, told, inputs>>

-----------------------------------------------------------------------------
(* push and pop, between calls.                                            *)

Push ==
    /\ pc = "idle" /\ ~config.traced /\ Len(trail) < config.depth
    /\ trail' = Append(trail, [basis |-> basis, open |-> open, age |-> age,
                               generation |-> generation, trivial |-> trivial,
                               told |-> told])
    /\ generation' = generation + 1
    /\ UNCHANGED <<config, basisVars, useful, homog, redIndex, todo, cancelled, pc,
                   tracer, calls, told, inputs, tick>>

(* Mutant: survivors get their flags back but not their bodies. *)
RestoredFlags(cp) ==
    [i \in DOMAIN cp.basis |-> [basis[i] EXCEPT !.active = cp.basis[i].active]]

RestoredBasis(cp) == cp.basis

RestoredQueue(cp) == cp.open

Pop ==
    /\ pc = "idle" /\ trail # <<>>
    /\ LET cp == Last(trail)
       IN  /\ basis' = RestoredBasis(cp)
           /\ open' = RestoredQueue(cp)
           /\ age' = cp.age
           /\ generation' = cp.generation
           /\ trivial' = cp.trivial
           /\ told' = cp.told
    /\ trail' = Front(trail)
    /\ UNCHANGED <<config, useful, homog, redIndex, todo, cancelled, pc, tracer, calls,
                   inputs, tick>>

Done == pc = "idle" /\ calls = config.calls /\ UNCHANGED vars

Work == DropGenerators \/ InsertGenerator \/ StartRun \/ LosePair
            \/ ProcessPair \/ FinishRun

Next == AddCall \/ RunOnly \/ Cancel \/ Work \/ Push \/ Pop \/ Done

(* A call runs on its caller's thread until it returns.  This is the weak  *)
(* fairness of Work, which is enabled exactly while a call is running.     *)
Fairness == []<>(pc = "idle") \/ []<><<Work>>_vars

Spec == Init /\ [][Next]_vars /\ Fairness
-----------------------------------------------------------------------------
(* Properties                                                              *)

(* A quiescent engine holds a Groebner basis of all it was told             *)
(* (incremental.rs, is_quiescent).                                          *)
QuiescentIsGroebner ==
    pc = "idle" /\ open = {} /\ ~trivial =>
        /\ Groebner(Active)
        /\ \A k \in DOMAIN told : Reduced(told[k]) = Zero

(* It does unless a call was cancelled: no pair dropped by a criterion, a   *)
(* deactivation or a generation was needed.                                 *)
GroebnerUnlessCancelled == ~config.cancels => QuiescentIsGroebner

(* Nothing enters the basis that does not follow from the generators of the *)
(* levels still open, reduced in place or not, popped to or cancelled in    *)
(* between (incremental.rs, Checkpoint).                                    *)
BasisInIdeal == \A i \in DOMAIN basis : Member(basis[i].poly, ToSet(told))

InputsOf(D) == {inputs[i] : i \in D}

(* What the tracer says an element depends on entails it, as long as every  *)
(* input so far has become an element and inter-reductions are tracked.     *)
DepsEntail ==
    config.traced /\ config.trackDeps /\ inputCount = Len(told) =>
        \A i \in DOMAIN basis : Member(basis[i].poly, InputsOf(deps[i]))

(* The core of a contradiction is contradictory (gb/mod.rs, the comment on  *)
(* compute_gb_with_timeout_traced).                                         *)
CoreIsContradictory ==
    config.traced /\ trivial => Member(Last(basis).poly, InputsOf(Last(deps)))

(* Every call returns: no criterion, inter-reduction or resumption makes    *)
(* the loop go on for ever.                                                 *)
CallsReturn == pc # "idle" ~> pc = "idle"
=============================================================================
