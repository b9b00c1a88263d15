------------------------------- MODULE Theories -------------------------------
(***************************************************************************)
(* The theory plug-ins of CDCL(T) (picus-solver/src/cdclt/): FfTheory, its  *)
(* incremental sibling, the multi-prime router, and the equality-engine     *)
(* filter any of them may wear.  A set-up says which; the SAT solver is the *)
(* environment and may notify, push, pop, check and ask for propagations in *)
(* any order.  The Gröbner engines answer as they promise: a model is a     *)
(* zero of what they hold, an Unsat core has no zero, and they may give up. *)
(*                                                                          *)
(* A literal is a solver variable or its negative.  Every theory is shown   *)
(* to implement TheoryContract.                                             *)
(***************************************************************************)
EXTENDS Terms, Selection, Functions, FiniteSetsExt

CONSTANTS
    SetUps,         \* what the orchestrator may hand to its loop (SolveFormula)
    MaxLevels,      \* bound: decision levels
    FieldPolyLimit, \* primes up to this one get field polynomials (1000 in the code)
    SpareSlots,     \* ring slots beyond variables and atoms (64 in the code)
    None

NamesOf(t) == UNION {Variables(t.key[v]) : v \in DOMAIN t.key}

\* A table of normal forms over a prime field, and its auxiliaries.
IsTable(t) ==
    /\ t.p \in Nat \ {0, 1} /\ \A a \in 1..(t.p - 1) : \E b \in 1..(t.p - 1) : (a * b) % t.p = 1
    /\ t.slots \in Nat /\ DOMAIN t.key \subseteq 1..t.slots
    /\ \A v \in DOMAIN t.key :
          /\ t.key[v] \in Seq(Range(t.key[v]))
          /\ \A i \in DOMAIN t.key[v] :
                /\ t.key[v][i] = [c |-> t.key[v][i].c, m |-> t.key[v][i].m]
                /\ t.key[v][i].c \in 1..(t.p - 1)
                /\ t.key[v][i].m \in Seq(Range(t.key[v][i].m))

ASSUME TheoryAssumption ==
    /\ FieldPolyLimit \in Nat /\ SpareSlots \in Nat
    /\ \A u \in SetUps :
          /\ u.kind \in {"full", "incremental", "router"} /\ u.ee \in BOOLEAN
          /\ u.vars \in Nat \ {0}
          /\ u.tables # <<>> /\ u.tables \in Seq(Range(u.tables))
          /\ u.kind # "router" \/ u.ee => Len(u.tables) = 1
          /\ \A s \in DOMAIN u.tables : IsTable(u.tables[s]) /\ u.tables[s].slots <= u.vars
          \* Each atom and each variable belongs to one prime.
          /\ \A r, s \in DOMAIN u.tables :
                /\ u.tables[r].aux \cap DOMAIN u.tables[s].key = {}
                /\ r # s => /\ DOMAIN u.tables[r].key \cap DOMAIN u.tables[s].key = {}
                            /\ NamesOf(u.tables[r]) \cap NamesOf(u.tables[s]) = {}
          /\ \A v \in DOMAIN u.assigned :
                u.assigned[v] \in DOMAIN u.tables /\ v \in DOMAIN u.tables[u.assigned[v]].key
          \* `names` is the size of the frame that numbers the variables.
          /\ u.kind = "incremental" => u.names \in Nat /\ NamesOf(u.tables[1]) \subseteq 1..u.names

VARIABLES
    setup,      \* kind, ee, tables, assigned, vars, names, twin
    world,      \* literal -> points at which it holds
    asserted,   \* history: the literals notified, level by level
    reply,      \* what the last call returned
    facts,      \* per table: the trail of facts
    levels,     \* checkpoints of the inner theory
    degraded,   \* the trail holds less than was asserted
    inc,        \* incremental: [slotOf, nextSlot, diseqs]
    gens,       \* incremental: generators in the engine, oldest first
    gbLevels,   \* the engine's own checkpoints
    polarity,   \* filter: class representative -> <<polarity, witness>>
    eeTrail,    \* filter: representatives in the order they were asserted
    eeLevels,   \* filter: checkpoints of eeTrail
    pending,    \* filter: <<atom, witness>> of a contradiction, or None
    pendingLevels

inner == <<facts, levels, degraded, inc, gens, gbLevels>>
filter == <<polarity, eeTrail, eeLevels, pending, pendingLevels>>
vars == <<setup, world, asserted, reply, inner, filter>>

-------------------------------------------------------------------------------
Abs(i) == IF i < 0 THEN -i ELSE i
Tables == DOMAIN setup.tables
HasAtom(s, v) == v \in DOMAIN setup.tables[s].key
Key(s, v) == setup.tables[s].key[v]
Prime(s) == setup.tables[s].p
IsAuxiliary(v) == \E s \in Tables : v \in setup.tables[s].aux

Field(t) == 0..(t.p - 1)
PointsOf(u) ==
    LET names == UNION {NamesOf(u.tables[s]) : s \in DOMAIN u.tables}
        values == UNION {Field(u.tables[s]) : s \in DOMAIN u.tables}
    IN  {x \in [names -> values] :
            \A s \in DOMAIN u.tables : \A n \in NamesOf(u.tables[s]) : x[n] \in Field(u.tables[s])}

Registered(u, v) == {s \in DOMAIN u.tables : v \in DOMAIN u.tables[s].key}
ZerosOf(t, v, points) == {x \in points : ValueAt(t.key[v], x, t.p) = 0}
Holding(u, l, points) ==
    IF Registered(u, Abs(l)) = {} THEN points
    ELSE LET zeros == ZerosOf(u.tables[Min(Registered(u, Abs(l)))], Abs(l), points)
         IN  IF l > 0 THEN zeros ELSE points \ zeros
WorldOn(u, points) == [l \in (-u.vars..u.vars) \ {0} |-> Holding(u, l, points)]
WorldOf(u) == WorldOn(u, PointsOf(u))

\* A literal and its negation share all points out.
Points == world[1] \cup world[-1]
Common(ls) == {x \in Points : \A l \in ls : x \in world[l]}
\* A model binds some variables; it stands for the points that agree with it.
Extensions(binding) == {x \in Points : \A n \in DOMAIN binding : x[n] = binding[n]}

NoReply == [kind |-> "none"]
Unknown == [kind |-> "unknown"]
SatReply(points) == [kind |-> "sat", points |-> points]
UnsatReply(core) == [kind |-> "unsat", core |-> core]

\* f, with the value v for k if it has none.
Extended(f, k, v) == [x \in DOMAIN f \cup {k} |-> IF x \in DOMAIN f THEN f[x] ELSE v]

-------------------------------------------------------------------------------
(* Notification. *)

NewSlot(state, n) ==
    IF n \in DOMAIN state.inc.slotOf \/ state.full THEN state
    ELSE IF state.inc.nextSlot > setup.names + setup.tables[1].slots + SpareSlots
    THEN [state EXCEPT !.full = TRUE]
    ELSE [inc  |-> [slotOf |-> Extended(state.inc.slotOf, n, state.inc.nextSlot),
                    nextSlot |-> state.inc.nextSlot + 1, diseqs |-> state.inc.diseqs],
          gens |-> IF Prime(1) <= FieldPolyLimit
                   THEN Append(state.gens, [kind |-> "field", slot |-> state.inc.nextSlot])
                   ELSE state.gens,
          full |-> FALSE]

\* The names of a key in the order the encoding meets them.
NamesInOrder(key) == FlattenSeq([i \in DOMAIN key |-> key[i].m])
Witness(n) == <<"w", n>>
\* The generator of a literal: its key over slots, times the witness if negative.
Encoded(l, slotOf, witness) ==
    LET key == Key(1, Abs(l))
    IN  [kind |-> "atom", lit |-> l,
         terms |-> [i \in DOMAIN key |->
                      [key[i] EXCEPT !.m = [j \in DOMAIN @ |-> slotOf[<<"x", @[j]>>]]]],
         w |-> IF l > 0 THEN 0 ELSE slotOf[witness]]

(* build_atom_polys: slots are claimed as the key is walked, the witness last. *)
Claimed(l) ==
    LET start == [inc |-> inc, gens |-> gens, full |-> FALSE]
        keyed == FoldLeft(LAMBDA s, n : NewSlot(s, <<"x", n>>), start, NamesInOrder(Key(1, Abs(l))))
        w == Witness(keyed.inc.diseqs)
    IN  IF l > 0 \/ keyed.full THEN keyed
        ELSE NewSlot([keyed EXCEPT !.inc.diseqs = @ + 1], w)

NotifyIncremental(l) ==
    IF ~HasAtom(1, Abs(l))
    THEN degraded' = TRUE /\ UNCHANGED <<facts, inc, gens>>
    ELSE LET c == Claimed(l)
         IN  /\ inc' = c.inc
             /\ degraded' = (degraded \/ c.full)
             /\ facts' = IF c.full THEN facts ELSE [facts EXCEPT ![1] = Append(@, l)]
             /\ gens' = IF c.full THEN c.gens
                        ELSE Append(c.gens, Encoded(l, c.inc.slotOf, Witness(inc.diseqs)))

NotifyFull(l) ==
    /\ facts' = IF IsAuxiliary(Abs(l)) THEN facts ELSE [facts EXCEPT ![1] = Append(@, l)]
    /\ UNCHANGED <<degraded, inc, gens>>

NotifyRouter(l) ==
    LET v == Abs(l)
        routed == v \in DOMAIN setup.assigned
    IN  /\ facts' = IF routed /\ v \notin setup.tables[setup.assigned[v]].aux
                    THEN [facts EXCEPT ![setup.assigned[v]] = Append(@, l)] ELSE facts
        /\ degraded' = (degraded \/ (~routed /\ ~IsAuxiliary(v)))
        /\ UNCHANGED <<inc, gens>>

NotifyInner(l) ==
    /\ CASE setup.kind = "incremental" -> NotifyIncremental(l)
         [] setup.kind = "full" -> NotifyFull(l)
         [] setup.kind = "router" -> NotifyRouter(l)
    /\ UNCHANGED <<levels, gbLevels>>

\* The classes: atoms registered with the same key, named by the smallest.
RepOf(v) ==
    IF HasAtom(1, v) THEN Min({u \in DOMAIN setup.tables[1].key : Key(1, u) = Key(1, v)}) ELSE v

\* Fresh, Redundant or Contradiction.
NotifyFilter(l) ==
    LET rep == RepOf(Abs(l))
        known == rep \in DOMAIN polarity
        clash == known /\ polarity[rep][1] # (l > 0)
    IN  /\ polarity' = Extended(polarity, rep, <<l > 0, Abs(l)>>)
        /\ eeTrail' = IF known THEN eeTrail ELSE Append(eeTrail, rep)
        /\ pending' = IF clash /\ polarity[rep][2] # Abs(l)
                      THEN <<Abs(l), polarity[rep][2]>> ELSE pending
        /\ IF known /\ ~clash THEN UNCHANGED inner ELSE NotifyInner(l)
        /\ UNCHANGED <<eeLevels, pendingLevels>>

NotifyFact(l) ==
    /\ \A k \in DOMAIN asserted : \A i \in DOMAIN asserted[k] : Abs(asserted[k][i]) # Abs(l)
    /\ IF setup.ee THEN NotifyFilter(l) ELSE NotifyInner(l) /\ UNCHANGED filter
    /\ asserted' = [asserted EXCEPT ![Len(asserted)] = Append(@, l)]
    /\ reply' = NoReply
    /\ UNCHANGED <<setup, world>>

-------------------------------------------------------------------------------
(* Levels. *)

Push ==
    /\ Len(asserted) <= MaxLevels
    /\ levels' = Append(levels, [facts |-> [s \in Tables |-> Len(facts[s])],
                                 degraded |-> degraded, inc |-> inc])
    /\ gbLevels' = Append(gbLevels, Len(gens))
    /\ eeLevels' = IF setup.ee THEN Append(eeLevels, Len(eeTrail)) ELSE eeLevels
    /\ pendingLevels' = IF setup.ee THEN Append(pendingLevels, pending) ELSE pendingLevels
    /\ asserted' = Append(asserted, <<>>)
    /\ reply' = NoReply
    /\ UNCHANGED <<setup, world, facts, degraded, inc, gens, polarity, eeTrail, pending>>

\* Checkpoints that would forget the slots.
PopKeepsSlots ==
    LET cp == Last(levels)
    IN  /\ facts' = [s \in Tables |-> SubSeq(facts[s], 1, cp.facts[s])]
        /\ degraded' = cp.degraded
        /\ inc' = inc
        /\ gens' = SubSeq(gens, 1, Last(gbLevels))
        /\ levels' = Front(levels) /\ gbLevels' = Front(gbLevels)

PopInner ==
    LET cp == Last(levels)
    IN  /\ facts' = [s \in Tables |-> SubSeq(facts[s], 1, cp.facts[s])]
        /\ degraded' = cp.degraded
        /\ inc' = cp.inc
        /\ gens' = SubSeq(gens, 1, Last(gbLevels))
        /\ levels' = Front(levels) /\ gbLevels' = Front(gbLevels)

\* A filter that would not take back a polarity, or a contradiction.
PopKeepsPolarity ==
    /\ eeTrail' = SubSeq(eeTrail, 1, Last(eeLevels))
    /\ UNCHANGED polarity
    /\ eeLevels' = Front(eeLevels)
    /\ pending' = Last(pendingLevels)
    /\ pendingLevels' = Front(pendingLevels)

PopKeepsPending ==
    LET keep == SubSeq(eeTrail, 1, Last(eeLevels))
    IN  /\ eeTrail' = keep
        /\ polarity' = Restrict(polarity, ToSet(keep))
        /\ eeLevels' = Front(eeLevels)
        /\ pending' = pending
        /\ pendingLevels' = Front(pendingLevels)

PopFilter ==
    LET keep == SubSeq(eeTrail, 1, Last(eeLevels))
    IN  /\ eeTrail' = keep
        /\ polarity' = Restrict(polarity, ToSet(keep))
        /\ eeLevels' = Front(eeLevels)
        /\ pending' = Last(pendingLevels)
        /\ pendingLevels' = Front(pendingLevels)

Pop ==
    /\ levels # <<>>
    /\ PopInner
    /\ IF setup.ee THEN PopFilter ELSE UNCHANGED filter
    /\ asserted' = Front(asserted)
    /\ reply' = NoReply
    /\ UNCHANGED <<setup, world>>
-------------------------------------------------------------------------------
(* post_check. *)

AtomFacts(s) == Selected(facts[s], {l \in ToSet(facts[s]) : HasAtom(s, Abs(l))})
FactVars(s, fs) == UNION {Variables(Key(s, Abs(fs[j]))) : j \in DOMAIN fs}

\* The encoded system of the facts fs: an equality for each, and a Rabinowitsch
\* polynomial besides for each negative one.  <<"eq", j>> and <<"rab", d>> are
\* the provenance tags of its polynomials.
Negative(fs) == {j \in DOMAIN fs : fs[j] < 0}
RabTag(fs, j) == <<"rab", Cardinality({i \in Negative(fs) : i <= j})>>
Tags(fs) == {<<"eq", j>> : j \in DOMAIN fs} \cup {RabTag(fs, j) : j \in Negative(fs)}
\* Without its Rabinowitsch polynomial the equality d = lhs of a negative fact
\* binds nothing but d.
Constrains(fs, tags) ==
    {fs[j] : j \in {i \in DOMAIN fs : <<"eq", i>> \in tags
                                      /\ (fs[i] < 0 => RabTag(fs, i) \in tags)}}

\* No equality of a trail is dropped before encoding (no key is the zero
\* polynomial), so the equality tags are always aligned with the facts.
CoreAtoms(fs, tags) ==
    LET isNamed(j) == \/ <<"eq", j>> \in tags
                      \/ j \in Negative(fs) /\ RabTag(fs, j) \in tags
        named == {Abs(fs[j]) : j \in {i \in DOMAIN fs : isNamed(i)}}
    IN  IF named = {} THEN {Abs(fs[j]) : j \in DOMAIN fs} ELSE named

\* What check_full_with_atoms may answer: a binding of the variables of the
\* facts that satisfies them, the tags of a contradiction, or nothing.
OutcomesOn(s, fs) ==
    {Unknown}
    \cup {[kind |-> "sat", model |-> Restrict(x, FactVars(s, fs))] : x \in Common(ToSet(fs))}
    \cup {UnsatReply(CoreAtoms(fs, tags)) :
             tags \in {c \in SUBSET Tags(fs) : Common(Constrains(fs, c)) = {}}}

SlotOutcomes(s) ==
    IF AtomFacts(s) = <<>> THEN {[kind |-> "sat", model |-> <<>>]}
    ELSE OutcomesOn(s, AtomFacts(s))

\* Unsat of any table wins over Unknown, Unknown over Sat; cores and models unite.
Combined(outcomes) ==
    LET unsat == {s \in DOMAIN outcomes : outcomes[s].kind = "unsat"}
        core == UNION {outcomes[s].core : s \in unsat}
    IN  IF core # {} THEN UnsatReply(core)
        ELSE IF \E s \in DOMAIN outcomes : outcomes[s].kind = "unknown" THEN Unknown
        ELSE SatReply({x \in Points : \A s \in DOMAIN outcomes :
                          \A n \in DOMAIN outcomes[s].model : x[n] = outcomes[s].model[n]})

\* One outcome for each table.
AllOutcomes ==
    {os \in [Tables -> UNION {SlotOutcomes(s) : s \in Tables}] :
        \A s \in Tables : os[s] \in SlotOutcomes(s)}

\* Incremental: the values of the slots at which every generator vanishes.  A
\* witness is free to be the inverse of what it multiplies, once.
SlotsRead == UNION {Variables(gens[i].terms) : i \in {k \in DOMAIN gens : gens[k].kind = "atom"}}
Vanishes(y) ==
    LET p == Prime(1)
        atom == {i \in DOMAIN gens : gens[i].kind = "atom"}
        value(i) == ValueAt(gens[i].terms, y, p)
        neg == {i \in atom : gens[i].w # 0}
    IN  /\ \A i \in atom \ neg : value(i) = 0
        /\ \A i \in neg : value(i) # 0 /\ (gens[i].w \in SlotsRead => (value(i) * y[gens[i].w]) % p = 1)
        /\ \A i, j \in neg : gens[i].w = gens[j].w => value(i) = value(j)

Zeros == {y \in [SlotsRead -> 0..(Prime(1) - 1)] : Vanishes(y)}

\* The binding of a zero: named slots only, without witnesses and placeholders.
Binding(y) ==
    LET named == {n \in DOMAIN inc.slotOf : n[1] = "x" /\ inc.slotOf[n] \in SlotsRead}
    IN  [n \in {m[2] : m \in named} |-> y[inc.slotOf[<<"x", n>>]]]

\* Over a prime with field polynomials the search for a zero is exhaustive; over
\* a larger one it may give up, and so may every check that is cancelled.
IncrementalReplies ==
    {Unknown} \cup
    (IF degraded THEN {}
     ELSE IF facts[1] = <<>> THEN {SatReply(Points)}
     ELSE IF Zeros = {} THEN {UnsatReply({Abs(l) : l \in ToSet(facts[1])})}
     ELSE {SatReply(Extensions(Binding(y))) : y \in Zeros})

InnerReplies ==
    CASE setup.kind = "full" -> {Combined(<<o>>) : o \in SlotOutcomes(1)}
      [] setup.kind = "router" ->
            IF degraded THEN {Unknown}
            ELSE {Combined(os) : os \in AllOutcomes}
      [] setup.kind = "incremental" -> IncrementalReplies

\* The orchestrator reads the polarity of a core's atom off its own trail.
AssertedNow == UNION {ToSet(asserted[k]) : k \in DOMAIN asserted}
OnTrail(v) == IF -v \in AssertedNow THEN -v ELSE v

PostCheck ==
    /\ IF pending # None
       THEN /\ reply' = UnsatReply({OnTrail(pending[1]), OnTrail(pending[2])})
            /\ pending' = None
       ELSE /\ \E r \in InnerReplies :
                  reply' = IF r.kind = "unsat" THEN UnsatReply({OnTrail(v) : v \in r.core}) ELSE r
            /\ UNCHANGED pending
    /\ UNCHANGED <<setup, world, asserted, inner, polarity, eeTrail, eeLevels, pendingLevels>>

-------------------------------------------------------------------------------
(* Propagation, over the facts of the one table. *)

\* The constants that positive facts pin variables to, the latest fact winning:
\* variable -> <<value, fact>>.
PinOf(l) == IF l > 0 /\ HasAtom(1, l) THEN SingleVarEq(Key(1, l), Prime(1)) ELSE <<>>
Pins ==
    LET pinning == {i \in DOMAIN facts[1] : PinOf(facts[1][i]) # <<>>}
        latest(x) == facts[1][Max({i \in pinning : PinOf(facts[1][i])[1] = x})]
    IN  [x \in {PinOf(facts[1][i])[1] : i \in pinning} |-> <<PinOf(latest(x))[2], latest(x)>>]

PinnedValue(m, pins) == Product([i \in DOMAIN m |-> pins[m[i]][1]])
Sources(vs, pins) == {pins[x][2] : x \in vs \cap DOMAIN pins}
OnFacts(v) == \E i \in DOMAIN facts[1] : Abs(facts[1][i]) = v

\* An atom whose variables are all pinned is decided.
Tier1(pins) ==
    LET decided == {v \in DOMAIN setup.tables[1].key :
                        /\ ~OnFacts(v)
                        /\ Variables(Key(1, v)) # {}
                        /\ Variables(Key(1, v)) \subseteq DOMAIN pins}
        value(v) == ValueAt(Key(1, v), [x \in DOMAIN pins |-> pins[x][1]], Prime(1))
    IN  {[lit |-> IF value(v) = 0 THEN v ELSE -v,
          reason |-> Sources(Variables(Key(1, v)), pins)] : v \in decided}

\* A positive fact in which the pins leave one variable, linearly, pins that one.
Open(t, pins) == Selected(t.m, ToSet(t.m) \ DOMAIN pins)
Closed(t, pins) == Selected(t.m, DOMAIN pins)
LeftOpen(key, pins) == Variables(key) \ DOMAIN pins
Linear(key, pins) ==
    /\ Cardinality(LeftOpen(key, pins)) = 1
    /\ \A i \in DOMAIN key : Len(Open(key[i], pins)) <= 1

Coefficient(key, pins) ==
    SumOf([i \in DOMAIN key |-> IF Open(key[i], pins) = <<>> THEN 0
                                ELSE key[i].c * PinnedValue(Closed(key[i], pins), pins)]) % Prime(1)

Remainder(key, pins) ==
    SumOf([i \in DOMAIN key |-> IF Open(key[i], pins) # <<>> THEN 0
                                ELSE key[i].c * PinnedValue(key[i].m, pins)]) % Prime(1)

Derived(key, pins) ==
    ((Prime(1) - Remainder(key, pins)) * FieldInverse(Coefficient(key, pins), Prime(1))) % Prime(1)

Tier2(pins) ==
    LET sources == {a \in ToSet(facts[1]) :
                      /\ a > 0 /\ HasAtom(1, a) /\ SingleVarEq(Key(1, a), Prime(1)) = <<>>
                      /\ Linear(Key(1, a), pins) /\ Coefficient(Key(1, a), pins) # 0}
        targets(a) == {v \in PinningAtoms(setup.tables[1].key, CHOOSE x \in LeftOpen(Key(1, a), pins) : TRUE, Prime(1)) :
                          v # a /\ ~OnFacts(v)}
    IN  UNION {{[lit |-> IF PinnedConstant(setup.tables[1].key, v, Prime(1)) = Derived(Key(1, a), pins) THEN v ELSE -v,
                 reason |-> {a} \cup Sources(Variables(Key(1, a)), pins)] : v \in targets(a)} :
                 a \in sources}

\* Each atom is derived once: by the first tier if it can, by one fact of the second.
Propagate ==
    /\ LET tier1 == Tier1(Pins)
           tier2 == {d \in Tier2(Pins) : \A e \in tier1 : Abs(e.lit) # Abs(d.lit)}
           once(ds) == \A d, e \in ds : Abs(d.lit) = Abs(e.lit) => d = e
           all(ds) == \A d \in tier2 : \E e \in ds : Abs(e.lit) = Abs(d.lit)
       IN  IF setup.kind = "router" THEN reply' = [kind |-> "derived", facts |-> {}]
           ELSE \E ds \in SUBSET tier2 :
                   /\ once(ds) /\ all(ds)
                   /\ reply' = [kind |-> "derived", facts |-> tier1 \cup ds]
    /\ UNCHANGED <<setup, world, asserted, inner, filter>>

-------------------------------------------------------------------------------
Init ==
    /\ setup \in SetUps
    /\ world = WorldOf(setup)
    /\ asserted = << <<>> >>
    /\ reply = NoReply
    /\ facts = [s \in Tables |-> <<>>]
    /\ levels = <<>> /\ gbLevels = <<>>
    /\ degraded = FALSE
    /\ inc = [slotOf |-> <<>>, nextSlot |-> 1, diseqs |-> 0]
    /\ gens = <<>>
    /\ polarity = <<>> /\ eeTrail = <<>> /\ eeLevels = <<>>
    /\ pending = None /\ pendingLevels = <<>>

Next ==
    \/ \E l \in DOMAIN world : NotifyFact(l)
    \/ Push
    \/ Pop
    \/ PostCheck
    \/ Propagate

Spec == Init /\ [][Next]_vars

-------------------------------------------------------------------------------
(* Properties. *)

(* Whichever plug-in is chosen, with the filter or without it, its models    *)
(* satisfy all that is asserted, its cores are asserted and contradictory,   *)
(* and each literal it derives is entailed by its reason.                    *)
Contract == INSTANCE TheoryContract
ImplementsContract == Contract!Spec

\* What the theory should have on its trail of what was asserted.
Trail == FlattenSeq(asserted)
\* Without the fact the filter drops: one whose class already has its polarity.
DroppedAt(trail, i) ==
    /\ setup.ee
    /\ \E j \in 1..(i - 1) :
          /\ RepOf(Abs(trail[j])) = RepOf(Abs(trail[i]))
          /\ (trail[j] > 0) = (trail[i] > 0)
          /\ \A k \in 1..(j - 1) : RepOf(Abs(trail[k])) # RepOf(Abs(trail[j]))

\* The literals table s is meant to hold.
Belongs(s, l) ==
    CASE setup.kind = "full" -> ~IsAuxiliary(Abs(l))
      [] setup.kind = "incremental" -> HasAtom(1, Abs(l))
      [] setup.kind = "router" -> Abs(l) \in DOMAIN setup.assigned /\ setup.assigned[Abs(l)] = s

\* Of a trail, in its order.
MeantFor(s, trail) ==
    Selected(trail, {trail[i] : i \in {j \in DOMAIN trail : Belongs(s, trail[j])
                                                            /\ ~DroppedAt(trail, j)}})

(* After any sequence of notifications, pushes and pops each table's facts   *)
(* are the asserted literals it is meant to hold.                            *)
TrailsAgree == \A s \in Tables : facts[s] = MeantFor(s, Trail)

(* The incremental basis is rolled back with the trail: its generators are   *)
(* the facts, each over the slots its variables have now and with a witness  *)
(* of its own, and over a small prime one field polynomial for each slot in  *)
(* use (the assertion of post_check asks only that there be some polynomial).*)
AtomGens == Selected(gens, {g \in ToSet(gens) : g.kind = "atom"})
FieldSlots == {gens[i].slot : i \in {k \in DOMAIN gens : gens[k].kind = "field"}}
BasisMatchesTrail ==
    setup.kind = "incremental" =>
        /\ FieldSlots = IF Prime(1) <= FieldPolyLimit THEN 1..(inc.nextSlot - 1) ELSE {}
        /\ \A n, m \in DOMAIN inc.slotOf : inc.slotOf[n] = inc.slotOf[m] => n = m
        /\ [i \in DOMAIN AtomGens |-> AtomGens[i].lit] = facts[1]
        /\ \A i \in DOMAIN AtomGens :
              LET g == AtomGens[i]
              IN  \E d \in 0..inc.diseqs :
                     /\ g = Encoded(g.lit, inc.slotOf, Witness(d))
                     /\ g.lit < 0 => /\ Witness(d) \in DOMAIN inc.slotOf
                                     /\ \A j \in DOMAIN AtomGens \ {i} : AtomGens[j].w # g.w

===============================================================================
