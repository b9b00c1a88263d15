# Picus in TLA+

Picus decides whether a circuit given as R1CS constraints is *uniquely
determined*: whether the inputs fix every output. It alternates cheap algebraic
propagation lemmas with calls to a solver for quantifier-free formulas over a
prime field (QF_FF), its own Gröbner-basis engine under a CDCL(T) loop by
default. A wrong "safe" hides an under-constrained circuit, a wrong "unsafe" is
a false alarm, and a lost wire or a lost clause is either of these a thousand
steps later. This directory holds TLA+ models of that machinery, TLC
configurations that check them on small instances, and proofs, checked by
TLAPS, that hold for every value of the constants.

Paths below are relative to `src/crates/`.

## 1. Inventory

The program is single-threaded but for the cancellation flag, which a signal
handler or a caller may raise at any time; nothing is persisted. What makes it
hard is state that is kept in several places at once and must agree, long
sequences of legal steps, and answers that are trusted without a second look.

| Part | State it keeps | Operations | Correct when |
|---|---|---|---|
| DPVL driver, `picus-analysis/src/dpvl.rs` | known and unknown wires `ks`, `us`, the round's pool, the IR's known signals and marker equalities, selector weights | `run_dpvl`, `iterate`, `propagate`, `solve` | verdicts are true; the query equates exactly the known wires; no wire forgotten or asked twice; it ends |
| Selector, `selector.rs` | per-wire weights | `select`, `feedback` | takes a wire of the pool |
| Propagation lemmas, `picus-analysis/src/propagation/` | value ranges, learned clauses, memo sets of `aboz`, `binary01` and `tecomplete` | one `run` per lemma and round | only determined wires are promoted, clauses follow from the circuit |
| PolyIR, `picus-smt/src/poly_ir.rs` | polynomials of both copies, known signals, target, disjunctions | lowering, `add_known_wire`, `set_target` | lowering is exact, one marker a wire |
| Backends, `picus-smt/src/backends/` | the native one: the query cache | `solve` | answers what the query says, or nothing |
| Encoder, `picus-solver/src/frontend/` | constraint system, bits, bitsums, provenance of the polynomials | elimination, rewriting, bitsum extraction, bit propagation, encoding | keeps the solutions; blames constraints that are to blame |
| Boolean layer, `boolean.rs`, `cdclt/cnf.rs`, `cdclt/atoms.rs` | interned atoms, auxiliary variables | Tseitin and DNF expansion, `intern_eq` | same models; equal atoms share a variable |
| CDCL(T) loop, `picus-solver/src/cdclt/orchestrator.rs` | how much of the trail the theory knows, theory depth | `cdclt_loop` and its helpers | the theory's trail mirrors the solver's; sat and unsat are right |
| SAT solver, `picus-solver/src/sat/` | trail, levels, reasons, watch lists, clause arena, heap, restarts | `add_clause`, `propagate`, `analyze`, `learn_clause`, `add_theory_lemma_with_trail`, `backtrack_to`, `perform_restart`, `pick_decision` | no conflict missed, learnt clauses follow, analysis always succeeds |
| Theories, `cdclt/ff_theory.rs`, `ff_theory_incremental.rs`, `ee_filtered.rs`, `equality_engine.rs`, `multi_prime.rs` | facts and level snapshots; bases, classes and slots beside them | `notify_fact`, `push`, `pop`, `propagate`, `post_check` | cores are inconsistent, rollback is exact |
| Query cache, `incremental_context.rs` | cached base, last digest, partial build | `solve`, `rebuild_base`, `continue_partial` | a base answers only for its own constraints, at any cancellation |
| Entry points and search, `core.rs`, `split_gb/`, `gb/model.rs`, `gb/brancher.rs` | two bases and their provenance, a stack of branchers, saved phases, nogoods | fixpoint, branching, `split_find_zero`, `find_zero` | a model is a zero; unsat only when exhausted; it ends |
| Gröbner engines, `ff/`, `gb/` | basis elements, S-pair queue, generations, tracer dependencies, signatures | Buchberger (dense and sparse), GVW, FGLM, push and pop | criteria drop only redundant pairs; cores cover what was used |
| Univariate roots, `gb/roots.rs`, `ff/univariate.rs` | a random stream | square-free part, linear factors, splitting | every root found, or the answer says it may not be complete |
| SMT-LIB session, `smt2/` | assertion stack, declarations, macros, skolems, last answer | declare, define, assert, push, pop, reset, check-sat | an answer is about the assertions in scope |
| Algebra, configuration, profiling, `picus-core/src/` | polynomials; thread-local configuration; counters | arithmetic; layered configuration with a guard | exact arithmetic; a guard restores what it replaced |
| R1CS parser, API, CLI, cvc5 bindings | - | reading, wiring, printing | faithful reading |

Interaction: the CLI hands a parsed file to `picus::check_r1cs`, which installs
the configuration and calls `run_dpvl`; the driver lowers the circuit to a
`PolyIR`, runs the lemmas on it and gives the same IR to a backend, one target
at a time; the native backend turns it into a constraint system for the query
cache, or into a formula for CDCL(T) if lemmas have added clauses; both end in
the encoder, a Gröbner basis (single or split) and the search for a zero of it.
The SMT-LIB session reaches the same solver with formulas of its own.

## 2. Modules

| Module | Models | Checked by |
|---|---|---|
| `Circuits` | solution sets, determined wires | - |
| `Uniqueness` | what the analysis promises: the abstract specification | refined by `Dpvl` |
| `Dpvl`, `DpvlProofs` | driver, selector, the query's bookkeeping; theorems | `MCDpvl`, TLAPS |
| `Propagation`, `PropagationProofs` | lowering, six lemmas, the round loop; theorems | `MCPropagation`, TLAPS |
| `Selection`, `FoldLemmas` | selection from a sequence; induction, recursions and folds over one | through `PropagationProofs`, `TheoriesProofs`, `IncrementalGbProofs`, TLAPS |
| `Terms` | polynomials as term lists: normal forms, values | through its users |
| `BooleanLayer` | preprocessing, NNF, DNF, Tseitin with interned atoms | through `FrontEnd`, `Theories`, `Session` |
| `Encoder` | systems, linear elimination, rewriting, bitsums, encoding | through `FrontEnd` |
| `FrontEnd` | a query from a backend to an answer, on every path | `MCFrontEnd` |
| `SolveFormula` | how `solve_formula` sets a CDCL(T) search up | through `MCTheories` |
| `SatSolver` | `sat::Solver` as a record and functions on it | through `CdclT` |
| `CdclT`, `CdclTProofs` | `cdclt_loop` over the solver and a theory; theorems | `MCCdclT`, TLAPS |
| `TheoryContract` | what CDCL(T) asks of a theory: an abstract specification | implemented by `Theories` |
| `Theories`, `TheoriesProofs` | the four theory plug-ins and the equality filter; theorems | `MCTheories`, TLAPS |
| `QueryCache`, `QueryCacheProofs` | the native backend's query cache over two engines; theorems | `MCQueryCache`, TLAPS |
| `FindZero` | search for a zero of one basis; branchers | through `SplitSearch` |
| `SplitSearch`, `SplitSearchProofs` | `core.rs`, the traced fixpoint, the split search; theorems | `MCSplitSearch`, TLAPS |
| `Monomials`, `Polynomials` | dense monomials, polynomials over GF(p) | through the engines |
| `IncrementalGb`, `IncrementalGbProofs` | dense Buchberger engine, its calls, checkpoints, tracer, divisor index; theorems | `MCIncrementalGb`, TLAPS |
| `SparseEngine`, `Geobucket` | the sparse engine and its reduction by buckets | through `Ideals` |
| `Gvw` | signature-based basis | through `Ideals` |
| `HilbertFunction` | Hilbert function by pivots, dimension | through `Ideals` |
| `Univariate` | root finding | through `Ideals` |
| `Ideals` | `Ideal`: construction, extension, minimal polynomials, roots, Lex basis | `MCIdeals` |
| `SmtParser`, `Session` | terms to formulas, the one-shot parsers; the session | `MCSession` |

`MC…` modules hold instances only.

How they compose. `Dpvl` takes the lemmas as "promote what the known wires force"
and the solver as "answer what the query says, or nothing". `Propagation` shows
that the real lemmas promote only determined wires; `FrontEnd` that whatever path
a query takes, the answer is about the query, given a solver of systems, of
formulas and of clauses. `CdclT` is the solver of clauses over a theory that keeps
`TheoryContract`; `Theories` shows that each plug-in does, over the tables that
`SolveFormula` makes, given the engine. `QueryCache` and `SplitSearch` are the
solvers of systems, the first over engines that show what they were given, the
second over zero sets and root finders that are complete or say they are not;
`IncrementalGb` and `Ideals` show these of the engines on real polynomials.
`Dpvl` against `Uniqueness` and `Theories` against `TheoryContract` are checked, and
proved, as refinements; the other seams are these promises, each of which the lower module
has as a property and the upper one as its environment's only restriction.

## 3. State and actions

**`Dpvl`** (`picus-analysis/src/dpvl.rs`). `sols` is the circuit, known by its
solutions. `ks`, `us`, `uspool` are the locals of `iterate`; `knownSignals`,
`markers`, `target` are the fields of `PolyIR`; `weights` the selector's.

| Action | Code |
|---|---|
| `Propagate` | `propagate` and the sync of `ks` into the IR after it |
| `Check` | the target test and, without a backend, the early Unknown; `StartRound` makes the pool |
| `Pick` | `select`, removal from the pool, `set_target` |
| `Solve` | the match on the solver's result: `Verified`, `SatOnTarget`, `SkipWire` (model for a non-target, Unknown or error, with the selector's feedback) |
| `Decide` | the end of a round |

The Safe exit at the end of `iterate` (dpvl.rs:359) is in the model and never
taken: a round in which `ks` grew has made progress.

**`Propagation`** (`picus-analysis/src/propagation/`, `picus-smt/src/poly_ir.rs`).
Circuits are R1CS constraint lists; `Lower` computes the polynomials of both
copies from them, and the lemmas match these polynomials. `Aboz`, `Basis2`, `Bim`,
`Binary01`, `Linear`, `Tecomplete` are one run of a lemma each, in the order of
their names; `EndRound` folds learnt clauses into the IR and decides on another
round; `SolverProves` is the driver between two propagation passes: one more wire
unique, and the markers synced. `solutions` remembers the circuit's solutions.
`Tecomplete` is the twisted Edwards addition: the matcher over the six products,
the certificate (the curve's parameters make the addition complete), what it
promotes, on the curve and off it.

**`FrontEnd`** (`picus-smt/src/backends/`, `picus-solver/src/frontend/`,
`native_ff.rs`, `boolean.rs`). `query` and `setup` are the input and the options,
`stage` where the query has got to, the rest what the stage before made of it.

| Action | Code |
|---|---|
| `Reject`, `External` | a theory the backend does not take; cvc5 and Z3, as a contract over the terms they are given |
| `Eliminate`, `Lower`, `LowerDisjunctions` | linear pre-elimination, IR to constraint system, clauses to a DNF or a formula |
| `ReadFormula`, `SearchClauses` | `ToBooleanQuery` and preprocessing; the CDCL(T) path over the CNF |
| `Enumerate`, `NextSystem` | the DNF path: one system per conjunction, Unknown remembered |
| `PropagateBits`, `SolveSystem` | bit propagation on one branch; compaction, encoding, and the solver's reply, decoded |
| `Cancel` | the token, wherever it is looked at |

**`CdclT`** (`cdclt/orchestrator.rs`, `sat/solver.rs`). An action is one turn of a
loop: `AddClause`, `StartLoop`; `BeginIteration`; `NextLiteral`, `VisitWatcher`
(keep, move, propagate, conflict), `ScanEnd`, `Quiet` for `propagate`; `Resolve`
and `Learn` for `analyze` and what its callers do with the result; `Sync`,
`TheoryPropagates`, `TheoryRoundEnds`, `PostCheck` for the theory side;
`PickDecision`. The theory is the contract of `cdclt/theory.rs`: a set of admitted
assignments, derivations from any of its facts, cores that are any inconsistent
subset. The order of watchers, activities and saved phases are free choices.
`Solver::solve`, which tests only use, is left out.

**`Theories`** (`cdclt/ff_theory.rs` and the files beside it). A set-up names the
plug-in, its tables and whether the filter is worn. `facts` are the trails, one a
table; `levels` the checkpoints; `inc`, `gens`, `gbLevels` the incremental
theory's slots and the generators its engine holds; `polarity`, `eeTrail`,
`eeLevels`, `pending`, `pendingLevels` the filter. `NotifyFact`, `Push`, `Pop`,
`PostCheck`, `Propagate` are the trait's methods, in any order, which is more
freedom than `CdclT` takes. Equality classes are singletons in the code, where one
table never gives two variables one key; twins exist only through the public
interface and its tests, and one set-up has them, since without them the filter
would do nothing. `eq_aligned` is always true of `FfTheory`: it drops no equality
before encoding.

**`QueryCache`** (`incremental_context.rs`, `split_gb/`, `core.rs`,
`native_ff.rs`). `Call`, `Cancel`, `Panic`, `Collect` are the caller;
`FirstSight`, `Hit`, `Resume`, `Rebuild` are the branches of `solve`; `Build` is
`split_gb_cancel` and the fall to a partial build; `Take`, `EngineCancelled`,
`EngineReturns`, `Propagate`, `PropagateCancelled`, `EndResume` are
`continue_partial`; `Query` is `solve_with_cached`. A polynomial is a fact: its
zeros, over points of which only some are rational, and the shape admission asks
for. So an ideal is known up to its radical, and "no zeros at all" is told apart
from "no rational zeros". A side is what the encoder makes of it: constraints, by
then over auxiliary variables, and the bitsum definitions of these, which
`InitialGenerators` gives to the linear partition only, as `build_partitions` does.

**`SplitSearch`** and **`FindZero`** (`core.rs`, `split_gb/`, `gb/model.rs`,
`gb/brancher.rs`). A polynomial is the variables that occur in it and its zeros;
what a basis shows at a node is any fact true of the zeros that extend the node's
assignment. `stack` holds the branchers of the search that runs.

| Action | Code |
|---|---|
| `ShortCircuit`, `RadicalMembership`, `BuildPartitions` | the head of `solve_split_gb_cancel` |
| `ExtendTraced` (two partitions), `Cross`, `Settle` | the traced fixpoint: extend, propagate across, stop at nothing new or at the cap |
| `Search`, `Single`, `FindZeroRuns`, `AfterFindZero` | `split_find_zero_cancel` and its triangular shortcut; `solve_single_gb`; `find_zero_cancel` and what its callers do with the outcome |
| `TryTriangular`, `DropWholeRing`, `ExtractAssignment`, `Branch`, `BranchUnsplit`, `TryCandidate`, `BacktrackIdeal`, `Exhaust`, `Stop` | one turn of `find_zero_cancel` |
| `Root`, `Descend`, `SkipNogood`, `RecordNogood`, `ReturnConflict`, `ReachPoint`, `Backtrack`, `NoZero` | one turn of `split_zero_extend_cancel` |
| `GiveUp`, `Cancel` | the token looked at, the token raised |

**`IncrementalGb`** (`ff/buchberger/`, `ff/spair_criteria.rs`, `gb/tracer.rs`).
`AddCall`, `RunOnly`, `Push`, `Pop` are the calls; `InsertGenerator`,
`DropGenerators`, `StartRun`, `ProcessPair`, `LosePair`, `FinishRun` the work of
one between two looks at the token, `Cancel` the token. `ProcessPair` holds the
whole body of the loop: the generation test, the S-polynomial, its reduction (with
the cached index), the Gebauer-Möller and B criteria, superseding, periodic
inter-reduction, the tracer's events. Pairs of one key come in any order
(`NextPairs`). `told`, the generators consumed at the levels still open, and
`inputs`, all that were given, are history. The arithmetic is a parameter:
`Polynomials` in the runs, its laws in the proofs.

**`Ideals`** (`gb/ideal.rs`, `gb/ideal/engine.rs`, `gb/fglm.rs`, `gb/gb_homog.rs`, `ff/sparse_gb.rs`,
`ff/buchberger/gvw.rs`, `ff/univariate.rs`).
`New`, `Extend`, `AskMinPoly`, `FindRoots`, `AskLex` are the calls; `PreReduce`,
`AddGenerator`, `StartRun`, `ProcessPair` (sparse, and dense for the homogeneous
driver), `ProcessJPair` (GVW), `EndRun`, `Finish`, `Fail` the work between two
looks at the token, `RaiseCancel` the token. The sparse representation and the
direct strategy are the defaults. `ideal` and `dropped` are history: the
generators given, and whether the GVW path has just lost some (section 5).

**`Session`** (`smt2/session.rs`, `smt2/mod.rs`). `DefineSort`, `Declare`,
`DefineFun`, `AssertTerm`, `Push`, `Pop`, `Reset`, `ResetAssertions`, `CheckSat`
are the commands. `scope` is history: the terms asserted, level by level, which
the properties evaluate by a reference semantics of their own (`Value`);
`current` is whether anything was asserted, popped or reset since the last check.
`SmtParser` translates terms, expands macros, makes skolems of conditional terms
and holds the one-shot parsers. Without a declared prime these search the whole
script for one (`ScriptTerms`: asserted terms and the bodies of macros), where the
session searches the term it is given.

## 4. Runs

| Run | Instance | Question |
|---|---|---|
| `dpvl` | every circuit of at most two solutions over five wires (one-wire, an input, two outputs, an internal wire) and two values; all configurations | the query mirrors what is known, no wire forgotten or asked twice, termination, refinement of `Uniqueness` |
| `propagation` | GF(5), five wires: all sets of at most three constraints from a menu of eighteen, and nine gadgets; GF(3): the Edwards addition in full, without a certificate, with a shared coordinate, with one that is not known | lemmas promote determined wires only, learnt clauses follow, lowering is exact, rounds progress |
| `frontend` | eleven queries over GF(2), GF(3), GF(5) of at most four variables, every solver, theory and option | the answer is about the query, preprocessing keeps the models, provenance blames what is to blame, bits follow on their branch |
| `theories` | six formulas over GF(2) and GF(3), two levels: full, incremental with and without field polynomials, filter with twins, router with two primes and with a formula that folds away | trails are rolled back exactly, the basis with them, every reply keeps `TheoryContract` |
| `cdclt` | every selection of six clauses that holds three given ones, three atoms, four theories, all explanations | answers, analysis, watches, termination |
| `gb` | GF(3), three variables, four settings: push and pop, cancellation, tracing, divisor index | Gröbner basis when quiescent, nothing outside the ideal, dependencies, termination |
| `gb_core` | inputs that reduce to zero, traced | refutes that the core of a contradiction is contradictory |
| `cache` | five calls, four constraint sides (two bases needed, no solution, contradictory only with its bitsum definition, with a zero that only the definition excludes), two disequalities, cancellation and panic anywhere | answers, what is kept, exactness, return of every call |
| `search` | seven systems over GF(2) and GF(3), one as if its field were too large to enumerate; one basis and two | models and cores, no zero lost, nogoods barren, termination |
| `ideals` | GF(3), two variables, nine ideals, five extensions, four strategies, cancellation anywhere | reduced basis, minimal polynomial, Lex basis, roots |
| `ideals_gvw` | the same, signature-based | refutes that it generates the same ideal as the pairs do |
| `session` | a field name, a Boolean, a macro with a literal or without, four assertions (one refused), two at a time, one level | formulas say what the terms in scope say; answers, cores and one-shot parsers agree |

**What the properties say.** Of the driver: Safe and Unsafe are true (in the
refinement), Unknown comes only when every open wire was tried with all that is
known. Of the lemmas: no gate lets a wire through that two solutions disagree on.
Of a theory: a model satisfies all that is asserted, a core is asserted and
contradictory, a derived literal follows from its reason. Of the search: every zero
is in reach of a candidate left on the stack, unless the search already counts as
bounded, which is what makes an exhausted stack a proof. Of the engines: a basis
that is handed out is the reduced Gröbner basis of what was given, whatever was
cancelled before. Of the session: each level's formulas have, over the declared
names, exactly the models of the terms asserted there.

**Why the bounds are enough to be interesting.** Two solutions are all a
uniqueness question needs, since a counterexample is a pair; five wires give an
output that depends on another, a wire that must be verified before an output can
be, and an input to confuse with either. GF(5) holds a two-bit decomposition that
fits (values 0 to 3) and a three-bit one that does not (0 to 7), which is the
boundary `basis2` must respect; GF(3) has a non-square, which is what the Edwards
certificate asks for. The queries of `frontend` have a bit, a bitsum, an
elimination that leaves a contradiction, a clause that is a bit and one that is
not, and formulas nested under negation; its caps (5 conjunctions, 7 ring
variables) are met. Two levels and three or four literals let a theory forget what
it should keep and keep what it should forget, a contradiction stay pending over a
pop, a slot be reused. `SpareSlots` is 0, where the code has 64, so that slots run
out; `FieldPolyLimit` is 2 or 3, where it has 1000, so that primes lie on both
sides. Three atoms give a theory conflict with two literals on one level and an
assertion level below. The restart interval, 100 conflicts in the code, is 1; the
inter-reduction periods (128 and 32) are 1 or 2 and the index threshold (64) is 2,
so that each is met by a basis of three elements; batches of three generators give
chains of superseded elements, pairs killed by both criteria, and units. Buckets
of capacity 1 and 2 (128·4^i in the code) carry over; two of them, of sixteen.
Five cache calls are a first sight, a build cut short, a resumption cut short, a
resumption that completes, and a query on the result; panics and changes of side
take the place of any of these. One round of the fixpoint (256), one nogood
(4096), one unsplit factor and one value of a large field (all 64-bit values) are
each below what the systems of `search` would use, so that each limit is met. In
`session` one level, two assertions and two skolems are enough for a name, a
skolem or a core to outlive its level; the depth of macros is 1, so that one
assertion is refused after it has made a skolem.

**Fairness.** The program has one thread; a running loop is not preempted for ever.
`Dpvl` and `CdclT` assume weak fairness of the whole next-state relation: some
step is taken as long as one is possible. A solver call returns because each has a
timeout. `IncrementalGb`, `QueryCache` and `SplitSearch` assume it of the steps of
a call in progress (`Work`, `Step`); nobody is obliged to call, cancel or panic.
`IncrementalGb` writes it out as "infinitely often idle, or infinitely often a step
of `Work`": the two agree because `Work` is enabled exactly while a call runs. No
progress is assumed of cancellation: calls return without it. `Propagation`'s
`RoundsMakeProgress` is an action property: a round follows only one that made a
wire known or reported a product, of which there are finitely many.

## 5. Findings

| Run | Code | What it shows |
|---|---|---|
| `gb_core` | `gb/tracer.rs:89` | inputs that reduce to zero send no event, later ones are recorded under earlier numbers, and the core can be satisfiable |
| `ideals_gvw` | `ff/buchberger/mod.rs:841` | GVW starts from the active elements and clears the pairs that stood for the superseded ones: the result generates a smaller ideal |

The first can yield a wrong core: `solve_single_gb` (`core.rs:127`) returns it. The
split Gröbner basis, which the driver uses, does not read it: its traced fixpoint
takes all inputs for the core, and its comment (`split_gb/fixpoint.rs`,
"Conservative dependency attribution") gives the same reason. The second is behind
an option that is off by default, and could answer Sat or Unknown for Unsat.

Seen while modelling, and in the models as the code has it; none makes a checked
property false, each costs an answer or some work:

- `aboz` keeps products it has reported by ordered pair of wires, and the clauses are
  symmetric (`propagation/aboz.rs:154-170`): a product matched from its other side is
  reported again, with clauses the IR has, although the function is said to return
  "whether a new clause was emitted". Hence `RoundsMakeProgress` counts reports.
- `binary01` tightens a value range without reporting it (`propagation/binary01.rs:60`
  against dpvl.rs:378-380): a lemma before it in the round never sees the range.
- The pair popped when the token is seen is lost, and so are generators not
  reached (`ff/buchberger/mod.rs:886` against `ff/incremental.rs:98-100`): a resumed
  engine can be quiescent on less than a Gröbner basis.
- After a pop, positions are reused under the cached divisor index
  (`ff/buchberger/mod.rs:816`); the debug assertion can fail. Off by default.
- A resumed build that is contradictory is put back as unfinished each time
  (`incremental_context.rs:343`, 391 against 268-271).
- The incremental theory degrades on the first Tseitin auxiliary
  (`cdclt/ff_theory_incremental.rs:299` against orchestrator.rs:101-106) and then
  answers Unknown to every check.
- A formula that is constantly true leaves its prime's atoms unassigned, against the
  comment at orchestrator.rs:147-149: the router degrades (the `Folded` set-up).
- The walk over a Lex basis runs the root finder that has just been incomplete and
  does not ask whether it was complete this time (`gb/model.rs:236`, 381, 434-442
  against 412-417). `misled` marks it; a Sat is verified, an Unsat is not.
- The square-free part f/gcd(f, f') drops roots whose multiplicity is divisible by
  the characteristic when f' is not zero (`ff/univariate.rs`), hence the condition
  on multiplicities in `RootsCoverZeros`.
- The comment on pivots in `ff/hilbert.rs` says the smallest index wins a tie;
  `max_by_key` returns the last. The Hilbert function is the same.
- Redeclaring an outer name in an inner level of a script is not undone by `pop`,
  an inline declaration over a second prime is ignored where `define-sort` always
  replaces the prime, and the result sort of `define-fun` is not compared
  (`smt2/session.rs`): `Session`'s scripts declare each name once and use one prime.
- A script that defines a macro with `ff.` operators and nowhere says which field is
  refused by `parse_boolean` (`MissingPrime`, `smt2/mod.rs:1222`); the session takes
  it, although the comment on its inference says "Mirrors the one-shot parsers"
  (`smt2/session.rs:193`). `OneShotAgrees` states the parsers' agreement with this
  exception, and that there is no other. A call of such a macro before the field is
  known has no `ff.` operator in sight and would be encoded over GF(2); `Session`'s
  scripts make none.

## 6. Proofs

`DpvlProofs` proves, for every set of wires and values, every pool of circuits, all
configurations and any connectivity:

| Theorem | Says |
|---|---|
| `InvariantHolds` | `Spec => []IInv` |
| `TypeCorrect` | the type invariant |
| `SafeVerdict`, `UnsafeVerdict` | both verdicts are true of the circuit |
| `QueryCorrect` | a query equates exactly the wires known and asks for an open one |
| `UnknownVerdict` | Unknown only after every open wire was asked with all that is known |
| `DecisiveVerdict` | with a solver that always answers, the verdict is Safe or Unsafe |
| `QueriesAreFresh` | no query is asked twice |
| `Refinement` | `Dpvl` implements `Uniqueness` |

Assumptions: `CircuitAssumption` (wires are numbers, inputs and outputs are
disjoint sets of them, circuits are sets of assignments) and `ConfigAssumption`
(the shape of a configuration; connectivity is a number for each wire). Nothing is
assumed finite.

The safety properties are not inductive. Safe is sound because every known wire is
determined by the inputs (`KnownIsDetermined`); a refuted query gives that only if
the wires it equates are known ones (`MarkersAreKnown`), which needs the four
records of "known" to agree at the moments they must (`Partition`). Unknown is
justified by an account of the round: each open wire is in the pool or was asked
since knowledge last grew (`RoundAccounted`); a decisive solver would have found a
counterexample for each output asked in vain (`AskedInVain`). `IInv` is the
conjunction of these with `TypeOK` and `VerdictJustified`; there is one lemma for
each action. The step from a local argument to uniqueness is
`DeterminesTransitive`: a wire forced by determined wires is determined;
`RefutedIsDetermined` applies it to a query and `AddKnownWiresMarks` says what a
sync does to the markers.

`QueryCacheProofs` proves four theorems about `QueryCache`, for all points, facts,
sides with or without bitsum definitions, disequalities and any number of calls,
finite or not:

| Theorem | Says |
|---|---|
| `InvariantHolds` | the inductive invariant `IInv` |
| `KeptFacts` | a base or build kept over calls holds only consequences of its side |
| `RightAnswers` | no call is answered wrongly |
| `BasesExact` | a base no cancellation has cut into is exact (`ExactUnlessInterrupted`) |

Assumptions: `CacheAssumption` (facts are zero sets with a shape, sides are made of
facts, bitsum definitions are linear, rational points are points) and
`NoneAssumption` (`None` is neither a base nor a build). `KeptFactsFollow` alone is
not inductive: generators leave the build while they are on their way into an engine
(`surviving`), so `Following` covers these too; a build is resumed for the query at
hand only because its side was compared when it was taken, and a base answers the
call it was built in, which is `Control`; `Answered` is the answer's own
correctness. `FixpointFollows` shows that the propagation fixpoint adds only
consequences (the consequences of a side are themselves closed under crossing, and
the fixpoint is below every closed pair); `CandidatesFollow` and `ClassifiedFollows`
say it of the rounds of a resumed build, `CachedRight` that a base of consequences
answers rightly. The step of a call that is cancelled or panics is proved like any
other.

`BasesExact` is the other direction and needs a second invariant, `Exact`: what a
partition of a build holds, wherever it is (given to the engine, pending, or on its
way: `Held`), entails every generator the partition started from and every fact the
memo answers for (`Complete`), so that nothing the memo keeps from crossing again is
missing. The partitions start from different facts, so exactness is about the pair:
the second one has all consequences of the constraints but need not have those of
the bitsum definitions, and both together have the zeros of the whole side
(`PairExact`). `SoundEngine` says that an engine neither lost a pair nor is open,
and trivial only on a contradiction; it fails exactly after a cancellation inside
one, which marks the build. `Rounds` says which partitions a round has emptied, and
that the last round of a fixpoint that was not cut short leaves the two bases
crossed. `ExactBase` is what is then promoted.

`TypeCorrect`, `SafeVerdict`, `UnsafeVerdict` and `DecisiveVerdict` state properties
that no run lists: the runs of `Dpvl` check the ones that are harder to meet.

`SplitSearchProofs` proves four theorems about `SplitSearch` with `FindZero` below it,
for every system of polynomials over any finite field, any number of variables,
both entry points, all settings and caps, and a cancellation at any point:

| Theorem | Says |
|---|---|
| `InvariantHolds` | the inductive invariant `IInv` |
| `NogoodsAreBarren` | no zero extends a nogood |
| `SearchLosesNothing` | the search can still come to every zero, or counts as bounded |
| `AnswersAreRight` | models are zeros, cores are contradictory, and the solver gives up only as promised |

Assumptions: `ProblemAssumption` (variables and values are initial segments of the
numbers, a polynomial is its variables and its zeros), `NoneAssumption` (`None` is no
brancher) and `SearchAssumption` (the shape of the settings). The heart of it is that a branching rule offers every zero below a node a candidate or
admits that it does not: `RootsSound`, `RoundRobinSound` and `ModelSound` say it of
the three kinds of brancher (a round robin needs the arithmetic of `RobinAt`:
`MultipleDiv`, `Scale`; that a listing in order is complete is `OrderedLists`, from
`RankGrows`), `PhaseSavedKeeps` and `WithoutLastKeeps` of what is done to one later.
`AnswerRight` alone is not inductive: an Unsat is read off an empty stack, so
`Lossless` accounts for each zero while there is one (`Near`, the theorem's
`InReach`), `Barren` justifies the candidates a nogood skips, `Shape` keeps
"bounded" to fields too large to enumerate, and `RightOutcome` carries what
find_zero found to the step that answers with it. In find_zero a walk of the Lex
basis may drop zeros, so there the account is of some zero, and of none after a
walk that misled the search: `BranchUnsplitKeeps`.

`CdclTProofs` proves four theorems about `CdclT`, for any number of variables, every
formula, every set of theories, every explanation a theory may give, and all
choices of decisions, watches, restarts and theory propagations:

| Theorem | Says |
|---|---|
| `InvariantHolds` | the inductive invariant `IInv` |
| `AnswersAreRight` | Sat and Unsat are right, and no give-up exit is taken |
| `ReasonsAlwaysAssert` | a reason contains its literal and was otherwise false before it |
| `NoConflictIsMissed` | a drained queue leaves no watched clause false |

Assumptions: `SolverAssumption` (the number of variables and the first restart are
numbers) and `CdclTAssumption` (formulas are sequences of clauses; a theory looks at
atoms only, admits something, and explains by some of its own facts). `AnswersRight`
says nothing of the search, so `IInv` carries all that an answer rests on:

- `SolverInv`: the trail lists the assigned literals, cut into
  levels at `lim`; a literal without a reason is a decision or at level 0, a reason
  asserts its literal over earlier ones; watch lists hold clauses of the arena.
- `Follows`: every model of the problem satisfies the clauses of the arena and the
  literals of level 0. So a clause that is false at level 0 means that there is no
  model (`RootConflict`), which is each of the four ways to Unsat.
- `Inputs`: an input clause is to be added, satisfied at level 0, or some watched
  clause implies it. A learnt unit clause is stored without a watch, and this is why
  it is never needed again: level 0 keeps its literal (`RootKept`).
- `Watching`: one of the two watches of a clause is not false, or what made it false
  is still in the queue, or the clause is still to be visited. The second watch of
  a learnt clause is arbitrary, so it is *not* true that both watches are good, nor
  that the bad one has the highest level; one good watch is enough, since a backjump
  from a conflict undoes at least the last level, where the queue is
  (`WatchBelow`, `WatchBacktrack`).
- `TheoryOk`, `InStep`: the theory's facts are the atoms of a prefix of the trail, and
  its snapshots those of the prefixes at which levels began. It lags behind while
  `add_theory_lemma` has backtracked and `analyze` has not yet learnt (`TheoryLags`),
  and a pop, a re-notification and a restart bring it back (`TheoryJumps`,
  `TheorySyncs`).
- `Analyzing`: the literals seen so far are false, on the trail before `idx`, and
  counted; a model that satisfies the clauses refutes one of them (`WalkRefutes`).
  That the counter is the number of seen variables at the last level (`CountSeen`)
  is why the walk always hits (`SomeHit`) and stays at that level until it ends
  (`LastHit`), so the give-up exits are not taken.

TLC agrees with `IInv` on the instance of `MCCdclT` (to repeat it: `EXTENDS CdclTProofs`
there and `INVARIANT IInv`). That the search ends (`Decides`) is model-checked only.

`PropagationProofs` proves seven theorems about `Propagation`, for every circuit over
every prime field and every order of the lemmas:

| Theorem | Says |
|---|---|
| `InvariantHolds` | the inductive invariant `IInv` |
| `Progress` | nothing known or reported is taken back, and a round follows only one that added to it (`RoundsMakeProgress`) |
| `RoundsAreBounded` | known wires and reported products are bounded by the wires |
| `FollowsFromCircuit` | the inductive invariant `SInv` |
| `PromotedIsUnique` | the inputs determine every wire that is promoted (`KnownIsUnique`) |
| `LearnedIsEntailed` | learned clauses follow from the circuit (`ClausesEntailed`) |
| `CopiesAreExact` | lowering keeps the solutions, in each copy (`LoweringIsExact`) |

Assumption: `PropagationAssumption` (a circuit is a list of constraints whose blocks
give natural coefficients to its wires; the one-wire is an input; `p > 1` and every
nonzero residue has an inverse modulo `p`, which is what the code's primality
requirement gives; `Lemmas` is a list).

`Progress` and `RoundsAreBounded` together say that `propagate` ends. `RoundAccounted`
is the account of a round: `fired` and learnt clauses
are backed by a wire made known or a product reported, and it holds only because
each lemma promotes unknown wires only and says it did something exactly when it
did (`PromotionStep`, `AbozStepKeeps`), which needs `Partition`. That what aboz
reports are wires looks obvious and is not: the wires of a match come from a CHOOSE
on the difference of two products, which is a wire only if a product has two wires.
It has, because a bilinear equality names variables of one copy: a marker or any
equality that spans the copies is no product (`WellFormed`, kept by lowering,
`LoweredIRWellFormed`, and by the driver's markers, `MarkersIR`).

The other three are about solutions. `KnownIsUnique` is not inductive: a lemma reads
the equalities, and what it concludes is worth what they are. `SInv` says that each
equality is the marker of a known wire or vanishes on all solutions, over the
variables of one copy (`Sound`); that the ranges hold every value a solution has
(`RangesHold`); that known wires are determined and clauses entailed. That a wire is
counted unique exactly when two solutions with the same inputs agree on it is
`UniqueIs`. Then, one argument for each part of the code:

- Lowering. A linear form has the value of its block (`FormAt`), and the polynomial
  the terms are collected into that of the product less the third form
  (`ConstraintAt`), so it is zero where the constraint holds and nowhere else; the
  input's variable is shared by the copies, so this holds in each
  (`LoweredSound`, `LoweredExact`).
- `linear`. Two solutions that agree on all wires of a polynomial but one agree on it,
  since its coefficient has an inverse (`LinearSound`); a marker forces a wire only
  by the wire itself. `binary01`: `c (x^2 - x)` has two roots (`BinaryRoots`), for
  there are no zero divisors.
- `bim`. The difference of two solutions is in the kernel of the rows, which is zero
  (`BimSound`). `aboz`. Of a product that is zero one factor is, in each copy
  (`ZeroProductEntailed`), and with the shared wire nonzero the other two are zero
  (`AbozSound`): the match makes its pairs of wires that do multiply to zero.
- `basis2`. The weights are the powers of two below the bound, each once, and sums of
  bits below `2^n <= p` are equal modulo `p` only if the bits are (`BitsDetermined`,
  `Basis2Sound`). Without `FitsField` the last step fails.
- `tecomplete`. The products and the denominators that were matched are identities of
  the solutions, `ExpectedDelta` included, whose terms may collect (`DeltaIs`). So
  `xout` and `yout` times a denominator are determined by the inputs
  (`GadgetDetermines`). That a denominator is not zero is the completeness of the
  twisted Edwards addition (`DenominatorsNotZero`), here for the wires alone and
  without a hypothesis that they are on the curve: were `1 + d tau` zero, the numerators
  would give a square root of `d` (`SquareInverse`), and `Certified` says there is
  none, `a` being a square.

Every lemma then keeps `SInv` because all it promotes is determined
(`PromotionKeeps`, `SemanticStep`), and the solver because `Unique` is what it
promises (`SolverProvesKeeps`). TLC agrees with `IInv` on the instance of
`MCPropagation`, and with `SInv` on the same with `MaxConstraints = 1`, gadgets
included.

`TheoriesProofs` proves four theorems about `Theories`, for every set of set-ups (any
plug-in, with the filter and without it, any polynomials over any prime fields, any
number of atoms and levels) and every order of the trait's calls:

| Theorem | Says |
|---|---|
| `InvariantHolds` | the inductive invariant `IInv` |
| `TrailsAreRight` | each table holds the asserted literals meant for it, in their order (`TrailsAgree`) |
| `BasisIsRight` | the incremental basis is that of the trail of now (`BasisMatchesTrail`) |
| `Refinement` | `Theories` implements `TheoryContract` (`ImplementsContract`) |

Assumption: `TheoryAssumption` (one table unless the plug-in is a router without
filter; keys are lists of terms with coefficients in a prime field, given by its
inverses: `IsTable`; the variables a table may have an atom for are variables of the
problem; atoms and names of different primes are disjoint; names are numbered where
the incremental theory gives them slots).

`TrailsAgree` is about now, and a pop brings back what a checkpoint says. So
`IInv` is `Shape` with `InnerKept` and `FilterKept`, each of which states of every
checkpoint what it states of now, for the trail it was taken of (`Saved`,
`SavedFilter`; the trail cut back to a level is `Upto`).

- Slots. A name has one slot, for good, and later names have later ones
  (`Slotted`), so a checkpoint's generators stay over the slots they were made
  with after others were claimed and given back. That a notification never runs
  out of slots is `RoomForFact`, from a count of the names and witnesses in use
  (`NamesCounted`): the exit of the code for a full ring is never taken while the
  ring has the size that its constructor gives it.
- Generators. `EncodedKept` says of the walk over a polynomial what it keeps when it
  claims slots on the way.
- Filter. Polarities are those of the trail (`Polarities`), a pending contradiction
  is one of the trail (`PendingIs`), and what the filter does not forward is implied
  by the witness of its class (`DroppedIsRedundant`). For the refinement this has to
  be said in points: the literals of a class hold at the same points, and so the
  forwarded literals hold together exactly where all asserted ones do (`Covered`).

With `IInv` each step is one of the contract:

- `PostCheckMaps`. A core read off a trail is asserted (`ReadOff`); for the router,
  tables of different primes share no variable, so points that satisfy each table
  combine to one that satisfies all (`CombinedRight`). The incremental theory has
  no tables at hand, only its generators: a zero of them, read through the slots, is
  a point that satisfies all facts (`ZeroPoint`), where the generator of a negative
  fact says that the fact's value has an inverse, and conversely a point extends to a
  zero with the inverses as witnesses (`IncrementalRight`).
- `PropagateMaps`. What the tiers derive follows from its reason. This is field
  arithmetic: an equation of one variable has the one solution that is computed
  (`LinearSolved`; for atoms `PinSolved`), and a polynomial in which the pins leave one
  variable is linear in it with the coefficient and remainder that are computed
  (`LinearMeans`, over `SumLinear` and `ProductSplit`, which are inductions over the
  terms and factors).

TLC agrees with `IInv` on the instance of `MCTheories`.

`IncrementalGbProofs` proves four theorems about `IncrementalGb`, for any number of
calls, levels and generators, all settings, and, but for the last, a cancellation at
any point:

| Theorem | Says |
|---|---|
| `InvariantHolds` | the inductive invariant `IInv` |
| `BasisFollows` | what is in the basis is in the ideal of what the levels still open were told (`BasisInIdeal`) |
| `DependenciesEntail` | the inputs that the tracer names for an element entail it (`DepsEntail`) |
| `EngineIsGroebner` | an engine that is never cancelled and holds no constant holds a Gröbner basis of what it was told, whenever no pair waits (`GroebnerUnlessCancelled`) |

They are theorems about the engine over its arithmetic, with hypotheses for a set
`Polys` of polynomials, which are facts of polynomial rings over a field. All have
the hypothesis `Laws`: `Closed` says that the operations stay in `Polys`; `Membership`
that an ideal holds its generators and zero, that generators may be replaced by
others whose ideal holds them, and that membership is kept by scaling, by
S-polynomials and by a reduction whose *used* divisors the ideal holds; `Dividing`
that the divisors used are among those given, that no divisor's leading monomial
divides that of what is left, and that a constant divides everything.
`EngineIsGroebner` has the hypothesis `PairLaws` too, about `Joined`: two polynomials
are joined at a monomial t by a set of divisors when their monic multiples with the
leading monomial t differ by multiples of the divisors that are smaller than t.
`Joining` says that this is an equivalence, kept at multiples of t and when divisors
give way to others joined with them; `Criteria` that a coprime pair is joined by
itself, an S-polynomial's pair by the divisors and what is left of it, and a
polynomial with what dividing its tail leaves; `Buchberger` is Buchberger's theorem:
where all pairs of a set are joined, those of its elements whose leading monomials
divide the others' are a Gröbner basis. `SampleAssumption` has TLC evaluate all these
groups but `Closed` for the operators of `Polynomials` on samples of polynomials and lists
of divisors, with `Joined` decided by linear algebra (`JoinedOf`).
`ConfigAssumption`: the bound on calls is a number, and an observed engine
whose token may be raised makes one call, since the callers give it up with the call
that fails (`gb/ideal/engine.rs:634`).

`BasisInIdeal` is about now; a pop brings back a basis and a queue, so `IInv` says of
every checkpoint what it says of now (`LevelRight`), a queue that pairs elements of
its own basis included. `DepsEntail` needs three things. The next generator
must be the input the tracer counts next, which is `CallsRight`: the inputs are those
told and those to come, unless the engine is trivial or the call was cancelled.
A trivial engine must make no element, and it holds an active constant, by
which everything reduces to nothing (`Sealed`, `GeneratorReducesTo`). And
inter-reduction changes elements one by one, each by some that were changed before
it: `ReduceAtKeeps` is one of these steps, `TailReducedUnrolls` the recursion, and
`WrittenBackFollows` what it leaves in the basis.

TLC agrees with the parts of `IInv` that it can evaluate on the instance of
`MCIncrementalGb`, and with the parts of `GInv`. That calls return (`CallsReturn`) rests on
Dickson's lemma and is model-checked only.

`GroebnerUnlessCancelled` is about an empty queue, so its invariant, `GInv`, says what
the queue still owes. Of each level that is not trivial, now and at every checkpoint:

- `Complete`: each pair of elements is *accounted for* (`Accounted`). The elements
  that divide the least common multiple t of the pair form a graph, with an edge
  where two of them wait in the queue, are joined already, or meet strictly before t; the
  pair is connected in it. Connection is said without paths: the pair is in every
  equivalence that has the edges (`Closes`). The leading monomials on record are those of
  the polynomials (`LeadsRight`), the queued ones the least common multiples
  (`Meets`), no active element's divides another's (`Apart`), and each element is
  divided by an active one (`Covered`), which is why pairs are made with active
  elements alone.
- `Generates`: what the level was told is in the ideal of its elements.

A pair at hand that is reduced becomes joined, by what is left of it if anything
(`PairJoined`). A new element n disturbs the rest in three ways (`CompleteLonger`). The
chain criterion drops a queued pair that n divides but meets elsewhere; it is
connected by way of n (`Bridged`, `OldAccounted`). Of the new pairs that meet at one
monomial one is kept, and none whose monomial is a multiple of another's; a dropped
one is connected by way of the one that stays, found by descent on the degree
(`PartnerStays`, `NewHandled`). Coprime pairs are joined (`Criteria`). And elements
that n divides are put aside, not forgotten: their pairs stay accounted for.
Inter-reduction replaces elements in place while their pairs wait; each new one has the
leading monomial of the old and is joined with it there (`Rewritten`, `TailReducedRewrites`), so
what joined a pair before joins it after (`CompleteRewritten`). When nothing waits all
pairs are joined, by induction on the degree of the monomial at which they meet
(`AllJoined`), and `Buchberger` applies. A cancellation loses the pair at hand
(`LosePair`), the reason why the property and `GInv` except settings with one.

The passes of `Propagation` are folds over the equalities, and the trails, sums and
products of `Theories` and the inter-reduction of `IncrementalGb` are recursive
functions on sequences, so the proofs need what
these do on sequences of any length. The library's induction rules take an operator, so
`FoldLemmas` states induction over a set of numbers (`NatSetInduction`,
`IntervalInduction`) and derives from it that the recursions of a fold and of
`Selected` have solutions (`FoldExists`, `RecursionExists`) and keep what each step
keeps (`FoldInvariant`, `RecursionInvariant`).

Only model-checked: liveness everywhere (TLAPS has no rule for fairness that we
use) and all of `FrontEnd`, `Ideals` and `Session`. What these three compute is
recursive over data (polynomial division and basis completion, normal forms of
formulas, the translation and evaluation of terms), by RECURSIVE operators that the
provers do not see through, and induction over terms is beyond them.

## 7. Limits

- **`Dpvl`**: lemmas and solver abstract; the cancellation token is the solver
  giving up.
- **`Propagation`**: no CompConstant companion of `basis2`: its smallest scaled
  form, 8 bits over a 7-bit prime, has 22 wires over GF(131), too many to enumerate
  solutions of.
- **`FrontEnd`**: the engine, the external solvers and the clause search are
  contracts; the bases that bit propagation reads are replaced by what vanishes at
  the common zeros; formulas go to the native solver alone, without elimination
  and cache, as in the code. The DNF path adds no field polynomials, the cvc5 path
  drops empty clauses (which the driver never makes), and `cvc5` FF and NIA read
  only the target's disequality: all as in the code. The order in which
  eliminated equations are solved is left out.
- **`Theories`**: the engine answers as promised or gives up. `gb_core` shows that
  the traced engine can break the promise for cores; a model has values of GF(p)
  by construction, so a missing field polynomial costs only completeness, and
  `BasisMatchesTrail` states it directly. The filter's canonical form ignores the
  prime, which matters only between tables, and the router is not worn with it.
- **`CdclT`** relies on `TheoryContract` through its own copy of the promises
  (admitted assignments), not through an INSTANCE.
- **`IncrementalGb`**: the divisor order by use count (32 active elements and more)
  and by degree, F4 (off by default: linear algebra over batches of pairs), seeding
  with a reduced basis, and a cancellation inside an inter-reduction, which leaves
  the element at hand partly reduced. `abort_on_trivial` is always true, as in
  every caller. What a stale index would do after its assertion is not modelled:
  the step is not taken.
- **`QueryCache`**: how the encoder rewrites constraints over auxiliary variables
  (`Encoder` has that; a side here is its result), the iteration cap of the
  fixpoint, encoding errors, digest collisions (128 bits), several disequalities in
  a query. An engine that lost a pair recognises nothing, which is the worst it can
  do, and shows all it was given. Of a contradictory side the uninterrupted fixpoint
  leaves the moment one partition is the whole ring; the model's goes on to the end,
  which gives the same answers.
- **`SplitSearch`**: roots are those of the zeros, or all values of the field, in
  some order; conflicts may always be recorded as nogoods instead of returned; bit
  equalities may depend on anything; the tracer's core of `solve_single_gb` is all
  inputs, `gb_core` having settled the other reading; `solve_single_gb` takes no
  token.
- **`Ideals`**: panics give an empty basis and are left out, as are the caps on
  degrees (4096) and on the monomials of a conversion (200000); random splits are
  any splits; the token is looked at between generators and pairs. GVW takes rings
  of any width (the code asks for at least `GVW_MIN_VARS`). Properties other than
  `GvwEqualsPerPair` are about runs in which GVW dropped nothing.
- **`Session`**: `solve_formula` is a contract (zeros of least and greatest sum
  stand for all); the time limit is left out; scripts declare a name once and use
  one prime, and call no macro before the field is known (section 5);
  `parse_boolean_multi` is left out.
- **Not modelled**: configuration, profiler, the R1CS reader, API, CLI, solver
  binaries and cvc5 bindings (wiring, printing, byte-level or foreign code);
  F4, division masks, packed and matrix representations of monomials
  (optimisations that never decide an answer).

## 8. Next

1. F4 as a step of `IncrementalGb`: rows, pivots and the batch it takes from the
   queue, at a threshold small enough to be met.
2. `CdclT` over an INSTANCE of `TheoryContract`, with the set-ups of `SolveFormula`.
3. Proofs: the scopes of `Session` and the conjunctions of `FrontEnd`, once the recursion
   over terms below them is written as recursive functions.
