------------------------------ MODULE FrontEnd ------------------------------
(***************************************************************************)
(* A query on its way through a backend: picus-smt/src/backends/ (native,   *)
(* cvc5, z3), picus-smt/src/lib.rs, picus-solver/src/boolean.rs,            *)
(* frontend/ and core.rs.  What a Gröbner engine or an external solver      *)
(* answers is their contract: a model of what they were given, Unsat only   *)
(* if there is none, or Unknown.                                            *)
(*                                                                          *)
(* A query is a PolyIR [p, n, eqs, target, assigns, bitsums, disjs, field], *)
(* or a formula [p, n, f] read by the SMT-LIB front end.                    *)
(***************************************************************************)
EXTENDS Encoder, BooleanLayer

CONSTANTS
    Queries,   \* a sequence of queries
    Setups,    \* [solver, theory, elim, cached, dnf]: the options in force
    DnfCap     \* dnf_size_cap

VARIABLES
    at,        \* which query
    setup,     \* its options
    stage,     \* how far it is
    ir,        \* the query after linear elimination
    formula,   \* the formula after preprocessing
    pending,   \* systems not yet encoded
    system,    \* the one being solved
    encoded,   \* its polynomials
    zeros,     \* their common zeros, what the engine's answers are measured by
    prop,      \* its bits and bitsums
    branch,    \* the branch of the search the last bits were derived on
    derived,   \* what they gave
    sawUnknown,
    answer     \* <<"none">>, <<"sat", names, point>>, <<"unsat">>, <<"unknown">>, <<"error">>

vars == <<at, setup, stage, ir, formula, pending, system, encoded, zeros, prop, branch, derived, sawUnknown, answer>>

query == Queries[at]
IsFormula(q) == "f" \in DOMAIN q

-------------------------------------------------------------------------------
(* Lowering. *)

Frame(n) == [i \in 1..n |-> <<"x", i>>]
NonZero(eqs) == SelectSeq(eqs, LAMBDA ts : ts # <<>>)

ToConstraintSystem(q) ==
    [names |-> Frame(q.n), eqs |-> NonZero(q.eqs), diseqs |-> q.target, assigns |-> q.assigns,
     bitsums |-> q.bitsums, field |-> q.field]

\* Bitsums are hints: no literal stands for them.
EqualsZero(ts) == <<"eq", ts, <<>> >>
ToBooleanQuery(q) ==
    LET eqs == NonZero(q.eqs)
        conj == [i \in DOMAIN eqs |-> EqualsZero(eqs[i])]
                \o [i \in DOMAIN q.assigns |->
                      <<"eq", <<X(q.assigns[i][1])>>, <<Constant(q.assigns[i][2])>> >>]
                \o [i \in DOMAIN q.target |-> <<"neq", <<X(q.target[i][1])>>, <<X(q.target[i][2])>> >>]
                \o [i \in DOMAIN q.disjs |->
                      <<"or", [j \in DOMAIN q.disjs[i] |-> EqualsZero(q.disjs[i][j])]>>]
    IN  IF conj = <<>> THEN <<"true">> ELSE <<"and", conj>>

PreEliminateLinear(q) ==
    LET eqs == EliminateLinear(q.eqs, q.p) IN IF eqs = <<>> THEN q ELSE [q EXCEPT !.eqs = eqs]

DisjunctSystems(f, q) ==
    LET dnf == ToDnf(f)
    IN  [i \in DOMAIN dnf |-> DisjunctSystem(dnf[i], EmptySystem(Frame(q.n), FALSE), q.p)]

\* What the external backends refuse, and what they assert.
Refused(q, theory) ==
    \/ q.assigns # <<>> \/ q.bitsums # <<>>
    \/ theory = "nia" /\ q.disjs # <<>>
Asserted(q) == ToBooleanQuery(q)

ValidCombination(s) ==
    /\ ~(s.solver = "z3" /\ s.theory = "ff")
    /\ ~(s.solver = "native" /\ s.theory = "nia")

-------------------------------------------------------------------------------
(* What the answers range over; the meaning of a query. *)

Points(q) == [1..q.n -> 0..(q.p - 1)]
Solutions == [k \in DOMAIN Queries |->
                LET q == Queries[k]
                    f == IF IsFormula(q) THEN q.f ELSE ToBooleanQuery(q)
                IN  {x \in Points(q) : Holds(f, x, q.p)}]

Encoding(sys) == IF setup.cached THEN EncodeCached(sys, query.p) ELSE Encode(sys, query.p)
AllPolys(enc) == [i \in DOMAIN enc.polys |-> enc.polys[i].ts] \o enc.sums
SystemZeros(enc) == ZeroSet(AllPolys(enc), Len(enc.names), query.p)

Promised(models, names) ==
    {<<"unknown">>} \cup (IF models = {} THEN {<<"unsat">>} ELSE {<<"sat", names, x>> : x \in models})

-------------------------------------------------------------------------------
NoSystem == EmptySystem(<<>>, FALSE)
NoEncoding == [names |-> <<>>, polys |-> <<>>, inputs |-> 0, sums |-> <<>>]
NoProp == [bits |-> {}, sums |-> <<>>]

Init ==
    /\ at \in DOMAIN Queries /\ setup \in Setups
    /\ IsFormula(Queries[at]) => setup.solver = "native" /\ ~setup.elim /\ ~setup.cached
    /\ stage = "received" /\ ir = Queries[at] /\ formula = <<"true">>
    /\ pending = <<>> /\ system = NoSystem /\ encoded = NoEncoding /\ zeros = {} /\ prop = NoProp /\ branch = <<>> /\ derived = {}
    /\ sawUnknown = FALSE /\ answer = <<"none">>

Answer(a) == stage' = "answered" /\ answer' = a

\* create_backend: a solver and a theory that do not go together.
Reject ==
    /\ stage = "received" /\ ~ValidCombination(setup)
    /\ Answer(<<"error">>)
    /\ UNCHANGED <<at, setup, ir, formula, pending, system, encoded, zeros, prop, branch, derived, sawUnknown>>

External ==
    /\ stage = "received" /\ ValidCombination(setup) /\ setup.solver # "native" /\ ~IsFormula(query)
    /\ IF Refused(query, setup.theory)
       THEN Answer(<<"unknown">>)
       ELSE \E a \in Promised({x \in Points(query) : Holds(Asserted(query), x, query.p)}, Frame(query.n)) :
               Answer(a)
    /\ UNCHANGED <<at, setup, ir, formula, pending, system, encoded, zeros, prop, branch, derived, sawUnknown>>

\* A cancelled elimination, or an engine that fails, leaves the query as it is.
Eliminate ==
    /\ stage = "received" /\ setup.solver = "native" /\ setup.theory = "ff" /\ ~IsFormula(query)
    /\ stage' = "reduced"
    /\ IF setup.elim THEN ir' \in {query, PreEliminateLinear(query)} ELSE ir' = query
    /\ UNCHANGED <<at, setup, formula, pending, system, encoded, zeros, prop, branch, derived, sawUnknown, answer>>

Lower ==
    /\ stage = "reduced" /\ ir.disjs = <<>>
    /\ stage' = "systems" /\ pending' = <<ToConstraintSystem(ir)>>
    /\ UNCHANGED <<at, setup, ir, formula, system, encoded, zeros, prop, branch, derived, sawUnknown, answer>>

LowerDisjunctions ==
    /\ stage = "reduced" /\ ir.disjs # <<>>
    /\ stage' = "formula" /\ formula' = Preprocessed(ToBooleanQuery(ir), query.p)
    /\ UNCHANGED <<at, setup, ir, pending, system, encoded, zeros, prop, branch, derived, sawUnknown, answer>>

ReadFormula ==
    /\ stage = "received" /\ setup.solver = "native" /\ setup.theory = "ff" /\ IsFormula(query)
    /\ stage' = "formula" /\ formula' = Preprocessed(query.f, query.p)
    /\ UNCHANGED <<at, setup, ir, pending, system, encoded, zeros, prop, branch, derived, sawUnknown, answer>>

\* solve_formula: what the loop is given, and what it promises of that.
Clauses ==
    LET r == Transform(formula, NewTable(query.p, 0, {}))
    IN  [root |-> r.node, table |-> r.t,
         clauses |-> r.t.clauses \cup (IF r.node[1] = "lit" THEN {{r.node[2]}} ELSE {})]
TrueAt(cl, x, aux) ==
    LET holds(v) == IF v \in cl.table.aux THEN v \in aux ELSE ValueAt(cl.table.key[v], x, query.p) = 0
    IN  /\ \A c \in cl.clauses : \E l \in c : IF l > 0 THEN holds(l) ELSE ~holds(-l)
        /\ cl.root # <<"const", FALSE>>
ClauseModels == LET cl == Clauses IN {x \in Points(query) : \E aux \in SUBSET cl.table.aux : TrueAt(cl, x, aux)}

SearchClauses ==
    /\ stage = "formula" /\ ~setup.dnf
    /\ \E a \in Promised(ClauseModels, Frame(query.n)) : Answer(a)
    /\ UNCHANGED <<at, setup, ir, formula, pending, system, encoded, zeros, prop, branch, derived, sawUnknown>>

Enumerate ==
    /\ stage = "formula" /\ setup.dnf
    /\ IF DnfSizeEstimate(formula, DnfCap) >= DnfCap
       THEN Answer(<<"unknown">>) /\ UNCHANGED pending
       ELSE /\ pending' = DisjunctSystems(formula, query)
            /\ IF pending' = <<>> THEN Answer(<<"unsat">>) ELSE stage' = "systems" /\ UNCHANGED answer
    /\ UNCHANGED <<at, setup, ir, formula, system, encoded, zeros, prop, branch, derived, sawUnknown>>

-------------------------------------------------------------------------------
(* One system after the other; a query without disjunctions is a single one. *)

Exhausted == Answer(IF sawUnknown THEN <<"unknown">> ELSE <<"unsat">>)

\* The next system, or the end.  A system too wide for a ring counts as unknown
\* among disjuncts, and is an error alone.
NextSystem ==
    /\ stage = "systems"
    /\ IF pending = <<>>
       THEN Exhausted /\ UNCHANGED <<pending, system, encoded, zeros, prop, sawUnknown>>
       ELSE /\ pending' = Tail(pending) /\ system' = pending[1]
            /\ IF TooWide(pending[1], query.p)
               THEN IF setup.dnf
                    THEN sawUnknown' = TRUE /\ UNCHANGED <<stage, encoded, zeros, prop, answer>>
                    ELSE Answer(<<"error">>) /\ UNCHANGED <<encoded, zeros, prop, sawUnknown>>
               ELSE /\ stage' = "solving" /\ encoded' = Encoding(pending[1])
                    /\ zeros' = SystemZeros(encoded') /\ prop' = BitProp(encoded', query.p)
                    /\ UNCHANGED <<sawUnknown, answer>>
    /\ branch' = <<>> /\ derived' = {}
    /\ UNCHANGED <<at, setup, ir, formula>>

Cancel ==
    /\ stage \in {"reduced", "formula", "systems", "solving"}
    /\ Answer(<<"unknown">>)
    /\ UNCHANGED <<at, setup, ir, formula, pending, system, encoded, zeros, prop, branch, derived, sawUnknown>>

\* The zeros on a branch of the search, a list of decisions <<variable, value>>.
OnBranch(zs, decisions) == {z \in zs : \A i \in DOMAIN decisions : z[decisions[i][1]] = decisions[i][2]}

\* The proofs of a branch are not kept.
KeepBits(pr, zs) == [pr EXCEPT !.bits = @ \cup {v \in UNION {ToSet(pr.sums[i]) : i \in DOMAIN pr.sums} : IsBit(pr, v, zs)}]
AfterBits(pr, zs) == pr

PropagateBits ==
    /\ stage = "solving"
    /\ \E d \in {<<>>} \cup {<< <<v, c>> >> : v \in DOMAIN encoded.names, c \in 0..(query.p - 1)} :
          /\ branch' = d
          /\ derived' = BitEqualities(prop, OnBranch(zeros, d), query.p)
          /\ prop' = AfterBits(prop, OnBranch(zeros, d))
    /\ UNCHANGED <<at, setup, stage, ir, formula, pending, system, encoded, zeros, sawUnknown, answer>>

\* solve_split_gb_cancel; what was derived at the root joins the bases.
Reply ==
    Promised({z \in zeros : \A ts \in derived : ValueAt(ts, z, query.p) = 0}, encoded.names)

SolveSystem ==
    /\ stage = "solving" /\ branch = <<>>
    /\ \E a \in Reply :
          \/ a[1] = "sat" /\ Answer(a) /\ UNCHANGED sawUnknown
          \/ a[1] = "unknown" /\ stage' = "systems" /\ sawUnknown' = TRUE /\ UNCHANGED answer
          \/ a[1] = "unsat" /\ stage' = "systems" /\ UNCHANGED <<sawUnknown, answer>>
    /\ UNCHANGED <<at, setup, ir, formula, pending, system, encoded, zeros, prop, branch, derived>>

Finished == stage = "answered" /\ UNCHANGED vars

Next ==
    \/ Reject \/ External \/ Eliminate \/ Lower \/ LowerDisjunctions \/ ReadFormula
    \/ SearchClauses \/ Enumerate \/ NextSystem \/ Cancel \/ PropagateBits \/ SolveSystem \/ Finished

Spec == Init /\ [][Next]_vars

-------------------------------------------------------------------------------
(* Unsat is only answered when the query has no solution, and every completion of *)
(* a model is one, whatever was eliminated, compacted, extracted and enumerated.  *)
AnswerRight ==
    /\ answer = <<"unsat">> => Solutions[at] = {}
    /\ answer[1] = "sat" =>
          \A x \in Points(query) :
             (\A k \in DOMAIN answer[2] :
                 answer[2][k][1] = "x" => x[answer[2][k][2]] = answer[3][k])
             => x \in Solutions[at]

(* Preprocessing, atoms, mutual exclusions and Tseitin clauses keep the query's   *)
(* solutions, and so does its list of disjuncts.                                   *)
FormulaKept ==
    stage = "formula" =>
        /\ ClauseModels = Solutions[at]
        /\ DnfSizeEstimate(formula, DnfCap) < DnfCap =>
              {x \in Points(query) : \E i \in DOMAIN ToDnf(formula) :
                   \A j \in DOMAIN ToDnf(formula)[i] : Holds(ToDnf(formula)[i][j], x, query.p)}
              = Solutions[at]

(* Whatever constraint a core leaves out can be dropped: without the polynomials   *)
(* of one source, the system is the query without that constraint.                 *)
Without(enc, source) ==
    ZeroSet(SelectSeq([i \in DOMAIN enc.polys |-> IF enc.polys[i].source = source THEN <<>> ELSE enc.polys[i].ts],
                      LAMBDA ts : ts # <<>>) \o enc.sums, Len(enc.names), query.p)
SystemPoints(sys, zs) == {[i \in DOMAIN sys.names |-> z[i]] : z \in zs}
SourcesAligned ==
    stage = "solving" /\ branch = <<>> /\ derived = {} =>
        LET sys == CompactUsed(system)
            point == ZeroSet(<<>>, Len(sys.names), query.p)
            others(j) == {x \in point :
                /\ \A i \in DOMAIN sys.eqs \ {j} : ValueAt(sys.eqs[i], x, query.p) = 0
                /\ \A i \in DOMAIN sys.diseqs : x[sys.diseqs[i][1]] # x[sys.diseqs[i][2]]
                /\ \A i \in DOMAIN sys.assigns : x[sys.assigns[i][1]] = sys.assigns[i][2]}
        IN  Aligned(system, encoded) =>
              \A j \in DOMAIN sys.eqs : SystemPoints(sys, Without(encoded, <<"eq", j>>)) = others(j)

(* Bits and bitsums give only what holds at every solution of the branch.          *)
DerivedFollows ==
    stage = "solving" =>
        \A z \in OnBranch(zeros, branch), ts \in derived : ValueAt(ts, z, query.p) = 0
=============================================================================
