----------------------------- MODULE BooleanLayer -----------------------------
(***************************************************************************)
(* Boolean structure over field equations (picus-solver/src/boolean.rs,    *)
(* cdclt/cnf.rs, cdclt/atoms.rs): preprocessing, negation normal form,      *)
(* disjunctive normal form, and the Tseitin transformation with its table   *)
(* of interned atoms.  Pure operators; RECURSIVE, so only runs use them.    *)
(*                                                                          *)
(* A formula is a tuple headed by its kind:                                 *)
(*   <<"true">>  <<"false">>  <<"eq", lhs, rhs>>  <<"neq", lhs, rhs>>       *)
(*   <<"not", f>>  <<"and", fs>>  <<"or", fs>>                              *)
(***************************************************************************)
EXTENDS Terms

IsLiteral(f) == f[1] \in {"eq", "neq"}

RECURSIVE Holds(_, _, _)
(* The meaning of a formula at a point: the reference the rest is checked against. *)
Holds(f, x, p) ==
    CASE f[1] = "true"  -> TRUE
      [] f[1] = "false" -> FALSE
      [] f[1] = "eq"    -> ValueAt(f[2], x, p) = ValueAt(f[3], x, p)
      [] f[1] = "neq"   -> ValueAt(f[2], x, p) # ValueAt(f[3], x, p)
      [] f[1] = "not"   -> ~Holds(f[2], x, p)
      [] f[1] = "and"   -> \A i \in DOMAIN f[2] : Holds(f[2][i], x, p)
      [] f[1] = "or"    -> \E i \in DOMAIN f[2] : Holds(f[2][i], x, p)

-------------------------------------------------------------------------------
(* Preprocessing. *)

(* <<variable, constant>> of an equation x = c with coefficient one, else <<>>. *)
VarEqualsConst(lit, p) ==
    LET poly == Normalize(lit[2] \o Negated(lit[3], p), p)
        consts == SelectSeq(poly, LAMBDA t : t.m = <<>>)
        others == SelectSeq(poly, LAMBDA t : t.m # <<>>)
    IN  IF lit[1] = "eq" /\ Len(others) = 1 /\ Len(others[1].m) = 1 /\ others[1].c = 1
        THEN <<others[1].m[1], IF consts = <<>> THEN 0 ELSE p - consts[1].c>>
        ELSE <<>>

DisjunctiveBitAny(fs, p) ==
    IF Len(fs) = 2 /\ IsLiteral(fs[1]) /\ IsLiteral(fs[2])
    THEN LET a == VarEqualsConst(fs[1], p)
             b == VarEqualsConst(fs[2], p)
         IN  IF a # <<>> /\ b # <<>> /\ a[1] = b[1] THEN <<a[1]>> ELSE <<>>
    ELSE <<>>
(* (or (= x 0) (= x 1)), either way round: the variable, as a sequence. *)
DisjunctiveBit(fs, p) ==
    IF Len(fs) = 2 /\ IsLiteral(fs[1]) /\ IsLiteral(fs[2])
    THEN LET a == VarEqualsConst(fs[1], p)
             b == VarEqualsConst(fs[2], p)
         IN  IF a # <<>> /\ b # <<>> /\ a[1] = b[1] /\ {a[2], b[2]} = {0, 1}
             THEN <<a[1]>> ELSE <<>>
    ELSE <<>>

RECURSIVE RewriteDisjunctiveBit(_, _)
RewriteDisjunctiveBit(f, p) ==
    LET each == [i \in DOMAIN f[2] |-> RewriteDisjunctiveBit(f[2][i], p)]
        bit == DisjunctiveBit(f[2], p)
    IN  CASE f[1] = "or" /\ bit # <<>> ->
                <<"eq", <<[c |-> 1, m |-> bit \o bit]>>, <<[c |-> 1, m |-> bit]>> >>
          [] f[1] = "or" /\ bit = <<>> -> <<"or", each>>
          [] f[1] = "and" -> <<"and", each>>
          [] f[1] = "not" -> <<"not", RewriteDisjunctiveBit(f[2], p)>>
          [] OTHER -> f

RECURSIVE Nnf(_)
Nnf(f) ==
    LET g == f[2]
    IN  CASE f[1] = "and" -> <<"and", [i \in DOMAIN g |-> Nnf(g[i])]>>
          [] f[1] = "or"  -> <<"or", [i \in DOMAIN g |-> Nnf(g[i])]>>
          [] f[1] = "not" ->
               (CASE g[1] = "eq"    -> <<"neq", g[2], g[3]>>
                  [] g[1] = "neq"   -> <<"eq", g[2], g[3]>>
                  [] g[1] = "and"   -> <<"or", [i \in DOMAIN g[2] |-> Nnf(<<"not", g[2][i]>>)]>>
                  [] g[1] = "or"    -> <<"and", [i \in DOMAIN g[2] |-> Nnf(<<"not", g[2][i]>>)]>>
                  [] g[1] = "not"   -> Nnf(g[2])
                  [] g[1] = "true"  -> <<"false">>
                  [] g[1] = "false" -> <<"true">>)
          [] OTHER -> f

(* BooleanQuery::from_builder_and_formula. *)
Preprocessed(f, p) == Nnf(RewriteDisjunctiveBit(f, p))

-------------------------------------------------------------------------------
(* Disjunctive normal form: a sequence of disjuncts, each a sequence of literals. *)

Crossed(rs, ds) ==
    [k \in 1..(Len(rs) * Len(ds)) |->
        rs[((k - 1) \div Len(ds)) + 1] \o ds[((k - 1) % Len(ds)) + 1]]

RECURSIVE ToDnf(_)
ToDnf(f) ==
    CASE IsLiteral(f) -> << <<f>> >>
      [] f[1] = "true" -> << <<>> >>
      [] f[1] = "false" -> <<>>
      [] f[1] = "and" -> FoldLeft(LAMBDA rs, g : Crossed(rs, ToDnf(g)), << <<>> >>, f[2])
      [] f[1] = "or" -> FoldLeft(LAMBDA rs, g : rs \o ToDnf(g), <<>>, f[2])

RECURSIVE DnfSizeEstimate(_, _), ProductEstimate(_, _, _, _), SumEstimate(_, _, _, _)
DnfSizeEstimate(f, cap) ==
    CASE f[1] = "false" -> 0
      [] f[1] = "and" -> ProductEstimate(f[2], 1, 1, cap)
      [] f[1] = "or" -> SumEstimate(f[2], 1, 0, cap)
      [] OTHER -> 1
ProductEstimate(fs, i, acc, cap) ==
    IF i > Len(fs) THEN acc
    ELSE LET s == DnfSizeEstimate(fs[i], cap)
         IN  IF s = 0 THEN 0
             ELSE IF acc * s >= cap THEN cap ELSE ProductEstimate(fs, i + 1, acc * s, cap)
SumEstimate(fs, i, acc, cap) ==
    IF i > Len(fs) THEN acc
    ELSE LET s == acc + DnfSizeEstimate(fs[i], cap)
         IN  IF s >= cap THEN cap ELSE SumEstimate(fs, i + 1, s, cap)

-------------------------------------------------------------------------------
(***************************************************************************)
(* Atoms and Tseitin.  A builder holds what one AtomTable and the shared    *)
(* SAT solver know: `vars` solver variables so far, the `key` of each atom, *)
(* the auxiliaries, n_atom_slots, and the clauses.  A literal is a variable *)
(* or its negative; a node is <<"lit", literal>> or <<"const", BOOLEAN>>.   *)
(***************************************************************************)
NewTable(p, vars, clauses) ==
    [p |-> p, vars |-> vars, key |-> [v \in {} |-> <<>>], aux |-> {}, slots |-> 0,
     clauses |-> clauses]

NewAux(t) ==
    [t EXCEPT !.vars = @ + 1, !.slots = t.vars + 1, !.aux = @ \cup {t.vars + 1}]

(* At most one of the atoms that pin a variable to different constants. *)
MutexClauses(t, v, key) ==
    LET s == SingleVarEq(key, t.p)
    IN  IF s = <<>> THEN {}
        ELSE {{-v, -w} : w \in {u \in PinningAtoms(t.key, s[1], t.p) :
                                        PinnedConstant(t.key, u, t.p) # s[2]}}

InternEq(lhs, rhs, t) ==
    LET key == AtomKey(lhs, rhs, t.p)
        known == {v \in DOMAIN t.key : t.key[v] = key}
        v == t.vars + 1
    IN  IF key = <<>> THEN [node |-> <<"const", TRUE>>, t |-> t]
        ELSE IF known # {} THEN [node |-> <<"lit", CHOOSE u \in known : TRUE>>, t |-> t]
        ELSE [node |-> <<"lit", v>>,
              t |-> [t EXCEPT !.vars = v, !.slots = v, !.key = @ @@ (v :> key),
                              !.clauses = @ \cup MutexClauses(t, v, key)]]

Opposite(node) ==
    IF node[1] = "lit" THEN <<"lit", -node[2]>> ELSE <<"const", ~node[2]>>

(* t <-> conjunction (or disjunction) of the literals. *)
Definition(t, lits, conj) ==
    LET s == IF conj THEN 1 ELSE -1
    IN  {{-s * t, s * lits[i]} : i \in DOMAIN lits}
        \cup {{s * t} \cup {-s * lits[i] : i \in DOMAIN lits}}

RECURSIVE Transform(_, _), TransformChildren(_, _, _, _, _)
Transform(f, t) ==
    CASE f[1] = "true" -> [node |-> <<"const", TRUE>>, t |-> t]
      [] f[1] = "false" -> [node |-> <<"const", FALSE>>, t |-> t]
      [] f[1] = "eq" -> InternEq(f[2], f[3], t)
      [] f[1] = "neq" -> LET r == InternEq(f[2], f[3], t)
                         IN [node |-> Opposite(r.node), t |-> r.t]
      [] f[1] = "not" -> LET r == Transform(f[2], t)
                         IN [node |-> Opposite(r.node), t |-> r.t]
      [] OTHER -> TransformChildren(f[2], 1, <<>>, f[1] = "and", t)
(* A child that decides the node ends the walk: later children are not interned. *)
TransformChildren(fs, i, lits, conj, t) ==
    IF i <= Len(fs)
    THEN LET r == Transform(fs[i], t)
         IN  IF r.node = <<"const", ~conj>> THEN r
             ELSE TransformChildren(fs, i + 1,
                      IF r.node[1] = "lit" THEN Append(lits, r.node[2]) ELSE lits, conj, r.t)
    ELSE IF lits = <<>> THEN [node |-> <<"const", conj>>, t |-> t]
    ELSE IF Len(lits) = 1 THEN [node |-> <<"lit", lits[1]>>, t |-> t]
    ELSE LET u == NewAux(t)
         IN  [node |-> <<"lit", u.vars>>,
              t |-> [u EXCEPT !.clauses = @ \cup Definition(u.vars, lits, conj)]]
===============================================================================
