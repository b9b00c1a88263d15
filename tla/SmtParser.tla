------------------------------- MODULE SmtParser -------------------------------
(***************************************************************************)
(* From SMT-LIB terms to formulas (picus-solver/src/smt2/mod.rs): constants,*)
(* field terms, Boolean terms, macros, conditional terms as skolem          *)
(* variables, and the two one-shot parsers.  RECURSIVE, so only runs use it.*)
(*                                                                          *)
(* A term is a tuple headed by its kind or its operator:                    *)
(*   <<"num", k>>  <<"lit", k, modulus>>  <<"sym", name>>  <<op, arguments>>*)
(* with `true` and `false` as operators without arguments.  A context c is  *)
(* a ParseCtx.  A parse returns [ok, v, c]: the context also after an error.*)
(***************************************************************************)
EXTENDS BooleanLayer

CONSTANTS
    MaxMacroDepth,   \* MAX_MACRO_DEPTH
    MaxExponent      \* the largest exponent a u16 holds

Good(v, c) == [ok |-> TRUE, v |-> v, c |-> c]
Bad(c) == [ok |-> FALSE, v |-> <<>>, c |-> c]
IsAtom(s) == s[1] \in {"num", "lit", "sym", "true", "false"}

\* `boolean` tells build_poly_with_ctx from build_poly, which knows no `ite`.
NewContext(p, sorts, macros, skolems, frame) ==
    [p |-> p, sorts |-> sorts, macros |-> macros, skolems |-> skolems, side |-> <<>>,
     frame |-> frame, depth |-> 0, boolean |-> TRUE]

-------------------------------------------------------------------------------
(* The builder's frame: a variable is its position. *)

IndexIn(frame, name) == CHOOSE i \in DOMAIN frame : frame[i] = name
Interned(frame, name) == IF name \in ToSet(frame) THEN frame ELSE Append(frame, name)
Intern(c, name) == [c EXCEPT !.frame = Interned(@, name)]
Ref(c, name) == <<[c |-> 1, m |-> <<IndexIn(c.frame, name)>>]>>
Number(k) == <<[c |-> k, m |-> <<>>]>>

-------------------------------------------------------------------------------
(* Term lists. *)

Weighted(ts, w, p) == [i \in DOMAIN ts |-> [ts[i] EXCEPT !.c = (@ * w) % p]]
Times(a, b, p) ==
    LET each == [k \in 1..(Len(a) * Len(b)) |->
                   LET s == a[((k - 1) \div Len(b)) + 1]
                       t == b[((k - 1) % Len(b)) + 1]
                   IN  [c |-> (s.c * t.c) % p, m |-> Monomial(s.m \o t.m)]]
    IN  SelectSeq(each, LAMBDA t : t.c # 0)
Overflows(ts) ==
    \E i \in DOMAIN ts : \E v \in ToSet(ts[i].m) :
        Len(SelectSeq(ts[i].m, LAMBDA u : u = v)) > MaxExponent

(* What an operator makes of the polynomials of its arguments. *)
Combined(op, polys, p) ==
    CASE op = "+" -> FlattenSeq(polys)
      [] op = "bitsum" -> FlattenSeq([i \in DOMAIN polys |-> Weighted(polys[i], 2 ^ (i - 1), p)])
      [] op = "*" -> FoldLeft(LAMBDA a, b : Times(a, b, p), Number(1), polys)
      [] op = "neg" -> Negated(polys[1], p)
      [] op = "-" -> IF Len(polys) = 1 THEN Negated(polys[1], p)
                     ELSE polys[1] \o FlattenSeq([i \in 1..(Len(polys) - 1) |-> Negated(polys[i + 1], p)])

FieldOps == {"+", "*", "bitsum", "neg", "-"}

-------------------------------------------------------------------------------
(* Macros. *)

RECURSIVE Substituted(_, _)
Substituted(s, bindings) ==
    IF s[1] = "sym" THEN (IF s[2] \in DOMAIN bindings THEN bindings[s[2]] ELSE s)
    ELSE IF IsAtom(s) THEN s
    ELSE <<s[1], [i \in DOMAIN s[2] |-> Substituted(s[2][i], bindings)]>>

(* The body with the arguments in place of the parameters, all at once. *)
InTurn(body, params, args) ==
    FoldRight(LAMBDA i, t : Substituted(t, params[i] :> args[i]), [i \in DOMAIN params |-> i], body)
AllAtOnce(body, params, args) ==
    Substituted(body, [n \in ToSet(params) |-> args[CHOOSE i \in DOMAIN args : params[i] = n]])
Expanded(macro, args) == AllAtOnce(macro.body, macro.params, args)

BooleanOps == {"and", "or", "not", "=>", "xor", "=", "distinct", "true", "false"}

(* By the shape of the term; a macro by its body. *)
RECURSIVE IsBoolExpr(_, _, _)
IsBoolExpr(s, c, depth) ==
    CASE depth > MaxMacroDepth -> FALSE
      [] s[1] = "sym" -> s[2] \in DOMAIN c.sorts /\ c.sorts[s[2]] = "Bool"
      [] s[1] \in BooleanOps -> TRUE
      [] s[1] = "ite" /\ Len(s[2]) = 3 -> IsBoolExpr(s[2][2], c, depth + 1)
      [] s[1] \in DOMAIN c.macros -> IsBoolExpr(c.macros[s[1]].body, c, depth + 1)
      [] OTHER -> FALSE

-------------------------------------------------------------------------------
(* Formulas of a list of formulas. *)

IffChain(fs) ==
    <<"and", FlattenSeq([i \in 1..(Len(fs) - 1) |->
                <<<<"or", << <<"not", fs[i]>>, fs[i + 1]>> >>,
                  <<"or", << <<"not", fs[i + 1]>>, fs[i]>> >> >>])>>
EqualityChain(ps) ==
    IF Len(ps) = 2 THEN <<"eq", ps[1], ps[2]>>
    ELSE <<"and", [i \in 1..(Len(ps) - 1) |-> <<"eq", ps[i], ps[i + 1]>>]>>
Xor(fs) ==
    IF fs = <<>> THEN <<"false">>
    ELSE FoldLeft(LAMBDA a, b : <<"or", << <<"and", <<a, <<"not", b>> >> >>,
                                           <<"and", << <<"not", a>>, b>> >> >> >>,
                  fs[1], Tail(fs))
Distinct(ps) ==
    LET from(i) == [j \in 1..(Len(ps) - i) |-> <<"neq", ps[i], ps[i + j]>>]
        pairs == FlattenSeq([i \in DOMAIN ps |-> from(i)])
    IN  IF Len(pairs) = 1 THEN pairs[1] ELSE <<"and", pairs>>

-------------------------------------------------------------------------------
(***************************************************************************)
(* build_poly_with_ctx reads a term wanted as a field element, "F", and     *)
(* assert_to_formula one wanted as a "Bool": the two call each other.       *)
(***************************************************************************)
ReadAtom(s, want, c) ==
    LET declared == s[1] = "sym" /\ s[2] \in DOMAIN c.sorts /\ c.sorts[s[2]] = want
        d == Intern(c, s[2])
    IN  CASE want = "F" /\ s[1] = "num" -> Good(Number(s[2] % c.p), c)
          [] want = "F" /\ s[1] = "lit" /\ s[3] = c.p -> Good(Number(s[2] % c.p), c)
          [] want = "F" /\ declared -> Good(Ref(d, s[2]), d)
          [] want = "Bool" /\ declared -> Good(<<"eq", Ref(d, s[2]), Number(1)>>, d)
          [] want = "Bool" /\ s[1] \in {"true", "false"} -> Good(<<s[1]>>, c)
          [] OTHER -> Bad(c)

IsChain(s) == s[1] \in {"=", "distinct"}
BoolArgs(s, c) == {i \in DOMAIN s[2] : IsBoolExpr(s[2][i], c, 0)}

(* The operators known where a sort is wanted, with their arities.  The operands *)
(* of an equality or a distinct are all Booleans or all field elements.          *)
Known(s, want, c) ==
    LET n == Len(s[2])
    IN  IF want = "F"
        THEN \/ s[1] \in FieldOps /\ (s[1] = "neg" => n = 1) /\ (s[1] = "-" => n > 0)
             \/ s[1] = "ite" /\ n = 3 /\ c.boolean
        ELSE \/ IsChain(s) /\ n >= 2 /\ BoolArgs(s, c) \in {{}, 1..n}
             \/ s[1] \in {"and", "or", "xor"}
             \/ s[1] = "not" /\ n = 1
             \/ s[1] = "=>" /\ n >= 2
             \/ s[1] = "ite" /\ n = 3 /\ IsBoolExpr(s[2][2], c, 0)

WantedOf(s, want, c) ==
    [i \in DOMAIN s[2] |->
        IF s[1] = "ite" THEN (IF i = 1 THEN "Bool" ELSE want)
        ELSE IF want = "F" \/ (IsChain(s) /\ BoolArgs(s, c) = {}) THEN "F" ELSE "Bool"]

(* An implication is read from its conclusion back to its first premise. *)
InReadingOrder(s) == IF s[1] = "=>" THEN Reverse(s[2]) ELSE s[2]

Skolem(k) == "__ite_" \o ToString(k)
(* A fresh variable, equal to one branch or the other by the condition. *)
Conditional(cond, yes, no, c) ==
    LET d == Intern([c EXCEPT !.skolems = @ + 1], Skolem(c.skolems))
        r == Ref(d, Skolem(c.skolems))
    IN  Good(r, [d EXCEPT !.side = @ \o
                    <<<<"or", << <<"not", cond>>, <<"eq", r, yes>> >> >>,
                      <<"or", <<cond, <<"eq", r, no>> >> >> >>])

Implied(fs) == FoldLeft(LAMBDA tail, a : <<"or", << <<"not", a>>, tail>> >>, fs[1], Tail(fs))
Choice(fs) == <<"or", << <<"and", <<fs[1], fs[2]>> >>, <<"and", << <<"not", fs[1]>>, fs[3]>> >> >> >>

(* The formula an operator makes of its operands. *)
Connected(op, bools, v) ==
    CASE op = "=" -> IF bools THEN IffChain(v) ELSE EqualityChain(v)
      [] op = "distinct" -> IF ~bools THEN Distinct(v) ELSE IF Len(v) > 2 THEN <<"false">> ELSE Xor(v)
      [] op = "xor" -> Xor(v)
      [] op = "not" -> <<"not", v[1]>>
      [] op = "=>" -> Implied(v)
      [] op = "ite" -> Choice(v)
      [] OTHER -> <<op, v>>

Built(s, want, v, c) ==
    IF want = "Bool" THEN Good(Connected(s[1], BoolArgs(s, c) # {}, v), c)
    ELSE IF s[1] = "ite" THEN Conditional(v[1], v[2], v[3], c)
    ELSE Good(Combined(s[1], v, c.p), c)

ExpansionFits(s, c) == Len(s[2]) = Len(c.macros[s[1]].params) /\ c.depth < MaxMacroDepth
Deeper(c, by) == [c EXCEPT !.depth = @ + by]

RECURSIVE Read(_, _, _), ReadAll(_, _, _, _)

(* Left to right, up to an error. *)
ReadAll(op, args, wants, c) ==
    IF args = <<>> THEN Good(<<>>, c)
    ELSE LET first == ReadAll(op, Front(args), wants, c)
         IN  IF ~first.ok THEN first
             ELSE LET last == Read(args[Len(args)], wants[Len(args)], first.c)
                      v == Append(first.v, last.v)
                  IN  IF ~last.ok \/ (op = "*" /\ Overflows(Combined(op, v, c.p))) THEN Bad(last.c)
                      ELSE Good(v, last.c)

Read(s, want, c) ==
    IF IsAtom(s) THEN ReadAtom(s, want, c)
    ELSE IF Known(s, want, c)
    THEN LET r == ReadAll(s[1], InReadingOrder(s), WantedOf(s, want, c), c)
         IN  IF r.ok THEN Built(s, want, r.v, r.c) ELSE r
    ELSE IF s[1] \in DOMAIN c.macros /\ ExpansionFits(s, c)
    THEN LET r == Read(Expanded(c.macros[s[1]], s[2]), want, Deeper(c, 1))
         IN  [r EXCEPT !.c = Deeper(@, -1)]
    ELSE Bad(c)

ToFormula(s, c) == Read(s, "Bool", c)
ToFormulas(ts, c) == ReadAll("and", ts, [i \in DOMAIN ts |-> "Bool"], c)
BuildPolys(ts, c) == ReadAll("=", ts, [i \in DOMAIN ts |-> "F"], c)

-------------------------------------------------------------------------------
(* The prime a term tells of. *)

RECURSIVE LiteralPrimes(_), HasFieldOp(_)
LiteralPrimes(s) ==
    IF s[1] = "lit" THEN {s[3]}
    ELSE IF IsAtom(s) THEN {} ELSE UNION {LiteralPrimes(s[2][i]) : i \in DOMAIN s[2]}
(* Only the names that start with "ff.": the terms here are written with them. *)
HasFieldOp(s) ==
    ~IsAtom(s) /\ (s[1] \in FieldOps \/ \E i \in DOMAIN s[2] : HasFieldOp(s[2][i]))

BitConstraint(i) == <<"eq", <<[c |-> 1, m |-> <<i, i>>]>>, <<[c |-> 1, m |-> <<i>>]>> >>
Conjoined(fs) == IF fs = <<>> THEN <<"true">> ELSE IF Len(fs) = 1 THEN fs[1] ELSE <<"and", fs>>

(***************************************************************************)
(* The one-shot parsers.  A script is [prime, sorts, order, macros,         *)
(* asserts]: what its declarations say, wherever they stand, and its        *)
(* asserted terms in order.  Where no declaration tells the prime, every    *)
(* expression of the script is searched for it, bodies of macros included.  *)
(***************************************************************************)
ScriptTerms(script) ==
    ToSet(script.asserts) \cup {script.macros[n].body : n \in DOMAIN script.macros}
ScriptPrimes(script) == UNION {LiteralPrimes(t) : t \in ScriptTerms(script)}
ScriptPrime(script) ==
    IF script.prime # 0 THEN script.prime
    ELSE IF ScriptPrimes(script) # {} THEN CHOOSE p \in ScriptPrimes(script) : TRUE ELSE 2
PrimeMissing(script) ==
    script.prime = 0 /\ ScriptPrimes(script) = {} /\ \E t \in ScriptTerms(script) : HasFieldOp(t)
PrimesClash(script) == script.prime = 0 /\ Cardinality(ScriptPrimes(script)) > 1

\* The side constraints follow the formulas.
SideForgotten(fs, side) == fs
Collected(fs, side) == fs \o side

ParseBoolean(script) ==
    LET c0 == NewContext(ScriptPrime(script), script.sorts, script.macros, 0, <<>>)
        r == ToFormulas(script.asserts, c0)
        bools == SelectSeq(script.order, LAMBDA n : script.sorts[n] = "Bool")
        c == FoldLeft(Intern, r.c, bools)
        bits == [i \in DOMAIN bools |-> BitConstraint(IndexIn(c.frame, bools[i]))]
    IN  IF PrimeMissing(script) \/ PrimesClash(script) \/ ~r.ok THEN Bad(c0)
        ELSE Good(Conjoined(Collected(r.v, r.c.side) \o bits), c)

(***************************************************************************)
(* The conjunctive parser, of equalities and disequalities without macros   *)
(* or Booleans.  A disequality names the difference of its sides and states *)
(* that it differs from zero: __diseq_d_k and __zero in the frame.            *)
(***************************************************************************)
Differs(k) == "__diseq_d_" \o ToString(k)
DisequalityDefinition(c, a, b, k) == Ref(c, Differs(k)) \o Negated(a, c.p) \o b

HandleAssert(s, r) ==
    LET negated == s[1] = "not"
        eq == IF negated /\ Len(s[2]) = 1 THEN s[2][1] ELSE s
        ps == BuildPolys(eq[2], r.c)
        c == Intern(Intern(ps.c, Differs(r.v.next)), "__zero")
        k == r.v.next
    IN  IF ~r.ok THEN r
        ELSE IF eq[1] # "=" \/ Len(eq[2]) # 2 THEN Bad(r.c)
        ELSE IF ~ps.ok THEN Bad(ps.c)
        ELSE IF ~negated
             THEN Good([r.v EXCEPT !.eqs = Append(@, ps.v[1] \o Negated(ps.v[2], r.c.p))], ps.c)
        ELSE Good([r.v EXCEPT !.next = k + 1,
                     !.eqs = Append(@, DisequalityDefinition(c, ps.v[1], ps.v[2], k)),
                     !.diseqs = Append(@, <<IndexIn(c.frame, Differs(k)), IndexIn(c.frame, "__zero")>>)], c)

EmptyConjunction == [eqs |-> <<>>, diseqs |-> <<>>, next |-> 0]
ParseConjunctive(script) ==
    LET c0 == [NewContext(ScriptPrime(script), script.sorts, [n \in {} |-> <<>>], 0, <<>>)
               EXCEPT !.boolean = FALSE]
        refused == \/ \E i \in DOMAIN script.order : script.sorts[script.order[i]] = "Bool"
                   \/ script.prime = 0 /\ Cardinality(ScriptPrimes(script)) # 1
    IN  IF refused THEN Bad(c0)
        ELSE FoldLeft(LAMBDA r, s : HandleAssert(s, r), Good(EmptyConjunction, c0), script.asserts)
=================================================================================
