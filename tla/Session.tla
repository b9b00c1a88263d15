-------------------------------- MODULE Session --------------------------------
(***************************************************************************)
(* A persistent SMT-LIB session (picus-solver/src/smt2/session.rs): it      *)
(* keeps declarations, macros, asserted formulas and levels over a sequence *)
(* of commands.  One action per command.  What solve_formula answers is its *)
(* contract: a zero of what it was given, Unsat only if there is none, or   *)
(* Unknown.                                                                 *)
(***************************************************************************)
EXTENDS SmtParser

CONSTANTS
    P,             \* the field of the scripts
    Declarations,  \* [name, sort, prime], prime 0 where the sort does not tell it
    Definitions,   \* [name, params, body]
    Assertions,    \* [term, name], "" for no name
    MaxAsserts, MaxLevels, MaxSkolems   \* how far scripts go

VARIABLES
    prime,       \* 0 until something tells it
    sorts, varOrder,
    macros, macroOrder,
    formulas, names,   \* the asserted formulas and, parallel to them, their names
    side,        \* side_constraints
    skolems,     \* next_ite_skolem
    levels,
    lastCheck, lastModel, lastCore,
    frame,       \* the builder's variables, never taken back
    scope,       \* history: the terms asserted at each level, by the textbook
    current      \* history: nothing was asserted since the last check

vars == <<prime, sorts, varOrder, macros, macroOrder, formulas, names, side, skolems, levels,
          lastCheck, lastModel, lastCore, frame, scope, current>>

Empty == [n \in {} |-> ""]

Init ==
    /\ prime = 0 /\ sorts = Empty /\ varOrder = <<>> /\ macros = Empty /\ macroOrder = <<>>
    /\ formulas = <<>> /\ names = <<>> /\ side = <<>> /\ skolems = 0 /\ levels = <<>>
    /\ lastCheck = "none" /\ lastModel = <<>> /\ lastCore = <<>>
    /\ frame = <<>> /\ scope = << <<>> >> /\ current = FALSE

InScope == FlattenSeq(scope)
DefaultPrime == IF prime = 0 THEN 2 ELSE prime

Forget == lastCheck' = "none" /\ lastModel' = <<>> /\ lastCore' = <<>> /\ current' = FALSE
KeepAnswer == UNCHANGED <<lastCheck, lastModel, lastCore>>

-------------------------------------------------------------------------------
(* Declarations.  Scripts declare only names that are not in force. *)

DefineSort ==
    /\ prime' = P
    /\ KeepAnswer
    /\ UNCHANGED <<sorts, varOrder, macros, macroOrder, formulas, names, side, skolems, levels, frame, scope, current>>

Declare(d) ==
    /\ d.name \notin DOMAIN sorts
    /\ prime' = IF prime = 0 THEN d.prime ELSE prime
    /\ varOrder' = Append(varOrder, d.name) /\ sorts' = (d.name :> d.sort) @@ sorts
    /\ KeepAnswer
    /\ UNCHANGED <<macros, macroOrder, formulas, names, side, skolems, levels, frame, scope, current>>

DefineFun(d) ==
    /\ d.name \notin DOMAIN macros
    /\ macroOrder' = Append(macroOrder, d.name)
    /\ macros' = (d.name :> [params |-> d.params, body |-> d.body]) @@ macros
    /\ KeepAnswer
    /\ UNCHANGED <<prime, sorts, varOrder, formulas, names, side, skolems, levels, frame, scope, current>>

-------------------------------------------------------------------------------
(* assert *)

LiteralPrime(term) == IF LiteralPrimes(term) = {} THEN 0 ELSE CHOOSE p \in LiteralPrimes(term) : TRUE
NoPrime(term) == prime = 0 /\ LiteralPrimes(term) = {} /\ HasFieldOp(term)
ManyPrimes(term) == prime = 0 /\ Cardinality(LiteralPrimes(term)) > 1

BorrowCtx(p) == NewContext(p, sorts, macros, skolems, frame)
Context(term) == BorrowCtx(IF prime # 0 THEN prime ELSE IF LiteralPrime(term) # 0 THEN LiteralPrime(term) ELSE 2)

\* An error leaves the frame and the skolem counter where the parser left them,
\* and drops the side constraints.
AssertTerm(a) ==
    /\ Len(formulas) < MaxAsserts /\ skolems < MaxSkolems /\ a \notin ToSet(InScope)
    /\ IF ManyPrimes(a.term) \/ NoPrime(a.term)
       THEN UNCHANGED <<prime, frame, skolems, formulas, names, side, scope, current>>
       ELSE LET r == ToFormula(a.term, Context(a.term))
            IN  /\ prime' = IF prime = 0 THEN LiteralPrime(a.term) ELSE prime
                /\ frame' = r.c.frame /\ skolems' = r.c.skolems
                /\ IF r.ok
                   THEN /\ formulas' = Append(formulas, r.v) /\ names' = Append(names, a.name)
                        /\ side' = side \o r.c.side
                        /\ scope' = [scope EXCEPT ![Len(scope)] = Append(@, a)] /\ current' = FALSE
                   ELSE UNCHANGED <<formulas, names, side, scope, current>>
    /\ KeepAnswer
    /\ UNCHANGED <<sorts, varOrder, macros, macroOrder, levels>>

-------------------------------------------------------------------------------
(* Levels. *)

Level == [vars |-> Len(varOrder), macros |-> Len(macroOrder), formulas |-> Len(formulas),
          side |-> Len(side), skolems |-> skolems]

Push ==
    /\ Len(levels) < MaxLevels
    /\ levels' = Append(levels, Level) /\ scope' = Append(scope, <<>>)
    /\ Forget
    /\ UNCHANGED <<prime, sorts, varOrder, macros, macroOrder, formulas, names, side, skolems, frame>>

Truncated(seq, n) == SubSeq(seq, 1, n)
NamesKept(n) == names
NamesAfterPop(n) == Truncated(names, n)
Drained(map, order, n) == [x \in DOMAIN map \ ToSet(SubSeq(order, n + 1, Len(order))) |-> map[x]]

\* Without a level to leave, nothing happens.
Pop ==
    /\ IF levels = <<>>
       THEN UNCHANGED <<sorts, varOrder, macros, macroOrder, formulas, names, side, skolems, levels,
                        lastCheck, lastModel, lastCore, scope, current>>
       ELSE LET lvl == Last(levels)
            IN  /\ levels' = Front(levels) /\ scope' = Front(scope)
                /\ sorts' = Drained(sorts, varOrder, lvl.vars) /\ varOrder' = Truncated(varOrder, lvl.vars)
                /\ macros' = Drained(macros, macroOrder, lvl.macros) /\ macroOrder' = Truncated(macroOrder, lvl.macros)
                /\ formulas' = Truncated(formulas, lvl.formulas) /\ names' = NamesAfterPop(lvl.formulas)
                /\ side' = Truncated(side, lvl.side) /\ skolems' = lvl.skolems
                /\ Forget
    /\ UNCHANGED <<prime, frame>>

ResetAssertions ==
    /\ formulas' = <<>> /\ names' = <<>> /\ side' = <<>> /\ levels' = <<>> /\ scope' = << <<>> >>
    /\ Forget
    /\ UNCHANGED <<prime, sorts, varOrder, macros, macroOrder, skolems, frame>>

Reset ==
    /\ prime' = 0 /\ sorts' = Empty /\ varOrder' = <<>> /\ macros' = Empty /\ macroOrder' = <<>>
    /\ formulas' = <<>> /\ names' = <<>> /\ side' = <<>> /\ skolems' = 0 /\ levels' = <<>>
    /\ Forget /\ frame' = <<>> /\ scope' = << <<>> >>

-------------------------------------------------------------------------------
(* check-sat and what may be asked after it. *)

BoolVars == SelectSeq(varOrder, LAMBDA n : sorts[n] = "Bool")
NoBits(fr) == <<>>
Bits(fr) == [i \in DOMAIN BoolVars |-> BitConstraint(IndexIn(fr, BoolVars[i]))]
RECURSIVE Mentioned(_)
Mentioned(f) ==
    IF IsLiteral(f) THEN Variables(f[2]) \cup Variables(f[3])
    ELSE IF f[1] = "not" THEN Mentioned(f[2])
    ELSE IF f[1] \in {"and", "or"} THEN UNION {Mentioned(f[2][i]) : i \in DOMAIN f[2]} ELSE {}
Combination(fr) == Conjoined(formulas \o side \o Bits(fr))
\* Variables that only earlier formulas mention are zero.
Zeros(f, fr, p) ==
    LET used == Mentioned(f)
        whole(y) == [i \in DOMAIN fr |-> IF i \in used THEN y[i] ELSE 0]
    IN  {z \in {whole(y) : y \in [used -> 0..(p - 1)]} : Holds(f, z, p)}

\* Of the zeros, those with the least or the greatest sum stand for all.
Extreme(zeros) ==
    LET sums == {SumOf(z) : z \in zeros}
    IN  {z \in zeros : \A s \in sums : SumOf(z) <= s} \cup {z \in zeros : \A s \in sums : SumOf(z) >= s}

CheckSat ==
    LET fr == FoldLeft(Interned, frame, BoolVars)
        zeros == Zeros(Combination(fr), fr, DefaultPrime)
    IN  /\ frame' = fr /\ current' = TRUE
        /\ \/ \E z \in Extreme(zeros) : lastCheck' = "sat" /\ lastModel' = z /\ lastCore' = <<>>
           \/ /\ zeros = {}
              /\ lastCheck' = "unsat" /\ lastModel' = <<>>
              /\ lastCore' = SelectSeq(names, LAMBDA n : n # "")
           \/ lastCheck' = "unknown" /\ lastModel' = <<>> /\ lastCore' = <<>>
        /\ UNCHANGED <<prime, sorts, varOrder, macros, macroOrder, formulas, names, side, skolems, levels, scope>>

\* get-value, of names the script declares, and get-model.  A declared name the
\* model does not mention is zero; a Boolean is true unless zero.
Printed(n) ==
    LET known == {i \in DOMAIN lastModel : frame[i] = n}
        v == IF known = {} THEN 0 ELSE lastModel[CHOOSE i \in known : TRUE]
    IN  IF sorts[n] = "Bool" /\ v # 0 THEN 1 ELSE v
GetValue(asked) == [n \in asked \cap DOMAIN sorts |-> Printed(n)]
FormatModel == [i \in DOMAIN varOrder |-> <<varOrder[i], Printed(varOrder[i])>>]

Next ==
    \/ DefineSort \/ Push \/ Pop \/ Reset \/ ResetAssertions
    \/ CheckSat
    \/ \E d \in Declarations : Declare(d)
    \/ \E d \in Definitions : DefineFun(d)
    \/ \E a \in Assertions : AssertTerm(a)

Spec == Init /\ [][Next]_vars

-------------------------------------------------------------------------------
(***************************************************************************)
(* What a term means: the reference.  A Boolean is 0 or 1, a macro is       *)
(* called by value, its other names are those of the script.                *)
(***************************************************************************)
RECURSIVE Value(_, _, _)
Value(s, local, global) ==
    LET arg == [i \in DOMAIN s[2] |-> Value(s[2][i], local, global)]
        truth(b) == IF b THEN 1 ELSE 0
        m == macros[s[1]]
    IN  CASE s[1] \in {"num", "lit"} -> s[2] % P
          [] s[1] = "sym" -> (local @@ global)[s[2]]
          [] s[1] = "+" -> SumOf(arg) % P
          [] s[1] = "bitsum" -> SumOf([i \in DOMAIN arg |-> arg[i] * 2 ^ (i - 1)]) % P
          [] s[1] = "*" -> Product(arg) % P
          [] s[1] = "neg" -> (-arg[1]) % P
          [] s[1] = "-" -> (IF Len(arg) = 1 THEN -arg[1] ELSE 2 * arg[1] - SumOf(arg)) % P
          [] s[1] = "ite" -> IF arg[1] = 1 THEN arg[2] ELSE arg[3]
          [] s[1] = "true" -> 1
          [] s[1] = "false" -> 0
          [] s[1] = "=" -> truth(Cardinality(ToSet(arg)) = 1)
          [] s[1] = "distinct" -> truth(Cardinality(ToSet(arg)) = Len(arg))
          [] s[1] = "not" -> 1 - arg[1]
          [] s[1] = "and" -> truth(0 \notin ToSet(arg))
          [] s[1] = "or" -> truth(1 \in ToSet(arg))
          [] s[1] = "xor" -> SumOf(arg) % 2
          [] s[1] = "=>" -> truth(0 \in ToSet(Front(arg)) \/ Last(arg) = 1)
          [] OTHER -> Value(m.body, [n \in ToSet(m.params) |-> arg[CHOOSE i \in DOMAIN arg : m.params[i] = n]], global)

Meant(a, x) == Value(a.term, Empty, x) = 1
Points == {x \in [DOMAIN sorts -> 0..(P - 1)] : \A n \in DOMAIN sorts : sorts[n] = "Bool" => x[n] <= 1}
SatisfiesScope(x) == \A i \in DOMAIN InScope : Meant(InScope[i], x)

\* A formula at a point of the declared names, for some values of the other variables.
HoldsFor(f, fr, x, p) ==
    LET others == {i \in DOMAIN fr : fr[i] \notin DOMAIN x}
    IN  \E y \in [others -> 0..(p - 1)] :
            Holds(f, [i \in DOMAIN fr |-> IF i \in others THEN y[i] ELSE x[fr[i]]], p)

-------------------------------------------------------------------------------
(* Properties. *)

\* The formulas and side constraints of a level.
LevelStart(k, what) == IF k = 1 THEN 0 ELSE levels[k - 1][what]
LevelEnd(k, what, seq) == IF k > Len(levels) THEN Len(seq) ELSE levels[k][what]
LevelFormula(k) ==
    <<"and", SubSeq(formulas, LevelStart(k, "formulas") + 1, LevelEnd(k, "formulas", formulas))
             \o SubSeq(side, LevelStart(k, "side") + 1, LevelEnd(k, "side", side))>>

SaysTheSame(f, assertions) ==
    \A x \in Points :
        HoldsFor(f, frame, x, P) <=> \A i \in DOMAIN assertions : Meant(assertions[i], x)

\* Whatever was pushed, popped, reset, defined or refused: at each level the
\* formulas with their side constraints say of the declared names what the terms
\* asserted there say, no more and no less.
ScopeKept ==
    /\ Len(scope) = Len(levels) + 1
    /\ \A k \in DOMAIN scope : SaysTheSame(LevelFormula(k), scope[k])

\* Until more is asserted, the answer of a check is about the terms in scope: the
\* values printed after Sat satisfy them, each declared Boolean as a Boolean, and
\* after Unsat no values do.  Declarations, definitions and refused terms between
\* the check and the question change nothing.
AnswersScope ==
    current =>
        /\ lastCheck = "sat" =>
              /\ SatisfiesScope(GetValue(DOMAIN sorts))
              /\ \A i \in DOMAIN FormatModel : FormatModel[i][2] = GetValue(DOMAIN sorts)[FormatModel[i][1]]
        /\ lastCheck = "unsat" => \A x \in Points : ~SatisfiesScope(x)

\* An unsat core names assertions in scope which, with the unnamed ones, have no
\* model; also when it is asked for after further assertions.
CoreSuffices ==
    lastCheck = "unsat" =>
        LET inCore(a) == a.name = "" \/ a.name \in ToSet(lastCore)
            core == SelectSeq(InScope, inCore)
        IN  /\ ToSet(lastCore) \subseteq {InScope[i].name : i \in DOMAIN InScope}
            /\ \A x \in Points : \E i \in DOMAIN core : ~Meant(core[i], x)

\* The script that would bring a session without levels where it is.
OneShotScript ==
    [prime |-> prime, sorts |-> sorts, order |-> varOrder, macros |-> macros,
     asserts |-> [i \in DOMAIN scope[1] |-> scope[1][i].term]]
ConjunctionHolds(r, x) ==
    LET zero == {i \in DOMAIN r.c.frame : r.c.frame[i] = "__zero"}
        f == [i \in DOMAIN r.v.eqs |-> <<"eq", r.v.eqs[i], <<>> >>]
             \o [i \in DOMAIN r.v.diseqs |-> <<"neq", <<[c |-> 1, m |-> <<r.v.diseqs[i][1]>>]>>,
                                                      <<[c |-> 1, m |-> <<r.v.diseqs[i][2]>>]>> >>]
             \o [i \in 1..Cardinality(zero) |-> <<"eq", <<[c |-> 1, m |-> <<CHOOSE j \in zero : TRUE>>]>>, <<>> >>]
    IN  HoldsFor(<<"and", f>>, r.c.frame, x, P)

\* A macro computes in a field that nothing in the script tells.
Unplaced ==
    /\ prime = 0 /\ \E n \in DOMAIN macros : HasFieldOp(macros[n].body)
    /\ \A n \in DOMAIN macros : LiteralPrimes(macros[n].body) = {}
BooleanAgrees(b) ==
    /\ b.ok <=> ~Unplaced
    /\ b.ok => \A x \in Points : HoldsFor(b.v, b.c.frame, x, P) <=> SatisfiesScope(x)
ConjunctiveAgrees(c) ==
    c.ok => \A x \in Points : ConjunctionHolds(c, x) <=> SatisfiesScope(x)

\* The one-shot parsers read a script as the session does: the Boolean one takes
\* every script the session took and refuses just those with a macro that computes
\* in a field nothing tells (the session looks for it in asserted terms only), the
\* conjunctive one takes some of them, and what they make of it has the same models.
OneShotAgrees ==
    levels = <<>> =>
        /\ BooleanAgrees(ParseBoolean(OneShotScript))
        /\ ConjunctiveAgrees(ParseConjunctive(OneShotScript))
================================================================================
