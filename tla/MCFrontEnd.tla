------------------------------ MODULE MCFrontEnd ------------------------------
(* Small queries through every backend and every option. *)
EXTENDS FrontEnd

T(c, m) == [c |-> c, m |-> m]
BitOf(i) == <<T(1, <<i, i>>), T(4, <<i>>)>>
PolyIR(p, n, eqs, target) ==
    [p |-> p, n |-> n, eqs |-> eqs, target |-> <<target>>, assigns |-> <<>>, bitsums |-> <<>>,
     disjs |-> <<>>, field |-> FALSE]
Formula(p, n, f) == [p |-> p, n |-> n, f |-> f]
Eq(ts, k) == <<"eq", ts, <<Constant(k)>> >>
Neq(ts, k) == <<"neq", ts, <<Constant(k)>> >>

\* Two bits, their sum in two copies that must differ: unsatisfiable.
Decomposition ==
    PolyIR(5, 4, <<BitOf(1), BitOf(2), <<X(1), T(2, <<2>>), T(4, <<3>>)>>, <<X(1), T(2, <<2>>), T(4, <<4>>)>> >>, <<3, 4>>)
\* A sum of two variables that are bits on some branches only.
NotBits == PolyIR(5, 3, << <<X(1), T(2, <<2>>), Constant(4)>>, <<T(1, <<1, 3>>)>> >>, <<2, 3>>)
\* Linear relations to eliminate, an assignment, a declared bitsum and an unused variable.
Linear == [PolyIR(5, 4, << <<X(1), X(2), T(4, <<3>>)>>, <<T(1, <<1, 2>>), T(4, <<3>>)>> >>, <<1, 2>>)
           EXCEPT !.assigns = << <<3, 2>> >>, !.bitsums = << <<1, 2>> >>]
Contradiction == PolyIR(5, 3, << <<X(1), T(4, <<1>>)>>, <<X(1), Constant(4)>>, <<X(2), Constant(4)>>, <<T(1, <<3, 3>>), X(1)>> >>, <<1, 2>>)
Inconsistent == PolyIR(3, 2, << <<X(1)>>, <<X(1), Constant(1)>>, <<T(1, <<1, 2>>)>> >>, <<1, 2>>)
\* A clause that rewrites to a bit, and one that does not.
Clause == [PolyIR(3, 2, << <<T(1, <<1, 2>>), X(1)>> >>, <<1, 2>>)
           EXCEPT !.disjs = << << <<X(1)>>, <<X(1), Constant(2)>> >>, << <<X(2)>>, <<X(2), Constant(1)>> >> >>]
\* Over GF(2) with field polynomials; without them this one needs them.
Closed == [PolyIR(2, 2, << <<T(1, <<1, 1>>), X(2), Constant(1)>> >>, <<1, 2>>) EXCEPT !.field = TRUE]

Nested == Formula(3, 2, <<"not", <<"and", << Neq(<<X(1)>>, 1), <<"not", <<"and", <<Eq(<<X(2)>>, 2), Neq(<<X(1), X(2)>>, 0)>> >> >> >> >> >>)
Choice == Formula(3, 2, <<"and", << <<"or", <<Eq(<<X(1)>>, 0), Eq(<<X(1)>>, 2)>> >>, <<"or", <<Eq(<<X(2)>>, 0), Neq(<<X(1)>>, 0)>> >> >> >>)
Apart == Formula(3, 2, <<"and", <<Neq(<<X(1)>>, 0), Neq(<<X(2)>>, 0), <<"or", <<Neq(<<X(1), X(2)>>, 0), <<"true">> >> >> >> >>)
Empty == Formula(2, 1, <<"and", <<Eq(<<X(1)>>, 0), <<"false">> >> >>)

AllQueries == <<Decomposition, NotBits, Linear, Contradiction, Inconsistent, Clause, Closed,
                Nested, Choice, Apart, Empty>>

Setup(solver, theory, elim, cached, dnf) ==
    [solver |-> solver, theory |-> theory, elim |-> elim, cached |-> cached, dnf |-> dnf]
AllSetups ==
    {Setup("native", "ff", e, c, d) : e, c, d \in BOOLEAN}
    \cup {Setup(s, t, FALSE, FALSE, FALSE) : s \in {"cvc5", "z3"}, t \in {"ff", "nia"}}
    \cup {Setup("native", "nia", FALSE, FALSE, FALSE)}
===============================================================================
