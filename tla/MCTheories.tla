------------------------------ MODULE MCTheories ------------------------------
(* Theories over the set-ups that the orchestrator makes of small formulas. *)
EXTENDS Theories, SolveFormula

V(x) == [c |-> 1, m |-> <<x>>]
C(k) == [c |-> k, m |-> <<>>]
Eq(ts, k) == <<"eq", ts, <<C(k)>> >>
Neq(ts, k) == <<"neq", ts, <<C(k)>> >>
Or(fs) == <<"or", fs>>

One(p, f, names) == <<[p |-> p, f |-> f, names |-> names]>>
\* A pin, a sum it makes linear, another pin: GF(3), no field polynomials.
Sum3 == One(3, Or(<<Eq(<<V(1)>>, 1), Eq(<<V(1), [c |-> 2, m |-> <<2>>]>>, 0), Neq(<<V(2)>>, 2)>>), 2)
\* A product and two pins over GF(2), with field polynomials.
Product2 == One(2, Or(<<Neq(<<[c |-> 1, m |-> <<1, 2>>]>>, 0), Eq(<<V(1)>>, 0), Eq(<<V(2)>>, 1)>>), 2)
\* Two equations, both negative.
Pair == One(3, <<"not", Or(<<Eq(<<V(1)>>, 1), Eq(<<V(1), V(2)>>, 0)>>)>>, 2)
\* Two primes; and a formula that folds to true beside another.
Mixed == <<[p |-> 2, f |-> Neq(<<V(1)>>, 0), names |-> 1],
           [p |-> 3, f |-> Or(<<Eq(<<V(2)>>, 1), Eq(<<[c |-> 1, m |-> <<2, 2>>]>>, 1)>>), names |-> 2]>>
Folded == <<[p |-> 2, f |-> Or(<<Eq(<<V(1)>>, 1), <<"true">> >>), names |-> 1],
            [p |-> 3, f |-> Eq(<<V(2)>>, 1), names |-> 2]>>

Case(formulas, kind, twin) == [formulas |-> formulas, kind |-> kind, twin |-> twin]
Cases ==
    {Case(Sum3, "full", FALSE), Case(Sum3, "incremental", FALSE),
     Case(Product2, "incremental", FALSE), Case(Pair, "incremental", TRUE),
     Case(Mixed, "router", FALSE), Case(Folded, "router", FALSE)}
Made == {[u |-> Multi(c.formulas), c |-> c] : c \in Cases}

As(u, kind, ee) ==
    [kind |-> kind, ee |-> ee, tables |-> u.tables, assigned |-> u.assigned,
     vars |-> u.vars, names |-> u.names]
\* The tests of the filter give one key to two variables, which one table never does.
WithTwin(u, v) ==
    [u EXCEPT !.vars = @ + 1,
              !.tables[1].slots = u.vars + 1,
              !.tables[1].key = @ @@ ((u.vars + 1) :> u.tables[1].key[v])]
AllSetUps ==
    {IF m.c.twin THEN As(WithTwin(m.u, 1), m.c.kind, TRUE) ELSE As(m.u, m.c.kind, FALSE) :
        m \in Made}
===============================================================================
