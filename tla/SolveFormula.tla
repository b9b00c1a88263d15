----------------------------- MODULE SolveFormula -----------------------------
(***************************************************************************)
(* How solve_formula and solve_formula_multi set a CDCL(T) search up        *)
(* (picus-solver/src/cdclt/orchestrator.rs): Tseitin into one solver, an    *)
(* atom table for each prime, and a theory over them.                       *)
(***************************************************************************)
EXTENDS BooleanLayer

\* A finished set-up: an answer, or "loop" and what the loop is given.
\* `names` is the size of the builder's variable frame.
SetUp(answer, tables, clauses, vars, assigned, names) ==
    [answer |-> answer, tables |-> tables, clauses |-> clauses, vars |-> vars,
     assigned |-> assigned, names |-> names]

AssignAtoms(assigned, t, slot) == [v \in DOMAIN t.key |-> slot] @@ assigned

NoneAssigned == [v \in {} |-> 0]

\* The router of the single-prime path is given every atom of its table.
Single(p, f, names) ==
    LET r == Transform(f, NewTable(p, 0, {}))
    IN  IF r.node[1] = "const"
        THEN SetUp(IF r.node[2] THEN "sat" ELSE "unsat", <<>>, {}, 0, NoneAssigned, names)
        ELSE SetUp("loop", <<r.t>>, r.t.clauses \cup {{r.node[2]}}, r.t.vars,
                   AssignAtoms(NoneAssigned, r.t, 1), names)

\* One formula after the other; the solver's variables and clauses run on.
\* A formula that folds to true leaves its table, and no atom of it is assigned.
RECURSIVE AddFormulas(_, _, _)
AddFormulas(subs, i, s) ==
    IF i > Len(subs) THEN s
    ELSE LET r == Transform(subs[i].f, NewTable(subs[i].p, s.vars, s.clauses))
         IN  IF r.node = <<"const", FALSE>> THEN [s EXCEPT !.answer = "unsat"]
             ELSE AddFormulas(subs, i + 1,
                    [s EXCEPT !.tables = Append(@, r.t), !.vars = r.t.vars,
                              !.clauses = IF r.node[1] = "lit"
                                          THEN r.t.clauses \cup {{r.node[2]}}
                                          ELSE r.t.clauses,
                              !.assigned = IF r.node[1] = "lit"
                                           THEN AssignAtoms(@, r.t, i) ELSE @])

Multi(subs) ==
    IF Len(subs) = 1 THEN Single(subs[1].p, subs[1].f, subs[1].names)
    ELSE AddFormulas(subs, 1, SetUp("loop", <<>>, {}, 0, NoneAssigned, 0))
===============================================================================
