---------------------------- MODULE MCQueryCache ----------------------------
(* Instances of QueryCache for TLC: two rational points and one of an       *)
(* extension, facts of all three shapes, a side that needs facts of both    *)
(* partitions, one without rational zeros, one that only its bitsum         *)
(* definition contradicts, and one where the second partition keeps a zero  *)
(* that the definition excludes.                                            *)
EXTENDS QueryCache

Fact(Z, s) == [zeros |-> Z, shape |-> s]

Sum == Fact({1, 3}, "linear")           \* a longer linear polynomial
Bit == Fact({1, 2}, "nonlinear")
Fix == Fact({1}, "short")               \* a consequence of Sum and Bit
Other == Fact({2, 3}, "short")
Curve == Fact({3}, "nonlinear")
Aux == Fact({1, 2}, "linear")           \* the definition of an auxiliary

MCPoints == 1..3
MCRational == {1, 2}
MCFacts == {Sum, Bit, Fix, Other, Curve, Aux}
MCBitFacts == {Fix}

MCSides ==
    {[constraints |-> {Sum, Bit}, bitsums |-> {}, vars |-> {"x", "y"}],
     [constraints |-> {Other, Curve}, bitsums |-> {}, vars |-> {"x"}],
     [constraints |-> {Bit, Other}, bitsums |-> {Sum}, vars |-> {"x", "y"}],
     [constraints |-> {Other}, bitsums |-> {Aux}, vars |-> {"x", "y"}]}

MCDisequalities == {[differ |-> {1, 3}, vars |-> {"x"}], [differ |-> {2}, vars |-> {"x", "z"}]}
=============================================================================
