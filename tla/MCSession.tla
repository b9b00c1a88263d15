------------------------------- MODULE MCSession -------------------------------
(* Short scripts over GF(3) with a field name, a Boolean and a macro, which  *)
(* a script defines with the literal that tells the field, or without: then  *)
(* the field stays open until the name is declared.                          *)
EXTENDS Session

x == <<"sym", "x">>
y == <<"sym", "y">>
b == <<"sym", "b">>
Num(k) == <<"num", k>>
Of(op, args) == <<op, args>>

AllDeclarations ==
    {[name |-> "x", sort |-> "F", prime |-> 3],
     [name |-> "b", sort |-> "Bool", prime |-> 0]}
\* The macro's parameters are names of the script, and each a name of the argument
\* for the other one.
Far(one) == [name |-> "far", params |-> <<"x", "y">>, body |-> Of("+", <<Of("*", <<x, y>>), one>>)]
AllDefinitions == {Far(Num(1)), Far(<<"lit", 1, 3>>)}

A(term, name) == [term |-> term, name |-> name]
AllAssertions ==
    {A(Of("=", <<Of("far", <<Of("ite", <<b, x, Num(1)>>), Of("-", <<x, Num(1)>>)>>), <<"lit", 1, 3>> >>), ""),
     A(Of("and", <<b, Of("distinct", <<Of("neg", <<x>>), Num(0), Of("bitsum", <<Num(1), x>>)>>)>>), "sum"),
     \* Without field operators, and so in any field.
     A(Of("=>", <<Of("=", <<b, Of("distinct", <<b, <<"false">> >>)>>), Of("xor", <<b, <<"false">> >>), Of("not", <<b>>)>>), "chain"),
     \* Refused for the depth of its macros, after a skolem.
     A(Of("or", <<Of("=", <<x, Of("ite", <<b, x, Num(1)>>)>>), Of("=", <<x, Of("far", <<x, Of("far", <<x, x>>)>>)>>)>>), "")}
================================================================================
