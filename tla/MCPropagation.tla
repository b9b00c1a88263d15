--------------------------- MODULE MCPropagation ----------------------------
(* Propagation over GF(5): wire 0 is the one-wire, 1 an output, 2 an input,  *)
(* 3 and 4 internal.  The circuits are all small sets of constraints from a  *)
(* menu that holds the pieces the lemmas look for, plus the complete         *)
(* gadgets they are meant for.  Over GF(3), where 2 is no square: the        *)
(* addition of two points of an Edwards curve.                               *)
EXTENDS Propagation, FiniteSetsExt

CONSTANT MaxConstraints

MCLemmas == <<"aboz", "basis2", "bim", "binary01", "linear", "tecomplete">>

K(c) == 0 :> c                          \* the constant c as a block
W(w) == w :> 1
Empty == [w \in {} |-> 0]
Product(a, b, c) == [a |-> a, b |-> b, c |-> c]
Binary(w) == Product(W(w), W(w) @@ K(4), Empty)
Equal(block, c) == Product(block, K(1), c)

Menu == <<
    Binary(1), Binary(3), Binary(4),
    Product(W(4), (4 :> 2) @@ K(3), Empty),             \* 2 x4^2 - 2 x4
    Product(W(3), W(3) @@ K(3), Empty),             \* x3 in {0, 2}
    Equal(W(3) @@ (4 :> 2), W(2)),                      \* 2-bit decomposition
    Equal(W(1) @@ (3 :> 2) @@ (4 :> 4), W(2)),          \* 3 bits: does not fit
    Product(W(3), W(4), W(1)),
    Product(W(2), W(3), Empty), Product(W(2), W(4), Empty),
    Equal(W(1) @@ W(2) @@ W(3) @@ W(4), K(1)),          \* all but one zero
    Equal(W(2) @@ K(1), W(1)),
    Product(W(1), W(1), W(2)),
    Product(W(3) @@ K(1), W(2) @@ W(4), W(1)),
    Equal(W(3) @@ W(4), Empty), Equal(W(3) @@ (4 :> 2), Empty),
    Product(W(3), W(4), Empty), Equal(W(2) @@ K(1), W(3)) >>

(* Num2Bits with an output, the ABOZ selector, the aliasing decomposition.   *)
Gadgets == {{2, 3, 6, 8}, {9, 10, 11, 12}, {1, 2, 3, 7}, {9, 10, 11, 13},
            {1, 2, 4, 7}, {2, 3, 6, 12}, {2, 3, 6, 8, 12}, {9, 10, 11, 12, 14},
            {9, 10, 11, 17, 18}}

AsCircuit(S) ==
    LET order == SelectSeq([i \in DOMAIN Menu |-> i], LAMBDA i : i \in S)
    IN  [i \in DOMAIN order |-> Menu[order[i]]]

Gf5(S) == [p |-> 5, n |-> 5, inputs |-> {0, 2}, r1cs |-> AsCircuit(S)]

(* BabyAdd as circom compiles it, the second point being <<x2, y2>>; wires   *)
(* 1 and 2 are the outputs, 3 to 6 beta, gamma, delta and tau, 7 and 8 the   *)
(* first point.                                                              *)
Edwards(d, x2, y2, inputs) ==
    [p |-> 3, n |-> y2 + 1, inputs |-> inputs,
     r1cs |->
       << Product(7 :> 2, W(y2), 3 :> 2),
          Product(8 :> 2, W(x2), 4 :> 2),
          Product(W(7) @@ (8 :> 2), IF x2 = y2 THEN x2 :> 2 ELSE W(x2) @@ W(y2), 5 :> 2),
          Product(3 :> 2, W(4), 6 :> 2),
          Product(K(1) @@ (6 :> d), W(1), W(3) @@ W(4)),
          Product(K(1) @@ (6 :> 3 - d), W(2), W(3) @@ (4 :> 2) @@ W(5)) >>]

(* The full addition, certified and not; a missing coordinate; one wire for  *)
(* both coordinates of the second point.                                     *)
Additions ==
    {Edwards(2, 9, 10, {0, 7, 8, 9, 10}), Edwards(1, 9, 9, {0, 7, 8, 9}),
     Edwards(2, 9, 9, {0, 7, 8, 9}), Edwards(2, 9, 9, {0, 7, 8})}

MCCircuits ==
    Additions \cup
    {Gf5(S) : S \in Gadgets \cup
        UNION {kSubset(n, DOMAIN Menu) : n \in 0 .. MaxConstraints}}
=============================================================================
