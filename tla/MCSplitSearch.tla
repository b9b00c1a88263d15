--------------------------- MODULE MCSplitSearch ----------------------------
(***************************************************************************)
(* Systems over GF(2) in three variables and over GF(3) in two, some read  *)
(* as if the field were too large to enumerate.                            *)
(***************************************************************************)
EXTENDS SplitSearch

Poly(pb, support, value(_), isLinear, isBitsum) ==
    [support |-> support,
     zeros |-> {z \in [1 .. pb[1] -> 0 .. pb[2] - 1] : value(z) % pb[2] = 0},
     linear |-> isLinear, bitsum |-> isBitsum]

Problem(pb, isSmall, isFinite, F) ==
    [vars |-> 1 .. pb[1], values |-> 0 .. pb[2] - 1, small |-> isSmall,
     finite |-> isFinite, polys |-> F]

Plane == <<2, 3>>
Cube == <<3, 2>>

(* xy = 1: two zeros *)
Hyperbola == Poly(Plane, {1, 2}, LAMBDA z : z[1] * z[2] + 2, FALSE, FALSE)
(* x^2 + 1: no zero in GF(3), and no linear factor *)
Irreducible == Poly(Plane, {1}, LAMBDA z : z[1] * z[1] + 1, FALSE, FALSE)
(* x + y *)
Antidiagonal == Poly(Plane, {1, 2}, LAMBDA z : z[1] + z[2], TRUE, FALSE)
(* y = x + 1, a definition *)
Shift == Poly(Plane, {1, 2}, LAMBDA z : z[2] + 2 * z[1] + 2, TRUE, TRUE)
Two == Poly(Plane, {}, LAMBDA z : 2, TRUE, FALSE)

Product == Poly(Cube, {1, 2, 3}, LAMBDA z : z[3] + z[1] * z[2], FALSE, FALSE)
Sum == Poly(Cube, {1, 2, 3}, LAMBDA z : z[1] + z[2] + z[3] + 1, TRUE, FALSE)
Equal == Poly(Cube, {1, 2}, LAMBDA z : z[1] + z[2], TRUE, FALSE)

MCProblems ==
    {Problem(Plane, TRUE, FALSE, {Hyperbola}), Problem(Plane, FALSE, FALSE, {Hyperbola}),
     Problem(Plane, TRUE, TRUE, {Hyperbola, Antidiagonal}),
     Problem(Plane, TRUE, TRUE, {Irreducible, Shift}),
     Problem(Plane, TRUE, FALSE, {Two, Hyperbola}), Problem(<<0, 2>>, TRUE, TRUE, {}),
     Problem(Cube, TRUE, TRUE, {Product, Sum, Equal})}
=============================================================================
