------------------------------ MODULE MCIdeals ------------------------------
(* Ideals in two variables over a small field. *)
EXTENDS Ideals

x == <<1, 0>>
y == <<0, 1>>
xx == <<2, 0>>
xy == <<1, 1>>
yy == <<0, 2>>
xxx == <<3, 0>>
xxy == <<2, 1>>
xyy == <<1, 2>>
yyy == <<0, 3>>
one == <<0, 0>>

bitX == (xx :> 1) @@ (x :> 2)               \* x^2 - x
bitY == (yy :> 1) @@ (y :> 2)
fieldX == (xxx :> 1) @@ (x :> 2)            \* x^3 - x
fieldY == (yyy :> 1) @@ (y :> 2)
invert == (xy :> 1) @@ (one :> 2)           \* xy - 1
product == (xy :> 1) @@ (y :> 2)            \* xy - y
parabola == (xx :> 1) @@ (y :> 1)           \* x^2 + y
square == (yy :> 1) @@ (x :> 1)             \* y^2 + x
skew == (xxy :> 2) @@ (one :> 1)            \* 2x^2y + 1
skew2 == (xyy :> 1) @@ (x :> 2)             \* xy^2 - x
rootless == (xx :> 1) @@ (one :> 1)         \* x^2 + 1
sum == (x :> 1) @@ (y :> 1)                 \* x + y
nil == (xx :> 1) @@ (xy :> 2)               \* x^2 - xy
nilY == (yy :> 1)
shifted == (y :> 2) @@ (one :> 1)           \* 2y + 1

StartsOf3 == {
    <<>>,
    <<ZeroPoly>>,
    <<bitX, product>>,
    <<parabola, invert, square>>,
    <<skew, skew2>>,
    <<fieldX, square>>,
    <<nil, nilY>>,
    <<rootless, bitY>>,
    <<fieldX, fieldY, product>>}

AdditionsOf3 == {
    <<bitY>>, <<ZeroPoly, sum>>, <<product, nil>>, <<invert>>, <<shifted, shifted>>}

RECURSIVE FullyReduced(_, _)
FullyReduced(S, D) ==
    IF S = {} THEN {}
    ELSE LET g == CHOOSE g \in S : TRUE
             rest == NormalFormOf(g, SetToSeq(D \ {g})).nf
         IN  {MonicOf(rest)} \cup FullyReduced(S \ {g}, D)

ReducedBasis(gens) ==
    LET G == Completed(NonZero(gens))
        small == {k \in DOMAIN G : \A j \in DOMAIN G :
                    Divides(LeadOf(G[j]), LeadOf(G[k])) => LeadOf(G[j]) = LeadOf(G[k]) /\ k <= j}
    IN  IF \E k \in DOMAIN G : ConstantOf(G[k]) THEN {UnitBasis[1]}
        ELSE FullyReduced({G[k] : k \in small}, {G[k] : k \in small})
=============================================================================
