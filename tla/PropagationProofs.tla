-------------------------- MODULE PropagationProofs --------------------------
(***************************************************************************)
(* propagate ends, and nothing it concludes is more than the circuit says:  *)
(* what every lemma of Propagation does to the partition of the wires and   *)
(* the products reported, that lowering keeps the solutions, and that the   *)
(* wires promoted are determined by the inputs, lemma by lemma.             *)
(***************************************************************************)
EXTENDS Propagation, FoldLemmas, FiniteSetTheorems, TLAPS

-------------------------------------------------------------------------------
(* The inductive invariant. *)

(* Every wire is known or unknown. *)
Partition ==
    /\ known \subseteq Wires
    /\ unknown = Wires \ known

(* A polynomial of the IR names variables of the two copies, and one that is *)
(* a single product names variables of one copy only.                        *)
Copy(alt) == {Var(w, alt) : w \in Wires}

WellFormed(q) ==
    /\ VarsOf(q) \subseteq 0 .. One - 1
    /\ IsBilinear(q) => \E alt \in BOOLEAN : VarsOf(q) \subseteq Copy(alt)

IRWellFormed ==
    /\ equalities \in Seq(Range(equalities))
    /\ \A q \in Range(equalities) : WellFormed(q)

(* The products reported are pairs of wires. *)
ReportsAreWires == emitted \subseteq Wires \X Wires

(* A round has fired or learned only if it made a wire known or reported a   *)
(* product.                                                                  *)
RoundAccounted ==
    /\ knownBefore \subseteq known /\ emittedBefore \subseteq emitted
    /\ fired => known # knownBefore \/ emitted # emittedBefore
    /\ learned # {} => emitted # emittedBefore

Control ==
    /\ circuit \in Circuits
    /\ turn \in Nat /\ fired \in BOOLEAN
    /\ pc = "stable" => ~fired /\ learned = {}

IInv ==
    /\ Control /\ Partition /\ IRWellFormed /\ ReportsAreWires /\ RoundAccounted

-------------------------------------------------------------------------------
(* The passes. *)

(* What a pass may make known. *)
Between == {K \in SUBSET Wires : known \subseteq K}

(* A sequence, its length and its elements. *)
LEMMA SeqParts ==
    ASSUME NEW T, NEW s \in Seq(T)
    PROVE  /\ Len(s) \in Nat /\ DOMAIN s = 1 .. Len(s)
           /\ \A i \in 1 .. Len(s) : s[i] \in T
OBVIOUS

(* A function on 1 .. n is a sequence. *)
LEMMA ListSeq ==
    ASSUME NEW n \in Nat, NEW f, f = [k \in 1 .. n |-> f[k]]
    PROVE  f \in Seq(Range(f))
BY DEF Range

(* A quotient is below the bound of the product. *)
LEMMA DivBelow ==
    ASSUME NEW x \in Nat, NEW c \in Nat, NEW b \in Nat, x < b * c
    PROVE  x \div c \in 0 .. b - 1
<1>1. c > 0
    OBVIOUS
<1>2. x \div c \in Nat /\ c * (x \div c) <= x
    BY <1>1
<1> DEFINE d == x \div c
<1> HIDE DEF d
<1>3. d \in Nat /\ c * d <= x
    BY <1>2 DEF d
<1>4. ASSUME d >= b PROVE FALSE
    <2>1. c * d >= c * b
        BY <1>1, <1>3, <1>4
    <2> QED BY <1>3, <2>1
<1>5. d < b
    BY <1>3, <1>4
<1> QED BY <1>3, <1>5 DEF d

(* What every equality of a pass of basis2 keeps the pass keeps. *)
LEMMA Basis2Fold ==
    ASSUME IInv, NEW S, known \in S,
           \A K \in S : \A i \in DOMAIN equalities : Basis2At(equalities[i], K) \in S
    PROVE  Basis2Known \in S
<1> DEFINE n == Len(equalities)
<1> DEFINE Eqn(it) ==
        it = [s \in SUBSET DOMAIN equalities |->
                 IF s = {} THEN known
                 ELSE Basis2At(equalities[Max(s)], it[s \ {Max(s)}])]
<1> DEFINE F == [q \in (1 .. n) \X S |-> Basis2At(equalities[q[1]], q[2])]
<1>1. n \in Nat /\ DOMAIN equalities = 1 .. n
    BY SeqParts DEF IInv, IRWellFormed
<1>2. known \in S
    OBVIOUS
<1>3. ASSUME NEW k \in 1 .. n, NEW K \in S PROVE Basis2At(equalities[k], K) \in S
    BY <1>1
<1>4. F \in Steps(n, S)
    BY <1>3 DEF Steps
<1>5. PICK g : FoldsOver(g, n, S, known, F)
  <2> HIDE DEF F, n
  <2> QED BY <1>1, <1>2, <1>4, FoldExists
<1>6. ASSUME NEW s \in SUBSET (1 .. n), s # {}
      PROVE  g[s] = Basis2At(equalities[Max(s)], g[s \ {Max(s)}])
  <2>1. Max(s) \in 1 .. n /\ s \ {Max(s)} \in SUBSET (1 .. n)
    BY <1>1, <1>6, MaxMember
  <2>2. g[s \ {Max(s)}] \in S
    BY <1>5, <2>1 DEF FoldsOver
  <2>3. F[<<Max(s), g[s \ {Max(s)}]>>] = Basis2At(equalities[Max(s)], g[s \ {Max(s)}])
    BY <2>1, <2>2
  <2> HIDE DEF F, n
  <2> QED BY <1>5, <1>6, <2>3 DEF FoldsOver
<1>7. Eqn(g)
  <2>1. g = [s \in SUBSET (1 .. n) |-> g[s]] /\ g[{}] = known
    BY <1>5 DEF FoldsOver
  <2> HIDE DEF F, n
  <2> QED BY <1>1, <1>6, <2>1
<1> DEFINE it == CHOOSE f : Eqn(f)
<1>8. Eqn(it)
  <2> HIDE DEF Eqn
  <2> QED BY <1>7
<1>9. Basis2Known = it[DOMAIN equalities]
    BY DEF Basis2Known, FoldLeft, MapThenFoldSet
<1>10. it[1 .. 0] \in S
  <2>1. 1 .. 0 = {} /\ {} \in SUBSET DOMAIN equalities
    OBVIOUS
  <2> HIDE DEF it
  <2> QED BY <1>2, <1>8, <2>1
<1>11. ASSUME NEW k \in 1 .. n, it[1 .. k - 1] \in S PROVE it[1 .. k] \in S
  <2>0. k \in Nat /\ k > 0
    BY <1>1
  <2>1. 1 .. k # {} /\ Max(1 .. k) = k /\ (1 .. k) \ {k} = 1 .. k - 1
    BY <2>0, IntervalMax
  <2>2. 1 .. k \in SUBSET DOMAIN equalities
    BY <1>1
  <2>3. it[1 .. k] = Basis2At(equalities[k], it[1 .. k - 1])
    <3> HIDE DEF it
    <3> QED BY <1>8, <2>1, <2>2
  <2> HIDE DEF it
  <2> QED BY <1>3, <1>11, <2>3
<1>12. it[1 .. n] \in S
  <2> HIDE DEF it, n
  <2> QED BY <1>1, <1>10, <1>11, FoldInvariant
<1> HIDE DEF it
<1> QED BY <1>1, <1>9, <1>12

(* A pass of basis2 forgets no wire and promotes wires only. *)
LEMMA Basis2Between ==
    ASSUME IInv
    PROVE  Basis2Known \in Between
<1>1. known \in Between
    BY DEF IInv, Partition, Between
<1>2. ASSUME NEW poly, NEW K \in Between PROVE Basis2At(poly, K) \in Between
    BY DEF Basis2At, Between, IInv, Partition
<1> QED BY <1>1, <1>2, Basis2Fold

(* What every pair of equalities of a pass of tecomplete keeps the pass     *)
(* keeps.                                                                   *)
LEMMA TecompleteFold ==
    ASSUME IInv, NEW S, known \in S,
           \A K \in S : \A i, j \in DOMAIN Originals : TecompleteAt(Originals, K, i, j) \in S
    PROVE  TecompletePass \in S
<1> DEFINE polys == Originals
           m == Len(polys)
           At(K, k) == TecompleteAt(polys, K, ((k - 1) \div m) + 1, ((k - 1) % m) + 1)
           n == m * m
           seq == [k \in 1 .. m * m |-> k]
<1> DEFINE Eqn(it) ==
        it = [s \in SUBSET DOMAIN seq |->
                 IF s = {} THEN known ELSE At(it[s \ {Max(s)}], seq[Max(s)])]
<1> DEFINE F == [q \in (1 .. n) \X S |-> At(q[2], q[1])]
<1>0. m \in Nat /\ DOMAIN polys = 1 .. m
  <2>1. equalities \in Seq(Range(equalities))
    BY DEF IInv, IRWellFormed
  <2>2. polys \in Seq(Range(equalities) \cap {q \in Range(equalities) : VarsOf(q) \subseteq Wires})
    BY <2>1, SelectedSeq DEF Originals
  <2> QED BY <2>2, SeqParts
<1>1. n \in Nat /\ DOMAIN seq = 1 .. n /\ \A k \in 1 .. n : seq[k] = k
  <2> HIDE DEF m
  <2> QED BY <1>0
<1>2. known \in S
    OBVIOUS
<1>3. ASSUME NEW k \in 1 .. n, NEW K \in S PROVE At(K, k) \in S
  <2> DEFINE x == k - 1
             d == x \div m
             r == x % m
  <2>1. x \in Nat /\ x < m * m /\ m \in Nat
    <3> HIDE DEF m
    <3> QED BY <1>0, <1>1
  <2>2. d \in 0 .. m - 1
    <3> HIDE DEF m, x
    <3> QED BY <2>1, DivBelow
  <2>3. m > 0
    <3> HIDE DEF m, x, d
    <3> QED BY <2>1, <2>2
  <2>4. r \in 0 .. m - 1
    <3> HIDE DEF m, x
    <3> QED BY <2>1, <2>3
  <2>5. At(K, k) = TecompleteAt(polys, K, d + 1, r + 1)
    OBVIOUS
  <2>6. d + 1 \in DOMAIN polys /\ r + 1 \in DOMAIN polys
    <3> HIDE DEF m, x, d, r, polys
    <3> QED BY <1>0, <2>1, <2>2, <2>4
  <2> HIDE DEF d, r, At
  <2> QED BY <2>5, <2>6
<1> HIDE DEF At, n
<1>4. F \in Steps(n, S)
    BY <1>3 DEF Steps
<1>5. PICK g : FoldsOver(g, n, S, known, F)
  <2> HIDE DEF F
  <2> QED BY <1>1, <1>2, <1>4, FoldExists
<1>6. ASSUME NEW s \in SUBSET (1 .. n), s # {}
      PROVE  g[s] = At(g[s \ {Max(s)}], seq[Max(s)])
  <2>1. Max(s) \in 1 .. n /\ s \ {Max(s)} \in SUBSET (1 .. n)
    BY <1>1, <1>6, MaxMember
  <2>2. g[s \ {Max(s)}] \in S
    BY <1>5, <2>1 DEF FoldsOver
  <2>3. F[<<Max(s), g[s \ {Max(s)}]>>] = At(g[s \ {Max(s)}], Max(s))
    BY <2>1, <2>2
  <2>4. seq[Max(s)] = Max(s)
    BY <1>1, <2>1
  <2> HIDE DEF F, seq
  <2> QED BY <1>5, <1>6, <2>3, <2>4 DEF FoldsOver
<1>7. Eqn(g)
  <2>1. g = [s \in SUBSET (1 .. n) |-> g[s]] /\ g[{}] = known
    BY <1>5 DEF FoldsOver
  <2> HIDE DEF F, seq
  <2> QED BY <1>1, <1>6, <2>1
<1> DEFINE it == CHOOSE f : Eqn(f)
<1>8. Eqn(it)
  <2> HIDE DEF Eqn
  <2> QED BY <1>7
<1>9. TecompletePass = it[DOMAIN seq]
    BY DEF TecompletePass, FoldLeft, MapThenFoldSet, At
<1>10. it[1 .. 0] \in S
  <2>1. 1 .. 0 = {} /\ {} \in SUBSET DOMAIN seq
    OBVIOUS
  <2> HIDE DEF it, seq
  <2> QED BY <1>2, <1>8, <2>1
<1>11. ASSUME NEW k \in 1 .. n, it[1 .. k - 1] \in S PROVE it[1 .. k] \in S
  <2>0. k \in Nat /\ k > 0
    BY <1>1
  <2>1. 1 .. k # {} /\ Max(1 .. k) = k /\ (1 .. k) \ {k} = 1 .. k - 1
    BY <2>0, IntervalMax
  <2>2. 1 .. k \in SUBSET DOMAIN seq
    BY <1>1
  <2>3. it[1 .. k] = At(it[1 .. k - 1], seq[k])
    <3> HIDE DEF it, seq
    <3> QED BY <1>8, <2>1, <2>2
  <2> HIDE DEF it, seq
  <2>4. seq[k] = k
    BY <1>1
  <2> HIDE DEF At
  <2> QED BY <1>3, <1>11, <2>3, <2>4
<1>12. it[1 .. n] \in S
  <2> HIDE DEF it
  <2> QED BY <1>1, <1>10, <1>11, FoldInvariant
<1> HIDE DEF it, seq
<1> QED BY <1>1, <1>9, <1>12

(* A pass of tecomplete forgets no wire and promotes wires only. *)
LEMMA TecompleteBetween ==
    ASSUME IInv
    PROVE  TecompletePass \in Between
<1>1. known \in Between
    BY DEF IInv, Partition, Between
<1>2. ASSUME NEW K \in Between, NEW i, NEW j PROVE TecompleteAt(Originals, K, i, j) \in Between
  <2> DEFINE p == Originals
  <2> HIDE DEF p
  <2>1. TecompleteAt(p, K, i, j) \in Between
    BY DEF TecompleteAt, Between, IInv, Partition
  <2> QED BY <2>1 DEF p
<1> QED BY <1>1, <1>2, TecompleteFold

-------------------------------------------------------------------------------
(* aboz: the matches are of products of two wires each. *)

(* A variable of either copy stands for its wire. *)
LEMMA WireOfVar ==
    ASSUME circuit \in Circuits, NEW w \in Wires, NEW alt \in BOOLEAN
    PROVE  Var(w, alt) \in 0 .. One - 1 /\ Wire(Var(w, alt)) = w
<1>1. NWires \in Nat \ {0}
    BY PropagationAssumption DEF NWires
<1>2. w \in 0 .. NWires - 1
    BY DEF Wires
<1>3. w % NWires = w /\ (NWires + w) % NWires = w
    BY <1>1, <1>2
<1> HIDE DEF NWires
<1> QED BY <1>1, <1>2, <1>3 DEF Var, Wire, One

(* The wires of a product: two. *)
IsPair(p) == \E a, b \in Wires : a # b /\ p = {a, b}

(* The wires of a single product are two: its variables are of one copy, *)
(* so they cannot be the x and the y of one wire.                        *)
LEMMA ProductWires ==
    ASSUME circuit \in Circuits, NEW q, WellFormed(q), IsBilinear(q)
    PROVE  IsPair({Wire(v) : v \in VarsOf(q)})
<1>1. PICK v \in VarsOf(q), w \in VarsOf(q) : v # w /\ DOMAIN q = {<<v, w>>}
    BY DEF IsBilinear
<1>2. VarsOf(q) = {v, w}
  <2>1. VarsOf(q) = Range(<<v, w>>)
    BY <1>1 DEF VarsOf
  <2>2. Range(<<v, w>>) = {v, w}
    BY DEF Range
  <2> QED BY <2>1, <2>2
<1>3. PICK alt \in BOOLEAN : VarsOf(q) \subseteq Copy(alt)
    BY DEF WellFormed
<1>4. PICK a \in Wires : v = Var(a, alt)
    BY <1>1, <1>3 DEF Copy
<1>5. PICK b \in Wires : w = Var(b, alt)
    BY <1>1, <1>3 DEF Copy
<1>6. Wire(v) = a /\ Wire(w) = b
    BY <1>4, <1>5, WireOfVar
<1>7. {Wire(u) : u \in VarsOf(q)} = {a, b}
    BY <1>2, <1>6
<1>8. a # b
    BY <1>1, <1>4, <1>5
<1> QED BY <1>7, <1>8 DEF IsPair

(* The size of a pair. *)
LEMMA PairSize ==
    ASSUME NEW p, IsPair(p)
    PROVE  Cardinality(p) = 2
<1>1. PICK a \in Wires, b \in Wires : a # b /\ p = {a, b}
    BY DEF IsPair
<1> DEFINE S == {a}
<1>2. IsFiniteSet(S) /\ Cardinality(S) = 1
    BY FS_Singleton
<1>3. p = S \cup {b} /\ b \notin S
    BY <1>1
<1> HIDE DEF S
<1>4. Cardinality(S \cup {b}) = Cardinality(S) + 1
    BY <1>2, <1>3, FS_AddElement
<1> QED BY <1>2, <1>3, <1>4

(* Two pairs that share one element each have one more. *)
LEMMA PairsSplit ==
    ASSUME NEW p, NEW q, IsPair(p), IsPair(q), Cardinality(p \cap q) = 1
    PROVE  p \ q # {} /\ q \ p # {} /\ p \cap q # {}
<1>1. p \cap q # {}
    BY FS_EmptySet
<1>2. Cardinality(p) = 2 /\ Cardinality(q) = 2
    BY PairSize
<1>3. p \ q # {}
  <2>1. SUFFICES ASSUME p \ q = {} PROVE FALSE
    OBVIOUS
  <2>2. p \cap q = p
    BY <2>1
  <2> QED BY <1>2, <2>2
<1>4. q \ p # {}
  <2>1. SUFFICES ASSUME q \ p = {} PROVE FALSE
    OBVIOUS
  <2>2. p \cap q = q
    BY <2>1
  <2> QED BY <1>2, <2>2
<1> QED BY <1>1, <1>3, <1>4

(* A match that may be taken: indices of two products that share a wire.      *)
IsMatch(t, products) ==
    /\ t[1] \in 1 .. Len(products) /\ t[2] \in 1 .. Len(products)
    /\ Cardinality(products[t[1]] \cap products[t[2]]) = 1

(* The matches index products, and the two products of a match share one *)
(* wire.                                                                 *)
LEMMA MatchesAre ==
    ASSUME NEW products, NEW sums, Len(products) \in Nat, Len(sums) \in Nat
    PROVE  /\ Matches(products, sums) \in Seq(Range(Matches(products, sums)))
           /\ \A i \in DOMAIN Matches(products, sums) :
                 IsMatch(Matches(products, sums)[i], products)
<1> DEFINE n == Len(products)
           m == Len(sums)
           nth == [k \in 1 .. n * n * m |->
                      <<((k - 1) \div (n * m)) + 1, (((k - 1) \div m) % n) + 1,
                        ((k - 1) % m) + 1>>]
           S == {t \in Range(nth) :
                    /\ t[1] < t[2]
                    /\ Cardinality(products[t[1]] \cap products[t[2]]) = 1
                    /\ products[t[1]] \cup products[t[2]] \subseteq sums[t[3]]}
<1>1. Matches(products, sums) = Selected(nth, S)
    BY DEF Matches
<1>2. n * n * m \in Nat /\ nth \in Seq(Range(nth))
  <2>1. n * n * m \in Nat
    OBVIOUS
  <2> DEFINE c == n * n * m
  <2>2. nth = [k \in 1 .. c |-> nth[k]]
    OBVIOUS
  <2> HIDE DEF c, nth
  <2> QED BY <2>1, <2>2, ListSeq DEF c
<1>3. ASSUME NEW t \in S PROVE IsMatch(t, products)
  <2>1. PICK k \in 1 .. n * n * m : t = nth[k]
    BY DEF Range
  <2> DEFINE x == k - 1
  <2>2. n \in Nat /\ m \in Nat /\ n * m \in Nat /\ x \in Nat
    BY <1>2
  <2>3. x < n * (n * m)
    <3>1. n * n * m = n * (n * m)
        BY <2>2
    <3> HIDE DEF n, m
    <3> QED BY <2>2, <3>1
  <2>4. x \div (n * m) \in 0 .. n - 1
    <3> DEFINE c == n * m
    <3> HIDE DEF c, x
    <3> QED BY <2>2, <2>3, DivBelow DEF c
  <2>5. n > 0 /\ m > 0
    <3> DEFINE c == n * (n * m)
    <3>1. c > 0
        <4>1. c \in Int
            BY <2>2
        <4> HIDE DEF c
        <4>2. x < c
            BY <2>3 DEF c
        <4> HIDE DEF x
        <4> QED BY <2>2, <4>1, <4>2
    <3>2. n = 0 => c = 0
        BY <2>2
    <3>3. m = 0 => c = 0
        <4>1. m = 0 => n * m = 0
            BY <2>2
        <4>2. n * m = 0 => c = 0
            BY <2>2
        <4> QED BY <4>1, <4>2
    <3> HIDE DEF c, n, m
    <3> QED BY <2>2, <3>1, <3>2, <3>3
  <2>6. (x \div m) % n \in 0 .. n - 1
    <3> HIDE DEF x, n, m
    <3> QED BY <2>2, <2>5
  <2>7. t[1] = (x \div (n * m)) + 1 /\ t[2] = ((x \div m) % n) + 1
    BY <2>1
  <2>8. t[1] \in 1 .. n /\ t[2] \in 1 .. n
    <3> DEFINE u == x \div (n * m)
               v == (x \div m) % n
    <3>1. u \in 0 .. n - 1 /\ v \in 0 .. n - 1 /\ t[1] = u + 1 /\ t[2] = v + 1
        BY <2>4, <2>6, <2>7
    <3> HIDE DEF x, n, m, u, v
    <3> QED BY <2>2, <3>1
  <2> QED BY <2>8 DEF IsMatch
<1>4. Selected(nth, S) \in Seq(Range(nth) \cap S)
  <2> HIDE DEF nth, S
  <2> QED BY <1>2, SelectedSeq
<1> DEFINE s == Selected(nth, S)
<1>5. \A i \in DOMAIN s : s[i] \in S
  <2> HIDE DEF nth, S
  <2> QED BY <1>4
<1>6. s \in Seq(Range(s))
  <2> HIDE DEF nth, S
  <2> QED BY <1>4 DEF Range
<1> HIDE DEF s, nth, S
<1> QED BY <1>1, <1>3, <1>5, <1>6 DEF s

(* The products of a pass are pairs of wires. *)
LEMMA ProductsAre ==
    ASSUME IInv
    PROVE  /\ Len(Products) \in Nat /\ Len(LinearSums) \in Nat
           /\ \A i \in 1 .. Len(Products) : IsPair(Products[i])
<1> DEFINE polys == Selected(equalities, {q \in Range(equalities) : IsBilinear(q)})
<1>1. equalities \in Seq(Range(equalities))
    BY DEF IInv, IRWellFormed
<1>2. polys \in Seq(Range(equalities) \cap {q \in Range(equalities) : IsBilinear(q)})
    BY <1>1, SelectedSeq
<1>3. Products = [i \in DOMAIN polys |-> {Wire(v) : v \in VarsOf(polys[i])}]
    BY DEF Products
<1>4. Len(Products) \in Nat /\ Len(Products) = Len(polys) /\ DOMAIN polys = 1 .. Len(polys)
  <2> HIDE DEF polys
  <2> QED BY <1>2, <1>3
<1>5. ASSUME NEW i \in 1 .. Len(Products)
      PROVE  IsPair(Products[i])
  <2>1. IsBilinear(polys[i]) /\ polys[i] \in Range(equalities)
    <3> HIDE DEF polys
    <3> QED BY <1>2, <1>4
  <2>2. WellFormed(polys[i]) /\ circuit \in Circuits
    BY <2>1 DEF IInv, IRWellFormed, Control
  <2>3. Products[i] = {Wire(v) : v \in VarsOf(polys[i])}
    <3> HIDE DEF polys
    <3> QED BY <1>3, <1>4
  <2> HIDE DEF polys
  <2> QED BY <2>1, <2>2, <2>3, ProductWires
<1> DEFINE lin == Selected(equalities, {q \in Range(equalities) :
                     VarsOf(q) # {} /\ \A m \in DOMAIN q : Len(m) <= 1})
<1>6. lin \in Seq(Range(equalities) \cap {q \in Range(equalities) :
                     VarsOf(q) # {} /\ \A m \in DOMAIN q : Len(m) <= 1})
    BY <1>1, SelectedSeq
<1>7. LinearSums = [i \in DOMAIN lin |-> {Wire(v) : v \in VarsOf(lin[i])}]
    BY DEF LinearSums
<1>8. Len(LinearSums) \in Nat
  <2> HIDE DEF lin
  <2> QED BY <1>6, <1>7
<1> QED BY <1>4, <1>5, <1>8

(* What an aboz pass may have promoted and reported.                          *)
Reported == (Wires \X Wires) \ emitted
Passed == [known : Between, pairs : SUBSET Reported]

(* One match promotes wires and reports pairs of wires not reported *)
(* before.                                                          *)
LEMMA AbozStep ==
    ASSUME IInv, NEW acc \in Passed, NEW y0 \in Wires, NEW y1 \in Wires, NEW x \in Wires, NEW sum
    PROVE  AbozAt(acc, y0, y1, x, sum) \in Passed
<1>1. acc.known \in Between /\ acc.pairs \in SUBSET Reported
    BY DEF Passed
<1>2. acc.known \cup ({y0, y1} \cap unknown) \in Between
    BY <1>1 DEF Between, IInv, Partition
<1>3. acc.pairs \cup Fresh({<<x, y0>>, <<x, y1>>}) \in SUBSET Reported
    BY <1>1 DEF Reported, Fresh
<1>4. ASSUME NEW K \in Between PROVE [acc EXCEPT !.known = K] \in Passed
    BY <1>4 DEF Passed
<1>5. ASSUME NEW Q \in SUBSET Reported PROVE [acc EXCEPT !.pairs = Q] \in Passed
    BY <1>5 DEF Passed
<1>6. \/ AbozAt(acc, y0, y1, x, sum) = acc
      \/ AbozAt(acc, y0, y1, x, sum) =
            [acc EXCEPT !.known = acc.known \cup ({y0, y1} \cap unknown)]
      \/ AbozAt(acc, y0, y1, x, sum) =
            [acc EXCEPT !.pairs = acc.pairs \cup Fresh({<<x, y0>>, <<x, y1>>})]
    BY DEF AbozAt
<1> QED BY <1>2, <1>3, <1>4, <1>5, <1>6

AbozMatch(acc, t, products, sums) ==
    LET p == products[t[1]]
        q == products[t[2]]
    IN  AbozAt(acc, CHOOSE w \in p \ q : TRUE, CHOOSE w \in q \ p : TRUE,
               CHOOSE w \in p \cap q : TRUE, sums[t[3]])

(* So does a match given by its indices. *)
LEMMA AbozMatchPassed ==
    ASSUME IInv, NEW acc \in Passed, NEW t, IsMatch(t, Products)
    PROVE  AbozMatch(acc, t, Products, LinearSums) \in Passed
<1> DEFINE p == Products[t[1]]
           q == Products[t[2]]
<1>1. IsPair(p) /\ IsPair(q)
    BY ProductsAre DEF IsMatch
<1>3. Cardinality(p \cap q) = 1
    BY DEF IsMatch
<1> HIDE DEF p, q
<1>4. p \ q # {} /\ q \ p # {} /\ p \cap q # {}
    BY <1>1, <1>3, PairsSplit
<1>5. p \subseteq Wires /\ q \subseteq Wires
    BY <1>1 DEF IsPair
<1>6. /\ (CHOOSE w \in p \ q : TRUE) \in Wires
      /\ (CHOOSE w \in q \ p : TRUE) \in Wires
      /\ (CHOOSE w \in p \cap q : TRUE) \in Wires
    BY <1>4, <1>5
<1> DEFINE y0 == CHOOSE w \in p \ q : TRUE
           y1 == CHOOSE w \in q \ p : TRUE
           x == CHOOSE w \in p \cap q : TRUE
<1>7. AbozMatch(acc, t, Products, LinearSums) = AbozAt(acc, y0, y1, x, LinearSums[t[3]])
    BY DEF AbozMatch, p, q
<1> HIDE DEF y0, y1, x
<1>8. y0 \in Wires /\ y1 \in Wires /\ x \in Wires
    BY <1>6 DEF y0, y1, x
<1>9. AbozAt(acc, y0, y1, x, LinearSums[t[3]]) \in Passed
    BY <1>8, AbozStep
<1> QED BY <1>7, <1>9

(* What every match of a pass of aboz keeps the pass keeps. *)
LEMMA AbozFold ==
    ASSUME IInv, NEW S, [known |-> known, pairs |-> {}] \in S,
           \A acc \in S : \A t : IsMatch(t, Products) =>
                AbozMatch(acc, t, Products, LinearSums) \in S
    PROVE  AbozPass \in S
<1> DEFINE seq == Matches(Products, LinearSums)
           n == Len(seq)
           base == [known |-> known, pairs |-> {}]
           At(acc, t) == AbozMatch(acc, t, Products, LinearSums)
<1> DEFINE Eqn(it) ==
        it = [s \in SUBSET DOMAIN seq |->
                 IF s = {} THEN base ELSE At(it[s \ {Max(s)}], seq[Max(s)])]
<1> DEFINE F == [q \in (1 .. n) \X S |-> At(q[2], seq[q[1]])]
<1>1. n \in Nat /\ DOMAIN seq = 1 .. n /\ \A k \in 1 .. n : IsMatch(seq[k], Products)
  <2>1. Len(Products) \in Nat /\ Len(LinearSums) \in Nat
    BY ProductsAre
  <2>2. seq \in Seq(Range(seq)) /\ \A i \in DOMAIN seq : IsMatch(seq[i], Products)
    BY <2>1, MatchesAre
  <2>3. n \in Nat /\ DOMAIN seq = 1 .. n
    <3> HIDE DEF seq
    <3> QED BY <2>2, SeqParts
  <2> QED BY <2>2, <2>3
<1>2. base \in S
    OBVIOUS
<1>3. ASSUME NEW k \in 1 .. n, NEW acc \in S PROVE At(acc, seq[k]) \in S
    BY <1>1
<1> HIDE DEF At, n, base, seq
<1>4. F \in Steps(n, S)
    BY <1>3 DEF Steps
<1>5. PICK g : FoldsOver(g, n, S, base, F)
  <2> HIDE DEF F
  <2> QED BY <1>1, <1>2, <1>4, FoldExists
<1>6. ASSUME NEW s \in SUBSET (1 .. n), s # {}
      PROVE  g[s] = At(g[s \ {Max(s)}], seq[Max(s)])
  <2>1. Max(s) \in 1 .. n /\ s \ {Max(s)} \in SUBSET (1 .. n)
    BY <1>1, <1>6, MaxMember
  <2>2. g[s \ {Max(s)}] \in S
    BY <1>5, <2>1 DEF FoldsOver
  <2>3. F[<<Max(s), g[s \ {Max(s)}]>>] = At(g[s \ {Max(s)}], seq[Max(s)])
    BY <2>1, <2>2
  <2> HIDE DEF F
  <2> QED BY <1>5, <1>6, <2>3 DEF FoldsOver
<1>7. Eqn(g)
  <2>1. g = [s \in SUBSET (1 .. n) |-> g[s]] /\ g[{}] = base
    BY <1>5 DEF FoldsOver
  <2> HIDE DEF F
  <2> QED BY <1>1, <1>6, <2>1
<1> DEFINE it == CHOOSE f : Eqn(f)
<1>8. Eqn(it)
  <2> HIDE DEF Eqn
  <2> QED BY <1>7
<1>9. AbozPass = it[DOMAIN seq]
    BY DEF AbozPass, FoldLeft, MapThenFoldSet, At, AbozMatch, base, seq
<1>10. it[1 .. 0] \in S
  <2>1. 1 .. 0 = {} /\ {} \in SUBSET DOMAIN seq
    OBVIOUS
  <2> HIDE DEF it
  <2> QED BY <1>2, <1>8, <2>1
<1>11. ASSUME NEW k \in 1 .. n, it[1 .. k - 1] \in S PROVE it[1 .. k] \in S
  <2>0. k \in Nat /\ k > 0
    BY <1>1
  <2>1. 1 .. k # {} /\ Max(1 .. k) = k /\ (1 .. k) \ {k} = 1 .. k - 1
    BY <2>0, IntervalMax
  <2>2. 1 .. k \in SUBSET DOMAIN seq
    BY <1>1
  <2>3. it[1 .. k] = At(it[1 .. k - 1], seq[k])
    <3> HIDE DEF it
    <3> QED BY <1>8, <2>1, <2>2
  <2> HIDE DEF it
  <2> QED BY <1>3, <1>11, <2>3
<1>12. it[1 .. n] \in S
  <2> HIDE DEF it
  <2> QED BY <1>1, <1>10, <1>11, FoldInvariant
<1> HIDE DEF it
<1> QED BY <1>1, <1>9, <1>12

(* A pass of aboz promotes wires and reports pairs of wires not reported *)
(* before.                                                               *)
LEMMA AbozPassed ==
    ASSUME IInv
    PROVE  AbozPass \in Passed
<1>1. [known |-> known, pairs |-> {}] \in Passed
  <2>1. known \in Between
    BY DEF IInv, Partition, Between
  <2> QED BY <2>1 DEF Passed
<1> QED BY <1>1, AbozMatchPassed, AbozFold

-------------------------------------------------------------------------------
(* The IR. *)

(* A linear form names variables of its copy. *)
LEMMA FormCopy ==
    ASSUME NWires \in Nat,
           NEW block, DOMAIN block \subseteq Wires, NEW alt \in BOOLEAN,
           NEW v \in 0 .. One - 1, LinearForm(block, alt)[v] # 0
    PROVE  v \in Copy(alt)
<1> DEFINE ws == {w \in DOMAIN block : v = IF w = 0 THEN One ELSE Var(w, alt)}
<1>1. v \in 0 .. One /\ v # One
    BY DEF One
<1>2. LinearForm(block, alt)[v] = IF ws = {} THEN 0 ELSE block[CHOOSE w \in ws : TRUE] % P
    BY <1>1 DEF LinearForm
<1>3. PICK w \in DOMAIN block : v = IF w = 0 THEN One ELSE Var(w, alt)
    BY <1>2
<1> QED BY <1>1, <1>3 DEF Copy

(* Dropping the zero coefficients adds no variable. *)
LEMMA NonZeroVars ==
    ASSUME NEW f, NEW U, \A m \in DOMAIN f : Range(m) \subseteq U
    PROVE  VarsOf(NonZero(f)) \subseteq U
BY DEF VarsOf, NonZero, Restrict

(* A lowered constraint names variables of its copy. *)
LEMMA ConstraintCopy ==
    ASSUME NEW c, DOMAIN c.a \cup DOMAIN c.b \cup DOMAIN c.c \subseteq Wires,
           NEW alt \in BOOLEAN, NWires \in Nat
    PROVE  VarsOf(ConstraintPoly(c, alt)) \subseteq Copy(alt) \cap (0 .. One - 1)
<1> DEFINE A == LinearForm(c.a, alt)
           B == LinearForm(c.b, alt)
           C == LinearForm(c.c, alt)
           used == {v \in 0 .. One - 1 : A[v] + B[v] + C[v] > 0}
           constant == << <<>>, A[One] * B[One] - C[One] >>
           linear == {<< <<v>>, A[v] * B[One] + A[One] * B[v] - C[v] >> : v \in used}
           squares == {<< <<v, v>>, A[v] * B[v] >> : v \in used}
           products == {<< <<v, w>>, A[v] * B[w] + A[w] * B[v] >> :
                           v \in used, w \in used}
           ascending == {t \in products : t[1][1] < t[1][2]}
           terms == {constant} \cup linear \cup squares \cup ascending
           f == [m \in {t[1] : t \in terms} |-> (CHOOSE t \in terms : t[1] = m)[2] % P]
<1>1. used \subseteq Copy(alt) \cap (0 .. One - 1)
  <2>1. SUFFICES ASSUME NEW v \in 0 .. One - 1, A[v] + B[v] + C[v] > 0
                 PROVE  v \in Copy(alt)
    OBVIOUS
  <2>2. A[v] # 0 \/ B[v] # 0 \/ C[v] # 0
    <3> HIDE DEF A, B, C
    <3> QED BY <2>1
  <2> QED BY <2>2, FormCopy
<1>2. ConstraintPoly(c, alt) = NonZero(f)
    BY DEF ConstraintPoly
<1>3. ASSUME NEW m \in DOMAIN f PROVE Range(m) \subseteq used
  <2> HIDE DEF A, B, C, used
  <2>1. PICK t \in terms : m = t[1]
    OBVIOUS
  <2>2. CASE t = constant
    BY <2>1, <2>2 DEF Range
  <2>3. CASE t \in linear
    BY <2>1, <2>3 DEF Range
  <2>4. CASE t \in squares
    BY <2>1, <2>4 DEF Range
  <2>5. CASE t \in ascending
    BY <2>1, <2>5 DEF Range
  <2> HIDE DEF constant, linear, squares, ascending
  <2> QED BY <2>1, <2>2, <2>3, <2>4, <2>5
<1>4. VarsOf(NonZero(f)) \subseteq used
  <2> HIDE DEF f, used
  <2> QED BY <1>3, NonZeroVars
<1> HIDE DEF f, used
<1> QED BY <1>1, <1>2, <1>4

(* The pin of the one-wire is well formed. *)
LEMMA PinWellFormed ==
    ASSUME NWires \in Nat \ {0}
    PROVE  WellFormed(OnePin)
<1>1. DOMAIN OnePin = {<<0>>, <<>>}
    BY DEF OnePin
<1>2. VarsOf(OnePin) \subseteq {0}
  <2>1. Range(<<0>>) = {0} /\ Range(<<>>) = {}
    BY DEF Range
  <2> QED BY <1>1, <2>1 DEF VarsOf
<1>3. ~IsBilinear(OnePin)
    BY <1>1 DEF IsBilinear
<1>4. 0 \in 0 .. One - 1
    BY DEF One
<1> QED BY <1>2, <1>3, <1>4 DEF WellFormed

(* A marker is well formed: it spans the copies and is no product. *)
LEMMA MarkerWellFormed ==
    ASSUME NWires \in Nat, NEW w \in Wires
    PROVE  WellFormed(Marker(w))
<1>1. DOMAIN Marker(w) = {<<w>>, <<NWires + w>>}
    BY DEF Marker
<1>2. VarsOf(Marker(w)) \subseteq {w, NWires + w}
  <2>1. Range(<<w>>) = {w} /\ Range(<<NWires + w>>) = {NWires + w}
    BY DEF Range
  <2> QED BY <1>1, <2>1 DEF VarsOf
<1>3. ~IsBilinear(Marker(w))
  <2>1. SUFFICES ASSUME NEW v, NEW u, DOMAIN Marker(w) = {<<v, u>>} PROVE FALSE
    BY DEF IsBilinear
  <2>2. <<w>> = <<v, u>>
    BY <1>1, <2>1
  <2> QED BY <2>2
<1>4. w \in 0 .. One - 1 /\ NWires + w \in 0 .. One - 1
    BY DEF One, Wires
<1> QED BY <1>2, <1>3, <1>4 DEF WellFormed

(* A list of well-formed polynomials. *)
IsIR(eqs) == eqs \in Seq(Range(eqs)) /\ \A q \in Range(eqs) : WellFormed(q)

(* Two lists of well-formed polynomials, one after the other. *)
LEMMA ConcatIR ==
    ASSUME NEW s, NEW t, IsIR(s), IsIR(t)
    PROVE  IsIR(s \o t)
<1>1. /\ s \in Seq(Range(s)) /\ t \in Seq(Range(t))
      /\ \A q \in Range(s) \cup Range(t) : WellFormed(q)
    BY DEF IsIR
<1>2. Range(s \o t) = Range(s) \cup Range(t)
  <2>1. s \o t \in Seq(Range(s) \cup Range(t)) /\ Len(s \o t) = Len(s) + Len(t)
    BY <1>1
  <2>2. \A i \in 1 .. Len(s) : (s \o t)[i] = s[i] /\ i \in DOMAIN (s \o t)
    BY <1>1
  <2>3. \A i \in 1 .. Len(t) : (s \o t)[Len(s) + i] = t[i] /\ Len(s) + i \in DOMAIN (s \o t)
    BY <1>1
  <2>4. DOMAIN s = 1 .. Len(s) /\ DOMAIN t = 1 .. Len(t)
    BY <1>1
  <2>5. ASSUME NEW i \in DOMAIN (s \o t) PROVE (s \o t)[i] \in Range(s) \cup Range(t)
    BY <2>1
  <2>6. Range(s) \subseteq Range(s \o t)
    BY <2>2, <2>4 DEF Range
  <2>7. Range(t) \subseteq Range(s \o t)
    BY <2>3, <2>4 DEF Range
  <2>8. Range(s \o t) \subseteq Range(s) \cup Range(t)
    BY <2>5 DEF Range
  <2> QED BY <2>6, <2>7, <2>8
<1>3. s \o t \in Seq(Range(s) \cup Range(t))
    BY <1>1
<1> QED BY <1>1, <1>2, <1>3 DEF IsIR

(* A selection of well-formed polynomials. *)
LEMMA SelectedIR ==
    ASSUME NEW s, s \in Seq(Range(s)), NEW S, \A q \in Range(s) \cap S : WellFormed(q)
    PROVE  IsIR(Selected(s, S))
<1> DEFINE r == Selected(s, S)
<1>1. r \in Seq(Range(s) \cap S)
    BY SelectedSeq
<1> HIDE DEF r
<1>2. \A i \in DOMAIN r : r[i] \in Range(s) \cap S
    BY <1>1
<1>3. r \in Seq(Range(r)) /\ Range(r) \subseteq Range(s) \cap S
    BY <1>1, <1>2 DEF Range
<1>4. IsIR(r)
    BY <1>3 DEF IsIR
<1> QED BY <1>4 DEF r

(* One copy of the circuit is well formed. *)
LEMMA CopyIR ==
    ASSUME circuit \in Circuits, NEW alt \in BOOLEAN
    PROVE  IsIR(CopyOf(circuit.r1cs, alt))
<1> DEFINE r1cs == circuit.r1cs
           polys == [i \in DOMAIN r1cs |-> ConstraintPoly(r1cs[i], alt)]
           S == {q \in Range(polys) : DOMAIN q # {}}
<1>1. /\ NWires \in Nat /\ r1cs \in Seq(Range(r1cs))
      /\ \A k \in Range(r1cs) :
            DOMAIN k.a \cup DOMAIN k.b \cup DOMAIN k.c \subseteq Wires
    BY PropagationAssumption DEF NWires, Wires
<1> HIDE DEF r1cs
<1>2. ASSUME NEW i \in DOMAIN r1cs PROVE WellFormed(polys[i])
  <2>1. r1cs[i] \in Range(r1cs)
    BY DEF Range
  <2>2. VarsOf(ConstraintPoly(r1cs[i], alt)) \subseteq Copy(alt) \cap (0 .. One - 1)
    BY <1>1, <2>1, ConstraintCopy
  <2> QED BY <2>2 DEF WellFormed
<1>3. polys \in Seq(Range(polys))
  <2>1. DOMAIN r1cs = 1 .. Len(r1cs) /\ Len(r1cs) \in Nat
    BY <1>1
  <2>2. polys = [k \in 1 .. Len(r1cs) |-> polys[k]]
    BY <2>1
  <2> HIDE DEF polys
  <2> QED BY <2>1, <2>2, ListSeq
<1>4. \A q \in Range(polys) \cap S : WellFormed(q)
    BY <1>2 DEF Range
<1>5. IsIR(Selected(polys, S))
  <2> HIDE DEF polys, S
  <2> QED BY <1>3, <1>4, SelectedIR
<1> QED BY <1>5 DEF CopyOf, r1cs

(* The lowered circuit is well formed. *)
LEMMA LoweredIRWellFormed ==
    ASSUME circuit \in Circuits
    PROVE  IsIR(LoweredIR(circuit.r1cs))
<1>1. IsIR(CopyOf(circuit.r1cs, FALSE)) /\ IsIR(CopyOf(circuit.r1cs, TRUE))
    BY CopyIR
<1>2. IsIR(<<OnePin>>)
  <2>1. WellFormed(OnePin)
    BY PinWellFormed, PropagationAssumption DEF NWires
  <2> DEFINE pin == OnePin
  <2> HIDE DEF pin
  <2>2. <<pin>> \in Seq({pin}) /\ Range(<<pin>>) = {pin}
    BY DEF Range
  <2> QED BY <2>1, <2>2 DEF IsIR, pin
<1>3. IsIR(CopyOf(circuit.r1cs, FALSE) \o CopyOf(circuit.r1cs, TRUE))
    BY <1>1, ConcatIR
<1>4. IsIR((CopyOf(circuit.r1cs, FALSE) \o CopyOf(circuit.r1cs, TRUE)) \o <<OnePin>>)
    BY <1>2, <1>3, ConcatIR
<1> QED BY <1>4 DEF LoweredIR

(* The markers of known wires are well formed. *)
LEMMA MarkersIR ==
    ASSUME circuit \in Circuits, NEW K, K \subseteq Wires
    PROVE  IsIR(NewMarkers(K))
<1> DEFINE all == [i \in 1 .. NWires |-> Marker(i - 1)]
           missing == {w \in K \ Inputs : Marker(w) \notin Range(equalities)}
           S == {Marker(w) : w \in missing}
<1>1. NWires \in Nat
    BY PropagationAssumption DEF NWires
<1>2. all \in Seq(Range(all))
  <2>1. all = [k \in 1 .. NWires |-> all[k]]
    OBVIOUS
  <2> HIDE DEF all
  <2> QED BY <1>1, <2>1, ListSeq
<1>3. \A q \in Range(all) \cap S : WellFormed(q)
    BY <1>1, MarkerWellFormed
<1>4. IsIR(Selected(all, S))
  <2> HIDE DEF all, S
  <2> QED BY <1>2, <1>3, SelectedIR
<1> QED BY <1>4 DEF NewMarkers

-------------------------------------------------------------------------------
(* The steps. *)

(* The step formula of RoundsMakeProgress. *)
RoundStep ==
    /\ known \subseteq known' /\ emitted \subseteq emitted'
    /\ pc = "round" /\ turn > Len(Lemmas) /\ pc' = "round" =>
          known # knownBefore \/ emitted # emittedBefore

(* What a lemma that reports nothing leaves alone. *)
OnlyPromotes ==
    UNCHANGED <<circuit, equalities, learned, emitted, knownBefore, emittedBefore, pc>>

(* A step that leaves the equalities alone leaves them well formed. *)
LEMMA IRKept ==
    ASSUME IRWellFormed, UNCHANGED <<circuit, equalities>>
    PROVE  IRWellFormed'
<1>1. NWires' = NWires /\ Inputs' = Inputs /\ equalities' = equalities /\ Wires' = Wires
      /\ One' = One
    BY DEF NWires, Inputs, Wires, One
<1>2. ASSUME NEW q PROVE WellFormed(q)' <=> WellFormed(q)
    BY <1>1 DEF WellFormed, Copy, Var, IsBilinear, VarsOf
<1> QED BY <1>1, <1>2 DEF IRWellFormed

(* A lemma that promotes wires, and says so exactly when it does, keeps *)
(* the invariant.                                                       *)
LEMMA PromotionStep ==
    ASSUME IInv, pc = "round", turn <= Len(Lemmas), NEW K \in Between,
           NEW progress \in BOOLEAN, progress => K # known,
           Promote(K), Returns(progress), OnlyPromotes
    PROVE  IInv' /\ RoundStep
<1> USE DEF OnlyPromotes
<1>1. known' = K /\ unknown' = unknown \ K /\ known \subseteq K /\ K \subseteq Wires
    BY DEF Promote, Between
<1>2. Partition'
    BY <1>1 DEF Partition, IInv, Wires, NWires
<1>3. IRWellFormed'
    BY IRKept DEF IInv
<1>4. Control'
  <2>1. turn' \in Nat /\ fired' \in BOOLEAN
    BY DEF Returns, IInv, Control
  <2> QED BY <2>1 DEF IInv, Control
<1>5. ReportsAreWires'
    BY DEF IInv, ReportsAreWires, Wires, NWires
<1>6. RoundAccounted'
    BY <1>1 DEF IInv, RoundAccounted, Returns
<1>7. RoundStep
  <2>1. turn \in Nat /\ Len(Lemmas) \in Nat
    BY PropagationAssumption DEF IInv, Control
  <2> QED BY <1>1, <2>1 DEF RoundStep
<1> QED BY <1>2, <1>3, <1>4, <1>5, <1>6, <1>7 DEF IInv

(* basis2 is one. *)
LEMMA Basis2Step ==
    ASSUME IInv, Basis2
    PROVE  IInv' /\ RoundStep
<1> DEFINE K == Basis2Known
           progress == K # known
<1>1. K \in Between
    BY Basis2Between
<1>2. Promote(K) /\ Returns(progress) /\ OnlyPromotes
    BY DEF Basis2, OnlyPromotes, given, before
<1>3. pc = "round" /\ turn <= Len(Lemmas)
    BY DEF Basis2, Turn
<1>4. progress \in BOOLEAN /\ (progress => K # known)
    OBVIOUS
<1> HIDE DEF K, progress
<1> QED BY <1>1, <1>2, <1>3, <1>4, PromotionStep

(* tecomplete is one. *)
LEMMA TecompleteStep ==
    ASSUME IInv, Tecomplete
    PROVE  IInv' /\ RoundStep
<1> DEFINE K == TecompletePass
           progress == K # known
<1>1. K \in Between
    BY TecompleteBetween
<1>2. Promote(K) /\ Returns(progress) /\ OnlyPromotes
    BY DEF Tecomplete, OnlyPromotes, given, before
<1>3. pc = "round" /\ turn <= Len(Lemmas)
    BY DEF Tecomplete, Turn
<1>4. progress \in BOOLEAN /\ (progress => K # known)
    OBVIOUS
<1> HIDE DEF K, progress
<1> QED BY <1>1, <1>2, <1>3, <1>4, PromotionStep

(* linear is one. *)
LEMMA LinearStep ==
    ASSUME IInv, Linear
    PROVE  IInv' /\ RoundStep
<1> DEFINE K == LinearClosure
           progress == K # known
<1>1. K \in Between
    BY DEF LinearClosure, Between, IInv, Partition
<1>2. Promote(K) /\ Returns(progress) /\ OnlyPromotes
    BY DEF Linear, OnlyPromotes, given, before
<1>3. pc = "round" /\ turn <= Len(Lemmas)
    BY DEF Linear, Turn
<1>4. progress \in BOOLEAN /\ (progress => K # known)
    OBVIOUS
<1> HIDE DEF K, progress
<1> QED BY <1>1, <1>2, <1>3, <1>4, PromotionStep

(* bim is one. *)
LEMMA BimStep ==
    ASSUME IInv, Bim
    PROVE  IInv' /\ RoundStep
<1> DEFINE K == IF BimFires THEN known \cup BimWires ELSE known
           progress == BimFires
<1>0. BimFires => BimWires # {} /\ BimWires \subseteq unknown
    BY DEF BimFires
<1>1. K \in Between
    BY <1>0 DEF Between, IInv, Partition
<1>2. Promote(K) /\ Returns(progress) /\ OnlyPromotes
    BY DEF Bim, OnlyPromotes, given, before
<1>3. pc = "round" /\ turn <= Len(Lemmas)
    BY DEF Bim, Turn
<1>4. progress \in BOOLEAN
    BY DEF BimFires
<1>5. progress => K # known
    BY <1>0 DEF IInv, Partition
<1> HIDE DEF K, progress
<1> QED BY <1>1, <1>2, <1>3, <1>4, <1>5, PromotionStep

(* binary01 is one: a range alone is no progress. *)
LEMMA Binary01Step ==
    ASSUME IInv, Binary01
    PROVE  IInv' /\ RoundStep
<1> DEFINE single == {w \in unknown \cap DOMAIN ranges' : IsSingleton(ranges'[w])}
           K == known \cup single
           progress == single # {}
<1>1. K \in Between
    BY DEF Between, IInv, Partition
<1>2. Promote(K) /\ Returns(progress) /\ OnlyPromotes
    BY DEF Binary01, OnlyPromotes, given, before
<1>3. pc = "round" /\ turn <= Len(Lemmas)
    BY DEF Binary01, Turn
<1>4. progress \in BOOLEAN /\ (progress => K # known)
    BY DEF IInv, Partition
<1> HIDE DEF K, progress
<1> QED BY <1>1, <1>2, <1>3, <1>4, PromotionStep

(* aboz keeps the invariant: clauses are learned with the products *)
(* reported.                                                       *)
LEMMA AbozStepKeeps ==
    ASSUME IInv, Aboz
    PROVE  IInv' /\ RoundStep
<1> DEFINE pass == AbozPass
           progress == pass.known # known \/ pass.pairs # {}
<1>1. pass.known \in Between /\ pass.pairs \subseteq Reported
    BY AbozPassed DEF Passed
<1>2. /\ known' = pass.known /\ unknown' = unknown \ pass.known
      /\ emitted' = emitted \cup pass.pairs
      /\ learned' = learned \cup UNION {ZeroProduct(pr[1], pr[2]) : pr \in pass.pairs}
      /\ fired' = (fired \/ progress) /\ turn' = turn + 1
      /\ UNCHANGED <<circuit, equalities, knownBefore, emittedBefore, pc>>
    BY DEF Aboz, Promote, Returns, given, before
<1>3. pc = "round" /\ turn <= Len(Lemmas)
    BY DEF Aboz, Turn
<1> HIDE DEF pass
<1>4. Partition'
    BY <1>1, <1>2 DEF Partition, Between, IInv, Wires, NWires
<1>5. IRWellFormed'
    BY <1>2, IRKept DEF IInv
<1>6. Control'
    BY <1>2, <1>3 DEF IInv, Control
<1>7. ReportsAreWires'
    BY <1>1, <1>2 DEF IInv, ReportsAreWires, Reported, Wires, NWires
<1>8. known \subseteq known' /\ emitted \subseteq emitted'
    BY <1>1, <1>2 DEF Between
<1>9. pass.pairs # {} => emitted' # emitted
    BY <1>1, <1>2 DEF Reported
<1>10. learned' # learned => pass.pairs # {}
    BY <1>2
<1>11. RoundAccounted'
  <2>1. knownBefore' \subseteq known' /\ emittedBefore' \subseteq emitted'
    BY <1>2, <1>8 DEF IInv, RoundAccounted
  <2>2. fired' => known' # knownBefore' \/ emitted' # emittedBefore'
    BY <1>2, <1>8, <1>9 DEF IInv, RoundAccounted
  <2>3. learned' # {} => emitted' # emittedBefore'
    BY <1>2, <1>8, <1>9, <1>10 DEF IInv, RoundAccounted
  <2> QED BY <2>1, <2>2, <2>3 DEF RoundAccounted
<1>12. RoundStep
  <2>1. turn \in Nat /\ Len(Lemmas) \in Nat
    BY PropagationAssumption DEF IInv, Control
  <2> QED BY <1>3, <1>8, <2>1 DEF RoundStep
<1> QED BY <1>4, <1>5, <1>6, <1>7, <1>11, <1>12 DEF IInv

(* Lowering establishes the IR. *)
LEMMA LowerStep ==
    ASSUME IInv, Lower
    PROVE  IInv' /\ RoundStep
<1>1. /\ pc = "lower" /\ equalities' = LoweredIR(circuit.r1cs) /\ pc' = "round"
      /\ UNCHANGED <<circuit, known, unknown, learned, emitted, turn, fired,
                     knownBefore, emittedBefore>>
    BY DEF Lower, given, ctxVars, before
<1>2. IRWellFormed'
  <2>1. IsIR(equalities')
    BY <1>1, LoweredIRWellFormed DEF IInv, Control
  <2>2. ASSUME NEW q PROVE WellFormed(q)' <=> WellFormed(q)
    BY <1>1 DEF WellFormed, Copy, Var, IsBilinear, VarsOf, Wires, NWires, Inputs, One
  <2> QED BY <2>1, <2>2 DEF IsIR, IRWellFormed
<1>3. Partition' /\ ReportsAreWires'
    BY <1>1 DEF IInv, Partition, ReportsAreWires, Wires, NWires
<1>4. Control' /\ RoundAccounted'
    BY <1>1 DEF IInv, Control, RoundAccounted
<1>5. RoundStep
    BY <1>1 DEF RoundStep
<1> QED BY <1>2, <1>3, <1>4, <1>5 DEF IInv

(* The end of a round starts another one only when this one added *)
(* something.                                                     *)
LEMMA EndRoundStep ==
    ASSUME IInv, EndRound
    PROVE  IInv' /\ RoundStep
<1>1. /\ learned' = {} /\ turn' = 1 /\ fired' = FALSE
      /\ knownBefore' = known /\ emittedBefore' = emitted
      /\ pc' = IF RoundProgress THEN "round" ELSE "stable"
      /\ UNCHANGED <<circuit, equalities, known, unknown, emitted>>
    BY DEF EndRound, given
<1>2. IRWellFormed'
    BY <1>1, IRKept DEF IInv
<1>3. Partition' /\ ReportsAreWires'
    BY <1>1 DEF IInv, Partition, ReportsAreWires, Wires, NWires
<1>4. Control' /\ RoundAccounted'
    BY <1>1 DEF IInv, Control, RoundAccounted
<1>5. RoundProgress => known # knownBefore \/ emitted # emittedBefore
    BY DEF RoundProgress, IInv, RoundAccounted
<1>6. RoundStep
    BY <1>1, <1>5 DEF RoundStep
<1> QED BY <1>2, <1>3, <1>4, <1>6 DEF IInv

(* A wire the solver proved, with the markers added for it. *)
LEMMA SolverProvesStep ==
    ASSUME IInv, NEW w \in unknown, SolverProves(w)
    PROVE  IInv' /\ RoundStep
<1>1. /\ pc = "stable" /\ pc' = "round"
      /\ known' = known \cup {w} /\ unknown' = unknown \ {w} /\ knownBefore' = known'
      /\ equalities' = equalities \o NewMarkers(known')
      /\ UNCHANGED <<circuit, learned, emitted, turn, fired, emittedBefore>>
    BY DEF SolverProves, given
<1>2. known' \subseteq Wires
    BY <1>1 DEF IInv, Partition
<1>3. IRWellFormed'
  <2>1. IsIR(equalities) /\ IsIR(NewMarkers(known'))
    BY <1>2, MarkersIR DEF IInv, IRWellFormed, IsIR, Control
  <2>2. IsIR(equalities')
    BY <1>1, <2>1, ConcatIR
  <2>3. ASSUME NEW q PROVE WellFormed(q)' <=> WellFormed(q)
    BY <1>1 DEF WellFormed, Copy, Var, IsBilinear, VarsOf, Wires, NWires, Inputs, One
  <2> QED BY <2>2, <2>3 DEF IsIR, IRWellFormed
<1>4. Partition' /\ ReportsAreWires'
    BY <1>1, <1>2 DEF IInv, Partition, ReportsAreWires, Wires, NWires
<1>5. Control' /\ RoundAccounted'
    BY <1>1 DEF IInv, Control, RoundAccounted
<1>6. RoundStep
    BY <1>1 DEF RoundStep
<1> QED BY <1>3, <1>4, <1>5, <1>6 DEF IInv

(* A step that changes nothing. *)
LEMMA StutterStep ==
    ASSUME IInv, UNCHANGED vars
    PROVE  IInv' /\ UNCHANGED vars
<1>1. UNCHANGED <<circuit, equalities, known, unknown, learned, emitted, turn,
                  fired, knownBefore, emittedBefore, pc>>
    BY DEF vars, given, before
<1>2. IRWellFormed'
    BY <1>1, IRKept DEF IInv
<1>3. Partition' /\ ReportsAreWires'
    BY <1>1 DEF IInv, Partition, ReportsAreWires, Wires, NWires
<1>4. Control' /\ RoundAccounted'
    BY <1>1 DEF IInv, Control, RoundAccounted
<1> QED BY <1>2, <1>3, <1>4 DEF IInv

(* The initial states satisfy the invariant. *)
LEMMA Initially == Init => IInv
<1> SUFFICES ASSUME Init PROVE IInv
    OBVIOUS
<1>1. Control
    BY DEF Init, Control
<1>2. Partition
    BY <1>1, PropagationAssumption DEF Init, Partition, Control, Wires, NWires, Inputs
<1>3. IRWellFormed
  <2>1. equalities = <<>>
    BY DEF Init
  <2>2. equalities \in Seq(Range(equalities)) /\ Range(equalities) = {}
    BY <2>1 DEF Range
  <2> QED BY <2>2 DEF IRWellFormed
<1>4. ReportsAreWires /\ RoundAccounted
    BY DEF Init, ReportsAreWires, RoundAccounted
<1> QED BY <1>1, <1>2, <1>3, <1>4 DEF IInv

(* Every step keeps the invariant and is a step of RoundsMakeProgress. *)
LEMMA EveryStep ==
    ASSUME IInv, [Next]_vars
    PROVE  IInv' /\ (RoundStep \/ UNCHANGED vars)
<1>1. CASE Lower
    BY <1>1, LowerStep
<1>2. CASE Aboz
    BY <1>2, AbozStepKeeps
<1>3. CASE Basis2
    BY <1>3, Basis2Step
<1>4. CASE Bim
    BY <1>4, BimStep
<1>5. CASE Binary01
    BY <1>5, Binary01Step
<1>6. CASE Linear
    BY <1>6, LinearStep
<1>7. CASE Tecomplete
    BY <1>7, TecompleteStep
<1>8. CASE EndRound
    BY <1>8, EndRoundStep
<1>9. ASSUME NEW w \in unknown, SolverProves(w)
      PROVE  IInv' /\ RoundStep
    BY <1>9, SolverProvesStep
<1>10. CASE UNCHANGED vars
    BY <1>10, StutterStep
<1> QED
    BY <1>1, <1>2, <1>3, <1>4, <1>5, <1>6, <1>7, <1>8, <1>9, <1>10 DEF Next, Stopped

-------------------------------------------------------------------------------
(* The field and the values of polynomials. *)

(* What is assumed of the circuit at hand. *)
LEMMA CircuitFacts ==
    ASSUME circuit \in Circuits
    PROVE  /\ P \in Nat \ {0, 1} /\ NWires \in Nat \ {0}
           /\ 0 \in Inputs /\ Inputs \subseteq Wires /\ IsFiniteSet(Wires)
           /\ \A x \in 1 .. P - 1 : \E y \in 1 .. P - 1 : (x * y) % P = 1
<1>0. NWires \in Nat
    BY PropagationAssumption DEF NWires
<1>1. IsFiniteSet(0 .. NWires - 1)
  <2>1. 0 \in Int /\ NWires - 1 \in Int
    BY <1>0
  <2> QED BY <2>1, FS_Interval
<1> QED BY <1>1, PropagationAssumption DEF P, NWires, Inputs, Wires

(* A field has no zero divisors. *)
LEMMA NoZeroDivisors ==
    ASSUME NEW p \in Nat \ {0, 1},
           \A r \in 1 .. p - 1 : \E s \in 1 .. p - 1 : (r * s) % p = 1,
           NEW x \in Int, NEW y \in Int, Cong(x * y, 0, p), ~Cong(x, 0, p)
    PROVE  Cong(y, 0, p)
<1> DEFINE r == x % p
<1>0. p \in Nat \ {0} /\ p \in Int /\ 1 \in 0 .. (p - 1) /\ 0 \in Int
    OBVIOUS
<1>1. Cong(x, r, p) /\ r \in 0 .. (p - 1)
    BY <1>0, CongResidue
<1> HIDE DEF r
<1>2. r # 0
    BY <1>1
<1>3. r \in 1 .. p - 1
    BY <1>0, <1>1, <1>2
<1>4. PICK s \in 1 .. p - 1 : (r * s) % p = 1
    BY <1>3
<1>5. r \in Int /\ s \in Int /\ r * s \in Int /\ r * y \in Int /\ x * y \in Int
    BY <1>1
<1>6. Cong(r * s, 1, p)
    BY <1>0, <1>4, <1>5, ResidueIs
<1>7. Cong(r * y, x * y, p)
  <2>1. Cong(r, x, p) /\ Cong(y, y, p)
    BY <1>0, <1>1, <1>5, CongSwap, CongSame
  <2> QED BY <1>0, <1>5, <2>1, CongProduct
<1>8. Cong(r * y, 0, p)
    BY <1>0, <1>5, <1>7, CongTrans
<1>9. Cong(s * (r * y), s * 0, p)
    BY <1>0, <1>5, <1>8, CongSame, CongProduct
<1>10. Cong((r * s) * y, 1 * y, p)
    BY <1>0, <1>5, <1>6, CongSame, CongProduct
<1>11. s * 0 = 0 /\ 1 * y = y /\ s * (r * y) = (r * s) * y /\ (r * s) * y \in Int
    BY <1>5
<1>12. Cong(y, (r * s) * y, p)
    BY <1>0, <1>10, <1>11, CongSwap
<1> QED BY <1>0, <1>9, <1>11, <1>12, CongTrans

(* Assignments give every wire an element of the field, the one-wire one. *)
LEMMA AssignmentsAre ==
    ASSUME circuit \in Circuits
    PROVE  Assignments(circuit) = {a \in [Wires -> GF] : a[0] = 1}
<1>0. 0 \in Wires /\ 1 \in GF /\ 1 .. NWires - 1 \subseteq Wires
    BY CircuitFacts DEF Wires, GF
<1>1. ASSUME NEW a \in Assignments(circuit) PROVE a \in [Wires -> GF] /\ a[0] = 1
  <2>1. PICK b \in [1 .. NWires - 1 -> GF] : a = [w \in Wires |-> IF w = 0 THEN 1 ELSE b[w]]
    BY DEF Assignments, NWires, P, GF, Wires
  <2>2. \A w \in Wires : w # 0 => w \in 1 .. NWires - 1
    BY CircuitFacts DEF Wires
  <2> QED BY <1>0, <2>1, <2>2
<1>2. ASSUME NEW a \in [Wires -> GF], a[0] = 1 PROVE a \in Assignments(circuit)
  <2> DEFINE b == [w \in 1 .. NWires - 1 |-> a[w]]
  <2>1. b \in [1 .. NWires - 1 -> GF]
    BY <1>0
  <2>2. \A w \in Wires : w # 0 => w \in 1 .. NWires - 1
    BY CircuitFacts DEF Wires
  <2>3. a = [w \in Wires |-> IF w = 0 THEN 1 ELSE b[w]]
    BY <1>2, <2>2
  <2> HIDE DEF b
  <2> QED BY <2>1, <2>3 DEF Assignments, NWires, P, GF, Wires
<1> QED BY <1>1, <1>2

Variables == 0 .. One - 1

\* The wires have integers.
Valued(a) == \A w \in Wires : a[w] \in Int

(* A variable stands for a wire. *)
LEMMA VariableWire ==
    ASSUME circuit \in Circuits, NEW v \in Variables
    PROVE  Wire(v) \in Wires /\ v \in Nat
BY CircuitFacts DEF Variables, Wire, Wires, One

\* upTo is the recursion inside MonomialAt.
Multiplies(upTo, m, a) ==
    /\ upTo[0] = 1 /\ MonomialAt(m, a) = upTo[Len(m)]
    /\ \A k \in 1 .. Len(m) : upTo[k] = upTo[k - 1] * a[Wire(m[k])]

(* The recursion inside MonomialAt unrolls. *)
LEMMA MonomialRecursion ==
    ASSUME circuit \in Circuits, NEW m \in Seq(Variables), NEW a, Valued(a)
    PROVE  \E upTo : Multiplies(upTo, m, a)
<1> DEFINE n == Len(m)
           Eqn(f) == f = [k \in 0 .. n |-> IF k = 0 THEN 1 ELSE f[k - 1] * a[Wire(m[k])]]
           F == [q \in (1 .. n) \X Int |-> q[2] * a[Wire(m[q[1]])]]
<1>1. n \in Nat /\ \A k \in 1 .. n : m[k] \in Variables
    BY SeqParts
<1>2. \A k \in 1 .. n : a[Wire(m[k])] \in Int
    BY <1>1, VariableWire DEF Valued
<1> HIDE DEF n
<1>3. F \in Steps(n, Int)
    BY <1>2 DEF Steps
<1>4. PICK g : Unrolls(g, n, Int, 1, F)
  <2> HIDE DEF F
  <2>1. 1 \in Int
    OBVIOUS
  <2> QED BY <1>1, <1>3, <2>1, RecursionExists
<1>5. ASSUME NEW k \in 1 .. n PROVE g[k] = g[k - 1] * a[Wire(m[k])]
  <2>1. g[k - 1] \in Int
    <3>1. k - 1 \in 0 .. n
        BY <1>1
    <3> QED BY <1>4, <3>1 DEF Unrolls
  <2>2. F[<<k, g[k - 1]>>] = g[k - 1] * a[Wire(m[k])]
    BY <2>1
  <2> HIDE DEF F
  <2> QED BY <1>4, <2>2 DEF Unrolls
<1>6. Eqn(g)
  <2>1. g = [k \in 0 .. n |-> g[k]] /\ g[0] = 1
    BY <1>4 DEF Unrolls
  <2>2. \A k \in 0 .. n : k # 0 => k \in 1 .. n
    BY <1>1
  <2> HIDE DEF F
  <2> QED BY <1>5, <2>1, <2>2
<1> DEFINE h == CHOOSE f : Eqn(f)
<1>7. Eqn(h)
  <2> HIDE DEF Eqn
  <2> QED BY <1>6
<1>8. MonomialAt(m, a) = h[n]
    BY DEF MonomialAt, n
<1>9. h[0] = 1 /\ \A k \in 1 .. n : h[k] = h[k - 1] * a[Wire(m[k])]
  <2>1. 0 \in 0 .. n /\ \A k \in 1 .. n : k \in 0 .. n /\ k # 0
    BY <1>1
  <2> HIDE DEF h
  <2> QED BY <1>7, <2>1
<1> HIDE DEF h
<1> QED BY <1>8, <1>9 DEF Multiplies, n

(* The value of the constant. *)
LEMMA ConstantAt ==
    ASSUME circuit \in Circuits, NEW a, Valued(a)
    PROVE  MonomialAt(<<>>, a) = 1
<1>1. <<>> \in Seq(Variables) /\ Len(<<>>) = 0
    OBVIOUS
<1>2. PICK f : Multiplies(f, <<>>, a)
    BY <1>1, MonomialRecursion
<1> QED BY <1>1, <1>2 DEF Multiplies

(* Of a variable. *)
LEMMA VariableAt ==
    ASSUME circuit \in Circuits, NEW a, Valued(a), NEW v \in Variables
    PROVE  MonomialAt(<<v>>, a) = a[Wire(v)] /\ a[Wire(v)] \in Int
<1>1. <<v>> \in Seq(Variables) /\ Len(<<v>>) = 1 /\ <<v>>[1] = v /\ 1 \in 1 .. 1 /\ 1 - 1 = 0
    OBVIOUS
<1>2. PICK f : Multiplies(f, <<v>>, a)
    BY <1>1, MonomialRecursion
<1>3. a[Wire(v)] \in Int
    BY VariableWire DEF Valued
<1>4. f[1] = f[0] * a[Wire(v)] /\ f[0] = 1
    BY <1>1, <1>2 DEF Multiplies
<1>5. MonomialAt(<<v>>, a) = f[1]
    BY <1>1, <1>2 DEF Multiplies
<1> QED BY <1>3, <1>4, <1>5

(* Of a product of two. *)
LEMMA ProductAt ==
    ASSUME circuit \in Circuits, NEW a, Valued(a), NEW v \in Variables, NEW w \in Variables
    PROVE  MonomialAt(<<v, w>>, a) = a[Wire(v)] * a[Wire(w)]
<1> DEFINE m == <<v, w>>
<1>1. m \in Seq(Variables) /\ Len(m) = 2 /\ m[1] = v /\ m[2] = w /\ 1 \in 1 .. 2
      /\ 2 \in 1 .. 2 /\ 1 - 1 = 0 /\ 2 - 1 = 1
    OBVIOUS
<1> HIDE DEF m
<1>2. PICK f : Multiplies(f, m, a)
    BY <1>1, MonomialRecursion
<1>3. a[Wire(v)] \in Int /\ a[Wire(w)] \in Int
    BY VariableWire DEF Valued
<1>4. f[1] = f[0] * a[Wire(v)] /\ f[0] = 1
    BY <1>1, <1>2 DEF Multiplies
<1>5. f[2] = f[1] * a[Wire(w)] /\ MonomialAt(m, a) = f[2]
    BY <1>1, <1>2 DEF Multiplies
<1>6. f[1] = a[Wire(v)]
    BY <1>3, <1>4
<1> QED BY <1>5, <1>6 DEF m

\* No constraint has a degree above two.
Monomials == {m \in Seq(Variables) : Len(m) <= 2}

(* The three forms of a monomial. *)
LEMMA MonomialForms ==
    ASSUME NEW m \in Monomials
    PROVE  \/ m = <<>>
           \/ \E v \in Variables : m = <<v>>
           \/ \E v, w \in Variables : m = <<v, w>>
<1>0. m \in Seq(Variables) /\ Len(m) <= 2
    BY DEF Monomials
<1> HIDE DEF Variables
<1>1. m \in Seq(Variables) /\ Len(m) \in {0, 1, 2}
  <2>1. Len(m) \in Nat
    BY <1>0
  <2>2. \A k \in Nat : k <= 2 => k \in {0, 1, 2}
    OBVIOUS
  <2> HIDE DEF Variables
  <2> QED BY <1>0, <2>1, <2>2
<1>2. CASE Len(m) = 0
    BY <1>1, <1>2
<1>3. CASE Len(m) = 1
  <2>1. m = <<m[1]>> /\ m[1] \in Variables
    BY <1>1, <1>3
  <2> QED BY <2>1
<1>4. CASE Len(m) = 2
  <2>1. m[1] \in Variables /\ m[2] \in Variables
    BY <1>1, <1>4
  <2>2. m = <<m[1], m[2]>>
    BY <1>1, <1>4
  <2> QED BY <2>1, <2>2
<1> QED BY <1>1, <1>2, <1>3, <1>4

(* And back. *)
LEMMA FormsAreMonomials ==
    /\ <<>> \in Monomials
    /\ \A v \in Variables : <<v>> \in Monomials
    /\ \A v, w \in Variables : <<v, w>> \in Monomials
BY DEF Monomials

(* A monomial has an integer value. *)
LEMMA MonomialValue ==
    ASSUME circuit \in Circuits, NEW a, Valued(a), NEW m \in Monomials
    PROVE  MonomialAt(m, a) \in Int
<1>1. CASE m = <<>>
    BY <1>1, ConstantAt
<1>2. ASSUME NEW v \in Variables, m = <<v>> PROVE MonomialAt(m, a) \in Int
    BY <1>2, VariableAt
<1>3. ASSUME NEW v \in Variables, NEW w \in Variables, m = <<v, w>>
      PROVE  MonomialAt(m, a) \in Int
  <2>1. a[Wire(v)] \in Int /\ a[Wire(w)] \in Int
    BY VariableWire DEF Valued
  <2> QED BY <1>3, <2>1, ProductAt
<1> QED BY <1>1, <1>2, <1>3, MonomialForms

(* It depends on the wires it names only. *)
LEMMA MonomialAgrees ==
    ASSUME circuit \in Circuits, NEW a, Valued(a), NEW b, Valued(b), NEW m \in Monomials,
           \A v \in Range(m) : a[Wire(v)] = b[Wire(v)]
    PROVE  MonomialAt(m, a) = MonomialAt(m, b)
<1>1. CASE m = <<>>
    BY <1>1, ConstantAt
<1>2. ASSUME NEW v \in Variables, m = <<v>> PROVE MonomialAt(m, a) = MonomialAt(m, b)
  <2>1. v \in Range(m)
    BY <1>2 DEF Range
  <2> QED BY <1>2, <2>1, VariableAt
<1>3. ASSUME NEW v \in Variables, NEW w \in Variables, m = <<v, w>>
      PROVE  MonomialAt(m, a) = MonomialAt(m, b)
  <2>1. v \in Range(m) /\ w \in Range(m)
    <3>1. DOMAIN m = 1 .. 2 /\ m[1] = v /\ m[2] = w
        BY <1>3
    <3> QED BY <3>1 DEF Range
  <2> QED BY <1>3, <2>1, ProductAt
<1> QED BY <1>1, <1>2, <1>3, MonomialForms

\* A polynomial over the variables.
IsPoly(q) ==
    /\ IsFiniteSet(DOMAIN q) /\ DOMAIN q \subseteq Monomials
    /\ q \in [DOMAIN q -> 1 .. P - 1]

TermsAt(q, a) == [m \in DOMAIN q |-> q[m] * MonomialAt(m, a)]

(* Its value is zero when the sum of its terms is a multiple of P. *)
LEMMA TermsAre ==
    ASSUME circuit \in Circuits, NEW q, IsPoly(q), NEW a, Valued(a)
    PROVE  /\ IntOn(TermsAt(q, a), DOMAIN q)
           /\ PolyAt(q, a) = 0 <=> Cong(SumFunctionOnSet(TermsAt(q, a), DOMAIN q), 0, P)
<1>0. P \in Nat \ {0} /\ 0 \in 0 .. (P - 1)
    BY CircuitFacts
<1>1. ASSUME NEW m \in DOMAIN q PROVE TermsAt(q, a)[m] \in Int
  <2>1. MonomialAt(m, a) \in Int
    BY MonomialValue DEF IsPoly
  <2>2. q[m] \in Int
    BY DEF IsPoly
  <2>3. TermsAt(q, a)[m] = q[m] * MonomialAt(m, a)
    BY DEF TermsAt
  <2> QED BY <2>1, <2>2, <2>3
<1>2. IntOn(TermsAt(q, a), DOMAIN q)
    BY <1>1 DEF IntOn
<1> DEFINE s == SumFunctionOnSet(TermsAt(q, a), DOMAIN q)
<1>3. s \in Int
    BY <1>2, SumType DEF IsPoly
<1>4. PolyAt(q, a) = s % P
    BY DEF PolyAt, TermsAt
<1> HIDE DEF s
<1>5. s % P = 0 <=> Cong(s, 0, P)
    BY <1>0, <1>3, ResidueIs
<1> QED BY <1>2, <1>4, <1>5 DEF s

-------------------------------------------------------------------------------
(* The product of two linear forms less a third one. *)

\* The monomials over the variables below n.
MonomialsTo(n) ==
    {<<>>} \cup {<<v>> : v \in 0 .. n - 1}
        \cup {t \in {<<v, w>> : v \in 0 .. n - 1, w \in 0 .. n - 1} : t[1] <= t[2]}

\* The coefficient of a monomial in A * B - C, and its value.
RawAt(m, A, B, C) ==
    IF m = <<>> THEN A[One] * B[One] - C[One]
    ELSE IF Len(m) = 1 THEN A[m[1]] * B[One] + A[One] * B[m[1]] - C[m[1]]
    ELSE IF m[1] = m[2] THEN A[m[1]] * B[m[1]]
    ELSE A[m[1]] * B[m[2]] + A[m[2]] * B[m[1]]

ValueAt(m, x) ==
    IF m = <<>> THEN 1 ELSE IF Len(m) = 1 THEN x[m[1]] ELSE x[m[1]] * x[m[2]]

RawTerms(A, B, C, x) ==
    [m \in MonomialsTo(One) |-> RawAt(m, A, B, C) * ValueAt(m, x)]

\* The sum of a linear form below n, without its constant.
FormTo(A, x, n) == SumFunctionOnSet([v \in Variables |-> A[v] * x[v]], 0 .. n - 1)

IsForm(A) == A \in [0 .. One -> Int]

(* One more variable in a linear form. *)
LEMMA FormStep ==
    ASSUME circuit \in Circuits, NEW A, IsForm(A), NEW x \in [Variables -> Int], NEW n \in 0 .. One - 1
    PROVE  /\ FormTo(A, x, n) \in Int
           /\ FormTo(A, x, n + 1) = A[n] * x[n] + FormTo(A, x, n)
<1> DEFINE f == [v \in Variables |-> A[v] * x[v]]
           S == 0 .. n
           R == 0 .. n - 1
<1>0. One \in Nat /\ n \in Nat /\ n \in Variables /\ 0 \in Int /\ n - 1 \in Int
    BY CircuitFacts DEF One, Variables
<1>1. S \subseteq Variables /\ R \subseteq Variables /\ S \ {n} = R /\ n \in S /\ R = 0 .. n - 1
    BY <1>0 DEF Variables
<1>2. IsFiniteSet(S) /\ IsFiniteSet(R)
    BY <1>0, FS_Interval
<1>3. \A v \in Variables : f[v] \in Int
    BY <1>0 DEF IsForm, Variables
<1>4. IntOn(f, S) /\ IntOn(f, R)
    BY <1>1, <1>3 DEF IntOn
<1>5. f[n] = A[n] * x[n]
    BY <1>0
<1>6. FormTo(A, x, n) = SumFunctionOnSet(f, R)
    BY DEF FormTo
<1>7. FormTo(A, x, n + 1) = SumFunctionOnSet(f, S)
  <2>1. (n + 1) - 1 = n
    BY <1>0
  <2> QED BY <2>1 DEF FormTo
<1> HIDE DEF f, S, R
<1>8. SumFunctionOnSet(f, S) = f[n] + SumFunctionOnSet(f, R)
    BY <1>1, <1>2, <1>4, SumRemove
<1>9. SumFunctionOnSet(f, R) \in Int
    BY <1>2, <1>4, SumType
<1> QED BY <1>5, <1>6, <1>7, <1>8, <1>9

(* No variable, no sum. *)
LEMMA FormNone == ASSUME NEW A, NEW x PROVE FormTo(A, x, 0) = 0
<1>1. 0 .. 0 - 1 = {}
    OBVIOUS
<1> QED BY <1>1, SumEmpty DEF FormTo

(* What is added to the monomials by one more variable. *)
LEMMA MonomialsStep ==
    ASSUME NEW n \in Nat
    PROVE  /\ MonomialsTo(n + 1) = MonomialsTo(n) \cup {<<n>>} \cup {<<v, n>> : v \in 0 .. n}
           /\ <<n>> \notin MonomialsTo(n)
           /\ \A v \in 0 .. n : <<v, n>> \notin MonomialsTo(n) \cup {<<n>>}
<1>1. 0 .. (n + 1) - 1 = 0 .. n /\ 0 .. n = (0 .. n - 1) \cup {n} /\ n \notin 0 .. n - 1
    OBVIOUS
<1>2. ASSUME NEW m \in MonomialsTo(n + 1)
      PROVE  m \in MonomialsTo(n) \cup {<<n>>} \cup {<<v, n>> : v \in 0 .. n}
  <2>1. CASE m = <<>>
    BY <2>1 DEF MonomialsTo
  <2>2. ASSUME NEW v \in 0 .. n, m = <<v>>
        PROVE  m \in MonomialsTo(n) \cup {<<n>>} \cup {<<w, n>> : w \in 0 .. n}
    BY <1>1, <2>2 DEF MonomialsTo
  <2>3. ASSUME NEW v \in 0 .. n, NEW w \in 0 .. n, m = <<v, w>>, v <= w
        PROVE  m \in MonomialsTo(n) \cup {<<n>>} \cup {<<u, n>> : u \in 0 .. n}
    <3>1. CASE w = n
        BY <2>3, <3>1
    <3>2. CASE w # n
        <4>1. v \in 0 .. n - 1 /\ w \in 0 .. n - 1
            BY <2>3, <3>2
        <4>2. m[1] <= m[2]
            BY <2>3
        <4> QED BY <2>3, <4>1, <4>2 DEF MonomialsTo
    <3> QED BY <3>1, <3>2
  <2> QED BY <1>1, <2>1, <2>2, <2>3 DEF MonomialsTo
<1>3. MonomialsTo(n) \subseteq MonomialsTo(n + 1)
  <2>1. 0 .. n - 1 \subseteq 0 .. (n + 1) - 1
    BY <1>1
  <2> QED BY <2>1 DEF MonomialsTo
<1>4. <<n>> \in MonomialsTo(n + 1)
    BY <1>1 DEF MonomialsTo
<1>5. ASSUME NEW v \in 0 .. n PROVE <<v, n>> \in MonomialsTo(n + 1)
  <2>1. v <= n /\ <<v, n>>[1] = v /\ <<v, n>>[2] = n /\ n \in 0 .. (n + 1) - 1 /\ v \in 0 .. (n + 1) - 1
    OBVIOUS
  <2> QED BY <2>1 DEF MonomialsTo
<1>6. <<n>> \notin MonomialsTo(n)
    BY <1>1 DEF MonomialsTo
<1>7. ASSUME NEW v \in 0 .. n PROVE <<v, n>> \notin MonomialsTo(n) \cup {<<n>>}
    BY <1>1 DEF MonomialsTo
<1>8. MonomialsTo(n + 1) = MonomialsTo(n) \cup {<<n>>} \cup {<<v, n>> : v \in 0 .. n}
  <2> DEFINE M == MonomialsTo(n)
             N == MonomialsTo(n + 1)
  <2> HIDE DEF M, N
  <2>1. M \subseteq N /\ <<n>> \in N /\ \A v \in 0 .. n : <<v, n>> \in N
    BY <1>3, <1>4, <1>5 DEF M, N
  <2>2. \A m \in N : m \in M \cup {<<n>>} \cup {<<v, n>> : v \in 0 .. n}
    BY <1>2 DEF M, N
  <2>3. N = M \cup {<<n>>} \cup {<<v, n>> : v \in 0 .. n}
    BY <2>1, <2>2
  <2> QED BY <2>3 DEF M, N
<1> QED BY <1>6, <1>7, <1>8

(* The coefficients and values of the terms. *)
LEMMA RawTermsAre ==
    ASSUME circuit \in Circuits, NEW A, IsForm(A), NEW B, IsForm(B), NEW C, IsForm(C),
           NEW x \in [Variables -> Int]
    PROVE  LET g == RawTerms(A, B, C, x)
               R == MonomialsTo(One)
           IN  /\ IntOn(g, R)
               /\ <<>> \in R /\ g[<<>>] = A[One] * B[One] - C[One]
               /\ \A v \in Variables :
                     <<v>> \in R /\ g[<<v>>] = (A[v] * B[One] + A[One] * B[v] - C[v]) * x[v]
               /\ \A v \in Variables :
                     <<v, v>> \in R /\ g[<<v, v>>] = A[v] * B[v] * (x[v] * x[v])
               /\ \A v, w \in Variables : v < w =>
                     <<v, w>> \in R /\ g[<<v, w>>] = (A[v] * B[w] + A[w] * B[v]) * (x[v] * x[w])
<1> DEFINE g == RawTerms(A, B, C, x)
           R == MonomialsTo(One)
<1>0. /\ One \in Nat /\ A[One] \in Int /\ B[One] \in Int /\ C[One] \in Int
      /\ \A v \in Variables : A[v] \in Int /\ B[v] \in Int /\ C[v] \in Int /\ x[v] \in Int
  <2>1. One \in Nat
    BY CircuitFacts DEF One
  <2>2. One \in 0 .. One /\ \A v \in Variables : v \in 0 .. One
    BY <2>1 DEF Variables
  <2>3. A[One] \in Int /\ B[One] \in Int /\ C[One] \in Int
    BY <2>2 DEF IsForm
  <2>4. \A v \in Variables : A[v] \in Int /\ B[v] \in Int /\ C[v] \in Int
    BY <2>2 DEF IsForm
  <2> QED BY <2>1, <2>3, <2>4
<1>01. ASSUME NEW m \in R PROVE g[m] = RawAt(m, A, B, C) * ValueAt(m, x)
    BY DEF RawTerms
<1>1. <<>> \in R /\ g[<<>>] = A[One] * B[One] - C[One]
  <2>1. <<>> \in R
    BY DEF MonomialsTo
  <2>2. RawAt(<<>>, A, B, C) = A[One] * B[One] - C[One] /\ ValueAt(<<>>, x) = 1
    BY DEF RawAt, ValueAt
  <2>3. A[One] * B[One] - C[One] \in Int
    BY <1>0
  <2> HIDE DEF g, R
  <2> QED BY <1>01, <2>1, <2>2, <2>3
<1>2. ASSUME NEW v \in Variables
      PROVE  <<v>> \in R /\ g[<<v>>] = (A[v] * B[One] + A[One] * B[v] - C[v]) * x[v]
  <2>1. <<v>> \in R
    BY DEF MonomialsTo, Variables
  <2>2. <<v>> # <<>> /\ Len(<<v>>) = 1 /\ <<v>>[1] = v
    OBVIOUS
  <2>3. /\ RawAt(<<v>>, A, B, C) = A[v] * B[One] + A[One] * B[v] - C[v]
        /\ ValueAt(<<v>>, x) = x[v]
    BY <2>2 DEF RawAt, ValueAt
  <2> HIDE DEF g, R
  <2> QED BY <1>01, <2>1, <2>3
<1>3. ASSUME NEW v \in Variables
      PROVE  <<v, v>> \in R /\ g[<<v, v>>] = A[v] * B[v] * (x[v] * x[v])
  <2>2. <<v, v>> # <<>> /\ Len(<<v, v>>) = 2 /\ <<v, v>>[1] = v /\ <<v, v>>[2] = v /\ v <= v
    BY DEF Variables
  <2>1. <<v, v>> \in R
    BY <2>2 DEF MonomialsTo, Variables
  <2>3. RawAt(<<v, v>>, A, B, C) = A[v] * B[v] /\ ValueAt(<<v, v>>, x) = x[v] * x[v]
    BY <2>2 DEF RawAt, ValueAt
  <2> HIDE DEF g, R
  <2> QED BY <1>01, <2>1, <2>3
<1>4. ASSUME NEW v \in Variables, NEW w \in Variables, v < w
      PROVE  <<v, w>> \in R /\ g[<<v, w>>] = (A[v] * B[w] + A[w] * B[v]) * (x[v] * x[w])
  <2>2. <<v, w>> # <<>> /\ Len(<<v, w>>) = 2 /\ <<v, w>>[1] = v /\ <<v, w>>[2] = w /\ v <= w /\ v # w
    BY <1>4 DEF Variables
  <2>1. <<v, w>> \in R
    BY <2>2 DEF MonomialsTo, Variables
  <2>3. /\ RawAt(<<v, w>>, A, B, C) = A[v] * B[w] + A[w] * B[v]
        /\ ValueAt(<<v, w>>, x) = x[v] * x[w]
    BY <2>2 DEF RawAt, ValueAt
  <2> HIDE DEF g, R
  <2> QED BY <1>01, <2>1, <2>3
<1>5. ASSUME NEW m \in R PROVE g[m] \in Int
  <2>1. CASE m = <<>>
    <3>1. A[One] * B[One] - C[One] \in Int
        BY <1>0
    <3> HIDE DEF g, R
    <3> QED BY <1>1, <2>1, <3>1
  <2>2. ASSUME NEW v \in Variables, m = <<v>> PROVE g[m] \in Int
    <3>1. (A[v] * B[One] + A[One] * B[v] - C[v]) * x[v] \in Int
        BY <1>0
    <3> HIDE DEF g, R
    <3> QED BY <1>2, <2>2, <3>1
  <2>3. ASSUME NEW v \in Variables, m = <<v, v>> PROVE g[m] \in Int
    <3>1. A[v] * B[v] * (x[v] * x[v]) \in Int
        BY <1>0
    <3> HIDE DEF g, R
    <3> QED BY <1>3, <2>3, <3>1
  <2>4. ASSUME NEW v \in Variables, NEW w \in Variables, m = <<v, w>>, v < w PROVE g[m] \in Int
    <3>1. (A[v] * B[w] + A[w] * B[v]) * (x[v] * x[w]) \in Int
        BY <1>0
    <3> HIDE DEF g, R
    <3> QED BY <1>4, <2>4, <3>1
  <2>5. \/ m = <<>> \/ \E v \in Variables : m = <<v>>
        \/ \E v, w \in Variables : m = <<v, w>> /\ v <= w
    BY DEF MonomialsTo, Variables
  <2>6. \A v, w \in Variables : v <= w => v < w \/ v = w
    BY DEF Variables
  <2> HIDE DEF g, R
  <2> QED BY <2>1, <2>2, <2>3, <2>4, <2>5, <2>6
<1>6. IntOn(g, R)
    BY <1>5 DEF IntOn
<1> HIDE DEF g, R
<1>7. /\ IntOn(g, R)
      /\ <<>> \in R /\ g[<<>>] = A[One] * B[One] - C[One]
      /\ \A v \in Variables :
            <<v>> \in R /\ g[<<v>>] = (A[v] * B[One] + A[One] * B[v] - C[v]) * x[v]
      /\ \A v \in Variables :
            <<v, v>> \in R /\ g[<<v, v>>] = A[v] * B[v] * (x[v] * x[v])
      /\ \A v, w \in Variables : v < w =>
            <<v, w>> \in R /\ g[<<v, w>>] = (A[v] * B[w] + A[w] * B[v]) * (x[v] * x[w])
    BY <1>1, <1>2, <1>3, <1>4, <1>6
<1> QED BY <1>7 DEF g, R

\* The monomials that n adds, but its square.
Row(n) == MonomialsTo(n) \cup {<<n>>} \cup {<<v, n>> : v \in 0 .. n - 1}

(* The square completes the row. *)
LEMMA RowStep ==
    ASSUME NEW n \in Nat
    PROVE  MonomialsTo(n + 1) = Row(n) \cup {<<n, n>>} /\ <<n, n>> \notin Row(n)
<1> DEFINE M == MonomialsTo(n)
           L == MonomialsTo(n + 1)
<1>1. L = M \cup {<<n>>} \cup {<<v, n>> : v \in 0 .. n}
    BY MonomialsStep
<1>2. \A v \in 0 .. n : <<v, n>> \notin M \cup {<<n>>}
    BY MonomialsStep
<1>3. n \in 0 .. n /\ 0 .. n = (0 .. n - 1) \cup {n} /\ \A v \in 0 .. n - 1 : <<v, n>> # <<n, n>>
    OBVIOUS
<1> HIDE DEF L, M
<1>4. {<<v, n>> : v \in 0 .. n} = {<<v, n>> : v \in 0 .. n - 1} \cup {<<n, n>>}
    BY <1>3
<1>5. Row(n) = M \cup {<<n>>} \cup {<<v, n>> : v \in 0 .. n - 1}
    BY DEF Row, M
<1>6. <<n, n>> \notin M \cup {<<n>>} /\ <<n, n>> \notin {<<v, n>> : v \in 0 .. n - 1}
    BY <1>2, <1>3
<1>7. L = Row(n) \cup {<<n, n>>}
    BY <1>1, <1>4, <1>5
<1> QED BY <1>5, <1>6, <1>7 DEF L

(* The terms of one more variable n: its linear term, and its products with  *)
(* the variables below n.                                                    *)
LEMMA RawRow ==
    ASSUME circuit \in Circuits, NEW A, IsForm(A), NEW B, IsForm(B), NEW C, IsForm(C),
           NEW x \in [Variables -> Int], NEW n \in 0 .. One - 1, IsFiniteSet(MonomialsTo(n))
    PROVE  /\ IsFiniteSet(Row(n)) /\ Row(n) \subseteq MonomialsTo(One)
           /\ SumFunctionOnSet(RawTerms(A, B, C, x), Row(n))
                 = SumFunctionOnSet(RawTerms(A, B, C, x), MonomialsTo(n))
                     + (A[n] * B[One] + A[One] * B[n] - C[n]) * x[n]
                     + x[n] * (B[n] * FormTo(A, x, n) + A[n] * FormTo(B, x, n))
<1> DEFINE g == RawTerms(A, B, C, x)
           All == MonomialsTo(One)
           M == MonomialsTo(n)
           R(j) == M \cup {<<n>>} \cup {<<v, n>> : v \in 0 .. j - 1}
           lin == (A[n] * B[One] + A[One] * B[n] - C[n]) * x[n]
           Right(j) == /\ IsFiniteSet(R(j)) /\ R(j) \subseteq All
                       /\ SumFunctionOnSet(g, R(j))
                             = SumFunctionOnSet(g, M) + lin
                                 + x[n] * (B[n] * FormTo(A, x, j) + A[n] * FormTo(B, x, j))
           T == {j \in 0 .. n : Right(j)}
<1>0. One \in Nat /\ n \in Nat /\ n \in Variables /\ n <= One
    BY CircuitFacts DEF One, Variables
<1>01. /\ A[One] \in Int /\ B[One] \in Int /\ C[One] \in Int
       /\ \A v \in Variables : A[v] \in Int /\ B[v] \in Int /\ C[v] \in Int /\ x[v] \in Int
  <2>1. One \in 0 .. One /\ \A v \in Variables : v \in 0 .. One
    BY <1>0 DEF Variables
  <2>2. A[One] \in Int /\ B[One] \in Int /\ C[One] \in Int
    BY <2>1 DEF IsForm
  <2>3. \A v \in Variables : A[v] \in Int /\ B[v] \in Int /\ C[v] \in Int
    BY <2>1 DEF IsForm
  <2> QED BY <2>2, <2>3
<1>02. /\ IntOn(g, All)
       /\ \A v \in Variables :
             <<v>> \in All /\ g[<<v>>] = (A[v] * B[One] + A[One] * B[v] - C[v]) * x[v]
       /\ \A v, w \in Variables : v < w =>
             <<v, w>> \in All /\ g[<<v, w>>] = (A[v] * B[w] + A[w] * B[v]) * (x[v] * x[w])
    BY RawTermsAre
<1> HIDE DEF g
<1>03. M \subseteq All
  <2>1. 0 .. n - 1 \subseteq 0 .. One - 1
    BY <1>0
  <2> QED BY <2>1 DEF MonomialsTo
<1>04. <<n>> \notin M /\ \A v \in 0 .. n : <<v, n>> \notin M \cup {<<n>>}
    BY <1>0, MonomialsStep
<1> HIDE DEF All, M
<1>05. IsFiniteSet(M)
    BY DEF M
<1>06. \A S \in SUBSET All : IntOn(g, S)
    BY <1>02 DEF IntOn
<1>1. 0 \in T
  <2>1. R(0) = M \cup {<<n>>}
    OBVIOUS
  <2> DEFINE S == M \cup {<<n>>}
  <2>2. S \subseteq All /\ IsFiniteSet(S) /\ <<n>> \in S /\ S \ {<<n>>} = M
    BY <1>0, <1>02, <1>03, <1>04, <1>05, FS_AddElement
  <2> HIDE DEF S
  <2>3. SumFunctionOnSet(g, S) = g[<<n>>] + SumFunctionOnSet(g, M)
    BY <1>06, <2>2, SumRemove
  <2>4. g[<<n>>] = lin
    BY <1>0, <1>02
  <2>5. lin \in Int
    BY <1>0, <1>01
  <2>6. SumFunctionOnSet(g, M) \in Int
    BY <1>03, <1>05, <1>06, SumType
  <2>7. FormTo(A, x, 0) = 0 /\ FormTo(B, x, 0) = 0
    BY FormNone
  <2>8. x[n] * (B[n] * 0 + A[n] * 0) = 0
    BY <1>0, <1>01
  <2> HIDE DEF lin
  <2>9. SumFunctionOnSet(g, S)
          = SumFunctionOnSet(g, M) + lin
              + x[n] * (B[n] * FormTo(A, x, 0) + A[n] * FormTo(B, x, 0))
    BY <2>3, <2>4, <2>5, <2>6, <2>7, <2>8
  <2>10. Right(0)
    BY <2>1, <2>2, <2>9 DEF S
  <2>11. 0 \in 0 .. n
    BY <1>0
  <2> HIDE DEF Right
  <2> QED BY <2>10, <2>11
<1>2. ASSUME NEW j \in 0 .. n - 1, j \in T PROVE j + 1 \in T
  <2>1. R(j + 1) = R(j) \cup {<<j, n>>} /\ <<j, n>> \notin R(j)
    <3>1. 0 .. (j + 1) - 1 = (0 .. j - 1) \cup {j} /\ j \notin 0 .. j - 1 /\ j \in 0 .. n
        OBVIOUS
    <3>2. \A v \in 0 .. j - 1 : <<v, n>> # <<j, n>>
        BY <3>1
    <3> QED BY <1>04, <3>1, <3>2
  <2>2. Right(j)
    BY <1>2
  <2>3. j \in Variables /\ j < n /\ j \in 0 .. One - 1
    BY <1>0 DEF Variables
  <2> DEFINE S == R(j)
             L == R(j + 1)
  <2>4. L \subseteq All /\ IsFiniteSet(L) /\ <<j, n>> \in L /\ L \ {<<j, n>>} = S
    <3>1. <<j, n>> \in All
        BY <1>0, <1>02, <2>3
    <3>2. S \subseteq All /\ IsFiniteSet(S)
        BY <2>2
    <3>3. L = S \cup {<<j, n>>} /\ <<j, n>> \notin S
        BY <2>1
    <3> HIDE DEF S, L
    <3> QED BY <3>1, <3>2, <3>3, FS_AddElement
  <2>5. SumFunctionOnSet(g, S)
          = SumFunctionOnSet(g, M) + lin
              + x[n] * (B[n] * FormTo(A, x, j) + A[n] * FormTo(B, x, j))
    BY <2>2
  <2> HIDE DEF S, L
  <2>6. SumFunctionOnSet(g, L) = g[<<j, n>>] + SumFunctionOnSet(g, S)
    BY <1>06, <2>4, SumRemove
  <2>7. g[<<j, n>>] = (A[j] * B[n] + A[n] * B[j]) * (x[j] * x[n])
    BY <1>0, <1>02, <2>3
  <2>8. /\ FormTo(A, x, j) \in Int /\ FormTo(A, x, j + 1) = A[j] * x[j] + FormTo(A, x, j)
        /\ FormTo(B, x, j) \in Int /\ FormTo(B, x, j + 1) = B[j] * x[j] + FormTo(B, x, j)
    BY <2>3, FormStep
  <2>9. x[n] * (B[n] * (A[j] * x[j] + FormTo(A, x, j)) + A[n] * (B[j] * x[j] + FormTo(B, x, j)))
          = (A[j] * B[n] + A[n] * B[j]) * (x[j] * x[n])
              + x[n] * (B[n] * FormTo(A, x, j) + A[n] * FormTo(B, x, j))
    <3> DEFINE fa == FormTo(A, x, j)
               fb == FormTo(B, x, j)
               xn == x[n] xj == x[j] an == A[n] aj == A[j] bn == B[n] bj == B[j]
    <3>1. fa \in Int /\ fb \in Int /\ xn \in Int /\ xj \in Int /\ an \in Int /\ aj \in Int
          /\ bn \in Int /\ bj \in Int
        BY <1>0, <1>01, <2>3, <2>8
    <3> HIDE DEF fa, fb, xn, xj, an, aj, bn, bj
    <3>2. xn * (bn * (aj * xj + fa) + an * (bj * xj + fb))
            = (aj * bn + an * bj) * (xj * xn) + xn * (bn * fa + an * fb)
        BY <3>1
    <3> QED BY <3>2 DEF fa, fb, xn, xj, an, aj, bn, bj
  <2>10. /\ lin \in Int /\ SumFunctionOnSet(g, M) \in Int
         /\ (A[j] * B[n] + A[n] * B[j]) * (x[j] * x[n]) \in Int
         /\ x[n] * (B[n] * FormTo(A, x, j) + A[n] * FormTo(B, x, j)) \in Int
    <3>1. lin \in Int
        BY <1>0, <1>01
    <3>2. SumFunctionOnSet(g, M) \in Int
        BY <1>03, <1>05, <1>06, SumType
    <3>3. (A[j] * B[n] + A[n] * B[j]) * (x[j] * x[n]) \in Int
        BY <1>0, <1>01, <2>3
    <3>4. x[n] * (B[n] * FormTo(A, x, j) + A[n] * FormTo(B, x, j)) \in Int
        BY <1>0, <1>01, <2>3, <2>8
    <3> HIDE DEF lin
    <3> QED BY <3>1, <3>2, <3>3, <3>4
  <2> HIDE DEF lin
  <2>11. SumFunctionOnSet(g, L)
           = SumFunctionOnSet(g, M) + lin
               + x[n] * (B[n] * FormTo(A, x, j + 1) + A[n] * FormTo(B, x, j + 1))
    BY <2>5, <2>6, <2>7, <2>8, <2>9, <2>10
  <2>12. Right(j + 1)
    BY <2>4, <2>11 DEF L
  <2>13. j + 1 \in 0 .. n
    OBVIOUS
  <2> HIDE DEF Right
  <2> QED BY <2>12, <2>13
<1>3. n \in T
  <2>1. 0 .. n \subseteq T
    <3> HIDE DEF T
    <3> QED BY <1>0, <1>1, <1>2, IntervalInduction
  <2> HIDE DEF T
  <2> QED BY <1>0, <2>1
<1>4. Right(n)
    BY <1>3
<1>5. R(n) = Row(n)
    BY DEF Row, M
<1> QED BY <1>4, <1>5 DEF g, M, All

(* The raw terms sum up to A * B - C. *)
LEMMA ProductOfForms ==
    ASSUME circuit \in Circuits, NEW A, IsForm(A), NEW B, IsForm(B), NEW C, IsForm(C),
           NEW x \in [Variables -> Int]
    PROVE  /\ IsFiniteSet(MonomialsTo(One))
           /\ SumFunctionOnSet(RawTerms(A, B, C, x), MonomialsTo(One))
                 = (A[One] + FormTo(A, x, One)) * (B[One] + FormTo(B, x, One))
                     - (C[One] + FormTo(C, x, One))
<1> DEFINE g == RawTerms(A, B, C, x)
           All == MonomialsTo(One)
           F(Z, n) == Z[One] + FormTo(Z, x, n)
           Right(n) == /\ IsFiniteSet(MonomialsTo(n)) /\ MonomialsTo(n) \subseteq All
                       /\ F(A, n) \in Int /\ F(B, n) \in Int /\ F(C, n) \in Int
                       /\ SumFunctionOnSet(g, MonomialsTo(n)) = F(A, n) * F(B, n) - F(C, n)
           T == {n \in 0 .. One : Right(n)}
<1>0. One \in Nat
    BY CircuitFacts DEF One
<1>01. /\ A[One] \in Int /\ B[One] \in Int /\ C[One] \in Int
       /\ \A v \in Variables : A[v] \in Int /\ B[v] \in Int /\ C[v] \in Int /\ x[v] \in Int
  <2>1. One \in 0 .. One /\ \A v \in Variables : v \in 0 .. One
    BY <1>0 DEF Variables
  <2>2. A[One] \in Int /\ B[One] \in Int /\ C[One] \in Int
    BY <2>1 DEF IsForm
  <2>3. \A v \in Variables : A[v] \in Int /\ B[v] \in Int /\ C[v] \in Int
    BY <2>1 DEF IsForm
  <2> QED BY <2>2, <2>3
<1>02. /\ IntOn(g, All)
       /\ <<>> \in All /\ g[<<>>] = A[One] * B[One] - C[One]
       /\ \A v \in Variables : <<v, v>> \in All /\ g[<<v, v>>] = A[v] * B[v] * (x[v] * x[v])
    BY RawTermsAre
<1>1. 0 \in T
  <2>1. MonomialsTo(0) = {<<>>}
    <3>1. 0 .. 0 - 1 = {}
        OBVIOUS
    <3> QED BY <3>1 DEF MonomialsTo
  <2> HIDE DEF g
  <2>2. IntOn(g, {<<>>})
    BY <1>02 DEF IntOn
  <2>3. IsFiniteSet({<<>>}) /\ {<<>>} \ {<<>>} = {}
    BY FS_Singleton
  <2>4. SumFunctionOnSet(g, {<<>>}) = g[<<>>] + SumFunctionOnSet(g, {<<>>} \ {<<>>})
    BY <2>2, <2>3, SumRemove
  <2>5. SumFunctionOnSet(g, {<<>>} \ {<<>>}) = 0
    BY <2>3, SumEmpty
  <2>6. SumFunctionOnSet(g, {<<>>}) = A[One] * B[One] - C[One]
    BY <1>01, <1>02, <2>4, <2>5
  <2>7. F(A, 0) = A[One] /\ F(B, 0) = B[One] /\ F(C, 0) = C[One]
    BY <1>01, FormNone
  <2>8. Right(0)
    BY <1>01, <1>02, <2>1, <2>3, <2>6, <2>7
  <2>9. 0 \in 0 .. One
    BY <1>0
  <2> HIDE DEF Right
  <2> QED BY <2>8, <2>9
<1>2. ASSUME NEW n \in 0 .. One - 1, n \in T PROVE n + 1 \in T
  <2>1. Right(n)
    BY <1>2
  <2>2. n \in Nat /\ n \in Variables /\ n <= One
    BY <1>0 DEF Variables
  <2> DEFINE M == MonomialsTo(n)
             R == Row(n)
             L == MonomialsTo(n + 1)
             lin == (A[n] * B[One] + A[One] * B[n] - C[n]) * x[n]
             cross == x[n] * (B[n] * FormTo(A, x, n) + A[n] * FormTo(B, x, n))
             square == A[n] * B[n] * (x[n] * x[n])
  <2>3. /\ IsFiniteSet(R) /\ R \subseteq All
        /\ SumFunctionOnSet(g, R) = SumFunctionOnSet(g, M) + lin + cross
    <3>1. IsFiniteSet(M)
        BY <2>1
    <3> QED BY <3>1, RawRow
  <2>4. L = R \cup {<<n, n>>} /\ <<n, n>> \notin R
    BY <2>2, RowStep
  <2> HIDE DEF g, L, M, R
  <2>5. L \subseteq All /\ IsFiniteSet(L) /\ <<n, n>> \in L /\ L \ {<<n, n>>} = R
    BY <1>02, <2>2, <2>3, <2>4, FS_AddElement
  <2>6. IntOn(g, L)
    BY <1>02, <2>5 DEF IntOn
  <2>7. SumFunctionOnSet(g, L) = g[<<n, n>>] + SumFunctionOnSet(g, R)
    BY <2>5, <2>6, SumRemove
  <2>8. g[<<n, n>>] = square
    BY <1>02, <2>2
  <2>9. SumFunctionOnSet(g, M) = F(A, n) * F(B, n) - F(C, n)
    BY <2>1 DEF M
  <2>10. /\ FormTo(A, x, n) \in Int /\ FormTo(A, x, n + 1) = A[n] * x[n] + FormTo(A, x, n)
         /\ FormTo(B, x, n) \in Int /\ FormTo(B, x, n + 1) = B[n] * x[n] + FormTo(B, x, n)
         /\ FormTo(C, x, n) \in Int /\ FormTo(C, x, n + 1) = C[n] * x[n] + FormTo(C, x, n)
    BY FormStep
  <2>11. SumFunctionOnSet(g, L) = F(A, n + 1) * F(B, n + 1) - F(C, n + 1)
    <3> DEFINE fa == FormTo(A, x, n)
               fb == FormTo(B, x, n)
               fc == FormTo(C, x, n)
               xn == x[n] an == A[n] bn == B[n] cn == C[n] a == A[One] b == B[One] c == C[One]
    <3>1. fa \in Int /\ fb \in Int /\ fc \in Int /\ xn \in Int /\ an \in Int /\ bn \in Int
          /\ cn \in Int /\ a \in Int /\ b \in Int /\ c \in Int
        BY <1>01, <2>2, <2>10
    <3>2. SumFunctionOnSet(g, L)
            = square + ((a + fa) * (b + fb) - (c + fc) + lin + cross)
        BY <2>3, <2>7, <2>8, <2>9
    <3>3. lin = (an * b + a * bn - cn) * xn /\ cross = xn * (bn * fa + an * fb)
          /\ square = an * bn * (xn * xn)
        OBVIOUS
    <3>4. F(A, n + 1) = a + (an * xn + fa) /\ F(B, n + 1) = b + (bn * xn + fb)
          /\ F(C, n + 1) = c + (cn * xn + fc)
        BY <2>10
    <3> HIDE DEF fa, fb, fc, xn, an, bn, cn, a, b, c, lin, cross, square, F
    <3>5. an * bn * (xn * xn) + ((a + fa) * (b + fb) - (c + fc) + (an * b + a * bn - cn) * xn
            + xn * (bn * fa + an * fb))
          = (a + (an * xn + fa)) * (b + (bn * xn + fb)) - (c + (cn * xn + fc))
        BY <3>1
    <3> QED BY <3>2, <3>3, <3>4, <3>5
  <2>12. F(A, n + 1) \in Int /\ F(B, n + 1) \in Int /\ F(C, n + 1) \in Int
    BY <1>01, <2>2, <2>10
  <2> HIDE DEF F
  <2>13. Right(n + 1)
    BY <2>5, <2>11, <2>12 DEF L
  <2>14. n + 1 \in 0 .. One
    BY <1>0
  <2> HIDE DEF Right
  <2> QED BY <2>13, <2>14
<1>3. One \in T
  <2>1. 0 .. One \subseteq T
    <3> HIDE DEF T
    <3> QED BY <1>0, <1>1, <1>2, IntervalInduction
  <2> HIDE DEF T
  <2> QED BY <1>0, <2>1
<1>4. Right(One)
    BY <1>3
<1> QED BY <1>4 DEF g

-------------------------------------------------------------------------------
(* Lowering keeps the values. *)

\* A block of a constraint: coefficients of wires.
IsBlock(block) == DOMAIN block \subseteq Wires /\ block \in [DOMAIN block -> Nat]

\* Where a wire goes in a linear form.
Place(w, alt) == IF w = 0 THEN One ELSE Var(w, alt)

(* Wires go to different places. *)
LEMMA PlacesDiffer ==
    ASSUME circuit \in Circuits, NEW alt \in BOOLEAN, NEW w \in Wires
    PROVE  /\ Place(w, alt) \in 0 .. One
           /\ w = 0 <=> Place(w, alt) = One
           /\ w # 0 => Place(w, alt) \in Variables /\ Wire(Place(w, alt)) = w
<1>1. Var(w, alt) \in 0 .. One - 1 /\ Wire(Var(w, alt)) = w
    BY WireOfVar
<1>2. One \in Nat
    BY CircuitFacts DEF One
<1> QED BY <1>1, <1>2 DEF Place, Variables

(* The coefficients of a linear form. *)
LEMMA FormIs ==
    ASSUME circuit \in Circuits, NEW alt \in BOOLEAN, NEW block, IsBlock(block)
    PROVE  /\ LinearForm(block, alt) \in [0 .. One -> 0 .. P - 1]
           /\ \A w \in DOMAIN block : LinearForm(block, alt)[Place(w, alt)] = block[w] % P
           /\ \A v \in 0 .. One :
                 (\A w \in DOMAIN block : Place(w, alt) # v) => LinearForm(block, alt)[v] = 0
<1> DEFINE ws(v) == {w \in DOMAIN block : v = IF w = 0 THEN One ELSE Var(w, alt)}
           c(v) == IF ws(v) = {} THEN 0 ELSE block[CHOOSE w \in ws(v) : TRUE] % P
           A == LinearForm(block, alt)
<1>0. P \in Nat \ {0} /\ \A w \in DOMAIN block : w \in Wires /\ block[w] \in Nat
    BY CircuitFacts DEF IsBlock
<1>01. \A w \in DOMAIN block : block[w] % P \in 0 .. P - 1
    BY <1>0
<1>1. A = [v \in 0 .. One |-> c(v)]
    BY DEF LinearForm
<1>2. ASSUME NEW v \in 0 .. One PROVE c(v) \in 0 .. P - 1
  <2>1. CASE ws(v) = {}
    <3>1. c(v) = 0 /\ 0 \in 0 .. P - 1
        BY <1>0, <2>1
    <3> HIDE DEF c
    <3> QED BY <3>1
  <2>2. CASE ws(v) # {}
    <3> DEFINE w == CHOOSE w \in ws(v) : TRUE
    <3>1. w \in ws(v)
        BY <2>2
    <3>2. w \in DOMAIN block
        BY <3>1
    <3>3. c(v) = block[w] % P
        BY <2>2
    <3> HIDE DEF w, c
    <3> QED BY <1>01, <3>2, <3>3
  <2> QED BY <2>1, <2>2
<1>3. ASSUME NEW w \in DOMAIN block PROVE A[Place(w, alt)] = block[w] % P
  <2> DEFINE v == Place(w, alt)
  <2>1. v \in 0 .. One
    BY <1>0, PlacesDiffer
  <2>2. \A u \in DOMAIN block : Place(u, alt) = v => u = w
    BY <1>0, PlacesDiffer
  <2>3. ws(v) = {w}
    <3>1. w \in ws(v)
        BY DEF Place
    <3>2. \A u \in ws(v) : Place(u, alt) = v
        BY DEF Place
    <3>3. \A u \in ws(v) : u = w
        BY <2>2, <3>2
    <3> HIDE DEF v, ws
    <3> QED BY <3>1, <3>3
  <2>4. c(v) = block[w] % P
    <3> HIDE DEF v, ws
    <3> QED BY <2>3
  <2> HIDE DEF c, A, v
  <2>5. A[v] = block[w] % P
    BY <1>1, <2>1, <2>4
  <2> QED BY <2>5 DEF v
<1>4. ASSUME NEW v \in 0 .. One, \A w \in DOMAIN block : Place(w, alt) # v PROVE A[v] = 0
  <2>1. ws(v) = {}
    BY <1>4 DEF Place
  <2> HIDE DEF ws
  <2> QED BY <1>1, <2>1
<1>5. A \in [0 .. One -> 0 .. P - 1]
  <2> HIDE DEF c, A
  <2> QED BY <1>1, <1>2
<1> QED BY <1>3, <1>4, <1>5

\* The values of the variables under an assignment to the wires.
Spread(a) == [v \in Variables |-> a[Wire(v)]]

(* The value of a linear form is that of its block. *)
LEMMA FormAt ==
    ASSUME circuit \in Circuits, NEW alt \in BOOLEAN, NEW block, IsBlock(block),
           NEW a \in Assignments(circuit)
    PROVE  LET A == LinearForm(block, alt)
               f == [w \in DOMAIN block |-> block[w] * a[w]]
               s == SumFunctionOnSet(f, DOMAIN block)
           IN  /\ s \in Int /\ A[One] + FormTo(A, Spread(a), One) \in Int
               /\ Cong(s, A[One] + FormTo(A, Spread(a), One), P)
<1> DEFINE A == LinearForm(block, alt)
           x == Spread(a)
           S == DOMAIN block
           R == 0 .. One
           f == [w \in S |-> block[w] * a[w]]
           g0 == [v \in Variables |-> A[v] * x[v]]
           g == [v \in R |-> IF v = One THEN A[One] ELSE A[v] * x[v]]
           h == [w \in S |-> Place(w, alt)]
<1>0. /\ One \in Nat /\ P \in Nat \ {0} /\ P \in Int /\ S \subseteq Wires /\ IsFiniteSet(Wires)
      /\ \A w \in S : block[w] \in Nat
    BY CircuitFacts DEF One, IsBlock
<1>1. a[0] = 1 /\ \A w \in Wires : a[w] \in Int
    BY <1>0, AssignmentsAre DEF GF
<1>2. /\ \A v \in R : A[v] \in Int
      /\ \A w \in S : A[Place(w, alt)] = block[w] % P
      /\ \A v \in R : (\A w \in S : Place(w, alt) # v) => A[v] = 0
  <2>1. /\ A \in [0 .. One -> 0 .. P - 1]
        /\ \A w \in DOMAIN block : A[Place(w, alt)] = block[w] % P
        /\ \A v \in 0 .. One :
                 (\A w \in DOMAIN block : Place(w, alt) # v) => A[v] = 0
    BY FormIs
  <2>2. \A v \in R : A[v] \in 0 .. P - 1
    BY <2>1
  <2> HIDE DEF A
  <2> QED BY <2>1, <2>2
<1> HIDE DEF A
<1>3. \A v \in Variables : v \in R /\ v # One /\ x[v] = a[Wire(v)] /\ x[v] \in Int
    BY <1>0, <1>1, VariableWire DEF Spread, Variables
<1>4. \A v \in R : v # One => v \in Variables
    BY <1>0 DEF Variables
<1> HIDE DEF x
<1>5. IsFiniteSet(S) /\ IsFiniteSet(R) /\ IsFiniteSet(Variables)
  <2>1. IsFiniteSet(S)
    BY <1>0, FS_Subset
  <2>2. 0 \in Int /\ One \in Int /\ One - 1 \in Int
    BY <1>0
  <2> QED BY <2>1, <2>2, FS_Interval DEF Variables
<1>6. IntOn(f, S)
  <2>1. ASSUME NEW w \in S PROVE f[w] \in Int
    BY <1>0, <1>1
  <2> QED BY <2>1 DEF IntOn
<1>7. \A v \in R : A[v] \in Int /\ (v # One => A[v] * x[v] \in Int)
    BY <1>2, <1>3, <1>4
<1>8. IntOn(g, R) /\ IntOn(g0, Variables)
  <2>1. ASSUME NEW v \in R PROVE g[v] \in Int
    BY <1>0, <1>7
  <2>2. ASSUME NEW v \in Variables PROVE g0[v] \in Int
    BY <1>3, <1>7
  <2> QED BY <2>1, <2>2 DEF IntOn
<1>9. \A w \in S : f[w] = block[w] * a[w] /\ h[w] = Place(w, alt)
    OBVIOUS
<1>10. g[One] = A[One] /\ \A v \in Variables : g[v] = A[v] * x[v] /\ g[v] = g0[v]
    BY <1>0, <1>3
<1> HIDE DEF f, g, g0, h
<1>11. Pairs(h, f, S, g, R, P)
  <2>1. ASSUME NEW w \in S PROVE h[w] \in R /\ Cong(f[w], g[h[w]], P)
    <3> DEFINE r == block[w] % P
    <3>1. w \in Wires /\ block[w] \in Int /\ a[w] \in Int
        BY <1>0, <1>1
    <3>2. h[w] \in R
        BY <1>9, <3>1, PlacesDiffer
    <3>3. Cong(block[w], r, P) /\ r \in 0 .. (P - 1)
        BY <1>0, <3>1, CongResidue
    <3>4. A[h[w]] = r
        BY <1>2, <1>9
    <3>5. g[h[w]] = r * a[w]
        <4>1. CASE w = 0
            <5>1. h[w] = One
                BY <1>9, <3>1, <4>1, PlacesDiffer
            <5>2. r * 1 = r
                BY <3>3
            <5> HIDE DEF r
            <5> QED BY <1>1, <1>10, <3>4, <4>1, <5>1, <5>2
        <4>2. CASE w # 0
            <5>1. h[w] \in Variables /\ Wire(h[w]) = w
                BY <1>9, <3>1, <4>2, PlacesDiffer
            <5> HIDE DEF r
            <5> QED BY <1>3, <1>10, <3>4, <5>1
        <4> QED BY <4>1, <4>2
    <3> HIDE DEF r
    <3>6. Cong(block[w] * a[w], r * a[w], P)
        <4>1. r \in Int
            BY <3>3
        <4> QED BY <1>0, <3>1, <3>3, <4>1, CongTimes
    <3> QED BY <1>9, <3>2, <3>5, <3>6
  <2>2. ASSUME NEW w \in S, NEW u \in S, h[w] = h[u] PROVE w = u
    <3>1. Place(w, alt) = Place(u, alt) /\ w \in Wires /\ u \in Wires
        BY <1>0, <1>9, <2>2
    <3> QED BY <3>1, PlacesDiffer
  <2>3. ASSUME NEW v \in R, \A w \in S : h[w] # v PROVE Cong(g[v], 0, P)
    <3>1. A[v] = 0
        BY <1>2, <1>9, <2>3
    <3>2. g[v] = 0
        <4>1. CASE v = One
            BY <1>10, <3>1, <4>1
        <4>2. CASE v # One
            <5>1. v \in Variables /\ x[v] \in Int
                BY <1>3, <1>4, <4>2
            <5> QED BY <1>10, <3>1, <5>1
        <4> QED BY <4>1, <4>2
    <3> QED BY <1>0, <3>2, CongSame
  <2> QED BY <2>1, <2>2, <2>3 DEF Pairs
<1>12. Cong(SumFunctionOnSet(f, S), SumFunctionOnSet(g, R), P)
    BY <1>0, <1>5, <1>6, <1>8, <1>11, SumPaired
<1>13. SumFunctionOnSet(g, R) = g[One] + SumFunctionOnSet(g, Variables)
  <2>1. One \in R /\ R \ {One} = Variables
    BY <1>0 DEF Variables
  <2> QED BY <1>5, <1>8, <2>1, SumRemove
<1>14. SumFunctionOnSet(g, Variables) = SumFunctionOnSet(g0, Variables)
  <2>1. IntOn(g, Variables)
    BY <1>3, <1>8 DEF IntOn
  <2>2. \A v \in Variables : g[v] = 1 * g0[v]
    BY <1>8, <1>10 DEF IntOn
  <2>3. SumFunctionOnSet(g, Variables) = 1 * SumFunctionOnSet(g0, Variables)
    BY <1>5, <1>8, <2>2, SumScaled
  <2>4. SumFunctionOnSet(g0, Variables) \in Int
    BY <1>5, <1>8, SumType
  <2> QED BY <2>3, <2>4
<1>15. FormTo(A, x, One) = SumFunctionOnSet(g0, Variables)
    BY DEF FormTo, g0, Variables
<1>16. /\ SumFunctionOnSet(f, S) \in Int /\ SumFunctionOnSet(g, R) \in Int
       /\ SumFunctionOnSet(g, R) = A[One] + FormTo(A, x, One)
    BY <1>5, <1>6, <1>8, <1>10, <1>13, <1>14, <1>15, SumType
<1> QED BY <1>12, <1>16 DEF A, x, f

\* A constraint of the circuit at hand.
IsConstraint(k) == IsBlock(k.a) /\ IsBlock(k.b) /\ IsBlock(k.c)

(* The constraints of a circuit are. *)
LEMMA ConstraintsAre ==
    ASSUME circuit \in Circuits
    PROVE  /\ circuit.r1cs \in Seq(Range(circuit.r1cs))
           /\ \A k \in Range(circuit.r1cs) : IsConstraint(k)
<1>1. /\ circuit.r1cs \in Seq(Range(circuit.r1cs))
      /\ \A k \in Range(circuit.r1cs) : \A block \in {k.a, k.b, k.c} :
            DOMAIN block \subseteq Wires /\ block \in [DOMAIN block -> Nat]
    BY PropagationAssumption DEF Wires, NWires
<1> QED BY <1>1 DEF IsConstraint, IsBlock

\* A * B - C of a constraint in one copy, with the coefficients of its terms.
RawPoly(k, alt) ==
    [m \in MonomialsTo(One) |->
        RawAt(m, LinearForm(k.a, alt), LinearForm(k.b, alt), LinearForm(k.c, alt))]

\* q keeps the coefficients of R that are not multiples of P.
Reduced(q, R) ==
    /\ q = [m \in DOMAIN q |-> q[m]]
    /\ DOMAIN q \subseteq DOMAIN R
    /\ \A m \in DOMAIN q : q[m] = R[m] % P /\ q[m] # 0
    /\ \A m \in DOMAIN R \ DOMAIN q : R[m] % P = 0

(* What the lowering of a constraint computes. *)
LEMMA ConstraintIs ==
    ASSUME circuit \in Circuits, NEW alt \in BOOLEAN, NEW k, IsConstraint(k)
    PROVE  Reduced(ConstraintPoly(k, alt), RawPoly(k, alt))
<1> DEFINE A == LinearForm(k.a, alt)
           B == LinearForm(k.b, alt)
           C == LinearForm(k.c, alt)
           used == {v \in 0 .. One - 1 : A[v] + B[v] + C[v] > 0}
           constant == << <<>>, A[One] * B[One] - C[One] >>
           linear == {<< <<v>>, A[v] * B[One] + A[One] * B[v] - C[v] >> : v \in used}
           squares == {<< <<v, v>>, A[v] * B[v] >> : v \in used}
           products == {<< <<v, w>>, A[v] * B[w] + A[w] * B[v] >> :
                           v \in used, w \in used}
           ascending == {t \in products : t[1][1] < t[1][2]}
           terms == {constant} \cup linear \cup squares \cup ascending
           f == [m \in {t[1] : t \in terms} |-> (CHOOSE t \in terms : t[1] = m)[2] % P]
           R == RawPoly(k, alt)
           Raw(m) == RawAt(m, A, B, C)
<1>0. /\ P \in Nat \ {0} /\ One \in Nat /\ 0 .. One - 1 = Variables
      /\ DOMAIN R = MonomialsTo(One) /\ \A m \in DOMAIN R : R[m] = Raw(m)
    BY CircuitFacts DEF One, Variables, RawPoly
<1>1. ConstraintPoly(k, alt) = NonZero(f)
    BY DEF ConstraintPoly
<1>2. /\ A[One] \in Nat /\ B[One] \in Nat /\ C[One] \in Nat
      /\ \A v \in Variables : A[v] \in Nat /\ B[v] \in Nat /\ C[v] \in Nat
  <2>1. /\ A \in [0 .. One -> 0 .. P - 1] /\ B \in [0 .. One -> 0 .. P - 1]
        /\ C \in [0 .. One -> 0 .. P - 1]
    BY FormIs DEF IsConstraint
  <2>2. One \in 0 .. One /\ (\A v \in Variables : v \in 0 .. One) /\ 0 .. P - 1 \subseteq Nat
    BY <1>0 DEF Variables
  <2> HIDE DEF A, B, C
  <2> QED BY <2>1, <2>2
<1> HIDE DEF A, B, C, R
<1>3. \A v \in Variables \ used : A[v] = 0 /\ B[v] = 0 /\ C[v] = 0
  <2>1. ASSUME NEW v \in Variables, ~(A[v] + B[v] + C[v] > 0)
        PROVE  A[v] = 0 /\ B[v] = 0 /\ C[v] = 0
    BY <1>2, <2>1
  <2> QED BY <1>0, <2>1
<1>4. used \subseteq Variables
    BY <1>0
<1> HIDE DEF used
<1>51. ASSUME NEW v \in Variables
       PROVE  Raw(<<v>>) = A[v] * B[One] + A[One] * B[v] - C[v]
  <2>1. <<v>> # <<>> /\ Len(<<v>>) = 1 /\ <<v>>[1] = v
    OBVIOUS
  <2> QED BY <2>1 DEF RawAt
<1>52. ASSUME NEW v \in Variables PROVE Raw(<<v, v>>) = A[v] * B[v]
  <2>1. <<v, v>> # <<>> /\ Len(<<v, v>>) = 2 /\ <<v, v>>[1] = v /\ <<v, v>>[2] = v
    OBVIOUS
  <2> QED BY <2>1 DEF RawAt
<1>53. ASSUME NEW v \in Variables, NEW w \in Variables, v # w
       PROVE  Raw(<<v, w>>) = A[v] * B[w] + A[w] * B[v]
  <2>1. <<v, w>> # <<>> /\ Len(<<v, w>>) = 2 /\ <<v, w>>[1] = v /\ <<v, w>>[2] = w
    OBVIOUS
  <2> QED BY <1>53, <2>1 DEF RawAt
<1>6. ASSUME NEW t \in terms PROVE t[1] \in MonomialsTo(One) /\ t[2] = Raw(t[1])
  <2>1. CASE t = constant
    <3>1. t[1] = <<>> /\ t[2] = A[One] * B[One] - C[One]
        BY <2>1
    <3>2. Raw(<<>>) = A[One] * B[One] - C[One]
        BY DEF RawAt
    <3> HIDE DEF Raw
    <3> QED BY <3>1, <3>2 DEF MonomialsTo
  <2>2. ASSUME NEW v \in used, t = << <<v>>, A[v] * B[One] + A[One] * B[v] - C[v] >>
        PROVE  t[1] \in MonomialsTo(One) /\ t[2] = Raw(t[1])
    <3>1. t[1] = <<v>> /\ t[2] = A[v] * B[One] + A[One] * B[v] - C[v] /\ v \in Variables
        BY <1>4, <2>2
    <3>2. <<v>> \in MonomialsTo(One)
        BY <3>1 DEF MonomialsTo, Variables
    <3> HIDE DEF Raw
    <3> QED BY <1>51, <3>1, <3>2
  <2>3. ASSUME NEW v \in used, t = << <<v, v>>, A[v] * B[v] >>
        PROVE  t[1] \in MonomialsTo(One) /\ t[2] = Raw(t[1])
    <3>1. t[1] = <<v, v>> /\ t[2] = A[v] * B[v] /\ v \in Variables /\ <<v, v>>[1] = v
          /\ <<v, v>>[2] = v
        BY <1>4, <2>3
    <3>2. <<v, v>> \in MonomialsTo(One)
        BY <3>1 DEF MonomialsTo, Variables
    <3> HIDE DEF Raw
    <3> QED BY <1>52, <3>1, <3>2
  <2>4. ASSUME NEW v \in used, NEW w \in used,
               t = << <<v, w>>, A[v] * B[w] + A[w] * B[v] >>, t[1][1] < t[1][2]
        PROVE  t[1] \in MonomialsTo(One) /\ t[2] = Raw(t[1])
    <3>1. /\ t[1] = <<v, w>> /\ t[2] = A[v] * B[w] + A[w] * B[v] /\ v \in Variables
          /\ w \in Variables /\ <<v, w>>[1] = v /\ <<v, w>>[2] = w /\ v < w
        BY <1>4, <2>4
    <3>2. <<v, w>> \in MonomialsTo(One) /\ v # w
        BY <3>1 DEF MonomialsTo, Variables
    <3> HIDE DEF Raw
    <3> QED BY <1>53, <3>1, <3>2
  <2>5. \/ t = constant
        \/ \E v \in used : t = << <<v>>, A[v] * B[One] + A[One] * B[v] - C[v] >>
        \/ \E v \in used : t = << <<v, v>>, A[v] * B[v] >>
        \/ (\E v, w \in used : t = << <<v, w>>, A[v] * B[w] + A[w] * B[v] >>) /\ t[1][1] < t[1][2]
    BY <1>6
  <2> HIDE DEF Raw, constant, linear, squares, ascending
  <2> QED BY <2>1, <2>2, <2>3, <2>4, <2>5
<1>7. ASSUME NEW m \in DOMAIN f PROVE m \in MonomialsTo(One) /\ f[m] = Raw(m) % P
  <2> HIDE DEF terms, Raw
  <2>1. PICK t \in terms : t[1] = m
    OBVIOUS
  <2> DEFINE u == CHOOSE s \in terms : s[1] = m
  <2>2. u \in terms /\ u[1] = m
    BY <2>1
  <2>3. f[m] = u[2] % P
    OBVIOUS
  <2> HIDE DEF u, f
  <2> QED BY <1>6, <2>2, <2>3
<1>8. ASSUME NEW m \in MonomialsTo(One), m \notin DOMAIN f PROVE Raw(m) = 0
  <2>1. CASE m = <<>>
    <3>1. constant \in terms /\ constant[1] = <<>>
        OBVIOUS
    <3> HIDE DEF constant, terms
    <3> QED BY <1>8, <2>1, <3>1
  <2>2. ASSUME NEW v \in Variables, m = <<v>> PROVE Raw(m) = 0
    <3>1. v \notin used
        <4>1. ASSUME v \in used PROVE FALSE
            <5> DEFINE t == << <<v>>, A[v] * B[One] + A[One] * B[v] - C[v] >>
            <5>1. t \in terms /\ t[1] = m
                BY <2>2, <4>1
            <5> HIDE DEF t, terms
            <5> QED BY <1>8, <5>1
        <4> QED BY <4>1
    <3>2. A[v] = 0 /\ B[v] = 0 /\ C[v] = 0
        BY <1>3, <3>1
    <3>3. 0 * B[One] + A[One] * 0 - 0 = 0
        BY <1>2
    <3> HIDE DEF Raw
    <3> QED BY <1>51, <2>2, <3>2, <3>3
  <2>3. ASSUME NEW v \in Variables, m = <<v, v>> PROVE Raw(m) = 0
    <3>1. v \notin used
        <4>1. ASSUME v \in used PROVE FALSE
            <5> DEFINE t == << <<v, v>>, A[v] * B[v] >>
            <5>1. t \in terms /\ t[1] = m
                BY <2>3, <4>1
            <5> HIDE DEF t, terms
            <5> QED BY <1>8, <5>1
        <4> QED BY <4>1
    <3>2. A[v] = 0 /\ B[v] = 0
        BY <1>3, <3>1
    <3> HIDE DEF Raw
    <3> QED BY <1>52, <2>3, <3>2
  <2>4. ASSUME NEW v \in Variables, NEW w \in Variables, v < w, m = <<v, w>> PROVE Raw(m) = 0
    <3>1. v \notin used \/ w \notin used
        <4>1. ASSUME v \in used, w \in used PROVE FALSE
            <5> DEFINE t == << <<v, w>>, A[v] * B[w] + A[w] * B[v] >>
            <5>1. t[1] = m /\ t[1][1] = v /\ t[1][2] = w
                BY <2>4
            <5>2. t \in products
                BY <4>1
            <5>3. t \in ascending
                <6> HIDE DEF products, t
                <6> QED BY <2>4, <5>1, <5>2
            <5>4. t \in terms
                <6> HIDE DEF ascending, t
                <6> QED BY <5>3
            <5> HIDE DEF t, terms
            <5> QED BY <1>8, <5>1, <5>4
        <4> QED BY <4>1
    <3>2. A[v] * B[w] + A[w] * B[v] = 0
        <4>1. CASE v \notin used
            <5>1. A[v] = 0 /\ B[v] = 0
                BY <1>3, <4>1
            <5> QED BY <1>2, <5>1
        <4>2. CASE w \notin used
            <5>1. A[w] = 0 /\ B[w] = 0
                BY <1>3, <4>2
            <5> QED BY <1>2, <5>1
        <4> QED BY <3>1, <4>1, <4>2
    <3>3. v # w
        BY <2>4 DEF Variables
    <3> HIDE DEF Raw
    <3> QED BY <1>53, <2>4, <3>2, <3>3
  <2>5. \/ m = <<>> \/ \E v \in Variables : m = <<v>>
        \/ \E v, w \in Variables : m = <<v, w>> /\ v <= w
    <3>1. ASSUME NEW t \in {<<v, w>> : v \in Variables, w \in Variables}, t[1] <= t[2]
          PROVE  \E v, w \in Variables : t = <<v, w>> /\ v <= w
        BY <3>1
    <3> QED BY <1>0, <3>1 DEF MonomialsTo
  <2>6. \A v, w \in Variables : v <= w => v < w \/ v = w
    BY DEF Variables
  <2> HIDE DEF f, Raw
  <2> QED BY <2>1, <2>2, <2>3, <2>4, <2>5, <2>6
<1> HIDE DEF f, Raw
<1> DEFINE q == NonZero(f)
<1>9. DOMAIN q = {m \in DOMAIN f : f[m] # 0} /\ \A m \in DOMAIN q : q[m] = f[m]
    BY DEF NonZero, Restrict
<1>91. q = [m \in DOMAIN q |-> q[m]]
    BY DEF NonZero, Restrict
<1> HIDE DEF q
<1>10. 0 % P = 0
    BY <1>0
<1>11. DOMAIN q \subseteq DOMAIN R
    BY <1>0, <1>7, <1>9
<1>12. \A m \in DOMAIN q : q[m] = R[m] % P /\ q[m] # 0
    BY <1>0, <1>7, <1>9
<1>13. ASSUME NEW m \in DOMAIN R, m \notin DOMAIN q PROVE R[m] % P = 0
  <2>1. CASE m \in DOMAIN f
    BY <1>0, <1>7, <1>9, <1>13, <2>1
  <2>2. CASE m \notin DOMAIN f
    BY <1>0, <1>8, <1>10, <2>2
  <2> QED BY <2>1, <2>2
<1>14. Reduced(q, R)
    BY <1>91, <1>11, <1>12, <1>13 DEF Reduced
<1> QED BY <1>1, <1>14 DEF q, R

(* An assignment gives every wire an integer. *)
LEMMA AssignmentsValued ==
    ASSUME circuit \in Circuits, NEW a \in Assignments(circuit)
    PROVE  Valued(a) /\ Spread(a) \in [Variables -> Int] /\ a[0] = 1
<1>1. a \in [Wires -> GF] /\ a[0] = 1
    BY AssignmentsAre
<1>2. \A w \in Wires : a[w] \in Int
    BY <1>1 DEF GF
<1>3. \A v \in Variables : Wire(v) \in Wires
    BY VariableWire
<1> QED BY <1>1, <1>2, <1>3 DEF Valued, Spread

(* The monomials of a product of linear forms. *)
LEMMA MonomialsToForms ==
    ASSUME NEW m \in MonomialsTo(One)
    PROVE  m = <<>> \/ (\E v \in Variables : m = <<v>>) \/ (\E v, w \in Variables : m = <<v, w>>)
<1>1. ASSUME NEW t \in {<<v, w>> : v \in Variables, w \in Variables}
      PROVE  \E v, w \in Variables : t = <<v, w>>
    BY <1>1
<1>2. \/ m = <<>> \/ m \in {<<v>> : v \in Variables}
      \/ m \in {<<v, w>> : v \in Variables, w \in Variables}
    BY DEF MonomialsTo, Variables
<1> QED BY <1>1, <1>2

(* The two ways to evaluate a monomial. *)
LEMMA ValuesAgree ==
    ASSUME circuit \in Circuits, NEW a, Valued(a), NEW m \in MonomialsTo(One)
    PROVE  m \in Monomials /\ MonomialAt(m, a) = ValueAt(m, Spread(a)) /\ MonomialAt(m, a) \in Int
<1>0. 0 .. One - 1 = Variables /\ \A v \in Variables : Spread(a)[v] = a[Wire(v)]
    BY DEF Variables, Spread
<1>1. CASE m = <<>>
  <2>1. <<>> \in Monomials /\ MonomialAt(<<>>, a) = 1 /\ ValueAt(<<>>, Spread(a)) = 1
    BY ConstantAt, FormsAreMonomials DEF ValueAt
  <2> QED BY <1>1, <2>1
<1>2. ASSUME NEW v \in Variables, m = <<v>>
      PROVE  m \in Monomials /\ MonomialAt(m, a) = ValueAt(m, Spread(a)) /\ MonomialAt(m, a) \in Int
  <2>1. m \in Monomials /\ MonomialAt(m, a) = a[Wire(v)] /\ a[Wire(v)] \in Int
    BY <1>2, VariableAt, FormsAreMonomials
  <2>2. m # <<>> /\ Len(m) = 1 /\ m[1] = v
    BY <1>2
  <2>3. ValueAt(m, Spread(a)) = a[Wire(v)]
    BY <1>0, <2>2 DEF ValueAt
  <2> QED BY <2>1, <2>3
<1>3. ASSUME NEW v \in Variables, NEW w \in Variables, m = <<v, w>>
      PROVE  m \in Monomials /\ MonomialAt(m, a) = ValueAt(m, Spread(a)) /\ MonomialAt(m, a) \in Int
  <2>1. m \in Monomials /\ MonomialAt(m, a) = a[Wire(v)] * a[Wire(w)]
    BY <1>3, ProductAt, FormsAreMonomials
  <2>2. m # <<>> /\ Len(m) = 2 /\ m[1] = v /\ m[2] = w
    BY <1>3
  <2>3. ValueAt(m, Spread(a)) = a[Wire(v)] * a[Wire(w)]
    BY <1>0, <2>2 DEF ValueAt
  <2> QED BY <2>1, <2>3, MonomialValue
<1>4. m = <<>> \/ (\E v \in Variables : m = <<v>>) \/ (\E v, w \in Variables : m = <<v, w>>)
    BY MonomialsToForms
<1> QED BY <1>1, <1>2, <1>3, <1>4

(* A lowered constraint is a polynomial, and its value is zero exactly when  *)
(* the constraint holds.                                                     *)
LEMMA ConstraintAt ==
    ASSUME circuit \in Circuits, NEW alt \in BOOLEAN, NEW k, IsConstraint(k)
    PROVE  /\ IsPoly(ConstraintPoly(k, alt))
           /\ \A a \in Assignments(circuit) :
                 PolyAt(ConstraintPoly(k, alt), a) = 0 <=> Holds(k, a, P)
<1> DEFINE A == LinearForm(k.a, alt)
           B == LinearForm(k.b, alt)
           C == LinearForm(k.c, alt)
           q == ConstraintPoly(k, alt)
           All == MonomialsTo(One)
           Raw(m) == RawAt(m, A, B, C)
<1>0. P \in Nat \ {0} /\ P \in Int /\ 0 \in 0 .. (P - 1)
    BY CircuitFacts
<1>1. /\ DOMAIN q \subseteq All
      /\ \A m \in DOMAIN q : q[m] = Raw(m) % P /\ q[m] # 0
      /\ \A m \in All \ DOMAIN q : Raw(m) % P = 0
  <2>1. Reduced(q, RawPoly(k, alt))
    BY ConstraintIs
  <2>2. DOMAIN RawPoly(k, alt) = All /\ \A m \in All : RawPoly(k, alt)[m] = Raw(m)
    BY DEF RawPoly
  <2> HIDE DEF q, Raw, All
  <2> QED BY <2>1, <2>2 DEF Reduced
<1>2. IsForm(A) /\ IsForm(B) /\ IsForm(C)
  <2>1. /\ A \in [0 .. One -> 0 .. P - 1] /\ B \in [0 .. One -> 0 .. P - 1]
        /\ C \in [0 .. One -> 0 .. P - 1]
    BY FormIs DEF IsConstraint
  <2>2. 0 .. P - 1 \subseteq Int
    OBVIOUS
  <2> HIDE DEF A, B, C
  <2> QED BY <2>1, <2>2 DEF IsForm
<1>3. \A m \in All : Raw(m) \in Int
  <2>1. ASSUME NEW m \in All PROVE Raw(m) \in Int
    <3>0. One \in Nat /\ One \in 0 .. One /\ \A v \in Variables : v \in 0 .. One
        <4>1. One \in Nat
            BY CircuitFacts DEF One
        <4> QED BY <4>1 DEF Variables
    <3> HIDE DEF A, B, C
    <3>1. A[One] \in Int /\ B[One] \in Int /\ C[One] \in Int
        BY <1>2, <3>0 DEF IsForm
    <3>2. \A v \in Variables : A[v] \in Int /\ B[v] \in Int /\ C[v] \in Int
        BY <1>2, <3>0 DEF IsForm
    <3>3. m = <<>> \/ (\E v \in Variables : m = <<v>>) \/ (\E v, w \in Variables : m = <<v, w>>)
        BY MonomialsToForms
    <3>4. CASE m = <<>>
        BY <3>1, <3>4 DEF RawAt
    <3>5. ASSUME NEW v \in Variables, m = <<v>> PROVE Raw(m) \in Int
        <4>1. m # <<>> /\ Len(m) = 1 /\ m[1] = v
            BY <3>5
        <4> QED BY <3>1, <3>2, <4>1 DEF RawAt
    <3>6. ASSUME NEW v \in Variables, NEW w \in Variables, m = <<v, w>> PROVE Raw(m) \in Int
        <4>1. m # <<>> /\ Len(m) = 2 /\ m[1] = v /\ m[2] = w
            BY <3>6
        <4> QED BY <3>2, <4>1 DEF RawAt
    <3> HIDE DEF Raw
    <3> QED BY <3>3, <3>4, <3>5, <3>6
  <2> QED BY <2>1
<1>31. \A m \in All : Raw(m) % P \in 0 .. P - 1 /\ Cong(Raw(m), Raw(m) % P, P)
  <2> HIDE DEF Raw
  <2> QED BY <1>0, <1>3, CongResidue
<1>4. IsFiniteSet(All)
  <2>1. [v \in Variables |-> 0] \in [Variables -> Int]
    OBVIOUS
  <2> QED BY <1>2, <2>1, ProductOfForms
<1>5. IsPoly(q)
  <2>1. IsFiniteSet(DOMAIN q)
    BY <1>1, <1>4, FS_Subset
  <2>2. DOMAIN q \subseteq Monomials
    <3>1. All \subseteq Monomials
        <4>1. \A m \in All : m = <<>> \/ (\E v \in Variables : m = <<v>>)
                    \/ (\E v, w \in Variables : m = <<v, w>>)
            BY MonomialsToForms
        <4> QED BY <4>1, FormsAreMonomials
    <3> QED BY <1>1, <3>1
  <2>3. \A m \in DOMAIN q : q[m] \in 1 .. P - 1
    <3> HIDE DEF q, Raw, All
    <3>1. \A m \in DOMAIN q : q[m] \in 0 .. P - 1 /\ q[m] # 0
        BY <1>1, <1>31
    <3> QED BY <1>0, <3>1
  <2>4. q = [m \in DOMAIN q |-> q[m]]
    <3>1. Reduced(q, RawPoly(k, alt))
        BY ConstraintIs
    <3> HIDE DEF q
    <3> QED BY <3>1 DEF Reduced
  <2> HIDE DEF q
  <2> QED BY <2>1, <2>2, <2>3, <2>4 DEF IsPoly
<1>6. ASSUME NEW a \in Assignments(circuit) PROVE PolyAt(q, a) = 0 <=> Holds(k, a, P)
  <2> DEFINE x == Spread(a)
             f == TermsAt(q, a)
             g == RawTerms(A, B, C, x)
             h == [m \in DOMAIN q |-> m]
             fa == A[One] + FormTo(A, x, One)
             fb == B[One] + FormTo(B, x, One)
             fc == C[One] + FormTo(C, x, One)
  <2>0. Valued(a) /\ x \in [Variables -> Int]
    BY AssignmentsValued
  <2>1. /\ IntOn(f, DOMAIN q)
        /\ PolyAt(q, a) = 0 <=> Cong(SumFunctionOnSet(f, DOMAIN q), 0, P)
    BY <1>5, <2>0, TermsAre
  <2>2. IntOn(g, All)
    BY <1>2, <2>0, RawTermsAre
  <2>3. SumFunctionOnSet(g, All) = fa * fb - fc
    BY <1>2, <2>0, ProductOfForms
  <2>4. \A m \in All : MonomialAt(m, a) = ValueAt(m, x) /\ MonomialAt(m, a) \in Int
    BY <2>0, ValuesAgree
  <2>5. \A m \in All : g[m] = Raw(m) * MonomialAt(m, a)
    <3>1. \A m \in All : g[m] = Raw(m) * ValueAt(m, x)
        BY DEF RawTerms
    <3> HIDE DEF g, Raw, All, x
    <3> QED BY <2>4, <3>1
  <2>6. \A m \in DOMAIN q : f[m] = q[m] * MonomialAt(m, a) /\ h[m] = m
    BY DEF TermsAt
  <2> HIDE DEF f, g, h, q, Raw, All
  <2>7. Pairs(h, f, DOMAIN q, g, All, P)
    <3>1. ASSUME NEW m \in DOMAIN q PROVE h[m] \in All /\ Cong(f[m], g[h[m]], P)
        <4> DEFINE y == MonomialAt(m, a)
                   c == Raw(m)
                   r == q[m]
        <4>1. m \in All /\ y \in Int /\ c \in Int /\ r \in Int /\ Cong(c, r, P)
            <5>1. m \in All
                BY <1>1
            <5>2. Cong(c, c % P, P) /\ c % P \in 0 .. P - 1 /\ r = c % P
                BY <1>1, <1>31, <5>1
            <5> QED BY <1>3, <2>4, <5>1, <5>2
        <4>2. f[m] = r * y /\ g[h[m]] = c * y
            BY <2>5, <2>6, <4>1
        <4> HIDE DEF y, c, r
        <4>3. Cong(r, c, P)
            BY <1>0, <4>1, CongSwap
        <4>4. Cong(r * y, c * y, P)
            BY <1>0, <4>1, <4>3, CongTimes
        <4> QED BY <2>6, <4>1, <4>2, <4>4
    <3>2. \A m, n \in DOMAIN q : h[m] = h[n] => m = n
        BY <2>6
    <3>3. ASSUME NEW z \in All, \A m \in DOMAIN q : h[m] # z PROVE Cong(g[z], 0, P)
        <4> DEFINE y == MonomialAt(z, a)
                   c == Raw(z)
        <4>1. z \notin DOMAIN q
            BY <2>6, <3>3
        <4>2. c \in Int /\ y \in Int /\ c % P = 0 /\ g[z] = c * y
            BY <1>1, <1>3, <2>4, <2>5, <4>1
        <4> HIDE DEF y, c
        <4>3. Cong(c, 0, P)
            BY <1>0, <4>2, ResidueIs
        <4>4. 0 \in Int /\ 0 * y = 0
            BY <4>2
        <4>5. Cong(c * y, 0 * y, P)
            BY <1>0, <4>2, <4>3, <4>4, CongTimes
        <4> QED BY <4>2, <4>4, <4>5
    <3> QED BY <3>1, <3>2, <3>3 DEF Pairs
  <2>8. IsFiniteSet(DOMAIN q)
    BY <1>5 DEF IsPoly
  <2>9. Cong(SumFunctionOnSet(f, DOMAIN q), SumFunctionOnSet(g, All), P)
    BY <1>0, <1>4, <2>1, <2>2, <2>7, <2>8, SumPaired
  <2> DEFINE sa == SumFunctionOnSet([w \in DOMAIN k.a |-> k.a[w] * a[w]], DOMAIN k.a)
             sb == SumFunctionOnSet([w \in DOMAIN k.b |-> k.b[w] * a[w]], DOMAIN k.b)
             sc == SumFunctionOnSet([w \in DOMAIN k.c |-> k.c[w] * a[w]], DOMAIN k.c)
             s == SumFunctionOnSet(f, DOMAIN q)
  <2>10. sa \in Int /\ fa \in Int /\ Cong(sa, fa, P)
    BY FormAt DEF IsConstraint
  <2>11. sb \in Int /\ fb \in Int /\ Cong(sb, fb, P)
    BY FormAt DEF IsConstraint
  <2>12. sc \in Int /\ fc \in Int /\ Cong(sc, fc, P)
    BY FormAt DEF IsConstraint
  <2>13. Holds(k, a, P) <=> ((sa % P) * (sb % P)) % P = sc % P
    BY DEF Holds, LinearAt
  <2>14. s \in Int
    BY <2>1, <2>8, SumType
  <2> HIDE DEF sa, sb, sc, fa, fb, fc, s
  <2> DEFINE ra == sa % P
             rb == sb % P
             rc == sc % P
  <2>15. /\ Cong(sa, ra, P) /\ ra \in Int /\ Cong(sb, rb, P) /\ rb \in Int
         /\ Cong(sc, rc, P) /\ rc \in Int /\ rc \in 0 .. (P - 1)
    <3>1. Cong(sa, sa % P, P) /\ sa % P \in 0 .. (P - 1)
        BY <1>0, <2>10, CongResidue
    <3>2. Cong(sb, sb % P, P) /\ sb % P \in 0 .. (P - 1)
        BY <1>0, <2>11, CongResidue
    <3>3. Cong(sc, sc % P, P) /\ sc % P \in 0 .. (P - 1)
        BY <1>0, <2>12, CongResidue
    <3> QED BY <3>1, <3>2, <3>3
  <2> HIDE DEF ra, rb, rc
  <2>16. Cong(ra, fa, P) /\ Cong(rb, fb, P) /\ Cong(rc, fc, P)
    <3>1. Cong(ra, sa, P) /\ Cong(rb, sb, P) /\ Cong(rc, sc, P)
        BY <1>0, <2>10, <2>11, <2>12, <2>15, CongSwap
    <3>2. Cong(ra, fa, P)
        BY <1>0, <2>10, <2>15, <3>1, CongTrans
    <3>3. Cong(rb, fb, P)
        BY <1>0, <2>11, <2>15, <3>1, CongTrans
    <3>4. Cong(rc, fc, P)
        BY <1>0, <2>12, <2>15, <3>1, CongTrans
    <3> QED BY <3>2, <3>3, <3>4
  <2> DEFINE rr == ra * rb
             ff == fa * fb
  <2>17. rr \in Int /\ ff \in Int /\ Cong(rr, ff, P) /\ Cong(ff, rr, P)
    <3>1. rr \in Int /\ ff \in Int
        BY <2>10, <2>11, <2>15
    <3>2. Cong(rr, ff, P)
        BY <1>0, <2>10, <2>11, <2>15, <2>16, CongProduct
    <3> HIDE DEF rr, ff
    <3> QED BY <1>0, <3>1, <3>2, CongSwap
  <2>18. Holds(k, a, P) <=> rr % P = rc
    BY <2>13 DEF ra, rb, rc
  <2> HIDE DEF rr, ff
  <2>19. rr % P = rc <=> Cong(rr, rc, P)
    BY <1>0, <2>15, <2>17, ResidueIs
  <2>20. Cong(rr, rc, P) <=> Cong(ff, fc, P)
    <3>1. Cong(fc, rc, P)
        BY <1>0, <2>12, <2>15, <2>16, CongSwap
    <3>2. ASSUME Cong(rr, rc, P) PROVE Cong(ff, fc, P)
        <4>1. Cong(ff, rc, P)
            BY <1>0, <2>15, <2>17, <3>2, CongTrans
        <4> QED BY <1>0, <2>12, <2>15, <2>16, <2>17, <4>1, CongTrans
    <3>3. ASSUME Cong(ff, fc, P) PROVE Cong(rr, rc, P)
        <4>1. Cong(rr, fc, P)
            BY <1>0, <2>12, <2>17, <3>3, CongTrans
        <4> QED BY <1>0, <2>12, <2>15, <2>17, <3>1, <4>1, CongTrans
    <3> QED BY <3>2, <3>3
  <2>21. Cong(ff, fc, P) <=> Cong(ff - fc, 0, P)
    BY <1>0, <2>12, <2>17, CongLess
  <2>22. Cong(s, ff - fc, P)
    BY <2>3, <2>9 DEF s, ff
  <2>23. Cong(s, 0, P) <=> Cong(ff - fc, 0, P)
    <3>1. ff - fc \in Int /\ 0 \in Int
        BY <2>12, <2>17
    <3>2. Cong(ff - fc, s, P)
        BY <1>0, <2>14, <2>22, <3>1, CongSwap
    <3> QED BY <1>0, <2>14, <2>22, <3>1, <3>2, CongTrans
  <2> QED BY <2>1, <2>18, <2>19, <2>20, <2>21, <2>23 DEF s
<1> QED BY <1>5, <1>6

-------------------------------------------------------------------------------
(* Lowering is exact. *)

(* A sum of two terms. *)
LEMMA SumOfTwo ==
    ASSUME NEW x, NEW y, x # y, NEW f, f[x] \in Int, f[y] \in Int
    PROVE  SumFunctionOnSet(f, {x, y}) = f[x] + f[y]
<1> DEFINE S == {x, y}
           R == {y}
<1>1. IsFiniteSet(S) /\ IsFiniteSet(R)
  <2>1. IsFiniteSet({y})
    BY FS_Singleton
  <2>2. IsFiniteSet({y} \cup {x})
    BY <2>1, FS_AddElement
  <2>3. {y} \cup {x} = {x, y}
    OBVIOUS
  <2> QED BY <2>1, <2>2, <2>3
<1>2. IntOn(f, S) /\ IntOn(f, R)
    BY DEF IntOn
<1>3. S \ {x} = R /\ R \ {y} = {} /\ x \in S /\ y \in R
    OBVIOUS
<1> HIDE DEF S, R
<1>4. SumFunctionOnSet(f, S) = f[x] + SumFunctionOnSet(f, R)
    BY <1>1, <1>2, <1>3, SumRemove
<1>5. SumFunctionOnSet(f, R) = f[y] + SumFunctionOnSet(f, {})
    BY <1>1, <1>2, <1>3, SumRemove
<1>6. SumFunctionOnSet(f, {}) = 0
    BY SumEmpty
<1> QED BY <1>4, <1>5, <1>6 DEF S

(* A polynomial of two terms. *)
LEMMA TwoTerms ==
    ASSUME circuit \in Circuits, NEW q, IsPoly(q), NEW a, Valued(a),
           NEW m, NEW n, m # n, DOMAIN q = {m, n}
    PROVE  /\ MonomialAt(m, a) \in Int /\ MonomialAt(n, a) \in Int
           /\ q[m] \in 1 .. P - 1 /\ q[n] \in 1 .. P - 1
           /\ PolyAt(q, a) = 0 <=> Cong(q[m] * MonomialAt(m, a) + q[n] * MonomialAt(n, a), 0, P)
<1> DEFINE f == TermsAt(q, a)
<1>1. m \in Monomials /\ n \in Monomials /\ q[m] \in 1 .. P - 1 /\ q[n] \in 1 .. P - 1
    BY DEF IsPoly
<1>2. MonomialAt(m, a) \in Int /\ MonomialAt(n, a) \in Int
    BY <1>1, MonomialValue
<1>3. f[m] = q[m] * MonomialAt(m, a) /\ f[n] = q[n] * MonomialAt(n, a)
    BY DEF TermsAt
<1>4. PolyAt(q, a) = 0 <=> Cong(SumFunctionOnSet(f, DOMAIN q), 0, P)
    BY TermsAre
<1> HIDE DEF f
<1>5. f[m] \in Int /\ f[n] \in Int
    BY <1>1, <1>2, <1>3
<1>6. SumFunctionOnSet(f, {m, n}) = f[m] + f[n]
    BY <1>5, SumOfTwo
<1> QED BY <1>1, <1>2, <1>3, <1>4, <1>6

(* The pin of the one-wire. *)
LEMMA PinAt ==
    ASSUME circuit \in Circuits
    PROVE  IsPoly(OnePin) /\ \A a \in Assignments(circuit) : PolyAt(OnePin, a) = 0
<1>0. P \in Nat \ {0, 1} /\ P \in Int /\ 0 \in Variables /\ Wire(0) = 0
    BY CircuitFacts DEF Variables, One, Wire
<1>1. DOMAIN OnePin = {<<0>>, <<>>} /\ OnePin[<<0>>] = 1 /\ OnePin[<<>>] = P - 1
      /\ OnePin = [m \in DOMAIN OnePin |-> OnePin[m]]
    BY DEF OnePin
<1> DEFINE x == <<0>>
           y == <<>>
<1>2. x # y /\ x \in Monomials /\ y \in Monomials
    BY <1>0, FormsAreMonomials
<1>3. IsPoly(OnePin)
  <2>1. IsFiniteSet(DOMAIN OnePin)
    <3>1. IsFiniteSet({x, y})
        <4>1. IsFiniteSet({x})
            BY FS_Singleton
        <4>2. IsFiniteSet({x} \cup {y})
            BY <4>1, FS_AddElement
        <4>3. {x} \cup {y} = {x, y}
            OBVIOUS
        <4> QED BY <4>2, <4>3
    <3> QED BY <1>1, <3>1
  <2> DEFINE pin == OnePin
  <2>2. 1 \in 1 .. P - 1 /\ P - 1 \in 1 .. P - 1
    BY <1>0
  <2>3. \A m \in DOMAIN pin : pin[m] \in 1 .. P - 1
    BY <1>1, <2>2
  <2>4. DOMAIN pin \subseteq Monomials
    BY <1>1, <1>2
  <2>5. pin = [m \in DOMAIN pin |-> pin[m]] /\ IsFiniteSet(DOMAIN pin)
    BY <1>1, <2>1
  <2> HIDE DEF pin
  <2>6. IsPoly(pin)
    BY <2>3, <2>4, <2>5 DEF IsPoly
  <2> QED BY <2>6 DEF pin
<1>4. ASSUME NEW a \in Assignments(circuit) PROVE PolyAt(OnePin, a) = 0
  <2>1. Valued(a) /\ a[0] = 1
    BY AssignmentsValued
  <2>2. MonomialAt(x, a) = 1 /\ MonomialAt(y, a) = 1
    BY <1>0, <2>1, ConstantAt, VariableAt
  <2>3. DOMAIN OnePin = {x, y}
    BY <1>1
  <2> HIDE DEF x, y
  <2>4. PolyAt(OnePin, a) = 0 <=> Cong(OnePin[x] * MonomialAt(x, a) + OnePin[y] * MonomialAt(y, a), 0, P)
    BY <1>2, <1>3, <2>1, <2>3, TwoTerms
  <2>5. OnePin[x] * MonomialAt(x, a) + OnePin[y] * MonomialAt(y, a) = P
    BY <1>0, <1>1, <2>2 DEF x, y
  <2>6. Cong(P, 0, P)
    <3>1. 1 \in Int /\ P - 0 = 1 * P
        BY <1>0
    <3> QED BY <3>1, CongShown
  <2> QED BY <2>4, <2>5, <2>6
<1> QED BY <1>3, <1>4

(* A polynomial without terms is zero. *)
LEMMA NothingAt ==
    ASSUME circuit \in Circuits, NEW q, DOMAIN q = {}, NEW a
    PROVE  PolyAt(q, a) = 0
<1> DEFINE f == [m \in DOMAIN q |-> q[m] * MonomialAt(m, a)]
<1>1. PolyAt(q, a) = SumFunctionOnSet(f, {}) % P
    BY DEF PolyAt
<1>2. SumFunctionOnSet(f, {}) = 0
    BY SumEmpty
<1>3. 0 % P = 0
    BY CircuitFacts
<1> QED BY <1>1, <1>2, <1>3

(* The polynomials of one copy. *)
LEMMA CopyRange ==
    ASSUME circuit \in Circuits, NEW alt \in BOOLEAN
    PROVE  LET s == CopyOf(circuit.r1cs, alt)
           IN  /\ s \in Seq(Range(s))
               /\ \A q : q \in Range(s) <=>
                     \E i \in DOMAIN circuit.r1cs :
                        q = ConstraintPoly(circuit.r1cs[i], alt) /\ DOMAIN q # {}
<1> DEFINE r1cs == circuit.r1cs
           polys == [i \in DOMAIN r1cs |-> ConstraintPoly(r1cs[i], alt)]
           S == {q \in Range(polys) : DOMAIN q # {}}
           s == CopyOf(circuit.r1cs, alt)
<1>1. IsIR(s)
    BY CopyIR
<1>2. s = Selected(polys, S)
    BY DEF CopyOf
<1>3. polys \in Seq(Range(polys))
  <2>0. r1cs \in Seq(Range(r1cs))
    BY ConstraintsAre
  <2> HIDE DEF r1cs
  <2>1. DOMAIN r1cs = 1 .. Len(r1cs) /\ Len(r1cs) \in Nat
    BY <2>0
  <2>2. polys = [k \in 1 .. Len(r1cs) |-> polys[k]]
    BY <2>1
  <2> HIDE DEF polys
  <2> QED BY <2>1, <2>2, ListSeq
<1>4. Range(s) = Range(polys) \cap S
  <2> HIDE DEF polys, S
  <2> QED BY <1>2, <1>3, SelectedRange
<1>5. \A q : q \in Range(polys) <=> \E i \in DOMAIN r1cs : q = ConstraintPoly(r1cs[i], alt)
    BY DEF Range
<1> HIDE DEF polys, s
<1> QED BY <1>1, <1>4, <1>5 DEF IsIR, s

(* The polynomials of the lowered circuit. *)
LEMMA LoweredRange ==
    ASSUME circuit \in Circuits, NEW q
    PROVE  q \in Range(LoweredIR(circuit.r1cs)) <=>
              \/ q = OnePin
              \/ \E i \in DOMAIN circuit.r1cs, alt \in BOOLEAN :
                    q = ConstraintPoly(circuit.r1cs[i], alt) /\ DOMAIN q # {}
<1> DEFINE s == CopyOf(circuit.r1cs, FALSE)
           t == CopyOf(circuit.r1cs, TRUE)
           u == <<OnePin>>
           T == Range(s) \cup Range(t) \cup {OnePin}
<1>1. s \in Seq(Range(s)) /\ t \in Seq(Range(t))
    BY CopyRange
<1>2. Range(u) = {OnePin} /\ u \in Seq({OnePin})
    BY DEF Range
<1>3. LoweredIR(circuit.r1cs) = (s \o t) \o u
    BY DEF LoweredIR
<1>4. q \in Range(s) <=> \E i \in DOMAIN circuit.r1cs :
                        q = ConstraintPoly(circuit.r1cs[i], FALSE) /\ DOMAIN q # {}
    BY CopyRange
<1>5. q \in Range(t) <=> \E i \in DOMAIN circuit.r1cs :
                        q = ConstraintPoly(circuit.r1cs[i], TRUE) /\ DOMAIN q # {}
    BY CopyRange
<1> HIDE DEF s, t, u
<1>6. s \in Seq(T) /\ t \in Seq(T) /\ u \in Seq(T)
    BY <1>1, <1>2
<1> HIDE DEF T
<1>7. s \o t \in Seq(T) /\ Range(s \o t) = Range(s) \cup Range(t)
    BY <1>6, ConcatRange
<1> DEFINE v == s \o t
<1> HIDE DEF v
<1>71. v \in Seq(T)
    BY <1>7 DEF v
<1>8. Range(v \o u) = Range(v) \cup Range(u)
    BY <1>6, <1>71, ConcatRange
<1>9. q \in Range(LoweredIR(circuit.r1cs)) <=> q \in Range(s) \/ q \in Range(t) \/ q = OnePin
    BY <1>2, <1>3, <1>7, <1>8 DEF v
<1> QED BY <1>4, <1>5, <1>9

(* Its polynomials vanish on the solutions, and name variables of one copy. *)
LEMMA LoweredSound ==
    ASSUME circuit \in Circuits, NEW q \in Range(LoweredIR(circuit.r1cs))
    PROVE  /\ IsPoly(q) /\ \E alt \in BOOLEAN : VarsOf(q) \subseteq Copy(alt)
           /\ \A a \in SolutionsOf(circuit) : PolyAt(q, a) = 0
<1>1. CASE q = OnePin
  <2>1. VarsOf(OnePin) \subseteq Copy(FALSE)
    <3>1. VarsOf(OnePin) \subseteq {0}
        <4>1. Range(<<0>>) = {0} /\ Range(<<>>) = {}
            BY DEF Range
        <4>2. DOMAIN OnePin = {<<0>>, <<>>}
            BY DEF OnePin
        <4> QED BY <4>1, <4>2 DEF VarsOf
    <3>2. 0 \in Wires /\ Var(0, FALSE) = 0
        BY CircuitFacts DEF Var
    <3> QED BY <3>1, <3>2 DEF Copy
  <2> QED BY <1>1, <2>1, PinAt DEF SolutionsOf
<1>2. ASSUME NEW i \in DOMAIN circuit.r1cs, NEW alt \in BOOLEAN,
             q = ConstraintPoly(circuit.r1cs[i], alt)
      PROVE  /\ IsPoly(q) /\ \E alt2 \in BOOLEAN : VarsOf(q) \subseteq Copy(alt2)
             /\ \A a \in SolutionsOf(circuit) : PolyAt(q, a) = 0
  <2> DEFINE k == circuit.r1cs[i]
  <2>1. IsConstraint(k)
    BY ConstraintsAre DEF Range
  <2>2. \A a \in SolutionsOf(circuit) : a \in Assignments(circuit) /\ Holds(k, a, P)
    BY DEF SolutionsOf, P
  <2> HIDE DEF k
  <2>3. IsPoly(ConstraintPoly(k, alt))
        /\ \A a \in Assignments(circuit) : PolyAt(ConstraintPoly(k, alt), a) = 0 <=> Holds(k, a, P)
    BY <2>1, ConstraintAt
  <2>4. VarsOf(ConstraintPoly(k, alt)) \subseteq Copy(alt)
    BY <2>1, CircuitFacts, ConstraintCopy DEF IsConstraint, IsBlock
  <2> QED BY <1>2, <2>2, <2>3, <2>4 DEF k
<1> QED BY <1>1, <1>2, LoweredRange

(* The polynomials of either copy vanish on the solutions only. *)
LEMMA LoweredExact ==
    ASSUME circuit \in Circuits, NEW alt \in BOOLEAN, NEW a \in Assignments(circuit),
           \A q \in Range(LoweredIR(circuit.r1cs)) :
              VarsOf(q) \subseteq Copy(alt) => PolyAt(q, a) = 0
    PROVE  a \in SolutionsOf(circuit)
<1>1. ASSUME NEW i \in DOMAIN circuit.r1cs PROVE Holds(circuit.r1cs[i], a, P)
  <2> DEFINE k == circuit.r1cs[i]
             q == ConstraintPoly(k, alt)
  <2>1. IsConstraint(k)
    BY ConstraintsAre DEF Range
  <2>2. DOMAIN q # {} => q \in Range(LoweredIR(circuit.r1cs))
    BY LoweredRange
  <2> HIDE DEF k
  <2>3. PolyAt(q, a) = 0 <=> Holds(k, a, P)
    BY <2>1, ConstraintAt
  <2>4. VarsOf(q) \subseteq Copy(alt)
    BY <2>1, CircuitFacts, ConstraintCopy DEF IsConstraint, IsBlock
  <2> HIDE DEF q
  <2>5. PolyAt(q, a) = 0
    BY <2>2, <2>4, NothingAt
  <2> QED BY <2>3, <2>5 DEF k
<1> QED BY <1>1 DEF SolutionsOf, P

-------------------------------------------------------------------------------
(* What the inputs determine. *)

\* The circuit and its solutions.
Given == circuit \in Circuits /\ solutions = SolutionsOf(circuit)

SameInputs(a, b) == \A i \in Inputs : a[i] = b[i]

Determined(w) == \A a, b \in solutions : SameInputs(a, b) => a[w] = b[w]

(* A solution is an assignment. *)
LEMMA SolutionsAre ==
    ASSUME Given, NEW a \in solutions
    PROVE  /\ circuit \in Circuits /\ a \in Assignments(circuit)
           /\ a \in [Wires -> GF] /\ a[0] = 1 /\ Valued(a)
<1>1. circuit \in Circuits /\ a \in Assignments(circuit)
    BY DEF Given, SolutionsOf
<1>2. a \in [Wires -> GF] /\ a[0] = 1 /\ Valued(a)
    BY <1>1, AssignmentsAre, AssignmentsValued
<1> QED BY <1>1, <1>2

(* There are finitely many. *)
LEMMA FinitelyMany ==
    ASSUME Given
    PROVE  IsFiniteSet(solutions)
<1> DEFINE S == [Wires -> GF]
           T == SUBSET (Wires \X GF)
           f == [a \in S |-> {<<w, a[w]>> : w \in Wires}]
<1>1. IsFiniteSet(T)
  <2>1. IsFiniteSet(Wires)
    BY CircuitFacts DEF Given
  <2>2. IsFiniteSet(GF)
    <3>1. 0 \in Int /\ P - 1 \in Int
        BY CircuitFacts DEF Given
    <3> QED BY <3>1, FS_Interval DEF GF
  <2>3. IsFiniteSet(Wires \X GF)
    BY <2>1, <2>2, FS_Product
  <2> QED BY <2>3, FS_SUBSET
<1>2. f \in Injection(S, T)
  <2>1. f \in [S -> T]
    <3>1. ASSUME NEW a \in S PROVE {<<w, a[w]>> : w \in Wires} \in T
        OBVIOUS
    <3> HIDE DEF S, T
    <3> QED BY <3>1
  <2>2. ASSUME NEW a \in S, NEW b \in S, f[a] = f[b] PROVE a = b
    <3>0. f[a] = {<<w, a[w]>> : w \in Wires} /\ f[b] = {<<w, b[w]>> : w \in Wires}
        OBVIOUS
    <3>1. ASSUME NEW w \in Wires PROVE a[w] = b[w]
        <4>1. <<w, a[w]>> \in {<<v, b[v]>> : v \in Wires}
            BY <2>2, <3>0
        <4>2. PICK v \in Wires : <<w, a[w]>> = <<v, b[v]>>
            BY <4>1
        <4> QED BY <4>2
    <3> QED BY <3>1
  <2> HIDE DEF f, S, T
  <2> QED BY <2>1, <2>2 DEF Injection, IsInjective
<1>3. IsFiniteSet(S)
  <2> HIDE DEF f, S, T
  <2> QED BY <1>1, <1>2, FS_Injection
<1>4. solutions \subseteq S
    BY SolutionsAre
<1> QED BY <1>3, <1>4, FS_Subset

(* Restricted to the inputs. *)
LEMMA InputsRestrict ==
    ASSUME Given, NEW a \in solutions, NEW b \in solutions
    PROVE  Restrict(a, Inputs) = Restrict(b, Inputs) <=> SameInputs(a, b)
<1>0. DOMAIN a = Wires /\ DOMAIN b = Wires /\ Inputs \subseteq Wires
    BY SolutionsAre, CircuitFacts DEF Given
<1>1. Restrict(a, Inputs) = [i \in Inputs |-> a[i]]
    BY DEF Restrict
<1>2. Restrict(b, Inputs) = [i \in Inputs |-> b[i]]
    BY DEF Restrict
<1> QED BY <1>1, <1>2 DEF SameInputs

(* Unique counts what Determined compares. *)
LEMMA UniqueIs ==
    ASSUME Given, NEW w
    PROVE  Unique(w) <=> Determined(w)
<1> DEFINE f == [a \in solutions |-> Restrict(a, Inputs)]
           g == [a \in solutions |-> <<f[a], a[w]>>]
           S == {g[a] : a \in solutions}
           R == {f[a] : a \in solutions}
           pi == [s \in S |-> s[1]]
<1>1. Unique(w) <=> Cardinality(S) = Cardinality(R)
  <2>1. S = {<<Restrict(a, Inputs), a[w]>> : a \in solutions}
    OBVIOUS
  <2>2. R = {Restrict(a, Inputs) : a \in solutions}
    OBVIOUS
  <2> QED BY <2>1, <2>2 DEF Unique
<1>2. \A a, b \in solutions : f[a] = f[b] <=> SameInputs(a, b)
    BY InputsRestrict
<1>3. \A a \in solutions : g[a] = <<f[a], a[w]>>
    OBVIOUS
<1> HIDE DEF f
<1>4. IsFiniteSet(S)
  <2>1. g \in Surjection(solutions, S)
    <3>1. g = [a \in solutions |-> g[a]]
        OBVIOUS
    <3> HIDE DEF g
    <3> QED BY <3>1 DEF Surjection
  <2> HIDE DEF g, S
  <2> QED BY <2>1, FinitelyMany, FS_Surjection
<1>5. \A a \in solutions : g[a] \in S /\ f[a] \in R /\ pi[g[a]] = f[a]
    BY <1>3
<1>6. \A s \in S : \E a \in solutions : s = g[a]
    OBVIOUS
<1>7. \A r \in R : \E a \in solutions : r = f[a]
    OBVIOUS
<1>8. pi \in Surjection(S, R)
  <2>1. pi = [s \in S |-> pi[s]]
    OBVIOUS
  <2> HIDE DEF g, pi, S, R
  <2>2. \A s \in S : pi[s] \in R
    BY <1>5, <1>6
  <2>3. \A r \in R : \E s \in S : pi[s] = r
    BY <1>5, <1>7
  <2> QED BY <2>1, <2>2, <2>3 DEF Surjection
<1>9. Cardinality(R) = Cardinality(S) <=> pi \in Injection(S, R)
  <2> HIDE DEF pi, S, R
  <2> QED BY <1>4, <1>8, FS_Surjection
<1>10. pi \in Injection(S, R) <=> \A a, b \in solutions : f[a] = f[b] => g[a] = g[b]
  <2>1. pi \in [S -> R]
    <3> HIDE DEF pi, S, R
    <3> QED BY <1>8 DEF Surjection
  <2> HIDE DEF g, pi, S, R
  <2>2. pi \in Injection(S, R) <=> \A s, t \in S : pi[s] = pi[t] => s = t
    BY <2>1 DEF Injection, IsInjective
  <2>3. ASSUME \A s, t \in S : pi[s] = pi[t] => s = t, NEW a \in solutions, NEW b \in solutions, f[a] = f[b]
        PROVE  g[a] = g[b]
    BY <1>5, <2>3
  <2>4. ASSUME \A a, b \in solutions : f[a] = f[b] => g[a] = g[b], NEW s \in S, NEW t \in S, pi[s] = pi[t]
        PROVE  s = t
    <3>1. PICK a \in solutions : s = g[a]
        BY <1>6
    <3>2. PICK b \in solutions : t = g[b]
        BY <1>6
    <3> QED BY <1>5, <2>4, <3>1, <3>2
  <2> QED BY <2>2, <2>3, <2>4
<1>11. (\A a, b \in solutions : f[a] = f[b] => g[a] = g[b]) <=> Determined(w)
  <2> HIDE DEF g
  <2> QED BY <1>2, <1>3 DEF Determined
<1> QED BY <1>1, <1>9, <1>10, <1>11

-------------------------------------------------------------------------------
(* linear: a polynomial forces the one monomial two solutions disagree on. *)

\* Entailed by the circuit, in one of its copies.
Vanishes(q) ==
    /\ IsPoly(q)
    /\ \E alt \in BOOLEAN : VarsOf(q) \subseteq Copy(alt)
    /\ \A a \in solutions : PolyAt(q, a) = 0

IsMarker(q) == \E w \in known \ Inputs : q = Marker(w)

Sound == \A q \in Range(equalities) : IsMarker(q) \/ Vanishes(q)

KnownDetermined == \A w \in known : Determined(w)

(* Sums of equal terms are equal. *)
LEMMA SumSame ==
    ASSUME NEW S, IsFiniteSet(S), NEW f, IntOn(f, S), NEW g, \A x \in S : f[x] = g[x]
    PROVE  SumFunctionOnSet(g, S) = SumFunctionOnSet(f, S)
<1>1. \A x \in S : g[x] = 1 * f[x]
    BY DEF IntOn
<1>2. 1 \in Int
    OBVIOUS
<1>3. SumFunctionOnSet(g, S) = 1 * SumFunctionOnSet(f, S)
    BY <1>1, <1>2, SumScaled
<1>4. SumFunctionOnSet(f, S) \in Int
    BY SumType
<1> QED BY <1>3, <1>4

(* A coefficient is not zero. *)
LEMMA CoefficientNotZero ==
    ASSUME circuit \in Circuits, NEW c \in 1 .. P - 1
    PROVE  c \in Int /\ ~Cong(c, 0, P)
<1>1. P \in Nat \ {0} /\ c \in 0 .. (P - 1) /\ 0 \in 0 .. (P - 1) /\ c # 0
    BY CircuitFacts
<1> QED BY <1>1, CongEqual

(* Elements of the field are congruent only when equal. *)
LEMMA FieldEqual ==
    ASSUME circuit \in Circuits, NEW x \in GF, NEW y \in GF, Cong(x, y, P)
    PROVE  x = y
<1>1. P \in Nat \ {0} /\ x \in 0 .. (P - 1) /\ y \in 0 .. (P - 1)
    BY CircuitFacts DEF GF
<1> QED BY <1>1, CongEqual

(* A product that is zero has a factor that is. *)
LEMMA ZeroFactor ==
    ASSUME circuit \in Circuits, NEW x \in Int, NEW y \in Int, Cong(x * y, 0, P), ~Cong(x, 0, P)
    PROVE  Cong(y, 0, P)
<1>1. P \in Nat \ {0, 1} /\ \A r \in 1 .. P - 1 : \E s \in 1 .. P - 1 : (r * s) % P = 1
    BY CircuitFacts
<1> DEFINE p == P
<1> HIDE DEF p
<1>2. p \in Nat \ {0, 1} /\ (\A r \in 1 .. p - 1 : \E s \in 1 .. p - 1 : (r * s) % p = 1)
      /\ Cong(x * y, 0, p) /\ ~Cong(x, 0, p)
    BY <1>1 DEF p
<1>3. Cong(y, 0, p)
    BY <1>2, NoZeroDivisors
<1> QED BY <1>3 DEF p

(* The arithmetic of one term more. *)
LEMMA OneTermMore ==
    ASSUME NEW p \in Int, NEW c \in Int, NEW x \in Int, NEW y \in Int, NEW r \in Int,
           Cong(c * x + r, 0, p), Cong(c * y + r, 0, p)
    PROVE  Cong(c * (x - y), 0, p)
<1>1. c * x \in Int /\ c * y \in Int /\ c * (x - y) = c * x - c * y
    OBVIOUS
<1> DEFINE u == c * x
           v == c * y
<1> HIDE DEF u, v
<1>2. u \in Int /\ v \in Int /\ 0 \in Int /\ u + r \in Int /\ v + r \in Int
      /\ (u + r) - (v + r) = u - v
    BY <1>1 DEF u, v
<1>3. Cong(u + r, 0, p) /\ Cong(v + r, 0, p)
    BY DEF u, v
<1>4. Cong(0, v + r, p)
    BY <1>2, <1>3, CongSwap
<1>5. Cong(u + r, v + r, p)
    BY <1>2, <1>3, <1>4, CongTrans
<1>6. Cong((u + r) - (v + r), 0, p)
    BY <1>2, <1>5, CongLess
<1> QED BY <1>1, <1>2, <1>6 DEF u, v

(* Two zeros of a polynomial that agree on all its monomials but one agree   *)
(* on that one.                                                              *)
LEMMA ForcedMonomial ==
    ASSUME circuit \in Circuits, NEW q, IsPoly(q), NEW a, Valued(a), NEW b, Valued(b),
           PolyAt(q, a) = 0, PolyAt(q, b) = 0, NEW n \in DOMAIN q,
           \A m \in DOMAIN q : m # n => MonomialAt(m, a) = MonomialAt(m, b)
    PROVE  Cong(MonomialAt(n, a), MonomialAt(n, b), P)
<1> DEFINE f == TermsAt(q, a)
           g == TermsAt(q, b)
           S == DOMAIN q
           x == MonomialAt(n, a)
           y == MonomialAt(n, b)
           c == q[n]
<1>0. P \in Int
    BY CircuitFacts
<1>1. IsFiniteSet(S) /\ c \in 1 .. P - 1 /\ n \in Monomials
    BY DEF IsPoly
<1>2. x \in Int /\ y \in Int /\ c \in Int
    BY <1>1, MonomialValue, CoefficientNotZero
<1>3. IntOn(f, S) /\ Cong(SumFunctionOnSet(f, S), 0, P)
    BY TermsAre
<1>4. IntOn(g, S) /\ Cong(SumFunctionOnSet(g, S), 0, P)
    BY TermsAre
<1>5. \A m \in S : m # n => f[m] = g[m]
    BY DEF TermsAt
<1>6. f[n] = c * x /\ g[n] = c * y
    BY DEF TermsAt
<1> HIDE DEF f, g, S, x, y, c
<1>7. n \in S
    BY DEF S
<1>8. IsFiniteSet(S \ {n}) /\ IntOn(f, S \ {n}) /\ \A m \in S \ {n} : f[m] = g[m]
    BY <1>1, <1>3, <1>5, FS_RemoveElement DEF IntOn
<1> DEFINE r == SumFunctionOnSet(f, S \ {n})
<1>9. r \in Int /\ SumFunctionOnSet(g, S \ {n}) = r
    BY <1>8, SumType, SumSame
<1>10. SumFunctionOnSet(f, S) = c * x + r
    BY <1>1, <1>3, <1>6, <1>7, SumRemove
<1>11. SumFunctionOnSet(g, S) = c * y + r
    BY <1>1, <1>4, <1>6, <1>7, <1>9, SumRemove
<1> HIDE DEF r
<1>12. Cong(c * (x - y), 0, P)
  <2>1. Cong(c * x + r, 0, P) /\ Cong(c * y + r, 0, P)
    BY <1>3, <1>4, <1>10, <1>11
  <2> QED BY <1>0, <1>2, <1>9, <2>1, OneTermMore
<1>13. x - y \in Int /\ ~Cong(c, 0, P)
    BY <1>1, <1>2, CoefficientNotZero
<1>14. Cong(x - y, 0, P)
    BY <1>2, <1>12, <1>13, ZeroFactor
<1>15. Cong(x, y, P)
    BY <1>0, <1>2, <1>14, CongLess
<1> QED BY <1>15 DEF x, y

(* Variables of one copy are of different wires. *)
LEMMA CopyApart ==
    ASSUME circuit \in Circuits, NEW alt \in BOOLEAN, NEW u \in Copy(alt), NEW v \in Copy(alt),
           Wire(u) = Wire(v)
    PROVE  u = v
<1>1. PICK w \in Wires : u = Var(w, alt)
    BY DEF Copy
<1>2. PICK x \in Wires : v = Var(x, alt)
    BY DEF Copy
<1>3. Wire(u) = w /\ Wire(v) = x
    BY <1>1, <1>2, WireOfVar
<1> QED BY <1>1, <1>2, <1>3

(* The variables of a monomial are variables of its polynomial. *)
LEMMA VarsIn ==
    ASSUME NEW q, NEW m \in DOMAIN q
    PROVE  Range(m) \subseteq VarsOf(q)
BY DEF VarsOf

(* They are variables. *)
LEMMA VarsAre ==
    ASSUME circuit \in Circuits, NEW q, IsPoly(q)
    PROVE  VarsOf(q) \subseteq Variables
<1>1. ASSUME NEW m \in DOMAIN q PROVE Range(m) \subseteq Variables
  <2>1. m \in Seq(Variables)
    BY DEF IsPoly, Monomials
  <2> HIDE DEF Variables
  <2> QED BY <2>1 DEF Range
<1> QED BY <1>1 DEF VarsOf

(* The variables of a marker stand for its wire. *)
LEMMA MarkerWires ==
    ASSUME circuit \in Circuits, NEW w \in Wires, NEW v \in VarsOf(Marker(w))
    PROVE  Wire(v) = w
<1>1. VarsOf(Marker(w)) = {w, NWires + w}
  <2>1. Range(<<w>>) = {w} /\ Range(<<NWires + w>>) = {NWires + w}
    BY DEF Range
  <2>2. DOMAIN Marker(w) = {<<w>>, <<NWires + w>>}
    BY DEF Marker
  <2> QED BY <2>1, <2>2 DEF VarsOf
<1>2. w % NWires = w /\ (NWires + w) % NWires = w
  <2>1. NWires \in Nat \ {0} /\ w \in 0 .. NWires - 1
    BY CircuitFacts DEF Wires
  <2> HIDE DEF NWires
  <2> QED BY <2>1
<1> QED BY <1>1, <1>2 DEF Wire

(* The wires before the head of an implication determine the head. *)
LEMMA ImplicationHolds ==
    ASSUME Given, NEW q, Vanishes(q), NEW v \in LinearOnly(q),
           \A u \in VarsOf(q) \ {v} : Determined(Wire(u))
    PROVE  Determined(Wire(v))
<1>0. circuit \in Circuits /\ IsPoly(q) /\ v \in VarsOf(q) /\ v \in Variables
    BY VarsAre DEF Given, Vanishes, LinearOnly
<1>1. ASSUME NEW a \in solutions, NEW b \in solutions, SameInputs(a, b)
      PROVE  a[Wire(v)] = b[Wire(v)]
  <2> DEFINE n == <<v>>
  <2>1. PolyAt(q, a) = 0 /\ PolyAt(q, b) = 0 /\ Valued(a) /\ Valued(b)
    BY SolutionsAre DEF Vanishes
  <2>2. ASSUME NEW m \in DOMAIN q, v \in Range(m) PROVE m = n
    <3>1. Len(m) = 1 /\ m \in Seq(Variables)
        BY <1>0, <2>2 DEF LinearOnly, IsPoly, Monomials
    <3> HIDE DEF Variables
    <3>2. m = <<m[1]>> /\ DOMAIN m = {1}
        BY <3>1
    <3> QED BY <2>2, <3>2 DEF Range
  <2>3. n \in DOMAIN q
    <3>1. PICK m \in DOMAIN q : v \in Range(m)
        BY <1>0 DEF VarsOf
    <3> QED BY <2>2, <3>1
  <2>4. ASSUME NEW m \in DOMAIN q, m # n PROVE MonomialAt(m, a) = MonomialAt(m, b)
    <3>1. v \notin Range(m)
        BY <2>2, <2>4
    <3>2. \A u \in Range(m) : a[Wire(u)] = b[Wire(u)]
        BY <1>1, <3>1, VarsIn DEF Determined
    <3>3. m \in Monomials
        BY <1>0 DEF IsPoly
    <3> QED BY <1>0, <2>1, <3>2, <3>3, MonomialAgrees
  <2>5. MonomialAt(n, a) = a[Wire(v)] /\ MonomialAt(n, b) = b[Wire(v)]
    BY <1>0, <2>1, VariableAt
  <2> HIDE DEF n
  <2>6. Cong(MonomialAt(n, a), MonomialAt(n, b), P)
    BY <1>0, <2>1, <2>3, <2>4, ForcedMonomial
  <2>7. a[Wire(v)] \in GF /\ b[Wire(v)] \in GF
    BY <1>0, SolutionsAre, VariableWire
  <2> QED BY <1>0, <2>5, <2>6, <2>7, FieldEqual
<1> QED BY <1>1 DEF Determined

(* linear promotes determined wires only. *)
LEMMA LinearSound ==
    ASSUME Given, Partition, Sound, KnownDetermined
    PROVE  \A w \in LinearClosure : Determined(w)
<1> DEFINE imps == {imp \in Implications : imp[1] \in unknown}
           heads == {imp[1] : imp \in imps}
           closed == {K \in SUBSET heads :
                         \A imp \in imps : imp[2] \subseteq known \cup K => imp[1] \in K}
           D == {w \in heads : Determined(w)}
<1>1. ASSUME NEW imp \in imps, imp[2] \subseteq known \cup D PROVE Determined(imp[1])
  <2>0. imp \in Implications /\ imp[1] \in unknown
    OBVIOUS
  <2>1. PICK q \in Range(equalities) :
           \E v \in LinearOnly(q) :
              imp = <<Wire(v), {Wire(u) : u \in VarsOf(q) \ {v}} \ {Wire(v)}>>
    BY <2>0 DEF Implications
  <2>2. PICK v \in LinearOnly(q) :
              imp = <<Wire(v), {Wire(u) : u \in VarsOf(q) \ {v}} \ {Wire(v)}>>
    BY <2>1
  <2>3. imp[1] = Wire(v) /\ imp[2] = {Wire(u) : u \in VarsOf(q) \ {v}} \ {Wire(v)}
        /\ v \in VarsOf(q)
    BY <2>2 DEF LinearOnly
  <2>4. Vanishes(q)
    <3>1. ASSUME NEW w \in known, q = Marker(w) PROVE FALSE
        <4>1. w \in Wires /\ circuit \in Circuits
            BY DEF Partition, Given
        <4>2. Wire(v) = w
            BY <2>3, <3>1, <4>1, MarkerWires
        <4> QED BY <2>0, <2>3, <4>2 DEF Partition
    <3> QED BY <3>1 DEF Sound, IsMarker
  <2>5. ASSUME NEW u \in VarsOf(q), u # v PROVE Determined(Wire(u))
    <3>1. PICK alt \in BOOLEAN : VarsOf(q) \subseteq Copy(alt)
        BY <2>4 DEF Vanishes
    <3>2. Wire(u) # Wire(v)
        BY <2>3, <2>5, <3>1, CopyApart DEF Given
    <3>3. Wire(u) \in known \cup D
        BY <1>1, <2>3, <2>5, <3>2
    <3> QED BY <3>3 DEF KnownDetermined
  <2> QED BY <2>3, <2>4, <2>5, ImplicationHolds
<1>2. D \in closed
  <2>1. ASSUME NEW imp \in imps, imp[2] \subseteq known \cup D PROVE imp[1] \in D
    BY <1>1, <2>1
  <2>2. D \in SUBSET heads
    OBVIOUS
  <2> HIDE DEF D, imps, heads
  <2> QED BY <2>1, <2>2
<1>3. LinearClosure = known \cup {w \in heads : \A K \in closed : w \in K}
    BY DEF LinearClosure
<1>4. LinearClosure \subseteq known \cup D
  <2> HIDE DEF D, heads, closed
  <2> QED BY <1>2, <1>3
<1> QED BY <1>4 DEF KnownDetermined

-------------------------------------------------------------------------------
(* binary01: c * (x^2 - x) = 0 has the solutions 0 and 1. *)

\* The ranges hold the values of the solutions.
RangesHold(rs) ==
    \A w \in DOMAIN rs :
        w \in Wires /\ rs[w] \subseteq {0, 1} /\ \A a \in solutions : a[w] \in rs[w]

(* c x^2 + d x with c + d = 0 is zero for 0 and 1 only. *)
LEMMA BinaryRoots ==
    ASSUME circuit \in Circuits, NEW c \in 1 .. P - 1, NEW d \in 1 .. P - 1, (c + d) % P = 0,
           NEW x \in GF, Cong(c * (x * x) + d * x, 0, P)
    PROVE  x \in {0, 1}
<1>0. P \in Nat \ {0} /\ P \in Int /\ 0 \in 0 .. (P - 1) /\ 0 \in GF /\ 1 \in GF /\ 0 \in Int /\ 1 \in Int
    BY CircuitFacts DEF GF
<1>1. c \in Int /\ d \in Int /\ x \in Int
    BY DEF GF
<1> DEFINE s == c + d
           t == c * (x * x) + d * x
           u == x * x - x
<1>2. s \in Int /\ t \in Int /\ u \in Int /\ Cong(s, 0, P) /\ Cong(t, 0, P)
  <2>1. s \in Int /\ t \in Int /\ u \in Int
    BY <1>1
  <2>2. s % P = 0 /\ Cong(t, 0, P)
    OBVIOUS
  <2> HIDE DEF s, t
  <2> QED BY <1>0, <2>1, <2>2, ResidueIs
<1>3. t - s * x = c * u
    BY <1>1
<1>4. u = x * (x - 1)
    BY <1>1
<1> HIDE DEF s, t, u
<1>5. Cong(s * x, 0 * x, P) /\ 0 * x = 0 /\ s * x \in Int /\ 0 * x \in Int
  <2>1. 0 * x = 0 /\ s * x \in Int
    BY <1>1, <1>2
  <2>2. Cong(s * x, 0 * x, P)
    BY <1>0, <1>1, <1>2, CongTimes
  <2> QED BY <1>0, <2>1, <2>2
<1>6. Cong(t, s * x, P)
  <2>1. Cong(s * x, 0, P)
    BY <1>5
  <2>2. Cong(0, s * x, P)
    BY <1>0, <1>5, <2>1, CongSwap
  <2> QED BY <1>0, <1>2, <1>5, <2>2, CongTrans
<1>7. Cong(t - s * x, 0, P)
    BY <1>0, <1>2, <1>5, <1>6, CongLess
<1>8. Cong(u, 0, P)
  <2>1. Cong(c * u, 0, P)
    BY <1>3, <1>7
  <2> QED BY <1>1, <1>2, <2>1, CoefficientNotZero, ZeroFactor
<1>9. CASE Cong(x, 0, P)
    BY <1>0, <1>9, FieldEqual
<1>10. CASE ~Cong(x, 0, P)
  <2>1. x - 1 \in Int /\ Cong(x * (x - 1), 0, P)
    BY <1>1, <1>4, <1>8
  <2>2. Cong(x - 1, 0, P)
    BY <1>1, <1>10, <2>1, ZeroFactor
  <2>3. Cong(x, 1, P)
    BY <1>0, <1>1, <2>2, CongLess
  <2> QED BY <1>0, <2>3, FieldEqual
<1> QED BY <1>9, <1>10

(* A match is of a wire that is 0 or 1 on every solution. *)
LEMMA MatchIsBinary ==
    ASSUME Given, Sound, NEW w \in BinaryMatches
    PROVE  w \in Wires /\ \A a \in solutions : a[w] \in {0, 1}
<1>0. circuit \in Circuits
    BY DEF Given
<1>1. PICK u \in Variables : w = Wire(u) /\ \E q \in Range(equalities) :
            /\ DOMAIN q = {<<u, u>>, <<u>>}
            /\ (q[<<u, u>>] + q[<<u>>]) % P = 0
    BY DEF BinaryMatches, Variables
<1>2. PICK q \in Range(equalities) :
            /\ DOMAIN q = {<<u, u>>, <<u>>}
            /\ (q[<<u, u>>] + q[<<u>>]) % P = 0
    BY <1>1
<1> DEFINE m == <<u, u>>
           n == <<u>>
<1>3. m # n
    OBVIOUS
<1>4. DOMAIN q = {m, n} /\ (q[m] + q[n]) % P = 0
    BY <1>2
<1>5. Vanishes(q)
  <2>1. ASSUME NEW x, q = Marker(x) PROVE FALSE
    <3>1. DOMAIN q = {<<x>>, <<NWires + x>>}
        BY <2>1 DEF Marker
    <3>2. Len(<<x>>) = 1 /\ Len(<<NWires + x>>) = 1 /\ Len(m) = 2
        OBVIOUS
    <3>3. m \in {<<x>>, <<NWires + x>>}
        BY <1>4, <3>1
    <3> QED BY <3>2, <3>3
  <2> QED BY <2>1 DEF Sound, IsMarker
<1>6. ASSUME NEW a \in solutions PROVE a[w] \in {0, 1}
  <2> DEFINE x == a[Wire(u)]
  <2>1. Valued(a) /\ PolyAt(q, a) = 0 /\ IsPoly(q) /\ a \in [Wires -> GF]
    BY <1>5, SolutionsAre DEF Vanishes
  <2>2. MonomialAt(m, a) = x * x /\ MonomialAt(n, a) = x
    BY <1>0, <2>1, ProductAt, VariableAt
  <2>3. x \in GF
    BY <1>0, <2>1, VariableWire
  <2> HIDE DEF m, n, x
  <2>4. /\ q[m] \in 1 .. P - 1 /\ q[n] \in 1 .. P - 1
        /\ Cong(q[m] * MonomialAt(m, a) + q[n] * MonomialAt(n, a), 0, P)
    BY <1>0, <1>3, <1>4, <2>1, TwoTerms
  <2>5. Cong(q[m] * (x * x) + q[n] * x, 0, P)
    BY <2>2, <2>4
  <2>6. x \in {0, 1}
    BY <1>0, <1>4, <2>3, <2>4, <2>5, BinaryRoots
  <2> QED BY <1>1, <2>6 DEF x
<1>7. w \in Wires
    BY <1>0, <1>1, VariableWire
<1> QED BY <1>6, <1>7

(* Tightening keeps the values of the solutions in the ranges. *)
LEMMA TightenedHold ==
    ASSUME Given, Sound, RangesHold(ranges)
    PROVE  RangesHold(TightenedRanges)
<1> DEFINE T == TightenedRanges
           fresh == BinaryMatches \ binaryWires
<1>1. DOMAIN T = DOMAIN ranges \cup fresh
    BY DEF TightenedRanges
<1>2. ASSUME NEW w \in DOMAIN T, w \notin fresh
      PROVE  w \in Wires /\ T[w] \subseteq {0, 1} /\ \A a \in solutions : a[w] \in T[w]
  <2>1. w \in DOMAIN ranges /\ T[w] = ranges[w]
    BY <1>2 DEF TightenedRanges
  <2> HIDE DEF T
  <2> QED BY <2>1 DEF RangesHold
<1>3. ASSUME NEW w \in fresh
      PROVE  w \in Wires /\ T[w] \subseteq {0, 1} /\ \A a \in solutions : a[w] \in T[w]
  <2>1. w \in Wires /\ \A a \in solutions : a[w] \in {0, 1}
    BY MatchIsBinary
  <2>2. CASE w \in DOMAIN ranges
    <3>1. T[w] = ranges[w] \cap {0, 1}
        BY <2>2 DEF TightenedRanges
    <3> HIDE DEF T
    <3> QED BY <2>1, <2>2, <3>1 DEF RangesHold
  <2>3. CASE w \notin DOMAIN ranges
    <3>1. T[w] = {0, 1}
        BY <2>3 DEF TightenedRanges
    <3> HIDE DEF T
    <3> QED BY <2>1, <3>1
  <2> QED BY <2>2, <2>3
<1> HIDE DEF fresh, T
<1>4. RangesHold(T)
    BY <1>1, <1>2, <1>3 DEF RangesHold
<1> QED BY <1>4 DEF T

(* A wire with one possible value is determined. *)
LEMMA SingleDetermined ==
    ASSUME NEW rs, RangesHold(rs), NEW w \in DOMAIN rs, IsSingleton(rs[w])
    PROVE  Determined(w)
<1>1. IsFiniteSet(rs[w])
  <2>1. IsFiniteSet({0, 1})
    <3>1. {0, 1} = 0 .. 1 /\ 0 \in Int /\ 1 \in Int
        OBVIOUS
    <3> QED BY <3>1, FS_Interval
  <2> QED BY <2>1, FS_Subset DEF RangesHold
<1>2. PICK x : rs[w] = {x}
    BY <1>1, FS_Singleton DEF IsSingleton
<1>3. \A a \in solutions : a[w] = x
    BY <1>2 DEF RangesHold
<1> QED BY <1>3 DEF Determined

-------------------------------------------------------------------------------
(* aboz: of two wires whose product is zero one is. *)

ZeroPair(x, y) == \A a \in solutions : a[x] = 0 \/ a[y] = 0

\* A set of wires any two of which have a product that is zero.
IsZeroProduct(p) == \A x, y \in p : x # y => ZeroPair(x, y)

AllDetermined(K) == \A w \in K : Determined(w)
AllZero(Q) == \A pr \in Q : ZeroPair(pr[1], pr[2])

\* What a pass of aboz promotes is determined, what it reports is zero.
SafePassed ==
    {acc \in Passed : AllDetermined(acc.known) /\ AllZero(acc.pairs)}

(* A polynomial of one term. *)
LEMMA OneTerm ==
    ASSUME circuit \in Circuits, NEW q, IsPoly(q), NEW a, Valued(a), NEW m, DOMAIN q = {m},
           PolyAt(q, a) = 0
    PROVE  MonomialAt(m, a) \in Int /\ Cong(MonomialAt(m, a), 0, P)
<1> DEFINE f == TermsAt(q, a)
           c == q[m]
           x == MonomialAt(m, a)
<1>1. m \in Monomials /\ c \in 1 .. P - 1
    BY DEF IsPoly
<1>2. x \in Int /\ c \in Int /\ ~Cong(c, 0, P)
    BY <1>1, MonomialValue, CoefficientNotZero
<1>3. f[m] = c * x
    BY DEF TermsAt
<1>4. Cong(SumFunctionOnSet(f, DOMAIN q), 0, P)
    BY TermsAre
<1> DEFINE S == {m}
<1>5. IsFiniteSet(S) /\ m \in S /\ S \ {m} = {}
    BY FS_Singleton
<1> HIDE DEF f, c, x, S
<1>6. DOMAIN q = S
    BY DEF S
<1>7. IntOn(f, S)
  <2>1. \A e \in S : e = m
    BY DEF S
  <2>2. f[m] \in Int
    BY <1>2, <1>3
  <2> QED BY <2>1, <2>2 DEF IntOn
<1>8. SumFunctionOnSet(f, S) = f[m] + SumFunctionOnSet(f, {})
    BY <1>5, <1>7, SumRemove
<1>9. SumFunctionOnSet(f, {}) = 0
    BY SumEmpty
<1>10. Cong(c * x, 0, P)
    BY <1>2, <1>3, <1>4, <1>6, <1>8, <1>9
<1>11. Cong(x, 0, P)
    BY <1>2, <1>10, ZeroFactor
<1> QED BY <1>2, <1>11 DEF x

(* The wires of a single product have a product that is zero. *)
LEMMA BilinearZero ==
    ASSUME Given, Sound, NEW q \in Range(equalities), IsBilinear(q)
    PROVE  IsZeroProduct({Wire(v) : v \in VarsOf(q)})
<1>0. circuit \in Circuits
    BY DEF Given
<1>1. PICK v \in VarsOf(q), w \in VarsOf(q) : v # w /\ DOMAIN q = {<<v, w>>}
    BY DEF IsBilinear
<1> DEFINE m == <<v, w>>
<1>2. VarsOf(q) = {v, w}
  <2>1. VarsOf(q) = Range(<<v, w>>)
    BY <1>1 DEF VarsOf
  <2>2. Range(<<v, w>>) = {v, w}
    BY DEF Range
  <2> QED BY <2>1, <2>2
<1>3. Vanishes(q)
  <2>1. ASSUME NEW x, q = Marker(x) PROVE FALSE
    <3>1. DOMAIN q = {<<x>>, <<NWires + x>>}
        BY <2>1 DEF Marker
    <3>2. Len(<<x>>) = 1 /\ Len(m) = 2
        OBVIOUS
    <3>3. <<x>> = m
        <4>1. DOMAIN q = {m}
            BY <1>1
        <4> HIDE DEF m
        <4>2. <<x>> \in {m}
            BY <3>1, <4>1
        <4> QED BY <4>2
    <3> QED BY <3>2, <3>3
  <2> QED BY <2>1 DEF Sound, IsMarker
<1>4. v \in Variables /\ w \in Variables
    BY <1>0, <1>3, VarsAre DEF Vanishes
<1>5. ASSUME NEW a \in solutions PROVE a[Wire(v)] = 0 \/ a[Wire(w)] = 0
  <2>1. Valued(a) /\ PolyAt(q, a) = 0 /\ IsPoly(q) /\ a \in [Wires -> GF]
    BY <1>3, SolutionsAre DEF Vanishes
  <2> DEFINE x == a[Wire(v)]
             y == a[Wire(w)]
  <2>2. x \in GF /\ y \in GF /\ 0 \in GF /\ x \in Int /\ y \in Int
    <3>1. x \in GF /\ y \in GF
        BY <1>0, <1>4, <2>1, VariableWire
    <3>2. GF \subseteq Int /\ 0 \in GF
        BY <1>0, CircuitFacts DEF GF
    <3> QED BY <3>1, <3>2
  <2>3. MonomialAt(m, a) = x * y
    BY <1>0, <1>4, <2>1, ProductAt
  <2> HIDE DEF m, x, y
  <2>4. Cong(MonomialAt(m, a), 0, P)
    <3>1. DOMAIN q = {m}
        BY <1>1 DEF m
    <3> QED BY <1>0, <2>1, <3>1, OneTerm
  <2>5. Cong(x * y, 0, P)
    BY <2>3, <2>4
  <2>6. CASE Cong(x, 0, P)
    <3>1. x = 0
        BY <1>0, <2>2, <2>6, FieldEqual
    <3> QED BY <3>1 DEF x
  <2>7. CASE ~Cong(x, 0, P)
    <3>1. Cong(y, 0, P)
        BY <1>0, <2>2, <2>5, <2>7, ZeroFactor
    <3>2. y = 0
        BY <1>0, <2>2, <3>1, FieldEqual
    <3> QED BY <3>2 DEF y
  <2> QED BY <2>6, <2>7
<1>6. {Wire(u) : u \in VarsOf(q)} = {Wire(v), Wire(w)}
    BY <1>2
<1> QED BY <1>5, <1>6 DEF IsZeroProduct, ZeroPair

(* The products of a pass are. *)
LEMMA ProductsZero ==
    ASSUME IInv, Given, Sound, NEW i \in 1 .. Len(Products)
    PROVE  IsZeroProduct(Products[i])
<1> DEFINE polys == Selected(equalities, {q \in Range(equalities) : IsBilinear(q)})
<1>1. equalities \in Seq(Range(equalities))
    BY DEF IInv, IRWellFormed
<1>2. polys \in Seq(Range(equalities) \cap {q \in Range(equalities) : IsBilinear(q)})
    BY <1>1, SelectedSeq
<1>3. Products = [k \in DOMAIN polys |-> {Wire(v) : v \in VarsOf(polys[k])}]
    BY DEF Products
<1>4. Len(Products) = Len(polys) /\ DOMAIN polys = 1 .. Len(polys)
  <2> HIDE DEF polys
  <2> QED BY <1>2, <1>3
<1>5. IsBilinear(polys[i]) /\ polys[i] \in Range(equalities)
  <2> HIDE DEF polys
  <2> QED BY <1>2, <1>4
<1>6. Products[i] = {Wire(v) : v \in VarsOf(polys[i])}
  <2> HIDE DEF polys
  <2> QED BY <1>3, <1>4
<1> HIDE DEF polys
<1> QED BY <1>5, <1>6, BilinearZero

(* One match. *)
LEMMA AbozSafe ==
    ASSUME IInv, RangesHold(ranges), NEW acc \in SafePassed,
           NEW y0 \in Wires, NEW y1 \in Wires, NEW x \in Wires, NEW sum,
           ZeroPair(x, y0), ZeroPair(x, y1)
    PROVE  AbozAt(acc, y0, y1, x, sum) \in SafePassed
<1> DEFINE new == AbozAt(acc, y0, y1, x, sum)
           K == acc.known \cup ({y0, y1} \cap unknown)
           Q == acc.pairs \cup Fresh({<<x, y0>>, <<x, y1>>})
<1>0. acc \in Passed /\ AllDetermined(acc.known) /\ AllZero(acc.pairs)
    BY DEF SafePassed
<1>1. new \in Passed
    BY <1>0, AbozStep
<1>2. \/ new = acc
      \/ ExcludesZero(x) /\ new = [acc EXCEPT !.known = K]
      \/ new = [acc EXCEPT !.pairs = Q]
    BY DEF AbozAt, SelectorNonZero
<1>3. ExcludesZero(x) => Determined(y0) /\ Determined(y1)
  <2>1. ASSUME ExcludesZero(x), NEW a \in solutions PROVE a[y0] = 0 /\ a[y1] = 0
    <3>1. x \in DOMAIN ranges /\ 0 \notin ranges[x]
        BY <2>1 DEF ExcludesZero
    <3>2. a[x] # 0
        BY <3>1 DEF RangesHold
    <3> QED BY <3>2 DEF ZeroPair
  <2> QED BY <2>1 DEF Determined
<1>4. AllZero(Q)
  <2>1. Fresh({<<x, y0>>, <<x, y1>>}) \subseteq {<<x, y0>>, <<x, y1>>}
    BY DEF Fresh
  <2>2. AllZero({<<x, y0>>, <<x, y1>>})
    BY DEF AllZero
  <2> QED BY <1>0, <2>1, <2>2 DEF AllZero
<1>5. ExcludesZero(x) => AllDetermined(K)
    BY <1>0, <1>3 DEF AllDetermined
<1>6. acc = [known |-> acc.known, pairs |-> acc.pairs]
    BY <1>0 DEF Passed
<1> HIDE DEF new, K, Q
<1>7. AllDetermined(new.known) /\ AllZero(new.pairs)
  <2>1. CASE new = acc
    BY <1>0, <2>1
  <2>2. CASE ExcludesZero(x) /\ new = [acc EXCEPT !.known = K]
    <3>1. new.known = K /\ new.pairs = acc.pairs
        BY <1>6, <2>2
    <3> QED BY <1>0, <1>5, <2>2, <3>1
  <2>3. CASE new = [acc EXCEPT !.pairs = Q]
    <3>1. new.known = acc.known /\ new.pairs = Q
        BY <1>6, <2>3
    <3> QED BY <1>0, <1>4, <3>1
  <2> QED BY <1>2, <2>1, <2>2, <2>3
<1>8. new \in SafePassed
    BY <1>1, <1>7 DEF SafePassed
<1> QED BY <1>8 DEF new

(* One match given by its indices. *)
LEMMA AbozMatchSafe ==
    ASSUME IInv, Given, Sound, RangesHold(ranges), NEW acc \in SafePassed,
           NEW t, IsMatch(t, Products)
    PROVE  AbozMatch(acc, t, Products, LinearSums) \in SafePassed
<1> DEFINE p == Products[t[1]]
           q == Products[t[2]]
<1>1. IsPair(p) /\ IsPair(q) /\ IsZeroProduct(p) /\ IsZeroProduct(q)
    BY ProductsAre, ProductsZero DEF IsMatch
<1>3. Cardinality(p \cap q) = 1
    BY DEF IsMatch
<1> HIDE DEF p, q
<1>4. p \ q # {} /\ q \ p # {} /\ p \cap q # {}
    BY <1>1, <1>3, PairsSplit
<1>5. p \subseteq Wires /\ q \subseteq Wires
    BY <1>1 DEF IsPair
<1> DEFINE y0 == CHOOSE w \in p \ q : TRUE
           y1 == CHOOSE w \in q \ p : TRUE
           x == CHOOSE w \in p \cap q : TRUE
<1>6. y0 \in p \ q /\ y1 \in q \ p /\ x \in p \cap q
    BY <1>4
<1>7. AbozMatch(acc, t, Products, LinearSums) = AbozAt(acc, y0, y1, x, LinearSums[t[3]])
    BY DEF AbozMatch, p, q
<1> HIDE DEF y0, y1, x
<1>8. y0 \in Wires /\ y1 \in Wires /\ x \in Wires
    BY <1>5, <1>6
<1>9. ZeroPair(x, y0) /\ ZeroPair(x, y1)
    BY <1>1, <1>6 DEF IsZeroProduct
<1>10. AbozAt(acc, y0, y1, x, LinearSums[t[3]]) \in SafePassed
    BY <1>8, <1>9, AbozSafe
<1> QED BY <1>7, <1>10

(* A pass of aboz promotes determined wires and reports zero products. *)
LEMMA AbozSound ==
    ASSUME IInv, Given, Sound, RangesHold(ranges), KnownDetermined
    PROVE  /\ \A w \in AbozPass.known : Determined(w)
           /\ \A pr \in AbozPass.pairs : pr \in Wires \X Wires /\ ZeroPair(pr[1], pr[2])
<1>1. [known |-> known, pairs |-> {}] \in SafePassed
  <2>1. known \in Between
    BY DEF IInv, Partition, Between
  <2>2. [known |-> known, pairs |-> {}] \in Passed
    BY <2>1 DEF Passed
  <2> QED BY <2>2 DEF SafePassed, KnownDetermined, AllDetermined, AllZero
<1>2. AbozPass \in SafePassed
    BY <1>1, AbozMatchSafe, AbozFold
<1> QED BY <1>2 DEF SafePassed, Passed, Reported, AllDetermined, AllZero

\* The clause holds of every two solutions with the same inputs.
Entailed(clause) ==
    \A a, b \in solutions :
        (\A i \in Inputs : a[i] = b[i]) => \E v \in clause : IsZero(v, a, b)

(* The clauses of a zero product follow, in either copy. *)
LEMMA ZeroProductEntailed ==
    ASSUME Given, NEW s \in Wires, NEW o \in Wires, ZeroPair(s, o),
           NEW clause \in ZeroProduct(s, o)
    PROVE  Entailed(clause)
<1>0. circuit \in Circuits /\ NWires \in Nat \ {0}
    BY CircuitFacts DEF Given
<1>1. \A w \in Wires : w < NWires /\ ~(NWires + w < NWires)
    BY <1>0 DEF Wires
<1>2. ASSUME NEW a \in solutions, NEW b \in solutions, \A i \in Inputs : a[i] = b[i],
             NEW w \in Wires, b[w] = 0
      PROVE  IsZero(AltVar(w), a, b)
  <2>1. CASE w \in Inputs
    BY <1>1, <1>2, <2>1 DEF AltVar, Var, IsZero
  <2>2. CASE w \notin Inputs
    <3>1. AltVar(w) = NWires + w /\ Wire(NWires + w) = w
        <4>1. AltVar(w) = NWires + w
            BY <2>2 DEF AltVar, Var
        <4> QED BY <1>0, <4>1, WireOfVar DEF AltVar
    <3> QED BY <1>1, <1>2, <2>2, <3>1 DEF IsZero
  <2> QED BY <2>1, <2>2
<1>3. CASE clause = {s, o}
    BY <1>1, <1>3 DEF Entailed, ZeroPair, IsZero
<1>4. CASE clause = {AltVar(s), AltVar(o)}
    BY <1>2, <1>4 DEF Entailed, ZeroPair
<1> QED BY <1>3, <1>4 DEF ZeroProduct

-------------------------------------------------------------------------------
(* bim: an invertible homogeneous system is solved by zero only. *)

\* The row of a linear polynomial.
RowOf(q) ==
    [w \in Wires |->
        LET coeff(v) == IF <<v>> \in DOMAIN q THEN q[<<v>>] ELSE 0
        IN  (coeff(w) + coeff(NWires + w)) % P]

(* A monomial of a linear polynomial is a variable. *)
LEMMA LinearMonomial ==
    ASSUME circuit \in Circuits, NEW q, IsPoly(q), IsLinear(q), NEW m \in DOMAIN q
    PROVE  m = <<m[1]>> /\ m[1] \in VarsOf(q) /\ m[1] \in Variables
<1>1. m \in Seq(Variables) /\ Len(m) = 1
    BY DEF IsPoly, Monomials, IsLinear
<1> HIDE DEF Variables
<1>2. m = <<m[1]>> /\ m[1] \in Variables /\ m[1] \in Range(m)
    BY <1>1 DEF Range
<1> QED BY <1>2, VarsIn

(* A variable is the x or the y of its wire. *)
LEMMA VariableIs ==
    ASSUME circuit \in Circuits, NEW v \in Variables
    PROVE  v = Wire(v) \/ v = NWires + Wire(v)
<1>1. NWires \in Nat \ {0} /\ v \in 0 .. 2 * NWires - 1
    BY CircuitFacts DEF Variables, One
<1> DEFINE n == NWires
<1> HIDE DEF n
<1>2. n \in Nat \ {0} /\ v \in 0 .. 2 * n - 1
    BY <1>1 DEF n
<1>3. v = (v % n) \/ v = n + (v % n)
    BY <1>2
<1> QED BY <1>3 DEF Wire, n

(* What the row holds of the wires of the polynomial. *)
LEMMA RowIs ==
    ASSUME Given, NEW q, Vanishes(q), IsLinear(q)
    PROVE  /\ \A m \in DOMAIN q : Wire(m[1]) \in Wires /\ RowOf(q)[Wire(m[1])] = q[m]
           /\ \A w \in Wires : (\A m \in DOMAIN q : Wire(m[1]) # w) => RowOf(q)[w] = 0
           /\ \A m, n \in DOMAIN q : Wire(m[1]) = Wire(n[1]) => m = n
           /\ \A w \in Wires : RowOf(q)[w] \in Int
<1> DEFINE coeff(v) == IF <<v>> \in DOMAIN q THEN q[<<v>>] ELSE 0
<1>0. /\ circuit \in Circuits /\ P \in Nat \ {0, 1} /\ NWires \in Nat \ {0} /\ IsPoly(q)
      /\ \A m \in DOMAIN q : q[m] \in 1 .. P - 1
    BY CircuitFacts DEF Given, Vanishes, IsPoly
<1>1. PICK alt \in BOOLEAN : VarsOf(q) \subseteq Copy(alt)
    BY DEF Vanishes
<1>2. \A m \in DOMAIN q : m = <<m[1]>> /\ m[1] \in Copy(alt) /\ m[1] \in Variables
    BY <1>0, <1>1, LinearMonomial
<1>3. \A w \in Wires : RowOf(q)[w] = (coeff(w) + coeff(NWires + w)) % P
    BY DEF RowOf
<1>4. \A v : coeff(v) \in Nat
  <2>1. ASSUME NEW v PROVE coeff(v) \in Nat
    <3>1. CASE <<v>> \in DOMAIN q
        <4>1. q[<<v>>] \in 1 .. P - 1
            BY <1>0, <3>1
        <4> QED BY <3>1, <4>1
    <3>2. CASE <<v>> \notin DOMAIN q
        BY <3>2
    <3> QED BY <3>1, <3>2
  <2> QED BY <2>1
<1>5. ASSUME NEW m \in DOMAIN q, NEW n \in DOMAIN q, Wire(m[1]) = Wire(n[1]) PROVE m = n
  <2>1. m[1] = n[1]
    BY <1>0, <1>2, <1>5, CopyApart
  <2> QED BY <1>2, <2>1
<1>6. ASSUME NEW m \in DOMAIN q PROVE Wire(m[1]) \in Wires /\ RowOf(q)[Wire(m[1])] = q[m]
  <2> DEFINE w == Wire(m[1])
  <2>1. w \in Wires /\ (m[1] = w \/ m[1] = NWires + w)
    BY <1>0, <1>2, VariableWire, VariableIs
  <2>2. \A v \in {w, NWires + w} : Wire(v) = w
    <3>1. w % NWires = w /\ (NWires + w) % NWires = w
        <4>1. w \in 0 .. NWires - 1
            BY <2>1 DEF Wires
        <4> HIDE DEF NWires, w
        <4> QED BY <1>0, <4>1
    <3> QED BY <3>1 DEF Wire
  <2>3. w # NWires + w
    <3>1. w \in 0 .. NWires - 1
        BY <2>1 DEF Wires
    <3> HIDE DEF NWires, w
    <3> QED BY <1>0, <3>1
  <2>4. ASSUME NEW v \in {w, NWires + w}, v # m[1] PROVE coeff(v) = 0
    <3>1. SUFFICES ASSUME <<v>> \in DOMAIN q PROVE FALSE
        OBVIOUS
    <3> DEFINE n == <<v>>
    <3>2. n[1] = v
        OBVIOUS
    <3>3. n \in DOMAIN q
        BY <3>1
    <3> HIDE DEF n, w
    <3>4. Wire(n[1]) = w
        BY <2>2, <2>4, <3>2
    <3>5. n = m
        BY <1>5, <3>3, <3>4 DEF w
    <3> QED BY <2>4, <3>2, <3>5
  <2>5. coeff(m[1]) = q[m]
    BY <1>2
  <2> HIDE DEF coeff, w
  <2>6. coeff(w) + coeff(NWires + w) = q[m]
    <3>1. q[m] \in Nat /\ coeff(w) \in Nat /\ coeff(NWires + w) \in Nat
        BY <1>4, <2>5
    <3>2. CASE m[1] = w
        <4>1. coeff(NWires + w) = 0
            BY <2>3, <2>4, <3>2
        <4> QED BY <2>5, <3>1, <3>2, <4>1
    <3>3. CASE m[1] = NWires + w
        <4>1. coeff(w) = 0
            BY <2>3, <2>4, <3>3
        <4> QED BY <2>5, <3>1, <3>3, <4>1
    <3> QED BY <2>1, <3>2, <3>3
  <2>7. q[m] % P = q[m]
    <3>1. q[m] \in 1 .. P - 1
        BY <1>0
    <3> QED BY <1>0, <3>1
  <2> QED BY <1>3, <2>1, <2>6, <2>7 DEF w
<1>7. ASSUME NEW w \in Wires, \A m \in DOMAIN q : Wire(m[1]) # w PROVE RowOf(q)[w] = 0
  <2>1. \A v \in {w, NWires + w} : Wire(v) = w
    <3>1. w % NWires = w /\ (NWires + w) % NWires = w
        <4>1. w \in 0 .. NWires - 1
            BY DEF Wires
        <4> HIDE DEF NWires
        <4> QED BY <1>0, <4>1
    <3> QED BY <3>1 DEF Wire
  <2>2. ASSUME NEW v \in {w, NWires + w} PROVE coeff(v) = 0
    <3>1. SUFFICES ASSUME <<v>> \in DOMAIN q PROVE FALSE
        OBVIOUS
    <3> DEFINE n == <<v>>
    <3>2. n[1] = v /\ n \in DOMAIN q
        BY <3>1
    <3> HIDE DEF n
    <3> QED BY <1>7, <2>1, <3>2
  <2>3. coeff(w) = 0 /\ coeff(NWires + w) = 0
    BY <2>2
  <2> HIDE DEF coeff
  <2>4. (0 + 0) % P = 0
    BY <1>0
  <2> QED BY <1>3, <2>3, <2>4
<1>8. ASSUME NEW w \in Wires PROVE RowOf(q)[w] \in Int
  <2>1. coeff(w) + coeff(NWires + w) \in Nat
    <3> HIDE DEF coeff
    <3> QED BY <1>4
  <2> DEFINE c == coeff(w) + coeff(NWires + w)
  <2>2. RowOf(q)[w] = c % P
    BY <1>3
  <2> HIDE DEF c
  <2>3. c % P \in Int
    BY <1>0, <2>1 DEF c
  <2> QED BY <2>2, <2>3
<1> QED BY <1>5, <1>6, <1>7, <1>8

(* The row of a linear polynomial maps a solution to zero. *)
LEMMA RowVanishes ==
    ASSUME Given, NEW q, Vanishes(q), IsLinear(q), NEW ws \in SUBSET Wires,
           \A m \in DOMAIN q : Wire(m[1]) \in ws, NEW a \in solutions
    PROVE  RowProduct(RowOf(q), [w \in ws |-> a[w]]) = 0
<1> DEFINE z == [w \in ws |-> a[w]]
           row == RowOf(q)
           f == TermsAt(q, a)
           g == [w \in ws |-> row[w] * z[w]]
           S == DOMAIN q
           h == [m \in S |-> Wire(m[1])]
<1>0. /\ circuit \in Circuits /\ P \in Nat \ {0} /\ P \in Int /\ IsFiniteSet(Wires)
      /\ IsPoly(q) /\ PolyAt(q, a) = 0 /\ Valued(a)
    BY CircuitFacts, SolutionsAre DEF Given, Vanishes
<1>1. IsFiniteSet(S) /\ IsFiniteSet(ws)
    BY <1>0, FS_Subset DEF IsPoly
<1>2. IntOn(f, S) /\ Cong(SumFunctionOnSet(f, S), 0, P)
    BY <1>0, TermsAre
<1>3. \A w \in ws : row[w] \in Int /\ a[w] \in Int
    BY <1>0, RowIs DEF Valued
<1>4. \A w \in ws : g[w] = row[w] * a[w]
    OBVIOUS
<1>5. RowProduct(row, z) = SumFunctionOnSet(g, ws) % P
    BY DEF RowProduct
<1>6. \A m \in S : f[m] = q[m] * a[Wire(m[1])] /\ h[m] = Wire(m[1])
  <2>1. ASSUME NEW m \in S PROVE MonomialAt(m, a) = a[Wire(m[1])]
    <3>1. m = <<m[1]>> /\ m[1] \in Variables
        BY <1>0, LinearMonomial
    <3>2. MonomialAt(<<m[1]>>, a) = a[Wire(m[1])]
        BY <1>0, <3>1, VariableAt
    <3> QED BY <3>1, <3>2
  <2> QED BY <2>1 DEF TermsAt
<1>7. /\ \A m \in S : row[Wire(m[1])] = q[m]
      /\ \A w \in ws : (\A m \in S : Wire(m[1]) # w) => row[w] = 0
      /\ \A m, n \in S : Wire(m[1]) = Wire(n[1]) => m = n
    BY RowIs
<1> HIDE DEF f, g, h, row, z, S
<1>8. IntOn(g, ws)
  <2>1. ASSUME NEW w \in ws PROVE g[w] \in Int
    BY <1>3, <1>4
  <2> QED BY <2>1 DEF IntOn
<1>9. Pairs(h, f, S, g, ws, P)
  <2>1. ASSUME NEW m \in S PROVE h[m] \in ws /\ Cong(f[m], g[h[m]], P)
    <3>1. h[m] \in ws
        BY <1>6 DEF S
    <3>2. g[h[m]] = f[m]
        BY <1>4, <1>6, <1>7, <3>1
    <3>3. f[m] \in Int
        BY <1>2 DEF IntOn
    <3> QED BY <1>0, <3>1, <3>2, <3>3, CongSame
  <2>2. \A m, n \in S : h[m] = h[n] => m = n
    BY <1>6, <1>7
  <2>3. ASSUME NEW w \in ws, \A m \in S : h[m] # w PROVE Cong(g[w], 0, P)
    <3>1. row[w] = 0
        BY <1>6, <1>7, <2>3
    <3>2. g[w] = 0
        BY <1>3, <1>4, <3>1
    <3>3. 0 \in Int
        OBVIOUS
    <3> QED BY <1>0, <3>2, <3>3, CongSame
  <2> QED BY <2>1, <2>2, <2>3 DEF Pairs
<1>10. Cong(SumFunctionOnSet(f, S), SumFunctionOnSet(g, ws), P)
    BY <1>0, <1>1, <1>2, <1>8, <1>9, SumPaired
<1> DEFINE s == SumFunctionOnSet(f, S)
           t == SumFunctionOnSet(g, ws)
<1>11. s \in Int /\ t \in Int
    BY <1>1, <1>2, <1>8, SumType
<1>12. Cong(s, 0, P) /\ Cong(s, t, P)
    BY <1>2, <1>10
<1>13. RowProduct(row, z) = t % P
    BY <1>5
<1> HIDE DEF s, t
<1>14. Cong(t, 0, P)
  <2>1. Cong(t, s, P) /\ 0 \in Int
    BY <1>0, <1>11, <1>12, CongSwap
  <2> QED BY <1>0, <1>11, <1>12, <2>1, CongTrans
<1>15. t % P = 0
  <2>1. 0 \in 0 .. (P - 1)
    BY <1>0
  <2> QED BY <1>0, <1>11, <1>14, <2>1, ResidueIs
<1> QED BY <1>13, <1>15 DEF row, z

(* bim promotes wires that are zero on every solution. *)
LEMMA BimSound ==
    ASSUME IInv, Given, Sound, BimFires
    PROVE  \A w \in BimWires : Determined(w)
<1> DEFINE S == {q \in Range(equalities) : IsLinear(q)}
           rows == Selected(equalities, S)
<1>0. circuit \in Circuits
    BY DEF Given
<1>1. \A q \in S : Vanishes(q)
  <2>1. ASSUME NEW q \in S, NEW w \in known, q = Marker(w) PROVE FALSE
    <3>1. w \in Wires
        BY DEF IInv, Partition
    <3>2. w \in VarsOf(q)
        <4>1. <<w>> \in DOMAIN q /\ w \in Range(<<w>>)
            BY <2>1 DEF Marker, Range
        <4> QED BY <4>1, VarsIn
    <3>3. Wire(w) = w
        BY <1>0, <2>1, <3>1, <3>2, MarkerWires
    <3>4. w \in BimWires
        BY <3>2, <3>3 DEF BimWires
    <3> QED BY <3>4 DEF BimFires, IInv, Partition
  <2> QED BY <2>1 DEF Sound, IsMarker
<1>2. ASSUME NEW q \in S, NEW m \in DOMAIN q PROVE Wire(m[1]) \in BimWires
  <2>1. m[1] \in VarsOf(q)
    BY <1>0, <1>1, LinearMonomial DEF Vanishes
  <2> QED BY <2>1 DEF BimWires
<1>3. BimWires \subseteq Wires
    BY DEF BimFires, IInv, Partition
<1>4. rows \in Seq(Range(equalities) \cap S)
  <2>1. equalities \in Seq(Range(equalities))
    BY DEF IInv, IRWellFormed
  <2> HIDE DEF S
  <2> QED BY <2>1, SelectedSeq
<1>5. BimRows = [i \in DOMAIN rows |-> RowOf(rows[i])]
    BY DEF BimRows, RowOf
<1>6. \A i \in DOMAIN rows : rows[i] \in S
  <2> HIDE DEF S, rows
  <2> QED BY <1>4
<1> HIDE DEF S, rows
<1>7. ASSUME NEW a \in solutions PROVE \A w \in BimWires : a[w] = 0
  <2> DEFINE z == [w \in BimWires |-> a[w]]
  <2>1. z \in [BimWires -> GF]
    BY <1>3, SolutionsAre
  <2>2. ASSUME NEW i \in DOMAIN BimRows PROVE RowProduct(BimRows[i], z) = 0
    <3>1. i \in DOMAIN rows /\ BimRows[i] = RowOf(rows[i]) /\ rows[i] \in S
        BY <1>5, <1>6
    <3>2. Vanishes(rows[i]) /\ \A m \in DOMAIN rows[i] : Wire(m[1]) \in BimWires
        BY <1>1, <1>2, <3>1
    <3>3. IsLinear(rows[i])
        BY <3>1 DEF S
    <3> DEFINE q == rows[i]
    <3> HIDE DEF q
    <3>4. Vanishes(q) /\ IsLinear(q) /\ (\A m \in DOMAIN q : Wire(m[1]) \in BimWires)
        BY <3>2, <3>3 DEF q
    <3>5. BimWires \in SUBSET Wires
        BY <1>3
    <3>6. RowProduct(RowOf(q), z) = 0
        BY <3>4, <3>5, RowVanishes
    <3> QED BY <3>1, <3>6 DEF q
  <2>3. \A w \in BimWires : z[w] = a[w]
    OBVIOUS
  <2> HIDE DEF z
  <2>4. \A w \in BimWires : z[w] = 0
    BY <2>1, <2>2 DEF BimFires, Invertible
  <2> QED BY <2>3, <2>4
<1> QED BY <1>7 DEF Determined

-------------------------------------------------------------------------------
(* basis2: bits that fit the field are determined by their sum. *)

\* upTo is the recursion inside PowerOfTwo.
Doubles(upTo, k) ==
    /\ upTo[0] = 1 /\ PowerOfTwo(k) = upTo[k]
    /\ \A i \in 1 .. k : upTo[i] = 2 * upTo[i - 1]
    /\ \A i \in 0 .. k : upTo[i] \in Nat

(* It unrolls. *)
LEMMA PowerRecursion ==
    ASSUME NEW n \in Nat
    PROVE  \E upTo : Doubles(upTo, n)
<1> DEFINE Eqn(f) == f = [i \in 0 .. n |-> IF i = 0 THEN 1 ELSE 2 * f[i - 1]]
           F == [q \in (1 .. n) \X Nat |-> 2 * q[2]]
<1>3. F \in Steps(n, Nat)
    BY DEF Steps
<1>4. PICK g : Unrolls(g, n, Nat, 1, F)
  <2> HIDE DEF F
  <2>1. 1 \in Nat
    OBVIOUS
  <2> QED BY <1>3, <2>1, RecursionExists
<1>5. ASSUME NEW k \in 1 .. n PROVE g[k] = 2 * g[k - 1]
  <2>1. g[k - 1] \in Nat
    <3>1. k - 1 \in 0 .. n
        OBVIOUS
    <3> QED BY <1>4, <3>1 DEF Unrolls
  <2>2. F[<<k, g[k - 1]>>] = 2 * g[k - 1]
    BY <2>1
  <2> HIDE DEF F
  <2> QED BY <1>4, <2>2 DEF Unrolls
<1>6. Eqn(g)
  <2>1. g = [k \in 0 .. n |-> g[k]] /\ g[0] = 1
    BY <1>4 DEF Unrolls
  <2>2. \A k \in 0 .. n : k # 0 => k \in 1 .. n
    OBVIOUS
  <2> HIDE DEF F
  <2> QED BY <1>5, <2>1, <2>2
<1> DEFINE h == CHOOSE f : Eqn(f)
<1>7. Eqn(h)
  <2> HIDE DEF Eqn
  <2> QED BY <1>6
<1>8. PowerOfTwo(n) = h[n]
    BY DEF PowerOfTwo
<1>9. h[0] = 1 /\ \A k \in 1 .. n : h[k] = 2 * h[k - 1]
  <2>1. 0 \in 0 .. n /\ \A k \in 1 .. n : k \in 0 .. n /\ k # 0
    OBVIOUS
  <2> HIDE DEF h
  <2> QED BY <1>7, <2>1
<1> HIDE DEF h
<1>10. \A k \in 0 .. n : h[k] \in Nat
  <2>1. h[0] \in Nat
    BY <1>9
  <2>2. \A k \in 1 .. n : h[k - 1] \in Nat => h[k] \in Nat
    BY <1>9
  <2> QED BY <2>1, <2>2, RecursionInvariant
<1> QED BY <1>8, <1>9, <1>10 DEF Doubles

(* A power of two and the next one. *)
LEMMA PowerStep ==
    ASSUME NEW n \in Nat
    PROVE  PowerOfTwo(0) = 1 /\ PowerOfTwo(n) \in Nat /\ PowerOfTwo(n + 1) = 2 * PowerOfTwo(n)
<1>1. PICK e : Doubles(e, 0)
    BY PowerRecursion
<1>2. PICK f : Doubles(f, n)
    BY PowerRecursion
<1>3. n + 1 \in Nat
    OBVIOUS
<1>4. PICK g : Doubles(g, n + 1)
    BY <1>3, PowerRecursion
<1> DEFINE T == {k \in 0 .. n : g[k] = f[k]}
<1>5. 0 \in T
    BY <1>2, <1>4 DEF Doubles
<1>6. ASSUME NEW k \in 0 .. n - 1, k \in T PROVE k + 1 \in T
  <2>1. k + 1 \in 1 .. n /\ k + 1 \in 1 .. n + 1 /\ (k + 1) - 1 = k /\ k + 1 \in 0 .. n
    OBVIOUS
  <2>2. g[k + 1] = 2 * g[k]
    BY <1>4, <2>1 DEF Doubles
  <2>3. f[k + 1] = 2 * f[k]
    BY <1>2, <2>1 DEF Doubles
  <2> QED BY <1>6, <2>1, <2>2, <2>3
<1>7. 0 .. n \subseteq T
  <2> HIDE DEF T
  <2> QED BY <1>5, <1>6, IntervalInduction
<1>8. g[n] = f[n]
    BY <1>7
<1>9. g[n + 1] = 2 * g[n]
  <2>1. n + 1 \in 1 .. n + 1 /\ (n + 1) - 1 = n
    OBVIOUS
  <2> QED BY <1>4, <2>1 DEF Doubles
<1>10. f[n] \in Nat /\ PowerOfTwo(n) = f[n] /\ PowerOfTwo(n + 1) = g[n + 1] /\ PowerOfTwo(0) = 1
    BY <1>1, <1>2, <1>4 DEF Doubles
<1> QED BY <1>8, <1>9, <1>10

(* Powers of two grow. *)
LEMMA PowersGrow ==
    ASSUME NEW n \in Nat
    PROVE  \A j \in 0 .. n - 1 : PowerOfTwo(j) < PowerOfTwo(n)
<1> DEFINE T == {k \in 0 .. n : PowerOfTwo(k) > 0 /\ \A j \in 0 .. k - 1 : PowerOfTwo(j) < PowerOfTwo(k)}
<1>1. 0 \in T
    BY PowerStep
<1>2. ASSUME NEW k \in 0 .. n - 1, k \in T PROVE k + 1 \in T
  <2>1. k \in Nat /\ k + 1 \in 0 .. n /\ (k + 1) - 1 = k
    OBVIOUS
  <2>2. PowerOfTwo(k) \in Nat /\ PowerOfTwo(k + 1) = 2 * PowerOfTwo(k) /\ PowerOfTwo(k) > 0
    BY <1>2, <2>1, PowerStep
  <2>3. PowerOfTwo(k) < PowerOfTwo(k + 1) /\ PowerOfTwo(k + 1) > 0
    BY <2>2
  <2>4. ASSUME NEW j \in 0 .. k PROVE PowerOfTwo(j) < PowerOfTwo(k + 1)
    <3>1. CASE j = k
        BY <2>3, <3>1
    <3>2. CASE j # k
        <4>1. j \in 0 .. k - 1 /\ j \in Nat
            BY <3>2
        <4>2. PowerOfTwo(j) < PowerOfTwo(k) /\ PowerOfTwo(j) \in Nat
            BY <1>2, <4>1, PowerStep
        <4> QED BY <2>2, <2>3, <4>2
    <3> QED BY <3>1, <3>2
  <2> QED BY <2>1, <2>3, <2>4
<1>3. 0 .. n \subseteq T
  <2> HIDE DEF T
  <2> QED BY <1>1, <1>2, IntervalInduction
<1> QED BY <1>3

\* The number the bits of x below n stand for.
BitSum(x, n) == SumFunctionOnSet([k \in DOMAIN x |-> PowerOfTwo(k) * x[k]], 0 .. n - 1)

(* One bit more. *)
LEMMA BitSumStep ==
    ASSUME NEW N \in Nat, NEW x \in [0 .. N - 1 -> {0, 1}], NEW n \in 0 .. N - 1
    PROVE  BitSum(x, n) \in Int /\ BitSum(x, n + 1) = PowerOfTwo(n) * x[n] + BitSum(x, n)
<1> DEFINE f == [k \in DOMAIN x |-> PowerOfTwo(k) * x[k]]
           S == 0 .. n
           R == 0 .. n - 1
<1>0. n \in Nat /\ 0 \in Int /\ n - 1 \in Int /\ n \in Int
    OBVIOUS
<1>1. S \ {n} = R /\ n \in S /\ S \subseteq 0 .. N - 1 /\ R \subseteq S
    OBVIOUS
<1>2. IsFiniteSet(S) /\ IsFiniteSet(R)
    BY <1>0, FS_Interval
<1>3. \A k \in 0 .. N - 1 : f[k] = PowerOfTwo(k) * x[k] /\ f[k] \in Int
  <2>1. ASSUME NEW k \in 0 .. N - 1 PROVE f[k] = PowerOfTwo(k) * x[k] /\ f[k] \in Int
    <3>1. f[k] = PowerOfTwo(k) * x[k]
        OBVIOUS
    <3>2. PowerOfTwo(k) \in Nat
        <4>1. k \in Nat
            OBVIOUS
        <4> QED BY <4>1, PowerStep
    <3>3. x[k] \in Int
        OBVIOUS
    <3> HIDE DEF f
    <3> QED BY <3>1, <3>2, <3>3
  <2> QED BY <2>1
<1>4. BitSum(x, n) = SumFunctionOnSet(f, R) /\ BitSum(x, n + 1) = SumFunctionOnSet(f, S)
  <2>1. (n + 1) - 1 = n
    BY <1>0
  <2> QED BY <2>1 DEF BitSum
<1> HIDE DEF f, S, R
<1>5. IntOn(f, S) /\ IntOn(f, R)
    BY <1>1, <1>3 DEF IntOn
<1>6. SumFunctionOnSet(f, S) = f[n] + SumFunctionOnSet(f, R)
    BY <1>1, <1>2, <1>5, SumRemove
<1>7. SumFunctionOnSet(f, R) \in Int
    BY <1>2, <1>5, SumType
<1> QED BY <1>1, <1>3, <1>4, <1>6, <1>7

(* A number below 2^n has one sequence of n bits. *)
LEMMA BitsUnique ==
    ASSUME NEW N \in Nat, NEW x \in [0 .. N - 1 -> {0, 1}], NEW y \in [0 .. N - 1 -> {0, 1}]
    PROVE  /\ BitSum(x, N) \in 0 .. PowerOfTwo(N) - 1
           /\ BitSum(x, N) = BitSum(y, N) => x = y
<1> DEFINE T == {n \in 0 .. N :
                    /\ BitSum(x, n) \in 0 .. PowerOfTwo(n) - 1
                    /\ BitSum(y, n) \in 0 .. PowerOfTwo(n) - 1
                    /\ BitSum(x, n) = BitSum(y, n) => \A k \in 0 .. n - 1 : x[k] = y[k]}
<1>1. 0 \in T
  <2>1. 0 .. 0 - 1 = {} /\ 0 \in Nat
    OBVIOUS
  <2>2. BitSum(x, 0) = 0 /\ BitSum(y, 0) = 0
    BY <2>1, SumEmpty DEF BitSum
  <2>3. PowerOfTwo(0) = 1
    BY <2>1, PowerStep
  <2> QED BY <2>1, <2>2, <2>3
<1>2. ASSUME NEW n \in 0 .. N - 1, n \in T PROVE n + 1 \in T
  <2> DEFINE p == PowerOfTwo(n)
             c == x[n]
             d == y[n]
             s == BitSum(x, n)
             t == BitSum(y, n)
  <2>1. p \in Nat /\ PowerOfTwo(n + 1) = 2 * p
    <3>1. n \in Nat
        OBVIOUS
    <3> QED BY <3>1, PowerStep
  <2>2. BitSum(x, n + 1) = p * c + s /\ BitSum(y, n + 1) = p * d + t
    BY BitSumStep
  <2>3. s \in 0 .. p - 1 /\ t \in 0 .. p - 1 /\ (s = t => \A k \in 0 .. n - 1 : x[k] = y[k])
    BY <1>2
  <2>4. c \in {0, 1} /\ d \in {0, 1}
    OBVIOUS
  <2>5. n + 1 \in 0 .. N /\ \A k \in 0 .. (n + 1) - 1 : k = n \/ k \in 0 .. n - 1
    OBVIOUS
  <2>6. (c = d => x[n] = y[n])
    OBVIOUS
  <2> HIDE DEF p, c, d, s, t
  <2>7. p * c + s \in 0 .. 2 * p - 1 /\ p * d + t \in 0 .. 2 * p - 1
    <3>1. (c = 0 => p * c = 0) /\ (c = 1 => p * c = p) /\ (d = 0 => p * d = 0) /\ (d = 1 => p * d = p)
        BY <2>1
    <3> QED BY <2>1, <2>3, <2>4, <3>1
  <2>8. p * c + s = p * d + t => c = d /\ s = t
    <3>1. (c = 0 => p * c = 0) /\ (c = 1 => p * c = p) /\ (d = 0 => p * d = 0) /\ (d = 1 => p * d = p)
        BY <2>1
    <3> QED BY <2>1, <2>3, <2>4, <3>1
  <2>9. p * c + s = p * d + t => \A k \in 0 .. (n + 1) - 1 : x[k] = y[k]
    BY <2>3, <2>5, <2>6, <2>8
  <2> QED BY <2>1, <2>2, <2>5, <2>7, <2>9
<1>3. 0 .. N \subseteq T
  <2> HIDE DEF T
  <2> QED BY <1>1, <1>2, IntervalInduction
<1>4. N \in T
  <2> HIDE DEF T
  <2> QED BY <1>3
<1>5. BitSum(x, N) = BitSum(y, N) => x = y
    BY <1>4
<1> QED BY <1>4, <1>5

-------------------------------------------------------------------------------
(* The bits of a decomposition. *)

Bits(q, t) == VarsOf(q) \ {t}
Count(q, t) == Cardinality(Bits(q, t))

\* The bit of weight 2^k.
BitAt(q, t, k) == CHOOSE v \in Bits(q, t) : BitWeight(q, t, v) = PowerOfTwo(k)

\* Places 0 .. n - 1 number the bits by their weights.
Numbered(q, t, n) ==
    /\ n \in Nat /\ Cardinality(VarsOf(q)) = n + 1
    /\ \A k \in 0 .. n - 1 : BitAt(q, t, k) \in Bits(q, t)
    /\ \A k \in 0 .. n - 1 : BitWeight(q, t, BitAt(q, t, k)) = PowerOfTwo(k)
    /\ \A v \in Bits(q, t) : \E k \in 0 .. n - 1 : BitAt(q, t, k) = v
    /\ \A j, k \in 0 .. n - 1 : BitAt(q, t, j) = BitAt(q, t, k) => j = k

(* Different powers. *)
LEMMA PowersDiffer ==
    ASSUME NEW j \in Nat, NEW k \in Nat, PowerOfTwo(j) = PowerOfTwo(k)
    PROVE  j = k
<1>1. PowerOfTwo(j) \in Nat /\ PowerOfTwo(k) \in Nat
    BY PowerStep
<1>2. CASE j < k
  <2>1. j \in 0 .. k - 1
    BY <1>2
  <2>2. PowerOfTwo(j) < PowerOfTwo(k)
    BY <2>1, PowersGrow
  <2> QED BY <1>1, <2>2
<1>3. CASE k < j
  <2>1. k \in 0 .. j - 1
    BY <1>3
  <2>2. PowerOfTwo(k) < PowerOfTwo(j)
    BY <2>1, PowersGrow
  <2> QED BY <1>1, <2>2
<1> QED BY <1>2, <1>3

(* The bits of a decomposition have the weights 1, 2, 4 and so on. *)
LEMMA BitsNumbered ==
    ASSUME circuit \in Circuits, NEW q, IsPoly(q), NEW t \in VarsOf(q), IsTarget(q, t)
    PROVE  Numbered(q, t, Count(q, t))
<1> DEFINE bits == Bits(q, t)
           n == Count(q, t)
           R == 0 .. n - 1
           Powers == {PowerOfTwo(k) : k \in R}
           pow == [k \in R |-> PowerOfTwo(k)]
           W == [v \in bits |-> BitWeight(q, t, v)]
<1>1. IsFiniteSet(VarsOf(q))
  <2>1. IsFiniteSet(Variables)
    <3>1. 0 \in Int /\ One - 1 \in Int
        BY CircuitFacts DEF One
    <3> QED BY <3>1, FS_Interval DEF Variables
  <2> QED BY <2>1, VarsAre, FS_Subset
<1>2. IsFiniteSet(bits) /\ n \in Nat /\ Cardinality(VarsOf(q)) = n + 1
  <2>1. IsFiniteSet(bits) /\ Cardinality(bits) = Cardinality(VarsOf(q)) - 1
    BY <1>1, FS_RemoveElement DEF Bits
  <2>2. Cardinality(bits) \in Nat /\ Cardinality(VarsOf(q)) \in Nat
    BY <1>1, <2>1, FS_CardinalityType
  <2>3. n = Cardinality(bits)
    BY DEF Count
  <2> HIDE DEF bits, n
  <2> QED BY <2>1, <2>2, <2>3
<1>3. {W[v] : v \in bits} = Powers
  <2>1. {BitWeight(q, t, v) : v \in bits} = {PowerOfTwo(k) : k \in 0 .. n - 1}
    BY DEF IsTarget, Bits, Count
  <2> QED BY <2>1
<1> HIDE DEF bits, n
<1>4. \A j, k \in R : PowerOfTwo(j) = PowerOfTwo(k) => j = k
  <2>1. R \subseteq Nat
    OBVIOUS
  <2> QED BY <2>1, PowersDiffer
<1>5. IsFiniteSet(Powers) /\ Cardinality(Powers) = n
  <2>1. pow \in Bijection(R, Powers)
    <3>1. pow \in [R -> Powers]
        OBVIOUS
    <3>2. \A p \in Powers : \E k \in R : pow[k] = p
        OBVIOUS
    <3>3. \A j, k \in R : pow[j] = pow[k] => j = k
        BY <1>4
    <3> HIDE DEF pow, Powers, R
    <3> QED BY <3>1, <3>2, <3>3 DEF Bijection, Injection, Surjection, IsInjective
  <2>2. IsFiniteSet(R) /\ Cardinality(R) = n
    <3>1. 0 \in Int /\ n - 1 \in Int
        BY <1>2
    <3>2. IsFiniteSet(R) /\ Cardinality(R) = IF 0 > n - 1 THEN 0 ELSE (n - 1) - 0 + 1
        BY <3>1, FS_Interval
    <3> HIDE DEF R
    <3> QED BY <1>2, <3>2
  <2> HIDE DEF pow, Powers, R
  <2>3. ExistsBijection(R, Powers)
    BY <2>1 DEF ExistsBijection
  <2> QED BY <2>2, <2>3, FS_Bijection
<1>6. W \in Injection(bits, Powers)
  <2>1. W \in Surjection(bits, Powers)
    <3>1. W = [v \in bits |-> W[v]]
        OBVIOUS
    <3> HIDE DEF W, Powers
    <3> QED BY <1>3, <3>1 DEF Surjection
  <2>2. Cardinality(bits) = n
    BY DEF n, bits, Count
  <2> HIDE DEF W, Powers
  <2> QED BY <1>2, <1>5, <2>1, <2>2, FS_Surjection
<1>7. \A u, v \in bits : W[u] = W[v] => u = v
  <2> HIDE DEF W, Powers
  <2> QED BY <1>6 DEF Injection, IsInjective
<1>8. \A v \in bits : W[v] = BitWeight(q, t, v)
    OBVIOUS
<1>9. ASSUME NEW k \in R
      PROVE  BitAt(q, t, k) \in bits /\ BitWeight(q, t, BitAt(q, t, k)) = PowerOfTwo(k)
  <2>1. PowerOfTwo(k) \in Powers
    OBVIOUS
  <2> HIDE DEF Powers, W, R
  <2>2. PICK v \in bits : W[v] = PowerOfTwo(k)
    BY <1>3, <2>1
  <2>3. BitWeight(q, t, v) = PowerOfTwo(k)
    BY <1>8, <2>2
  <2>4. BitAt(q, t, k) = CHOOSE u \in bits : BitWeight(q, t, u) = PowerOfTwo(k)
    BY DEF BitAt, bits
  <2> QED BY <2>3, <2>4
<1>10. ASSUME NEW v \in bits PROVE \E k \in R : BitAt(q, t, k) = v
  <2>1. W[v] \in Powers
    BY <1>3
  <2>2. PICK k \in R : W[v] = PowerOfTwo(k)
    BY <2>1
  <2> HIDE DEF Powers, W, R
  <2>3. W[BitAt(q, t, k)] = W[v] /\ BitAt(q, t, k) \in bits
    BY <1>8, <1>9, <2>2
  <2> QED BY <1>7, <2>3
<1>11. ASSUME NEW j \in R, NEW k \in R, BitAt(q, t, j) = BitAt(q, t, k) PROVE j = k
  <2> HIDE DEF R
  <2>1. PowerOfTwo(j) = PowerOfTwo(k)
    BY <1>9, <1>11
  <2> QED BY <1>4, <2>1
<1> QED BY <1>2, <1>9, <1>10, <1>11 DEF Numbered, bits, n

\* The values of the bits, by weight.
BitsOf(q, t, n, a) == [k \in 0 .. n - 1 |-> a[Wire(BitAt(q, t, k))]]

\* The sign with which the bits appear.
Sign(q, t) == IF q[<<t>>] = 1 THEN -1 ELSE 1

(* The coefficient of a bit is its weight, with the sign. *)
LEMMA WeightIs ==
    ASSUME circuit \in Circuits, NEW q, IsPoly(q), IsLinear(q), NEW t \in VarsOf(q),
           IsTarget(q, t), NEW m \in DOMAIN q
    PROVE  Cong(q[m], Sign(q, t) * BitWeight(q, t, m[1]), P) /\ BitWeight(q, t, m[1]) \in Int
<1>1. P \in Nat \ {0, 1} /\ q[m] \in 1 .. P - 1 /\ m = <<m[1]>>
    BY CircuitFacts, LinearMonomial DEF IsPoly
<1> DEFINE c == q[m]
           w == BitWeight(q, t, m[1])
<1>2. w = IF q[<<t>>] = 1 THEN (P - c) % P ELSE c
    BY <1>1 DEF BitWeight, Neg
<1>3. Sign(q, t) = IF q[<<t>>] = 1 THEN -1 ELSE 1
    BY DEF Sign
<1>4. c \in 1 .. P - 1
    BY <1>1
<1> HIDE DEF c, w
<1>5. CASE q[<<t>>] = 1
  <2>1. (P - c) % P = P - c
    BY <1>1, <1>4
  <2>2. w = P - c /\ Sign(q, t) = -1
    BY <1>2, <1>3, <1>5, <2>1
  <2>3. w \in Int /\ 1 \in Int /\ c - (-1) * w = 1 * P
    BY <1>1, <1>4, <2>2
  <2>4. Cong(c, (-1) * w, P)
    BY <2>3, CongShown
  <2> QED BY <2>2, <2>3, <2>4 DEF c, w
<1>6. CASE q[<<t>>] # 1
  <2>1. w = c /\ Sign(q, t) = 1 /\ 1 * c = c /\ c \in Int /\ P \in Int
    BY <1>1, <1>2, <1>3, <1>4, <1>6
  <2>2. Cong(c, c, P)
    BY <2>1, CongSame
  <2> QED BY <2>1, <2>2 DEF c, w
<1> QED BY <1>5, <1>6

(* The coefficient of the target has the other sign. *)
LEMMA TargetSign ==
    ASSUME circuit \in Circuits, NEW q, NEW t, q[<<t>>] \in {1, P - 1},
           NEW x \in Int, NEW s \in Int, Cong(q[<<t>>] * x + Sign(q, t) * s, 0, P)
    PROVE  Cong(s, x, P)
<1>0. P \in Int
    BY CircuitFacts
<1>1. CASE q[<<t>>] = 1
  <2>1. Sign(q, t) = -1
    BY <1>1 DEF Sign
  <2>2. 1 * x + (-1) * s = x - s
    OBVIOUS
  <2>3. Cong(x - s, 0, P)
    BY <1>1, <2>1, <2>2
  <2>4. Cong(x, s, P)
    BY <1>0, <2>3, CongLess
  <2> QED BY <1>0, <2>4, CongSwap
<1>2. CASE q[<<t>>] # 1
  <2>1. Sign(q, t) = 1 /\ q[<<t>>] = P - 1
    BY <1>2 DEF Sign
  <2> DEFINE z == (P - 1) * x + 1 * s
  <2>2. Cong(z, 0, P)
    BY <2>1
  <2>3. z \in Int /\ s - x \in Int /\ z - (s - x) = x * P
    BY <1>0
  <2> HIDE DEF z
  <2>4. Cong(z, s - x, P)
    BY <2>3, CongShown
  <2>5. Cong(s - x, z, P)
    BY <1>0, <2>3, <2>4, CongSwap
  <2>6. Cong(s - x, 0, P)
    <3>1. 0 \in Int
        OBVIOUS
    <3> QED BY <1>0, <2>2, <2>3, <2>5, <3>1, CongTrans
  <2> QED BY <1>0, <2>6, CongLess
<1> QED BY <1>1, <1>2

(* On a solution with bits 0 and 1, the bits add up to the target. *)
LEMMA TargetIs ==
    ASSUME Given, NEW q, Vanishes(q), IsLinear(q), NEW t \in VarsOf(q), IsTarget(q, t),
           NEW a \in solutions, \A v \in Bits(q, t) : a[Wire(v)] \in {0, 1}
    PROVE  LET n == Count(q, t)
               x == BitsOf(q, t, n, a)
           IN  x \in [0 .. n - 1 -> {0, 1}] /\ Cong(BitSum(x, n), a[Wire(t)], P)
<1> DEFINE n == Count(q, t)
           x == BitsOf(q, t, n, a)
           D == DOMAIN q
           mt == <<t>>
           S == D \ {mt}
           f == TermsAt(q, a)
           R == 0 .. n - 1
           h == [m \in S |-> CHOOSE k \in R : BitAt(q, t, k) = m[1]]
           g0 == [k \in DOMAIN x |-> PowerOfTwo(k) * x[k]]
           g == [k \in R |-> Sign(q, t) * g0[k]]
           X == a[Wire(t)]
<1>0. /\ circuit \in Circuits /\ IsPoly(q) /\ P \in Int /\ Valued(a) /\ PolyAt(q, a) = 0
      /\ Sign(q, t) \in Int
    BY CircuitFacts, SolutionsAre DEF Given, Vanishes, Sign
<1>1. Numbered(q, t, n)
    BY <1>0, BitsNumbered
<1>2. \A m \in D : m = <<m[1]>> /\ m[1] \in VarsOf(q) /\ m[1] \in Variables
    BY <1>0, LinearMonomial
<1>3. \A v \in VarsOf(q) : <<v>> \in D
  <2>1. ASSUME NEW v \in VarsOf(q) PROVE <<v>> \in D
    <3>1. PICK m \in D : v \in Range(m)
        BY DEF VarsOf
    <3>2. m = <<m[1]>>
        BY <1>2
    <3>3. v = m[1]
        BY <3>1, <3>2 DEF Range
    <3> QED BY <3>2, <3>3
  <2> QED BY <2>1
<1>4. mt \in D /\ \A m \in S : m[1] \in Bits(q, t)
  <2>1. \A m \in S : m[1] # t
    BY <1>2
  <2> QED BY <1>2, <1>3, <2>1 DEF Bits
<1>5. \A v \in Bits(q, t) : <<v>> \in S
  <2>1. ASSUME NEW v \in Bits(q, t) PROVE <<v>> # <<t>>
    BY DEF Bits
  <2> QED BY <1>3, <2>1 DEF Bits
<1>6. x \in [R -> {0, 1}] /\ \A k \in R : x[k] = a[Wire(BitAt(q, t, k))]
  <2>1. \A k \in R : BitAt(q, t, k) \in Bits(q, t)
    BY <1>1 DEF Numbered
  <2>2. x = [k \in R |-> a[Wire(BitAt(q, t, k))]]
    BY DEF BitsOf
  <2> HIDE DEF x, R
  <2> QED BY <2>1, <2>2
<1>7. \A m \in S : h[m] \in R /\ BitAt(q, t, h[m]) = m[1]
  <2>1. ASSUME NEW m \in S PROVE h[m] \in R /\ BitAt(q, t, h[m]) = m[1]
    <3>1. \E k \in R : BitAt(q, t, k) = m[1]
        BY <1>1, <1>4 DEF Numbered
    <3>2. h[m] = CHOOSE k \in R : BitAt(q, t, k) = m[1]
        OBVIOUS
    <3> HIDE DEF h, R
    <3> QED BY <3>1, <3>2
  <2> QED BY <2>1
<1>8. \A m \in D : f[m] = q[m] * a[Wire(m[1])] /\ a[Wire(m[1])] \in Int /\ q[m] \in Int
  <2>1. ASSUME NEW m \in D PROVE MonomialAt(m, a) = a[Wire(m[1])] /\ a[Wire(m[1])] \in Int
    <3>1. m = <<m[1]>> /\ m[1] \in Variables
        BY <1>2
    <3>2. MonomialAt(<<m[1]>>, a) = a[Wire(m[1])] /\ a[Wire(m[1])] \in Int
        BY <1>0, <3>1, VariableAt
    <3> QED BY <3>1, <3>2
  <2>2. \A m \in D : q[m] \in Int
    BY <1>0 DEF IsPoly
  <2> QED BY <2>1, <2>2 DEF TermsAt
<1>9. IntOn(f, D) /\ IsFiniteSet(D) /\ Cong(SumFunctionOnSet(f, D), 0, P)
    BY <1>0, TermsAre DEF IsPoly
<1>10. IsFiniteSet(S) /\ IntOn(f, S) /\ SumFunctionOnSet(f, D) = f[mt] + SumFunctionOnSet(f, S)
  <2> HIDE DEF f, D, mt
  <2>1. IsFiniteSet(S) /\ IntOn(f, S)
    BY <1>9, FS_RemoveElement DEF IntOn
  <2> QED BY <1>4, <1>9, <2>1, SumRemove
<1>11. DOMAIN x = R /\ \A k \in R : g0[k] = PowerOfTwo(k) * x[k]
    BY <1>6
<1>12. BitSum(x, n) = SumFunctionOnSet(g0, R)
    BY DEF BitSum
<1>13. \A k \in R : g[k] = Sign(q, t) * g0[k]
    OBVIOUS
<1>14. n \in Nat
    BY <1>1 DEF Numbered
<1>15. \A k \in R : PowerOfTwo(k) \in Nat
  <2>1. \A k \in R : k \in Nat
    OBVIOUS
  <2> HIDE DEF R
  <2> QED BY <2>1, PowerStep
<1>16. IsFiniteSet(R)
  <2>1. 0 \in Int /\ n - 1 \in Int
    BY <1>14
  <2> QED BY <2>1, FS_Interval
<1>17. f[mt] = q[mt] * X /\ X \in Int /\ q[mt] \in {1, P - 1}
  <2>1. mt[1] = t
    OBVIOUS
  <2>2. q[mt] \in {1, P - 1}
    BY DEF IsTarget
  <2> HIDE DEF f, mt
  <2> QED BY <1>4, <1>8, <2>1, <2>2
<1> HIDE DEF n, x, D, S, f, R, h, g0, g, X
<1>18. IntOn(g0, R) /\ IntOn(g, R)
  <2>1. ASSUME NEW k \in R PROVE g0[k] \in Int
    <3>1. x[k] \in Int
        BY <1>6
    <3> QED BY <1>11, <1>15, <3>1
  <2> QED BY <1>0, <1>13, <2>1 DEF IntOn
<1>19. Pairs(h, f, S, g, R, P)
  <2>1. ASSUME NEW m \in S PROVE h[m] \in R /\ Cong(f[m], g[h[m]], P)
    <3> DEFINE k == h[m]
               w == BitWeight(q, t, m[1])
               y == a[Wire(m[1])]
               s == Sign(q, t)
               c == q[m]
    <3>1. m \in D
        BY DEF S
    <3>2. k \in R /\ BitAt(q, t, k) = m[1]
        BY <1>7
    <3>3. BitWeight(q, t, BitAt(q, t, k)) = PowerOfTwo(k)
        BY <1>1, <3>2 DEF Numbered, R
    <3>4. PowerOfTwo(k) = w /\ x[k] = y
        BY <1>6, <3>2, <3>3
    <3>5. f[m] = c * y /\ y \in Int /\ c \in Int
        BY <1>8, <3>1
    <3>6. Cong(c, s * w, P) /\ w \in Int /\ s \in Int
        BY <1>0, <3>1, WeightIs DEF D
    <3>7. g[k] = s * (w * y)
        BY <1>11, <1>13, <3>2, <3>4
    <3> HIDE DEF k, w, y, s, c
    <3>8. Cong(c * y, (s * w) * y, P)
        <4>1. s * w \in Int
            BY <3>6
        <4> QED BY <1>0, <3>5, <3>6, <4>1, CongTimes
    <3>9. (s * w) * y = s * (w * y)
        BY <3>5, <3>6
    <3> QED BY <3>2, <3>5, <3>7, <3>8, <3>9 DEF k
  <2>2. ASSUME NEW m \in S, NEW m2 \in S, h[m] = h[m2] PROVE m = m2
    <3>1. m \in D /\ m2 \in D
        BY DEF S
    <3>2. m[1] = m2[1]
        BY <1>7, <2>2
    <3>3. m = <<m[1]>> /\ m2 = <<m2[1]>>
        BY <1>2, <3>1
    <3> QED BY <3>2, <3>3
  <2>3. ASSUME NEW k \in R, \A m \in S : h[m] # k PROVE Cong(g[k], 0, P)
    <3> DEFINE v == BitAt(q, t, k)
               m == <<v>>
    <3>1. v \in Bits(q, t)
        BY <1>1 DEF Numbered, R
    <3>2. m \in S /\ m[1] = v
        BY <1>5, <3>1
    <3> HIDE DEF m
    <3>3. h[m] \in R /\ BitAt(q, t, h[m]) = BitAt(q, t, k)
        BY <1>7, <3>2
    <3>4. h[m] = k
        BY <1>1, <3>3 DEF Numbered, R
    <3> QED BY <2>3, <3>2, <3>4
  <2> QED BY <2>1, <2>2, <2>3 DEF Pairs
<1>20. Cong(SumFunctionOnSet(f, S), SumFunctionOnSet(g, R), P)
    BY <1>0, <1>10, <1>16, <1>18, <1>19, SumPaired
<1>21. SumFunctionOnSet(g, R) = Sign(q, t) * SumFunctionOnSet(g0, R)
    BY <1>0, <1>13, <1>16, <1>18, SumScaled
<1> DEFINE b == SumFunctionOnSet(g0, R)
           r == SumFunctionOnSet(f, S)
           e == q[mt] * X
           s == Sign(q, t)
<1>22. b \in Int /\ r \in Int /\ e \in Int /\ s \in Int
  <2>1. b \in Int /\ r \in Int
    BY <1>10, <1>16, <1>18, SumType
  <2>2. q[mt] \in Int
    BY <1>0, <1>17
  <2>3. e \in Int
    BY <1>17, <2>2
  <2> QED BY <1>0, <2>1, <2>3
<1>23. Cong(e + r, 0, P) /\ Cong(r, s * b, P)
    BY <1>9, <1>10, <1>17, <1>20, <1>21
<1>24. BitSum(x, n) = b
    BY <1>12
<1> HIDE DEF b, r, e, s
<1>25. Cong(e + s * b, 0, P)
  <2>1. s * b \in Int
    BY <1>22
  <2> DEFINE u == s * b
  <2> HIDE DEF u
  <2>2. u \in Int /\ e + r \in Int /\ e + u \in Int /\ 0 \in Int /\ Cong(u, r, P)
    <3>1. u \in Int /\ Cong(r, u, P)
        BY <1>23, <2>1 DEF u
    <3>2. Cong(u, r, P)
        BY <1>0, <1>22, <3>1, CongSwap
    <3> QED BY <1>22, <3>1, <3>2
  <2>3. Cong(e + u, e + r, P)
    BY <1>0, <1>22, <2>2, CongSame, CongSum
  <2>4. Cong(e + u, 0, P)
    BY <1>0, <1>23, <2>2, <2>3, CongTrans
  <2> QED BY <2>4 DEF u
<1>26. Cong(q[<<t>>] * X + Sign(q, t) * b, 0, P) /\ q[<<t>>] \in {1, P - 1}
    BY <1>17, <1>25 DEF e, s
<1>27. Cong(b, X, P)
    BY <1>0, <1>17, <1>22, <1>26, TargetSign
<1>28. x \in [0 .. n - 1 -> {0, 1}]
    BY <1>6 DEF R
<1> QED BY <1>24, <1>27, <1>28 DEF x, n, X

(* Bits of a decomposition whose target is determined are determined. *)
LEMMA BitsDetermined ==
    ASSUME Given, RangesHold(ranges), NEW q, Vanishes(q), NEW t \in VarsOf(q), IsTarget(q, t),
           IsLinear(q), FitsField(q), Determined(Wire(t)), NEW v \in Bits(q, t),
           \A u \in Bits(q, t) : IsBinary(Wire(u))
    PROVE  Determined(Wire(v))
<1> DEFINE n == Count(q, t)
           X(a) == BitsOf(q, t, n, a)
<1>0. circuit \in Circuits /\ IsPoly(q) /\ P \in Nat \ {0} /\ P \in Int /\ t \in Variables
    BY CircuitFacts, VarsAre DEF Given, Vanishes
<1>1. Numbered(q, t, n)
    BY <1>0, BitsNumbered
<1>2. n \in Nat /\ PowerOfTwo(n) \in Nat /\ PowerOfTwo(n) <= P
  <2>1. n \in Nat /\ Cardinality(VarsOf(q)) - 1 = n
    BY <1>1 DEF Numbered
  <2> HIDE DEF n
  <2>2. PowerOfTwo(n) \in Nat
    BY <2>1, PowerStep
  <2> QED BY <2>1, <2>2 DEF FitsField
<1>3. Wire(t) \in Wires
    BY <1>0, VariableWire
<1>4. ASSUME NEW a \in solutions
      PROVE  /\ X(a) \in [0 .. n - 1 -> {0, 1}] /\ Cong(BitSum(X(a), n), a[Wire(t)], P)
             /\ BitSum(X(a), n) \in 0 .. (P - 1) /\ a[Wire(t)] \in Int
  <2>1. \A u \in Bits(q, t) : a[Wire(u)] \in {0, 1}
    BY DEF IsBinary, RangesHold
  <2>2. X(a) \in [0 .. n - 1 -> {0, 1}] /\ Cong(BitSum(X(a), n), a[Wire(t)], P)
    BY <2>1, TargetIs
  <2> DEFINE x == X(a)
  <2> HIDE DEF x, n
  <2>3. BitSum(x, n) \in 0 .. PowerOfTwo(n) - 1
    BY <1>2, <2>2, BitsUnique DEF x
  <2>4. BitSum(x, n) \in 0 .. (P - 1)
    BY <1>0, <1>2, <2>3
  <2>5. a[Wire(t)] \in Int
    BY <1>3, SolutionsAre DEF Valued
  <2> QED BY <2>2, <2>4, <2>5 DEF x
<1>5. PICK k \in 0 .. n - 1 : BitAt(q, t, k) = v
    BY <1>1 DEF Numbered
<1>6. ASSUME NEW a \in solutions, NEW b \in solutions, SameInputs(a, b)
      PROVE  a[Wire(v)] = b[Wire(v)]
  <2> DEFINE x == X(a)
             y == X(b)
             s == BitSum(x, n)
             r == BitSum(y, n)
             z == a[Wire(t)]
  <2>1. a[Wire(t)] = b[Wire(t)]
    BY <1>6 DEF Determined
  <2>2. /\ x \in [0 .. n - 1 -> {0, 1}] /\ y \in [0 .. n - 1 -> {0, 1}]
        /\ s \in 0 .. (P - 1) /\ r \in 0 .. (P - 1) /\ z \in Int
        /\ Cong(s, z, P) /\ Cong(r, z, P)
    BY <1>4, <2>1
  <2>3. x[k] = a[Wire(v)] /\ y[k] = b[Wire(v)]
    BY <1>5 DEF BitsOf
  <2> HIDE DEF x, y, n, z
  <2>4. s = r
    <3> DEFINE s0 == s
               r0 == r
    <3> HIDE DEF s0, r0, s, r
    <3>1. s \in Int /\ r \in Int
        BY <1>0, <2>2
    <3>2. Cong(z, r, P)
        BY <1>0, <2>2, <3>1, CongSwap
    <3>3. Cong(s, r, P)
        BY <1>0, <2>2, <3>1, <3>2, CongTrans
    <3> QED BY <1>0, <2>2, <3>3, CongEqual
  <2>5. x = y
    BY <1>2, <2>2, <2>4, BitsUnique
  <2> QED BY <2>3, <2>5
<1> QED BY <1>6 DEF Determined

(* What one equality of a pass of basis2 makes known is determined. *)
LEMMA Basis2AtSound ==
    ASSUME IInv, Given, Sound, RangesHold(ranges), NEW K, AllDetermined(K),
           NEW q \in Range(equalities), NEW w \in Basis2At(q, K)
    PROVE  Determined(w)
<1>1. CASE w \in K
    BY <1>1 DEF AllDetermined
<1>2. CASE w \notin K
  <2>1. PICK t \in Decompositions(q) :
            /\ \A b \in {Wire(v) : v \in VarsOf(q) \ {t}} : IsBinary(b)
            /\ FitsField(q) /\ Wire(t) \in K
            /\ w \in {Wire(v) : v \in VarsOf(q) \ {t}} /\ w \in unknown
    BY <1>2 DEF Basis2At
  <2>2. PICK v \in VarsOf(q) \ {t} : w = Wire(v)
    BY <2>1
  <2>3. t \in VarsOf(q) /\ IsTarget(q, t) /\ IsLinear(q)
    BY DEF Decompositions
  <2>4. CASE IsMarker(q)
    <3>1. PICK x \in known \ Inputs : q = Marker(x)
        BY <2>4 DEF IsMarker
    <3>2. x \in Wires /\ x \notin unknown /\ circuit \in Circuits
        BY DEF IInv, Partition, Given
    <3>3. w = x
        BY <2>2, <3>1, <3>2, MarkerWires
    <3> QED BY <2>1, <3>2, <3>3
  <2>5. CASE Vanishes(q)
    <3>1. v \in Bits(q, t) /\ \A u \in Bits(q, t) : IsBinary(Wire(u))
        BY <2>1 DEF Bits
    <3>2. Determined(Wire(t))
        BY <2>1 DEF AllDetermined
    <3>3. FitsField(q)
        BY <2>1
    <3>4. Determined(Wire(v))
        BY <2>3, <2>5, <3>1, <3>2, <3>3, BitsDetermined
    <3> QED BY <2>2, <3>4
  <2> QED BY <2>4, <2>5 DEF Sound
<1> QED BY <1>1, <1>2

(* What a pass of basis2 makes known is determined. *)
LEMMA Basis2Sound ==
    ASSUME IInv, Given, Sound, RangesHold(ranges), KnownDetermined
    PROVE  \A w \in Basis2Known : Determined(w)
<1> DEFINE S == {K \in Between : AllDetermined(K)}
<1>1. known \in S
    BY DEF Between, IInv, Partition, KnownDetermined, AllDetermined
<1>2. ASSUME NEW K \in S, NEW i \in DOMAIN equalities PROVE Basis2At(equalities[i], K) \in S
  <2>1. equalities[i] \in Range(equalities)
    BY DEF Range
  <2>2. Basis2At(equalities[i], K) \in Between
    BY DEF Basis2At, Between, IInv, Partition
  <2>3. AllDetermined(Basis2At(equalities[i], K))
    <3>1. AllDetermined(K)
        OBVIOUS
    <3> QED BY <2>1, <3>1, Basis2AtSound DEF AllDetermined
  <2> QED BY <2>2, <2>3
<1>3. Basis2Known \in S
  <2> HIDE DEF S
  <2> QED BY <1>1, <1>2, Basis2Fold
<1> QED BY <1>3 DEF AllDetermined

-------------------------------------------------------------------------------
(* tecomplete: the addition of two points of a twisted Edwards curve. *)

(* The equalities over the wires themselves hold on the solutions. *)
LEMMA OriginalsAre ==
    ASSUME IInv, Given, Sound
    PROVE  /\ Len(Originals) \in Nat /\ DOMAIN Originals = 1 .. Len(Originals)
           /\ \A i \in DOMAIN Originals :
                 Vanishes(Originals[i]) /\ VarsOf(Originals[i]) \subseteq Wires
<1> DEFINE S == {q \in Range(equalities) : VarsOf(q) \subseteq Wires}
<1>1. Originals \in Seq(Range(equalities) \cap S)
  <2>1. equalities \in Seq(Range(equalities))
    BY DEF IInv, IRWellFormed
  <2> QED BY <2>1, SelectedSeq DEF Originals
<1>2. ASSUME NEW q \in S PROVE Vanishes(q) /\ VarsOf(q) \subseteq Wires
  <2>1. ASSUME NEW w \in known \ Inputs, q = Marker(w) PROVE FALSE
    <3>1. w \in Wires /\ NWires \in Nat \ {0}
        BY CircuitFacts DEF IInv, Partition, Given
    <3>2. NWires + w \in VarsOf(q)
        <4>1. <<NWires + w>> \in DOMAIN q /\ NWires + w \in Range(<<NWires + w>>)
            BY <2>1 DEF Marker, Range
        <4> QED BY <4>1, VarsIn
    <3>3. NWires + w \notin Wires
        BY <3>1 DEF Wires
    <3> QED BY <3>2, <3>3
  <2> QED BY <2>1 DEF Sound, IsMarker
<1> HIDE DEF S
<1>3. Len(Originals) \in Nat /\ DOMAIN Originals = 1 .. Len(Originals)
      /\ \A i \in 1 .. Len(Originals) : Originals[i] \in S
    BY <1>1, SeqParts
<1> QED BY <1>2, <1>3

(* A wire is its own first variable. *)
LEMMA WireValue ==
    ASSUME Given, NEW a \in solutions, NEW w \in Wires
    PROVE  /\ a[w] \in Int /\ a[w] \in GF /\ MonomialAt(<<w>>, a) = a[w]
           /\ \A v \in Wires : MonomialAt(<<w, v>>, a) = a[w] * a[v]
<1>0. circuit \in Circuits /\ a \in [Wires -> GF] /\ Valued(a)
    BY SolutionsAre
<1>1. ASSUME NEW v \in Wires PROVE v \in Variables /\ Wire(v) = v
  <2>1. NWires \in Nat \ {0} /\ v \in 0 .. NWires - 1
    BY <1>0, CircuitFacts DEF Wires
  <2>2. v % NWires = v
    <3> HIDE DEF NWires
    <3> QED BY <2>1
  <2>3. v \in 0 .. (2 * NWires) - 1
    <3> HIDE DEF NWires
    <3> QED BY <2>1
  <2> QED BY <2>2, <2>3 DEF Wire, Variables, One
<1>2. a[w] \in Int /\ a[w] \in GF
    BY <1>0 DEF Valued
<1>3. MonomialAt(<<w>>, a) = a[w]
    BY <1>0, <1>1, VariableAt
<1>4. ASSUME NEW v \in Wires PROVE MonomialAt(<<w, v>>, a) = a[w] * a[v]
    BY <1>0, <1>1, ProductAt
<1> QED BY <1>2, <1>3, <1>4

(* Two factors of a wire multiply to it. *)
LEMMA FactorsMultiply ==
    ASSUME IInv, Given, Sound, NEW w, NEW x \in Factors(Originals, w),
           NEW y \in Factors(Originals, w), x # y
    PROVE  /\ w \in Wires /\ x \in Wires /\ y \in Wires
           /\ \A a \in solutions : Cong(a[w], a[x] * a[y], P)
<1> DEFINE defs == {i \in DOMAIN Originals : DefinesProduct(Originals[i], w)}
           q == Originals[Max(defs)]
<1>0. circuit \in Circuits /\ P \in Int
    BY CircuitFacts DEF Given
<1>1. defs # {} /\ x \in VarsOf(q) \ {w} /\ y \in VarsOf(q) \ {w}
  <2>1. Factors(Originals, w) = IF defs = {} THEN {} ELSE VarsOf(q) \ {w}
    BY DEF Factors
  <2> HIDE DEF defs, q
  <2> QED BY <2>1
<1>2. Max(defs) \in defs
  <2>1. Len(Originals) \in Nat /\ defs \in SUBSET (1 .. Len(Originals))
    BY OriginalsAre
  <2> HIDE DEF defs
  <2> QED BY <1>1, <2>1, MaxMember
<1>3. Vanishes(q) /\ VarsOf(q) \subseteq Wires /\ DefinesProduct(q, w)
    BY <1>2, OriginalsAre
<1> HIDE DEF defs, q
<1>4. PICK m \in DOMAIN q : /\ IsProduct(m) /\ q[m] = P - 1
                            /\ DOMAIN q = {<<w>>, m} /\ q[<<w>>] = 1
    BY <1>3 DEF DefinesProduct
<1>5. m \in Seq(Variables) /\ IsPoly(q)
    BY <1>3, <1>4 DEF Vanishes, IsPoly, Monomials
<1>6. m = <<m[1], m[2]>> /\ <<w>> # m
  <2> HIDE DEF Variables
  <2> QED BY <1>4, <1>5 DEF IsProduct
<1>7. VarsOf(q) = {w, m[1], m[2]}
  <2>1. Range(<<w>>) = {w} /\ Range(<<m[1], m[2]>>) = {m[1], m[2]}
    BY DEF Range
  <2>2. VarsOf(q) = Range(<<w>>) \cup Range(<<m[1], m[2]>>)
    BY <1>4, <1>6 DEF VarsOf
  <2> QED BY <2>1, <2>2
<1>8. w \in Wires /\ m[1] \in Wires /\ m[2] \in Wires
    BY <1>3, <1>7
<1>9. (x = m[1] /\ y = m[2]) \/ (x = m[2] /\ y = m[1])
    BY <1>1, <1>7
<1>10. ASSUME NEW a \in solutions PROVE Cong(a[w], a[x] * a[y], P)
  <2> DEFINE z == a[x] * a[y]
             u == a[w]
  <2>1. a[m[1]] \in Int /\ a[m[2]] \in Int /\ u \in Int /\ MonomialAt(<<w>>, a) = u
        /\ MonomialAt(<<m[1], m[2]>>, a) = a[m[1]] * a[m[2]]
    BY <1>8, WireValue
  <2>2. z = a[m[1]] * a[m[2]] /\ z \in Int
    BY <1>9, <2>1
  <2>3. MonomialAt(m, a) = z
    BY <1>6, <2>1, <2>2
  <2>4. PolyAt(q, a) = 0 /\ Valued(a)
    BY <1>3, SolutionsAre DEF Vanishes
  <2>5. Cong(q[<<w>>] * MonomialAt(<<w>>, a) + q[m] * MonomialAt(m, a), 0, P)
    BY <1>0, <1>4, <1>5, <1>6, <2>4, TwoTerms
  <2> HIDE DEF z, u
  <2>6. Cong(1 * u + (P - 1) * z, 0, P)
    BY <1>4, <2>1, <2>3, <2>5
  <2> DEFINE s == 1 * u + (P - 1) * z
  <2>7. s \in Int /\ u - z \in Int /\ z \in Int /\ (u - z) - s = (0 - z) * P
    BY <1>0, <2>1, <2>2
  <2> HIDE DEF s
  <2>8. Cong(u - z, s, P)
    <3>1. 0 - z \in Int
        BY <2>7
    <3> QED BY <2>7, <3>1, CongShown
  <2>9. Cong(u - z, 0, P)
    <3>1. 0 \in Int /\ Cong(s, 0, P)
        BY <2>6 DEF s
    <3> QED BY <1>0, <2>7, <2>8, <3>1, CongTrans
  <2> QED BY <1>0, <2>1, <2>2, <2>9, CongLess DEF u, z
<1> QED BY <1>8, <1>9, <1>10

(* A nonempty set of indices has a least one. *)
LEMMA MinMember ==
    ASSUME NEW n \in Nat, NEW s \in SUBSET (1 .. n), s # {}
    PROVE  Min(s) \in s
<1> DEFINE T == {k \in 0 .. n : (\E j \in 1 .. k : j \in s) => Min(s) \in s}
<1>1. 0 \in T
  <2>1. ~ \E j \in 1 .. 0 : j \in s
    OBVIOUS
  <2> QED BY <2>1
<1>2. ASSUME NEW k \in 0 .. n - 1, k \in T PROVE k + 1 \in T
  <2>1. ASSUME NEW j \in 1 .. k + 1, j \in s PROVE Min(s) \in s
    <3>1. CASE \E i \in 1 .. k : i \in s
        BY <1>2, <3>1
    <3>2. CASE ~ \E i \in 1 .. k : i \in s
        <4>1. j = k + 1
            BY <2>1, <3>2
        <4>2. ASSUME NEW i \in s PROVE k + 1 <= i
            <5>1. i \in 1 .. n /\ i \notin 1 .. k
                BY <3>2
            <5> QED BY <5>1
        <4>3. \E x \in s : \A y \in s : x <= y
            BY <2>1, <4>1, <4>2
        <4> QED BY <4>3 DEF Min
    <3> QED BY <3>1, <3>2
  <2>2. k + 1 \in 0 .. n
    OBVIOUS
  <2> QED BY <2>1, <2>2
<1>3. 0 .. n \subseteq T
  <2> HIDE DEF T
  <2> QED BY <1>1, <1>2, IntervalInduction
<1>4. n \in T
  <2> HIDE DEF T
  <2> QED BY <1>3
<1>5. \E j \in 1 .. n : j \in s
    OBVIOUS
<1> QED BY <1>4, <1>5

\* The quadratic monomial of a denominator, its variable, the other one.
HeadOf(q, m, v, u) ==
    /\ m \in DOMAIN q /\ IsProduct(m)
    /\ \A t \in DOMAIN q : Len(t) > 1 => t = m
    /\ <<v>> \in DOMAIN q /\ q[<<v>>] = 1
    /\ (m[1] = v /\ m[2] = u) \/ (m[2] = v /\ m[1] = u)

(* A denominator has one. *)
LEMMA HeadExists ==
    ASSUME NEW q, NEW dx \in Denominators(q)
    PROVE  \E m \in DOMAIN q :
              /\ HeadOf(q, m, dx.v, dx.tau) /\ dx.d = q[m]
              /\ dx.num = [t \in {t \in DOMAIN q : dx.v \notin Range(t)} |-> Neg(q[t])]
<1> DEFINE quads == {m \in DOMAIN q : Len(m) > 1}
           heads(m) == {k \in 1 .. 2 : Coefficient(q, <<m[k]>>) = 1}
           Of(m) == [v |-> m[Min(heads(m))], tau |-> m[3 - Min(heads(m))], d |-> q[m],
                     num |-> [t \in {t \in DOMAIN q : m[Min(heads(m))] \notin Range(t)} |-> Neg(q[t])]]
<1>1. PICK m \in {m \in quads : quads = {m} /\ IsProduct(m) /\ heads(m) # {}} : dx = Of(m)
    BY DEF Denominators
<1>2. m \in quads /\ quads = {m} /\ IsProduct(m) /\ heads(m) # {}
    BY <1>1
<1> DEFINE k == Min(heads(m))
<1>3. k \in heads(m)
  <2>1. 2 \in Nat /\ heads(m) \in SUBSET (1 .. 2)
    OBVIOUS
  <2> HIDE DEF heads
  <2> QED BY <1>2, <2>1, MinMember
<1>4. k \in 1 .. 2 /\ Coefficient(q, <<m[k]>>) = 1
  <2> HIDE DEF k
  <2> QED BY <1>3
<1>5. dx.v = m[k] /\ dx.tau = m[3 - k] /\ dx.d = q[m]
      /\ dx.num = [t \in {t \in DOMAIN q : m[k] \notin Range(t)} |-> Neg(q[t])]
    BY <1>1
<1> HIDE DEF k
<1>6. <<m[k]>> \in DOMAIN q /\ q[<<m[k]>>] = 1
    BY <1>4 DEF Coefficient
<1>7. (m[1] = dx.v /\ m[2] = dx.tau) \/ (m[2] = dx.v /\ m[1] = dx.tau)
  <2>1. CASE k = 1
    BY <1>5, <2>1
  <2>2. CASE k = 2
    BY <1>5, <2>2
  <2> QED BY <1>4, <2>1, <2>2
<1>8. m \in DOMAIN q /\ \A t \in DOMAIN q : Len(t) > 1 => t = m
    BY <1>2
<1>9. HeadOf(q, m, dx.v, dx.tau)
    BY <1>2, <1>5, <1>6, <1>7, <1>8 DEF HeadOf
<1> QED BY <1>5, <1>8, <1>9

(* On a solution the numerator is the denominator times the variable. *)
LEMMA DenominatorIs ==
    ASSUME Given, NEW q, Vanishes(q), VarsOf(q) \subseteq Wires, NEW dx \in Denominators(q)
    PROVE  /\ dx.v \in Wires /\ dx.tau \in Wires /\ dx.d \in 1 .. P - 1
           /\ IsFiniteSet(DOMAIN dx.num)
           /\ \A a \in solutions :
                 /\ IntOn(TermsAt(dx.num, a), DOMAIN dx.num)
                 /\ Cong(a[dx.v] * (1 + dx.d * a[dx.tau]),
                         SumFunctionOnSet(TermsAt(dx.num, a), DOMAIN dx.num), P)
<1> DEFINE v == dx.v
           u == dx.tau
           num == dx.num
           D == DOMAIN q
           N == {t \in D : v \notin Range(t)}
<1>0. circuit \in Circuits /\ P \in Nat \ {0, 1} /\ P \in Int /\ IsPoly(q)
    BY CircuitFacts DEF Given, Vanishes
<1>1. PICK m \in D : HeadOf(q, m, v, u) /\ dx.d = q[m] /\ num = [t \in N |-> Neg(q[t])]
  <2> HIDE DEF v, u, num, D, N
  <2> QED BY HeadExists DEF v, u, num, D, N
<1>2. IsFiniteSet(D) /\ \A t \in D : t \in Seq(Variables) /\ t \in Monomials /\ q[t] \in 1 .. P - 1
    BY <1>0 DEF IsPoly, Monomials
<1> DEFINE h == <<v>>
<1>3. m = <<m[1], m[2]>> /\ h # m /\ h \in D /\ q[h] = 1
  <2>1. h \in D /\ q[h] = 1 /\ Len(m) = 2 /\ m \in Seq(Variables)
    BY <1>1, <1>2 DEF HeadOf, IsProduct
  <2>2. Len(h) = 1
    OBVIOUS
  <2> HIDE DEF Variables, h, D
  <2>3. m = <<m[1], m[2]>>
    BY <2>1
  <2>4. h # m
    <3>1. Len(m) = 2 /\ Len(h) = 1
        BY <2>1, <2>2
    <3>2. Len(m) # Len(h)
        BY <3>1
    <3> QED BY <3>2
  <2> QED BY <2>1, <2>3, <2>4
<1>4. Range(m) = {v, u} /\ Range(h) = {v}
  <2>1. Range(<<m[1], m[2]>>) = {m[1], m[2]} /\ Range(<<v>>) = {v}
    BY DEF Range
  <2> QED BY <1>1, <1>3, <2>1 DEF HeadOf
<1>5. v \in Wires /\ u \in Wires
    BY <1>1, <1>4, VarsIn
<1>6. ASSUME NEW t \in D, t # m, t # h PROVE v \notin Range(t)
  <2>1. ~(Len(t) > 1) /\ t \in Seq(Variables)
    BY <1>1, <1>2, <1>6 DEF HeadOf
  <2>2. ASSUME v \in Range(t) PROVE t = <<v>>
    <3>1. PICK i \in DOMAIN t : t[i] = v
        BY <2>2 DEF Range
    <3> HIDE DEF Variables
    <3>2. Len(t) = 1 /\ i = 1
        <4>1. Len(t) \in Nat /\ i \in 1 .. Len(t)
            BY <2>1, <3>1, SeqParts
        <4>2. ~(Len(t) > 1)
            BY <2>1
        <4> DEFINE l == Len(t)
        <4> HIDE DEF l
        <4>3. l \in Nat /\ i \in 1 .. l /\ ~(l > 1)
            BY <4>1, <4>2 DEF l
        <4> QED BY <4>3 DEF l
    <3> QED BY <2>1, <3>1, <3>2
  <2> QED BY <1>6, <2>2
<1>7. N = (D \ {h}) \ {m} /\ m \in D \ {h} /\ h \in D
  <2>1. \A t \in N : t # m /\ t # h
    BY <1>4
  <2> QED BY <1>3, <1>6, <2>1
<1>8. DOMAIN num = N /\ IsFiniteSet(N)
  <2>1. N \subseteq D
    OBVIOUS
  <2> QED BY <1>1, <1>2, <2>1, FS_Subset
<1>9. \A t \in N : num[t] = P - q[t] /\ q[t] \in Int
  <2>1. ASSUME NEW t \in N PROVE num[t] = P - q[t] /\ q[t] \in Int
    <3>1. num[t] = (P - q[t]) % P
        BY <1>1 DEF Neg
    <3>2. q[t] \in 1 .. P - 1
        BY <1>2
    <3> DEFINE c == q[t]
    <3> HIDE DEF c
    <3>3. (P - c) % P = P - c
        BY <1>0, <3>2 DEF c
    <3> QED BY <3>1, <3>2, <3>3 DEF c
  <2> QED BY <2>1
<1> HIDE DEF N, h, D
<1>10. ASSUME NEW a \in solutions
       PROVE  /\ IntOn(TermsAt(num, a), N)
              /\ Cong(a[v] * (1 + q[m] * a[u]), SumFunctionOnSet(TermsAt(num, a), N), P)
  <2> DEFINE f == TermsAt(q, a)
             g == TermsAt(num, a)
             k == [t \in N |-> f[t] + g[t]]
             F == SumFunctionOnSet(f, N)
             G == SumFunctionOnSet(g, N)
             x == a[v]
             y == a[u]
             d == q[m]
  <2>1. PolyAt(q, a) = 0 /\ Valued(a)
    BY SolutionsAre DEF Vanishes
  <2>2. IntOn(f, D) /\ Cong(SumFunctionOnSet(f, D), 0, P)
    BY <1>0, <2>1, TermsAre DEF D
  <2>3. x \in Int /\ y \in Int /\ d \in Int
    <3>1. x \in Int /\ y \in Int
        BY <1>5, WireValue
    <3> QED BY <1>2, <3>1
  <2>4. MonomialAt(m, a) = x * y /\ MonomialAt(h, a) = x
    <3>1. /\ MonomialAt(<<v, u>>, a) = x * y /\ MonomialAt(<<u, v>>, a) = y * x
          /\ MonomialAt(<<v>>, a) = x
        BY <1>5, WireValue
    <3>2. m = <<v, u>> \/ m = <<u, v>>
        BY <1>1, <1>3 DEF HeadOf
    <3>3. x * y = y * x
        BY <2>3
    <3> QED BY <3>1, <3>2, <3>3 DEF h
  <2>5. \A t \in D : MonomialAt(t, a) \in Int
    BY <1>0, <1>2, <2>1, MonomialValue
  <2>6. f[m] = d * (x * y) /\ f[h] = 1 * x
    <3>1. h \in DOMAIN q /\ m \in DOMAIN q /\ q[h] = 1
        BY <1>3 DEF D
    <3> QED BY <2>4, <3>1 DEF TermsAt
  <2>7. \A t \in N : f[t] = q[t] * MonomialAt(t, a) /\ g[t] = (P - q[t]) * MonomialAt(t, a)
    <3>1. \A t \in N : t \in DOMAIN q
        BY DEF N, D
    <3>2. \A t \in N : t \in DOMAIN num
        BY <1>8
    <3> HIDE DEF num
    <3> QED BY <1>9, <3>1, <3>2 DEF TermsAt
  <2>8. \A t \in N : t \in D
    BY DEF N
  <2> HIDE DEF f, g, x, y, d, num
  <2>9. IntOn(f, N) /\ IntOn(g, N)
    <3>1. ASSUME NEW t \in N PROVE f[t] \in Int /\ g[t] \in Int
        <4>1. q[t] \in Int /\ MonomialAt(t, a) \in Int
            BY <1>9, <2>5, <2>8
        <4> QED BY <1>0, <2>7, <4>1
    <3> QED BY <3>1 DEF IntOn
  <2>10. \A t \in N : k[t] = f[t] + g[t]
    OBVIOUS
  <2>11. \A t \in N : k[t] \in Int /\ Cong(k[t], 0, P)
    <3>1. ASSUME NEW t \in N PROVE k[t] \in Int /\ Cong(k[t], 0, P)
        <4> DEFINE c == q[t]
                   z == MonomialAt(t, a)
        <4>1. c \in Int /\ z \in Int /\ k[t] = c * z + (P - c) * z
            BY <1>9, <2>5, <2>7, <2>8
        <4> HIDE DEF c, z, k
        <4>2. k[t] \in Int /\ k[t] - 0 = z * P
            BY <1>0, <4>1
        <4> QED BY <4>1, <4>2, CongShown
    <3> QED BY <3>1
  <2> HIDE DEF k
  <2>12. SumFunctionOnSet(k, N) = F + G /\ Cong(SumFunctionOnSet(k, N), 0, P)
    <3>1. SumFunctionOnSet(k, N) = F + G
        BY <1>8, <2>9, <2>10, SumPlus
    <3>2. IntOn(k, N)
        BY <2>11 DEF IntOn
    <3> QED BY <1>0, <1>8, <2>11, <3>1, <3>2, SumVanishes
  <2>13. F \in Int /\ G \in Int
    BY <1>8, <2>9, SumType
  <2>14. SumFunctionOnSet(f, D) = 1 * x + (d * (x * y) + F)
    <3>1. SumFunctionOnSet(f, D) = f[h] + SumFunctionOnSet(f, D \ {h})
        BY <1>2, <1>7, <2>2, SumRemove
    <3>2. IsFiniteSet(D \ {h}) /\ IntOn(f, D \ {h})
        BY <1>2, <2>2, FS_RemoveElement DEF IntOn
    <3>3. SumFunctionOnSet(f, D \ {h}) = f[m] + SumFunctionOnSet(f, N)
        BY <1>7, <3>2, SumRemove
    <3> QED BY <2>6, <3>1, <3>3
  <2> HIDE DEF F, G
  <2> DEFINE A == 1 * x + (d * (x * y) + F)
             B == x * (1 + d * y)
  <2>15. Cong(A, 0, P) /\ Cong(F + G, 0, P)
    BY <2>2, <2>12, <2>14
  <2>16. A \in Int /\ F + G \in Int /\ B \in Int /\ (B - G) = A - (F + G)
    <3>1. x * (1 + d * y) = x + d * (x * y)
        BY <2>3
    <3>2. d * (x * y) \in Int
        BY <2>3
    <3> QED BY <2>3, <2>13, <3>1, <3>2
  <2> HIDE DEF A, B
  <2>17. Cong(A, F + G, P)
    <3>1. 0 \in Int /\ Cong(0, F + G, P)
        BY <1>0, <2>15, <2>16, CongSwap
    <3> QED BY <1>0, <2>15, <2>16, <3>1, CongTrans
  <2>18. Cong(A - (F + G), 0, P)
    BY <1>0, <2>16, <2>17, CongLess
  <2>19. Cong(B, G, P)
    BY <1>0, <2>13, <2>16, <2>18, CongLess
  <2> QED BY <2>9, <2>19 DEF B, G, x, y, d, g
<1>11. q[m] \in 1 .. P - 1
    BY <1>2
<1>12. ASSUME NEW a \in solutions
       PROVE  /\ IntOn(TermsAt(dx.num, a), DOMAIN dx.num)
              /\ Cong(a[dx.v] * (1 + dx.d * a[dx.tau]),
                      SumFunctionOnSet(TermsAt(dx.num, a), DOMAIN dx.num), P)
    BY <1>1, <1>8, <1>10
<1> QED BY <1>1, <1>5, <1>8, <1>11, <1>12

\* The coefficients of the first n terms that have the key m.
PartOf(key, c, m, n) == [k \in 1 .. n |-> IF key[k] = m THEN c[k] ELSE 0]

\* Only the key t has a coefficient.
OnlyAt(h, M, t, c, mon) == \A m \in M : h[m] = (IF t = m THEN c ELSE 0) * mon[m]

(* The sum over the keys when one key has a coefficient. *)
LEMMA OneKey ==
    ASSUME NEW M, IsFiniteSet(M), NEW t \in M, NEW c \in Int, NEW mon, IntOn(mon, M),
           NEW h, OnlyAt(h, M, t, c, mon)
    PROVE  IntOn(h, M) /\ SumFunctionOnSet(h, M) = c * mon[t]
<1> DEFINE R == M \ {t}
<1>1. ASSUME NEW m \in M PROVE mon[m] \in Int /\ h[m] \in Int
  <2>1. mon[m] \in Int
    BY DEF IntOn
  <2>2. h[m] = c * mon[m] \/ h[m] = 0 * mon[m]
    BY DEF OnlyAt
  <2> QED BY <2>1, <2>2
<1>2. IntOn(h, M)
    BY <1>1 DEF IntOn
<1>3. IsFiniteSet(R) /\ IntOn(mon, R)
    BY FS_RemoveElement DEF IntOn
<1>4. \A m \in R : h[m] = 0 * mon[m]
    BY DEF OnlyAt
<1>5. 0 \in Int
    OBVIOUS
<1> HIDE DEF R
<1>6. SumFunctionOnSet(h, R) = 0 * SumFunctionOnSet(mon, R)
    BY <1>3, <1>4, <1>5, SumScaled
<1>7. SumFunctionOnSet(mon, R) \in Int
    BY <1>3, SumType
<1>8. SumFunctionOnSet(h, M) = h[t] + SumFunctionOnSet(h, R)
    BY <1>2, SumRemove DEF R
<1>9. h[t] = c * mon[t] /\ mon[t] \in Int
    BY <1>1 DEF OnlyAt
<1>10. SumFunctionOnSet(h, M) = c * mon[t]
  <2> DEFINE s == SumFunctionOnSet(mon, R)
             u == c * mon[t]
  <2>1. s \in Int /\ u \in Int /\ SumFunctionOnSet(h, R) = 0 * s
        /\ SumFunctionOnSet(h, M) = u + SumFunctionOnSet(h, R)
    BY <1>6, <1>7, <1>8, <1>9
  <2> HIDE DEF s, u
  <2> QED BY <2>1 DEF u
<1> QED BY <1>2, <1>10

\* The terms one by one.
OneByOne(key, c, mon, n) == [k \in 1 .. n |-> c[k] * mon[key[k]]]

\* The terms that share a key share its part of the sum.
CollectedOver(h, M, key, c, mon, n) ==
    \A m \in M : h[m] = SumFunctionOnSet(PartOf(key, c, m, n), 1 .. n) * mon[m]

(* Terms collected by key have the sum of the terms. *)
LEMMA Collected ==
    ASSUME NEW N \in Nat, NEW M, IsFiniteSet(M), NEW key \in [1 .. N -> M],
           NEW c \in [1 .. N -> Int], NEW mon, IntOn(mon, M),
           NEW h, CollectedOver(h, M, key, c, mon, N)
    PROVE  /\ IntOn(h, M)
           /\ SumFunctionOnSet(h, M) = SumFunctionOnSet(OneByOne(key, c, mon, N), 1 .. N)
<1> DEFINE part(m) == PartOf(key, c, m, N)
           g == [k \in 1 .. N |-> c[k] * mon[key[k]]]
           H(n) == [m \in M |-> SumFunctionOnSet(part(m), 1 .. n) * mon[m]]
           T == {n \in 0 .. N : IntOn(H(n), M)
                                /\ SumFunctionOnSet(H(n), M) = SumFunctionOnSet(g, 1 .. n)}
<1>1. \A m \in M : \A k \in 1 .. N : part(m)[k] = (IF key[k] = m THEN c[k] ELSE 0)
    BY DEF PartOf
<1>2. ASSUME NEW k \in 1 .. N PROVE c[k] \in Int /\ key[k] \in M /\ mon[key[k]] \in Int /\ g[k] \in Int
  <2>1. c[k] \in Int /\ key[k] \in M
    OBVIOUS
  <2>2. mon[key[k]] \in Int
    BY <2>1 DEF IntOn
  <2>3. g[k] = c[k] * mon[key[k]]
    OBVIOUS
  <2> QED BY <2>1, <2>2, <2>3
<1>3. \A m \in M : IntOn(part(m), 1 .. N)
  <2>1. ASSUME NEW m \in M, NEW k \in 1 .. N PROVE part(m)[k] \in Int
    BY <1>1, <1>2
  <2> QED BY <2>1 DEF IntOn
<1>4. ASSUME NEW n \in 0 .. N PROVE IsFiniteSet(1 .. n) /\ 1 .. n \subseteq 1 .. N
  <2>1. 1 \in Int /\ n \in Int
    OBVIOUS
  <2> QED BY <2>1, FS_Interval
<1> DEFINE Z == [m \in M |-> 0 * mon[m]]
<1>5. IntOn(Z, M) /\ SumFunctionOnSet(Z, M) = 0
  <2>1. \A m \in M : Z[m] = 0 * mon[m]
    OBVIOUS
  <2>2. 0 \in Int /\ SumFunctionOnSet(mon, M) \in Int
    BY SumType
  <2>3. IntOn(Z, M)
    BY <2>1 DEF IntOn
  <2> HIDE DEF Z
  <2>4. SumFunctionOnSet(Z, M) = 0 * SumFunctionOnSet(mon, M)
    BY <2>1, <2>2, SumScaled
  <2> QED BY <2>2, <2>3, <2>4
<1> HIDE DEF part, g
<1>6. 0 \in T
  <2>1. 1 .. 0 = {}
    OBVIOUS
  <2>2. \A f : SumFunctionOnSet(f, 1 .. 0) = 0
    BY <2>1, SumEmpty
  <2>3. H(0) = Z
    BY <2>2
  <2> HIDE DEF H, Z
  <2> QED BY <1>5, <2>2, <2>3
<1>7. ASSUME NEW n \in 0 .. N - 1, n \in T PROVE n + 1 \in T
  <2> DEFINE e == n + 1
             S == 1 .. e
             one == [m \in M |-> (IF key[e] = m THEN c[e] ELSE 0) * mon[m]]
             below == H(n)
             upto == H(e)
  <2>1. e \in 1 .. N /\ e \in 0 .. N /\ n \in 0 .. N /\ e \in S /\ S \ {e} = 1 .. n
    OBVIOUS
  <2>2. IsFiniteSet(S) /\ S \subseteq 1 .. N
    BY <1>4, <2>1
  <2>3. IntOn(below, M) /\ SumFunctionOnSet(below, M) = SumFunctionOnSet(g, 1 .. n)
    BY <1>7
  <2>4. \A m \in M : one[m] = (IF key[e] = m THEN c[e] ELSE 0) * mon[m]
    OBVIOUS
  <2>5. \A m \in M : below[m] = SumFunctionOnSet(part(m), 1 .. n) * mon[m]
    OBVIOUS
  <2>6. \A m \in M : upto[m] = SumFunctionOnSet(part(m), S) * mon[m]
    OBVIOUS
  <2>7. c[e] \in Int /\ key[e] \in M /\ g[e] = c[e] * mon[key[e]]
    BY <1>2, <2>1 DEF g
  <2> HIDE DEF one, below, upto, S, e
  <2>8. IntOn(one, M) /\ SumFunctionOnSet(one, M) = c[e] * mon[key[e]]
    <3> DEFINE t == key[e]
               x == c[e]
    <3>1. t \in M /\ x \in Int
        BY <2>7
    <3>2. OnlyAt(one, M, t, x, mon)
        BY <2>4 DEF OnlyAt
    <3> HIDE DEF t, x
    <3>3. IntOn(one, M) /\ SumFunctionOnSet(one, M) = x * mon[t]
        BY <3>1, <3>2, OneKey
    <3> QED BY <3>3 DEF t, x
  <2>9. ASSUME NEW m \in M PROVE upto[m] = one[m] + below[m]
    <3>1. IntOn(part(m), S) /\ IntOn(part(m), S \ {e})
        BY <1>3, <2>2 DEF IntOn
    <3>2. SumFunctionOnSet(part(m), S) = part(m)[e] + SumFunctionOnSet(part(m), S \ {e})
        BY <2>1, <2>2, <3>1, SumRemove
    <3> DEFINE x == part(m)[e]
               y == SumFunctionOnSet(part(m), S \ {e})
               z == mon[m]
    <3>3. x \in Int /\ z \in Int
        BY <1>3, <2>1 DEF IntOn
    <3>4. y \in Int
        <4>1. IsFiniteSet(S \ {e})
            BY <2>2, FS_RemoveElement
        <4> QED BY <3>1, <4>1, SumType
    <3>5. one[m] = x * z
        BY <1>1, <2>1, <2>4
    <3>6. below[m] = y * z /\ upto[m] = (x + y) * z
        BY <2>1, <2>5, <2>6, <3>2
    <3> HIDE DEF x, y, z
    <3> QED BY <3>3, <3>4, <3>5, <3>6
  <2>10. SumFunctionOnSet(upto, M) = SumFunctionOnSet(one, M) + SumFunctionOnSet(below, M)
    BY <2>3, <2>8, <2>9, SumPlus
  <2>11. IntOn(upto, M)
    <3>1. ASSUME NEW m \in M PROVE upto[m] \in Int
        <4>1. one[m] \in Int /\ below[m] \in Int
            BY <2>3, <2>8 DEF IntOn
        <4> QED BY <2>9, <4>1
    <3> QED BY <3>1 DEF IntOn
  <2>12. SumFunctionOnSet(g, S) = g[e] + SumFunctionOnSet(g, 1 .. n)
    <3>1. IntOn(g, S)
        BY <1>2, <2>2 DEF IntOn
    <3>2. SumFunctionOnSet(g, S) = g[e] + SumFunctionOnSet(g, S \ {e})
        BY <2>1, <2>2, <3>1, SumRemove
    <3> QED BY <2>1, <3>2
  <2>13. SumFunctionOnSet(upto, M) = SumFunctionOnSet(g, S)
    BY <2>3, <2>7, <2>8, <2>10, <2>12
  <2> QED BY <2>1, <2>11, <2>13 DEF upto, S, e
<1>8. N \in T
  <2> HIDE DEF T
  <2>1. 0 .. N \subseteq T
    BY <1>6, <1>7, IntervalInduction
  <2>2. N \in 0 .. N
    OBVIOUS
  <2> QED BY <2>1, <2>2
<1>9. \A m \in M : h[m] = H(N)[m]
    BY DEF part, CollectedOver
<1>10. IntOn(H(N), M) /\ SumFunctionOnSet(H(N), M) = SumFunctionOnSet(g, 1 .. N)
    BY <1>8
<1> HIDE DEF H, T
<1>11. SumFunctionOnSet(h, M) = SumFunctionOnSet(H(N), M)
    BY <1>9, <1>10, SumSame
<1>12. IntOn(h, M)
    BY <1>9, <1>10 DEF IntOn
<1> QED BY <1>10, <1>11, <1>12 DEF g, OneByOne

(* The sum of five. *)
LEMMA SumOfFive ==
    ASSUME NEW f, \A k \in 1 .. 5 : f[k] \in Int
    PROVE  SumFunctionOnSet(f, 1 .. 5) = f[1] + (f[2] + (f[3] + (f[4] + f[5])))
<1> DEFINE S(k) == k .. 5
<1>1. ASSUME NEW k \in 1 .. 5
      PROVE  SumFunctionOnSet(f, S(k)) = f[k] + SumFunctionOnSet(f, S(k + 1))
  <2>1. k \in Int /\ 5 \in Int /\ S(k) \subseteq 1 .. 5 /\ k \in S(k) /\ S(k) \ {k} = S(k + 1)
    OBVIOUS
  <2>2. IsFiniteSet(S(k))
    BY <2>1, FS_Interval
  <2> HIDE DEF S
  <2>3. IntOn(f, S(k))
    BY <2>1 DEF IntOn
  <2>4. SumFunctionOnSet(f, S(k)) = f[k] + SumFunctionOnSet(f, S(k) \ {k})
    BY <2>1, <2>2, <2>3, SumRemove
  <2> QED BY <2>1, <2>4
<1>2. SumFunctionOnSet(f, S(6)) = 0
  <2>1. S(6) = {}
    OBVIOUS
  <2> HIDE DEF S
  <2> QED BY <2>1, SumEmpty
<1>3. S(1) = 1 .. 5
    OBVIOUS
<1> HIDE DEF S
<1>4. /\ SumFunctionOnSet(f, S(1)) = f[1] + SumFunctionOnSet(f, S(2))
      /\ SumFunctionOnSet(f, S(2)) = f[2] + SumFunctionOnSet(f, S(3))
      /\ SumFunctionOnSet(f, S(3)) = f[3] + SumFunctionOnSet(f, S(4))
      /\ SumFunctionOnSet(f, S(4)) = f[4] + SumFunctionOnSet(f, S(5))
      /\ SumFunctionOnSet(f, S(5)) = f[5] + SumFunctionOnSet(f, S(6))
  <2>1. /\ SumFunctionOnSet(f, S(1)) = f[1] + SumFunctionOnSet(f, S(1 + 1))
        /\ SumFunctionOnSet(f, S(2)) = f[2] + SumFunctionOnSet(f, S(2 + 1))
        /\ SumFunctionOnSet(f, S(3)) = f[3] + SumFunctionOnSet(f, S(3 + 1))
        /\ SumFunctionOnSet(f, S(4)) = f[4] + SumFunctionOnSet(f, S(4 + 1))
        /\ SumFunctionOnSet(f, S(5)) = f[5] + SumFunctionOnSet(f, S(5 + 1))
    BY <1>1
  <2>2. 1 + 1 = 2 /\ 2 + 1 = 3 /\ 3 + 1 = 4 /\ 4 + 1 = 5 /\ 5 + 1 = 6
    OBVIOUS
  <2> QED BY <2>1, <2>2
<1>5. f[5] + 0 = f[5]
    OBVIOUS
<1> QED BY <1>2, <1>3, <1>4, <1>5

(* A product of two wires, in ascending order. *)
LEMMA AscendingAt ==
    ASSUME Given, NEW a \in solutions, NEW v \in Wires, NEW w \in Wires
    PROVE  MonomialAt(Ascending(v, w), a) = a[v] * a[w]
<1>1. /\ MonomialAt(<<v, w>>, a) = a[v] * a[w] /\ MonomialAt(<<w, v>>, a) = a[w] * a[v]
      /\ a[v] \in Int /\ a[w] \in Int
    BY WireValue
<1>2. a[v] * a[w] = a[w] * a[v]
    BY <1>1
<1> QED BY <1>1, <1>2 DEF Ascending

\* The terms of delta.
DeltaTerms(wd, x1, y1, x2, y2, A) ==
    << << <<wd>>, 1>>,
       <<Ascending(x2, y1), P - 1>>, <<Ascending(y2, y1), P - 1>>,
       <<Ascending(x2, x1), A>>, <<Ascending(y2, x1), A>> >>

\* Their coefficients, collected.
Collects(terms, M, sum) ==
    /\ M = {terms[k][1] : k \in 1 .. 5}
    /\ sum = [m \in M |-> SumFunctionOnSet(
                 PartOf([k \in 1 .. 5 |-> terms[k][1]], [k \in 1 .. 5 |-> terms[k][2]], m, 5), 1 .. 5)]

\* The polynomial of the coefficients that are not zero.
Reduces(q, terms, M, sum) ==
    Collects(terms, M, sum) /\ q = NonZero([m \in M |-> sum[m] % P])

(* Delta is their sum. *)
LEMMA DeltaCollects ==
    ASSUME NEW wd, NEW x1, NEW y1, NEW x2, NEW y2, NEW A
    PROVE  \E M, sum : Reduces(ExpectedDelta(wd, x1, y1, x2, y2, A),
                               DeltaTerms(wd, x1, y1, x2, y2, A), M, sum)
<1> DEFINE terms == << << <<wd>>, 1>>,
                    <<Ascending(x2, y1), P - 1>>, <<Ascending(y2, y1), P - 1>>,
                    <<Ascending(x2, x1), A>>, <<Ascending(y2, x1), A>> >>
           part(m) == [k \in 1 .. 5 |-> IF terms[k][1] = m THEN terms[k][2] ELSE 0]
           M == {terms[k][1] : k \in 1 .. 5}
           sum == [m \in M |-> SumFunctionOnSet(part(m), 1 .. 5)]
<1>1. terms = DeltaTerms(wd, x1, y1, x2, y2, A)
    BY DEF DeltaTerms
<1>2. ExpectedDelta(wd, x1, y1, x2, y2, A)
         = NonZero([m \in M |-> SumFunctionOnSet(part(m), 1 .. 5) % P])
    BY DEF ExpectedDelta
<1> HIDE DEF terms
<1>3. \A m : part(m) = PartOf([k \in 1 .. 5 |-> terms[k][1]], [k \in 1 .. 5 |-> terms[k][2]], m, 5)
    BY DEF PartOf
<1> HIDE DEF part, M
<1>4. [m \in M |-> SumFunctionOnSet(part(m), 1 .. 5) % P] = [m \in M |-> sum[m] % P]
    OBVIOUS
<1>5. Collects(terms, M, sum)
    BY <1>3 DEF Collects, M
<1>6. Reduces(ExpectedDelta(wd, x1, y1, x2, y2, A), terms, M, sum)
    BY <1>2, <1>4, <1>5 DEF Reduces
<1> HIDE DEF M, sum
<1> QED BY <1>1, <1>6

(* On a solution delta is the product the gadget multiplies out. *)
LEMMA DeltaIs ==
    ASSUME IInv, Given, Sound, NEW wd \in Wires, NEW x1 \in Wires, NEW y1 \in Wires,
           NEW x2 \in Wires, NEW y2 \in Wires, NEW A \in GF,
           IsDelta(Originals, wd, x1, y1, x2, y2, A), NEW a \in solutions
    PROVE  Cong(a[wd], (a[y1] - A * a[x1]) * (a[x2] + a[y2]), P)
<1> DEFINE bare == {i \in DOMAIN Originals : Coefficient(Originals[i], <<wd>>) = 1}
           q == Originals[Min(bare)]
           terms == DeltaTerms(wd, x1, y1, x2, y2, A)
<1>0. circuit \in Circuits /\ P \in Nat \ {0} /\ P \in Int /\ A \in Int
    BY CircuitFacts DEF Given, GF
<1>1. Min(bare) \in bare
  <2>1. Len(Originals) \in Nat /\ bare \in SUBSET (1 .. Len(Originals))
    BY OriginalsAre
  <2>2. bare # {}
    BY DEF IsDelta
  <2> HIDE DEF bare
  <2> QED BY <2>1, <2>2, MinMember
<1>2. Vanishes(q)
    BY <1>1, OriginalsAre
<1>3. q = ExpectedDelta(wd, x1, y1, x2, y2, A)
    BY DEF IsDelta
<1> HIDE DEF bare, q, terms
<1>4. PICK M, sum : Collects(terms, M, sum) /\ q = NonZero([m \in M |-> sum[m] % P])
  <2>1. \E M, sum : Reduces(q, terms, M, sum)
    BY <1>3, DeltaCollects DEF terms
  <2> QED BY <2>1 DEF Reduces
<1> DEFINE key == [k \in 1 .. 5 |-> terms[k][1]]
           c == [k \in 1 .. 5 |-> terms[k][2]]
           mon == [m \in M |-> MonomialAt(m, a)]
           h == [m \in M |-> sum[m] * mon[m]]
           f == TermsAt(q, a)
           g == [k \in 1 .. 5 |-> c[k] * mon[key[k]]]
           D == DOMAIN q
<1>5. /\ key[1] = <<wd>> /\ c[1] = 1
      /\ key[2] = Ascending(x2, y1) /\ c[2] = P - 1
      /\ key[3] = Ascending(y2, y1) /\ c[3] = P - 1
      /\ key[4] = Ascending(x2, x1) /\ c[4] = A
      /\ key[5] = Ascending(y2, x1) /\ c[5] = A
    BY DEF terms, DeltaTerms
<1>6. M = {key[k] : k \in 1 .. 5} /\ key \in [1 .. 5 -> M]
    BY <1>4 DEF Collects
<1>7. sum = [m \in M |-> SumFunctionOnSet(PartOf(key, c, m, 5), 1 .. 5)]
    BY <1>4 DEF Collects
<1>8. c \in [1 .. 5 -> Int]
  <2>1. P - 1 \in Int /\ 1 \in Int
    BY <1>0
  <2>2. c[1] \in Int /\ c[2] \in Int /\ c[3] \in Int /\ c[4] \in Int /\ c[5] \in Int
    BY <1>0, <1>5, <2>1
  <2>3. c = [k \in 1 .. 5 |-> c[k]] /\ \A k \in 1 .. 5 : k = 1 \/ k = 2 \/ k = 3 \/ k = 4 \/ k = 5
    OBVIOUS
  <2> HIDE DEF c
  <2> QED BY <2>2, <2>3
<1> HIDE DEF key, c
<1>9. M = {key[1], key[2], key[3], key[4], key[5]}
  <2>1. \A k \in 1 .. 5 : k = 1 \/ k = 2 \/ k = 3 \/ k = 4 \/ k = 5
    OBVIOUS
  <2>2. 1 \in 1 .. 5 /\ 2 \in 1 .. 5 /\ 3 \in 1 .. 5 /\ 4 \in 1 .. 5 /\ 5 \in 1 .. 5
    OBVIOUS
  <2> QED BY <1>6, <2>1, <2>2
<1>10. IsFiniteSet(M)
  <2>1. IsFiniteSet({}) /\ IsFiniteSet({} \cup {key[1]})
    BY FS_EmptySet, FS_AddElement
  <2>2. IsFiniteSet(({} \cup {key[1]}) \cup {key[2]})
    BY <2>1, FS_AddElement
  <2>3. IsFiniteSet((({} \cup {key[1]}) \cup {key[2]}) \cup {key[3]})
    BY <2>2, FS_AddElement
  <2>4. IsFiniteSet(((({} \cup {key[1]}) \cup {key[2]}) \cup {key[3]}) \cup {key[4]})
    BY <2>3, FS_AddElement
  <2>5. IsFiniteSet((((({} \cup {key[1]}) \cup {key[2]}) \cup {key[3]}) \cup {key[4]}) \cup {key[5]})
    BY <2>4, FS_AddElement
  <2>6. M = (((({} \cup {key[1]}) \cup {key[2]}) \cup {key[3]}) \cup {key[4]}) \cup {key[5]}
    BY <1>9
  <2> QED BY <2>5, <2>6
<1>11. /\ MonomialAt(key[1], a) = a[wd] /\ MonomialAt(key[2], a) = a[x2] * a[y1]
       /\ MonomialAt(key[3], a) = a[y2] * a[y1] /\ MonomialAt(key[4], a) = a[x2] * a[x1]
       /\ MonomialAt(key[5], a) = a[y2] * a[x1]
    BY <1>5, AscendingAt, WireValue
<1>12. a[wd] \in Int /\ a[x1] \in Int /\ a[y1] \in Int /\ a[x2] \in Int /\ a[y2] \in Int
    BY WireValue
<1>13. /\ mon[key[1]] = a[wd] /\ mon[key[2]] = a[x2] * a[y1]
       /\ mon[key[3]] = a[y2] * a[y1] /\ mon[key[4]] = a[x2] * a[x1]
       /\ mon[key[5]] = a[y2] * a[x1]
    BY <1>9, <1>11
<1>14. IntOn(mon, M)
  <2>1. /\ mon[key[1]] \in Int /\ mon[key[2]] \in Int /\ mon[key[3]] \in Int
        /\ mon[key[4]] \in Int /\ mon[key[5]] \in Int
    BY <1>12, <1>13
  <2> HIDE DEF mon
  <2> QED BY <1>9, <2>1 DEF IntOn
<1>15. CollectedOver(h, M, key, c, mon, 5)
    BY <1>7 DEF CollectedOver
<1>16. \A m \in M : mon[m] = MonomialAt(m, a)
    OBVIOUS
<1>17. \A m \in M : h[m] = sum[m] * mon[m]
    OBVIOUS
<1>18. D = {m \in M : sum[m] % P # 0} /\ \A m \in D : q[m] = sum[m] % P
  <2> DEFINE e == [m \in M |-> sum[m] % P]
  <2>1. q = [m \in DOMAIN e \cap {m \in DOMAIN e : e[m] # 0} |-> e[m]]
    BY <1>4 DEF NonZero, Restrict
  <2>2. DOMAIN e = M /\ \A m \in M : e[m] = sum[m] % P
    OBVIOUS
  <2> HIDE DEF e
  <2> QED BY <2>1, <2>2
<1>19. \A m \in D : f[m] = q[m] * MonomialAt(m, a)
    BY DEF TermsAt
<1>20. IntOn(f, D) /\ IsFiniteSet(D) /\ Cong(SumFunctionOnSet(f, D), 0, P)
  <2>1. IsPoly(q) /\ Valued(a) /\ PolyAt(q, a) = 0
    BY <1>2, SolutionsAre DEF Vanishes
  <2> QED BY <1>0, <2>1, TermsAre DEF IsPoly
<1>21. \A m \in M : sum[m] \in Int
  <2>1. ASSUME NEW m \in M PROVE sum[m] \in Int
    <3>1. IntOn(PartOf(key, c, m, 5), 1 .. 5)
        <4>1. ASSUME NEW k \in 1 .. 5 PROVE PartOf(key, c, m, 5)[k] \in Int
            <5>1. c[k] \in Int /\ PartOf(key, c, m, 5)[k] = IF key[k] = m THEN c[k] ELSE 0
                BY <1>8 DEF PartOf
            <5> QED BY <5>1
        <4> QED BY <4>1 DEF IntOn
    <3>2. IsFiniteSet(1 .. 5)
        <4>1. 1 \in Int /\ 5 \in Int
            OBVIOUS
        <4> QED BY <4>1, FS_Interval
    <3> QED BY <1>7, <3>1, <3>2, SumType
  <2> QED BY <2>1
<1> HIDE DEF mon, h, f, D
<1>22. IntOn(h, M) /\ SumFunctionOnSet(h, M) = SumFunctionOnSet(g, 1 .. 5)
  <2> DEFINE n == 5
  <2>1. n \in Nat /\ key \in [1 .. n -> M]
    BY <1>6
  <2>2. c \in [1 .. n -> Int]
    BY <1>8
  <2>3. CollectedOver(h, M, key, c, mon, n)
    BY <1>15
  <2> HIDE DEF g, n
  <2>4. IntOn(h, M) /\ SumFunctionOnSet(h, M) = SumFunctionOnSet(OneByOne(key, c, mon, n), 1 .. n)
    BY <1>10, <1>14, <2>1, <2>2, <2>3, Collected
  <2> QED BY <2>4 DEF g, n, OneByOne
<1> DEFINE id == [m \in D |-> m]
<1>23. Pairs(id, f, D, h, M, P)
  <2>1. \A m \in D : id[m] = m /\ m \in M
    BY <1>18
  <2> HIDE DEF id
  <2>2. ASSUME NEW m \in D PROVE Cong(f[m], h[id[m]], P)
    <3> DEFINE s == sum[m]
               r == s % P
               z == mon[m]
    <3>1. s \in Int /\ z \in Int /\ m \in M
        BY <1>14, <1>21, <2>1 DEF IntOn
    <3>2. f[m] = r * z /\ h[id[m]] = s * z
        BY <1>16, <1>17, <1>18, <1>19, <2>1
    <3>3. Cong(s, r, P) /\ r \in Int
        <4> HIDE DEF s
        <4>1. Cong(s, r, P) /\ r \in 0 .. (P - 1)
            BY <1>0, <3>1, CongResidue
        <4> QED BY <4>1
    <3> HIDE DEF s, r, z
    <3>4. Cong(s * z, r * z, P)
        BY <1>0, <3>1, <3>3, CongTimes
    <3>5. s * z \in Int /\ r * z \in Int
        BY <3>1, <3>3
    <3>6. Cong(r * z, s * z, P)
        BY <1>0, <3>4, <3>5, CongSwap
    <3> QED BY <3>2, <3>6
  <2>3. ASSUME NEW m \in M, m \notin D PROVE Cong(h[m], 0, P)
    <3> DEFINE s == sum[m]
               z == mon[m]
    <3>1. s \in Int /\ z \in Int /\ s % P = 0 /\ h[m] = s * z
        BY <1>14, <1>17, <1>18, <1>21, <2>3 DEF IntOn
    <3> HIDE DEF s, z
    <3>2. 0 \in Int
        OBVIOUS
    <3>3. Cong(s, 0, P)
        BY <1>0, <3>1, CongResidue
    <3>4. Cong(s * z, 0 * z, P)
        BY <1>0, <3>1, <3>2, <3>3, CongTimes
    <3>5. 0 * z = 0
        BY <3>1
    <3> QED BY <3>1, <3>4, <3>5
  <2> QED BY <2>1, <2>2, <2>3 DEF Pairs
<1> HIDE DEF id
<1>24. Cong(SumFunctionOnSet(f, D), SumFunctionOnSet(h, M), P)
    BY <1>0, <1>10, <1>20, <1>22, <1>23, SumPaired
<1> DEFINE w == a[wd]
           p == a[x2] * a[y1]
           r == a[y2] * a[y1]
           s == a[x2] * a[x1]
           t == a[y2] * a[x1]
<1>25. g[1] = 1 * w /\ g[2] = (P - 1) * p /\ g[3] = (P - 1) * r /\ g[4] = A * s /\ g[5] = A * t
    BY <1>5, <1>13
<1>26. w \in Int /\ p \in Int /\ r \in Int /\ s \in Int /\ t \in Int
    BY <1>12
<1>27. (a[y1] - A * a[x1]) * (a[x2] + a[y2]) = (p + r) - (A * s + A * t)
  <2> DEFINE i == a[x1]
             j == a[y1]
             k == a[x2]
             l == a[y2]
  <2>1. i \in Int /\ j \in Int /\ k \in Int /\ l \in Int /\ A \in Int
    BY <1>0, <1>12
  <2> HIDE DEF i, j, k, l
  <2>2. (j - A * i) * (k + l) = (k * j + l * j) - (A * (k * i) + A * (l * i))
    BY <2>1
  <2> QED BY <2>2 DEF i, j, k, l
<1> HIDE DEF w, p, r, s, t
<1>28. SumFunctionOnSet(g, 1 .. 5)
          = 1 * w + ((P - 1) * p + ((P - 1) * r + (A * s + A * t)))
  <2>1. g[1] \in Int /\ g[2] \in Int /\ g[3] \in Int /\ g[4] \in Int /\ g[5] \in Int
    BY <1>0, <1>25, <1>26
  <2>2. \A k \in 1 .. 5 : k = 1 \/ k = 2 \/ k = 3 \/ k = 4 \/ k = 5
    OBVIOUS
  <2> HIDE DEF g
  <2>3. \A k \in 1 .. 5 : g[k] \in Int
    BY <2>1, <2>2
  <2>4. SumFunctionOnSet(g, 1 .. 5) = g[1] + (g[2] + (g[3] + (g[4] + g[5])))
    BY <2>3, SumOfFive
  <2> QED BY <1>25, <2>4
<1> DEFINE F == SumFunctionOnSet(f, D)
           S == 1 * w + ((P - 1) * p + ((P - 1) * r + (A * s + A * t)))
           Q == (p + r) - (A * s + A * t)
<1>29. F \in Int /\ Cong(F, 0, P) /\ Cong(F, S, P)
    BY <1>20, <1>22, <1>24, <1>28, SumType
<1>30. S \in Int /\ Q \in Int /\ p + r \in Int /\ S - (w - Q) = (p + r) * P
  <2> DEFINE u == A * s
             v == A * t
             n == P
  <2>1. u \in Int /\ v \in Int /\ n \in Int
    BY <1>0, <1>26
  <2>2. S = 1 * w + ((n - 1) * p + ((n - 1) * r + (u + v))) /\ Q = (p + r) - (u + v)
    OBVIOUS
  <2> HIDE DEF u, v, S, Q, n
  <2>3. S \in Int /\ Q \in Int /\ p + r \in Int /\ S - (w - Q) = (p + r) * n
    BY <1>26, <2>1, <2>2
  <2> QED BY <2>3 DEF n
<1> HIDE DEF F, S, Q
<1>31. Cong(S, w - Q, P) /\ w - Q \in Int
    BY <1>26, <1>30, CongShown
<1>32. Cong(w - Q, 0, P)
  <2>1. Cong(w - Q, S, P) /\ Cong(S, F, P) /\ 0 \in Int
    BY <1>0, <1>29, <1>30, <1>31, CongSwap
  <2>2. Cong(w - Q, F, P)
    BY <1>0, <1>29, <1>30, <1>31, <2>1, CongTrans
  <2> QED BY <1>0, <1>29, <1>31, <2>1, <2>2, CongTrans
<1>33. Cong(w, Q, P)
    BY <1>0, <1>26, <1>30, <1>32, CongLess
<1> QED BY <1>27, <1>33 DEF w, Q

\* Zero in the field.
Null(e) == e \in Int /\ Cong(e, 0, P)

(* Sums and multiples of zeros. *)
LEMMA NullSum ==
    ASSUME circuit \in Circuits, NEW e, NEW f, Null(e), Null(f)
    PROVE  Null(e + f) /\ Null(e - f)
<1>0. P \in Int /\ 0 \in Int /\ e \in Int /\ f \in Int /\ Cong(e, 0, P) /\ Cong(f, 0, P)
    BY CircuitFacts DEF Null
<1>1. Cong(e + f, 0 + 0, P)
    BY <1>0, CongSum
<1>2. Cong(0, f, P)
    BY <1>0, CongSwap
<1>3. Cong(e, f, P)
    BY <1>0, <1>2, CongTrans
<1>4. Cong(e - f, 0, P)
    BY <1>0, <1>3, CongLess
<1>5. 0 + 0 = 0 /\ e + f \in Int /\ e - f \in Int
    BY <1>0
<1> QED BY <1>1, <1>4, <1>5 DEF Null

(* A multiple of zero is zero. *)
LEMMA NullTimes ==
    ASSUME circuit \in Circuits, NEW e, Null(e), NEW c \in Int
    PROVE  Null(c * e)
<1>0. P \in Int /\ 0 \in Int /\ e \in Int /\ Cong(e, 0, P)
    BY CircuitFacts DEF Null
<1>1. Cong(c * e, c * 0, P)
    BY <1>0, CongTimes
<1>2. c * 0 = 0 /\ c * e \in Int
    BY <1>0
<1> QED BY <1>1, <1>2 DEF Null

(* Congruent numbers have a zero for their difference. *)
LEMMA NullDifference ==
    ASSUME circuit \in Circuits, NEW x \in Int, NEW y \in Int
    PROVE  Cong(x, y, P) <=> Null(x - y)
<1>1. P \in Int /\ x - y \in Int
    BY CircuitFacts
<1> QED BY <1>1, CongLess DEF Null

(* What times a square is one is a square. *)
LEMMA SquareInverse ==
    ASSUME circuit \in Circuits, NEW d \in 1 .. P - 1, NEW s \in Int, Null(d * (s * s) - 1)
    PROVE  IsSquare(d)
<1>0. /\ P \in Nat \ {0} /\ P \in Int /\ d \in Int /\ 0 \in Int /\ 1 \in Int
      /\ 0 \in 0 .. (P - 1) /\ 1 \in 0 .. (P - 1) /\ d \in 0 .. (P - 1)
      /\ \A x \in 1 .. P - 1 : \E y \in 1 .. P - 1 : (x * y) % P = 1
    BY CircuitFacts
<1> DEFINE r == s % P
<1>1. Cong(s, r, P) /\ r \in 0 .. (P - 1)
    BY <1>0, CongResidue
<1> HIDE DEF r
<1>2. r # 0
  <2>1. ASSUME r = 0 PROVE FALSE
    <3>1. Null(s)
        BY <1>1, <2>1 DEF Null
    <3>2. d * s \in Int
        BY <1>0
    <3>3. Null((d * s) * s)
        BY <3>1, <3>2, NullTimes
    <3>4. (d * s) * s - (d * (s * s) - 1) = 1
        BY <1>0
    <3>5. Null((d * s) * s - (d * (s * s) - 1))
        BY <3>3, NullSum
    <3>6. Cong(1, 0, P)
        BY <3>4, <3>5 DEF Null
    <3> QED BY <1>0, <3>6, CongEqual
  <2> QED BY <2>1
<1>3. r \in 1 .. P - 1
    BY <1>0, <1>1, <1>2
<1>4. PICK t \in 1 .. P - 1 : (r * t) % P = 1
    BY <1>0, <1>3
<1>5. t \in Int /\ r \in Int /\ r * t \in Int
    BY <1>0, <1>3
<1>6. Null(r * t - 1)
  <2>1. Cong(r * t, 1, P)
    BY <1>0, <1>4, <1>5, ResidueIs
  <2> QED BY <1>0, <1>5, <2>1, NullDifference
<1>7. Null(s - r)
    BY <1>1, <1>5, NullDifference
<1>8. Null(s * t - 1)
  <2>1. Null(t * (s - r))
    BY <1>5, <1>7, NullTimes
  <2>2. Null(t * (s - r) + (r * t - 1))
    BY <1>6, <2>1, NullSum
  <2>3. t * (s - r) + (r * t - 1) = s * t - 1
    BY <1>5
  <2> QED BY <2>2, <2>3
<1> DEFINE z == s * t - 1
           w == d * (s * s) - 1
<1>9. Null(t * t - d)
  <2>1. z \in Int /\ z + 2 \in Int /\ d * (z + 2) \in Int /\ t * t \in Int
    BY <1>0, <1>5
  <2>2. Null((d * (z + 2)) * z) /\ Null((t * t) * w)
    BY <1>8, <2>1, NullTimes
  <2>3. Null((d * (z + 2)) * z - (t * t) * w)
    BY <2>2, NullSum
  <2>4. (d * (z + 2)) * z = d * (((s * s) * (t * t)) - 1)
    <3>1. (z + 2) * z = (s * t) * (s * t) - 1
        BY <1>5
    <3>2. (s * t) * (s * t) = (s * s) * (t * t)
        BY <1>5
    <3>3. (d * (z + 2)) * z = d * ((z + 2) * z)
        BY <1>0, <2>1
    <3> QED BY <3>1, <3>2, <3>3
  <2>5. (t * t) * w = d * ((s * s) * (t * t)) - t * t
    <3> DEFINE x == s * s
               y == t * t
    <3>1. x \in Int /\ y \in Int
        BY <1>5
    <3> HIDE DEF x, y
    <3>2. y * (d * x - 1) = d * (x * y) - y
        BY <1>0, <3>1
    <3> QED BY <3>2 DEF x, y
  <2>6. (d * (z + 2)) * z - (t * t) * w = t * t - d
    <3> DEFINE x == (s * s) * (t * t)
               y == t * t
    <3>1. x \in Int /\ y \in Int
        BY <1>5
    <3>2. (d * (z + 2)) * z = d * (x - 1) /\ y * w = d * x - y
        BY <2>4, <2>5
    <3> HIDE DEF x, y, z, w
    <3>3. d * (x - 1) - (d * x - y) = y - d
        BY <1>0, <3>1
    <3> QED BY <3>2, <3>3 DEF y
  <2> QED BY <2>3, <2>6
<1>10. (t * t) % P = d
  <2>1. t * t \in Int
    BY <1>5
  <2> DEFINE x == t * t
  <2> HIDE DEF x
  <2>2. Cong(x, d, P) /\ x \in Int
    BY <1>0, <1>9, <2>1, NullDifference DEF x
  <2>3. Cong(x, x % P, P) /\ x % P \in 0 .. (P - 1)
    BY <1>0, <2>2, CongResidue
  <2>4. x % P \in Int
    BY <1>0, <2>3
  <2>5. Cong(x % P, d, P)
    BY <1>0, <2>2, <2>3, <2>4, CongSwap, CongTrans
  <2>6. x % P = d
    BY <1>0, <2>3, <2>5, CongEqual
  <2> QED BY <2>6 DEF x
<1>11. t \in GF \ {0}
    BY <1>0 DEF GF
<1> QED BY <1>10, <1>11 DEF IsSquare

(* The denominator of x is not zero. *)
LEMMA PlusNotZero ==
    ASSUME circuit \in Circuits, NEW d \in 1 .. P - 1, ~IsSquare(d),
           NEW x \in Int, NEW tau \in Int, NEW beta \in Int, NEW gamma \in Int,
           Null(tau - beta * gamma), Null(x * (1 + d * tau) - (beta + gamma))
    PROVE  ~Null(1 + d * tau)
<1> SUFFICES ASSUME Null(1 + d * tau) PROVE FALSE
    OBVIOUS
<1>0. d \in Int
    BY CircuitFacts
<1> DEFINE e == 1 + d * tau
           f == beta + gamma
           g == tau - beta * gamma
<1>1. Null(e) /\ Null(g) /\ Null(x * e - f)
    OBVIOUS
<1>2. e \in Int /\ f \in Int /\ g \in Int
    BY <1>0
<1>3. Null(f)
  <2> HIDE DEF e, f, g
  <2>1. Null(x * e)
    BY <1>1, NullTimes
  <2>2. Null(x * e - (x * e - f))
    BY <1>1, <2>1, NullSum
  <2>3. x * e - (x * e - f) = f
    BY <1>2
  <2> QED BY <2>2, <2>3
<1>4. Null((d * beta) * f) /\ Null(d * g)
  <2>1. d * beta \in Int
    BY <1>0
  <2> HIDE DEF e, f, g
  <2> QED BY <1>0, <1>1, <1>3, <2>1, NullTimes
<1>5. Null(((d * beta) * f + d * g) - e)
    BY <1>1, <1>4, NullSum
<1>6. ((d * beta) * f + d * g) - e = d * (beta * beta) - 1
  <2>1. (d * beta) * f = d * (beta * beta) + d * (beta * gamma)
    BY <1>0
  <2>2. d * g = d * tau - d * (beta * gamma)
    BY <1>0
  <2> DEFINE u == d * (beta * beta)
             v == d * (beta * gamma)
             w == d * tau
  <2>3. u \in Int /\ v \in Int /\ w \in Int
    BY <1>0
  <2>4. (d * beta) * f = u + v /\ d * g = w - v /\ e = 1 + w
    BY <2>1, <2>2
  <2> HIDE DEF u, v, w, e, f, g
  <2>5. ((u + v) + (w - v)) - (1 + w) = u - 1
    BY <2>3
  <2> QED BY <2>4, <2>5 DEF u
<1>7. IsSquare(d)
    BY <1>5, <1>6, SquareInverse
<1> QED BY <1>7

(* Nor is the denominator of y. *)
LEMMA MinusNotZero ==
    ASSUME circuit \in Circuits, NEW d \in 1 .. P - 1, ~IsSquare(d), NEW n \in Int, Null(d + n),
           NEW A \in Int, NEW r \in Int, Null(A - r * r),
           NEW y \in Int, NEW tau \in Int, NEW beta \in Int, NEW gamma \in Int, NEW delta \in Int,
           NEW x1 \in Int, NEW y1 \in Int, NEW x2 \in Int, NEW y2 \in Int,
           Null(tau - beta * gamma), Null(beta - x1 * y2), Null(gamma - y1 * x2),
           Null(delta - (y1 - A * x1) * (x2 + y2)),
           Null(y * (1 + n * tau) - ((A * beta - gamma) + delta))
    PROVE  ~Null(1 + n * tau)
<1> SUFFICES ASSUME Null(1 + n * tau) PROVE FALSE
    OBVIOUS
<1>0. d \in Int
    BY CircuitFacts
<1> DEFINE e == 1 + n * tau
           f == (A * beta - gamma) + delta
           e1 == beta - x1 * y2
           e2 == gamma - y1 * x2
           e3 == delta - (y1 - A * x1) * (x2 + y2)
           q == x1 * x2
           u == y1 * y2 - A * q
           k == x1 * y2
           l == y1 * x2
<1>1. q \in Int /\ u \in Int /\ k \in Int /\ l \in Int /\ e \in Int /\ f \in Int
    BY <1>0
<1>2. Null(f)
  <2>1. Null(e) /\ Null(y * e - f)
    OBVIOUS
  <2> HIDE DEF e, f
  <2>2. Null(y * e)
    BY <2>1, NullTimes
  <2>3. Null(y * e - (y * e - f))
    BY <2>1, <2>2, NullSum
  <2>4. y * e - (y * e - f) = f
    BY <1>1
  <2> QED BY <2>3, <2>4
<1>3. Null(u)
  <2>1. Null(A * e1)
    BY NullTimes
  <2>2. Null(((f - A * e1) + e2) - e3)
    BY <1>2, <2>1, NullSum
  <2>3. ((f - A * e1) + e2) - e3 = u
    <3>1. A * e1 = A * beta - A * k
        OBVIOUS
    <3>2. (y1 - A * x1) * (x2 + y2) = ((l + y1 * y2) - A * q) - A * k
        OBVIOUS
    <3> DEFINE b == A * beta
               c == A * k
               h == y1 * y2
               m == A * q
    <3>3. b \in Int /\ c \in Int /\ h \in Int /\ m \in Int
        BY <1>1
    <3>4. /\ f = (b - gamma) + delta /\ A * e1 = b - c /\ e2 = gamma - l
          /\ e3 = delta - (((l + h) - m) - c) /\ u = h - m
        BY <3>1, <3>2
    <3> HIDE DEF b, c, h, m, f, e1, e2, e3, u, k, l, q
    <3>5. ((((b - gamma) + delta) - (b - c)) + (gamma - l)) - (delta - (((l + h) - m) - c)) = h - m
        BY <1>1, <3>3
    <3> QED BY <3>4, <3>5
  <2> QED BY <2>2, <2>3
<1>4. Null(beta * gamma - k * l)
  <2>1. Null(gamma * e1) /\ Null(k * e2)
    BY <1>1, NullTimes
  <2>2. Null(gamma * e1 + k * e2)
    BY <2>1, NullSum
  <2>3. e1 = beta - k /\ e2 = gamma - l
    OBVIOUS
  <2> HIDE DEF e1, e2, k, l
  <2>4. gamma * (beta - k) + k * (gamma - l) = beta * gamma - k * l
    BY <1>1
  <2> QED BY <2>2, <2>3, <2>4
<1>5. k * l = q * (u + A * q)
  <2>1. k * l = q * (y1 * y2)
    OBVIOUS
  <2>2. u + A * q = y1 * y2
    OBVIOUS
  <2> QED BY <2>1, <2>2
<1> DEFINE w == A * (q * q)
           p == beta * gamma
<1>6. Null(tau - w)
  <2>1. Null(q * u)
    BY <1>1, <1>3, NullTimes
  <2>2. Null(((tau - p) + (p - k * l)) + q * u)
    BY <1>4, <2>1, NullSum
  <2>3. k * l \in Int /\ p \in Int /\ q * u \in Int /\ w \in Int
    BY <1>1
  <2>4. k * l = q * u + w
    <3> HIDE DEF k, l, u, q
    <3>1. q * (u + A * q) = q * u + A * (q * q)
        BY <1>1
    <3> QED BY <1>5, <3>1
  <2> DEFINE g == k * l
             h == q * u
  <2> HIDE DEF g, h, p, w
  <2>5. ((tau - p) + (p - g)) + h = tau - w
    BY <2>3, <2>4 DEF g, h
  <2> QED BY <2>2, <2>5 DEF g, h
<1> DEFINE s == r * q
           t == q * q
<1>7. s \in Int /\ t \in Int /\ w \in Int /\ w = A * t
    BY <1>1
<1>8. Null(w - s * s)
  <2>1. Null(t * (A - r * r))
    BY <1>7, NullTimes
  <2>2. t * (A - r * r) = A * t - (r * r) * t
    BY <1>7
  <2>3. (r * r) * t = s * s
    <3> HIDE DEF q
    <3> QED BY <1>1
  <2> QED BY <1>7, <2>1, <2>2, <2>3
<1> HIDE DEF w, s, t, q
<1>9. Null(d * (tau - w)) /\ Null(d * (w - s * s)) /\ Null(tau * (d + n))
    BY <1>0, <1>6, <1>8, NullTimes
<1>10. Null(((tau * (d + n) - d * (tau - w)) - d * (w - s * s)) - e)
    BY <1>9, NullSum
<1>11. ((tau * (d + n) - d * (tau - w)) - d * (w - s * s)) - e = d * (s * s) - 1
  <2> DEFINE a == s * s
  <2>1. a \in Int
    BY <1>7
  <2> HIDE DEF a
  <2>2. /\ tau * (d + n) = d * tau + n * tau
        /\ d * (tau - w) = d * tau - d * w
        /\ d * (w - a) = d * w - d * a
    BY <1>0, <1>7, <2>1
  <2> DEFINE b == d * tau
             c == n * tau
             g == d * w
             h == d * a
  <2>3. b \in Int /\ c \in Int /\ g \in Int /\ h \in Int
    BY <1>0, <1>7, <2>1
  <2>4. tau * (d + n) = b + c /\ d * (tau - w) = b - g /\ d * (w - a) = g - h /\ e = 1 + c
    BY <2>2
  <2> HIDE DEF b, c, g, h, e
  <2>5. (((b + c) - (b - g)) - (g - h)) - (1 + c) = h - 1
    BY <2>3
  <2> QED BY <2>4, <2>5 DEF a, h
<1>12. IsSquare(d)
    BY <1>7, <1>10, <1>11, SquareInverse
<1> QED BY <1>12

(* The numerator of x. *)
LEMMA PlusNumerator ==
    ASSUME Given, NEW beta \in Wires, NEW gamma \in Wires, beta # gamma,
           NEW num, num = [m \in {<<beta>>, <<gamma>>} |-> 1], NEW a \in solutions
    PROVE  SumFunctionOnSet(TermsAt(num, a), DOMAIN num) = a[beta] + a[gamma]
<1> DEFINE f == TermsAt(num, a)
<1>1. /\ a[beta] \in Int /\ a[gamma] \in Int
      /\ MonomialAt(<<beta>>, a) = a[beta] /\ MonomialAt(<<gamma>>, a) = a[gamma]
    BY WireValue
<1>2. DOMAIN num = {<<beta>>, <<gamma>>} /\ <<beta>> # <<gamma>>
    OBVIOUS
<1>3. f[<<beta>>] = 1 * a[beta] /\ f[<<gamma>>] = 1 * a[gamma]
    BY <1>1 DEF TermsAt
<1>4. f[<<beta>>] = a[beta] /\ f[<<gamma>>] = a[gamma]
    BY <1>1, <1>3
<1> DEFINE x == <<beta>>
           y == <<gamma>>
<1> HIDE DEF f, x, y
<1>5. SumFunctionOnSet(f, {x, y}) = f[x] + f[y]
  <2>1. x # y /\ f[x] \in Int /\ f[y] \in Int
    BY <1>1, <1>2, <1>4 DEF x, y
  <2> QED BY <2>1, SumOfTwo
<1> QED BY <1>2, <1>4, <1>5 DEF f, x, y

(* The numerator of y. *)
LEMMA MinusNumerator ==
    ASSUME Given, NEW beta \in Wires, NEW gamma \in Wires, NEW wd \in Wires,
           beta # gamma, wd # beta, wd # gamma, NEW A \in Int,
           NEW num, num = [m \in {<<beta>>, <<gamma>>, <<wd>>} |->
                             IF m = <<beta>> THEN A ELSE IF m = <<gamma>> THEN P - 1 ELSE 1],
           NEW a \in solutions
    PROVE  Cong(SumFunctionOnSet(TermsAt(num, a), DOMAIN num),
                (A * a[beta] - a[gamma]) + a[wd], P)
<1> DEFINE f == TermsAt(num, a)
           x == <<beta>>
           y == <<gamma>>
           z == <<wd>>
           D == {x, y, z}
<1>0. P \in Int
    BY CircuitFacts DEF Given
<1>1. /\ a[beta] \in Int /\ a[gamma] \in Int /\ a[wd] \in Int /\ MonomialAt(x, a) = a[beta]
      /\ MonomialAt(y, a) = a[gamma] /\ MonomialAt(z, a) = a[wd]
    BY WireValue
<1>2. DOMAIN num = D /\ x # y /\ z # x /\ z # y
    OBVIOUS
<1>3. num[x] = A /\ num[y] = P - 1 /\ num[z] = 1
  <2>1. \A m \in D : num[m] = IF m = x THEN A ELSE IF m = y THEN P - 1 ELSE 1
    OBVIOUS
  <2> HIDE DEF x, y, z
  <2> QED BY <1>2, <2>1
<1> HIDE DEF x, y, z
<1>4. f[x] = A * a[beta] /\ f[y] = (P - 1) * a[gamma] /\ f[z] = 1 * a[wd]
    BY <1>1, <1>2, <1>3 DEF TermsAt
<1> HIDE DEF f
<1>5. f[x] \in Int /\ f[y] \in Int /\ f[z] \in Int
    BY <1>0, <1>1, <1>4
<1>6. IsFiniteSet(D) /\ IntOn(f, D)
  <2>1. IsFiniteSet({}) /\ IsFiniteSet({} \cup {x})
    BY FS_EmptySet, FS_AddElement
  <2>2. IsFiniteSet(({} \cup {x}) \cup {y})
    BY <2>1, FS_AddElement
  <2>3. IsFiniteSet((({} \cup {x}) \cup {y}) \cup {z})
    BY <2>2, FS_AddElement
  <2>4. D = (({} \cup {x}) \cup {y}) \cup {z}
    OBVIOUS
  <2> QED BY <1>5, <2>3, <2>4 DEF IntOn
<1>7. SumFunctionOnSet(f, D) = f[z] + (f[x] + f[y])
  <2>1. D \ {z} = {x, y} /\ z \in D
    BY <1>2
  <2> HIDE DEF D
  <2>2. SumFunctionOnSet(f, D) = f[z] + SumFunctionOnSet(f, D \ {z})
    BY <1>6, <2>1, SumRemove
  <2>3. SumFunctionOnSet(f, {x, y}) = f[x] + f[y]
    BY <1>2, <1>5, SumOfTwo
  <2> QED BY <2>1, <2>2, <2>3
<1> DEFINE F == SumFunctionOnSet(f, D)
           u == A * a[beta]
           v == a[gamma]
           w == a[wd]
<1>8. u \in Int /\ v \in Int /\ w \in Int /\ F = 1 * w + (u + (P - 1) * v)
    BY <1>1, <1>4, <1>7
<1> HIDE DEF F, u, v, w, D
<1>9. F - ((u - v) + w) = v * P
    BY <1>0, <1>8
<1>10. Cong(F, (u - v) + w, P)
    BY <1>8, <1>9, CongShown
<1> QED BY <1>2, <1>10 DEF F, u, v, w, f

\* The parts of a gadget.
GadgetOf(dx, dy, beta, gamma, wd, A, x1, y1, x2, y2) ==
    /\ beta # gamma /\ Certified(A, dx.d) /\ wd \in Wires \ {beta, gamma}
    /\ dx.num = [m \in {<<beta>>, <<gamma>>} |-> 1]
    /\ dy.num = [m \in {<<beta>>, <<gamma>>, <<wd>>} |->
                    IF m = <<beta>> THEN A ELSE IF m = <<gamma>> THEN P - 1 ELSE 1]
    /\ x1 \in Factors(Originals, beta) /\ y2 \in Factors(Originals, beta) /\ x1 # y2
    /\ y1 \in Factors(Originals, gamma) /\ x2 \in Factors(Originals, gamma) /\ y1 # x2
    /\ IsDelta(Originals, wd, x1, y1, x2, y2, A)

(* A gadget has them. *)
LEMMA GadgetParts ==
    ASSUME NEW dx, NEW dy, NEW beta, NEW gamma, IsGadget(Originals, dx, dy, beta, gamma)
    PROVE  \E wd, A, x1, y1, x2, y2 : GadgetOf(dx, dy, beta, gamma, wd, A, x1, y1, x2, y2)
<1> DEFINE A == Coefficient(dy.num, <<beta>>)
<1>1. PICK wd \in Wires \ {beta, gamma} :
          /\ dy.num = [m \in {<<beta>>, <<gamma>>, <<wd>>} |->
                          IF m = <<beta>> THEN A ELSE IF m = <<gamma>> THEN P - 1 ELSE 1]
          /\ \E x1, y2 \in Factors(Originals, beta), y1, x2 \in Factors(Originals, gamma) :
                x1 # y2 /\ y1 # x2 /\ IsDelta(Originals, wd, x1, y1, x2, y2, A)
    BY DEF IsGadget
<1>2. beta # gamma /\ dx.num = [m \in {<<beta>>, <<gamma>>} |-> 1] /\ Certified(A, dx.d)
    BY DEF IsGadget
<1> HIDE DEF A
<1>3. PICK x1 \in Factors(Originals, beta), y2 \in Factors(Originals, beta),
           y1 \in Factors(Originals, gamma), x2 \in Factors(Originals, gamma) :
                x1 # y2 /\ y1 # x2 /\ IsDelta(Originals, wd, x1, y1, x2, y2, A)
    BY <1>1
<1>4. GadgetOf(dx, dy, beta, gamma, wd, A, x1, y1, x2, y2)
    BY <1>1, <1>2, <1>3 DEF GadgetOf
<1> QED BY <1>4

(* With a denominator that is not zero the numerator determines the variable. *)
LEMMA Cancels ==
    ASSUME circuit \in Circuits, NEW x \in GF, NEW y \in GF, NEW e \in Int, ~Null(e),
           NEW n \in Int, Null(x * e - n), Null(y * e - n)
    PROVE  x = y
<1>0. P \in Int /\ x \in Int /\ y \in Int /\ x - y \in Int
    BY CircuitFacts DEF GF
<1>1. Null((x * e - n) - (y * e - n))
    BY NullSum
<1>2. (x * e - n) - (y * e - n) = e * (x - y)
    BY <1>0
<1>3. Cong(e * (x - y), 0, P) /\ ~Cong(e, 0, P)
    BY <1>1, <1>2 DEF Null
<1>4. Cong(x - y, 0, P)
    BY <1>0, <1>3, ZeroFactor
<1>5. Cong(x, y, P)
    BY <1>0, <1>4, CongLess
<1> QED BY <1>5, FieldEqual

\* The equations of a gadget on a solution.
GadgetAt(dx, dy, beta, gamma, wd, A, x1, y1, x2, y2, a) ==
    /\ Null(a[dx.tau] - a[beta] * a[gamma])
    /\ Null(a[beta] - a[x1] * a[y2]) /\ Null(a[gamma] - a[y1] * a[x2])
    /\ Null(a[wd] - (a[y1] - A * a[x1]) * (a[x2] + a[y2]))
    /\ Null(a[dx.v] * (1 + dx.d * a[dx.tau]) - (a[beta] + a[gamma]))
    /\ Null(a[dy.v] * (1 + dy.d * a[dx.tau]) - ((A * a[beta] - a[gamma]) + a[wd]))

\* The wires of a gadget.
GadgetWires(dx, dy, beta, gamma, wd, A, x1, y1, x2, y2) ==
    /\ dx.v \in Wires /\ dy.v \in Wires /\ dx.tau \in Wires
    /\ beta \in Wires /\ gamma \in Wires /\ wd \in Wires
    /\ x1 \in Wires /\ y1 \in Wires /\ x2 \in Wires /\ y2 \in Wires
    /\ dx.d \in 1 .. P - 1 /\ dy.d \in 1 .. P - 1 /\ Null(dx.d + dy.d)
    /\ ~IsSquare(dx.d) /\ A \in GF /\ \E r \in Int : Null(A - r * r)

(* The parameters of a gadget. *)
LEMMA ParametersAre ==
    ASSUME circuit \in Circuits, NEW A, NEW d \in 1 .. P - 1, NEW n \in 1 .. P - 1,
           n = Neg(d), Certified(A, d)
    PROVE  Null(d + n) /\ ~IsSquare(d) /\ A \in GF /\ \E r \in Int : Null(A - r * r)
<1>0. P \in Nat \ {0} /\ P \in Int /\ d \in Int /\ n \in Int
    BY CircuitFacts
<1>1. Null(d + n)
  <2>1. (P - d) % P = P - d
    <3> DEFINE p == P
    <3> HIDE DEF p
    <3>1. p \in Nat \ {0} /\ d \in 1 .. p - 1
        BY <1>0 DEF p
    <3>2. (p - d) % p = p - d
        BY <3>1
    <3> QED BY <3>2 DEF p
  <2>2. d + n = P
    BY <1>0, <2>1 DEF Neg
  <2>3. (d + n) - 0 = 1 * P /\ 1 \in Int /\ d + n \in Int
    BY <1>0, <2>2
  <2>4. Cong(d + n, 0, P)
    BY <2>3, CongShown
  <2> QED BY <2>3, <2>4 DEF Null
<1>2. PICK r \in GF \ {0} : (r * r) % P = A
    BY DEF Certified, IsSquare
<1>3. r \in Int /\ r * r \in Int
    BY <1>0 DEF GF
<1> DEFINE x == r * r
<1> HIDE DEF x
<1>4. x \in Int /\ x % P = A
    BY <1>2, <1>3 DEF x
<1>5. Cong(x, A, P) /\ A \in 0 .. (P - 1)
    BY <1>0, <1>4, CongResidue
<1>6. A \in Int /\ A \in GF
    BY <1>0, <1>5 DEF GF
<1>7. Null(A - x)
    BY <1>0, <1>4, <1>5, <1>6, CongSwap, NullDifference
<1> QED BY <1>1, <1>3, <1>6, <1>7 DEF Certified, x

(* They hold. *)
LEMMA GadgetHolds ==
    ASSUME IInv, Given, Sound, NEW i \in DOMAIN Originals, NEW j \in DOMAIN Originals,
           NEW dx \in Denominators(Originals[i]), NEW dy \in Denominators(Originals[j]),
           dx.tau = dy.tau, dy.d = Neg(dx.d),
           NEW beta \in Factors(Originals, dx.tau), NEW gamma \in Factors(Originals, dx.tau),
           NEW wd, NEW A, NEW x1, NEW y1, NEW x2, NEW y2,
           GadgetOf(dx, dy, beta, gamma, wd, A, x1, y1, x2, y2)
    PROVE  /\ GadgetWires(dx, dy, beta, gamma, wd, A, x1, y1, x2, y2)
           /\ \A a \in solutions : GadgetAt(dx, dy, beta, gamma, wd, A, x1, y1, x2, y2, a)
<1>0. circuit \in Circuits /\ P \in Int
    BY CircuitFacts DEF Given
<1>1. /\ Vanishes(Originals[i]) /\ VarsOf(Originals[i]) \subseteq Wires
      /\ Vanishes(Originals[j]) /\ VarsOf(Originals[j]) \subseteq Wires
    BY OriginalsAre
<1>2. /\ dx.v \in Wires /\ dx.tau \in Wires /\ dx.d \in 1 .. P - 1 /\ IsFiniteSet(DOMAIN dx.num)
      /\ \A a \in solutions :
            /\ IntOn(TermsAt(dx.num, a), DOMAIN dx.num)
            /\ Cong(a[dx.v] * (1 + dx.d * a[dx.tau]),
                    SumFunctionOnSet(TermsAt(dx.num, a), DOMAIN dx.num), P)
    BY <1>1, DenominatorIs
<1>3. /\ dy.v \in Wires /\ dy.d \in 1 .. P - 1 /\ IsFiniteSet(DOMAIN dy.num)
      /\ \A a \in solutions :
            /\ IntOn(TermsAt(dy.num, a), DOMAIN dy.num)
            /\ Cong(a[dy.v] * (1 + dy.d * a[dy.tau]),
                    SumFunctionOnSet(TermsAt(dy.num, a), DOMAIN dy.num), P)
    BY <1>1, DenominatorIs
<1>4. /\ beta # gamma /\ Certified(A, dx.d) /\ wd \in Wires /\ wd # beta /\ wd # gamma
      /\ dx.num = [m \in {<<beta>>, <<gamma>>} |-> 1]
      /\ dy.num = [m \in {<<beta>>, <<gamma>>, <<wd>>} |->
                    IF m = <<beta>> THEN A ELSE IF m = <<gamma>> THEN P - 1 ELSE 1]
    BY DEF GadgetOf
<1>5. /\ x1 \in Factors(Originals, beta) /\ y2 \in Factors(Originals, beta) /\ x1 # y2
      /\ y1 \in Factors(Originals, gamma) /\ x2 \in Factors(Originals, gamma) /\ y1 # x2
      /\ IsDelta(Originals, wd, x1, y1, x2, y2, A)
    BY DEF GadgetOf
<1>6. /\ beta \in Wires /\ gamma \in Wires
      /\ \A a \in solutions : Cong(a[dx.tau], a[beta] * a[gamma], P)
    BY <1>4, FactorsMultiply
<1>7. /\ x1 \in Wires /\ y2 \in Wires /\ \A a \in solutions : Cong(a[beta], a[x1] * a[y2], P)
    BY <1>5, FactorsMultiply
<1>8. /\ y1 \in Wires /\ x2 \in Wires /\ \A a \in solutions : Cong(a[gamma], a[y1] * a[x2], P)
    BY <1>5, FactorsMultiply
<1>9. Null(dx.d + dy.d) /\ ~IsSquare(dx.d) /\ A \in GF /\ \E r \in Int : Null(A - r * r)
    BY <1>0, <1>2, <1>3, <1>4, ParametersAre
<1>10. GadgetWires(dx, dy, beta, gamma, wd, A, x1, y1, x2, y2)
    BY <1>2, <1>3, <1>4, <1>6, <1>7, <1>8, <1>9 DEF GadgetWires
<1>11. A \in Int /\ dx.d \in Int /\ dy.d \in Int
    BY <1>0, <1>2, <1>3, <1>9 DEF GF
<1>12. ASSUME NEW a \in solutions PROVE GadgetAt(dx, dy, beta, gamma, wd, A, x1, y1, x2, y2, a)
  <2> DEFINE t == a[dx.tau]
             b == a[beta]
             g == a[gamma]
             w == a[wd]
             p == a[x1]
             q == a[y1]
             r == a[x2]
             s == a[y2]
             u == a[dx.v]
             v == a[dy.v]
             d == dx.d
             n == dy.d
             F == SumFunctionOnSet(TermsAt(dx.num, a), DOMAIN dx.num)
             G == SumFunctionOnSet(TermsAt(dy.num, a), DOMAIN dy.num)
  <2>1. /\ t \in Int /\ b \in Int /\ g \in Int /\ w \in Int /\ p \in Int /\ q \in Int
        /\ r \in Int /\ s \in Int /\ u \in Int /\ v \in Int
    BY <1>2, <1>3, <1>4, <1>6, <1>7, <1>8, WireValue
  <2>2. Cong(t, b * g, P) /\ Cong(b, p * s, P) /\ Cong(g, q * r, P)
    BY <1>6, <1>7, <1>8
  <2>3. Cong(w, (q - A * p) * (r + s), P)
    BY <1>4, <1>5, <1>7, <1>8, <1>9, DeltaIs
  <2>4. Cong(u * (1 + d * t), b + g, P)
    <3>1. Cong(u * (1 + d * t), F, P)
        BY <1>2
    <3>2. F = b + g
        BY <1>4, <1>6, PlusNumerator
    <3> QED BY <3>1, <3>2
  <2>5. Cong(v * (1 + n * t), G, P) /\ G \in Int
    BY <1>3, SumType
  <2>6. Cong(G, (A * b - g) + w, P)
    BY <1>4, <1>6, <1>11, MinusNumerator
  <2>7. d \in Int /\ n \in Int
    BY <1>11
  <2> HIDE DEF t, b, g, w, p, q, r, s, u, v, d, n, F, G
  <2>8. /\ b * g \in Int /\ p * s \in Int /\ q * r \in Int
        /\ (q - A * p) * (r + s) \in Int
        /\ u * (1 + d * t) \in Int /\ b + g \in Int
        /\ v * (1 + n * t) \in Int /\ (A * b - g) + w \in Int
    BY <1>11, <2>1, <2>7
  <2>9. Cong(v * (1 + n * t), (A * b - g) + w, P)
    BY <1>0, <2>5, <2>6, <2>8, CongTrans
  <2>10. /\ Null(t - b * g) /\ Null(b - p * s) /\ Null(g - q * r)
    BY <1>0, <2>1, <2>2, <2>8, NullDifference
  <2>11. Null(w - (q - A * p) * (r + s))
    BY <1>0, <2>1, <2>3, <2>8, NullDifference
  <2>12. Null(u * (1 + d * t) - (b + g))
    BY <1>0, <2>4, <2>8, NullDifference
  <2>13. Null(v * (1 + n * t) - ((A * b - g) + w))
    BY <1>0, <2>8, <2>9, NullDifference
  <2> QED BY <2>10, <2>11, <2>12, <2>13 DEF GadgetAt, t, b, g, w, p, q, r, s, u, v, d, n
<1> QED BY <1>10, <1>12

(* Neither denominator is zero. *)
LEMMA DenominatorsNotZero ==
    ASSUME Given, NEW dx, NEW dy, NEW beta, NEW gamma,
           NEW wd, NEW A, NEW x1, NEW y1, NEW x2, NEW y2, NEW a \in solutions,
           GadgetWires(dx, dy, beta, gamma, wd, A, x1, y1, x2, y2),
           GadgetAt(dx, dy, beta, gamma, wd, A, x1, y1, x2, y2, a)
    PROVE  ~Null(1 + dx.d * a[dx.tau]) /\ ~Null(1 + dy.d * a[dx.tau])
<1> DEFINE t == a[dx.tau]
           b == a[beta]
           g == a[gamma]
           w == a[wd]
           p == a[x1]
           q == a[y1]
           r == a[x2]
           s == a[y2]
           u == a[dx.v]
           v == a[dy.v]
           d == dx.d
           n == dy.d
<1>0. circuit \in Circuits
    BY DEF Given
<1>1. /\ t \in Int /\ b \in Int /\ g \in Int /\ w \in Int /\ p \in Int /\ q \in Int
      /\ r \in Int /\ s \in Int /\ u \in Int /\ v \in Int
    BY WireValue DEF GadgetWires
<1>2. /\ Null(t - b * g) /\ Null(b - p * s) /\ Null(g - q * r)
      /\ Null(w - (q - A * p) * (r + s))
      /\ Null(u * (1 + d * t) - (b + g)) /\ Null(v * (1 + n * t) - ((A * b - g) + w))
    BY DEF GadgetAt
<1>3. d \in 1 .. P - 1 /\ n \in 1 .. P - 1 /\ Null(d + n) /\ ~IsSquare(d) /\ A \in GF
    BY DEF GadgetWires
<1>4. PICK k \in Int : Null(A - k * k)
    BY DEF GadgetWires
<1>5. n \in Int /\ A \in Int
    BY <1>0, <1>3, CircuitFacts DEF GF
<1> HIDE DEF t, b, g, w, p, q, r, s, u, v, d, n
<1>6. ~Null(1 + d * t)
    BY <1>0, <1>1, <1>2, <1>3, PlusNotZero
<1>7. ~Null(1 + n * t)
    BY <1>0, <1>1, <1>2, <1>3, <1>4, <1>5, MinusNotZero
<1> QED BY <1>6, <1>7 DEF t, d, n

(* A wire that is the product of determined wires is determined. *)
LEMMA ProductDetermined ==
    ASSUME Given, NEW w \in Wires, NEW x, NEW y, Determined(x), Determined(y),
           x \in Wires, y \in Wires, \A a \in solutions : Null(a[w] - a[x] * a[y])
    PROVE  Determined(w)
<1>0. circuit \in Circuits /\ P \in Int
    BY CircuitFacts DEF Given
<1>1. ASSUME NEW a \in solutions, NEW b \in solutions, SameInputs(a, b) PROVE a[w] = b[w]
  <2>1. a[x] = b[x] /\ a[y] = b[y]
    BY <1>1 DEF Determined
  <2> DEFINE n == a[x] * a[y]
             u == a[w]
             v == b[w]
  <2>2. n \in Int /\ u \in Int /\ v \in Int /\ u \in GF /\ v \in GF
    <3>1. a[x] \in Int /\ a[y] \in Int
        BY WireValue
    <3>2. u \in Int /\ v \in Int /\ u \in GF /\ v \in GF
        BY WireValue
    <3>3. n \in Int
        BY <3>1
    <3> QED BY <3>2, <3>3
  <2>3. Null(u - n) /\ Null(v - n)
    BY <2>1
  <2> HIDE DEF n, u, v
  <2>4. Null((u - n) - (v - n))
    BY <1>0, <2>3, NullSum
  <2>5. (u - n) - (v - n) = u - v
    BY <2>2
  <2>6. Cong(u, v, P)
    BY <1>0, <2>2, <2>4, <2>5, NullDifference
  <2>7. u = v
    BY <1>0, <2>2, <2>6, FieldEqual
  <2> QED BY <2>7 DEF u, v
<1> QED BY <1>1 DEF Determined

(* The inputs of a gadget determine its outputs. *)
LEMMA GadgetDetermines ==
    ASSUME Given, NEW dx, NEW dy, NEW beta, NEW gamma,
           NEW wd, NEW A, NEW x1, NEW y1, NEW x2, NEW y2,
           GadgetWires(dx, dy, beta, gamma, wd, A, x1, y1, x2, y2),
           \A a \in solutions : GadgetAt(dx, dy, beta, gamma, wd, A, x1, y1, x2, y2, a),
           Determined(x1), Determined(y1), Determined(x2), Determined(y2)
    PROVE  Determined(dx.v) /\ Determined(dy.v)
<1>0. circuit \in Circuits /\ P \in Int
    BY CircuitFacts DEF Given
<1>1. /\ beta \in Wires /\ gamma \in Wires /\ wd \in Wires /\ dx.tau \in Wires
      /\ dx.v \in Wires /\ dy.v \in Wires
      /\ x1 \in Wires /\ y1 \in Wires /\ x2 \in Wires /\ y2 \in Wires
    BY DEF GadgetWires
<1>2. Determined(beta) /\ Determined(gamma)
  <2>1. \A a \in solutions : Null(a[beta] - a[x1] * a[y2]) /\ Null(a[gamma] - a[y1] * a[x2])
    BY DEF GadgetAt
  <2> QED BY <1>1, <2>1, ProductDetermined
<1>3. Determined(dx.tau)
  <2>1. \A a \in solutions : Null(a[dx.tau] - a[beta] * a[gamma])
    BY DEF GadgetAt
  <2> QED BY <1>1, <1>2, <2>1, ProductDetermined
<1>4. A \in Int /\ dx.d \in Int /\ dy.d \in Int
    BY <1>0, CircuitFacts DEF GadgetWires, GF
<1>5. ASSUME NEW a \in solutions, NEW b \in solutions, SameInputs(a, b)
      PROVE  a[dx.v] = b[dx.v] /\ a[dy.v] = b[dy.v]
  <2> DEFINE d == (a[y1] - A * a[x1]) * (a[x2] + a[y2])
             t == a[dx.tau]
             e == 1 + dx.d * t
             f == 1 + dy.d * t
             m == a[beta] + a[gamma]
             k == A * a[beta] - a[gamma]
             n == k + d
  <2>1. /\ a[x1] = b[x1] /\ a[y1] = b[y1] /\ a[x2] = b[x2] /\ a[y2] = b[y2]
        /\ a[beta] = b[beta] /\ a[gamma] = b[gamma] /\ a[dx.tau] = b[dx.tau]
    BY <1>2, <1>3, <1>5 DEF Determined
  <2>2. /\ a[x1] \in Int /\ a[y1] \in Int /\ a[x2] \in Int /\ a[y2] \in Int
        /\ a[beta] \in Int /\ a[gamma] \in Int /\ t \in Int
        /\ a[wd] \in Int /\ b[wd] \in Int
    BY <1>1, WireValue
  <2>3. d \in Int /\ e \in Int /\ f \in Int /\ m \in Int /\ k \in Int /\ n \in Int
    BY <1>4, <2>2
  <2>4. /\ a[dx.v] \in GF /\ b[dx.v] \in GF /\ a[dy.v] \in GF /\ b[dy.v] \in GF
        /\ a[dy.v] \in Int /\ b[dy.v] \in Int
    BY <1>1, WireValue
  <2>5. ~Null(e) /\ ~Null(f)
    BY DenominatorsNotZero
  <2>6. /\ Null(a[dx.v] * e - m) /\ Null(a[dy.v] * f - (k + a[wd])) /\ Null(a[wd] - d)
        /\ Null(b[dx.v] * e - m) /\ Null(b[dy.v] * f - (k + b[wd])) /\ Null(b[wd] - d)
    BY <2>1 DEF GadgetAt
  <2> HIDE DEF d, t, e, f, m, k, n
  <2>7. ASSUME NEW y \in Int, NEW w \in Int, Null(y * f - (k + w)), Null(w - d)
        PROVE  Null(y * f - n)
    <3>1. Null((y * f - (k + w)) + (w - d))
        BY <1>0, <2>7, NullSum
    <3> DEFINE z == y * f
    <3>2. z \in Int
        BY <2>3
    <3> HIDE DEF z
    <3>3. (z - (k + w)) + (w - d) = z - n
        BY <2>3, <3>2 DEF n
    <3> QED BY <3>1, <3>3 DEF z
  <2>8. Null(a[dy.v] * f - n) /\ Null(b[dy.v] * f - n)
    BY <2>2, <2>4, <2>6, <2>7
  <2>9. a[dx.v] = b[dx.v]
    BY <1>0, <2>3, <2>4, <2>5, <2>6, Cancels
  <2>10. a[dy.v] = b[dy.v]
    BY <1>0, <2>3, <2>4, <2>5, <2>8, Cancels
  <2> QED BY <2>9, <2>10
<1> QED BY <1>5 DEF Determined

(* What one pair of equalities of a pass of tecomplete makes known is         *)
(* determined.                                                                *)
LEMMA TecompleteAtSound ==
    ASSUME IInv, Given, Sound, NEW K, AllDetermined(K),
           NEW i \in DOMAIN Originals, NEW j \in DOMAIN Originals,
           NEW w \in TecompleteAt(Originals, K, i, j)
    PROVE  Determined(w)
<1> DEFINE outputs(dx, dy) ==
            IF /\ dx.v # dy.v /\ dx.tau = dy.tau /\ dy.d = Neg(dx.d)
               /\ \E ins \in GadgetInputs(Originals, dx, dy) : ins \subseteq K
            THEN {dx.v, dy.v} ELSE {}
<1>1. CASE w \in K
    BY <1>1 DEF AllDetermined
<1>2. CASE w \notin K
  <2>1. TecompleteAt(Originals, K, i, j) = K \cup (unknown \cap
            UNION {outputs(dx, dy) : dx \in Denominators(Originals[i]),
                                     dy \in Denominators(Originals[j])})
    BY DEF TecompleteAt
  <2> HIDE DEF outputs
  <2>2. PICK dx \in Denominators(Originals[i]), dy \in Denominators(Originals[j]) :
            w \in outputs(dx, dy)
    BY <1>2, <2>1
  <2>3. /\ dx.tau = dy.tau /\ dy.d = Neg(dx.d) /\ (w = dx.v \/ w = dy.v)
        /\ \E ins \in GadgetInputs(Originals, dx, dy) : ins \subseteq K
    BY <2>2 DEF outputs
  <2>4. PICK ins \in GadgetInputs(Originals, dx, dy) : ins \subseteq K
    BY <2>3
  <2> DEFINE tau == Factors(Originals, dx.tau)
  <2>5. PICK pr \in tau \X tau :
            /\ IsGadget(Originals, dx, dy, pr[1], pr[2])
            /\ ins = Factors(Originals, pr[1]) \cup Factors(Originals, pr[2])
    BY DEF GadgetInputs
  <2> DEFINE beta == pr[1]
             gamma == pr[2]
  <2>6. /\ beta \in tau /\ gamma \in tau /\ IsGadget(Originals, dx, dy, beta, gamma)
        /\ Factors(Originals, beta) \subseteq K /\ Factors(Originals, gamma) \subseteq K
    BY <2>4, <2>5
  <2> HIDE DEF beta, gamma
  <2>7. PICK wd, A, x1, y1, x2, y2 : GadgetOf(dx, dy, beta, gamma, wd, A, x1, y1, x2, y2)
    BY <2>6, GadgetParts
  <2>8. x1 \in K /\ y2 \in K /\ y1 \in K /\ x2 \in K
    BY <2>6, <2>7 DEF GadgetOf
  <2>9. Determined(x1) /\ Determined(y2) /\ Determined(y1) /\ Determined(x2)
    BY <2>8 DEF AllDetermined
  <2>10. /\ GadgetWires(dx, dy, beta, gamma, wd, A, x1, y1, x2, y2)
         /\ \A a \in solutions : GadgetAt(dx, dy, beta, gamma, wd, A, x1, y1, x2, y2, a)
    BY <2>3, <2>6, <2>7, GadgetHolds
  <2>11. Determined(dx.v) /\ Determined(dy.v)
    BY <2>9, <2>10, GadgetDetermines
  <2> QED BY <2>3, <2>11
<1> QED BY <1>1, <1>2

(* What a pass of tecomplete makes known is determined. *)
LEMMA TecompleteSound ==
    ASSUME IInv, Given, Sound, KnownDetermined
    PROVE  \A w \in TecompletePass : Determined(w)
<1> DEFINE S == {K \in Between : AllDetermined(K)}
<1>1. known \in S
    BY DEF Between, IInv, Partition, KnownDetermined, AllDetermined
<1>2. ASSUME NEW K \in S, NEW i \in DOMAIN Originals, NEW j \in DOMAIN Originals
      PROVE  TecompleteAt(Originals, K, i, j) \in S
  <2>1. TecompleteAt(Originals, K, i, j) \in Between
    BY DEF TecompleteAt, Between, IInv, Partition
  <2>2. AllDetermined(TecompleteAt(Originals, K, i, j))
    <3>1. AllDetermined(K)
        OBVIOUS
    <3> QED BY <3>1, TecompleteAtSound DEF AllDetermined
  <2> QED BY <2>1, <2>2
<1>3. TecompletePass \in S
  <2> HIDE DEF S
  <2> QED BY <1>1, <1>2, TecompleteFold
<1> QED BY <1>3 DEF AllDetermined

-------------------------------------------------------------------------------
(* The invariant about the solutions. *)

\* What the IR leaves is a solution.
Exact ==
    \A alt \in BOOLEAN : \A a \in Assignments(circuit) :
        (\A q \in Range(equalities) : VarsOf(q) \subseteq Copy(alt) => PolyAt(q, a) = 0)
            => a \in solutions

(* The IR, the ranges, the known wires and the clauses follow from the        *)
(* circuit; without markers they say as much.                                 *)
SInv ==
    /\ Given /\ Sound /\ KnownDetermined /\ RangesHold(ranges)
    /\ Inputs \subseteq known
    /\ \A clause \in disjunctions \cup learned : Entailed(clause)
    /\ pc # "lower" /\ known = Inputs => Exact

\* A step of the system works on one circuit.
SameCircuit == circuit' = circuit /\ solutions' = solutions

(* The value of a monomial does not change. *)
LEMMA MonomialKept ==
    ASSUME SameCircuit, NEW m, NEW a
    PROVE  MonomialAt(m, a)' = MonomialAt(m, a)
BY Zenon DEF MonomialAt, Wire, NWires, SameCircuit

(* Nor does the value of a polynomial. *)
LEMMA PolyKept ==
    ASSUME SameCircuit, NEW q, NEW a
    PROVE  PolyAt(q, a)' = PolyAt(q, a)
<1> DEFINE f == [m \in DOMAIN q |-> q[m] * MonomialAt(m, a)]
           g == [m \in DOMAIN q |-> q[m] * MonomialAt(m, a)']
<1>1. f = g
  <2>1. \A m : MonomialAt(m, a)' = MonomialAt(m, a)
    BY MonomialKept
  <2> QED BY <2>1
<1>2. PolyAt(q, a) = SumFunctionOnSet(f, DOMAIN q) % P
    BY DEF PolyAt
<1>3. PolyAt(q, a)' = SumFunctionOnSet(g, DOMAIN q) % P'
    BY DEF PolyAt
<1>4. P' = P
    BY DEF P, SameCircuit
<1> HIDE DEF f, g
<1> QED BY <1>1, <1>2, <1>3, <1>4

(* A step leaves the variables of a copy alone. *)
LEMMA CopyKept == ASSUME SameCircuit, NEW alt PROVE Copy(alt)' = Copy(alt)
BY DEF Copy, Var, Wires, NWires, Inputs, SameCircuit

(* And what a polynomial is. *)
LEMMA IsPolyKept == ASSUME SameCircuit, NEW q PROVE IsPoly(q)' <=> IsPoly(q)
BY DEF IsPoly, Monomials, Variables, One, NWires, P, SameCircuit

(* What holds on the solutions keeps holding. *)
LEMMA VanishesKept ==
    ASSUME SameCircuit, NEW q
    PROVE  Vanishes(q)' <=> Vanishes(q)
<1>1. IsPoly(q)' <=> IsPoly(q)
    BY IsPolyKept
<1>2. \A alt : Copy(alt)' = Copy(alt)
    BY CopyKept
<1>3. \A a : PolyAt(q, a)' = PolyAt(q, a)
    BY PolyKept
<1>4. solutions' = solutions
    BY DEF SameCircuit
<1>5. VarsOf(q)' = VarsOf(q)
    BY DEF VarsOf
<1> QED BY <1>1, <1>2, <1>3, <1>4, <1>5 DEF Vanishes

(* What the inputs determine stays determined. *)
LEMMA DeterminedKept == ASSUME SameCircuit, NEW w PROVE Determined(w)' <=> Determined(w)
BY DEF Determined, SameInputs, Inputs, SameCircuit

(* What the circuit entails stays entailed. *)
LEMMA EntailedKept == ASSUME SameCircuit, NEW clause PROVE Entailed(clause)' <=> Entailed(clause)
BY DEF Entailed, IsZero, Wire, NWires, Inputs, SameCircuit

(* The history of the solutions stays right. *)
LEMMA GivenKept == ASSUME SameCircuit, Given PROVE Given'
BY DEF Given, SameCircuit

(* Ranges that hold stay so. *)
LEMMA RangesKept ==
    ASSUME SameCircuit, RangesHold(ranges')
    PROVE  RangesHold(ranges)'
BY DEF RangesHold, Wires, NWires, SameCircuit

(* More wires known, equalities that follow: the IR stays sound. *)
LEMMA SoundKept ==
    ASSUME SameCircuit,
           \A q \in Range(equalities') :
              (\E w \in known' \ Inputs : q = Marker(w)) \/ Vanishes(q)
    PROVE  Sound'
<1>1. Inputs' = Inputs /\ \A w : Marker(w)' = Marker(w)
    BY DEF Inputs, Marker, NWires, P, SameCircuit
<1>2. \A q : Vanishes(q)' <=> Vanishes(q)
    BY VanishesKept
<1>3. ASSUME NEW q \in Range(equalities') PROVE IsMarker(q)' \/ Vanishes(q)'
    BY <1>1, <1>2 DEF IsMarker
<1> QED BY <1>3 DEF Sound, Range

(* An exact IR stays exact while the equalities stay. *)
LEMMA ExactKept ==
    ASSUME SameCircuit, equalities' = equalities, Exact
    PROVE  Exact'
<1>1. \A alt : Copy(alt)' = Copy(alt)
    BY CopyKept
<1>2. \A q, a : PolyAt(q, a)' = PolyAt(q, a)
    BY PolyKept
<1>3. Assignments(circuit)' = Assignments(circuit)
    BY DEF SameCircuit
<1>4. \A q : VarsOf(q)' = VarsOf(q)
    BY DEF VarsOf
<1>5. Range(equalities)' = Range(equalities)
    OBVIOUS
<1>6. solutions' = solutions
    BY DEF SameCircuit
<1> QED BY <1>1, <1>2, <1>3, <1>4, <1>5, <1>6 DEF Exact

(* A step that makes determined wires known and learns clauses that follow    *)
(* keeps the invariant.                                                       *)
LEMMA SemanticStep ==
    ASSUME SInv, SameCircuit, equalities' = equalities, known \subseteq known',
           \A w \in known' : Determined(w), RangesHold(ranges'),
           \A clause \in disjunctions' \cup learned' : Entailed(clause),
           pc = "lower" => pc' = "lower"
    PROVE  SInv'
<1>1. Given'
    BY GivenKept DEF SInv
<1>2. Sound'
  <2>1. \A q \in Range(equalities') : (\E w \in known' \ Inputs : q = Marker(w)) \/ Vanishes(q)
    BY DEF SInv, Sound, IsMarker
  <2> QED BY <2>1, SoundKept
<1>3. KnownDetermined'
  <2>1. \A w : Determined(w)' <=> Determined(w)
    BY DeterminedKept
  <2> QED BY <2>1 DEF KnownDetermined
<1>4. RangesHold(ranges)'
    BY RangesKept
<1>5. Inputs' = Inputs /\ Inputs' \subseteq known'
    BY DEF SInv, Inputs, SameCircuit
<1>6. \A clause \in disjunctions' \cup learned' : Entailed(clause)'
    BY EntailedKept
<1>7. ASSUME pc' # "lower", known' = Inputs' PROVE Exact'
  <2>1. pc # "lower" /\ known = Inputs
    BY <1>5, <1>7 DEF SInv
  <2> QED BY <2>1, ExactKept DEF SInv
<1> QED BY <1>1, <1>2, <1>3, <1>4, <1>5, <1>6, <1>7 DEF SInv

\* What a lemma of a round does when it only promotes.
PromotesTo(K) ==
    /\ pc = "round" /\ Promote(K)
    /\ UNCHANGED <<circuit, solutions, equalities, ranges, disjunctions, learned, pc>>

(* Such a lemma keeps it when what it promotes is determined. *)
LEMMA PromotionKeeps ==
    ASSUME SInv, NEW K \in Between, \A w \in K : Determined(w), PromotesTo(K)
    PROVE  SInv'
<1>1. SameCircuit /\ equalities' = equalities /\ known \subseteq known'
    BY DEF PromotesTo, SameCircuit, Promote, Between
<1>2. \A w \in known' : Determined(w)
    BY DEF PromotesTo, Promote
<1>3. RangesHold(ranges')
    BY DEF PromotesTo, SInv
<1>4. \A clause \in disjunctions' \cup learned' : Entailed(clause)
    BY DEF PromotesTo, SInv
<1>5. pc = "lower" => pc' = "lower"
    BY DEF PromotesTo
<1> QED BY <1>1, <1>2, <1>3, <1>4, <1>5, SemanticStep

(* basis2 is one. *)
LEMMA Basis2Keeps == ASSUME IInv, SInv, Basis2 PROVE SInv'
<1> DEFINE K == Basis2Known
<1>1. K \in Between /\ \A w \in K : Determined(w)
    BY Basis2Between, Basis2Sound DEF SInv
<1>2. PromotesTo(K)
    BY DEF Basis2, PromotesTo, Turn, given, before
<1> HIDE DEF K
<1> QED BY <1>1, <1>2, PromotionKeeps

(* tecomplete is one. *)
LEMMA TecompleteKeeps == ASSUME IInv, SInv, Tecomplete PROVE SInv'
<1> DEFINE K == TecompletePass
<1>1. K \in Between /\ \A w \in K : Determined(w)
    BY TecompleteBetween, TecompleteSound DEF SInv
<1>2. PromotesTo(K)
    BY DEF Tecomplete, PromotesTo, Turn, given, before
<1> HIDE DEF K
<1> QED BY <1>1, <1>2, PromotionKeeps

(* linear is one. *)
LEMMA LinearKeeps == ASSUME IInv, SInv, Linear PROVE SInv'
<1> DEFINE K == LinearClosure
<1>1. K \in Between
    BY DEF LinearClosure, Between, IInv, Partition
<1>2. \A w \in K : Determined(w)
    BY LinearSound DEF SInv, IInv
<1>3. PromotesTo(K)
    BY DEF Linear, PromotesTo, Turn, given, before
<1> HIDE DEF K
<1> QED BY <1>1, <1>2, <1>3, PromotionKeeps

(* bim is one. *)
LEMMA BimKeeps == ASSUME IInv, SInv, Bim PROVE SInv'
<1> DEFINE K == IF BimFires THEN known \cup BimWires ELSE known
<1>1. K \in Between
    BY DEF BimFires, Between, IInv, Partition
<1>2. \A w \in K : Determined(w)
  <2>1. BimFires => \A w \in BimWires : Determined(w)
    BY BimSound DEF SInv
  <2> QED BY <2>1 DEF SInv, KnownDetermined
<1>3. PromotesTo(K)
    BY DEF Bim, PromotesTo, Turn, given, before
<1> HIDE DEF K
<1> QED BY <1>1, <1>2, <1>3, PromotionKeeps

(* binary01 tightens ranges to what they were or to the two roots. *)
LEMMA Binary01Keeps == ASSUME IInv, SInv, Binary01 PROVE SInv'
<1> DEFINE single == {w \in unknown \cap DOMAIN ranges' : IsSingleton(ranges'[w])}
<1>1. /\ pc = "round" /\ known' = known \cup single /\ ranges' = TightenedRanges
      /\ UNCHANGED <<circuit, solutions, equalities, disjunctions, learned, pc>>
    BY DEF Binary01, Turn, Promote, given, before
<1>2. RangesHold(ranges')
    BY <1>1, TightenedHold DEF SInv
<1>3. \A w \in single : Determined(w)
    BY <1>2, SingleDetermined
<1> HIDE DEF single
<1>4. \A w \in known' : Determined(w)
    BY <1>1, <1>3 DEF SInv, KnownDetermined
<1>5. SameCircuit /\ equalities' = equalities /\ known \subseteq known'
    BY <1>1 DEF SameCircuit
<1>6. \A clause \in disjunctions' \cup learned' : Entailed(clause)
    BY <1>1 DEF SInv
<1>7. pc = "lower" => pc' = "lower"
    BY <1>1
<1> QED BY <1>2, <1>4, <1>5, <1>6, <1>7, SemanticStep

(* aboz learns clauses of products that are zero. *)
LEMMA AbozKeeps == ASSUME IInv, SInv, Aboz PROVE SInv'
<1> DEFINE pass == AbozPass
           new == UNION {ZeroProduct(pr[1], pr[2]) : pr \in pass.pairs}
<1>1. /\ pc = "round" /\ known' = pass.known /\ learned' = learned \cup new
      /\ UNCHANGED <<circuit, solutions, equalities, ranges, disjunctions, pc>>
    BY DEF Aboz, Turn, Promote, given, before
<1>2. known \subseteq pass.known
    BY AbozPassed DEF Passed, Between
<1>3. /\ \A w \in pass.known : Determined(w)
      /\ \A pr \in pass.pairs : pr \in Wires \X Wires /\ ZeroPair(pr[1], pr[2])
    BY AbozSound DEF SInv
<1> HIDE DEF pass
<1>4. ASSUME NEW clause \in new PROVE Entailed(clause)
  <2>1. PICK pr \in pass.pairs : clause \in ZeroProduct(pr[1], pr[2])
    BY <1>4
  <2>2. pr[1] \in Wires /\ pr[2] \in Wires /\ ZeroPair(pr[1], pr[2])
    BY <1>3, <2>1
  <2> QED BY <2>1, <2>2, ZeroProductEntailed DEF SInv
<1> HIDE DEF new
<1>5. \A clause \in disjunctions' \cup learned' : Entailed(clause)
    BY <1>1, <1>4 DEF SInv
<1>6. SameCircuit /\ equalities' = equalities /\ known \subseteq known'
    BY <1>1, <1>2 DEF SameCircuit
<1>7. \A w \in known' : Determined(w)
    BY <1>1, <1>3
<1>8. RangesHold(ranges') /\ (pc = "lower" => pc' = "lower")
    BY <1>1 DEF SInv
<1> QED BY <1>5, <1>6, <1>7, <1>8, SemanticStep

(* The end of a round only moves clauses. *)
LEMMA EndRoundKeeps == ASSUME SInv, EndRound PROVE SInv'
<1>1. /\ pc = "round" /\ disjunctions' = disjunctions \cup learned /\ learned' = {}
      /\ UNCHANGED <<circuit, solutions, equalities, known, ranges>>
    BY DEF EndRound, given
<1>2. SameCircuit /\ equalities' = equalities /\ known \subseteq known'
    BY <1>1 DEF SameCircuit
<1>3. \A w \in known' : Determined(w)
    BY <1>1 DEF SInv, KnownDetermined
<1>4. RangesHold(ranges') /\ (pc = "lower" => pc' = "lower")
    BY <1>1 DEF SInv
<1>5. \A clause \in disjunctions' \cup learned' : Entailed(clause)
    BY <1>1 DEF SInv
<1> QED BY <1>2, <1>3, <1>4, <1>5, SemanticStep

(* A step that changes nothing keeps it. *)
LEMMA StutterKeeps == ASSUME SInv, UNCHANGED vars PROVE SInv'
<1>1. UNCHANGED <<circuit, solutions, equalities, known, ranges, disjunctions, learned, pc>>
    BY DEF vars, given
<1>2. SameCircuit /\ equalities' = equalities /\ known \subseteq known'
    BY <1>1 DEF SameCircuit
<1>3. \A w \in known' : Determined(w)
    BY <1>1 DEF SInv, KnownDetermined
<1>4. RangesHold(ranges') /\ (pc = "lower" => pc' = "lower")
    BY <1>1 DEF SInv
<1>5. \A clause \in disjunctions' \cup learned' : Entailed(clause)
    BY <1>1 DEF SInv
<1> QED BY <1>2, <1>3, <1>4, <1>5, SemanticStep

(* Lowering says of the wires what the circuit says. *)
LEMMA LowerKeeps == ASSUME IInv, SInv, Lower PROVE SInv'
<1>1. /\ pc = "lower" /\ pc' = "round" /\ equalities' = LoweredIR(circuit.r1cs)
      /\ UNCHANGED <<circuit, solutions, known, ranges, learned, disjunctions>>
    BY DEF Lower, given, ctxVars
<1>2. SameCircuit /\ Given' /\ Inputs' = Inputs /\ Inputs' \subseteq known'
    BY <1>1, GivenKept DEF SInv, SameCircuit, Inputs
<1>3. circuit \in Circuits /\ solutions = SolutionsOf(circuit)
    BY DEF SInv, Given
<1>4. Sound'
  <2>1. \A q \in Range(equalities') : Vanishes(q)
    BY <1>1, <1>3, LoweredSound DEF Vanishes
  <2> QED BY <1>2, <2>1, SoundKept
<1>5. KnownDetermined'
    BY <1>1, <1>2, DeterminedKept DEF SInv, KnownDetermined
<1>6. RangesHold(ranges)'
  <2>1. RangesHold(ranges')
    BY <1>1 DEF SInv
  <2> QED BY <1>2, <2>1, RangesKept
<1>7. \A clause \in disjunctions' \cup learned' : Entailed(clause)'
    BY <1>1, <1>2, EntailedKept DEF SInv
<1>8. Exact'
  <2>1. \A alt : Copy(alt)' = Copy(alt)
    BY <1>2, CopyKept
  <2>2. \A q, a : PolyAt(q, a)' = PolyAt(q, a)
    BY <1>2, PolyKept
  <2>3. Assignments(circuit)' = Assignments(circuit)
    BY <1>1
  <2>4. \A q : VarsOf(q)' = VarsOf(q)
    BY DEF VarsOf
  <2>5. Range(equalities)' = Range(LoweredIR(circuit.r1cs))
    BY <1>1 DEF Range
  <2>6. ASSUME NEW alt \in BOOLEAN, NEW a \in Assignments(circuit),
               \A q \in Range(LoweredIR(circuit.r1cs)) :
                  VarsOf(q) \subseteq Copy(alt) => PolyAt(q, a) = 0
        PROVE  a \in solutions
    BY <1>3, <2>6, LoweredExact
  <2>7. solutions' = solutions
    BY <1>1
  <2> QED BY <2>1, <2>2, <2>3, <2>4, <2>5, <2>6, <2>7 DEF Exact
<1> QED BY <1>2, <1>4, <1>5, <1>6, <1>7, <1>8 DEF SInv

(* The new markers are markers of the wires they are for. *)
LEMMA NewMarkersAre ==
    ASSUME circuit \in Circuits, NEW K
    PROVE  /\ NewMarkers(K) \in Seq({Marker(w) : w \in K \ Inputs})
           /\ \A q \in Range(NewMarkers(K)) : \E w \in K \ Inputs : q = Marker(w)
<1> DEFINE all == [i \in 1 .. NWires |-> Marker(i - 1)]
           missing == {w \in K \ Inputs : Marker(w) \notin Range(equalities)}
           S == {Marker(w) : w \in missing}
           T == {Marker(w) : w \in K \ Inputs}
           s == NewMarkers(K)
<1>1. all \in Seq(Range(all))
  <2>1. all = [k \in 1 .. NWires |-> all[k]] /\ NWires \in Nat
    BY CircuitFacts
  <2> HIDE DEF all
  <2> QED BY <2>1, ListSeq
<1>2. s = Selected(all, S)
    BY DEF NewMarkers
<1>3. S \subseteq T
    OBVIOUS
<1> HIDE DEF all, S, s
<1>4. s \in Seq(Range(all) \cap S)
    BY <1>1, <1>2, SelectedSeq
<1> HIDE DEF T
<1>5. s \in Seq(T)
    BY <1>3, <1>4
<1>6. \A q \in Range(s) : q \in T
    BY <1>5 DEF Range
<1> QED BY <1>5, <1>6 DEF s, T

(* What the solver proves is determined; the markers are of known wires. *)
LEMMA SolverProvesKeeps ==
    ASSUME IInv, SInv, NEW w \in unknown, SolverProves(w)
    PROVE  SInv'
<1>1. /\ Unique(w) /\ known' = known \cup {w} /\ pc = "stable"
      /\ equalities' = equalities \o NewMarkers(known')
      /\ UNCHANGED <<circuit, solutions, ranges, disjunctions, learned>>
    BY DEF SolverProves, given
<1>2. SameCircuit /\ Given' /\ Inputs' = Inputs /\ Inputs' \subseteq known'
    BY <1>1, GivenKept DEF SInv, SameCircuit, Inputs
<1>3. \A u \in known' : Determined(u)
  <2>1. Determined(w)
    BY <1>1, UniqueIs DEF SInv
  <2> QED BY <1>1, <2>1 DEF SInv, KnownDetermined
<1>4. KnownDetermined'
    BY <1>2, <1>3, DeterminedKept DEF KnownDetermined
<1>5. RangesHold(ranges)'
  <2>1. RangesHold(ranges')
    BY <1>1 DEF SInv
  <2> QED BY <1>2, <2>1, RangesKept
<1>6. \A clause \in disjunctions' \cup learned' : Entailed(clause)'
    BY <1>1, <1>2, EntailedKept DEF SInv
<1>7. known' # Inputs'
  <2>1. w \notin known
    BY DEF IInv, Partition
  <2> QED BY <1>1, <1>2, <2>1 DEF SInv
<1>8. Sound'
  <2> DEFINE new == NewMarkers(known')
             R == Range(equalities)
             M == {Marker(u) : u \in known' \ Inputs}
             T == R \cup M
  <2>1. new \in Seq(M) /\ \A q \in Range(new) : \E u \in known' \ Inputs : q = Marker(u)
    BY NewMarkersAre DEF SInv, Given
  <2>2. equalities \in Seq(R)
    BY DEF IInv, IRWellFormed
  <2> HIDE DEF new, M
  <2>3. Range(equalities \o new) = R \cup Range(new)
    <3>1. equalities \in Seq(T) /\ new \in Seq(T)
        BY <2>1, <2>2
    <3> HIDE DEF T
    <3> QED BY <3>1, ConcatRange
  <2>4. Range(equalities') = R \cup Range(new)
    BY <1>1, <2>3 DEF new
  <2>5. ASSUME NEW q \in R PROVE (\E u \in known' \ Inputs : q = Marker(u)) \/ Vanishes(q)
    BY <1>1 DEF SInv, Sound, IsMarker
  <2>6. \A q \in Range(equalities') : (\E u \in known' \ Inputs : q = Marker(u)) \/ Vanishes(q)
    BY <2>1, <2>4, <2>5
  <2> QED BY <1>2, <2>6, SoundKept
<1> QED BY <1>2, <1>4, <1>5, <1>6, <1>7, <1>8 DEF SInv

(* Nothing is lowered, promoted or learned yet. *)
LEMMA InitiallySound == Init => SInv
<1> SUFFICES ASSUME Init PROVE SInv
    OBVIOUS
<1>1. /\ circuit \in Circuits /\ solutions = SolutionsOf(circuit) /\ equalities = <<>>
      /\ known = Inputs /\ ranges = [w \in {0} |-> {1}]
      /\ disjunctions = {} /\ learned = {} /\ pc = "lower"
    BY DEF Init
<1>2. Given
    BY <1>1 DEF Given
<1>3. Sound
  <2>1. Range(equalities) = {}
    BY <1>1 DEF Range
  <2> QED BY <2>1 DEF Sound
<1>4. KnownDetermined
    BY <1>1 DEF KnownDetermined, Determined, SameInputs
<1>5. RangesHold(ranges)
  <2>1. \A a \in solutions : a[0] = 1
    BY <1>2, SolutionsAre
  <2>2. 0 \in Wires
    BY <1>1, CircuitFacts
  <2>3. DOMAIN ranges = {0} /\ ranges[0] = {1}
    BY <1>1
  <2> QED BY <2>1, <2>2, <2>3 DEF RangesHold
<1> QED BY <1>1, <1>2, <1>3, <1>4, <1>5 DEF SInv

(* Every step keeps it. *)
LEMMA EverySoundStep ==
    ASSUME IInv, SInv, [Next]_vars
    PROVE  SInv'
<1>1. CASE Lower
    BY <1>1, LowerKeeps
<1>2. CASE Aboz
    BY <1>2, AbozKeeps
<1>3. CASE Basis2
    BY <1>3, Basis2Keeps
<1>4. CASE Bim
    BY <1>4, BimKeeps
<1>5. CASE Binary01
    BY <1>5, Binary01Keeps
<1>6. CASE Linear
    BY <1>6, LinearKeeps
<1>7. CASE Tecomplete
    BY <1>7, TecompleteKeeps
<1>8. CASE EndRound
    BY <1>8, EndRoundKeeps
<1>9. ASSUME NEW w \in unknown, SolverProves(w)
      PROVE  SInv'
    BY <1>9, SolverProvesKeeps
<1>10. CASE UNCHANGED vars
    BY <1>10, StutterKeeps
<1> QED
    BY <1>1, <1>2, <1>3, <1>4, <1>5, <1>6, <1>7, <1>8, <1>9, <1>10 DEF Next, Stopped

-------------------------------------------------------------------------------
(* The theorems. *)

(* Through every interleaving of rounds and solver answers, the known and    *)
(* unknown wires partition the circuit, the IR stays a list of polynomials   *)
(* over the variables of the two copies, and a round that fired or learned   *)
(* has made a wire known or reported a product (dpvl.rs, propagate).         *)
THEOREM InvariantHolds == Spec => []IInv
<1>1. IInv /\ [Next]_vars => IInv'
    BY EveryStep
<1> QED BY <1>1, Initially, PTL DEF Spec

(* propagate ends, for every circuit and every order of the lemmas: no step  *)
(* takes back a known wire or a reported product, and another round starts   *)
(* only after one that added to them (dpvl.rs, propagate; aboz.rs, emitted). *)
THEOREM Progress == Spec => RoundsMakeProgress
<1>1. IInv /\ [Next]_vars => [RoundStep]_vars
    BY EveryStep
<1>2. RoundStep <=> (/\ known \subseteq known' /\ emitted \subseteq emitted'
                     /\ pc = "round" /\ turn > Len(Lemmas) /\ pc' = "round" =>
                           known # knownBefore \/ emitted # emittedBefore)
    BY DEF RoundStep
<1> QED BY <1>1, <1>2, InvariantHolds, PTL DEF Spec, RoundsMakeProgress

(* The other half of that: what the rounds add to is bounded by the wires, so *)
(* there are at most n + n^2 rounds between two answers of the solver.        *)
THEOREM RoundsAreBounded ==
    Spec => [](known \subseteq Wires /\ emitted \subseteq Wires \X Wires)
<1>1. IInv => known \subseteq Wires /\ emitted \subseteq Wires \X Wires
    BY DEF IInv, Partition, ReportsAreWires
<1> QED BY <1>1, InvariantHolds, PTL

(* Whatever the lemmas match and the solver proves, the IR, the ranges, the  *)
(* known wires and the learned clauses follow from the constraints of the    *)
(* circuit; before the first answer of the solver the IR says as much.       *)
THEOREM FollowsFromCircuit == Spec => []SInv
<1>1. IInv /\ SInv /\ [Next]_vars => SInv'
    BY EverySoundStep
<1> QED BY <1>1, InitiallySound, InvariantHolds, PTL DEF Spec

(* No wire is promoted that the inputs do not determine, for every circuit   *)
(* over every prime field and every order of the lemmas: the matches of      *)
(* linear, binary01, basis2, bim, aboz and tecomplete and the gates in front *)
(* of them let only determined wires through (picus-analysis/src/            *)
(* propagation).                                                             *)
THEOREM PromotedIsUnique == Spec => []KnownIsUnique
<1>1. SInv => KnownIsUnique
    BY UniqueIs DEF SInv, KnownDetermined, KnownIsUnique
<1> QED BY <1>1, FollowsFromCircuit, PTL

(* No learned clause removes a pair of solutions with the same inputs from   *)
(* the query (aboz.rs, emit_zero_product).                                   *)
THEOREM LearnedIsEntailed == Spec => []ClausesEntailed
<1>1. SInv => ClausesEntailed
    BY DEF SInv, Entailed, ClausesEntailed
<1> QED BY <1>1, FollowsFromCircuit, PTL

(* Each copy of the lowered circuit has the solutions of the circuit, and    *)
(* none more (poly_ir.rs, r1cs_to_poly_ir).                                  *)
THEOREM CopiesAreExact == Spec => []LoweringIsExact
<1>1. ASSUME SInv, pc = "round", known = Inputs,
             NEW alt \in BOOLEAN, NEW a \in Assignments(circuit)
      PROVE  (\A p \in {p \in Range(equalities) : VarsOf(p) \subseteq Copy(alt)} : PolyAt(p, a) = 0)
                <=> a \in solutions
  <2>1. Exact
    BY <1>1 DEF SInv
  <2>2. ASSUME a \in solutions, NEW q \in Range(equalities) PROVE PolyAt(q, a) = 0
    BY <1>1, <2>2 DEF SInv, Sound, IsMarker, Vanishes
  <2> QED BY <2>1, <2>2 DEF Exact
<1>2. ASSUME SInv PROVE LoweringIsExact
  <2> SUFFICES ASSUME pc = "round", known = Inputs,
                      NEW alt \in BOOLEAN, NEW a \in Assignments(circuit)
               PROVE  (\A p \in {p \in Range(equalities) : VarsOf(p) \subseteq Copy(alt)} :
                          PolyAt(p, a) = 0) <=> a \in solutions
    BY DEF LoweringIsExact, Copy
  <2> QED BY <1>1, <1>2
<1>3. SInv => LoweringIsExact
    BY <1>2
<1> QED BY <1>3, FollowsFromCircuit, PTL

=============================================================================
