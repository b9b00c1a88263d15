----------------------------- MODULE TheoriesProofs -----------------------------
(***************************************************************************)
(* The theory plug-ins keep TheoryContract: their trails, their basis and   *)
(* their answers are those of what is asserted, at every level. First the   *)
(* inductive invariant; from "The world" on, that each step is one of the   *)
(* contract.                                                                *)
(***************************************************************************)
EXTENDS Theories, FoldLemmas, FiniteSetTheorems, TLAPS

-------------------------------------------------------------------------------
(* The set-up. *)

(* The kinds of theory and the tables each has. *)
LEMMA Kinds ==
    ASSUME setup \in SetUps
    PROVE  /\ setup.kind \in {"full", "incremental", "router"} /\ setup.ee \in BOOLEAN
           /\ Tables = 1 .. Len(setup.tables) /\ Len(setup.tables) \in Nat /\ 1 \in Tables
           /\ setup.kind # "router" \/ setup.ee => Tables = {1}
<1> DEFINE ts == setup.tables
<1>1. /\ setup.kind \in {"full", "incremental", "router"} /\ setup.ee \in BOOLEAN
      /\ ts # <<>> /\ ts \in Seq(Range(ts))
      /\ setup.kind # "router" \/ setup.ee => Len(ts) = 1
    BY TheoryAssumption
<1> HIDE DEF ts
<1>2. DOMAIN ts = 1 .. Len(ts) /\ Len(ts) \in Nat /\ Len(ts) # 0
    BY <1>1
<1>3. Tables = DOMAIN ts
    BY DEF Tables, ts
<1>4. Tables = 1 .. Len(ts) /\ 1 \in Tables
    BY <1>2, <1>3
<1>5. Len(ts) = 1 => Tables = {1}
    BY <1>4
<1> QED BY <1>1, <1>2, <1>4, <1>5 DEF ts

(* An auxiliary is no atom, and what the router assigns is one. *)
LEMMA AtomsApart ==
    ASSUME setup \in SetUps, NEW v
    PROVE  /\ \A s \in Tables : IsAuxiliary(v) => ~HasAtom(s, v)
           /\ v \in DOMAIN setup.assigned =>
                 setup.assigned[v] \in Tables /\ HasAtom(setup.assigned[v], v)
BY TheoryAssumption DEF Tables, IsAuxiliary, HasAtom

-------------------------------------------------------------------------------
(* Trails of literals. *)

(* No atom twice. *)
Once(t) ==
    /\ t \in Seq(Int)
    /\ \A i, j \in DOMAIN t : Abs(t[i]) = Abs(t[j]) => i = j

(* A literal of a new atom leaves no atom twice. *)
LEMMA OnceAppend ==
    ASSUME NEW t, Once(t), NEW l \in Int, \A i \in DOMAIN t : Abs(t[i]) # Abs(l)
    PROVE  Once(Append(t, l))
BY DEF Once

(* An appended sequence, element by element. *)
LEMMA AppendParts ==
    ASSUME NEW T, NEW t \in Seq(T), NEW l \in T
    PROVE  /\ Append(t, l) \in Seq(T) /\ Len(Append(t, l)) = Len(t) + 1 /\ Len(t) \in Nat
           /\ DOMAIN t = 1 .. Len(t) /\ DOMAIN Append(t, l) = 1 .. (Len(t) + 1)
           /\ Append(t, l)[Len(t) + 1] = l
           /\ \A i \in 1 .. Len(t) : Append(t, l)[i] = t[i]
OBVIOUS

\* A sequence, whatever its elements are.
IsSeq(s) == s \in Seq(Range(s))

(* A sequence and one element more. *)
LEMMA Grown ==
    ASSUME NEW s, IsSeq(s), NEW x
    PROVE  /\ IsSeq(Append(s, x)) /\ Range(Append(s, x)) = Range(s) \cup {x}
           /\ Len(Append(s, x)) = Len(s) + 1 /\ Len(s) \in Nat
           /\ DOMAIN s = 1 .. Len(s) /\ DOMAIN Append(s, x) = 1 .. (Len(s) + 1)
           /\ Append(s, x)[Len(s) + 1] = x
           /\ \A i \in 1 .. Len(s) : Append(s, x)[i] = s[i]
<1> DEFINE T == Range(s) \cup {x}
           n == Len(s)
           u == Append(s, x)
<1>1. s \in Seq(T) /\ x \in T
  <2>1. Range(s) \subseteq T
    OBVIOUS
  <2> QED BY <2>1 DEF IsSeq
<1> HIDE DEF T
<1>2. /\ u \in Seq(T) /\ Len(u) = n + 1 /\ n \in Nat
      /\ DOMAIN s = 1 .. n /\ DOMAIN u = 1 .. (n + 1)
      /\ u[n + 1] = x /\ \A i \in 1 .. n : u[i] = s[i]
    BY <1>1, AppendParts
<1> HIDE DEF u, n
<1>3. Range(u) = T
  <2>1. ASSUME NEW y \in Range(u) PROVE y \in T
    <3>1. PICK i \in 1 .. (n + 1) : u[i] = y
        BY <1>2, <2>1 DEF Range
    <3>2. i \in 1 .. n \/ i = n + 1
        BY <1>2
    <3>3. \A k \in 1 .. n : s[k] \in T
        BY <1>1, <1>2
    <3> QED BY <1>1, <1>2, <3>1, <3>2, <3>3
  <2>2. ASSUME NEW y \in T PROVE y \in Range(u)
    <3>1. n + 1 \in DOMAIN u /\ \A i \in 1 .. n : i \in DOMAIN u
        BY <1>2
    <3>2. CASE y = x
        BY <1>2, <3>1, <3>2 DEF Range
    <3>3. CASE y \in Range(s)
        BY <1>2, <3>1, <3>3 DEF Range
    <3> QED BY <2>2, <3>2, <3>3 DEF T
  <2> QED BY <2>1, <2>2
<1> QED BY <1>2, <1>3 DEF IsSeq, T, u, n

(* Whether a literal was dropped depends on what was asserted before it. *)
LEMMA DroppedBefore ==
    ASSUME NEW t \in Seq(Int), NEW l \in Int, NEW i \in DOMAIN t
    PROVE  DroppedAt(Append(t, l), i) <=> DroppedAt(t, i)
<1> DEFINE u == Append(t, l)
<1>1. /\ Len(t) \in Nat /\ DOMAIN t = 1 .. Len(t)
      /\ \A k \in 1 .. Len(t) : u[k] = t[k]
    BY AppendParts
<1>2. \A k \in 1 .. i : u[k] = t[k]
    BY <1>1
<1>3. u[i] = t[i] /\ \A j \in 1 .. i - 1 : u[j] = t[j] /\ \A k \in 1 .. j - 1 : u[k] = t[k]
    BY <1>1, <1>2
<1> HIDE DEF u
<1>4. DroppedAt(u, i) <=> DroppedAt(t, i)
    BY <1>3 DEF DroppedAt
<1> QED BY <1>4 DEF u

(* The literals of a trail meant for a table: those kept are the ones that *)
(* were kept, and the new one if it belongs there.                         *)
LEMMA MeantAppend ==
    ASSUME NEW s, NEW t, Once(t), NEW l \in Int,
           \A i \in DOMAIN t : Abs(t[i]) # Abs(l)
    PROVE  MeantFor(s, Append(t, l)) =
              IF Belongs(s, l) /\ ~DroppedAt(Append(t, l), Len(t) + 1)
              THEN Append(MeantFor(s, t), l) ELSE MeantFor(s, t)
<1> DEFINE u == Append(t, l)
           n == Len(t)
           Kept(r) == {r[i] : i \in {j \in DOMAIN r : Belongs(s, r[j]) /\ ~DroppedAt(r, j)}}
           S == Kept(t)
           R == Kept(u)
<1>1. t \in Seq(Int)
    BY DEF Once
<1>2. /\ u \in Seq(Int) /\ Len(u) = n + 1 /\ n \in Nat
      /\ DOMAIN t = 1 .. n /\ DOMAIN u = 1 .. (n + 1)
      /\ u[n + 1] = l /\ \A i \in 1 .. n : u[i] = t[i]
    BY <1>1, AppendParts
<1>3. \A i \in 1 .. n : DroppedAt(u, i) <=> DroppedAt(t, i)
    BY <1>1, <1>2, DroppedBefore
<1>4. \A i \in 1 .. n : t[i] # l
    BY <1>2
<1> HIDE DEF u, n
<1>5. \A k \in 1 .. n : t[k] \in S <=> t[k] \in R
  <2> SUFFICES ASSUME NEW k \in 1 .. n PROVE t[k] \in S <=> t[k] \in R
    OBVIOUS
  <2>1. k \in 1 .. (n + 1)
    BY <1>2
  <2>2. ASSUME NEW i \in DOMAIN t, t[k] = t[i] PROVE i = k
    BY <1>2, <2>2 DEF Once
  <2>3. t[k] \in S <=> Belongs(s, t[k]) /\ ~DroppedAt(t, k)
    BY <1>2, <2>2
  <2>4. t[k] \in R <=> Belongs(s, t[k]) /\ ~DroppedAt(u, k)
    <3>1. ASSUME NEW i \in DOMAIN u, t[k] = u[i] PROVE i = k
        <4>1. i # n + 1
            BY <1>2, <1>4, <3>1
        <4>2. i \in 1 .. n
            BY <1>2, <4>1
        <4> QED BY <1>2, <2>2, <3>1, <4>2
    <3>2. u[k] = t[k] /\ k \in DOMAIN u
        BY <1>2, <2>1
    <3> QED BY <3>1, <3>2
  <2> QED BY <1>3, <2>3, <2>4
<1>6. l \in R <=> Belongs(s, l) /\ ~DroppedAt(u, n + 1)
  <2>1. ASSUME NEW i \in DOMAIN u, u[i] = l PROVE i = n + 1
    <3>1. i \in 1 .. n \/ i = n + 1
        BY <1>2
    <3> QED BY <1>2, <1>4, <2>1, <3>1
  <2>2. n + 1 \in DOMAIN u
    BY <1>2
  <2> QED BY <1>2, <2>1, <2>2
<1> HIDE DEF S, R
<1>7. Selected(t, S) = Selected(t, R)
    BY <1>1, <1>5, SelectedCong DEF n
<1>8. Selected(u, R) = IF l \in R THEN Append(Selected(t, R), l) ELSE Selected(t, R)
    BY <1>1, SelectedAppend DEF u
<1>9. MeantFor(s, t) = Selected(t, S) /\ MeantFor(s, u) = Selected(u, R)
    BY DEF MeantFor, S, R
<1> QED BY <1>6, <1>7, <1>8, <1>9 DEF u, n

(* Of an empty trail nothing is meant. *)
LEMMA MeantEmpty == ASSUME NEW s PROVE MeantFor(s, <<>>) = <<>>
BY SelectedEmpty DEF MeantFor

-------------------------------------------------------------------------------
(* The filter. *)

\* The class of the i-th literal of a trail.
Class(t, i) == RepOf(Abs(t[i]))

(* The first literal of its class. *)
First(t, j) == \A k \in 1 .. (j - 1) : Class(t, k) # Class(t, j)

(* What the filter keeps is right for a trail: each class seen has the       *)
(* polarity and the atom of its first literal, and a pending contradiction   *)
(* names two literals of one class and opposite polarities.                  *)
Polarities(pol, tr, t) ==
    /\ tr \in Seq(Range(tr)) /\ DOMAIN pol = Range(tr)
    /\ \A i \in DOMAIN t : Class(t, i) \in DOMAIN pol
    /\ \A r \in DOMAIN pol : \E j \in DOMAIN t :
          First(t, j) /\ Class(t, j) = r /\ pol[r] = <<t[j] > 0, Abs(t[j])>>

\* A contradiction of the trail t, or none.
PendingIs(pend, t) ==
    \/ pend = None
    \/ \E i, j \in DOMAIN t :
          /\ Class(t, i) = Class(t, j) /\ (t[i] > 0) # (t[j] > 0)
          /\ pend = <<Abs(t[i]), Abs(t[j])>>

(* What is appended changes no class of a trail, and so no first literal. *)
LEMMA ClassKept ==
    ASSUME NEW t \in Seq(Int), NEW l \in Int
    PROVE  /\ Class(Append(t, l), Len(t) + 1) = RepOf(Abs(l))
           /\ \A i \in DOMAIN t : Class(Append(t, l), i) = Class(t, i)
           /\ \A i \in DOMAIN t : First(Append(t, l), i) <=> First(t, i)
<1> DEFINE u == Append(t, l)
<1>1. /\ Len(t) \in Nat /\ DOMAIN t = 1 .. Len(t) /\ u[Len(t) + 1] = l
      /\ \A k \in 1 .. Len(t) : u[k] = t[k]
    BY AppendParts
<1> HIDE DEF u
<1>2. Class(u, Len(t) + 1) = RepOf(Abs(l)) /\ \A i \in DOMAIN t : Class(u, i) = Class(t, i)
    BY <1>1 DEF Class
<1>3. ASSUME NEW i \in DOMAIN t PROVE First(u, i) <=> First(t, i)
  <2>1. \A k \in 1 .. i - 1 : k \in DOMAIN t
    BY <1>1
  <2> QED BY <1>2, <2>1 DEF First
<1> QED BY <1>2, <1>3 DEF u

(* A class has one first literal. *)
LEMMA FirstUnique ==
    ASSUME NEW t \in Seq(Int), NEW i \in DOMAIN t, NEW j \in DOMAIN t,
           First(t, i), First(t, j), Class(t, i) = Class(t, j)
    PROVE  i = j
<1>1. i \in Nat \ {0} /\ j \in Nat \ {0}
    OBVIOUS
<1>2. CASE i < j
  <2>1. i \in 1 .. j - 1
    BY <1>1, <1>2
  <2> QED BY <2>1 DEF First
<1>3. CASE j < i
  <2>1. j \in 1 .. i - 1
    BY <1>1, <1>3
  <2> QED BY <2>1 DEF First
<1> QED BY <1>1, <1>2, <1>3

(* Exactly what NotifyFilter calls redundant is dropped. *)
LEMMA DroppedIsRedundant ==
    ASSUME NEW t \in Seq(Int), NEW l \in Int, NEW pol, NEW tr, Polarities(pol, tr, t),
           setup.ee
    PROVE  DroppedAt(Append(t, l), Len(t) + 1) <=>
              RepOf(Abs(l)) \in DOMAIN pol /\ pol[RepOf(Abs(l))][1] = (l > 0)
<1> DEFINE u == Append(t, l)
           n == Len(t)
           rep == RepOf(Abs(l))
<1>1. /\ n \in Nat /\ DOMAIN t = 1 .. n /\ u[n + 1] = l
      /\ \A k \in 1 .. n : u[k] = t[k]
    BY AppendParts
<1>2. /\ Class(u, n + 1) = rep /\ \A i \in DOMAIN t : Class(u, i) = Class(t, i)
      /\ \A i \in DOMAIN t : First(u, i) <=> First(t, i)
    BY ClassKept
<1> HIDE DEF u
<1>3. DroppedAt(u, n + 1) <=>
          \E j \in 1 .. n : Class(u, j) = Class(u, n + 1) /\ (u[j] > 0) = (u[n + 1] > 0) /\ First(u, j)
  <2>1. (n + 1) - 1 = n
    BY <1>1
  <2> QED BY <2>1 DEF DroppedAt, Class, First
<1>4. DroppedAt(u, n + 1) <=>
          \E j \in 1 .. n : Class(t, j) = rep /\ (t[j] > 0) = (l > 0) /\ First(t, j)
    BY <1>1, <1>2, <1>3
<1> HIDE DEF n, rep
<1>5. ASSUME DroppedAt(u, n + 1)
      PROVE  rep \in DOMAIN pol /\ pol[rep][1] = (l > 0)
  <2>1. PICK j \in 1 .. n : Class(t, j) = rep /\ (t[j] > 0) = (l > 0) /\ First(t, j)
    BY <1>4, <1>5
  <2>2. rep \in DOMAIN pol
    BY <1>1, <2>1 DEF Polarities
  <2>3. PICK i \in DOMAIN t : First(t, i) /\ Class(t, i) = rep /\ pol[rep] = <<t[i] > 0, Abs(t[i])>>
    BY <2>2 DEF Polarities
  <2>4. i = j
    BY <1>1, <2>1, <2>3, FirstUnique
  <2>5. pol[rep][1] = (t[i] > 0)
    BY <2>3
  <2> QED BY <2>1, <2>2, <2>4, <2>5
<1>6. ASSUME rep \in DOMAIN pol, pol[rep][1] = (l > 0) PROVE DroppedAt(u, n + 1)
  <2>1. PICK i \in DOMAIN t : First(t, i) /\ Class(t, i) = rep /\ pol[rep] = <<t[i] > 0, Abs(t[i])>>
    BY <1>6 DEF Polarities
  <2>2. pol[rep][1] = (t[i] > 0)
    BY <2>1
  <2> QED BY <1>1, <1>4, <1>6, <2>1, <2>2
<1> QED BY <1>5, <1>6 DEF u, n, rep

(* The filter learns the polarity of a class from its first literal. *)
LEMMA PolaritiesStep ==
    ASSUME NEW t \in Seq(Int), NEW l \in Int, NEW pol, NEW tr, Polarities(pol, tr, t)
    PROVE  LET rep == RepOf(Abs(l))
           IN  Polarities(Extended(pol, rep, <<l > 0, Abs(l)>>),
                          IF rep \in DOMAIN pol THEN tr ELSE Append(tr, rep), Append(t, l))
<1> DEFINE rep == RepOf(Abs(l))
           u == Append(t, l)
           n == Len(t)
           new == <<l > 0, Abs(l)>>
           pol2 == Extended(pol, rep, new)
           tr2 == IF rep \in DOMAIN pol THEN tr ELSE Append(tr, rep)
<1>1. /\ n \in Nat /\ DOMAIN t = 1 .. n /\ DOMAIN u = 1 .. (n + 1) /\ u[n + 1] = l
      /\ \A k \in 1 .. n : u[k] = t[k]
    BY AppendParts
<1>2. /\ Class(u, n + 1) = rep /\ \A i \in DOMAIN t : Class(u, i) = Class(t, i)
      /\ \A i \in DOMAIN t : First(u, i) <=> First(t, i)
    BY ClassKept
<1> HIDE DEF u, n, rep, new
<1>3. /\ tr \in Seq(Range(tr)) /\ DOMAIN pol = Range(tr)
      /\ \A i \in DOMAIN t : Class(t, i) \in DOMAIN pol
    BY DEF Polarities
<1>4. tr2 \in Seq(Range(tr2)) /\ Range(tr2) = Range(tr) \cup {rep}
  <2>1. CASE rep \in DOMAIN pol
    BY <1>3, <2>1
  <2>2. CASE rep \notin DOMAIN pol
    <3>1. /\ Range(Append(tr, rep)) = Range(tr) \cup {rep}
          /\ Append(tr, rep) \in Seq(Range(Append(tr, rep)))
        BY <1>3, Grown DEF IsSeq
    <3> QED BY <2>2, <3>1
  <2> QED BY <2>1, <2>2
<1>5. DOMAIN pol2 = DOMAIN pol \cup {rep}
    BY DEF Extended
<1>6. ASSUME NEW i \in DOMAIN u PROVE Class(u, i) \in DOMAIN pol2
  <2>1. i \in 1 .. n \/ i = n + 1
    BY <1>1
  <2> QED BY <1>1, <1>2, <1>3, <1>5, <2>1
<1>7. ASSUME NEW r \in DOMAIN pol2
      PROVE  \E j \in DOMAIN u :
                First(u, j) /\ Class(u, j) = r /\ pol2[r] = <<u[j] > 0, Abs(u[j])>>
  <2>1. CASE r \in DOMAIN pol
    <3>1. PICK j \in DOMAIN t : First(t, j) /\ Class(t, j) = r /\ pol[r] = <<t[j] > 0, Abs(t[j])>>
        BY <2>1 DEF Polarities
    <3>2. pol2[r] = pol[r]
        BY <2>1 DEF Extended
    <3>3. j \in DOMAIN u /\ u[j] = t[j]
        BY <1>1
    <3> QED BY <1>2, <3>1, <3>2, <3>3
  <2>2. CASE r \notin DOMAIN pol
    <3>1. r = rep /\ pol2[r] = new
        BY <1>5, <2>2 DEF Extended
    <3>2. n + 1 \in DOMAIN u
        BY <1>1
    <3>3. First(u, n + 1)
      <4>1. ASSUME NEW k \in 1 .. (n + 1) - 1 PROVE Class(u, k) # Class(u, n + 1)
        <5>1. k \in DOMAIN t
            BY <1>1
        <5> QED BY <1>2, <1>3, <2>2, <3>1, <5>1
      <4> QED BY <4>1 DEF First
    <3> QED BY <1>1, <1>2, <3>1, <3>2, <3>3 DEF new
  <2> QED BY <2>1, <2>2
<1> HIDE DEF pol2, tr2
<1>8. Polarities(pol2, tr2, u)
    BY <1>3, <1>4, <1>5, <1>6, <1>7 DEF Polarities
<1> QED BY <1>8 DEF pol2, tr2, u, rep, new

(* A contradiction stays one. *)
LEMMA PendingKept ==
    ASSUME NEW t \in Seq(Int), NEW l \in Int, NEW pend, PendingIs(pend, t)
    PROVE  PendingIs(pend, Append(t, l))
<1> DEFINE u == Append(t, l)
<1>1. DOMAIN t \subseteq DOMAIN u /\ \A k \in DOMAIN t : u[k] = t[k]
    BY AppendParts
<1>2. \A i \in DOMAIN t : Class(u, i) = Class(t, i)
    BY ClassKept
<1> HIDE DEF u
<1>3. CASE pend = None
    BY <1>3 DEF PendingIs
<1>4. CASE pend # None
  <2>1. PICK i \in DOMAIN t : \E j \in DOMAIN t :
          /\ Class(t, i) = Class(t, j) /\ (t[i] > 0) # (t[j] > 0)
          /\ pend = <<Abs(t[i]), Abs(t[j])>>
    BY <1>4 DEF PendingIs
  <2>2. PICK j \in DOMAIN t :
          /\ Class(t, i) = Class(t, j) /\ (t[i] > 0) # (t[j] > 0)
          /\ pend = <<Abs(t[i]), Abs(t[j])>>
    BY <2>1
  <2>3. u[i] = t[i] /\ u[j] = t[j] /\ i \in DOMAIN u /\ j \in DOMAIN u
    BY <1>1
  <2>4. Class(u, i) = Class(u, j) /\ (u[i] > 0) # (u[j] > 0) /\ pend = <<Abs(u[i]), Abs(u[j])>>
    BY <1>2, <2>2, <2>3
  <2>5. PendingIs(pend, u)
    BY <2>3, <2>4, Zenon DEF PendingIs
  <2> QED BY <2>5 DEF u
<1> QED BY <1>3, <1>4 DEF u

(* A literal against the polarity of its class is one. *)
LEMMA ClashIsPending ==
    ASSUME NEW t \in Seq(Int), NEW l \in Int, NEW pol, NEW tr, Polarities(pol, tr, t),
           RepOf(Abs(l)) \in DOMAIN pol, pol[RepOf(Abs(l))][1] # (l > 0)
    PROVE  PendingIs(<<Abs(l), pol[RepOf(Abs(l))][2]>>, Append(t, l))
<1> DEFINE rep == RepOf(Abs(l))
           u == Append(t, l)
           n == Len(t)
<1>1. /\ n \in Nat /\ DOMAIN t = 1 .. n /\ DOMAIN u = 1 .. (n + 1) /\ u[n + 1] = l
      /\ \A k \in 1 .. n : u[k] = t[k]
    BY AppendParts
<1>2. Class(u, n + 1) = rep /\ \A i \in DOMAIN t : Class(u, i) = Class(t, i)
    BY ClassKept
<1> HIDE DEF u, n, rep
<1>3. PICK j \in DOMAIN t : First(t, j) /\ Class(t, j) = rep /\ pol[rep] = <<t[j] > 0, Abs(t[j])>>
    BY DEF Polarities, rep
<1>4. pol[rep][1] = (t[j] > 0) /\ pol[rep][2] = Abs(t[j])
    BY <1>3
<1>5. (u[n + 1] > 0) # (u[j] > 0)
    BY <1>1, <1>4 DEF rep
<1>6. <<Abs(l), pol[rep][2]>> = <<Abs(u[n + 1]), Abs(u[j])>>
    BY <1>1, <1>4
<1>7. n + 1 \in DOMAIN u /\ j \in DOMAIN u
    BY <1>1
<1> QED BY <1>2, <1>3, <1>5, <1>6, <1>7 DEF PendingIs, u, rep

-------------------------------------------------------------------------------
(* Checkpoints are lengths: what is rolled back to is a prefix. *)

\* The first n elements.
Prefix(s, n) == SubSeq(s, 1, n)

(* A prefix is what it says. *)
LEMMA PrefixSeq ==
    ASSUME NEW s, IsSeq(s), NEW n \in 0 .. Len(s)
    PROVE  /\ IsSeq(Prefix(s, n)) /\ Len(Prefix(s, n)) = n /\ DOMAIN Prefix(s, n) = 1 .. n
           /\ Prefix(s, n) = [i \in 1 .. n |-> s[i]]
           /\ \A i \in 1 .. n : Prefix(s, n)[i] = s[i]
<1> DEFINE T == Range(s)
           u == Prefix(s, n)
<1>1. s \in Seq(T) /\ Len(s) \in Nat /\ n \in Nat /\ n <= Len(s)
    BY DEF IsSeq
<1>2. u = [i \in 1 .. n |-> s[i]]
  <2>1. (n - 1) + 1 = n /\ \A i \in 1 .. n : (i + 1) - 1 = i
    BY <1>1
  <2>2. SubSeq(s, 1, n) = [i \in 1 .. n |-> s[i]]
    BY <1>1
  <2> QED BY <2>2 DEF Prefix
<1> HIDE DEF u, T
<1>3. \A i \in 1 .. n : s[i] \in T
    BY <1>1
<1>4. u \in Seq(T) /\ Len(u) = n /\ DOMAIN u = 1 .. n /\ \A i \in 1 .. n : u[i] = s[i]
    BY <1>1, <1>2, <1>3
<1>5. IsSeq(u)
  <2>1. \A i \in 1 .. n : u[i] \in Range(u)
    BY <1>4 DEF Range
  <2> QED BY <1>1, <1>4, <2>1 DEF IsSeq
<1> QED BY <1>2, <1>4, <1>5 DEF u

(* Sequences that agree have the same prefixes. *)
LEMMA PrefixSame ==
    ASSUME NEW s, IsSeq(s), NEW u, IsSeq(u), NEW n \in 0 .. Len(s), n <= Len(u),
           \A i \in 1 .. n : u[i] = s[i]
    PROVE  Prefix(u, n) = Prefix(s, n)
<1>1. n \in 0 .. Len(u)
    BY DEF IsSeq
<1>2. /\ Prefix(s, n) = [i \in 1 .. n |-> s[i]]
      /\ Prefix(u, n) = [i \in 1 .. n |-> u[i]]
    BY <1>1, PrefixSeq
<1> QED BY <1>2

(* All of a sequence is a prefix of it. *)
LEMMA PrefixWhole ==
    ASSUME NEW s, IsSeq(s)
    PROVE  Prefix(s, Len(s)) = s
<1> DEFINE u == Prefix(s, Len(s))
<1>1. Len(s) \in 0 .. Len(s) /\ s \in Seq(Range(s))
    BY DEF IsSeq
<1>2. IsSeq(u) /\ Len(u) = Len(s) /\ \A i \in 1 .. Len(s) : u[i] = s[i]
    BY <1>1, PrefixSeq
<1> HIDE DEF u
<1>3. u = s
    BY <1>1, <1>2 DEF IsSeq
<1> QED BY <1>3 DEF u

(* A prefix of a prefix is one of the sequence. *)
LEMMA PrefixPrefix ==
    ASSUME NEW s, IsSeq(s), NEW m \in 0 .. Len(s), NEW n \in 0 .. m
    PROVE  Prefix(Prefix(s, m), n) = Prefix(s, n)
<1>1. n \in 0 .. Len(s) /\ Len(s) \in Nat
    BY DEF IsSeq
<1>2. IsSeq(Prefix(s, m)) /\ Len(Prefix(s, m)) = m /\ \A i \in 1 .. m : Prefix(s, m)[i] = s[i]
    BY PrefixSeq
<1>3. n <= Len(Prefix(s, m)) /\ \A i \in 1 .. n : i \in 1 .. m
    BY <1>1, <1>2
<1> QED BY <1>1, <1>2, <1>3, PrefixSame

(* What is appended changes no prefix. *)
LEMMA PrefixAppend ==
    ASSUME NEW s, IsSeq(s), NEW x, NEW n \in 0 .. Len(s)
    PROVE  Prefix(Append(s, x), n) = Prefix(s, n)
<1>1. /\ IsSeq(Append(s, x)) /\ Len(Append(s, x)) = Len(s) + 1 /\ Len(s) \in Nat
      /\ \A i \in 1 .. Len(s) : Append(s, x)[i] = s[i]
    BY Grown
<1>2. n <= Len(Append(s, x)) /\ \A i \in 1 .. n : i \in 1 .. Len(s)
    BY <1>1
<1> QED BY <1>1, <1>2, PrefixSame

(* What Front and Last take and leave. *)
LEMMA FrontLast ==
    ASSUME NEW s, IsSeq(s), s # <<>>
    PROVE  /\ Len(s) \in Nat \ {0} /\ Len(s) - 1 \in 0 .. Len(s)
           /\ Front(s) = Prefix(s, Len(s) - 1) /\ Last(s) = s[Len(s)]
BY DEF Front, Last, Prefix, IsSeq

-------------------------------------------------------------------------------
(* The ring of the incremental theory. *)

\* The names that may have a slot: the variables of the query, and a witness
\* for each negative fact.
SlotNames(d) == {<<"x", n>> : n \in 1 .. setup.names} \cup {Witness(e) : e \in 0 .. d - 1}

\* The ring numbers its names 1, 2, ... and gives no number twice.
Slotted(ic) ==
    /\ ic = [slotOf |-> ic.slotOf, nextSlot |-> ic.nextSlot, diseqs |-> ic.diseqs]
    /\ ic.nextSlot \in Nat \ {0} /\ ic.diseqs \in Nat
    /\ ic.slotOf \in [DOMAIN ic.slotOf -> 1 .. ic.nextSlot - 1]
    /\ DOMAIN ic.slotOf \subseteq SlotNames(ic.diseqs)
    /\ Cardinality(DOMAIN ic.slotOf) = ic.nextSlot - 1
    /\ \A n, m \in DOMAIN ic.slotOf : ic.slotOf[n] = ic.slotOf[m] => n = m

(* There are as many names as variables and witnesses. *)
LEMMA NamesCounted ==
    ASSUME setup.names \in Nat, NEW d \in Nat, NEW D \in SUBSET SlotNames(d)
    PROVE  IsFiniteSet(D) /\ Cardinality(D) <= setup.names + d /\ Cardinality(D) \in Nat
<1> DEFINE top == setup.names + d
           number == [n \in D |-> IF n[1] = "x" THEN n[2] ELSE setup.names + 1 + n[2]]
<1>1. ASSUME NEW n \in D
      PROVE  \/ \E k \in 1 .. setup.names : n = <<"x", k>> /\ number[n] = k
             \/ \E e \in 0 .. d - 1 : n = <<"w", e>> /\ number[n] = setup.names + 1 + e
    BY DEF SlotNames, Witness
<1>2. number \in [D -> 1 .. top]
  <2>1. ASSUME NEW n \in D PROVE number[n] \in 1 .. top
    <3> HIDE DEF number
    <3> QED BY <1>1
  <2> QED BY <2>1
<1>3. ASSUME NEW n \in D, NEW m \in D, number[n] = number[m] PROVE n = m
  <2> HIDE DEF number
  <2> QED BY <1>1, <1>3
<1>4. number \in Injection(D, 1 .. top)
  <2> HIDE DEF number
  <2> QED BY <1>2, <1>3 DEF Injection, IsInjective
<1>5. IsFiniteSet(1 .. top) /\ Cardinality(1 .. top) = top
  <2>1. top \in Nat
    OBVIOUS
  <2> HIDE DEF top
  <2>2. /\ IsFiniteSet(1 .. top)
        /\ Cardinality(1 .. top) = IF 1 > top THEN 0 ELSE top - 1 + 1
    BY <2>1, FS_Interval
  <2> QED BY <2>1, <2>2
<1> HIDE DEF number, top
<1>6. IsFiniteSet(D) /\ Cardinality(D) <= top
    BY <1>4, <1>5, FS_Injection
<1> QED BY <1>6, FS_CardinalityType DEF top

(* A new name takes the next slot. *)
LEMMA SlotTaken ==
    ASSUME setup.names \in Nat, NEW ic, Slotted(ic), NEW n \in SlotNames(ic.diseqs),
           n \notin DOMAIN ic.slotOf
    PROVE  /\ Slotted([slotOf |-> Extended(ic.slotOf, n, ic.nextSlot),
                       nextSlot |-> ic.nextSlot + 1, diseqs |-> ic.diseqs])
           /\ ic.nextSlot <= setup.names + ic.diseqs
<1> DEFINE D == DOMAIN ic.slotOf
           more == Extended(ic.slotOf, n, ic.nextSlot)
           jc == [slotOf |-> more, nextSlot |-> ic.nextSlot + 1, diseqs |-> ic.diseqs]
<1>1. /\ ic.nextSlot \in Nat \ {0} /\ ic.diseqs \in Nat
      /\ D \subseteq SlotNames(ic.diseqs) /\ Cardinality(D) = ic.nextSlot - 1
      /\ \A m \in D : ic.slotOf[m] \in 1 .. ic.nextSlot - 1
      /\ \A m, k \in D : ic.slotOf[m] = ic.slotOf[k] => m = k
    BY DEF Slotted
<1>2. DOMAIN more = D \cup {n} /\ more[n] = ic.nextSlot /\ \A m \in D : more[m] = ic.slotOf[m]
    BY DEF Extended
<1>3. more \in [DOMAIN more -> 1 .. (ic.nextSlot + 1) - 1]
  <2>1. \A m \in D \cup {n} : more[m] \in 1 .. (ic.nextSlot + 1) - 1
    BY <1>1, <1>2
  <2>2. more = [m \in D \cup {n} |-> more[m]]
    BY <1>2 DEF Extended
  <2> HIDE DEF more
  <2> QED BY <1>2, <2>1, <2>2
<1> HIDE DEF D, more
<1>4. D \cup {n} \in SUBSET SlotNames(ic.diseqs)
    BY <1>1
<1>5. IsFiniteSet(D) /\ Cardinality(D \cup {n}) <= setup.names + ic.diseqs
    BY <1>1, <1>4, NamesCounted
<1>6. Cardinality(D \cup {n}) = Cardinality(D) + 1
    BY <1>5, FS_AddElement DEF D
<1>7. \A m, k \in D \cup {n} : more[m] = more[k] => m = k
    BY <1>1, <1>2
<1>8. Slotted(jc)
  <2>1. jc.slotOf = more /\ jc.nextSlot = ic.nextSlot + 1 /\ jc.diseqs = ic.diseqs
    OBVIOUS
  <2>2. jc = [slotOf |-> jc.slotOf, nextSlot |-> jc.nextSlot, diseqs |-> jc.diseqs]
    OBVIOUS
  <2>3. Cardinality(DOMAIN more) = (ic.nextSlot + 1) - 1
    BY <1>1, <1>2, <1>6
  <2> HIDE DEF jc
  <2> QED BY <1>1, <1>2, <1>3, <1>4, <1>7, <2>1, <2>2, <2>3 DEF Slotted
<1>9. ic.nextSlot <= setup.names + ic.diseqs
    BY <1>1, <1>5, <1>6
<1> QED BY <1>8, <1>9 DEF more

(* The generators: those of the facts, and the field polynomials. *)
AtomsOf(g) == Selected(g, {h \in ToSet(g) : h.kind = "atom"})

\* The slots that have a field polynomial.
FieldSlotsOf(g) == {g[i].slot : i \in {k \in DOMAIN g : g[k].kind = "field"}}
\* A field polynomial for each slot in use, if the prime is small.
FieldsRight(ic, g) ==
    FieldSlotsOf(g) = IF Prime(1) <= FieldPolyLimit THEN 1 .. ic.nextSlot - 1 ELSE {}

(* The atoms of one generator more. *)
LEMMA AtomsAppend ==
    ASSUME NEW g, IsSeq(g), NEW x
    PROVE  AtomsOf(Append(g, x)) = IF x.kind = "atom" THEN Append(AtomsOf(g), x) ELSE AtomsOf(g)
<1> DEFINE u == Append(g, x)
           T == Range(u)
           S == {h \in ToSet(g) : h.kind = "atom"}
           R == {h \in ToSet(u) : h.kind = "atom"}
<1>1. /\ IsSeq(u) /\ T = Range(g) \cup {x} /\ Len(g) \in Nat
      /\ DOMAIN g = 1 .. Len(g) /\ DOMAIN u = 1 .. (Len(g) + 1) /\ u[Len(g) + 1] = x
      /\ \A i \in 1 .. Len(g) : u[i] = g[i]
    BY Grown
<1>2. g \in Seq(T) /\ x \in T
  <2>1. Range(g) \subseteq T
    BY <1>1
  <2> HIDE DEF T
  <2> QED BY <1>1, <2>1 DEF IsSeq
<1>3. ASSUME NEW k \in 1 .. Len(g) PROVE g[k] \in S <=> g[k] \in R
  <2>1. g[k] \in ToSet(g)
    BY <1>1 DEF ToSet
  <2>2. k \in DOMAIN u /\ u[k] = g[k]
    BY <1>1
  <2>3. g[k] \in ToSet(u)
    BY <2>2 DEF ToSet
  <2> QED BY <2>1, <2>3
<1>4. x \in R <=> x.kind = "atom"
  <2>1. Len(g) + 1 \in DOMAIN u
    BY <1>1
  <2>2. x \in ToSet(u)
    BY <1>1, <2>1 DEF ToSet
  <2> QED BY <2>2
<1> HIDE DEF S, R, T
<1>5. Selected(g, S) = Selected(g, R)
    BY <1>2, <1>3, SelectedCong
<1>6. Selected(u, R) = IF x \in R THEN Append(Selected(g, R), x) ELSE Selected(g, R)
    BY <1>2, SelectedAppend
<1>7. AtomsOf(g) = Selected(g, S) /\ AtomsOf(u) = Selected(u, R)
    BY DEF AtomsOf, S, R
<1> QED BY <1>4, <1>5, <1>6, <1>7 DEF u

(* The slots with a field polynomial after one generator more. *)
LEMMA FieldsAppend ==
    ASSUME NEW g, IsSeq(g), NEW x
    PROVE  FieldSlotsOf(Append(g, x)) =
              IF x.kind = "field" THEN FieldSlotsOf(g) \cup {x.slot} ELSE FieldSlotsOf(g)
<1> DEFINE u == Append(g, x)
           n == Len(g)
<1>1. /\ n \in Nat /\ DOMAIN g = 1 .. n /\ DOMAIN u = 1 .. (n + 1) /\ u[n + 1] = x
      /\ \A i \in 1 .. n : u[i] = g[i]
    BY Grown
<1> HIDE DEF u, n
<1>2. ASSUME NEW y
      PROVE  y \in FieldSlotsOf(u) <=>
                \/ y \in FieldSlotsOf(g)
                \/ x.kind = "field" /\ y = x.slot
  <2>1. y \in FieldSlotsOf(u) <=> \E i \in 1 .. (n + 1) : u[i].kind = "field" /\ y = u[i].slot
    BY <1>1 DEF FieldSlotsOf
  <2>2. y \in FieldSlotsOf(g) <=> \E i \in 1 .. n : g[i].kind = "field" /\ y = g[i].slot
    BY <1>1 DEF FieldSlotsOf
  <2>3. n + 1 \in 1 .. (n + 1) /\ \A i \in 1 .. n : i \in 1 .. (n + 1)
    BY <1>1
  <2>4. \A i \in 1 .. (n + 1) : i \in 1 .. n \/ i = n + 1
    BY <1>1
  <2> QED BY <1>1, <2>1, <2>2, <2>3, <2>4
<1>3. FieldSlotsOf(u) =
          IF x.kind = "field" THEN FieldSlotsOf(g) \cup {x.slot} ELSE FieldSlotsOf(g)
    BY <1>2
<1> QED BY <1>3 DEF u

(* A ring that has grown, its old slots unmoved. *)
Grows(jc, ic) ==
    /\ DOMAIN ic.slotOf \subseteq DOMAIN jc.slotOf /\ ic.nextSlot <= jc.nextSlot
    /\ \A n \in DOMAIN ic.slotOf : jc.slotOf[n] = ic.slotOf[n]
    /\ \A n \in DOMAIN jc.slotOf \ DOMAIN ic.slotOf : jc.slotOf[n] >= ic.nextSlot

\* The generators of g, and field polynomials.
Generators(g) == Range(g) \cup {[kind |-> "field", slot |-> i] : i \in Nat}

\* What the walk over a key keeps, from the basis ic, g it started with.
Claiming(st, ic, g) ==
    /\ st = [inc |-> st.inc, gens |-> st.gens, full |-> FALSE]
    /\ Slotted(st.inc) /\ Grows(st.inc, ic)
    /\ st.gens \in Seq(Generators(g)) /\ Len(g) <= Len(st.gens)
    /\ \A i \in 1 .. Len(g) : st.gens[i] = g[i]
    /\ AtomsOf(st.gens) = AtomsOf(g) /\ FieldsRight(st.inc, st.gens)

(* A sequence over some set is one over its range. *)
LEMMA SeqOverRange ==
    ASSUME NEW T, NEW s \in Seq(T)
    PROVE  IsSeq(s) /\ Range(s) \subseteq T
<1>1. /\ Len(s) \in Nat /\ DOMAIN s = 1 .. Len(s) /\ \A i \in 1 .. Len(s) : s[i] \in T
      /\ s = [i \in 1 .. Len(s) |-> s[i]]
    OBVIOUS
<1>2. Range(s) \subseteq T
    BY <1>1 DEF Range
<1> DEFINE n == Len(s)
           R == Range(s)
<1>3. \A i \in 1 .. n : s[i] \in R
    BY <1>1 DEF Range
<1>4. n \in Nat /\ s = [i \in 1 .. n |-> s[i]]
    BY <1>1
<1> HIDE DEF n, R
<1>5. s \in Seq(R)
    BY <1>3, <1>4
<1> QED BY <1>2, <1>5 DEF IsSeq, R

(* Claiming a slot for one name more. *)
LEMMA ClaimStep ==
    ASSUME setup.names \in Nat, setup.tables[1].slots \in Nat, SpareSlots \in Nat,
           NEW ic, ic.nextSlot \in Nat, NEW g, NEW st, Claiming(st, ic, g),
           NEW n \in SlotNames(st.inc.diseqs), st.inc.diseqs <= setup.tables[1].slots
    PROVE  /\ Claiming(NewSlot(st, n), ic, g)
           /\ NewSlot(st, n).inc.diseqs = st.inc.diseqs
           /\ DOMAIN NewSlot(st, n).inc.slotOf = DOMAIN st.inc.slotOf \cup {n}
           /\ n \notin DOMAIN st.inc.slotOf => NewSlot(st, n).inc.slotOf[n] = st.inc.nextSlot
           /\ Grows(NewSlot(st, n).inc, st.inc)
<1> DEFINE jc == st.inc
           next == NewSlot(st, n)
<1>0. /\ st = [inc |-> st.inc, gens |-> st.gens, full |-> FALSE]
      /\ Slotted(jc) /\ Grows(jc, ic)
      /\ st.gens \in Seq(Generators(g)) /\ Len(g) <= Len(st.gens)
      /\ \A i \in 1 .. Len(g) : st.gens[i] = g[i]
      /\ AtomsOf(st.gens) = AtomsOf(g) /\ FieldsRight(jc, st.gens)
    BY DEF Claiming
<1>1. CASE n \in DOMAIN jc.slotOf
  <2>1. next = st
    BY <1>1 DEF NewSlot
  <2>2. Grows(jc, jc)
    BY <1>0 DEF Grows, Slotted
  <2> QED BY <1>1, <2>1, <2>2
<1>2. CASE n \notin DOMAIN jc.slotOf
  <2> DEFINE wide == Extended(jc.slotOf, n, jc.nextSlot)
             kc == [slotOf |-> wide, nextSlot |-> jc.nextSlot + 1, diseqs |-> jc.diseqs]
             field == [kind |-> "field", slot |-> jc.nextSlot]
             more == IF Prime(1) <= FieldPolyLimit THEN Append(st.gens, field) ELSE st.gens
  <2>1. Slotted(kc) /\ jc.nextSlot <= setup.names + jc.diseqs
    BY <1>0, <1>2, SlotTaken
  <2>2. jc.nextSlot \in Nat \ {0} /\ jc.diseqs \in Nat
    BY <1>0 DEF Slotted
  <2>3. ~ jc.nextSlot > setup.names + setup.tables[1].slots + SpareSlots
    BY <2>1, <2>2
  <2>4. st.full = FALSE
    BY <1>0
  <2>5. next = [inc |-> kc, gens |-> more, full |-> FALSE]
    BY <1>2, <2>3, <2>4 DEF NewSlot
  <2>6. next.inc = kc /\ next.gens = more /\ next = [inc |-> next.inc, gens |-> next.gens, full |-> FALSE]
    <3> HIDE DEF kc, more
    <3> QED BY <2>5
  <2>7. /\ DOMAIN kc.slotOf = DOMAIN jc.slotOf \cup {n} /\ kc.slotOf[n] = jc.nextSlot
        /\ \A m \in DOMAIN jc.slotOf : kc.slotOf[m] = jc.slotOf[m]
        /\ kc.nextSlot = jc.nextSlot + 1 /\ kc.diseqs = jc.diseqs
    <3>1. /\ DOMAIN wide = DOMAIN jc.slotOf \cup {n} /\ wide[n] = jc.nextSlot
          /\ \A m \in DOMAIN jc.slotOf : wide[m] = jc.slotOf[m]
        BY <1>2 DEF Extended
    <3> HIDE DEF wide
    <3> QED BY <3>1
  <2> HIDE DEF kc
  <2>8. Grows(kc, jc)
    BY <2>2, <2>7 DEF Grows
  <2>9. Grows(kc, ic)
    <3>1. ASSUME NEW m \in DOMAIN kc.slotOf \ DOMAIN ic.slotOf
          PROVE  kc.slotOf[m] >= ic.nextSlot
        <4>1. CASE m = n
            BY <1>0, <2>7, <4>1 DEF Grows
        <4>2. CASE m # n
            BY <1>0, <2>7, <4>2 DEF Grows
        <4> QED BY <4>1, <4>2
    <3> QED BY <1>0, <2>2, <2>7, <3>1 DEF Grows
  <2>10. IsSeq(st.gens)
    <3>1. st.gens \in Seq(Generators(g))
        BY <1>0
    <3> QED BY <3>1, SeqOverRange
  <2>11. field \in Generators(g) /\ field.kind = "field" /\ field.slot = jc.nextSlot
    BY <2>2 DEF Generators
  <2> HIDE DEF field
  <2>12. /\ more \in Seq(Generators(g)) /\ Len(g) <= Len(more)
         /\ \A i \in 1 .. Len(g) : more[i] = g[i]
    <3>1. /\ Append(st.gens, field) \in Seq(Generators(g))
          /\ Len(Append(st.gens, field)) = Len(st.gens) + 1 /\ Len(st.gens) \in Nat
          /\ \A i \in 1 .. Len(st.gens) : Append(st.gens, field)[i] = st.gens[i]
        BY <1>0, <2>11, AppendParts
    <3>2. \A i \in 1 .. Len(g) : i \in 1 .. Len(st.gens)
        BY <1>0, <3>1
    <3>3. CASE Prime(1) <= FieldPolyLimit
        <4>1. more = Append(st.gens, field)
            BY <3>3
        <4> HIDE DEF more
        <4>2. \A i \in 1 .. Len(g) : more[i] = g[i]
            BY <1>0, <3>1, <3>2, <4>1
        <4>3. Len(g) <= Len(more)
            <5>1. CASE Len(g) \in Int
                BY <1>0, <3>1, <4>1, <5>1
            <5> QED BY <1>0, <3>1, <4>1
        <4> QED BY <3>1, <4>1, <4>2, <4>3
    <3>4. CASE ~ Prime(1) <= FieldPolyLimit
        BY <1>0, <3>4
    <3> QED BY <3>3, <3>4
  <2>13. AtomsOf(more) = AtomsOf(g)
    BY <1>0, <2>10, <2>11, AtomsAppend
  <2>14. FieldsRight(kc, more)
    <3>1. CASE Prime(1) <= FieldPolyLimit
        <4>1. FieldSlotsOf(more) = FieldSlotsOf(st.gens) \cup {jc.nextSlot}
            BY <2>10, <2>11, <3>1, FieldsAppend
        <4>2. FieldSlotsOf(st.gens) = 1 .. jc.nextSlot - 1
            BY <1>0, <3>1 DEF FieldsRight
        <4>3. 1 .. kc.nextSlot - 1 = (1 .. jc.nextSlot - 1) \cup {jc.nextSlot}
            BY <2>2, <2>7
        <4> HIDE DEF more
        <4> QED BY <3>1, <4>1, <4>2, <4>3 DEF FieldsRight
    <3>2. CASE ~ Prime(1) <= FieldPolyLimit
        BY <1>0, <3>2 DEF FieldsRight
    <3> QED BY <3>1, <3>2
  <2> HIDE DEF more, next
  <2>15. Claiming(next, ic, g)
    BY <2>1, <2>6, <2>9, <2>12, <2>13, <2>14 DEF Claiming
  <2> QED BY <1>2, <2>6, <2>7, <2>8, <2>15 DEF next
<1> QED BY <1>1, <1>2

\* The states a walk may pass through, as a set.
Walks ==
    {st \in [inc  : [slotOf : UNION {[D -> Nat] : D \in SUBSET SlotNames(inc.diseqs)},
                     nextSlot : Nat, diseqs : Nat],
             gens : Seq(Generators(gens)), full : BOOLEAN] :
        Claiming(st, inc, gens) /\ st.inc.diseqs = inc.diseqs}

(* A walk passes through no other state. *)
LEMMA WalksAre ==
    ASSUME NEW st, Claiming(st, inc, gens), st.inc.diseqs = inc.diseqs
    PROVE  st \in Walks
<1> DEFINE jc == st.inc
           Slots == UNION {[D -> Nat] : D \in SUBSET SlotNames(inc.diseqs)}
<1>1. /\ st = [inc |-> jc, gens |-> st.gens, full |-> FALSE]
      /\ Slotted(jc) /\ st.gens \in Seq(Generators(gens))
    BY DEF Claiming
<1>2. /\ jc = [slotOf |-> jc.slotOf, nextSlot |-> jc.nextSlot, diseqs |-> jc.diseqs]
      /\ jc.nextSlot \in Nat \ {0} /\ jc.diseqs \in Nat
      /\ jc.slotOf \in [DOMAIN jc.slotOf -> 1 .. jc.nextSlot - 1]
      /\ DOMAIN jc.slotOf \subseteq SlotNames(inc.diseqs)
    BY <1>1 DEF Slotted
<1>3. jc.slotOf \in [DOMAIN jc.slotOf -> Nat]
  <2>1. 1 .. jc.nextSlot - 1 \subseteq Nat
    BY <1>2
  <2> QED BY <1>2, <2>1
<1>4. jc.slotOf \in Slots
    BY <1>2, <1>3
<1> HIDE DEF Slots, jc
<1>5. jc \in [slotOf : Slots, nextSlot : Nat, diseqs : Nat]
    BY <1>2, <1>4
<1>6. st \in [inc : [slotOf : Slots, nextSlot : Nat, diseqs : Nat],
              gens : Seq(Generators(gens)), full : BOOLEAN]
  <2> DEFINE I == [slotOf : Slots, nextSlot : Nat, diseqs : Nat]
             G == Seq(Generators(gens))
             gs == st.gens
  <2>1. jc \in I /\ gs \in G /\ st = [inc |-> jc, gens |-> gs, full |-> FALSE]
    BY <1>1, <1>5
  <2> HIDE DEF I, G, gs
  <2>2. st \in [inc : I, gens : G, full : BOOLEAN]
    BY <2>1
  <2> QED BY <2>2 DEF I, G
<1> QED BY <1>6 DEF Walks, Slots

(* The walk over a key claims a slot for each of its variables. *)
LEMMA KeyClaims ==
    ASSUME setup.names \in Nat, setup.tables[1].slots \in Nat, SpareSlots \in Nat,
           Slotted(inc), IsSeq(gens), FieldsRight(inc, gens),
           inc.diseqs <= setup.tables[1].slots, NEW ns \in Seq(1 .. setup.names)
    PROVE  LET start == [inc |-> inc, gens |-> gens, full |-> FALSE]
               keyed == FoldLeft(LAMBDA s, n : NewSlot(s, <<"x", n>>), start, ns)
           IN  /\ Claiming(keyed, inc, gens) /\ keyed.inc.diseqs = inc.diseqs
               /\ \A i \in DOMAIN ns : <<"x", ns[i]>> \in DOMAIN keyed.inc.slotOf
<1> DEFINE start == [inc |-> inc, gens |-> gens, full |-> FALSE]
           keyed == FoldLeft(LAMBDA s, n : NewSlot(s, <<"x", n>>), start, ns)
           n == Len(ns)
           Step(x, st) == NewSlot(st, <<"x", x>>)
           Eqn(it) ==
              it = [s \in SUBSET DOMAIN ns |->
                       IF s = {} THEN start ELSE Step(ns[Max(s)], it[s \ {Max(s)}])]
           F == [q \in (1 .. n) \X Walks |-> Step(ns[q[1]], q[2])]
<1>1. n \in Nat /\ DOMAIN ns = 1 .. n /\ \A i \in 1 .. n : ns[i] \in 1 .. setup.names
    OBVIOUS
<1>2. start \in Walks
  <2>1. start.inc = inc /\ start.gens = gens /\ start = [inc |-> start.inc, gens |-> start.gens, full |-> FALSE]
    OBVIOUS
  <2>2. Grows(inc, inc)
    BY DEF Grows, Slotted
  <2>3. gens \in Seq(Generators(gens))
    <3>1. Range(gens) \subseteq Generators(gens)
        BY DEF Generators
    <3> QED BY <3>1 DEF IsSeq
  <2>4. Len(gens) <= Len(gens)
    BY DEF IsSeq
  <2> HIDE DEF start
  <2>5. Claiming(start, inc, gens)
    BY <2>1, <2>2, <2>3, <2>4 DEF Claiming
  <2> QED BY <2>1, <2>5, WalksAre
<1>3. ASSUME NEW st \in Walks, NEW x \in 1 .. setup.names
      PROVE  /\ Step(x, st) \in Walks
             /\ DOMAIN Step(x, st).inc.slotOf = DOMAIN st.inc.slotOf \cup {<<"x", x>>}
  <2>1. Claiming(st, inc, gens) /\ st.inc.diseqs = inc.diseqs
    BY DEF Walks
  <2>2. <<"x", x>> \in SlotNames(st.inc.diseqs) /\ inc.nextSlot \in Nat
    BY DEF SlotNames, Slotted
  <2>3. /\ Claiming(Step(x, st), inc, gens) /\ Step(x, st).inc.diseqs = inc.diseqs
        /\ DOMAIN Step(x, st).inc.slotOf = DOMAIN st.inc.slotOf \cup {<<"x", x>>}
    <3> DEFINE name == <<"x", x>>
    <3>1. name \in SlotNames(st.inc.diseqs)
        BY <2>2
    <3> HIDE DEF name
    <3>2. st.inc.diseqs <= setup.tables[1].slots
        BY <2>1
    <3>3. /\ Claiming(NewSlot(st, name), inc, gens)
          /\ NewSlot(st, name).inc.diseqs = st.inc.diseqs
          /\ DOMAIN NewSlot(st, name).inc.slotOf = DOMAIN st.inc.slotOf \cup {name}
        BY <2>1, <2>2, <3>1, <3>2, ClaimStep
    <3> QED BY <2>1, <3>3 DEF name
  <2> HIDE DEF Step
  <2> QED BY <2>3, WalksAre
<1> HIDE DEF Step, start
<1>4. F \in Steps(n, Walks)
  <2> SUFFICES ASSUME NEW q \in (1 .. n) \X Walks PROVE Step(ns[q[1]], q[2]) \in Walks
    BY DEF Steps
  <2> QED BY <1>1, <1>3
<1>5. PICK g : FoldsOver(g, n, Walks, start, F)
  <2> HIDE DEF F, n
  <2> QED BY <1>1, <1>2, <1>4, FoldExists
<1>6. ASSUME NEW s \in SUBSET (1 .. n), s # {}
      PROVE  g[s] = Step(ns[Max(s)], g[s \ {Max(s)}])
  <2>1. Max(s) \in 1 .. n /\ s \ {Max(s)} \in SUBSET (1 .. n)
    BY <1>1, <1>6, MaxMember
  <2>2. g[s \ {Max(s)}] \in Walks
    BY <1>5, <2>1 DEF FoldsOver
  <2>3. F[<<Max(s), g[s \ {Max(s)}]>>] = Step(ns[Max(s)], g[s \ {Max(s)}])
    BY <2>1, <2>2
  <2> HIDE DEF F, n
  <2> QED BY <1>5, <1>6, <2>3 DEF FoldsOver
<1>7. Eqn(g)
  <2>1. g = [s \in SUBSET (1 .. n) |-> g[s]] /\ g[{}] = start
    BY <1>5 DEF FoldsOver
  <2> HIDE DEF F, n
  <2> QED BY <1>1, <1>6, <2>1
<1> DEFINE it == CHOOSE f : Eqn(f)
<1>8. Eqn(it)
  <2> HIDE DEF Eqn
  <2> QED BY <1>7
<1>9. keyed = it[DOMAIN ns]
    BY DEF FoldLeft, MapThenFoldSet, Step
<1> DEFINE Q == {k \in 0 .. n : /\ it[1 .. k] \in Walks
                                /\ \A i \in 1 .. k : <<"x", ns[i]>> \in DOMAIN it[1 .. k].inc.slotOf}
<1>10. 0 \in Q
  <2>1. 1 .. 0 = {} /\ {} \in SUBSET DOMAIN ns
    OBVIOUS
  <2>2. it[1 .. 0] = start
    <3> HIDE DEF it
    <3> QED BY <1>8, <2>1
  <2> HIDE DEF it
  <2> QED BY <1>1, <1>2, <2>2
<1>11. ASSUME NEW k \in 0 .. n - 1, k \in Q PROVE k + 1 \in Q
  <2> DEFINE j == k + 1
  <2>0. j \in Nat /\ j > 0 /\ j - 1 = k /\ j \in 1 .. n /\ j \in 0 .. n
    BY <1>1
  <2>00. 1 .. j = (1 .. k) \cup {j}
    BY <1>1
  <2> HIDE DEF j
  <2>1. 1 .. j # {} /\ Max(1 .. j) = j /\ (1 .. j) \ {j} = 1 .. k
    BY <2>0, IntervalMax
  <2>2. 1 .. j \in SUBSET DOMAIN ns
    BY <1>1, <2>0
  <2>3. it[1 .. j] = Step(ns[j], it[1 .. k])
    <3> HIDE DEF it
    <3> QED BY <1>8, <2>1, <2>2
  <2>4. it[1 .. k] \in Walks /\ \A i \in 1 .. k : <<"x", ns[i]>> \in DOMAIN it[1 .. k].inc.slotOf
    BY <1>11
  <2> HIDE DEF it
  <2>5. /\ it[1 .. j] \in Walks
        /\ DOMAIN it[1 .. j].inc.slotOf = DOMAIN it[1 .. k].inc.slotOf \cup {<<"x", ns[j]>>}
    BY <1>1, <1>3, <2>0, <2>3, <2>4
  <2>6. \A i \in 1 .. j : <<"x", ns[i]>> \in DOMAIN it[1 .. j].inc.slotOf
    BY <2>00, <2>4, <2>5
  <2>7. j \in Q
    BY <2>0, <2>5, <2>6
  <2> QED BY <2>7 DEF j
<1>12. n \in Q
  <2> HIDE DEF Q, n
  <2>1. 0 .. n \subseteq Q
    BY <1>1, <1>10, <1>11, IntervalInduction
  <2>2. n \in 0 .. n
    BY <1>1
  <2> QED BY <2>1, <2>2
<1> HIDE DEF it, keyed
<1>13. keyed \in Walks /\ \A i \in 1 .. n : <<"x", ns[i]>> \in DOMAIN keyed.inc.slotOf
    BY <1>1, <1>9, <1>12
<1>14. Claiming(keyed, inc, gens) /\ keyed.inc.diseqs = inc.diseqs
    BY <1>13 DEF Walks
<1> HIDE DEF n
<1> QED BY <1>1, <1>13, <1>14 DEF keyed, start

(* What the set-up of the incremental theory gives its ring. *)
LEMMA RingOf ==
    ASSUME setup \in SetUps, setup.kind = "incremental"
    PROVE  /\ setup.names \in Nat /\ setup.tables[1].slots \in Nat /\ SpareSlots \in Nat
           /\ DOMAIN setup.tables[1].key \subseteq 1 .. setup.tables[1].slots
           /\ \A v \in DOMAIN setup.tables[1].key :
                 /\ Key(1, v) \in Seq(Range(Key(1, v)))
                 /\ \A i \in DOMAIN Key(1, v) : Key(1, v)[i].m \in Seq(Range(Key(1, v)[i].m))
                 /\ Variables(Key(1, v)) \subseteq 1 .. setup.names
<1>1. 1 \in DOMAIN setup.tables
    BY Kinds DEF Tables
<1>2. /\ setup.names \in Nat /\ NamesOf(setup.tables[1]) \subseteq 1 .. setup.names
      /\ IsTable(setup.tables[1]) /\ SpareSlots \in Nat
    BY <1>1, TheoryAssumption
<1>3. \A v \in DOMAIN setup.tables[1].key : Variables(Key(1, v)) \subseteq NamesOf(setup.tables[1])
    BY DEF NamesOf, Key
<1> QED BY <1>2, <1>3 DEF IsTable, Key

(* The walk meets each variable of a key. *)
LEMMA NamesMet ==
    ASSUME setup \in SetUps, setup.kind = "incremental", NEW v \in DOMAIN setup.tables[1].key
    PROVE  /\ NamesInOrder(Key(1, v)) \in Seq(1 .. setup.names)
           /\ Range(NamesInOrder(Key(1, v))) = Variables(Key(1, v))
<1> DEFINE key == Key(1, v)
           ms == [i \in DOMAIN key |-> key[i].m]
           T == 1 .. setup.names
<1>1. /\ key \in Seq(Range(key)) /\ \A i \in DOMAIN key : key[i].m \in Seq(Range(key[i].m))
      /\ Variables(key) \subseteq T
    BY RingOf
<1> HIDE DEF key, T
<1>2. Len(key) \in Nat /\ DOMAIN key = 1 .. Len(key)
    BY <1>1
<1>3. ASSUME NEW i \in DOMAIN key PROVE ms[i] \in Seq(T) /\ Range(ms[i]) = ToSet(key[i].m)
  <2>1. ms[i] = key[i].m /\ key[i].m \in Seq(Range(key[i].m))
    BY <1>1
  <2>2. Range(key[i].m) = ToSet(key[i].m)
    BY DEF Range, ToSet
  <2>3. ToSet(key[i].m) \subseteq T
    BY <1>1 DEF Variables
  <2> QED BY <2>1, <2>2, <2>3
<1>4. ms \in Seq(Seq(T)) /\ DOMAIN ms = DOMAIN key
  <2> DEFINE n == Len(key)
             R == Seq(T)
  <2>1. ms = [i \in 1 .. n |-> ms[i]] /\ \A i \in 1 .. n : ms[i] \in R
    BY <1>2, <1>3
  <2>2. n \in Nat
    BY <1>2
  <2> HIDE DEF n, ms, R
  <2>3. ms \in Seq(R) /\ DOMAIN ms = 1 .. n
    BY <2>1, <2>2
  <2> QED BY <1>2, <2>3 DEF n, R
<1>5. NamesInOrder(key) = FlattenSeq(ms)
    BY DEF NamesInOrder
<1> HIDE DEF ms
<1>6. FlattenSeq(ms) \in Seq(T) /\ Range(FlattenSeq(ms)) = UNION {Range(ms[k]) : k \in DOMAIN ms}
    BY <1>4, FlattenIsSeq, FlattenRange
<1>7. UNION {Range(ms[k]) : k \in DOMAIN ms} = Variables(key)
    BY <1>3, <1>4 DEF Variables
<1> QED BY <1>5, <1>6, <1>7 DEF key, T

(* All that is claimed for a literal. *)
LEMMA ClaimedRight ==
    ASSUME setup \in SetUps, setup.kind = "incremental", NEW l \in Int, HasAtom(1, Abs(l)),
           Slotted(inc), IsSeq(gens), FieldsRight(inc, gens),
           inc.diseqs + 1 <= setup.tables[1].slots
    PROVE  /\ Claiming(Claimed(l), inc, gens)
           /\ \A n \in Variables(Key(1, Abs(l))) : <<"x", n>> \in DOMAIN Claimed(l).inc.slotOf
           /\ l > 0 => Claimed(l).inc.diseqs = inc.diseqs
           /\ ~ l > 0 => /\ Claimed(l).inc.diseqs = inc.diseqs + 1
                         /\ Witness(inc.diseqs) \in DOMAIN Claimed(l).inc.slotOf
                         /\ Claimed(l).inc.slotOf[Witness(inc.diseqs)] >= inc.nextSlot
<1> DEFINE key == Key(1, Abs(l))
           ns == NamesInOrder(key)
           start == [inc |-> inc, gens |-> gens, full |-> FALSE]
           keyed == FoldLeft(LAMBDA s, n : NewSlot(s, <<"x", n>>), start, ns)
           d == inc.diseqs
           w == Witness(d)
           st == [keyed EXCEPT !.inc.diseqs = @ + 1]
<1>1. setup.names \in Nat /\ setup.tables[1].slots \in Nat /\ SpareSlots \in Nat
    BY RingOf
<1>2. d \in Nat /\ inc.nextSlot \in Nat /\ d <= setup.tables[1].slots
    BY <1>1 DEF Slotted
<1>3. ns \in Seq(1 .. setup.names) /\ Range(ns) = Variables(key)
    BY NamesMet DEF HasAtom
<1> HIDE DEF key, ns
<1>4. /\ Claiming(keyed, inc, gens) /\ keyed.inc.diseqs = d
      /\ \A i \in DOMAIN ns : <<"x", ns[i]>> \in DOMAIN keyed.inc.slotOf
    BY <1>1, <1>2, <1>3, KeyClaims
<1>5. Claimed(l) = IF l > 0 \/ keyed.full THEN keyed ELSE NewSlot(st, Witness(keyed.inc.diseqs))
    BY DEF Claimed, key, ns
<1> HIDE DEF keyed
<1>6. keyed.full = FALSE /\ Slotted(keyed.inc)
    BY <1>4 DEF Claiming
<1>7. \A n \in Variables(key) : <<"x", n>> \in DOMAIN keyed.inc.slotOf
    BY <1>3, <1>4 DEF Range
<1>8. CASE l > 0
    BY <1>4, <1>5, <1>7, <1>8 DEF key
<1>9. CASE ~ l > 0
  <2> DEFINE kc == keyed.inc
             jc == [slotOf |-> kc.slotOf, nextSlot |-> kc.nextSlot, diseqs |-> d + 1]
  <2>1. /\ keyed = [inc |-> kc, gens |-> keyed.gens, full |-> FALSE]
        /\ Grows(kc, inc) /\ keyed.gens \in Seq(Generators(gens)) /\ Len(gens) <= Len(keyed.gens)
        /\ \A i \in 1 .. Len(gens) : keyed.gens[i] = gens[i]
        /\ AtomsOf(keyed.gens) = AtomsOf(gens) /\ FieldsRight(kc, keyed.gens)
    BY <1>4 DEF Claiming
  <2>2. /\ kc = [slotOf |-> kc.slotOf, nextSlot |-> kc.nextSlot, diseqs |-> kc.diseqs]
        /\ kc.nextSlot \in Nat \ {0}
        /\ kc.slotOf \in [DOMAIN kc.slotOf -> 1 .. kc.nextSlot - 1]
        /\ DOMAIN kc.slotOf \subseteq SlotNames(d)
        /\ Cardinality(DOMAIN kc.slotOf) = kc.nextSlot - 1
        /\ \A n, m \in DOMAIN kc.slotOf : kc.slotOf[n] = kc.slotOf[m] => n = m
    BY <1>4, <1>6 DEF Slotted
  <2>3. st = [inc |-> jc, gens |-> keyed.gens, full |-> FALSE]
    <3>1. st = [keyed EXCEPT !.inc = [kc EXCEPT !.diseqs = @ + 1]]
        OBVIOUS
    <3>2. [kc EXCEPT !.diseqs = @ + 1] = jc
      <4> HIDE DEF kc
      <4> QED BY <1>4, <2>2 DEF kc
    <3> DEFINE gs == keyed.gens
    <3>3. keyed = [inc |-> kc, gens |-> gs, full |-> FALSE] /\ st = [keyed EXCEPT !.inc = jc]
        BY <2>1, <3>1, <3>2
    <3> HIDE DEF jc, kc, gs, st
    <3>4. st = [inc |-> jc, gens |-> gs, full |-> FALSE]
        BY <3>3
    <3> QED BY <3>4 DEF gs
  <2>4. jc.slotOf = kc.slotOf /\ jc.nextSlot = kc.nextSlot /\ jc.diseqs = d + 1
        /\ jc = [slotOf |-> jc.slotOf, nextSlot |-> jc.nextSlot, diseqs |-> jc.diseqs]
    OBVIOUS
  <2>5. st.inc = jc /\ st.gens = keyed.gens /\ st = [inc |-> st.inc, gens |-> st.gens, full |-> FALSE]
    <3> HIDE DEF jc, st
    <3> QED BY <2>3
  <2> HIDE DEF jc, kc, st
  <2>6. SlotNames(d) \subseteq SlotNames(d + 1) /\ w \in SlotNames(d + 1) /\ w \notin SlotNames(d)
    BY <1>2 DEF SlotNames, Witness
  <2>7. Slotted(jc)
    BY <1>2, <2>2, <2>4, <2>6 DEF Slotted
  <2>8. Grows(jc, inc) /\ FieldsRight(jc, keyed.gens)
    BY <2>1, <2>4 DEF Grows, FieldsRight
  <2>9. Claiming(st, inc, gens)
    BY <2>1, <2>5, <2>7, <2>8 DEF Claiming
  <2>10. w \notin DOMAIN st.inc.slotOf /\ w \in SlotNames(st.inc.diseqs)
    BY <2>2, <2>4, <2>5, <2>6
  <2>11. st.inc.diseqs <= setup.tables[1].slots /\ st.inc.diseqs = d + 1
    BY <2>4, <2>5
  <2> DEFINE c == NewSlot(st, w)
  <2>12. Claimed(l) = c
    BY <1>4, <1>5, <1>6, <1>9
  <2>13. /\ Claiming(c, inc, gens) /\ c.inc.diseqs = st.inc.diseqs
         /\ DOMAIN c.inc.slotOf = DOMAIN st.inc.slotOf \cup {w}
         /\ c.inc.slotOf[w] = st.inc.nextSlot
    BY <1>1, <1>2, <2>9, <2>10, <2>11, ClaimStep
  <2> HIDE DEF c, w, d
  <2>14. st.inc.nextSlot >= inc.nextSlot
    BY <1>2, <2>1, <2>2, <2>4, <2>5 DEF Grows
  <2>15. \A n \in Variables(key) : <<"x", n>> \in DOMAIN c.inc.slotOf
    BY <1>7, <2>4, <2>5, <2>13 DEF kc
  <2> QED BY <1>9, <2>11, <2>12, <2>13, <2>14, <2>15 DEF d, w, key
<1> QED BY <1>8, <1>9

\* A generator of a fact, over the slots of a ring.
EncodedIn(g, ic) ==
    /\ g.lit \in Int \ {0} /\ HasAtom(1, Abs(g.lit))
    /\ \A n \in Variables(Key(1, Abs(g.lit))) : <<"x", n>> \in DOMAIN ic.slotOf
    /\ \E d \in 0 .. ic.diseqs :
          /\ g = Encoded(g.lit, ic.slotOf, Witness(d))
          /\ g.lit < 0 => Witness(d) \in DOMAIN ic.slotOf

\* One for each fact, and no witness twice.
AtomsRight(a, ic, f) ==
    /\ DOMAIN a = DOMAIN f
    /\ \A i \in DOMAIN a : a[i].lit = f[i] /\ EncodedIn(a[i], ic)
    /\ \A i, j \in DOMAIN a : i # j /\ a[i].lit < 0 => a[j].w # a[i].w

\* The ring, the generators and the facts of the incremental theory agree.
Basis(ic, g, f) ==
    /\ IsSeq(g) /\ Slotted(ic) /\ FieldsRight(ic, g)
    /\ ic.diseqs <= Len(f)
    /\ AtomsRight(AtomsOf(g), ic, f)

(* Over a ring that has grown an encoding is the same. *)
LEMMA EncodedKept ==
    ASSUME NEW g, NEW ic, NEW jc, EncodedIn(g, ic), Grows(jc, ic),
           ic.diseqs \in Nat, jc.diseqs \in Nat, ic.diseqs <= jc.diseqs
    PROVE  EncodedIn(g, jc)
<1> DEFINE l == g.lit
           key == Key(1, Abs(l))
           Over(slotOf) == [i \in DOMAIN key |->
                              [key[i] EXCEPT !.m = [j \in DOMAIN @ |-> slotOf[<<"x", @[j]>>]]]]
<1>1. /\ \A n \in Variables(key) : <<"x", n>> \in DOMAIN ic.slotOf
      /\ \A n \in DOMAIN ic.slotOf : n \in DOMAIN jc.slotOf /\ jc.slotOf[n] = ic.slotOf[n]
      /\ l \in Int \ {0} /\ HasAtom(1, Abs(l))
    BY DEF EncodedIn, Grows
<1>2. PICK d \in 0 .. ic.diseqs : /\ g = Encoded(l, ic.slotOf, Witness(d))
                                  /\ l < 0 => Witness(d) \in DOMAIN ic.slotOf
    BY DEF EncodedIn
<1>3. Over(ic.slotOf) = Over(jc.slotOf)
  <2>1. ASSUME NEW i \in DOMAIN key
        PROVE  [j \in DOMAIN key[i].m |-> ic.slotOf[<<"x", key[i].m[j]>>]]
                  = [j \in DOMAIN key[i].m |-> jc.slotOf[<<"x", key[i].m[j]>>]]
    <3>1. ASSUME NEW j \in DOMAIN key[i].m PROVE key[i].m[j] \in Variables(key)
        BY DEF Variables, ToSet
    <3> QED BY <1>1, <3>1
  <2> QED BY <2>1
<1>4. Encoded(l, ic.slotOf, Witness(d)) =
          [kind |-> "atom", lit |-> l, terms |-> Over(ic.slotOf),
           w |-> IF l > 0 THEN 0 ELSE ic.slotOf[Witness(d)]]
    BY DEF Encoded
<1>5. Encoded(l, jc.slotOf, Witness(d)) =
          [kind |-> "atom", lit |-> l, terms |-> Over(jc.slotOf),
           w |-> IF l > 0 THEN 0 ELSE jc.slotOf[Witness(d)]]
    BY DEF Encoded
<1> HIDE DEF Over, key
<1>6. d \in 0 .. jc.diseqs
    OBVIOUS
<1>7. CASE l < 0
  <2>1. ic.slotOf[Witness(d)] = jc.slotOf[Witness(d)] /\ Witness(d) \in DOMAIN jc.slotOf
    BY <1>1, <1>2, <1>7
  <2>2. g = Encoded(l, jc.slotOf, Witness(d))
    BY <1>2, <1>3, <1>4, <1>5, <2>1
  <2> QED BY <1>1, <1>6, <2>1, <2>2 DEF EncodedIn, key
<1>8. CASE ~ l < 0
  <2>1. g = Encoded(l, jc.slotOf, Witness(d))
    BY <1>1, <1>2, <1>3, <1>4, <1>5, <1>8
  <2> QED BY <1>1, <1>6, <1>8, <2>1 DEF EncodedIn, key
<1> QED BY <1>7, <1>8

(* What a generator has for a witness: a slot in use, none if it is positive. *)
LEMMA WitnessSlot ==
    ASSUME NEW g, NEW ic, Slotted(ic), EncodedIn(g, ic)
    PROVE  /\ g.kind = "atom" /\ g.w \in Nat /\ g.w < ic.nextSlot
           /\ g.lit > 0 => g.w = 0
           /\ g.lit < 0 => g.w > 0
<1>1. PICK d \in 0 .. ic.diseqs : /\ g = Encoded(g.lit, ic.slotOf, Witness(d))
                                  /\ g.lit < 0 => Witness(d) \in DOMAIN ic.slotOf
    BY DEF EncodedIn
<1>2. /\ ic.nextSlot \in Nat \ {0}
      /\ \A n \in DOMAIN ic.slotOf : ic.slotOf[n] \in 1 .. ic.nextSlot - 1
      /\ g.lit \in Int \ {0}
    BY DEF EncodedIn, Slotted
<1>3. g.kind = "atom" /\ g.w = IF g.lit > 0 THEN 0 ELSE ic.slotOf[Witness(d)]
    BY <1>1 DEF Encoded
<1> QED BY <1>1, <1>2, <1>3

(* The basis after one fact more. *)
LEMMA BasisStep ==
    ASSUME setup \in SetUps, setup.kind = "incremental", NEW l \in Int \ {0}, HasAtom(1, Abs(l)),
           NEW f \in Seq(Int), Basis(inc, gens, f), inc.diseqs + 1 <= setup.tables[1].slots
    PROVE  Basis(Claimed(l).inc,
                 Append(Claimed(l).gens, Encoded(l, Claimed(l).inc.slotOf, Witness(inc.diseqs))),
                 Append(f, l))
<1> DEFINE c == Claimed(l)
           d == inc.diseqs
           x == Encoded(l, c.inc.slotOf, Witness(d))
           a == AtomsOf(gens)
           n == Len(f)
           jc == c.inc
           b == Append(a, x)
<1>1. /\ IsSeq(gens) /\ Slotted(inc) /\ FieldsRight(inc, gens)
      /\ d <= n /\ AtomsRight(a, inc, f)
    BY DEF Basis
<1>2. /\ Claiming(c, inc, gens)
      /\ \A y \in Variables(Key(1, Abs(l))) : <<"x", y>> \in DOMAIN jc.slotOf
      /\ l > 0 => jc.diseqs = d
      /\ ~ l > 0 => /\ jc.diseqs = d + 1 /\ Witness(d) \in DOMAIN jc.slotOf
                    /\ jc.slotOf[Witness(d)] >= inc.nextSlot
    BY <1>1, ClaimedRight
<1>3. /\ Slotted(jc) /\ Grows(jc, inc) /\ c.gens \in Seq(Generators(gens))
      /\ AtomsOf(c.gens) = a /\ FieldsRight(jc, c.gens)
    BY <1>2 DEF Claiming
<1>4. d \in Nat /\ jc.diseqs \in Nat /\ d <= jc.diseqs /\ jc.diseqs <= n + 1 /\ n \in Nat
    BY <1>1, <1>2, <1>3 DEF Slotted
<1>5. IsSeq(c.gens)
    BY <1>3, SeqOverRange
<1>6. x.kind = "atom" /\ x.lit = l /\ x.w = IF l > 0 THEN 0 ELSE jc.slotOf[Witness(d)]
    BY DEF Encoded
<1>7. EncodedIn(x, jc)
  <2>1. d \in 0 .. jc.diseqs /\ l < 0 => Witness(d) \in DOMAIN jc.slotOf
    BY <1>2, <1>4
  <2> HIDE DEF jc
  <2>2. x = Encoded(x.lit, jc.slotOf, Witness(d)) /\ d \in 0 .. jc.diseqs
    BY <1>4, <1>6 DEF jc
  <2>3. x.lit \in Int \ {0} /\ HasAtom(1, Abs(x.lit)) /\ (x.lit < 0 => Witness(d) \in DOMAIN jc.slotOf)
        /\ \A y \in Variables(Key(1, Abs(x.lit))) : <<"x", y>> \in DOMAIN jc.slotOf
    BY <1>2, <1>4, <1>6, <2>1 DEF jc
  <2> HIDE DEF x, d
  <2> QED BY <2>2, <2>3 DEF EncodedIn, jc
<1>8. /\ DOMAIN a = 1 .. n
      /\ \A i \in 1 .. n : a[i].lit = f[i] /\ EncodedIn(a[i], inc)
      /\ \A i, j \in 1 .. n : i # j /\ a[i].lit < 0 => a[j].w # a[i].w
    BY <1>1 DEF AtomsRight
<1>9. IsSeq(a) /\ Len(a) = n
  <2> DEFINE S == {h \in ToSet(gens) : h.kind = "atom"}
  <2>1. a \in Seq(Range(gens) \cap S)
    BY <1>1, SelectedSeq DEF AtomsOf, IsSeq
  <2>2. IsSeq(a)
    BY <2>1, SeqOverRange
  <2> HIDE DEF a
  <2> QED BY <1>4, <1>8, <2>2, Grown
<1> HIDE DEF a, x, c, jc, d
<1>10. /\ DOMAIN b = 1 .. (n + 1) /\ b[n + 1] = x /\ \A i \in 1 .. n : b[i] = a[i]
    BY <1>9, Grown
<1>11. /\ DOMAIN Append(f, l) = 1 .. (n + 1) /\ Append(f, l)[n + 1] = l /\ Len(Append(f, l)) = n + 1
       /\ \A i \in 1 .. n : Append(f, l)[i] = f[i]
    BY AppendParts
<1> HIDE DEF n, b
<1>12. ASSUME NEW i \in 1 .. n
       PROVE  EncodedIn(a[i], jc) /\ a[i].w \in Nat /\ a[i].w < inc.nextSlot /\ (a[i].lit < 0 => a[i].w > 0)
  <2>1. EncodedIn(a[i], inc)
    BY <1>8
  <2>2. EncodedIn(a[i], jc)
    BY <1>3, <1>4, <2>1, EncodedKept DEF d
  <2> QED BY <1>1, <2>1, <2>2, WitnessSlot
<1>13. AtomsRight(b, jc, Append(f, l))
  <2>1. \A i \in 1 .. (n + 1) : i = n + 1 \/ i \in 1 .. n
    BY <1>4
  <2>2. ASSUME NEW i \in 1 .. (n + 1)
        PROVE  b[i].lit = Append(f, l)[i] /\ EncodedIn(b[i], jc)
    <3>1. CASE i = n + 1
        BY <1>6, <1>7, <1>10, <1>11, <3>1
    <3>2. CASE i \in 1 .. n
        BY <1>8, <1>10, <1>11, <1>12, <3>2
    <3> QED BY <2>1, <3>1, <3>2
  <2>3. ASSUME NEW i \in 1 .. (n + 1), NEW j \in 1 .. (n + 1), i # j, b[i].lit < 0
        PROVE  b[j].w # b[i].w
    <3>0. ~ l > 0 => x.w >= inc.nextSlot
        BY <1>2, <1>6 DEF jc, d
    <3>1. inc.nextSlot \in Nat \ {0}
        BY <1>1 DEF Slotted
    <3>2. CASE i \in 1 .. n /\ j \in 1 .. n
        BY <1>8, <1>10, <2>3, <3>2
    <3>3. CASE i = n + 1 /\ j \in 1 .. n
        <4>1. ~ l > 0 /\ a[j].w < inc.nextSlot /\ a[j].w \in Nat
            BY <1>6, <1>10, <1>12, <2>3, <3>3
        <4>2. x.w \in Nat
            BY <1>3, <1>7, WitnessSlot
        <4> QED BY <1>10, <3>0, <3>1, <3>3, <4>1, <4>2
    <3>4. CASE i \in 1 .. n /\ j = n + 1
        <4>1. a[i].lit < 0 /\ a[i].w \in Nat /\ a[i].w < inc.nextSlot /\ a[i].w > 0
            BY <1>10, <1>12, <2>3, <3>4
        <4>2. x.w \in Nat
            BY <1>3, <1>7, WitnessSlot
        <4>3. l > 0 => x.w = 0
            BY <1>6
        <4> QED BY <1>10, <3>0, <3>1, <3>4, <4>1, <4>2, <4>3
    <3> QED BY <2>1, <2>3, <3>2, <3>3, <3>4
  <2> QED BY <1>10, <1>11, <2>2, <2>3 DEF AtomsRight
<1> DEFINE g == Append(c.gens, x)
<1>14. IsSeq(g) /\ AtomsOf(g) = b
    BY <1>3, <1>5, <1>6, Grown, AtomsAppend DEF b
<1>15. FieldsRight(jc, g)
  <2>1. FieldSlotsOf(g) = FieldSlotsOf(c.gens)
    BY <1>5, <1>6, FieldsAppend
  <2> HIDE DEF g
  <2> QED BY <1>3, <2>1 DEF FieldsRight
<1> HIDE DEF g
<1>16. Basis(jc, g, Append(f, l))
    BY <1>3, <1>4, <1>11, <1>13, <1>14, <1>15 DEF Basis, n
<1> QED BY <1>16 DEF g, jc, x, c, d

-------------------------------------------------------------------------------
(* Notification. *)

(* What a table is meant to hold is asserted, and belongs there. *)
LEMMA MeantSeq ==
    ASSUME NEW s, NEW t \in Seq(Int)
    PROVE  /\ MeantFor(s, t) \in Seq(Int)
           /\ \A k \in DOMAIN MeantFor(s, t) :
                 \E i \in DOMAIN t : /\ MeantFor(s, t)[k] = t[i] /\ Belongs(s, t[i])
                                     /\ ~DroppedAt(t, i)
<1> DEFINE S == {t[i] : i \in {j \in DOMAIN t : Belongs(s, t[j]) /\ ~DroppedAt(t, j)}}
           f == MeantFor(s, t)
<1>1. f \in Seq(Int \cap S)
    BY SelectedSeq DEF MeantFor
<1>2. \A y \in S : \E i \in DOMAIN t : y = t[i] /\ Belongs(s, t[i]) /\ ~DroppedAt(t, i)
    OBVIOUS
<1> HIDE DEF f, S
<1>3. f \in Seq(Int)
  <2>1. Int \cap S \subseteq Int
    OBVIOUS
  <2> QED BY <1>1, <2>1
<1>4. \A k \in DOMAIN f : f[k] \in S
    BY <1>1
<1> QED BY <1>2, <1>3, <1>4 DEF f

(* Facts about different atoms are no more than the atoms. *)
LEMMA FactsCounted ==
    ASSUME NEW f, Once(f), NEW m \in Nat, \A i \in DOMAIN f : Abs(f[i]) \in 1 .. m
    PROVE  Len(f) <= m
<1> DEFINE n == Len(f)
           atom == [i \in 1 .. n |-> Abs(f[i])]
<1>1. n \in Nat /\ DOMAIN f = 1 .. n /\ \A i, j \in 1 .. n : Abs(f[i]) = Abs(f[j]) => i = j
    BY DEF Once
<1>2. atom \in Injection(1 .. n, 1 .. m)
  <2>1. \A i \in 1 .. n : atom[i] = Abs(f[i]) /\ atom[i] \in 1 .. m
    BY <1>1
  <2>2. atom \in [1 .. n -> 1 .. m]
    BY <1>1
  <2>3. \A i, j \in 1 .. n : atom[i] = atom[j] => i = j
    BY <1>1, <2>1
  <2> HIDE DEF atom, n
  <2> QED BY <2>2, <2>3 DEF Injection, IsInjective
<1> HIDE DEF atom, n
<1>3. /\ IsFiniteSet(1 .. m) /\ Cardinality(1 .. m) = IF 1 > m THEN 0 ELSE m - 1 + 1
      /\ IsFiniteSet(1 .. n) /\ Cardinality(1 .. n) = IF 1 > n THEN 0 ELSE n - 1 + 1
    BY <1>1, FS_Interval
<1>4. Cardinality(1 .. n) <= Cardinality(1 .. m)
    BY <1>2, <1>3, FS_Injection
<1>5. n <= m
    BY <1>1, <1>3, <1>4
<1> QED BY <1>5 DEF n

\* A sequence and one that may have grown from it.
Longer(u, s) ==
    /\ IsSeq(u) /\ Len(s) <= Len(u) /\ \A i \in 1 .. Len(s) : u[i] = s[i]

(* A sequence has not shrunk if it has not changed. *)
LEMMA LongerSame == ASSUME NEW s, IsSeq(s) PROVE Longer(s, s)
BY DEF Longer, IsSeq

(* A sequence has grown if one element is appended. *)
LEMMA LongerAppend == ASSUME NEW s, IsSeq(s), NEW x PROVE Longer(Append(s, x), s)
<1>1. /\ IsSeq(Append(s, x)) /\ Len(Append(s, x)) = Len(s) + 1 /\ Len(s) \in Nat
      /\ \A i \in 1 .. Len(s) : Append(s, x)[i] = s[i]
    BY Grown
<1> QED BY <1>1 DEF Longer

\* The tables hold what they are meant to hold of a trail.
IsMeant(f, t) == f = [s \in Tables |-> MeantFor(s, t)] /\ \A s \in Tables : Once(f[s])
\* h is f with l on the tables it belongs to.
Taken(f, l, h) == h = [s \in Tables |-> IF Belongs(s, l) THEN Append(f[s], l) ELSE f[s]]

(* The inner theory is right for a trail. *)
InnerOk(f, dg, ic, g, t) ==
    /\ IsMeant(f, t)
    /\ setup.kind = "router" /\ ~dg =>
          \A i \in DOMAIN t : \/ DroppedAt(t, i) \/ Abs(t[i]) \in DOMAIN setup.assigned
                              \/ IsAuxiliary(Abs(t[i]))
    /\ IsSeq(g) /\ (setup.kind = "incremental" => Basis(ic, g, f[1]))

(* A fact for one table more. *)
LEMMA FactsStep ==
    ASSUME setup \in SetUps, NEW t, Once(t), NEW l \in Int \ {0},
           \A i \in DOMAIN t : Abs(t[i]) # Abs(l),
           ~DroppedAt(Append(t, l), Len(t) + 1),
           NEW f, IsMeant(f, t), NEW h, Taken(f, l, h)
    PROVE  IsMeant(h, Append(t, l)) /\ \A s \in Tables : Longer(h[s], f[s])
<1>0. /\ t \in Seq(Int) /\ f = [s \in Tables |-> MeantFor(s, t)] /\ \A s \in Tables : Once(f[s])
      /\ h = [s \in Tables |-> IF Belongs(s, l) THEN Append(f[s], l) ELSE f[s]]
    BY DEF Once, IsMeant, Taken
<1>1. ASSUME NEW s \in Tables PROVE h[s] = MeantFor(s, Append(t, l))
    BY <1>0, MeantAppend
<1>2. ASSUME NEW s \in Tables PROVE Once(h[s]) /\ Longer(h[s], f[s])
  <2>1. f[s] \in Seq(Int) /\ Once(f[s])
    BY <1>0 DEF Once
  <2>2. IsSeq(f[s])
    BY <2>1, SeqOverRange
  <2>3. \A i \in DOMAIN f[s] : Abs(f[s][i]) # Abs(l)
    <3>1. \A k \in DOMAIN MeantFor(s, t) : \E i \in DOMAIN t : MeantFor(s, t)[k] = t[i]
        BY <1>0, MeantSeq
    <3> QED BY <1>0, <3>1
  <2>4. Once(Append(f[s], l)) /\ Longer(Append(f[s], l), f[s])
    BY <2>1, <2>2, <2>3, OnceAppend, LongerAppend
  <2> QED BY <1>0, <2>1, <2>2, <2>4, LongerSame
<1>3. h = [s \in Tables |-> MeantFor(s, Append(t, l))]
    BY <1>0, <1>1
<1> QED BY <1>2, <1>3 DEF IsMeant

(* A notified fact is counted by the ring before it is claimed for. *)
LEMMA RoomForFact ==
    ASSUME setup \in SetUps, setup.kind = "incremental", NEW t, Once(t), NEW l \in Int \ {0},
           \A i \in DOMAIN t : Abs(t[i]) # Abs(l), HasAtom(1, Abs(l)),
           NEW ic, NEW g, NEW f, f = MeantFor(1, t), Once(f), Basis(ic, g, f)
    PROVE  ic.diseqs + 1 <= setup.tables[1].slots
<1> DEFINE m == setup.tables[1].slots
           h == Append(f, l)
<1>1. m \in Nat /\ DOMAIN setup.tables[1].key \subseteq 1 .. m
    BY RingOf
<1>2. t \in Seq(Int) /\ f \in Seq(Int)
    BY DEF Once
<1>3. ASSUME NEW k \in DOMAIN f PROVE Abs(f[k]) \in 1 .. m /\ Abs(f[k]) # Abs(l)
  <2>1. PICK i \in DOMAIN t : f[k] = t[i] /\ Belongs(1, t[i])
    BY <1>2, MeantSeq
  <2>2. HasAtom(1, Abs(f[k]))
    BY <2>1 DEF Belongs
  <2> QED BY <1>1, <2>1, <2>2 DEF HasAtom
<1>4. Abs(l) \in 1 .. m
    BY <1>1 DEF HasAtom
<1>5. Once(h)
    BY <1>2, <1>3, OnceAppend
<1>6. /\ Len(f) \in Nat /\ Len(h) = Len(f) + 1 /\ DOMAIN h = 1 .. (Len(f) + 1)
      /\ DOMAIN f = 1 .. Len(f) /\ h[Len(f) + 1] = l /\ \A i \in 1 .. Len(f) : h[i] = f[i]
    BY <1>2, AppendParts
<1> HIDE DEF h, m
<1>7. ASSUME NEW i \in DOMAIN h PROVE Abs(h[i]) \in 1 .. m
  <2>1. i = Len(f) + 1 \/ i \in 1 .. Len(f)
    BY <1>6
  <2> QED BY <1>3, <1>4, <1>6, <2>1
<1>8. Len(h) <= m
    BY <1>1, <1>5, <1>7, FactsCounted
<1>9. ic.diseqs \in Nat /\ ic.diseqs <= Len(f)
    BY DEF Basis, Slotted
<1> QED BY <1>1, <1>6, <1>8, <1>9 DEF m

(* Each kind of theory puts a fact on the trails it belongs to. *)
LEMMA NotifyFullStep ==
    ASSUME setup \in SetUps, setup.kind = "full", NEW l \in Int,
           facts = [s \in Tables |-> facts[s]], NotifyFull(l)
    PROVE  facts' = [s \in Tables |-> IF Belongs(s, l) THEN Append(facts[s], l) ELSE facts[s]]
<1>1. Tables = {1}
    BY Kinds
<1>2. \A s \in Tables : Belongs(s, l) <=> ~IsAuxiliary(Abs(l))
    BY DEF Belongs
<1>3. facts' = IF IsAuxiliary(Abs(l)) THEN facts ELSE [facts EXCEPT ![1] = Append(@, l)]
    BY DEF NotifyFull
<1>4. CASE IsAuxiliary(Abs(l))
    BY <1>2, <1>3, <1>4
<1>5. CASE ~IsAuxiliary(Abs(l))
  <2>1. [facts EXCEPT ![1] = Append(@, l)] = [s \in {1} |-> Append(facts[s], l)]
    BY <1>1
  <2> QED BY <1>1, <1>2, <1>3, <1>5, <2>1
<1> QED BY <1>4, <1>5

(* The router takes what is assigned, which is never auxiliary. *)
LEMMA NotifyRouterStep ==
    ASSUME setup \in SetUps, setup.kind = "router", NEW l \in Int,
           facts = [s \in Tables |-> facts[s]], NotifyRouter(l)
    PROVE  facts' = [s \in Tables |-> IF Belongs(s, l) THEN Append(facts[s], l) ELSE facts[s]]
<1> DEFINE v == Abs(l)
           r == setup.assigned[v]
<1>1. \A s \in Tables : Belongs(s, l) <=> v \in DOMAIN setup.assigned /\ setup.assigned[v] = s
    BY DEF Belongs
<1>2. v \in DOMAIN setup.assigned => r \in Tables /\ v \notin setup.tables[r].aux
    BY AtomsApart DEF IsAuxiliary
<1>3. facts' = IF v \in DOMAIN setup.assigned /\ v \notin setup.tables[r].aux
               THEN [facts EXCEPT ![r] = Append(@, l)] ELSE facts
    BY DEF NotifyRouter
<1> HIDE DEF v
<1>4. CASE v \in DOMAIN setup.assigned
  <2>1. [facts EXCEPT ![r] = Append(@, l)]
            = [s \in Tables |-> IF s = r THEN Append(facts[s], l) ELSE facts[s]]
    BY <1>2, <1>4
  <2>2. \A s \in Tables : Belongs(s, l) <=> s = r
    BY <1>1, <1>4
  <2> QED BY <1>2, <1>3, <1>4, <2>1, <2>2
<1>5. CASE v \notin DOMAIN setup.assigned
    BY <1>1, <1>3, <1>5
<1> QED BY <1>4, <1>5

(* The incremental theory: its ring never runs out. *)
LEMMA NotifyIncrementalStep ==
    ASSUME setup \in SetUps, setup.kind = "incremental", NEW t, Once(t), NEW l \in Int \ {0},
           \A i \in DOMAIN t : Abs(t[i]) # Abs(l),
           InnerOk(facts, degraded, inc, gens, t), NotifyIncremental(l)
    PROVE  /\ facts' = [s \in Tables |-> IF Belongs(s, l) THEN Append(facts[s], l) ELSE facts[s]]
           /\ Longer(gens', gens)
           /\ Basis(inc', gens', facts'[1])
<1>1. Tables = {1} /\ 1 \in Tables
    BY Kinds
<1>2. \A s \in Tables : Belongs(s, l) <=> HasAtom(1, Abs(l))
    BY DEF Belongs
<1>3. /\ facts = [s \in Tables |-> MeantFor(s, t)] /\ Once(facts[1]) /\ Basis(inc, gens, facts[1])
      /\ IsSeq(gens)
    BY <1>1 DEF InnerOk, IsMeant
<1>4. CASE ~HasAtom(1, Abs(l))
  <2>1. facts' = facts /\ inc' = inc /\ gens' = gens
    BY <1>4 DEF NotifyIncremental
  <2> QED BY <1>2, <1>3, <1>4, <2>1, LongerSame
<1>5. CASE HasAtom(1, Abs(l))
  <2> DEFINE c == Claimed(l)
             x == Encoded(l, c.inc.slotOf, Witness(inc.diseqs))
  <2>1. facts[1] = MeantFor(1, t) /\ facts[1] \in Seq(Int)
    BY <1>1, <1>3 DEF Once
  <2>2. inc.diseqs + 1 <= setup.tables[1].slots
    BY <1>3, <1>5, <2>1, RoomForFact
  <2>3. Basis(c.inc, Append(c.gens, x), Append(facts[1], l))
    BY <1>3, <1>5, <2>1, <2>2, BasisStep
  <2>4. Claiming(c, inc, gens)
    <3>1. Slotted(inc) /\ FieldsRight(inc, gens)
        BY <1>3 DEF Basis
    <3> QED BY <1>3, <1>5, <2>2, <3>1, ClaimedRight
  <2>5. /\ c.full = FALSE /\ c.gens \in Seq(Generators(gens)) /\ Len(gens) <= Len(c.gens)
        /\ \A i \in 1 .. Len(gens) : c.gens[i] = gens[i]
    BY <2>4 DEF Claiming
  <2>6. /\ inc' = c.inc
        /\ facts' = IF c.full THEN facts ELSE [facts EXCEPT ![1] = Append(@, l)]
        /\ gens' = IF c.full THEN c.gens ELSE Append(c.gens, x)
    BY <1>5 DEF NotifyIncremental
  <2> HIDE DEF c, x
  <2>7. IsSeq(c.gens)
    BY <2>5, SeqOverRange
  <2>8. Longer(Append(c.gens, x), gens)
    <3>1. /\ IsSeq(Append(c.gens, x)) /\ Len(Append(c.gens, x)) = Len(c.gens) + 1 /\ Len(c.gens) \in Nat
          /\ \A i \in 1 .. Len(c.gens) : Append(c.gens, x)[i] = c.gens[i]
        BY <2>7, Grown
    <3>2. Len(gens) \in Nat
        BY <1>3 DEF IsSeq
    <3>3. \A i \in 1 .. Len(gens) : i \in 1 .. Len(c.gens)
        BY <2>5, <3>1, <3>2
    <3>4. Len(gens) <= Len(Append(c.gens, x))
        BY <2>5, <3>1, <3>2
    <3>5. \A i \in 1 .. Len(gens) : Append(c.gens, x)[i] = gens[i]
        BY <2>5, <3>1, <3>3
    <3> QED BY <3>1, <3>4, <3>5 DEF Longer
  <2>9. facts' = [facts EXCEPT ![1] = Append(@, l)] /\ gens' = Append(c.gens, x)
    BY <2>5, <2>6
  <2>10. facts' = [s \in Tables |-> IF Belongs(s, l) THEN Append(facts[s], l) ELSE facts[s]]
    <3>1. [facts EXCEPT ![1] = Append(@, l)] = [s \in {1} |-> Append(facts[s], l)]
        BY <1>1, <1>3
    <3> QED BY <1>1, <1>2, <1>5, <2>9, <3>1
  <2>11. facts'[1] = Append(facts[1], l)
    BY <1>1, <1>2, <1>5, <2>10
  <2> QED BY <2>3, <2>6, <2>8, <2>9, <2>10, <2>11
<1> QED BY <1>4, <1>5

(* Whatever the kind. *)
LEMMA NotifyInnerStep ==
    ASSUME setup \in SetUps, NEW t, Once(t), NEW l \in Int \ {0},
           \A i \in DOMAIN t : Abs(t[i]) # Abs(l),
           ~DroppedAt(Append(t, l), Len(t) + 1),
           InnerOk(facts, degraded, inc, gens, t), NotifyInner(l)
    PROVE  /\ InnerOk(facts', degraded', inc', gens', Append(t, l))
           /\ \A s \in Tables : Longer(facts'[s], facts[s])
           /\ Longer(gens', gens)
<1> DEFINE h == [s \in Tables |-> IF Belongs(s, l) THEN Append(facts[s], l) ELSE facts[s]]
           u == Append(t, l)
<1>1. setup.kind \in {"full", "incremental", "router"} /\ 1 \in Tables
    BY Kinds
<1>2. /\ IsMeant(facts, t)
      /\ setup.kind = "router" /\ ~degraded =>
          \A i \in DOMAIN t : \/ DroppedAt(t, i) \/ Abs(t[i]) \in DOMAIN setup.assigned
                              \/ IsAuxiliary(Abs(t[i]))
      /\ IsSeq(gens)
    BY DEF InnerOk
<1>3. facts = [s \in Tables |-> facts[s]]
    BY <1>2 DEF IsMeant
<1>4. /\ facts' = h /\ Longer(gens', gens)
      /\ setup.kind = "incremental" => Basis(inc', gens', facts'[1])
  <2>1. CASE setup.kind = "full"
    <3>1. NotifyFull(l)
        BY <2>1 DEF NotifyInner
    <3>2. gens' = gens
        BY <3>1 DEF NotifyFull
    <3>3. setup.kind # "incremental"
        BY <2>1
    <3> QED BY <1>2, <1>3, <2>1, <3>1, <3>2, <3>3, NotifyFullStep, LongerSame
  <2>2. CASE setup.kind = "incremental"
    <3>1. NotifyIncremental(l)
        BY <2>2 DEF NotifyInner
    <3> QED BY <2>2, <3>1, NotifyIncrementalStep
  <2>3. CASE setup.kind = "router"
    <3>1. NotifyRouter(l)
        BY <2>3 DEF NotifyInner
    <3>2. gens' = gens
        BY <3>1 DEF NotifyRouter
    <3>3. setup.kind # "incremental"
        BY <2>3
    <3> QED BY <1>2, <1>3, <2>3, <3>1, <3>2, <3>3, NotifyRouterStep, LongerSame
  <2> QED BY <1>1, <2>1, <2>2, <2>3
<1>5. Taken(facts, l, h)
    BY DEF Taken
<1> HIDE DEF h
<1>9. IsMeant(h, u) /\ \A s \in Tables : Longer(h[s], facts[s])
    BY <1>2, <1>5, FactsStep
<1>6. ASSUME setup.kind = "router", ~degraded', NEW i \in DOMAIN u
      PROVE  DroppedAt(u, i) \/ Abs(u[i]) \in DOMAIN setup.assigned \/ IsAuxiliary(Abs(u[i]))
  <2>0. t \in Seq(Int)
    BY DEF Once
  <2>1. /\ Len(t) \in Nat /\ DOMAIN t = 1 .. Len(t) /\ DOMAIN u = 1 .. (Len(t) + 1)
        /\ u[Len(t) + 1] = l /\ \A k \in 1 .. Len(t) : u[k] = t[k]
    BY <2>0, AppendParts
  <2>2. degraded' = (degraded \/ (Abs(l) \notin DOMAIN setup.assigned /\ ~IsAuxiliary(Abs(l))))
    BY <1>6 DEF NotifyInner, NotifyRouter
  <2>3. i = Len(t) + 1 \/ i \in DOMAIN t
    BY <2>1
  <2>4. CASE i \in DOMAIN t
    <3>1. DroppedAt(u, i) <=> DroppedAt(t, i)
        BY <2>0, <2>4, DroppedBefore
    <3>2. u[i] = t[i]
        BY <2>1, <2>4
    <3> QED BY <1>2, <1>6, <2>2, <2>4, <3>1, <3>2
  <2> QED BY <1>6, <2>1, <2>2, <2>3, <2>4
<1>7. IsSeq(gens')
    BY <1>4 DEF Longer
<1> HIDE DEF u
<1>8. InnerOk(facts', degraded', inc', gens', u)
    BY <1>4, <1>9, <1>6, <1>7 DEF InnerOk
<1> QED BY <1>4, <1>9, <1>8 DEF u

(* A fact the filter keeps back. *)
LEMMA NotifyDropped ==
    ASSUME setup \in SetUps, NEW t, Once(t), NEW l \in Int \ {0},
           \A i \in DOMAIN t : Abs(t[i]) # Abs(l),
           DroppedAt(Append(t, l), Len(t) + 1), InnerOk(facts, degraded, inc, gens, t)
    PROVE  InnerOk(facts, degraded, inc, gens, Append(t, l))
<1> DEFINE u == Append(t, l)
<1>0. t \in Seq(Int)
    BY DEF Once
<1>1. \A s : MeantFor(s, u) = MeantFor(s, t)
    BY MeantAppend
<1>2. /\ Len(t) \in Nat /\ DOMAIN t = 1 .. Len(t) /\ DOMAIN u = 1 .. (Len(t) + 1)
      /\ \A k \in 1 .. Len(t) : u[k] = t[k]
    BY <1>0, AppendParts
<1>3. \A i \in DOMAIN t : DroppedAt(u, i) <=> DroppedAt(t, i)
    BY <1>0, DroppedBefore
<1>4. \A i \in DOMAIN u : i \in DOMAIN t \/ i = Len(t) + 1
    BY <1>2
<1> HIDE DEF u
<1>5. [s \in Tables |-> MeantFor(s, u)] = [s \in Tables |-> MeantFor(s, t)]
    BY <1>1
<1>6. setup.kind = "router" /\ ~degraded =>
          \A i \in DOMAIN u : \/ DroppedAt(u, i) \/ Abs(u[i]) \in DOMAIN setup.assigned
                              \/ IsAuxiliary(Abs(u[i]))
    BY <1>2, <1>3, <1>4 DEF InnerOk, u
<1>7. IsMeant(facts, u)
    BY <1>5 DEF InnerOk, IsMeant
<1> QED BY <1>6, <1>7 DEF InnerOk, u

-------------------------------------------------------------------------------
(* The set-up stays: so does what is read off it. *)

(* The tables, their atoms, keys, primes and auxiliaries. *)
LEMMA SameKeys ==
    ASSUME UNCHANGED setup
    PROVE  /\ Tables' = Tables
           /\ \A s, v : (HasAtom(s, v))' <=> HasAtom(s, v)
           /\ \A s, v : (Key(s, v))' = Key(s, v)
           /\ \A s : (Prime(s))' = Prime(s)
           /\ \A v : (IsAuxiliary(v))' <=> IsAuxiliary(v)
BY DEF Tables, HasAtom, Key, Prime, IsAuxiliary

(* The classes of the filter. *)
LEMMA SameClasses ==
    ASSUME UNCHANGED setup
    PROVE  \A v : (RepOf(v))' = RepOf(v)
<1> SUFFICES ASSUME NEW v PROVE (RepOf(v))' = RepOf(v)
    OBVIOUS
<1> DEFINE S == {u \in DOMAIN setup.tables[1].key : Key(1, u) = Key(1, v)}
<1>1. S' = S
    BY SameKeys
<1>2. RepOf(v) = IF HasAtom(1, v) THEN Min(S) ELSE v
    BY DEF RepOf
<1>3. (RepOf(v))' = IF (HasAtom(1, v))' THEN Min(S') ELSE v
    BY DEF RepOf
<1> HIDE DEF S
<1> QED BY <1>1, <1>2, <1>3, SameKeys

(* What is dropped, and where a literal belongs. *)
LEMMA SameMeaning ==
    ASSUME UNCHANGED setup, setup \in SetUps
    PROVE  /\ \A t, i : (DroppedAt(t, i))' <=> DroppedAt(t, i)
           /\ \A s, l : (Belongs(s, l))' <=> Belongs(s, l)
<1>1. \A t, i : (DroppedAt(t, i))' <=> DroppedAt(t, i)
    BY SameClasses DEF DroppedAt
<1>2. \A s, l : (Belongs(s, l))' <=> Belongs(s, l)
    BY Kinds, SameKeys DEF Belongs
<1> QED BY <1>1, <1>2

(* What a table is meant to hold. *)
LEMMA SameMeant ==
    ASSUME UNCHANGED setup, setup \in SetUps
    PROVE  \A s, t : (MeantFor(s, t))' = MeantFor(s, t)
<1> SUFFICES ASSUME NEW s, NEW t PROVE (MeantFor(s, t))' = MeantFor(s, t)
    OBVIOUS
<1> DEFINE S == {t[i] : i \in {j \in DOMAIN t : Belongs(s, t[j]) /\ ~DroppedAt(t, j)}}
<1>1. S' = S
    BY SameMeaning
<1>2. MeantFor(s, t) = Selected(t, S) /\ (MeantFor(s, t))' = Selected(t, S')
    BY DEF MeantFor
<1> QED BY <1>1, <1>2

(* The names, the slots and the field polynomials. *)
LEMMA SameRing ==
    ASSUME UNCHANGED setup
    PROVE  /\ \A d : (SlotNames(d))' = SlotNames(d)
           /\ \A ic : (Slotted(ic))' <=> Slotted(ic)
           /\ \A ic, g : (FieldsRight(ic, g))' <=> FieldsRight(ic, g)
<1>1. \A d : (SlotNames(d))' = SlotNames(d)
    BY DEF SlotNames
<1>2. \A ic : (Slotted(ic))' <=> Slotted(ic)
    BY <1>1 DEF Slotted
<1>3. \A ic, g : (FieldsRight(ic, g))' <=> FieldsRight(ic, g)
    BY SameKeys DEF FieldsRight
<1> QED BY <1>1, <1>2, <1>3

(* The generator of a literal. *)
LEMMA SameEncoding ==
    ASSUME UNCHANGED setup
    PROVE  \A l, slotOf, w : (Encoded(l, slotOf, w))' = Encoded(l, slotOf, w)
BY SameKeys DEF Encoded

(* When the basis is right. *)
LEMMA SameBasis ==
    ASSUME UNCHANGED setup
    PROVE  \A ic, g, f : (Basis(ic, g, f))' <=> Basis(ic, g, f)
<1>1. \A g, ic : (EncodedIn(g, ic))' <=> EncodedIn(g, ic)
    BY SameKeys, SameEncoding DEF EncodedIn
<1>2. \A a, ic, f : (AtomsRight(a, ic, f))' <=> AtomsRight(a, ic, f)
    BY <1>1 DEF AtomsRight
<1> QED BY <1>2, SameRing DEF Basis

(* When the inner theory is right. *)
LEMMA SameInner ==
    ASSUME UNCHANGED setup, setup \in SetUps
    PROVE  \A f, dg, ic, g, t : (InnerOk(f, dg, ic, g, t))' <=> InnerOk(f, dg, ic, g, t)
<1>1. \A f, t : (IsMeant(f, t))' <=> IsMeant(f, t)
  <2> SUFFICES ASSUME NEW f, NEW t PROVE (IsMeant(f, t))' <=> IsMeant(f, t)
    OBVIOUS
  <2>1. [s \in Tables' |-> (MeantFor(s, t))'] = [s \in Tables |-> MeantFor(s, t)]
    BY SameKeys, SameMeant
  <2> QED BY <2>1, SameKeys DEF IsMeant
<1> QED BY <1>1, SameKeys, SameMeaning, SameBasis DEF InnerOk

(* When the filter is right. *)
LEMMA SameFilter ==
    ASSUME UNCHANGED setup
    PROVE  /\ \A pol, tr, t : (Polarities(pol, tr, t))' <=> Polarities(pol, tr, t)
           /\ \A pend, t : (PendingIs(pend, t))' <=> PendingIs(pend, t)
<1>1. \A t, i : (Class(t, i))' = Class(t, i)
    BY SameClasses DEF Class
<1>2. \A t, i : (First(t, i))' <=> First(t, i)
    BY <1>1 DEF First
<1>3. \A pol, tr, t : (Polarities(pol, tr, t))' <=> Polarities(pol, tr, t)
    BY <1>1, <1>2 DEF Polarities
<1>4. \A pend, t : (PendingIs(pend, t))' <=> PendingIs(pend, t)
    BY <1>1 DEF PendingIs
<1> QED BY <1>3, <1>4

-------------------------------------------------------------------------------
(* Checkpoints. *)

\* The facts at a checkpoint.
CutOf(f, lv) == [s \in Tables |-> Prefix(f[s], lv.facts[s])]

\* A checkpoint lv, n of the facts f and the generators g is right for a trail.
Saved(f, g, lv, n, t) ==
    /\ \A s \in Tables : lv.facts[s] \in 0 .. Len(f[s])
    /\ n \in 0 .. Len(g)
    /\ InnerOk(CutOf(f, lv), lv.degraded, lv.inc, Prefix(g, n), t)

\* A checkpoint lv, n is no later than lw, m.
Ordered(lv, n, lw, m) == n <= m /\ \A s \in Tables : lv.facts[s] <= lw.facts[s]

\* Facts and generators are sequences.
AreSeqs(f, g) == IsSeq(g) /\ \A s \in Tables : IsSeq(f[s])

(* What is notified later leaves a checkpoint right. *)
LEMMA SavedLonger ==
    ASSUME NEW f, NEW g, AreSeqs(f, g), NEW f2, NEW g2, Longer(g2, g),
           \A s \in Tables : Longer(f2[s], f[s]),
           NEW lv, NEW n, NEW t, Saved(f, g, lv, n, t)
    PROVE  Saved(f2, g2, lv, n, t)
<1>1. ASSUME NEW x, IsSeq(x), NEW y, Longer(y, x), NEW k \in 0 .. Len(x)
      PROVE  k \in 0 .. Len(y) /\ Prefix(y, k) = Prefix(x, k)
  <2>1. Len(x) \in Nat /\ Len(y) \in Nat /\ IsSeq(y) /\ Len(x) <= Len(y)
        /\ \A i \in 1 .. Len(x) : y[i] = x[i]
    BY <1>1 DEF Longer, IsSeq
  <2>2. k <= Len(y) /\ \A i \in 1 .. k : i \in 1 .. Len(x)
    BY <2>1
  <2>3. Prefix(y, k) = Prefix(x, k)
    BY <1>1, <2>1, <2>2, PrefixSame
  <2> QED BY <2>1, <2>2, <2>3
<1>2. /\ n \in 0 .. Len(g) /\ \A s \in Tables : lv.facts[s] \in 0 .. Len(f[s])
      /\ InnerOk(CutOf(f, lv), lv.degraded, lv.inc, Prefix(g, n), t)
    BY DEF Saved
<1>3. n \in 0 .. Len(g2) /\ Prefix(g2, n) = Prefix(g, n)
    BY <1>1, <1>2 DEF AreSeqs
<1>4. \A s \in Tables : lv.facts[s] \in 0 .. Len(f2[s]) /\ Prefix(f2[s], lv.facts[s]) = Prefix(f[s], lv.facts[s])
    BY <1>1, <1>2 DEF AreSeqs
<1>5. CutOf(f2, lv) = CutOf(f, lv)
    BY <1>4 DEF CutOf
<1> QED BY <1>2, <1>3, <1>4, <1>5 DEF Saved

(* What a push records is right. *)
LEMMA SavedNow ==
    ASSUME NEW f, NEW dg, NEW ic, NEW g, NEW t, InnerOk(f, dg, ic, g, t), AreSeqs(f, g)
    PROVE  Saved(f, g, [facts |-> [s \in Tables |-> Len(f[s])], degraded |-> dg, inc |-> ic], Len(g), t)
<1> DEFINE lv == [facts |-> [s \in Tables |-> Len(f[s])], degraded |-> dg, inc |-> ic]
<1>1. \A s \in Tables : lv.facts[s] = Len(f[s]) /\ Len(f[s]) \in 0 .. Len(f[s])
    BY DEF AreSeqs, IsSeq
<1>2. Len(g) \in 0 .. Len(g) /\ Prefix(g, Len(g)) = g
    BY PrefixWhole DEF AreSeqs, IsSeq
<1>3. \A s \in Tables : Prefix(f[s], Len(f[s])) = f[s]
    BY PrefixWhole DEF AreSeqs
<1>4. lv.degraded = dg /\ lv.inc = ic
    OBVIOUS
<1> HIDE DEF lv
<1>5. CutOf(f, lv) = f
    BY <1>1, <1>3 DEF CutOf, InnerOk, IsMeant
<1>6. Saved(f, g, lv, Len(g), t)
    BY <1>1, <1>2, <1>4, <1>5 DEF Saved
<1> QED BY <1>6 DEF lv

(* A rollback leaves the earlier checkpoints right. *)
LEMMA SavedCut ==
    ASSUME NEW f, NEW g, AreSeqs(f, g), NEW lv, NEW n, NEW t, Saved(f, g, lv, n, t),
           NEW lw, NEW m \in 0 .. Len(g), \A s \in Tables : lw.facts[s] \in 0 .. Len(f[s]),
           Ordered(lv, n, lw, m)
    PROVE  Saved(CutOf(f, lw), Prefix(g, m), lv, n, t)
<1>1. ASSUME NEW x, IsSeq(x), NEW j \in 0 .. Len(x), NEW k \in 0 .. Len(x), k <= j
      PROVE  k \in 0 .. Len(Prefix(x, j)) /\ Prefix(Prefix(x, j), k) = Prefix(x, k)
  <2>1. Len(Prefix(x, j)) = j /\ k \in 0 .. j
    BY <1>1, PrefixSeq
  <2> QED BY <1>1, <2>1, PrefixPrefix
<1>2. /\ n \in 0 .. Len(g) /\ \A s \in Tables : lv.facts[s] \in 0 .. Len(f[s])
      /\ InnerOk(CutOf(f, lv), lv.degraded, lv.inc, Prefix(g, n), t)
    BY DEF Saved
<1>3. n \in 0 .. Len(Prefix(g, m)) /\ Prefix(Prefix(g, m), n) = Prefix(g, n)
    BY <1>1, <1>2 DEF AreSeqs, Ordered
<1>4. ASSUME NEW s \in Tables
      PROVE  /\ lv.facts[s] \in 0 .. Len(CutOf(f, lw)[s])
             /\ Prefix(CutOf(f, lw)[s], lv.facts[s]) = Prefix(f[s], lv.facts[s])
  <2>1. CutOf(f, lw)[s] = Prefix(f[s], lw.facts[s])
    BY DEF CutOf
  <2> QED BY <1>1, <1>2, <2>1 DEF AreSeqs, Ordered
<1>5. CutOf(CutOf(f, lw), lv) = CutOf(f, lv)
    BY <1>4 DEF CutOf
<1> QED BY <1>2, <1>3, <1>4, <1>5 DEF Saved

\* The polarities of the classes on a trail.
PolaritiesOf(pol, tr) == Restrict(pol, ToSet(tr))

\* A checkpoint n of what the filter keeps, with the contradiction of then.
SavedFilter(pol, tr, n, pend, t) ==
    /\ n \in 0 .. Len(tr)
    /\ Polarities(PolaritiesOf(pol, Prefix(tr, n)), Prefix(tr, n), t)
    /\ PendingIs(pend, t)

(* What is notified later leaves a checkpoint of the filter right. *)
LEMMA FilterLonger ==
    ASSUME NEW pol, NEW tr, IsSeq(tr), DOMAIN pol = Range(tr),
           NEW pol2, NEW tr2, Longer(tr2, tr), \A r \in DOMAIN pol : pol2[r] = pol[r],
           NEW n, NEW pend, NEW t, SavedFilter(pol, tr, n, pend, t)
    PROVE  SavedFilter(pol2, tr2, n, pend, t)
<1>1. /\ n \in 0 .. Len(tr) /\ PendingIs(pend, t)
      /\ Polarities(PolaritiesOf(pol, Prefix(tr, n)), Prefix(tr, n), t)
    BY DEF SavedFilter
<1>2. Len(tr) \in Nat /\ Len(tr2) \in Nat /\ IsSeq(tr2) /\ Len(tr) <= Len(tr2)
      /\ DOMAIN tr = 1 .. Len(tr) /\ \A i \in 1 .. Len(tr) : tr2[i] = tr[i]
    BY DEF Longer, IsSeq
<1>3. n \in 0 .. Len(tr2) /\ n <= Len(tr2) /\ \A i \in 1 .. n : i \in 1 .. Len(tr)
    BY <1>1, <1>2
<1>4. Prefix(tr2, n) = Prefix(tr, n)
    BY <1>1, <1>2, <1>3, PrefixSame
<1>5. ToSet(Prefix(tr, n)) \subseteq Range(tr)
  <2>1. DOMAIN Prefix(tr, n) = 1 .. n /\ \A i \in 1 .. n : Prefix(tr, n)[i] = tr[i]
    BY <1>1, PrefixSeq
  <2> QED BY <1>2, <1>3, <2>1 DEF ToSet, Range
<1>6. PolaritiesOf(pol2, Prefix(tr, n)) = PolaritiesOf(pol, Prefix(tr, n))
    BY <1>5 DEF PolaritiesOf, Restrict
<1> QED BY <1>1, <1>3, <1>4, <1>6 DEF SavedFilter

(* What a push records of the filter is right. *)
LEMMA FilterNow ==
    ASSUME NEW pol, NEW tr, NEW pend, NEW t, Polarities(pol, tr, t), PendingIs(pend, t)
    PROVE  SavedFilter(pol, tr, Len(tr), pend, t)
<1>1. IsSeq(tr) /\ DOMAIN pol = Range(tr)
    BY DEF Polarities, IsSeq
<1>2. Prefix(tr, Len(tr)) = tr /\ Len(tr) \in 0 .. Len(tr)
    BY <1>1, PrefixWhole DEF IsSeq
<1> DEFINE q == PolaritiesOf(pol, tr)
<1>3. DOMAIN q = DOMAIN pol /\ \A r \in DOMAIN pol : q[r] = pol[r]
  <2>1. ToSet(tr) = Range(tr)
    BY DEF ToSet, Range
  <2> QED BY <1>1, <2>1 DEF PolaritiesOf, Restrict
<1> HIDE DEF q
<1>4. Polarities(q, tr, t)
    BY <1>3 DEF Polarities
<1> QED BY <1>2, <1>4 DEF SavedFilter, q

(* A rollback leaves the earlier checkpoints of the filter right. *)
LEMMA FilterCut ==
    ASSUME NEW pol, NEW tr, IsSeq(tr), NEW m \in 0 .. Len(tr),
           NEW n, n <= m, NEW pend, NEW t, SavedFilter(pol, tr, n, pend, t)
    PROVE  SavedFilter(PolaritiesOf(pol, Prefix(tr, m)), Prefix(tr, m), n, pend, t)
<1>1. /\ n \in 0 .. Len(tr) /\ PendingIs(pend, t)
      /\ Polarities(PolaritiesOf(pol, Prefix(tr, n)), Prefix(tr, n), t)
    BY DEF SavedFilter
<1>2. n \in 0 .. m
    BY <1>1
<1>3. Prefix(Prefix(tr, m), n) = Prefix(tr, n)
    BY <1>2, PrefixPrefix
<1>4. /\ Len(Prefix(tr, m)) = m /\ DOMAIN Prefix(tr, m) = 1 .. m
      /\ DOMAIN Prefix(tr, n) = 1 .. n
      /\ \A i \in 1 .. m : Prefix(tr, m)[i] = tr[i]
      /\ \A i \in 1 .. n : Prefix(tr, n)[i] = tr[i]
    BY <1>1, PrefixSeq
<1>5. ToSet(Prefix(tr, n)) \subseteq ToSet(Prefix(tr, m))
  <2>1. \A i \in 1 .. n : i \in 1 .. m
    BY <1>2
  <2> QED BY <1>4, <2>1 DEF ToSet
<1>6. PolaritiesOf(PolaritiesOf(pol, Prefix(tr, m)), Prefix(tr, n)) = PolaritiesOf(pol, Prefix(tr, n))
    BY <1>5 DEF PolaritiesOf, Restrict
<1> QED BY <1>1, <1>2, <1>3, <1>4, <1>6 DEF SavedFilter

-------------------------------------------------------------------------------
(* The inductive invariant. *)

\* The trail as of level k.
Upto(k) == FlattenSeq(Prefix(asserted, k))

\* The trail holds literals of the set-up, no atom twice, and every level but
\* the first has its checkpoint.
Shape ==
    /\ setup \in SetUps /\ world = WorldOf(setup)
    /\ asserted \in Seq(Seq(Int)) /\ asserted # <<>>
    /\ Once(Trail) /\ \A i \in DOMAIN Trail : Trail[i] \in DOMAIN world
    /\ IsSeq(levels) /\ IsSeq(gbLevels)
    /\ Len(asserted) = Len(levels) + 1 /\ Len(gbLevels) = Len(levels)

\* The inner theory is right now, and was at every checkpoint.
InnerKept ==
    /\ InnerOk(facts, degraded, inc, gens, Trail)
    /\ \A k \in DOMAIN levels : Saved(facts, gens, levels[k], gbLevels[k], Upto(k))
    /\ \A k \in DOMAIN levels : \A j \in 1 .. k :
          Ordered(levels[j], gbLevels[j], levels[k], gbLevels[k])

\* So is the filter, if there is one.
FilterKept ==
    IF ~setup.ee THEN pending = None
    ELSE /\ Polarities(polarity, eeTrail, Trail) /\ PendingIs(pending, Trail)
         /\ IsSeq(eeLevels) /\ IsSeq(pendingLevels)
         /\ Len(eeLevels) = Len(levels) /\ Len(pendingLevels) = Len(levels)
         /\ \A k \in DOMAIN levels :
               SavedFilter(polarity, eeTrail, eeLevels[k], pendingLevels[k], Upto(k))
         /\ \A k \in DOMAIN levels : \A j \in 1 .. k : eeLevels[j] <= eeLevels[k]

\* The inductive invariant.
IInv == Shape /\ InnerKept /\ FilterKept

(* At the start nothing is asserted and nothing is kept. *)
LEMMA StartsRight == Init => IInv
<1> SUFFICES ASSUME Init PROVE IInv
    OBVIOUS
<1>1. /\ setup \in SetUps /\ world = WorldOf(setup) /\ asserted = << <<>> >>
      /\ facts = [s \in Tables |-> <<>>] /\ levels = <<>> /\ gbLevels = <<>>
      /\ inc = [slotOf |-> <<>>, nextSlot |-> 1, diseqs |-> 0] /\ gens = <<>>
      /\ polarity = <<>> /\ eeTrail = <<>> /\ eeLevels = <<>> /\ pending = None
      /\ pendingLevels = <<>> /\ degraded = FALSE
    BY DEF Init
<1>2. Trail = <<>>
  <2>1. <<>> \in Seq(Int) /\ <<>> \in Seq(Seq(Int)) /\ Append(<<>>, <<>>) = << <<>> >>
    OBVIOUS
  <2>2. FlattenSeq(<< <<>> >>) = FlattenSeq(<<>>) \o <<>>
    BY <2>1, FlattenAppend
  <2>3. <<>> \o <<>> = <<>>
    OBVIOUS
  <2> QED BY <1>1, <2>2, <2>3, FlattenEmpty DEF Trail
<1>3. IsSeq(<<>>) /\ Once(<<>>) /\ DOMAIN <<>> = {} /\ Range(<<>>) = {} /\ Len(<<>>) = 0
    BY DEF IsSeq, Once, Range
<1>4. Shape
  <2>1. asserted \in Seq(Seq(Int)) /\ asserted # <<>> /\ Len(asserted) = 1
    BY <1>1
  <2> QED BY <1>1, <1>2, <1>3, <2>1 DEF Shape
<1>5. InnerOk(facts, degraded, inc, gens, Trail)
  <2>1. IsMeant(facts, Trail)
    BY <1>1, <1>2, <1>3, MeantEmpty DEF IsMeant
  <2>2. ASSUME setup.kind = "incremental" PROVE Basis(inc, gens, facts[1])
    <3>1. facts[1] = <<>>
        BY <1>1, Kinds
    <3>2. /\ inc.slotOf = <<>> /\ inc.nextSlot = 1 /\ inc.diseqs = 0
          /\ inc = [slotOf |-> inc.slotOf, nextSlot |-> inc.nextSlot, diseqs |-> inc.diseqs]
        BY <1>1
    <3>3. Slotted(inc)
      <4>1. <<>> \in [{} -> 1 .. 0]
        OBVIOUS
      <4>2. Cardinality({}) = 0
        BY FS_EmptySet
      <4> QED BY <1>3, <3>2, <4>1, <4>2 DEF Slotted
    <3>4. FieldsRight(inc, gens)
      <4>1. FieldSlotsOf(gens) = {}
        BY <1>1, <1>3 DEF FieldSlotsOf
      <4>2. 1 .. inc.nextSlot - 1 = {}
        BY <3>2
      <4> QED BY <4>1, <4>2 DEF FieldsRight
    <3>5. AtomsRight(AtomsOf(gens), inc, facts[1])
      <4>1. AtomsOf(gens) = <<>>
        BY <1>1, SelectedEmpty DEF AtomsOf
      <4> QED BY <1>3, <3>1, <4>1 DEF AtomsRight
    <3> QED BY <1>1, <1>3, <3>1, <3>2, <3>3, <3>4, <3>5 DEF Basis
  <2> QED BY <1>1, <1>2, <1>3, <2>1, <2>2 DEF InnerOk
<1>6. InnerKept
    BY <1>1, <1>3, <1>5 DEF InnerKept
<1>7. FilterKept
  <2>1. Polarities(polarity, eeTrail, Trail) /\ PendingIs(pending, Trail)
    BY <1>1, <1>2, <1>3 DEF Polarities, PendingIs, IsSeq
  <2> QED BY <1>1, <1>3, <2>1 DEF FilterKept
<1> QED BY <1>4, <1>6, <1>7 DEF IInv

(* What a notification does to the trail. *)
LEMMA TrailNotified ==
    ASSUME Shape, NEW l \in DOMAIN world, NotifyFact(l), UNCHANGED <<levels, gbLevels>>
    PROVE  /\ Shape' /\ Trail' = Append(Trail, l) /\ l \in Int \ {0}
           /\ \A i \in DOMAIN Trail : Abs(Trail[i]) # Abs(l)
           /\ \A k \in DOMAIN levels : (Upto(k))' = Upto(k)
<1> DEFINE n == Len(asserted)
           t == Trail
<1>1. /\ asserted \in Seq(Seq(Int)) /\ asserted # <<>> /\ Once(t)
      /\ n = Len(levels) + 1 /\ IsSeq(levels) /\ setup \in SetUps /\ world = WorldOf(setup)
      /\ \A i \in DOMAIN t : t[i] \in DOMAIN world
    BY DEF Shape
<1>2. l \in Int \ {0}
  <2>1. setup.vars \in Nat
    BY <1>1, TheoryAssumption
  <2> QED BY <1>1, <2>1 DEF WorldOf, WorldOn
<1>3. /\ asserted' = [asserted EXCEPT ![n] = Append(asserted[n], l)]
      /\ \A k \in DOMAIN asserted : \A i \in DOMAIN asserted[k] : Abs(asserted[k][i]) # Abs(l)
      /\ UNCHANGED <<setup, world>>
    BY DEF NotifyFact
<1>4. Trail' = Append(t, l)
  <2>1. FlattenSeq([asserted EXCEPT ![n] = Append(asserted[n], l)]) = Append(FlattenSeq(asserted), l)
    BY <1>1, <1>2, FlattenExtend
  <2> QED BY <1>3, <2>1 DEF Trail
<1>5. ASSUME NEW i \in DOMAIN t PROVE Abs(t[i]) # Abs(l)
  <2>1. Range(t) = UNION {Range(asserted[k]) : k \in DOMAIN asserted}
    BY <1>1, FlattenRange DEF Trail
  <2>2. PICK k \in DOMAIN asserted : t[i] \in Range(asserted[k])
    BY <2>1 DEF Range
  <2>3. PICK j \in DOMAIN asserted[k] : asserted[k][j] = t[i]
    BY <2>2 DEF Range
  <2> QED BY <1>3, <2>3
<1>6. t \in Seq(Int)
    BY <1>1 DEF Once
<1>7. Once(Trail')
    BY <1>1, <1>2, <1>4, <1>5, OnceAppend
<1>8. ASSUME NEW i \in DOMAIN Trail' PROVE Trail'[i] \in DOMAIN world'
  <2>1. /\ Len(t) \in Nat /\ DOMAIN t = 1 .. Len(t) /\ DOMAIN Append(t, l) = 1 .. (Len(t) + 1)
        /\ Append(t, l)[Len(t) + 1] = l /\ \A k \in 1 .. Len(t) : Append(t, l)[k] = t[k]
    BY <1>2, <1>6, AppendParts
  <2>2. i \in 1 .. Len(t) \/ i = Len(t) + 1
    BY <1>4, <2>1
  <2> QED BY <1>1, <1>3, <1>4, <2>1, <2>2
<1>9. /\ asserted' \in Seq(Seq(Int)) /\ asserted' # <<>> /\ Len(asserted') = n
      /\ n \in Nat \ {0} /\ DOMAIN asserted = 1 .. n
      /\ \A k \in 1 .. n : k # n => asserted'[k] = asserted[k]
  <2>1. n \in Nat \ {0} /\ DOMAIN asserted = 1 .. n /\ asserted[n] \in Seq(Int)
    BY <1>1
  <2>2. Append(asserted[n], l) \in Seq(Int)
    BY <1>2, <2>1
  <2> DEFINE x == Append(asserted[n], l)
  <2> HIDE DEF n, x
  <2>3. asserted' = [asserted EXCEPT ![n] = x] /\ x \in Seq(Int)
    BY <1>3, <2>2 DEF x
  <2>4. asserted' \in Seq(Seq(Int)) /\ Len(asserted') = Len(asserted)
    BY <1>1, <2>1, <2>3
  <2>5. Len(asserted') # 0
    BY <2>1, <2>4 DEF n
  <2>6. asserted' # <<>>
    BY <2>4, <2>5
  <2> QED BY <2>1, <2>3, <2>4, <2>6 DEF n
<1>10. Shape'
  <2>1. (WorldOf(setup))' = WorldOf(setup')
    BY DEF WorldOf, WorldOn, PointsOf, Holding, Registered, ZerosOf
  <2>2. /\ setup' \in SetUps /\ world' = WorldOf(setup')
        /\ (IsSeq(levels))' /\ (IsSeq(gbLevels))' /\ Len(asserted') = Len(levels') + 1
        /\ Len(gbLevels') = Len(levels')
    BY <1>1, <1>3, <1>9 DEF Shape, IsSeq
  <2> QED BY <1>7, <1>8, <1>9, <2>2 DEF Shape
<1>11. ASSUME NEW k \in DOMAIN levels PROVE (Upto(k))' = Upto(k)
  <2>1. k \in 0 .. Len(asserted) /\ k <= Len(asserted') /\ \A i \in 1 .. k : i \in 1 .. n /\ i # n
    BY <1>1, <1>9 DEF IsSeq
  <2>2. IsSeq(asserted) /\ IsSeq(asserted')
    BY <1>1, <1>9, SeqOverRange
  <2>3. Prefix(asserted', k) = Prefix(asserted, k)
    BY <1>9, <2>1, <2>2, PrefixSame
  <2> QED BY <2>3 DEF Upto
<1> QED BY <1>2, <1>4, <1>5, <1>10, <1>11

(* When a checkpoint of the inner theory is right. *)
LEMMA SameSaved ==
    ASSUME UNCHANGED setup, setup \in SetUps
    PROVE  \A f, g, lv, n, t : (Saved(f, g, lv, n, t))' <=> Saved(f, g, lv, n, t)
<1>1. \A f, lv : (CutOf(f, lv))' = CutOf(f, lv)
  <2> SUFFICES ASSUME NEW f, NEW lv PROVE (CutOf(f, lv))' = CutOf(f, lv)
    OBVIOUS
  <2> QED BY SameKeys DEF CutOf
<1> QED BY <1>1, SameKeys, SameInner DEF Saved

(* When a checkpoint of the filter is right. *)
LEMMA SameSavedFilter ==
    ASSUME UNCHANGED setup
    PROVE  \A pol, tr, n, pend, t :
              (SavedFilter(pol, tr, n, pend, t))' <=> SavedFilter(pol, tr, n, pend, t)
BY SameFilter DEF SavedFilter, PolaritiesOf

(* What is on the tables are sequences. *)
LEMMA KeptSeqs ==
    ASSUME NEW f, NEW dg, NEW ic, NEW g, NEW t, InnerOk(f, dg, ic, g, t)
    PROVE  AreSeqs(f, g)
<1>1. IsSeq(g) /\ \A s \in Tables : Once(f[s])
    BY DEF InnerOk, IsMeant
<1>2. \A s \in Tables : IsSeq(f[s])
  <2> SUFFICES ASSUME NEW s \in Tables PROVE IsSeq(f[s])
    OBVIOUS
  <2>1. f[s] \in Seq(Int)
    BY <1>1 DEF Once
  <2> QED BY <2>1, SeqOverRange
<1> QED BY <1>1, <1>2 DEF AreSeqs

(* The inner theory after a notification. *)
LEMMA InnerNotified ==
    ASSUME IInv, NEW l \in DOMAIN world, NotifyFact(l)
    PROVE  /\ InnerOk(facts', degraded', inc', gens', Append(Trail, l))
           /\ \A s \in Tables : Longer(facts'[s], facts[s])
           /\ Longer(gens', gens) /\ UNCHANGED <<levels, gbLevels>>
<1> DEFINE t == Trail
           rep == RepOf(Abs(l))
           redundant == rep \in DOMAIN polarity /\ polarity[rep][1] = (l > 0)
           dropped == DroppedAt(Append(t, l), Len(t) + 1)
<1>1. UNCHANGED <<levels, gbLevels>>
    BY DEF NotifyFact, NotifyFilter, NotifyInner, inner
<1>2. l \in Int \ {0} /\ \A i \in DOMAIN t : Abs(t[i]) # Abs(l)
    BY <1>1, TrailNotified DEF IInv
<1>3. setup \in SetUps /\ Once(t) /\ InnerOk(facts, degraded, inc, gens, t)
    BY DEF IInv, Shape, InnerKept
<1>4. t \in Seq(Int)
    BY <1>3 DEF Once
<1>5. CASE dropped
  <2>1. setup.ee
    BY <1>5 DEF DroppedAt
  <2>2. Polarities(polarity, eeTrail, t)
    BY <2>1 DEF IInv, FilterKept
  <2>3. redundant
    BY <1>2, <1>4, <1>5, <2>1, <2>2, DroppedIsRedundant
  <2>4. UNCHANGED inner
    BY <2>1, <2>3 DEF NotifyFact, NotifyFilter
  <2>5. facts' = facts /\ degraded' = degraded /\ inc' = inc /\ gens' = gens
    BY <2>4 DEF inner
  <2>6. InnerOk(facts, degraded, inc, gens, Append(t, l))
    BY <1>2, <1>3, <1>5, NotifyDropped
  <2>7. AreSeqs(facts, gens)
    BY <1>3, KeptSeqs
  <2> QED BY <1>1, <2>5, <2>6, <2>7, LongerSame DEF AreSeqs
<1>6. CASE ~dropped
  <2>1. NotifyInner(l)
    <3>1. CASE ~setup.ee
        BY <3>1 DEF NotifyFact
    <3>2. CASE setup.ee
      <4>1. Polarities(polarity, eeTrail, t)
        BY <3>2 DEF IInv, FilterKept
      <4>2. ~redundant
        BY <1>2, <1>4, <1>6, <3>2, <4>1, DroppedIsRedundant
      <4>3. NotifyFilter(l)
        BY <3>2 DEF NotifyFact
      <4>4. ~(rep \in DOMAIN polarity /\ ~(rep \in DOMAIN polarity /\ polarity[rep][1] # (l > 0)))
        BY <4>2
      <4> QED BY <4>3, <4>4 DEF NotifyFilter
    <3> QED BY <3>1, <3>2
  <2> QED BY <1>1, <1>2, <1>3, <1>6, <2>1, NotifyInnerStep
<1> QED BY <1>5, <1>6

(* The filter after a notification. *)
LEMMA FilterNotified ==
    ASSUME IInv, NEW l \in DOMAIN world, NotifyFact(l), setup.ee, l \in Int \ {0}
    PROVE  /\ Polarities(polarity', eeTrail', Append(Trail, l)) /\ PendingIs(pending', Append(Trail, l))
           /\ Longer(eeTrail', eeTrail) /\ \A r \in DOMAIN polarity : polarity'[r] = polarity[r]
           /\ UNCHANGED <<eeLevels, pendingLevels>>
<1> DEFINE t == Trail
           rep == RepOf(Abs(l))
           known == rep \in DOMAIN polarity
           clash == known /\ polarity[rep][1] # (l > 0)
<1>1. NotifyFilter(l)
    BY DEF NotifyFact
<1>2. Polarities(polarity, eeTrail, t) /\ PendingIs(pending, t) /\ t \in Seq(Int)
    BY DEF IInv, FilterKept, Shape, Once
<1>3. /\ polarity' = Extended(polarity, rep, <<l > 0, Abs(l)>>)
      /\ eeTrail' = IF known THEN eeTrail ELSE Append(eeTrail, rep)
      /\ pending' = IF clash /\ polarity[rep][2] # Abs(l)
                    THEN <<Abs(l), polarity[rep][2]>> ELSE pending
      /\ UNCHANGED <<eeLevels, pendingLevels>>
    BY <1>1 DEF NotifyFilter
<1>4. Polarities(polarity', eeTrail', Append(t, l))
    BY <1>2, <1>3, PolaritiesStep
<1>5. PendingIs(pending', Append(t, l))
  <2>1. PendingIs(pending, Append(t, l))
    BY <1>2, PendingKept
  <2>2. clash => PendingIs(<<Abs(l), polarity[rep][2]>>, Append(t, l))
    BY <1>2, ClashIsPending
  <2> HIDE DEF clash, rep
  <2> QED BY <1>3, <2>1, <2>2
<1>6. Longer(eeTrail', eeTrail)
  <2>1. IsSeq(eeTrail)
    BY <1>2 DEF Polarities, IsSeq
  <2> QED BY <1>3, <2>1, LongerSame, LongerAppend
<1>7. \A r \in DOMAIN polarity : polarity'[r] = polarity[r]
    BY <1>3 DEF Extended
<1> QED BY <1>3, <1>4, <1>5, <1>6, <1>7

(* A notification keeps the invariant. *)
LEMMA NotifyRight ==
    ASSUME IInv, NEW l \in DOMAIN world, NotifyFact(l)
    PROVE  IInv'
<1> DEFINE t == Trail
           u == Append(t, l)
<1>1. /\ InnerOk(facts', degraded', inc', gens', u)
      /\ \A s \in Tables : Longer(facts'[s], facts[s])
      /\ Longer(gens', gens) /\ UNCHANGED <<levels, gbLevels>>
    BY InnerNotified
<1>2. /\ Shape' /\ Trail' = u /\ l \in Int \ {0}
      /\ \A k \in DOMAIN levels : (Upto(k))' = Upto(k)
    BY <1>1, TrailNotified DEF IInv
<1>3. UNCHANGED setup /\ setup \in SetUps
    BY DEF NotifyFact, IInv, Shape
<1>4. InnerKept'
  <2>1. (InnerOk(facts, degraded, inc, gens, Trail))'
    BY <1>1, <1>2, <1>3, SameInner
  <2>2. ASSUME NEW k \in DOMAIN levels PROVE (Saved(facts, gens, levels[k], gbLevels[k], Upto(k)))'
    <3>1. Saved(facts, gens, levels[k], gbLevels[k], Upto(k)) /\ AreSeqs(facts, gens)
        BY KeptSeqs DEF IInv, InnerKept
    <3>2. Saved(facts', gens', levels[k], gbLevels[k], Upto(k))
        BY <1>1, <3>1, SavedLonger
    <3>3. (Saved(facts, gens, levels[k], gbLevels[k], Upto(k)))'
              <=> Saved(facts', gens', levels[k], gbLevels[k], Upto(k))
        BY <1>1, <1>2, <1>3, SameSaved
    <3> QED BY <3>2, <3>3
  <2>3. ASSUME NEW k \in DOMAIN levels, NEW j \in 1 .. k
        PROVE  (Ordered(levels[j], gbLevels[j], levels[k], gbLevels[k]))'
    <3>1. Ordered(levels[j], gbLevels[j], levels[k], gbLevels[k])
        BY DEF IInv, InnerKept
    <3> QED BY <1>1, <1>3, <3>1, SameKeys DEF Ordered
  <2> QED BY <1>1, <2>1, <2>2, <2>3 DEF InnerKept
<1>5. FilterKept'
  <2>1. CASE ~setup.ee
    <3>1. pending' = pending
        BY <2>1 DEF NotifyFact, filter
    <3> QED BY <1>3, <2>1, <3>1 DEF IInv, FilterKept
  <2>2. CASE setup.ee
    <3>1. /\ Polarities(polarity', eeTrail', u) /\ PendingIs(pending', u)
          /\ Longer(eeTrail', eeTrail) /\ \A r \in DOMAIN polarity : polarity'[r] = polarity[r]
          /\ UNCHANGED <<eeLevels, pendingLevels>>
        BY <1>2, <2>2, FilterNotified
    <3>2. /\ Polarities(polarity, eeTrail, Trail)
          /\ IsSeq(eeLevels) /\ IsSeq(pendingLevels)
          /\ Len(eeLevels) = Len(levels) /\ Len(pendingLevels) = Len(levels)
          /\ \A k \in DOMAIN levels :
                SavedFilter(polarity, eeTrail, eeLevels[k], pendingLevels[k], Upto(k))
          /\ \A k \in DOMAIN levels : \A j \in 1 .. k : eeLevels[j] <= eeLevels[k]
        BY <2>2 DEF IInv, FilterKept
    <3>3. (Polarities(polarity, eeTrail, Trail))' /\ (PendingIs(pending, Trail))'
        BY <1>2, <1>3, <3>1, SameFilter
    <3>4. ASSUME NEW k \in DOMAIN levels
          PROVE  (SavedFilter(polarity, eeTrail, eeLevels[k], pendingLevels[k], Upto(k)))'
        <4>1. IsSeq(eeTrail) /\ DOMAIN polarity = Range(eeTrail)
            BY <3>2 DEF Polarities, IsSeq
        <4>2. SavedFilter(polarity, eeTrail, eeLevels[k], pendingLevels[k], Upto(k))
            BY <3>2
        <4>3. SavedFilter(polarity', eeTrail', eeLevels[k], pendingLevels[k], Upto(k))
            BY <3>1, <4>1, <4>2, FilterLonger
        <4> QED BY <1>1, <1>2, <1>3, <3>1, <4>3, SameSavedFilter
    <3>5. (IsSeq(eeLevels))' /\ (IsSeq(pendingLevels))'
        BY <3>1, <3>2 DEF IsSeq
    <3> QED BY <1>1, <1>3, <2>2, <3>1, <3>2, <3>3, <3>4, <3>5 DEF FilterKept
  <2> QED BY <2>1, <2>2
<1> QED BY <1>2, <1>4, <1>5 DEF IInv

(* A level more. *)
LEMMA TrailPushed ==
    ASSUME Shape, Push
    PROVE  /\ Shape' /\ Trail' = Trail
           /\ \A k \in DOMAIN levels : (Upto(k))' = Upto(k)
           /\ \A k : k = Len(asserted) => (Upto(k))' = Trail
<1> DEFINE n == Len(asserted)
<1>1. /\ asserted \in Seq(Seq(Int)) /\ asserted # <<>> /\ Once(Trail)
      /\ n = Len(levels) + 1 /\ Len(gbLevels) = Len(levels) /\ IsSeq(levels) /\ IsSeq(gbLevels)
      /\ setup \in SetUps /\ world = WorldOf(setup)
      /\ \A i \in DOMAIN Trail : Trail[i] \in DOMAIN world
    BY DEF Shape
<1>2. /\ asserted' = Append(asserted, <<>>) /\ UNCHANGED <<setup, world>>
      /\ gbLevels' = Append(gbLevels, Len(gens))
      /\ levels' = Append(levels, [facts |-> [s \in Tables |-> Len(facts[s])],
                                   degraded |-> degraded, inc |-> inc])
    BY DEF Push
<1>3. IsSeq(asserted) /\ <<>> \in Seq(Int)
    BY <1>1, SeqOverRange
<1>4. /\ asserted' \in Seq(Seq(Int)) /\ Len(asserted') = n + 1 /\ n \in Nat
    BY <1>1, <1>2, <1>3, AppendParts
<1>5. Trail' = Trail
  <2>1. FlattenSeq(Append(asserted, <<>>)) = FlattenSeq(asserted) \o <<>>
    BY <1>1, <1>3, FlattenAppend
  <2>2. FlattenSeq(asserted) \in Seq(Int)
    BY <1>1, FlattenIsSeq
  <2>3. \A x \in Seq(Int) : x \o <<>> = x
    OBVIOUS
  <2> QED BY <1>2, <2>1, <2>2, <2>3 DEF Trail
<1>6. \A k \in 0 .. n : Prefix(asserted', k) = Prefix(asserted, k)
    BY <1>2, <1>3, PrefixAppend
<1>7. \A k \in DOMAIN levels : (Upto(k))' = Upto(k)
  <2>1. \A k \in DOMAIN levels : k \in 0 .. n
    BY <1>1 DEF IsSeq
  <2> QED BY <1>6, <2>1 DEF Upto
<1>8. FlattenSeq(Prefix(asserted', n)) = Trail
  <2>1. n \in 0 .. n /\ Prefix(asserted, n) = asserted
    BY <1>3, <1>4, PrefixWhole
  <2> QED BY <1>6, <2>1 DEF Trail
<1>9. Shape'
  <2>1. (WorldOf(setup))' = WorldOf(setup')
    BY DEF WorldOf, WorldOn, PointsOf, Holding, Registered, ZerosOf
  <2>2. IsSeq(levels') /\ Len(levels') = Len(levels) + 1
    BY <1>1, <1>2, Grown
  <2>3. IsSeq(gbLevels') /\ Len(gbLevels') = Len(gbLevels) + 1
    BY <1>1, <1>2, Grown
  <2>4. asserted' # <<>>
    <3> HIDE DEF n
    <3>1. Len(asserted') # 0
        BY <1>4
    <3> QED BY <3>1
  <2>5. (Once(Trail))'
    BY <1>1, <1>5 DEF Once
  <2>6. (IsSeq(levels))' /\ (IsSeq(gbLevels))'
    BY <2>2, <2>3 DEF IsSeq
  <2> QED BY <1>1, <1>2, <1>4, <1>5, <2>1, <2>2, <2>3, <2>4, <2>5, <2>6 DEF Shape
<1>10. \A k : k = n => (Upto(k))' = Trail
    BY <1>8 DEF Upto
<1> QED BY <1>5, <1>7, <1>9, <1>10

(* So does a push. *)
LEMMA PushRight ==
    ASSUME IInv, Push
    PROVE  IInv'
<1> DEFINE m == Len(levels)
           new == [facts |-> [s \in Tables |-> Len(facts[s])], degraded |-> degraded, inc |-> inc]
           u == Trail
<1>1. /\ Shape' /\ Trail' = u /\ \A k \in DOMAIN levels : (Upto(k))' = Upto(k)
      /\ \A k : k = Len(asserted) => (Upto(k))' = u
    BY TrailPushed DEF IInv
<1>2. /\ UNCHANGED <<setup, facts, degraded, inc, gens, polarity, eeTrail, pending>>
      /\ levels' = Append(levels, new) /\ gbLevels' = Append(gbLevels, Len(gens))
      /\ eeLevels' = IF setup.ee THEN Append(eeLevels, Len(eeTrail)) ELSE eeLevels
      /\ pendingLevels' = IF setup.ee THEN Append(pendingLevels, pending) ELSE pendingLevels
    BY DEF Push
<1>3. /\ setup \in SetUps /\ IsSeq(levels) /\ IsSeq(gbLevels)
      /\ Len(asserted) = m + 1 /\ Len(gbLevels) = m
    BY DEF IInv, Shape
<1>4. /\ m \in Nat /\ DOMAIN levels = 1 .. m /\ DOMAIN levels' = 1 .. (m + 1)
      /\ levels'[m + 1] = new /\ \A k \in 1 .. m : levels'[k] = levels[k]
    BY <1>2, <1>3, Grown
<1>5. gbLevels'[m + 1] = Len(gens) /\ \A k \in 1 .. m : gbLevels'[k] = gbLevels[k]
    BY <1>2, <1>3, Grown
<1> HIDE DEF m
<1>6. \A k \in 1 .. (m + 1) : k \in 1 .. m \/ k = m + 1
    BY <1>4
<1>7. InnerKept'
  <2>1. InnerOk(facts, degraded, inc, gens, Trail) /\ AreSeqs(facts, gens)
    BY KeptSeqs DEF IInv, InnerKept
  <2>2. (InnerOk(facts, degraded, inc, gens, Trail))'
    BY <1>1, <1>2, <1>3, <2>1, SameInner
  <2>3. ASSUME NEW k \in 1 .. (m + 1) PROVE (Saved(facts, gens, levels[k], gbLevels[k], Upto(k)))'
    <3>1. CASE k \in 1 .. m
      <4>1. Saved(facts, gens, levels[k], gbLevels[k], Upto(k))
        BY <1>4, <3>1 DEF IInv, InnerKept
      <4> QED BY <1>1, <1>2, <1>3, <1>4, <1>5, <3>1, <4>1, SameSaved
    <3>2. CASE k = m + 1
      <4>1. Saved(facts, gens, new, Len(gens), Trail)
        BY <2>1, SavedNow
      <4>2. (Upto(k))' = u
        BY <1>1, <1>3, <3>2
      <4> HIDE DEF new
      <4> QED BY <1>2, <1>3, <1>4, <1>5, <3>2, <4>1, <4>2, SameSaved
    <3> QED BY <1>6, <3>1, <3>2
  <2>4. ASSUME NEW k \in 1 .. (m + 1), NEW j \in 1 .. k
        PROVE  Ordered(levels'[j], gbLevels'[j], levels'[k], gbLevels'[k])
    <3>1. CASE k \in 1 .. m
      <4>1. j \in 1 .. m
        BY <1>4, <3>1
      <4>2. Ordered(levels[j], gbLevels[j], levels[k], gbLevels[k])
        BY <1>4, <3>1 DEF IInv, InnerKept
      <4> QED BY <1>4, <1>5, <3>1, <4>1, <4>2
    <3>2. CASE k = m + 1 /\ j \in 1 .. m
      <4>1. Saved(facts, gens, levels[j], gbLevels[j], Upto(j))
        BY <1>4, <3>2 DEF IInv, InnerKept
      <4>2. /\ \A s \in Tables : levels[j].facts[s] \in 0 .. Len(facts[s])
            /\ gbLevels[j] \in 0 .. Len(gens)
        BY <4>1 DEF Saved
      <4>3. \A s \in Tables : new.facts[s] = Len(facts[s])
        OBVIOUS
      <4> HIDE DEF new
      <4>4. \A s \in Tables : levels[j].facts[s] <= new.facts[s]
        BY <2>1, <4>2, <4>3 DEF AreSeqs, IsSeq
      <4> QED BY <1>4, <1>5, <3>2, <4>2, <4>4 DEF Ordered
    <3>3. CASE k = m + 1 /\ j = m + 1
      <4>1. \A s \in Tables : new.facts[s] = Len(facts[s]) /\ Len(facts[s]) \in Nat /\ Len(gens) \in Nat
        BY <2>1 DEF AreSeqs, IsSeq
      <4> HIDE DEF new
      <4>2. Ordered(new, Len(gens), new, Len(gens))
        <5>1. Len(gens) \in Nat
            BY <2>1 DEF AreSeqs, IsSeq
        <5> QED BY <4>1, <5>1 DEF Ordered
      <4> QED BY <1>4, <1>5, <3>3, <4>2
    <3> QED BY <1>4, <1>6, <3>1, <3>2, <3>3
  <2>5. \A k \in 1 .. (m + 1) : \A j \in 1 .. k : (Ordered(levels[j], gbLevels[j], levels[k], gbLevels[k]))'
    BY <1>2, <2>4, SameKeys DEF Ordered
  <2> QED BY <1>4, <2>2, <2>3, <2>5 DEF InnerKept
<1>8. FilterKept'
  <2>1. CASE ~setup.ee
    BY <1>2, <2>1 DEF IInv, FilterKept
  <2>2. CASE setup.ee
    <3>1. /\ Polarities(polarity, eeTrail, Trail) /\ PendingIs(pending, Trail)
          /\ IsSeq(eeLevels) /\ IsSeq(pendingLevels)
          /\ Len(eeLevels) = m /\ Len(pendingLevels) = m
          /\ \A k \in 1 .. m : SavedFilter(polarity, eeTrail, eeLevels[k], pendingLevels[k], Upto(k))
          /\ \A k \in 1 .. m : \A j \in 1 .. k : eeLevels[j] <= eeLevels[k]
        BY <1>4, <2>2 DEF IInv, FilterKept, m
    <3>2. eeLevels' = Append(eeLevels, Len(eeTrail)) /\ pendingLevels' = Append(pendingLevels, pending)
        BY <1>2, <2>2
    <3>3. /\ IsSeq(eeLevels') /\ Len(eeLevels') = m + 1 /\ eeLevels'[m + 1] = Len(eeTrail)
          /\ \A k \in 1 .. m : eeLevels'[k] = eeLevels[k]
        BY <3>1, <3>2, Grown
    <3>4. /\ IsSeq(pendingLevels') /\ Len(pendingLevels') = m + 1 /\ pendingLevels'[m + 1] = pending
          /\ \A k \in 1 .. m : pendingLevels'[k] = pendingLevels[k]
        BY <3>1, <3>2, Grown
    <3>5. (Polarities(polarity, eeTrail, Trail))' /\ (PendingIs(pending, Trail))'
        BY <1>1, <1>2, <3>1, SameFilter
    <3>6. ASSUME NEW k \in 1 .. (m + 1)
          PROVE  (SavedFilter(polarity, eeTrail, eeLevels[k], pendingLevels[k], Upto(k)))'
      <4>1. CASE k \in 1 .. m
        BY <1>1, <1>2, <1>4, <3>1, <3>3, <3>4, <4>1, SameSavedFilter
      <4>2. CASE k = m + 1
        <5>1. SavedFilter(polarity, eeTrail, Len(eeTrail), pending, u)
            BY <3>1, FilterNow
        <5>2. (Upto(k))' = u
            BY <1>1, <1>3, <4>2
        <5> QED BY <1>2, <3>3, <3>4, <4>2, <5>1, <5>2, SameSavedFilter
      <4> QED BY <1>6, <4>1, <4>2
    <3>7. ASSUME NEW k \in 1 .. (m + 1), NEW j \in 1 .. k PROVE eeLevels'[j] <= eeLevels'[k]
      <4>1. CASE k \in 1 .. m
        <5>1. j \in 1 .. m
            BY <1>4, <4>1
        <5> QED BY <3>1, <3>3, <4>1, <5>1
      <4>2. CASE k = m + 1 /\ j \in 1 .. m
        <5>1. eeLevels[j] \in 0 .. Len(eeTrail)
            BY <3>1, <4>2 DEF SavedFilter
        <5>2. Len(eeTrail) \in Nat
            BY <3>1 DEF Polarities
        <5> QED BY <3>3, <4>2, <5>1, <5>2
      <4>3. CASE k = m + 1 /\ j = m + 1
        <5>2. Len(eeTrail) \in Nat
            BY <3>1 DEF Polarities
        <5> QED BY <3>3, <4>3, <5>2
      <4> QED BY <1>4, <1>6, <4>1, <4>2, <4>3
    <3>8. (IsSeq(eeLevels))' /\ (IsSeq(pendingLevels))'
        BY <3>3, <3>4 DEF IsSeq
    <3>9. Len(levels') = m + 1
        BY <1>2, <1>3, Grown DEF m
    <3>10. setup'.ee = TRUE
        BY <1>2, <1>3, <2>2, Kinds
    <3> QED BY <1>4, <3>3, <3>4, <3>5, <3>6, <3>7, <3>8, <3>9, <3>10 DEF FilterKept
  <2> QED BY <2>1, <2>2
<1> QED BY <1>1, <1>7, <1>8 DEF IInv

(* A level less. *)
LEMMA TrailPopped ==
    ASSUME Shape, Pop
    PROVE  /\ Shape' /\ Len(levels) \in Nat \ {0}
           /\ levels' = Prefix(levels, Len(levels) - 1)
           /\ gbLevels' = Prefix(gbLevels, Len(levels) - 1)
           /\ Trail' = Upto(Len(levels))
           /\ \A k \in 1 .. (Len(levels) - 1) : (Upto(k))' = Upto(k)
<1> DEFINE m == Len(levels)
           front == Prefix(asserted, m)
           last == asserted[m + 1]
<1>1. /\ asserted \in Seq(Seq(Int)) /\ asserted # <<>> /\ Once(Trail)
      /\ Len(asserted) = m + 1 /\ Len(gbLevels) = m /\ IsSeq(levels) /\ IsSeq(gbLevels)
      /\ setup \in SetUps /\ world = WorldOf(setup)
      /\ \A i \in DOMAIN Trail : Trail[i] \in DOMAIN world
    BY DEF Shape
<1>2. /\ asserted' = Front(asserted) /\ UNCHANGED <<setup, world>> /\ levels # <<>>
      /\ gbLevels' = Front(gbLevels) /\ levels' = Front(levels)
    BY DEF Pop, PopInner
<1>3. IsSeq(asserted)
    BY <1>1, SeqOverRange
<1>4. m \in Nat \ {0} /\ m - 1 \in 0 .. m /\ levels' = Prefix(levels, m - 1)
    BY <1>1, <1>2, FrontLast
<1>5. gbLevels # <<>>
  <2>1. Len(gbLevels) # 0
    BY <1>1, <1>4
  <2> QED BY <2>1
<1>6. gbLevels' = Prefix(gbLevels, m - 1)
    BY <1>1, <1>2, <1>5, FrontLast
<1> HIDE DEF m
<1>7. m \in 0 .. Len(asserted) /\ Len(asserted) - 1 = m
    BY <1>1, <1>4
<1>8. asserted' = front
    BY <1>1, <1>2, <1>3, <1>7, FrontLast
<1>9. front \in Seq(Seq(Int)) /\ last \in Seq(Int) /\ asserted = Append(front, last)
    BY <1>1, <1>7, LastSplit DEF Prefix
<1>10. IsSeq(front) /\ Len(front) = m
    BY <1>3, <1>7, PrefixSeq
<1> HIDE DEF front, last
<1>11. Trail' = FlattenSeq(front)
    BY <1>8 DEF Trail
<1>12. Trail = FlattenSeq(front) \o last /\ FlattenSeq(front) \in Seq(Int)
  <2>1. FlattenSeq(Append(front, last)) = FlattenSeq(front) \o last
    BY <1>9, FlattenAppend
  <2>2. FlattenSeq(front) \in Seq(Int)
    BY <1>9, FlattenIsSeq
  <2> QED BY <1>9, <2>1, <2>2 DEF Trail
<1>13. \A i \in DOMAIN Trail' : i \in DOMAIN Trail /\ Trail'[i] = Trail[i]
  <2> DEFINE u == FlattenSeq(front)
  <2> HIDE DEF u
  <2>1. u \in Seq(Int) /\ Trail' = u /\ Trail = u \o last
    BY <1>11, <1>12 DEF u
  <2>2. \A i \in DOMAIN u : i \in DOMAIN (u \o last) /\ (u \o last)[i] = u[i]
    BY <1>9, <2>1
  <2> QED BY <2>1, <2>2
<1>14. Once(Trail') /\ \A i \in DOMAIN Trail' : Trail'[i] \in DOMAIN world
  <2>1. Trail' \in Seq(Int)
    BY <1>11, <1>12
  <2>2. \A i, j \in DOMAIN Trail : Abs(Trail[i]) = Abs(Trail[j]) => i = j
    BY <1>1 DEF Once
  <2>3. \A i, j \in DOMAIN Trail' : Abs(Trail'[i]) = Abs(Trail'[j]) => i = j
    BY <1>13, <2>2
  <2> QED BY <1>1, <1>13, <2>1, <2>3 DEF Once
<1>15. Shape'
  <2>1. (WorldOf(setup))' = WorldOf(setup')
    BY DEF WorldOf, WorldOn, PointsOf, Holding, Registered, ZerosOf
  <2>2. m - 1 \in 0 .. Len(levels) /\ m - 1 \in 0 .. Len(gbLevels)
    BY <1>1, <1>4 DEF m
  <2>3. IsSeq(levels') /\ Len(levels') = m - 1
    BY <1>1, <1>4, <2>2, PrefixSeq
  <2>4. IsSeq(gbLevels') /\ Len(gbLevels') = m - 1
    BY <1>1, <1>6, <2>2, PrefixSeq
  <2>5. asserted' # <<>>
    <3>1. Len(asserted') # 0
        BY <1>4, <1>8, <1>10
    <3> QED BY <3>1
  <2>6. (Once(Trail))'
    BY <1>14 DEF Once
  <2>7. (IsSeq(levels))' /\ (IsSeq(gbLevels))'
    BY <2>3, <2>4 DEF IsSeq
  <2>8. Len(asserted') = Len(levels') + 1 /\ Len(gbLevels') = Len(levels')
    BY <1>4, <1>8, <1>10, <2>3, <2>4
  <2>9. asserted' \in Seq(Seq(Int)) /\ setup' \in SetUps /\ world' = WorldOf(setup')
    BY <1>1, <1>2, <1>8, <1>9
  <2> QED BY <1>2, <1>14, <2>1, <2>5, <2>6, <2>7, <2>8, <2>9 DEF Shape
<1>16. ASSUME NEW k \in 1 .. (m - 1) PROVE (Upto(k))' = Upto(k)
  <2>1. k \in 0 .. m
    BY <1>4
  <2>2. Prefix(front, k) = Prefix(asserted, k)
    BY <1>3, <1>7, <2>1, PrefixPrefix DEF front
  <2> QED BY <1>8, <2>2 DEF Upto
<1>17. Upto(m) = FlattenSeq(front)
    BY DEF Upto, front
<1> QED BY <1>4, <1>6, <1>11, <1>15, <1>16, <1>17 DEF m

(* What a pop takes back. *)
LEMMA PopState ==
    ASSUME Pop, IsSeq(levels), IsSeq(gbLevels), Len(gbLevels) = Len(levels)
    PROVE  LET lv == levels[Len(levels)]
           IN  /\ facts' = CutOf(facts, lv) /\ degraded' = lv.degraded /\ inc' = lv.inc
               /\ gens' = Prefix(gens, gbLevels[Len(levels)])
<1>1. /\ levels # <<>>
      /\ facts' = [s \in Tables |-> SubSeq(facts[s], 1, Last(levels).facts[s])]
      /\ degraded' = Last(levels).degraded /\ inc' = Last(levels).inc
      /\ gens' = SubSeq(gens, 1, Last(gbLevels))
    BY DEF Pop, PopInner
<1>2. Last(levels) = levels[Len(levels)] /\ Len(levels) \in Nat \ {0}
    BY <1>1, FrontLast
<1>3. gbLevels # <<>>
  <2>1. Len(gbLevels) # 0
    BY <1>2
  <2> QED BY <2>1
<1>4. Last(gbLevels) = gbLevels[Len(levels)]
    BY <1>3, FrontLast
<1> QED BY <1>1, <1>2, <1>4 DEF CutOf, Prefix

(* A pop leaves the inner theory right for the trail of the level before. *)
LEMMA PopInnerRight ==
    ASSUME IInv, Pop
    PROVE  InnerKept'
<1> DEFINE m == Len(levels)
           lw == levels[m]
           b == gbLevels[m]
<1>1. /\ Shape' /\ m \in Nat \ {0} /\ Trail' = Upto(m)
      /\ levels' = Prefix(levels, m - 1) /\ gbLevels' = Prefix(gbLevels, m - 1)
      /\ \A k \in 1 .. (m - 1) : (Upto(k))' = Upto(k)
    BY TrailPopped DEF IInv
<1>2. /\ setup \in SetUps /\ IsSeq(levels) /\ IsSeq(gbLevels) /\ Len(gbLevels) = m
    BY DEF IInv, Shape
<1>3. UNCHANGED setup
    BY DEF Pop
<1>4. /\ facts' = CutOf(facts, lw) /\ degraded' = lw.degraded /\ inc' = lw.inc
      /\ gens' = Prefix(gens, b)
    BY <1>2, PopState
<1>5. DOMAIN levels = 1 .. m /\ m \in 1 .. m
    BY <1>1, <1>2 DEF IsSeq
<1>6. /\ DOMAIN levels' = 1 .. (m - 1) /\ \A k \in 1 .. (m - 1) : levels'[k] = levels[k]
      /\ \A k \in 1 .. (m - 1) : gbLevels'[k] = gbLevels[k]
  <2>1. m - 1 \in 0 .. Len(levels) /\ m - 1 \in 0 .. Len(gbLevels)
    BY <1>1, <1>2
  <2> HIDE DEF m
  <2> QED BY <1>1, <1>2, <2>1, PrefixSeq
<1>7. /\ AreSeqs(facts, gens)
      /\ \A k \in 1 .. m : Saved(facts, gens, levels[k], gbLevels[k], Upto(k))
      /\ \A k \in 1 .. m : \A j \in 1 .. k : Ordered(levels[j], gbLevels[j], levels[k], gbLevels[k])
    BY <1>5, KeptSeqs DEF IInv, InnerKept
<1>8. Saved(facts, gens, lw, b, Upto(m))
    BY <1>5, <1>7
<1>9. /\ b \in 0 .. Len(gens) /\ \A s \in Tables : lw.facts[s] \in 0 .. Len(facts[s])
      /\ InnerOk(CutOf(facts, lw), lw.degraded, lw.inc, Prefix(gens, b), Upto(m))
    BY <1>8 DEF Saved
<1>10. (InnerOk(facts, degraded, inc, gens, Trail))'
  <2>1. InnerOk(facts', degraded', inc', gens', Trail')
    BY <1>1, <1>4, <1>9
  <2> QED BY <1>2, <1>3, <2>1, SameInner
<1> HIDE DEF m
<1>11. ASSUME NEW k \in 1 .. (m - 1) PROVE k \in 1 .. m /\ \A j \in 1 .. k : j \in 1 .. (m - 1)
    BY <1>1
<1>12. ASSUME NEW k \in 1 .. (m - 1)
       PROVE  (Saved(facts, gens, levels[k], gbLevels[k], Upto(k)))'
  <2>1. k \in 1 .. m
    BY <1>11
  <2>2. Saved(facts, gens, levels[k], gbLevels[k], Upto(k)) /\ Ordered(levels[k], gbLevels[k], lw, b)
    BY <1>5, <1>7, <2>1
  <2>3. Saved(CutOf(facts, lw), Prefix(gens, b), levels[k], gbLevels[k], Upto(k))
    BY <1>7, <1>9, <2>2, SavedCut
  <2>4. Saved(facts', gens', levels'[k], gbLevels'[k], (Upto(k))')
    BY <1>1, <1>4, <1>6, <2>3
  <2> QED BY <1>2, <1>3, <2>4, SameSaved
<1>13. ASSUME NEW k \in 1 .. (m - 1), NEW j \in 1 .. k
       PROVE  (Ordered(levels[j], gbLevels[j], levels[k], gbLevels[k]))'
  <2>1. Ordered(levels[j], gbLevels[j], levels[k], gbLevels[k])
    BY <1>7, <1>11
  <2>2. j \in 1 .. (m - 1)
    BY <1>11
  <2> QED BY <1>3, <1>6, <2>1, <2>2, SameKeys DEF Ordered
<1> QED BY <1>6, <1>10, <1>12, <1>13 DEF InnerKept

(* And the filter. *)
LEMMA PopFilterRight ==
    ASSUME IInv, Pop
    PROVE  FilterKept'
<1> DEFINE m == Len(levels)
           b == eeLevels[m]
<1>1. /\ m \in Nat \ {0} /\ Trail' = Upto(m) /\ levels' = Prefix(levels, m - 1)
      /\ \A k \in 1 .. (m - 1) : (Upto(k))' = Upto(k)
    BY TrailPopped DEF IInv
<1>2. setup \in SetUps /\ IsSeq(levels)
    BY DEF IInv, Shape
<1>3. UNCHANGED setup
    BY DEF Pop
<1>4. CASE ~setup.ee
  <2>1. pending' = pending
    BY <1>4 DEF Pop, filter
  <2> QED BY <1>3, <1>4, <2>1 DEF IInv, FilterKept
<1>5. CASE setup.ee
  <2>1. DOMAIN levels = 1 .. m /\ m \in 1 .. m
    BY <1>1, <1>2 DEF IsSeq
  <2>2. /\ Polarities(polarity, eeTrail, Trail) /\ IsSeq(eeLevels) /\ IsSeq(pendingLevels)
        /\ Len(eeLevels) = m /\ Len(pendingLevels) = m
        /\ \A k \in 1 .. m : SavedFilter(polarity, eeTrail, eeLevels[k], pendingLevels[k], Upto(k))
        /\ \A k \in 1 .. m : \A j \in 1 .. k : eeLevels[j] <= eeLevels[k]
    BY <1>5, <2>1 DEF IInv, FilterKept
  <2>3. PopFilter
    BY <1>5 DEF Pop
  <2> HIDE DEF m
  <2>4. /\ eeLevels # <<>> /\ pendingLevels # <<>>
    <3>1. Len(eeLevels) # 0 /\ Len(pendingLevels) # 0
        BY <1>1, <2>2
    <3> QED BY <3>1
  <2>5. /\ Front(eeLevels) = Prefix(eeLevels, m - 1) /\ Last(eeLevels) = b
        /\ Front(pendingLevels) = Prefix(pendingLevels, m - 1) /\ Last(pendingLevels) = pendingLevels[m]
    BY <2>2, <2>4, FrontLast
  <2>6. /\ eeTrail' = Prefix(eeTrail, b) /\ polarity' = PolaritiesOf(polarity, Prefix(eeTrail, b))
        /\ eeLevels' = Prefix(eeLevels, m - 1) /\ pendingLevels' = Prefix(pendingLevels, m - 1)
        /\ pending' = pendingLevels[m]
    BY <2>3, <2>5 DEF PopFilter, PolaritiesOf, Prefix
  <2>7. /\ b \in 0 .. Len(eeTrail) /\ PendingIs(pendingLevels[m], Upto(m))
        /\ Polarities(PolaritiesOf(polarity, Prefix(eeTrail, b)), Prefix(eeTrail, b), Upto(m))
    BY <2>1, <2>2 DEF SavedFilter
  <2>8. (Polarities(polarity, eeTrail, Trail))' /\ (PendingIs(pending, Trail))'
    <3>1. Polarities(polarity', eeTrail', Trail') /\ PendingIs(pending', Trail')
        BY <1>1, <2>6, <2>7
    <3> QED BY <1>3, <3>1, SameFilter
  <2>9. m - 1 \in 0 .. Len(eeLevels) /\ m - 1 \in 0 .. Len(pendingLevels) /\ m - 1 \in 0 .. Len(levels)
    BY <1>1, <2>2 DEF m
  <2>10. /\ IsSeq(eeLevels') /\ Len(eeLevels') = m - 1
         /\ IsSeq(pendingLevels') /\ Len(pendingLevels') = m - 1
         /\ \A k \in 1 .. (m - 1) : eeLevels'[k] = eeLevels[k]
         /\ \A k \in 1 .. (m - 1) : pendingLevels'[k] = pendingLevels[k]
    BY <2>2, <2>6, <2>9, PrefixSeq
  <2>11. Len(levels') = m - 1 /\ DOMAIN levels' = 1 .. (m - 1)
    BY <1>1, <1>2, <2>9, PrefixSeq
  <2>12. ASSUME NEW k \in 1 .. (m - 1) PROVE k \in 1 .. m /\ \A j \in 1 .. k : j \in 1 .. (m - 1)
    BY <1>1
  <2>13. ASSUME NEW k \in 1 .. (m - 1)
         PROVE  (SavedFilter(polarity, eeTrail, eeLevels[k], pendingLevels[k], Upto(k)))'
    <3>1. IsSeq(eeTrail)
        BY <2>2 DEF Polarities, IsSeq
    <3>2. k \in 1 .. m
        BY <2>12
    <3>3. eeLevels[k] <= b /\ SavedFilter(polarity, eeTrail, eeLevels[k], pendingLevels[k], Upto(k))
        BY <2>1, <2>2, <3>2
    <3> HIDE DEF b
    <3>4. SavedFilter(PolaritiesOf(polarity, Prefix(eeTrail, b)), Prefix(eeTrail, b),
                      eeLevels[k], pendingLevels[k], Upto(k))
        BY <2>7, <3>1, <3>3, FilterCut
    <3>5. SavedFilter(polarity', eeTrail', eeLevels'[k], pendingLevels'[k], (Upto(k))')
        BY <1>1, <2>6, <2>10, <3>4
    <3> QED BY <1>3, <3>5, SameSavedFilter
  <2>14. ASSUME NEW k \in 1 .. (m - 1), NEW j \in 1 .. k PROVE eeLevels'[j] <= eeLevels'[k]
    <3>1. k \in 1 .. m /\ j \in 1 .. (m - 1)
        BY <2>12
    <3> QED BY <2>2, <2>10, <3>1
  <2>15. (IsSeq(eeLevels))' /\ (IsSeq(pendingLevels))'
    BY <2>10 DEF IsSeq
  <2>16. setup'.ee = TRUE
    BY <1>2, <1>3, <1>5, Kinds
  <2> QED BY <2>8, <2>10, <2>11, <2>13, <2>14, <2>15, <2>16 DEF FilterKept
<1> QED BY <1>4, <1>5

(* A pop keeps the invariant. *)
LEMMA PopRight ==
    ASSUME IInv, Pop
    PROVE  IInv'
<1>1. Shape'
    BY TrailPopped DEF IInv
<1> QED BY <1>1, PopInnerRight, PopFilterRight DEF IInv

(* A check or a derivation takes nothing back but a contradiction. *)
LEMMA AskingRight ==
    ASSUME IInv, UNCHANGED <<setup, world, asserted, inner, polarity, eeTrail, eeLevels, pendingLevels>>,
           pending' \in {pending, None}
    PROVE  IInv'
<1>1. /\ UNCHANGED <<setup, world, asserted, facts, levels, degraded, inc, gens, gbLevels>>
      /\ UNCHANGED <<polarity, eeTrail, eeLevels, pendingLevels>>
    BY DEF inner
<1>2. Trail' = Trail /\ \A k : (Upto(k))' = Upto(k)
    BY <1>1 DEF Trail, Upto
<1>3. setup \in SetUps
    BY DEF IInv, Shape
<1>4. Shape'
  <2>1. (WorldOf(setup))' = WorldOf(setup')
    BY DEF WorldOf, WorldOn, PointsOf, Holding, Registered, ZerosOf
  <2>2. (Once(Trail))'
    BY <1>2 DEF IInv, Shape, Once
  <2>3. (IsSeq(levels))' /\ (IsSeq(gbLevels))'
    BY <1>1 DEF IInv, Shape, IsSeq
  <2> QED BY <1>1, <1>2, <2>1, <2>2, <2>3 DEF IInv, Shape
<1>5. InnerKept'
  <2>1. (InnerOk(facts, degraded, inc, gens, Trail))'
    BY <1>1, <1>2, <1>3, SameInner DEF IInv, InnerKept
  <2>2. \A k \in DOMAIN levels : (Saved(facts, gens, levels[k], gbLevels[k], Upto(k)))'
    BY <1>1, <1>2, <1>3, SameSaved DEF IInv, InnerKept
  <2>3. \A k \in DOMAIN levels : \A j \in 1 .. k :
           (Ordered(levels[j], gbLevels[j], levels[k], gbLevels[k]))'
    BY <1>1, SameKeys DEF IInv, InnerKept, Ordered
  <2> QED BY <1>1, <2>1, <2>2, <2>3 DEF InnerKept
<1>6. FilterKept'
  <2>1. CASE ~setup.ee
    BY <1>1, <2>1 DEF IInv, FilterKept
  <2>2. CASE setup.ee
    <3>1. PendingIs(pending', Trail)
        BY <2>2 DEF IInv, FilterKept, PendingIs
    <3>2. (Polarities(polarity, eeTrail, Trail))' /\ (PendingIs(pending, Trail))'
        BY <1>1, <1>2, <2>2, <3>1, SameFilter DEF IInv, FilterKept
    <3>3. \A k \in DOMAIN levels :
             (SavedFilter(polarity, eeTrail, eeLevels[k], pendingLevels[k], Upto(k)))'
        BY <1>1, <1>2, <2>2, SameSavedFilter DEF IInv, FilterKept
    <3>4. (IsSeq(eeLevels))' /\ (IsSeq(pendingLevels))'
        BY <1>1, <2>2 DEF IInv, FilterKept, IsSeq
    <3> QED BY <1>1, <2>2, <3>2, <3>3, <3>4 DEF IInv, FilterKept
  <2> QED BY <2>1, <2>2
<1> QED BY <1>4, <1>5, <1>6 DEF IInv

-------------------------------------------------------------------------------
(* The theorems. *)

(* After any sequence of notifications, pushes, pops, checks and requests   *)
(* for propagations the inner theory and the filter are right for the trail *)
(* of the solver, and so is every checkpoint for the trail it was taken of. *)
THEOREM InvariantHolds == Spec => []IInv
<1>1. ASSUME IInv, [Next]_vars PROVE IInv'
  <2>1. CASE \E l \in DOMAIN world : NotifyFact(l)
    BY <1>1, <2>1, NotifyRight
  <2>2. CASE Push
    BY <1>1, <2>2, PushRight
  <2>3. CASE Pop
    BY <1>1, <2>3, PopRight
  <2>4. CASE PostCheck
    <3>1. /\ UNCHANGED <<setup, world, asserted, inner, polarity, eeTrail, eeLevels, pendingLevels>>
          /\ pending' \in {pending, None}
        BY <2>4 DEF PostCheck
    <3> QED BY <1>1, <3>1, AskingRight
  <2>5. CASE Propagate
    <3>1. UNCHANGED <<setup, world, asserted, inner, filter>>
        BY <2>5 DEF Propagate
    <3>2. UNCHANGED <<setup, world, asserted, inner, polarity, eeTrail, eeLevels, pendingLevels>>
          /\ pending' \in {pending, None}
        BY <3>1 DEF filter
    <3> QED BY <1>1, <3>2, AskingRight
  <2>6. CASE UNCHANGED vars
    <3>1. UNCHANGED <<setup, world, asserted, inner, polarity, eeTrail, eeLevels, pendingLevels>>
          /\ pending' \in {pending, None}
        BY <2>6 DEF vars, filter
    <3> QED BY <1>1, <3>1, AskingRight
  <2> QED BY <1>1, <2>1, <2>2, <2>3, <2>4, <2>5, <2>6 DEF Next
<1> QED BY <1>1, StartsRight, PTL DEF Spec

(* Whatever was notified, pushed and popped, the trail of each table is the  *)
(* asserted literals it is meant to hold, in their order.                    *)
THEOREM TrailsAreRight == Spec => []TrailsAgree
<1>1. IInv => TrailsAgree
    BY DEF IInv, InnerKept, InnerOk, IsMeant, TrailsAgree
<1> QED BY <1>1, InvariantHolds, PTL

(* The incremental basis is rolled back with the trail: its generators are   *)
(* the facts over the slots of now, each negative one with a witness of its  *)
(* own, and the field polynomials are those of the slots in use.             *)
THEOREM BasisIsRight == Spec => []BasisMatchesTrail
<1>1. ASSUME IInv, setup.kind = "incremental" PROVE BasisMatchesTrail
  <2> DEFINE a == AtomsOf(gens)
             f == facts[1]
  <2>1. Basis(inc, gens, f) /\ IsMeant(facts, Trail) /\ setup \in SetUps
    BY <1>1 DEF IInv, InnerKept, InnerOk, Shape
  <2>2. Slotted(inc) /\ FieldsRight(inc, gens) /\ AtomsRight(a, inc, f)
    BY <2>1 DEF Basis
  <2>3. AtomGens = a /\ FieldSlots = FieldSlotsOf(gens)
    BY DEF AtomGens, FieldSlots, AtomsOf, FieldSlotsOf
  <2>4. f \in Seq(Int)
    BY <2>1, Kinds DEF IsMeant, Once
  <2> HIDE DEF a, f
  <2>5. [i \in DOMAIN a |-> a[i].lit] = f
    <3>1. DOMAIN a = DOMAIN f /\ \A i \in DOMAIN a : a[i].lit = f[i]
        BY <2>2 DEF AtomsRight
    <3>2. f = [i \in DOMAIN f |-> f[i]]
        BY <2>4
    <3> QED BY <3>1, <3>2
  <2>6. ASSUME NEW i \in DOMAIN a
        PROVE  LET g == a[i]
               IN  \E d \in 0 .. inc.diseqs :
                      /\ g = Encoded(g.lit, inc.slotOf, Witness(d))
                      /\ g.lit < 0 => /\ Witness(d) \in DOMAIN inc.slotOf
                                      /\ \A j \in DOMAIN a \ {i} : a[j].w # g.w
    <3>1. EncodedIn(a[i], inc) /\ (a[i].lit < 0 => \A j \in DOMAIN a \ {i} : a[j].w # a[i].w)
        BY <2>2 DEF AtomsRight
    <3>2. PICK d \in 0 .. inc.diseqs : /\ a[i] = Encoded(a[i].lit, inc.slotOf, Witness(d))
                                       /\ a[i].lit < 0 => Witness(d) \in DOMAIN inc.slotOf
        BY <3>1 DEF EncodedIn
    <3> QED BY <3>1, <3>2
  <2>7. FieldSlots = IF Prime(1) <= FieldPolyLimit THEN 1 .. (inc.nextSlot - 1) ELSE {}
    BY <2>2, <2>3 DEF FieldsRight
  <2>8. \A n, k \in DOMAIN inc.slotOf : inc.slotOf[n] = inc.slotOf[k] => n = k
    BY <2>2 DEF Slotted
  <2>9. facts[1] = f
    BY DEF f
  <2> QED BY <2>3, <2>5, <2>6, <2>7, <2>8, <2>9 DEF BasisMatchesTrail
<1>2. IInv => BasisMatchesTrail
    BY <1>1 DEF BasisMatchesTrail
<1> QED BY <1>2, InvariantHolds, PTL

-------------------------------------------------------------------------------
(* The world: what a literal means at a point. *)

(* The literals and the points are those of the set-up. *)
LEMMA WorldIs ==
    ASSUME Shape
    PROVE  /\ setup \in SetUps /\ setup.vars \in Nat \ {0}
           /\ DOMAIN world = (-setup.vars .. setup.vars) \ {0}
           /\ Points = PointsOf(setup)
           /\ \A l \in DOMAIN world : world[l] = Holding(setup, l, Points) /\ world[l] \subseteq Points
           /\ \A l \in DOMAIN world : l \in Int \ {0} /\ -l \in DOMAIN world
<1>1. setup \in SetUps /\ world = WorldOf(setup)
    BY DEF Shape
<1>2. setup.vars \in Nat \ {0}
    BY <1>1, TheoryAssumption
<1> DEFINE n == setup.vars
           P == PointsOf(setup)
<1> HIDE DEF n
<1>3. /\ DOMAIN world = (-n .. n) \ {0}
      /\ \A l \in (-n .. n) \ {0} : world[l] = Holding(setup, l, P)
    BY <1>1 DEF WorldOf, WorldOn, n
<1>4. n \in Nat \ {0}
    BY <1>2 DEF n
<1>5. ASSUME NEW l, NEW Q PROVE Holding(setup, l, Q) \subseteq Q
    BY DEF Holding, ZerosOf
<1>6. 1 \in (-n .. n) \ {0} /\ -1 \in (-n .. n) \ {0}
    BY <1>4
<1>7. Abs(1) = 1 /\ Abs(-1) = 1
  <2>1. \A i \in Int : i > 0 => Abs(i) = i /\ Abs(-i) = i
    BY DEF Abs
  <2>2. 1 \in Int /\ 1 > 0
    OBVIOUS
  <2> QED BY <2>1, <2>2
<1> HIDE DEF P
<1>8. Holding(setup, 1, P) \cup Holding(setup, -1, P) = P
  <2> DEFINE R == Registered(setup, 1)
             Z == ZerosOf(setup.tables[Min(R)], 1, P)
  <2>1. Holding(setup, 1, P) = IF R = {} THEN P ELSE Z
    BY <1>7 DEF Holding
  <2>2. Holding(setup, -1, P) = IF R = {} THEN P ELSE P \ Z
    BY <1>7 DEF Holding
  <2>3. Z \subseteq P
    BY DEF ZerosOf
  <2> HIDE DEF R, Z
  <2> QED BY <2>1, <2>2, <2>3
<1>9. Points = P
    BY <1>3, <1>6, <1>8 DEF Points
<1>10. \A l \in (-n .. n) \ {0} : l \in Int \ {0} /\ -l \in (-n .. n) \ {0}
    BY <1>4
<1> QED BY <1>1, <1>2, <1>3, <1>5, <1>9, <1>10 DEF n, P

(* An atom belongs to one table. *)
LEMMA OneTable ==
    ASSUME setup \in SetUps, NEW s \in Tables, NEW v, HasAtom(s, v)
    PROVE  Registered(setup, v) = {s}
<1>1. Registered(setup, v) = {r \in Tables : HasAtom(r, v)}
    BY DEF Registered, Tables, HasAtom
<1>2. ASSUME NEW r \in Tables, HasAtom(r, v) PROVE r = s
    BY <1>2, TheoryAssumption DEF Tables, HasAtom
<1> QED BY <1>1, <1>2

(* A literal with an atom holds where its polynomial vanishes, or does not. *)
LEMMA Meaning ==
    ASSUME Shape, NEW s \in Tables, NEW l \in DOMAIN world, HasAtom(s, Abs(l)), NEW x \in Points
    PROVE  x \in world[l] <=> ((l > 0) <=> ValueAt(Key(s, Abs(l)), x, Prime(s)) = 0)
<1>1. setup \in SetUps /\ world[l] = Holding(setup, l, Points) /\ l \in Int \ {0}
    BY WorldIs
<1>2. Registered(setup, Abs(l)) = {s} /\ s \in Nat
    BY <1>1, OneTable, Kinds
<1>3. Min({s}) = s
    BY <1>2 DEF Min
<1> DEFINE Z == ZerosOf(setup.tables[s], Abs(l), Points)
<1>4. world[l] = IF l > 0 THEN Z ELSE Points \ Z
    BY <1>1, <1>2, <1>3 DEF Holding
<1>5. x \in Z <=> ValueAt(Key(s, Abs(l)), x, Prime(s)) = 0
    BY DEF ZerosOf, Key, Prime
<1> HIDE DEF Z
<1> QED BY <1>4, <1>5

(* A literal without one holds everywhere. *)
LEMMA Free ==
    ASSUME Shape, NEW l \in DOMAIN world, \A s \in Tables : ~HasAtom(s, Abs(l))
    PROVE  world[l] = Points
<1>1. Registered(setup, Abs(l)) = {}
    BY DEF Registered, Tables, HasAtom
<1> QED BY <1>1, WorldIs DEF Holding

(* The abstract specification speaks of the same points and literals. *)
LEMMA SameWorld ==
    ASSUME Shape
    PROVE  /\ Contract!Literals = DOMAIN world /\ Contract!Points = Points
           /\ \A ls : Contract!Common(ls) = Common(ls)
<1>1. Contract!Literals = DOMAIN world
    BY DEF Contract!Literals
<1>2. Contract!Points = Points
  <2>1. \A l \in DOMAIN world : world[l] \subseteq Points
    BY WorldIs
  <2>2. 1 \in DOMAIN world /\ -1 \in DOMAIN world
    BY WorldIs
  <2>3. Points = world[1] \cup world[-1]
    BY DEF Points
  <2> QED BY <1>1, <2>1, <2>2, <2>3 DEF Contract!Points
<1> QED BY <1>1, <1>2 DEF Contract!Common, Common

(* What is asserted is what is on the trail, and a core is read off it. *)
LEMMA AssertedIs ==
    ASSUME Shape
    PROVE  /\ Contract!Asserted = Range(Trail) /\ AssertedNow = Range(Trail)
           /\ Range(Trail) \subseteq DOMAIN world
           /\ \A l \in Range(Trail) : OnTrail(Abs(l)) = l
<1>1. asserted \in Seq(Seq(Int)) /\ Once(Trail) /\ \A i \in DOMAIN Trail : Trail[i] \in DOMAIN world
    BY DEF Shape
<1>2. Range(Trail) = UNION {Range(asserted[k]) : k \in DOMAIN asserted}
    BY <1>1, FlattenRange DEF Trail
<1>3. Contract!Asserted = Range(Trail)
    BY <1>2 DEF Contract!Asserted, Contract!Levels, Contract!LiteralsAt, Range
<1>4. AssertedNow = Range(Trail)
    BY <1>2 DEF AssertedNow, ToSet, Range
<1>5. Range(Trail) \subseteq DOMAIN world
    BY <1>1 DEF Range
<1>6. ASSUME NEW l \in Range(Trail) PROVE OnTrail(Abs(l)) = l
  <2>1. l \in Int \ {0}
    BY <1>5, WorldIs
  <2>2. CASE l < 0
    <3>1. Abs(l) = -l /\ -Abs(l) = l
        BY <2>1, <2>2 DEF Abs
    <3> QED BY <1>4, <3>1 DEF OnTrail
  <2>3. CASE l > 0
    <3>1. Abs(l) = l /\ Abs(-l) = l /\ -l # l
        BY <2>1, <2>3 DEF Abs
    <3>2. -l \notin Range(Trail)
      <4> SUFFICES ASSUME -l \in Range(Trail) PROVE FALSE
        OBVIOUS
      <4>1. PICK i \in DOMAIN Trail : Trail[i] = l
        BY DEF Range
      <4>2. PICK j \in DOMAIN Trail : Trail[j] = -l
        BY DEF Range
      <4> QED BY <1>1, <3>1, <4>1, <4>2 DEF Once
    <3> QED BY <1>4, <3>1, <3>2 DEF OnTrail
  <2> QED BY <2>1, <2>2, <2>3
<1> QED BY <1>3, <1>4, <1>5, <1>6

-------------------------------------------------------------------------------
(* Points and values. *)

\* The names of all tables.
AllNames == UNION {NamesOf(setup.tables[s]) : s \in Tables}

(* A point gives each name a value of its field. *)
LEMMA PointIs ==
    ASSUME Shape, NEW x
    PROVE  x \in Points <=>
              /\ x = [n \in AllNames |-> x[n]]
              /\ \A s \in Tables : \A n \in NamesOf(setup.tables[s]) : x[n] \in Field(setup.tables[s])
<1>1. Points = PointsOf(setup)
    BY WorldIs
<1> DEFINE V == UNION {Field(setup.tables[s]) : s \in Tables}
<1>2. Points = {y \in [AllNames -> V] :
                   \A s \in Tables : \A n \in NamesOf(setup.tables[s]) : y[n] \in Field(setup.tables[s])}
    BY <1>1 DEF PointsOf, AllNames, Tables
<1>3. ASSUME x = [n \in AllNames |-> x[n]],
             \A s \in Tables : \A n \in NamesOf(setup.tables[s]) : x[n] \in Field(setup.tables[s])
      PROVE  x \in [AllNames -> V]
  <2>1. \A n \in AllNames : x[n] \in V
    BY <1>3 DEF AllNames
  <2> HIDE DEF V
  <2> QED BY <1>3, <2>1
<1> HIDE DEF V
<1> QED BY <1>2, <1>3

(* The value of a polynomial depends on its variables. *)
LEMMA ValueSame ==
    ASSUME NEW key, NEW x, NEW y, NEW p, \A n \in Variables(key) : x[n] = y[n]
    PROVE  ValueAt(key, x, p) = ValueAt(key, y, p)
<1> DEFINE F(z, i) == [j \in DOMAIN key[i].m |-> z[key[i].m[j]]]
<1>1. ASSUME NEW i \in DOMAIN key PROVE F(x, i) = F(y, i)
  <2>1. \A j \in DOMAIN key[i].m : key[i].m[j] \in Variables(key)
    BY DEF Variables, ToSet
  <2> QED BY <2>1
<1> DEFINE G(z) == [i \in DOMAIN key |-> key[i].c * Product(F(z, i))]
<1>2. ValueAt(key, x, p) = SumOf(G(x)) % p /\ ValueAt(key, y, p) = SumOf(G(y)) % p
    BY DEF ValueAt
<1> HIDE DEF F
<1>3. G(x) = G(y)
    BY <1>1
<1> HIDE DEF G
<1> QED BY <1>2, <1>3

\* A polynomial over slots.
Over(key, slotOf) ==
    [i \in DOMAIN key |-> [key[i] EXCEPT !.m = [j \in DOMAIN @ |-> slotOf[<<"x", @[j]>>]]]]

\* The entries of a key are terms.
AreTerms(key) == \A i \in DOMAIN key : key[i] = [c |-> key[i].c, m |-> key[i].m]

\* y holds, in the slots, what x gives the names.
Holds(slotOf, x, y, names) == \A n \in names : x[n] = y[slotOf[<<"x", n>>]]

\* The slots of the names.
SlotsFor(names, slotOf) == {slotOf[<<"x", n>>] : n \in names}

(* Over slots it is the value at the point that the slots hold. *)
LEMMA ValueOver ==
    ASSUME NEW key, AreTerms(key), NEW slotOf, NEW x, NEW y, NEW p,
           Holds(slotOf, x, y, Variables(key))
    PROVE  /\ ValueAt(Over(key, slotOf), y, p) = ValueAt(key, x, p)
           /\ Variables(Over(key, slotOf)) = SlotsFor(Variables(key), slotOf)
<1> DEFINE terms == Over(key, slotOf)
           over(i) == [j \in DOMAIN key[i].m |-> slotOf[<<"x", key[i].m[j]>>]]
<1>1. DOMAIN terms = DOMAIN key
    BY DEF Over
<1>2. ASSUME NEW i \in DOMAIN key PROVE terms[i].c = key[i].c /\ terms[i].m = over(i)
  <2> DEFINE r == key[i]
             o == over(i)
  <2>1. terms[i] = [r EXCEPT !.m = o]
    BY DEF Over
  <2>2. r = [c |-> r.c, m |-> r.m]
    BY DEF AreTerms
  <2> HIDE DEF r, o, terms
  <2>3. [r EXCEPT !.m = o].c = r.c /\ [r EXCEPT !.m = o].m = o
    BY <2>2
  <2> QED BY <2>1, <2>3 DEF r, o
<1> HIDE DEF terms
<1> DEFINE F(i) == [j \in DOMAIN key[i].m |-> x[key[i].m[j]]]
           H(i) == [j \in DOMAIN terms[i].m |-> y[terms[i].m[j]]]
<1>3. ASSUME NEW i \in DOMAIN key PROVE F(i) = H(i)
  <2>1. \A j \in DOMAIN key[i].m : key[i].m[j] \in Variables(key)
    BY DEF Variables, ToSet
  <2>2. DOMAIN terms[i].m = DOMAIN key[i].m
        /\ \A j \in DOMAIN key[i].m : terms[i].m[j] = slotOf[<<"x", key[i].m[j]>>]
    BY <1>2
  <2> QED BY <2>1, <2>2 DEF Holds
<1>4. ValueAt(terms, y, p) = ValueAt(key, x, p)
  <2> DEFINE A == [i \in DOMAIN terms |-> terms[i].c * Product(H(i))]
             B == [i \in DOMAIN key |-> key[i].c * Product(F(i))]
  <2>1. ValueAt(terms, y, p) = SumOf(A) % p /\ ValueAt(key, x, p) = SumOf(B) % p
    BY DEF ValueAt
  <2> HIDE DEF F, H
  <2>2. A = B
    BY <1>1, <1>2, <1>3
  <2> HIDE DEF A, B
  <2> QED BY <2>1, <2>2
<1>5. Variables(terms) = {slotOf[<<"x", n>>] : n \in Variables(key)}
  <2>1. \A k : k \in Variables(terms) <=>
                   \E i \in DOMAIN terms : \E j \in DOMAIN terms[i].m : k = terms[i].m[j]
    BY DEF Variables, ToSet
  <2>2. \A n : n \in Variables(key) <=>
                   \E i \in DOMAIN key : \E j \in DOMAIN key[i].m : n = key[i].m[j]
    BY DEF Variables, ToSet
  <2>3. \A i \in DOMAIN key : /\ DOMAIN terms[i].m = DOMAIN key[i].m
                              /\ \A j \in DOMAIN key[i].m : terms[i].m[j] = slotOf[<<"x", key[i].m[j]>>]
    BY <1>2
  <2>4. ASSUME NEW k \in Variables(terms) PROVE \E n \in Variables(key) : k = slotOf[<<"x", n>>]
    <3>1. PICK i \in DOMAIN key : \E j \in DOMAIN terms[i].m : k = terms[i].m[j]
        BY <1>1, <2>1
    <3>2. PICK j \in DOMAIN key[i].m : k = terms[i].m[j]
        BY <2>3, <3>1
    <3>3. key[i].m[j] \in Variables(key) /\ k = slotOf[<<"x", key[i].m[j]>>]
        BY <2>2, <2>3, <3>2
    <3> QED BY <3>3
  <2>5. ASSUME NEW n \in Variables(key) PROVE slotOf[<<"x", n>>] \in Variables(terms)
    <3>1. PICK i \in DOMAIN key : \E j \in DOMAIN key[i].m : n = key[i].m[j]
        BY <2>2
    <3>2. PICK j \in DOMAIN key[i].m : n = key[i].m[j]
        BY <3>1
    <3>3. i \in DOMAIN terms /\ j \in DOMAIN terms[i].m /\ terms[i].m[j] = slotOf[<<"x", n>>]
        BY <1>1, <2>3, <3>2
    <3> QED BY <2>1, <3>3
  <2> QED BY <2>4, <2>5
<1> QED BY <1>4, <1>5 DEF terms, SlotsFor

-------------------------------------------------------------------------------
(* Classes: their literals hold at the same points. *)

(* A set of numbers has a smallest. *)
LEMMA LeastMember ==
    ASSUME NEW S \in SUBSET Nat, S # {}
    PROVE  Min(S) \in S
<1>1. PICK x \in S : \A y \in S : ~ (<<y, x>> \in OpToRel(<, Nat))
    BY NatLessThanWellFounded, WFMin
<1>2. \A y \in S : ~(y < x)
    BY <1>1 DEF OpToRel
<1>3. \A y \in S : x <= y
    BY <1>2
<1> QED BY <1>3 DEF Min

(* A class is named by an atom with the same key. *)
LEMMA RepIs ==
    ASSUME setup \in SetUps, NEW v
    PROVE  /\ HasAtom(1, v) => HasAtom(1, RepOf(v)) /\ Key(1, RepOf(v)) = Key(1, v)
           /\ ~HasAtom(1, v) => RepOf(v) = v
<1> DEFINE S == {u \in DOMAIN setup.tables[1].key : Key(1, u) = Key(1, v)}
<1>1. DOMAIN setup.tables[1].key \subseteq Nat
  <2>1. 1 \in Tables
    BY Kinds
  <2>2. setup.tables[1].slots \in Nat /\ DOMAIN setup.tables[1].key \subseteq 1 .. setup.tables[1].slots
    BY <2>1, TheoryAssumption DEF Tables, IsTable
  <2> QED BY <2>2
<1>2. CASE HasAtom(1, v)
  <2>1. v \in S /\ S \in SUBSET Nat
    BY <1>1, <1>2 DEF HasAtom
  <2> HIDE DEF S
  <2>2. Min(S) \in S
    BY <2>1, LeastMember
  <2>3. RepOf(v) \in S
    BY <1>2, <2>2 DEF RepOf, S
  <2> QED BY <1>2, <2>3 DEF S, HasAtom
<1>3. CASE ~HasAtom(1, v)
    BY <1>3 DEF RepOf
<1> QED BY <1>2, <1>3

(* Two literals of one class: the same points, or those left. *)
LEMMA ClassMeans ==
    ASSUME Shape, setup.ee, NEW l \in DOMAIN world, NEW m \in DOMAIN world,
           RepOf(Abs(l)) = RepOf(Abs(m)), Abs(l) # Abs(m) \/ l = m, NEW x \in Points
    PROVE  /\ (l > 0) = (m > 0) => (x \in world[l] <=> x \in world[m])
           /\ (l > 0) # (m > 0) => (x \in world[l] <=> x \notin world[m])
<1>1. setup \in SetUps /\ Tables = {1}
    BY Kinds DEF Shape
<1>2. CASE HasAtom(1, Abs(l)) /\ HasAtom(1, Abs(m))
  <2>1. Key(1, Abs(l)) = Key(1, Abs(m))
    BY <1>1, <1>2, RepIs
  <2>2. x \in world[l] <=> ((l > 0) <=> ValueAt(Key(1, Abs(l)), x, Prime(1)) = 0)
    BY <1>1, <1>2, Meaning
  <2>3. x \in world[m] <=> ((m > 0) <=> ValueAt(Key(1, Abs(m)), x, Prime(1)) = 0)
    BY <1>1, <1>2, Meaning
  <2> DEFINE z == ValueAt(Key(1, Abs(l)), x, Prime(1)) = 0
  <2>4. (x \in world[l] <=> ((l > 0) <=> z)) /\ (x \in world[m] <=> ((m > 0) <=> z))
    BY <2>1, <2>2, <2>3
  <2> HIDE DEF z
  <2> QED BY <2>4
<1>3. CASE ~HasAtom(1, Abs(l)) /\ ~HasAtom(1, Abs(m))
  <2>1. Abs(l) = Abs(m)
    BY <1>1, <1>3, RepIs
  <2> QED BY <2>1
<1>4. CASE HasAtom(1, Abs(l)) /\ ~HasAtom(1, Abs(m))
  <2>1. RepOf(Abs(m)) = Abs(m) /\ HasAtom(1, RepOf(Abs(l)))
    BY <1>1, <1>4, RepIs
  <2> QED BY <1>4, <2>1
<1>5. CASE ~HasAtom(1, Abs(l)) /\ HasAtom(1, Abs(m))
  <2>1. RepOf(Abs(l)) = Abs(l) /\ HasAtom(1, RepOf(Abs(m)))
    BY <1>1, <1>5, RepIs
  <2> QED BY <1>5, <2>1
<1> QED BY <1>2, <1>3, <1>4, <1>5

(* A pending contradiction is one: its two literals are asserted and hold   *)
(* nowhere together.                                                        *)
LEMMA PendingContradicts ==
    ASSUME Shape, setup.ee, pending # None, PendingIs(pending, Trail)
    PROVE  \E l, m \in Range(Trail) : /\ pending = <<Abs(l), Abs(m)>>
                                      /\ Common({l, m}) = {}
<1>1. PICK i, j \in DOMAIN Trail : /\ Class(Trail, i) = Class(Trail, j)
                                   /\ (Trail[i] > 0) # (Trail[j] > 0)
                                   /\ pending = <<Abs(Trail[i]), Abs(Trail[j])>>
    BY DEF PendingIs
<1> DEFINE l == Trail[i]
           m == Trail[j]
<1>2. l \in Range(Trail) /\ m \in Range(Trail) /\ l \in DOMAIN world /\ m \in DOMAIN world
    BY AssertedIs DEF Range
<1>3. Abs(l) # Abs(m)
  <2>1. Abs(l) = Abs(m) => i = j
    BY DEF Shape, Once
  <2> QED BY <1>1, <2>1
<1>4. RepOf(Abs(l)) = RepOf(Abs(m))
    BY <1>1 DEF Class
<1> HIDE DEF l, m
<1>5. \A x \in Points : x \in world[l] => x \notin world[m]
    BY <1>1, <1>2, <1>3, <1>4, ClassMeans DEF l, m
<1>6. Common({l, m}) = {}
    BY <1>5 DEF Common
<1> QED BY <1>1, <1>2, <1>6 DEF l, m

(* A point that satisfies the facts satisfies all that is asserted: what is *)
(* no fact holds everywhere, or is dropped for a fact of the same class.    *)
LEMMA Covered ==
    ASSUME Shape, InnerOk(facts, degraded, inc, gens, Trail), setup.kind = "router" => ~degraded,
           NEW x \in Points,
           \A s \in Tables : \A l \in Range(facts[s]) : HasAtom(s, Abs(l)) => x \in world[l]
    PROVE  \A l \in Range(Trail) : x \in world[l]
<1> DEFINE t == Trail
<1>1. setup \in SetUps /\ t \in Seq(Int) /\ \A i \in DOMAIN t : t[i] \in DOMAIN world
    BY DEF Shape, Once
<1>2. ASSUME NEW i \in DOMAIN t, ~DroppedAt(t, i) PROVE x \in world[t[i]]
  <2>1. CASE \A s \in Tables : ~HasAtom(s, Abs(t[i]))
    BY <1>1, <2>1, Free
  <2>2. ASSUME NEW s \in Tables, HasAtom(s, Abs(t[i])) PROVE x \in world[t[i]]
    <3>1. ~IsAuxiliary(Abs(t[i]))
        BY <1>1, <2>2, AtomsApart
    <3>2. Belongs(s, t[i])
      <4>1. CASE setup.kind = "full"
        BY <3>1, <4>1 DEF Belongs
      <4>2. CASE setup.kind = "incremental"
        <5>1. s = 1
            BY <1>1, <2>2, <4>2, Kinds
        <5> QED BY <2>2, <4>2, <5>1 DEF Belongs
      <4>3. CASE setup.kind = "router"
        <5>1. Abs(t[i]) \in DOMAIN setup.assigned
            BY <1>2, <3>1, <4>3 DEF InnerOk
        <5>2. setup.assigned[Abs(t[i])] \in Tables /\ HasAtom(setup.assigned[Abs(t[i])], Abs(t[i]))
            BY <1>1, <5>1, AtomsApart
        <5>3. setup.assigned[Abs(t[i])] = s
            BY <1>1, <2>2, <5>2, OneTable
        <5> QED BY <4>3, <5>1, <5>3 DEF Belongs
      <4> QED BY <1>1, <4>1, <4>2, <4>3, Kinds
    <3>3. t[i] \in Range(MeantFor(s, t))
      <4> DEFINE S == {t[k] : k \in {j \in DOMAIN t : Belongs(s, t[j]) /\ ~DroppedAt(t, j)}}
      <4>1. Range(Selected(t, S)) = Range(t) \cap S
        <5> HIDE DEF t, S
        <5> QED BY <1>1, SelectedRange
      <4>2. t[i] \in Range(t) /\ t[i] \in S
        BY <1>2, <3>2 DEF Range
      <4>3. MeantFor(s, t) = Selected(t, S)
        BY DEF MeantFor
      <4> QED BY <4>1, <4>2, <4>3
    <3>4. facts[s] = MeantFor(s, t)
        BY DEF InnerOk, IsMeant
    <3> QED BY <2>2, <3>3, <3>4
  <2> QED BY <2>1, <2>2
<1>3. ASSUME NEW i \in DOMAIN t, DroppedAt(t, i) PROVE x \in world[t[i]]
  <2>1. PICK j \in 1 .. (i - 1) :
          /\ RepOf(Abs(t[j])) = RepOf(Abs(t[i])) /\ (t[j] > 0) = (t[i] > 0)
          /\ \A k \in 1 .. (j - 1) : RepOf(Abs(t[k])) # RepOf(Abs(t[j]))
    BY <1>3 DEF DroppedAt
  <2>2. setup.ee
    BY <1>3 DEF DroppedAt
  <2>3. j \in DOMAIN t /\ i # j /\ t[i] \in DOMAIN world /\ t[j] \in DOMAIN world
    <3>1. DOMAIN t = 1 .. Len(t) /\ Len(t) \in Nat
        BY <1>1
    <3>2. j \in DOMAIN t /\ i # j
      <4> HIDE DEF t
      <4> QED BY <3>1
    <3> QED BY <1>1, <3>2
  <2>4. ~DroppedAt(t, j)
    BY <2>1 DEF DroppedAt
  <2>5. x \in world[t[j]]
    BY <1>2, <2>3, <2>4
  <2>6. Abs(t[i]) # Abs(t[j])
    BY <2>3 DEF Shape, Once
  <2> QED BY <2>1, <2>2, <2>3, <2>5, <2>6, ClassMeans
<1>4. \A i \in DOMAIN t : x \in world[t[i]]
    BY <1>2, <1>3
<1> QED BY <1>4 DEF Range

-------------------------------------------------------------------------------
(* What a check of one table may answer. *)

(* The facts of a table are asserted, and those it checks have an atom. *)
LEMMA FactsAre ==
    ASSUME Shape, InnerOk(facts, degraded, inc, gens, Trail), NEW s \in Tables
    PROVE  /\ Range(facts[s]) \subseteq Range(Trail)
           /\ AtomFacts(s) \in Seq(Int)
           /\ Range(AtomFacts(s)) = {l \in Range(facts[s]) : HasAtom(s, Abs(l))}
<1>1. facts[s] = MeantFor(s, Trail) /\ Trail \in Seq(Int)
    BY DEF InnerOk, IsMeant, Shape, Once
<1>2. facts[s] \in Seq(Int) /\ Range(facts[s]) \subseteq Range(Trail)
  <2>1. /\ MeantFor(s, Trail) \in Seq(Int)
        /\ \A k \in DOMAIN MeantFor(s, Trail) : \E i \in DOMAIN Trail : MeantFor(s, Trail)[k] = Trail[i]
    BY <1>1, MeantSeq
  <2> QED BY <1>1, <2>1 DEF Range
<1> DEFINE S == {l \in ToSet(facts[s]) : HasAtom(s, Abs(l))}
<1>3. S = {l \in Range(facts[s]) : HasAtom(s, Abs(l))}
    BY DEF ToSet, Range
<1>4. AtomFacts(s) = Selected(facts[s], S)
    BY DEF AtomFacts
<1> HIDE DEF S
<1>5. AtomFacts(s) \in Seq(Int \cap S) /\ Range(AtomFacts(s)) = Range(facts[s]) \cap S
    BY <1>2, <1>4, SelectedSeq, SelectedRange
<1>6. AtomFacts(s) \in Seq(Int)
  <2>1. Int \cap S \subseteq Int
    OBVIOUS
  <2> HIDE DEF S
  <2> QED BY <1>5, <2>1
<1>7. Range(facts[s]) \cap S = {l \in Range(facts[s]) : HasAtom(s, Abs(l))}
    BY <1>3
<1> QED BY <1>2, <1>5, <1>6, <1>7

(* A core names the facts it constrains, and some fact in any case. *)
LEMMA CoreSpans ==
    ASSUME NEW fs \in Seq(Int), fs # <<>>, NEW tags
    PROVE  \E ls \in SUBSET Range(fs) : /\ ls # {} /\ CoreAtoms(fs, tags) = {Abs(l) : l \in ls}
                                        /\ Constrains(fs, tags) \subseteq ls
<1> DEFINE isNamed(j) == \/ <<"eq", j>> \in tags
                         \/ j \in Negative(fs) /\ RabTag(fs, j) \in tags
           J == {i \in DOMAIN fs : isNamed(i)}
           named == {Abs(fs[j]) : j \in J}
<1>1. CoreAtoms(fs, tags) = IF named = {} THEN {Abs(fs[j]) : j \in DOMAIN fs} ELSE named
    BY DEF CoreAtoms
<1>2. Constrains(fs, tags) \subseteq {fs[j] : j \in J}
    BY DEF Constrains
<1> HIDE DEF isNamed
<1>3. DOMAIN fs # {} /\ Range(fs) = {fs[j] : j \in DOMAIN fs}
  <2>1. DOMAIN fs = 1 .. Len(fs) /\ Len(fs) \in Nat /\ Len(fs) # 0
    OBVIOUS
  <2>2. 1 \in DOMAIN fs
    BY <2>1
  <2> QED BY <2>2 DEF Range
<1>4. CASE named = {}
  <2>1. CoreAtoms(fs, tags) = {Abs(l) : l \in Range(fs)}
    BY <1>1, <1>3, <1>4
  <2>2. J = {}
    BY <1>4
  <2>3. Constrains(fs, tags) \subseteq Range(fs) /\ Range(fs) # {}
    BY <1>2, <1>3, <2>2
  <2> QED BY <2>1, <2>3
<1>5. CASE named # {}
  <2> DEFINE ls == {fs[j] : j \in J}
  <2>1. ls # {} /\ ls \subseteq Range(fs)
    BY <1>3, <1>5
  <2>2. named = {Abs(l) : l \in ls}
    OBVIOUS
  <2> QED BY <1>1, <1>2, <1>5, <2>1, <2>2
<1> QED BY <1>4, <1>5

\* A core refutes facts of a table.
Refutes(core, s) ==
    \E ls \in SUBSET Range(facts[s]) :
        ls # {} /\ core = {Abs(l) : l \in ls} /\ Common(ls) = {}

\* A binding of names of a table makes its facts true.
Models(m, s) ==
    /\ DOMAIN m \subseteq NamesOf(setup.tables[s])
    /\ \A n \in DOMAIN m : m[n] \in Field(setup.tables[s])
    /\ \A y \in Points : (\A n \in DOMAIN m : y[n] = m[n]) =>
          \A l \in Range(facts[s]) : HasAtom(s, Abs(l)) => y \in world[l]

(* The names of an atom are names of its table. *)
LEMMA NamesIn ==
    ASSUME setup \in SetUps, NEW s \in Tables, NEW v, HasAtom(s, v)
    PROVE  Variables(Key(s, v)) \subseteq NamesOf(setup.tables[s])
BY DEF NamesOf, HasAtom, Key

(* Each answer is right for the facts of the table. *)
LEMMA OutcomeRight ==
    ASSUME Shape, InnerOk(facts, degraded, inc, gens, Trail), NEW s \in Tables,
           NEW o \in SlotOutcomes(s)
    PROVE  \/ o.kind = "unknown"
           \/ o.kind = "unsat" /\ Refutes(o.core, s)
           \/ o.kind = "sat" /\ Models(o.model, s)
<1> DEFINE fs == AtomFacts(s)
<1>1. /\ fs \in Seq(Int) /\ Range(facts[s]) \subseteq Range(Trail)
      /\ Range(fs) = {l \in Range(facts[s]) : HasAtom(s, Abs(l))}
    BY FactsAre
<1>2. setup \in SetUps /\ Range(Trail) \subseteq DOMAIN world
    BY AssertedIs DEF Shape
<1> HIDE DEF fs
<1>3. CASE fs = <<>>
  <2>1. o = [kind |-> "sat", model |-> <<>>]
    BY <1>3 DEF SlotOutcomes, fs
  <2>2. Range(fs) = {} /\ DOMAIN <<>> = {}
    BY <1>3 DEF Range
  <2>3. o.kind = "sat" /\ o.model = <<>>
    BY <2>1
  <2> QED BY <1>1, <2>2, <2>3 DEF Models
<1>4. CASE fs # <<>>
  <2>1. o \in OutcomesOn(s, fs)
    BY <1>4 DEF SlotOutcomes, fs
  <2>2. CASE o = Unknown
    BY <2>2 DEF Unknown
  <2>3. ASSUME NEW x \in Common(ToSet(fs)), o = [kind |-> "sat", model |-> Restrict(x, FactVars(s, fs))]
        PROVE  o.kind = "sat" /\ Models(o.model, s)
    <3> DEFINE m == Restrict(x, FactVars(s, fs))
    <3>1. o.kind = "sat" /\ o.model = m
        BY <2>3
    <3>2. DOMAIN m = FactVars(s, fs) /\ \A n \in FactVars(s, fs) : m[n] = x[n]
        BY DEF Restrict
    <3> HIDE DEF m
    <3>3. ASSUME NEW l \in Range(fs)
          PROVE  HasAtom(s, Abs(l)) /\ Variables(Key(s, Abs(l))) \subseteq FactVars(s, fs)
      <4>1. HasAtom(s, Abs(l))
        BY <1>1
      <4>2. PICK j \in DOMAIN fs : fs[j] = l
        BY DEF Range
      <4> QED BY <4>1, <4>2 DEF FactVars
    <3>4. FactVars(s, fs) \subseteq NamesOf(setup.tables[s])
      <4> SUFFICES ASSUME NEW n \in FactVars(s, fs) PROVE n \in NamesOf(setup.tables[s])
        OBVIOUS
      <4>1. PICK j \in DOMAIN fs : n \in Variables(Key(s, Abs(fs[j])))
        BY DEF FactVars
      <4>2. fs[j] \in Range(fs)
        BY DEF Range
      <4>3. HasAtom(s, Abs(fs[j]))
        BY <1>1, <4>2
      <4> QED BY <1>2, <4>1, <4>3, NamesIn
    <3>5. x \in Points /\ \A l \in Range(fs) : x \in world[l]
        BY <2>3 DEF Common, ToSet, Range
    <3>6. \A n \in DOMAIN m : m[n] \in Field(setup.tables[s])
        BY <3>2, <3>4, <3>5, PointIs
    <3>7. ASSUME NEW y \in Points, \A n \in DOMAIN m : y[n] = m[n], NEW l \in Range(fs)
          PROVE  y \in world[l]
      <4>1. \A n \in Variables(Key(s, Abs(l))) : x[n] = y[n]
        BY <3>2, <3>3, <3>7
      <4>2. ValueAt(Key(s, Abs(l)), x, Prime(s)) = ValueAt(Key(s, Abs(l)), y, Prime(s))
        BY <4>1, ValueSame
      <4>3. HasAtom(s, Abs(l)) /\ x \in world[l] /\ l \in DOMAIN world
        BY <1>1, <1>2, <3>3, <3>5
      <4>4. x \in world[l] <=> ((l > 0) <=> ValueAt(Key(s, Abs(l)), x, Prime(s)) = 0)
        BY <3>5, <4>3, Meaning
      <4>5. y \in world[l] <=> ((l > 0) <=> ValueAt(Key(s, Abs(l)), y, Prime(s)) = 0)
        BY <3>7, <4>3, Meaning
      <4> QED BY <4>2, <4>3, <4>4, <4>5
    <3> QED BY <1>1, <3>1, <3>2, <3>4, <3>6, <3>7 DEF Models
  <2>4. ASSUME NEW tags, Common(Constrains(fs, tags)) = {}, o = UnsatReply(CoreAtoms(fs, tags))
        PROVE  o.kind = "unsat" /\ Refutes(o.core, s)
    <3>1. o.kind = "unsat" /\ o.core = CoreAtoms(fs, tags)
        BY <2>4 DEF UnsatReply
    <3>2. PICK ls \in SUBSET Range(fs) : /\ ls # {} /\ CoreAtoms(fs, tags) = {Abs(l) : l \in ls}
                                         /\ Constrains(fs, tags) \subseteq ls
        BY <1>1, <1>4, CoreSpans
    <3>3. Common(ls) = {}
        BY <2>4, <3>2 DEF Common
    <3>4. ls \in SUBSET Range(facts[s])
        BY <1>1, <3>2
    <3> QED BY <3>1, <3>2, <3>3, <3>4 DEF Refutes
  <2> QED BY <2>1, <2>2, <2>3, <2>4 DEF OutcomesOn
<1> QED BY <1>3, <1>4

-------------------------------------------------------------------------------
(* What the plug-in answers. *)

\* An answer is right for what is asserted.
ReplyOk(r) ==
    \/ r = Unknown
    \/ r.kind = "sat" /\ r.points # {} /\ r.points \subseteq Common(Range(Trail))
    \/ r.kind = "unsat" /\ \E ls \in SUBSET Range(Trail) : r.core = {Abs(l) : l \in ls} /\ Common(ls) = {}

(* Names of different tables are different, and zero is in every field. *)
LEMMA TablesApart ==
    ASSUME setup \in SetUps
    PROVE  /\ \A r, s \in Tables : r # s =>
                 NamesOf(setup.tables[r]) \cap NamesOf(setup.tables[s]) = {}
           /\ \A s \in Tables : IsTable(setup.tables[s]) /\ 0 \in Field(setup.tables[s])
<1>1. \A s \in Tables : IsTable(setup.tables[s])
    BY TheoryAssumption DEF Tables
<1>2. \A r, s \in Tables : r # s => NamesOf(setup.tables[r]) \cap NamesOf(setup.tables[s]) = {}
    BY TheoryAssumption DEF Tables
<1>3. \A s \in Tables : 0 \in Field(setup.tables[s])
    BY <1>1 DEF IsTable, Field
<1> QED BY <1>1, <1>2, <1>3

(* The bindings of the tables agree with some point. *)
LEMMA ModelsMeet ==
    ASSUME Shape, NEW os, \A s \in Tables : Models(os[s].model, s)
    PROVE  \E x \in Points : \A s \in Tables : \A n \in DOMAIN os[s].model : x[n] = os[s].model[n]
<1> DEFINE tableOf(n) == CHOOSE s \in Tables : n \in NamesOf(setup.tables[s])
           valueOf(n) == IF n \in DOMAIN os[tableOf(n)].model THEN os[tableOf(n)].model[n] ELSE 0
           x == [n \in AllNames |-> valueOf(n)]
<1>1. setup \in SetUps
    BY DEF Shape
<1>2. ASSUME NEW s \in Tables, NEW n \in NamesOf(setup.tables[s]) PROVE tableOf(n) = s /\ n \in AllNames
  <2>1. tableOf(n) \in Tables /\ n \in NamesOf(setup.tables[tableOf(n)])
    OBVIOUS
  <2> HIDE DEF tableOf
  <2> QED BY <1>1, <2>1, TablesApart DEF AllNames
<1>3. ASSUME NEW s \in Tables, NEW n \in NamesOf(setup.tables[s])
      PROVE  x[n] = IF n \in DOMAIN os[s].model THEN os[s].model[n] ELSE 0
    BY <1>2
<1> HIDE DEF tableOf
<1>4. x = [n \in AllNames |-> x[n]]
    OBVIOUS
<1> HIDE DEF x
<1>5. ASSUME NEW s \in Tables, NEW n \in NamesOf(setup.tables[s]) PROVE x[n] \in Field(setup.tables[s])
    BY <1>1, <1>3, TablesApart DEF Models
<1>6. x \in Points
    BY <1>4, <1>5, PointIs
<1>7. \A s \in Tables : \A n \in DOMAIN os[s].model : x[n] = os[s].model[n]
    BY <1>3 DEF Models
<1> QED BY <1>6, <1>7

(* Answers of the tables make an answer of the plug-in. *)
LEMMA CombinedRight ==
    ASSUME Shape, InnerOk(facts, degraded, inc, gens, Trail), setup.kind = "router" => ~degraded,
           NEW os, DOMAIN os = Tables, \A s \in Tables : os[s] \in SlotOutcomes(s)
    PROVE  ReplyOk(Combined(os))
<1> DEFINE unsat == {s \in Tables : os[s].kind = "unsat"}
           core == UNION {os[s].core : s \in unsat}
           both == {x \in Points : \A s \in Tables : \A n \in DOMAIN os[s].model : x[n] = os[s].model[n]}
<1>1. Combined(os) = IF core # {} THEN UnsatReply(core)
                     ELSE IF \E s \in Tables : os[s].kind = "unknown" THEN Unknown
                     ELSE SatReply(both)
    BY DEF Combined
<1>2. \A s \in Tables : \/ os[s].kind = "unknown"
                        \/ os[s].kind = "unsat" /\ Refutes(os[s].core, s)
                        \/ os[s].kind = "sat" /\ Models(os[s].model, s)
    BY OutcomeRight
<1>3. \A s \in Tables : Range(facts[s]) \subseteq Range(Trail)
    BY FactsAre
<1>4. \A s \in unsat : Refutes(os[s].core, s)
    BY <1>2
<1> HIDE DEF both
<1>5. CASE core # {}
  <2> DEFINE ls == {l \in Range(Trail) : Abs(l) \in core}
  <2>1. PICK s \in unsat : TRUE
    BY <1>5
  <2>2. PICK ks \in SUBSET Range(facts[s]) :
           ks # {} /\ os[s].core = {Abs(l) : l \in ks} /\ Common(ks) = {}
    BY <1>4 DEF Refutes
  <2>3. ks \subseteq ls
    BY <1>3, <2>2
  <2>4. Common(ls) = {}
    BY <2>2, <2>3 DEF Common
  <2>5. ASSUME NEW v \in core PROVE \E l \in ls : v = Abs(l)
    <3>1. PICK r \in unsat : v \in os[r].core
        OBVIOUS
    <3>2. PICK rs \in SUBSET Range(facts[r]) : os[r].core = {Abs(l) : l \in rs}
        BY <1>4 DEF Refutes
    <3>3. PICK l \in rs : v = Abs(l)
        BY <3>1, <3>2
    <3> QED BY <1>3, <3>2, <3>3
  <2>6. core = {Abs(l) : l \in ls}
    BY <2>5
  <2> HIDE DEF core
  <2>7. Combined(os) = UnsatReply(core)
    BY <1>1, <1>5
  <2>8. Combined(os).kind = "unsat" /\ Combined(os).core = core
    BY <2>7 DEF UnsatReply
  <2> QED BY <2>4, <2>6, <2>8 DEF ReplyOk
<1>6. CASE core = {}
  <2>1. unsat = {}
    <3> SUFFICES ASSUME NEW s \in unsat PROVE FALSE
        OBVIOUS
    <3>1. PICK ks \in SUBSET Range(facts[s]) : ks # {} /\ os[s].core = {Abs(l) : l \in ks}
        BY <1>4 DEF Refutes
    <3>2. os[s].core # {} /\ os[s].core \subseteq core
        BY <3>1
    <3> QED BY <1>6, <3>2
  <2>2. CASE \E s \in Tables : os[s].kind = "unknown"
    BY <1>1, <1>6, <2>2 DEF ReplyOk
  <2>3. CASE ~\E s \in Tables : os[s].kind = "unknown"
    <3>1. \A s \in Tables : Models(os[s].model, s)
        BY <1>2, <2>1, <2>3
    <3>2. both # {}
        BY <3>1, ModelsMeet DEF both
    <3>3. ASSUME NEW x \in both PROVE x \in Common(Range(Trail))
      <4>1. x \in Points /\ \A s \in Tables : \A n \in DOMAIN os[s].model : x[n] = os[s].model[n]
        BY DEF both
      <4>2. \A s \in Tables : \A l \in Range(facts[s]) : HasAtom(s, Abs(l)) => x \in world[l]
        BY <3>1, <4>1 DEF Models
      <4>3. \A l \in Range(Trail) : x \in world[l]
        BY <4>1, <4>2, Covered
      <4> QED BY <4>1, <4>3 DEF Common
    <3>4. Combined(os) = SatReply(both)
        BY <1>1, <1>6, <2>3
    <3>5. Combined(os).kind = "sat" /\ Combined(os).points = both
        BY <3>4 DEF SatReply
    <3> QED BY <3>2, <3>3, <3>5 DEF ReplyOk
  <2> QED BY <2>2, <2>3
<1> QED BY <1>5, <1>6

-------------------------------------------------------------------------------
(* What the incremental theory answers: zeros of its generators are points. *)

\* The names of the facts.
FactNames == UNION {Variables(Key(1, Abs(l))) : l \in Range(facts[1])}

\* The slot of a name.
SlotOf(n) == inc.slotOf[<<"x", n>>]

\* The generator at i is an atom.
AtomAt(i) == i \in DOMAIN gens /\ gens[i].kind = "atom"

(* Each fact has its generator, and each generator its fact. *)
LEMMA GensAre ==
    ASSUME Shape, InnerOk(facts, degraded, inc, gens, Trail), setup.kind = "incremental"
    PROVE  /\ Slotted(inc)
           /\ \A i : AtomAt(i) => gens[i].lit \in Range(facts[1]) /\ EncodedIn(gens[i], inc)
           /\ \A l \in Range(facts[1]) : \E i : AtomAt(i) /\ gens[i].lit = l
           /\ \A i, j : AtomAt(i) /\ AtomAt(j) /\ gens[i].lit < 0 /\ gens[i].w = gens[j].w => gens[i] = gens[j]
<1> DEFINE a == AtomsOf(gens)
           f == facts[1]
           S == {h \in ToSet(gens) : h.kind = "atom"}
<1>1. IsSeq(gens) /\ Slotted(inc) /\ AtomsRight(a, inc, f)
    BY DEF InnerOk, Basis
<1>2. Range(a) = Range(gens) \cap S
  <2>1. a = Selected(gens, S) /\ gens \in Seq(Range(gens))
    BY <1>1 DEF AtomsOf, IsSeq
  <2> HIDE DEF a, S
  <2> QED BY <2>1, SelectedRange
<1>3. \A i : AtomAt(i) => gens[i] \in Range(a)
    BY <1>2 DEF AtomAt, ToSet, Range
<1>4. \A k \in DOMAIN a : \E i : AtomAt(i) /\ gens[i] = a[k]
  <2> SUFFICES ASSUME NEW k \in DOMAIN a PROVE \E i : AtomAt(i) /\ gens[i] = a[k]
    OBVIOUS
  <2>1. a[k] \in Range(a)
    BY DEF Range
  <2>2. a[k] \in Range(gens) /\ a[k].kind = "atom"
    BY <1>2, <2>1
  <2> QED BY <2>2 DEF AtomAt, Range
<1> HIDE DEF a, f, S
<1>5. /\ DOMAIN a = DOMAIN f
      /\ \A i \in DOMAIN a : a[i].lit = f[i] /\ EncodedIn(a[i], inc)
      /\ \A i, j \in DOMAIN a : i # j /\ a[i].lit < 0 => a[j].w # a[i].w
    BY <1>1 DEF AtomsRight
<1>6. ASSUME NEW i, AtomAt(i) PROVE gens[i].lit \in Range(f) /\ EncodedIn(gens[i], inc)
  <2>1. PICK k \in DOMAIN a : a[k] = gens[i]
    BY <1>3, <1>6 DEF Range
  <2> QED BY <1>5, <2>1 DEF Range
<1>7. ASSUME NEW l \in Range(f) PROVE \E i : AtomAt(i) /\ gens[i].lit = l
  <2>1. PICK k \in DOMAIN f : f[k] = l
    BY DEF Range
  <2>2. PICK i : AtomAt(i) /\ gens[i] = a[k]
    BY <1>4, <1>5, <2>1
  <2> QED BY <1>5, <2>1, <2>2
<1>8. ASSUME NEW i, NEW j, AtomAt(i), AtomAt(j), gens[i].lit < 0, gens[i].w = gens[j].w
      PROVE  gens[i] = gens[j]
  <2>1. PICK k \in DOMAIN a : a[k] = gens[i]
    BY <1>3, <1>8 DEF Range
  <2>2. PICK m \in DOMAIN a : a[m] = gens[j]
    BY <1>3, <1>8 DEF Range
  <2>3. k = m
    BY <1>5, <1>8, <2>1, <2>2
  <2> QED BY <2>1, <2>2, <2>3
<1> QED BY <1>1, <1>6, <1>7, <1>8 DEF f

(* The fields of an encoding. *)
LEMMA EncodedParts ==
    ASSUME NEW l, NEW slotOf, NEW w
    PROVE  /\ Encoded(l, slotOf, w).terms = Over(Key(1, Abs(l)), slotOf)
           /\ Encoded(l, slotOf, w).lit = l
           /\ Encoded(l, slotOf, w).w = IF l > 0 THEN 0 ELSE slotOf[w]
<1> DEFINE o == Over(Key(1, Abs(l)), slotOf)
<1>1. Encoded(l, slotOf, w) = [kind |-> "atom", lit |-> l, terms |-> o,
                               w |-> IF l > 0 THEN 0 ELSE slotOf[w]]
    BY DEF Encoded, Over
<1> HIDE DEF o
<1> QED BY <1>1 DEF o

(* A generator is the polynomial of its fact over slots, and the slot of a  *)
(* witness is none of a name.                                               *)
LEMMA GenMeans ==
    ASSUME Shape, InnerOk(facts, degraded, inc, gens, Trail), setup.kind = "incremental",
           NEW i, AtomAt(i), NEW x, NEW y,
           \A n \in Variables(Key(1, Abs(gens[i].lit))) : x[n] = y[SlotOf(n)]
    PROVE  /\ ValueAt(gens[i].terms, y, Prime(1)) = ValueAt(Key(1, Abs(gens[i].lit)), x, Prime(1))
           /\ Variables(gens[i].terms) = {SlotOf(n) : n \in Variables(Key(1, Abs(gens[i].lit)))}
<1> DEFINE l == gens[i].lit
           key == Key(1, Abs(l))
<1>1. Slotted(inc) /\ EncodedIn(gens[i], inc) /\ setup \in SetUps
    BY GensAre DEF Shape
<1>2. PICK d \in 0 .. inc.diseqs : gens[i] = Encoded(l, inc.slotOf, Witness(d))
    BY <1>1 DEF EncodedIn
<1>3. AreTerms(key)
  <2>1. IsTable(setup.tables[1])
    BY <1>1, Kinds, TablesApart
  <2>2. Abs(l) \in DOMAIN setup.tables[1].key
    BY <1>1 DEF EncodedIn, HasAtom
  <2>3. \A v \in DOMAIN setup.tables[1].key : \A k \in DOMAIN setup.tables[1].key[v] :
           setup.tables[1].key[v][k] = [c |-> setup.tables[1].key[v][k].c, m |-> setup.tables[1].key[v][k].m]
    BY <2>1 DEF IsTable
  <2> QED BY <2>2, <2>3 DEF Key, AreTerms
<1>4. gens[i].terms = Over(key, inc.slotOf)
    BY <1>2, EncodedParts
<1>5. \A n \in Variables(key) : x[n] = y[inc.slotOf[<<"x", n>>]]
    BY DEF SlotOf
<1> DEFINE sl == inc.slotOf
           p == Prime(1)
<1> HIDE DEF key, sl, p
<1>6. /\ ValueAt(Over(key, sl), y, p) = ValueAt(key, x, p)
      /\ Variables(Over(key, sl)) = SlotsFor(Variables(key), sl)
  <2>1. Holds(sl, x, y, Variables(key))
    BY <1>5 DEF sl, Holds
  <2> QED BY <1>3, <2>1, ValueOver
<1> QED BY <1>4, <1>6 DEF key, sl, p, SlotOf, SlotsFor

(* The slots that are read are those of the names of the facts. *)
LEMMA SlotsAre ==
    ASSUME Shape, InnerOk(facts, degraded, inc, gens, Trail), setup.kind = "incremental"
    PROVE  /\ SlotsRead = {SlotOf(n) : n \in FactNames}
           /\ FactNames \subseteq NamesOf(setup.tables[1])
           /\ \A n \in FactNames : <<"x", n>> \in DOMAIN inc.slotOf
           /\ \A n, m \in FactNames : SlotOf(n) = SlotOf(m) => n = m
           /\ \A i : AtomAt(i) /\ gens[i].lit < 0 => gens[i].w \notin SlotsRead
<1>1. /\ Slotted(inc) /\ setup \in SetUps
      /\ \A i : AtomAt(i) => gens[i].lit \in Range(facts[1]) /\ EncodedIn(gens[i], inc)
      /\ \A l \in Range(facts[1]) : \E i : AtomAt(i) /\ gens[i].lit = l
    BY GensAre DEF Shape
<1>2. ASSUME NEW i, AtomAt(i)
      PROVE  Variables(gens[i].terms) = {SlotOf(n) : n \in Variables(Key(1, Abs(gens[i].lit)))}
  <2> DEFINE V == Variables(Key(1, Abs(gens[i].lit)))
             y == [k \in {} |-> 0]
             x == [n \in V |-> y[SlotOf(n)]]
  <2>1. \A n \in V : x[n] = y[SlotOf(n)]
    OBVIOUS
  <2> HIDE DEF x, y
  <2> QED BY <1>2, <2>1, GenMeans
<1>3. SlotsRead = {SlotOf(n) : n \in FactNames}
  <2>1. \A k : k \in SlotsRead <=> \E i : AtomAt(i) /\ k \in Variables(gens[i].terms)
    BY DEF SlotsRead, AtomAt
  <2>2. \A n : n \in FactNames <=> \E l \in Range(facts[1]) : n \in Variables(Key(1, Abs(l)))
    BY DEF FactNames
  <2>3. ASSUME NEW k \in SlotsRead PROVE \E n \in FactNames : k = SlotOf(n)
    <3>1. PICK i : AtomAt(i) /\ k \in Variables(gens[i].terms)
        BY <2>1
    <3>2. PICK n \in Variables(Key(1, Abs(gens[i].lit))) : k = SlotOf(n)
        BY <1>2, <3>1
    <3>3. n \in FactNames
        BY <1>1, <2>2, <3>1
    <3> QED BY <3>2, <3>3
  <2>4. ASSUME NEW n \in FactNames PROVE SlotOf(n) \in SlotsRead
    <3>1. PICK l \in Range(facts[1]) : n \in Variables(Key(1, Abs(l)))
        BY <2>2
    <3>2. PICK i : AtomAt(i) /\ gens[i].lit = l
        BY <1>1
    <3>3. SlotOf(n) \in Variables(gens[i].terms)
        BY <1>2, <3>1, <3>2
    <3> QED BY <2>1, <3>2, <3>3
  <2> QED BY <2>3, <2>4
<1>4. \A n \in FactNames : n \in NamesOf(setup.tables[1]) /\ <<"x", n>> \in DOMAIN inc.slotOf
  <2> SUFFICES ASSUME NEW n \in FactNames
               PROVE  n \in NamesOf(setup.tables[1]) /\ <<"x", n>> \in DOMAIN inc.slotOf
    OBVIOUS
  <2>1. PICK l \in Range(facts[1]) : n \in Variables(Key(1, Abs(l)))
    BY DEF FactNames
  <2>2. PICK i : AtomAt(i) /\ gens[i].lit = l
    BY <1>1
  <2>3. HasAtom(1, Abs(l)) /\ <<"x", n>> \in DOMAIN inc.slotOf
    BY <1>1, <2>1, <2>2 DEF EncodedIn
  <2> QED BY <1>1, <2>1, <2>3, Kinds, NamesIn
<1>5. \A n, m \in DOMAIN inc.slotOf : inc.slotOf[n] = inc.slotOf[m] => n = m
    BY <1>1 DEF Slotted
<1>6. \A n, m \in FactNames : SlotOf(n) = SlotOf(m) => n = m
  <2> SUFFICES ASSUME NEW n \in FactNames, NEW m \in FactNames, SlotOf(n) = SlotOf(m) PROVE n = m
    OBVIOUS
  <2>1. <<"x", n>> = <<"x", m>>
    BY <1>4, <1>5 DEF SlotOf
  <2> QED BY <2>1
<1>7. ASSUME NEW i, AtomAt(i), gens[i].lit < 0, gens[i].w \in SlotsRead PROVE FALSE
  <2>1. PICK n \in FactNames : gens[i].w = SlotOf(n)
    BY <1>3, <1>7
  <2>2. PICK d \in 0 .. inc.diseqs : /\ gens[i] = Encoded(gens[i].lit, inc.slotOf, Witness(d))
                                    /\ Witness(d) \in DOMAIN inc.slotOf
    BY <1>1, <1>7 DEF EncodedIn
  <2>3. gens[i].lit \in Int
    BY <1>1, <1>7 DEF EncodedIn
  <2>4. ~(gens[i].lit > 0)
    BY <1>7, <2>3
  <2>5. gens[i].w = inc.slotOf[Witness(d)]
    BY <2>2, <2>4 DEF Encoded
  <2>6. Witness(d) = <<"x", n>>
    BY <1>4, <1>5, <2>1, <2>2, <2>5 DEF SlotOf
  <2> QED BY <2>6 DEF Witness
<1> QED BY <1>3, <1>4, <1>6, <1>7

(* The generators vanish where the facts hold. *)
LEMMA ZeroPoint ==
    ASSUME Shape, InnerOk(facts, degraded, inc, gens, Trail), setup.kind = "incremental",
           NEW x \in Points, NEW y, \A n \in FactNames : x[n] = y[SlotOf(n)]
    PROVE  Vanishes(y) <=> \A l \in Range(facts[1]) : x \in world[l]
<1> DEFINE value(i) == ValueAt(gens[i].terms, y, Prime(1))
<1>1. /\ Slotted(inc)
      /\ \A i : AtomAt(i) => gens[i].lit \in Range(facts[1]) /\ EncodedIn(gens[i], inc)
      /\ \A l \in Range(facts[1]) : \E i : AtomAt(i) /\ gens[i].lit = l
      /\ \A i, j : AtomAt(i) /\ AtomAt(j) /\ gens[i].lit < 0 /\ gens[i].w = gens[j].w => gens[i] = gens[j]
    BY GensAre
<1>2. ASSUME NEW i, AtomAt(i)
      PROVE  /\ gens[i].lit \in Int \ {0} /\ (gens[i].w = 0 <=> gens[i].lit > 0)
             /\ x \in world[gens[i].lit] <=> ((gens[i].lit > 0) <=> value(i) = 0)
  <2>1. gens[i].lit \in Int \ {0} /\ HasAtom(1, Abs(gens[i].lit)) /\ EncodedIn(gens[i], inc)
    BY <1>1, <1>2 DEF EncodedIn
  <2>2. gens[i].w = 0 <=> gens[i].lit > 0
    <3>1. /\ gens[i].w \in Nat
          /\ gens[i].lit > 0 => gens[i].w = 0
          /\ gens[i].lit < 0 => gens[i].w > 0
        BY <1>1, <2>1, WitnessSlot
    <3>2. gens[i].lit > 0 \/ gens[i].lit < 0
        BY <2>1
    <3> QED BY <3>1, <3>2
  <2>3. gens[i].lit \in DOMAIN world
    <3>1. gens[i].lit \in Range(facts[1]) /\ setup \in SetUps
        BY <1>1, <1>2 DEF Shape
    <3>2. Range(facts[1]) \subseteq Range(Trail)
        BY <3>1, FactsAre, Kinds
    <3> QED BY <3>1, <3>2, AssertedIs
  <2>4. \A n \in Variables(Key(1, Abs(gens[i].lit))) : x[n] = y[SlotOf(n)]
    BY <1>1, <1>2 DEF FactNames
  <2>5. value(i) = ValueAt(Key(1, Abs(gens[i].lit)), x, Prime(1))
    BY <1>2, <2>4, GenMeans
  <2>6. x \in world[gens[i].lit] <=>
           ((gens[i].lit > 0) <=> ValueAt(Key(1, Abs(gens[i].lit)), x, Prime(1)) = 0)
    BY <2>1, <2>3, Meaning, Kinds DEF Shape
  <2> HIDE DEF value
  <2> QED BY <2>1, <2>2, <2>5, <2>6
<1>3. Vanishes(y) <=>
         /\ \A i : AtomAt(i) /\ gens[i].w = 0 => value(i) = 0
         /\ \A i : AtomAt(i) /\ gens[i].w # 0 =>
               value(i) # 0 /\ (gens[i].w \in SlotsRead => (value(i) * y[gens[i].w]) % Prime(1) = 1)
         /\ \A i, j : AtomAt(i) /\ AtomAt(j) /\ gens[i].w # 0 /\ gens[j].w # 0 /\ gens[i].w = gens[j].w =>
               value(i) = value(j)
    BY DEF Vanishes, AtomAt
<1>4. \A i : AtomAt(i) /\ gens[i].lit < 0 => gens[i].w \notin SlotsRead
    BY SlotsAre
<1>5. \A i, j : gens[i] = gens[j] => value(i) = value(j)
    OBVIOUS
<1> HIDE DEF value
<1>6. ASSUME Vanishes(y) PROVE \A l \in Range(facts[1]) : x \in world[l]
  <2> SUFFICES ASSUME NEW l \in Range(facts[1]) PROVE x \in world[l]
    OBVIOUS
  <2>1. PICK i : AtomAt(i) /\ gens[i].lit = l
    BY <1>1
  <2> QED BY <1>2, <1>3, <1>6, <2>1
<1>7. ASSUME \A l \in Range(facts[1]) : x \in world[l] PROVE Vanishes(y)
  <2>1. \A i : AtomAt(i) => ((gens[i].lit > 0) <=> value(i) = 0)
    BY <1>1, <1>2, <1>7
  <2>2. \A i : AtomAt(i) /\ gens[i].w = 0 => value(i) = 0
    BY <1>2, <2>1
  <2>3. ASSUME NEW i, AtomAt(i), gens[i].w # 0 PROVE value(i) # 0 /\ gens[i].lit < 0
    <3>1. ~(gens[i].lit > 0) /\ gens[i].lit \in Int \ {0}
        BY <1>2, <2>3
    <3>2. gens[i].lit < 0
        BY <3>1
    <3> QED BY <2>1, <2>3, <3>1, <3>2
  <2>4. \A i : AtomAt(i) /\ gens[i].w # 0 => gens[i].w \notin SlotsRead
    BY <1>4, <2>3
  <2>5. \A i, j : AtomAt(i) /\ AtomAt(j) /\ gens[i].w # 0 /\ gens[j].w # 0 /\ gens[i].w = gens[j].w =>
           value(i) = value(j)
    BY <1>1, <1>5, <2>3
  <2> QED BY <1>3, <2>2, <2>3, <2>4, <2>5
<1> QED BY <1>6, <1>7

(* A zero's binding gives the names of the facts the values of their slots. *)
LEMMA BindingIs ==
    ASSUME Shape, InnerOk(facts, degraded, inc, gens, Trail), setup.kind = "incremental", NEW y
    PROVE  Binding(y) = [n \in FactNames |-> y[SlotOf(n)]]
<1> DEFINE named == {n \in DOMAIN inc.slotOf : n[1] = "x" /\ inc.slotOf[n] \in SlotsRead}
<1>1. /\ SlotsRead = {SlotOf(n) : n \in FactNames}
      /\ \A n \in FactNames : <<"x", n>> \in DOMAIN inc.slotOf
      /\ \A n, m \in DOMAIN inc.slotOf : inc.slotOf[n] = inc.slotOf[m] => n = m
    BY SlotsAre, GensAre DEF Slotted
<1>2. ASSUME NEW k \in named PROVE k[2] \in FactNames
  <2>1. PICK n \in FactNames : inc.slotOf[k] = SlotOf(n)
    BY <1>1
  <2>2. k = <<"x", n>>
    BY <1>1, <2>1 DEF SlotOf
  <2> QED BY <2>2
<1>3. ASSUME NEW n \in FactNames PROVE \E k \in named : k[2] = n
  <2>1. SlotOf(n) \in SlotsRead /\ <<"x", n>> \in DOMAIN inc.slotOf
    BY <1>1
  <2>2. <<"x", n>> \in named
    BY <2>1 DEF SlotOf
  <2>3. <<"x", n>>[2] = n
    OBVIOUS
  <2> HIDE DEF named
  <2> QED BY <2>2, <2>3
<1>4. Binding(y) = [n \in {k[2] : k \in named} |-> y[SlotOf(n)]]
    BY DEF Binding, SlotOf
<1> HIDE DEF named
<1>5. {k[2] : k \in named} = FactNames
    BY <1>2, <1>3
<1> QED BY <1>4, <1>5

(* What the incremental theory answers is right: its facts hold nowhere if  *)
(* its generators have no zero, and a zero's binding makes them hold.       *)
LEMMA IncrementalRight ==
    ASSUME Shape, InnerOk(facts, degraded, inc, gens, Trail), setup.kind = "incremental",
           NEW r \in IncrementalReplies
    PROVE  ReplyOk(r)
<1> DEFINE p == Prime(1)
           f == facts[1]
<1>1. /\ setup \in SetUps /\ Tables = {1}
      /\ Range(f) \subseteq Range(Trail)
  <2>1. setup \in SetUps
    BY DEF Shape
  <2>2. 1 \in Tables /\ Tables = {1}
    BY <2>1, Kinds
  <2> QED BY <2>1, <2>2, FactsAre
<1>2. /\ SlotsRead = {SlotOf(n) : n \in FactNames}
      /\ FactNames \subseteq NamesOf(setup.tables[1])
      /\ \A n, m \in FactNames : SlotOf(n) = SlotOf(m) => n = m
    BY SlotsAre
<1>3. ASSUME Zeros = {} PROVE Common(Range(f)) = {}
  <2> SUFFICES ASSUME NEW x \in Common(Range(f)) PROVE FALSE
    OBVIOUS
  <2>1. x \in Points /\ \A l \in Range(f) : x \in world[l]
    BY DEF Common
  <2>2. \A n \in FactNames : x[n] \in 0 .. (p - 1)
    BY <1>1, <1>2, <2>1, PointIs DEF Field, Prime
  <2> DEFINE named(k) == CHOOSE n \in FactNames : SlotOf(n) = k
             y == [k \in SlotsRead |-> x[named(k)]]
  <2>3. \A k \in SlotsRead : named(k) \in FactNames /\ SlotOf(named(k)) = k
    BY <1>2
  <2> HIDE DEF named
  <2>4. y \in [SlotsRead -> 0 .. (p - 1)]
    BY <2>2, <2>3
  <2>5. \A n \in FactNames : x[n] = y[SlotOf(n)]
    BY <1>2, <2>3
  <2> HIDE DEF y
  <2>6. Vanishes(y)
    BY <2>1, <2>5, ZeroPoint
  <2> QED BY <1>3, <2>4, <2>6 DEF Zeros
<1>4. ASSUME NEW y \in Zeros
      PROVE  Models(Binding(y), 1)
  <2> DEFINE B == [n \in FactNames |-> y[SlotOf(n)]]
  <2>1. y \in [SlotsRead -> 0 .. (p - 1)] /\ Vanishes(y)
    BY DEF Zeros
  <2>2. \A n \in FactNames : B[n] \in Field(setup.tables[1])
    BY <1>2, <2>1 DEF Field, Prime
  <2>3. ASSUME NEW x \in Points, \A n \in DOMAIN B : x[n] = B[n]
        PROVE  \A l \in Range(f) : x \in world[l]
    <3>1. \A n \in FactNames : x[n] = y[SlotOf(n)]
        BY <2>3
    <3> QED BY <2>1, <3>1, ZeroPoint
  <2>4. DOMAIN B = FactNames
    OBVIOUS
  <2>5. Binding(y) = B
    BY BindingIs
  <2> HIDE DEF B
  <2>6. Models(B, 1)
    BY <1>2, <2>2, <2>3, <2>4 DEF Models
  <2> QED BY <2>5, <2>6
<1>5. ASSUME NEW m, Models(m, 1) PROVE ReplyOk(SatReply(Extensions(m)))
  <2> DEFINE os == [s \in Tables |-> [model |-> m]]
  <2>1. \A s \in Tables : os[s].model = m
    OBVIOUS
  <2> HIDE DEF os
  <2>2. PICK x \in Points : \A s \in Tables : \A n \in DOMAIN os[s].model : x[n] = os[s].model[n]
    BY <1>1, <1>5, <2>1, ModelsMeet
  <2>3. Extensions(m) # {}
    BY <1>1, <2>1, <2>2 DEF Extensions
  <2>4. ASSUME NEW z \in Extensions(m) PROVE z \in Common(Range(Trail))
    <3>1. z \in Points /\ \A n \in DOMAIN m : z[n] = m[n]
        BY DEF Extensions
    <3>2. \A s \in Tables : \A l \in Range(facts[s]) : HasAtom(s, Abs(l)) => z \in world[l]
        BY <1>1, <1>5, <3>1 DEF Models
    <3>3. \A l \in Range(Trail) : z \in world[l]
        BY <3>1, <3>2, Covered
    <3> QED BY <3>1, <3>3 DEF Common
  <2>5. SatReply(Extensions(m)).kind = "sat" /\ SatReply(Extensions(m)).points = Extensions(m)
    BY DEF SatReply
  <2> QED BY <2>3, <2>4, <2>5 DEF ReplyOk
<1>6. CASE r = Unknown
    BY <1>6 DEF ReplyOk
<1>7. CASE f = <<>> /\ r = SatReply(Points)
  <2>1. Range(f) = {}
    BY <1>7 DEF Range
  <2>2. DOMAIN <<>> = {}
    OBVIOUS
  <2>3. Models(<<>>, 1)
    BY <2>1, <2>2 DEF Models
  <2>4. Extensions(<<>>) = Points
    BY <2>2 DEF Extensions
  <2> QED BY <1>5, <1>7, <2>3, <2>4
<1>8. CASE Zeros = {} /\ r = UnsatReply({Abs(l) : l \in ToSet(f)})
  <2>1. ToSet(f) = Range(f)
    BY DEF ToSet, Range
  <2>2. r.kind = "unsat" /\ r.core = {Abs(l) : l \in Range(f)}
    BY <1>8, <2>1 DEF UnsatReply
  <2>3. Range(f) \in SUBSET Range(Trail) /\ Common(Range(f)) = {}
    BY <1>1, <1>3, <1>8
  <2> HIDE DEF f
  <2> QED BY <2>2, <2>3 DEF ReplyOk
<1>9. CASE \E y \in Zeros : r = SatReply(Extensions(Binding(y)))
    BY <1>4, <1>5, <1>9
<1> QED BY <1>6, <1>7, <1>8, <1>9 DEF IncrementalReplies

(* So is what each plug-in answers.                                         *)
LEMMA InnerRepliesRight ==
    ASSUME Shape, InnerOk(facts, degraded, inc, gens, Trail), NEW r \in InnerReplies
    PROVE  ReplyOk(r)
<1>1. setup \in SetUps
    BY DEF Shape
<1>2. CASE setup.kind = "full"
  <2>1. PICK o \in SlotOutcomes(1) : r = Combined(<<o>>)
    BY <1>2 DEF InnerReplies
  <2> DEFINE os == <<o>>
  <2>2. Tables = {1} /\ DOMAIN os = {1} /\ os[1] = o
    BY <1>1, <1>2, Kinds
  <2> HIDE DEF os
  <2>3. ReplyOk(Combined(os))
    BY <1>2, <2>2, CombinedRight
  <2> QED BY <2>1, <2>3 DEF os
<1>3. CASE setup.kind = "router"
  <2>1. CASE degraded
    <3>1. r = Unknown
        BY <1>3, <2>1 DEF InnerReplies
    <3> QED BY <3>1 DEF ReplyOk
  <2>2. CASE ~degraded
    <3>1. PICK os \in AllOutcomes : r = Combined(os)
        BY <1>3, <2>2 DEF InnerReplies
    <3>2. DOMAIN os = Tables /\ \A s \in Tables : os[s] \in SlotOutcomes(s)
        BY DEF AllOutcomes
    <3> QED BY <2>2, <3>1, <3>2, CombinedRight
  <2> QED BY <2>1, <2>2
<1>4. CASE setup.kind = "incremental"
  <2>1. r \in IncrementalReplies
    BY <1>4 DEF InnerReplies
  <2> QED BY <1>4, <2>1, IncrementalRight
<1> QED BY <1>1, <1>2, <1>3, <1>4, Kinds

-------------------------------------------------------------------------------
(* The field: congruences and linear equations. *)

(* An inverse that exists is found. *)
LEMMA InverseIs ==
    ASSUME NEW p \in Nat \ {0, 1}, NEW a \in 1 .. (p - 1), \E b \in 1 .. (p - 1) : (a * b) % p = 1
    PROVE  FieldInverse(a, p) \in 1 .. (p - 1) /\ Cong(a * FieldInverse(a, p), 1, p)
<1>1. 1 \in 0 .. (p - 1) /\ 1 \in 1 .. (p - 1) /\ p \in Nat \ {0}
    OBVIOUS
<1>2. CASE a = 1
  <2>1. FieldInverse(a, p) = 1
    BY <1>2 DEF FieldInverse
  <2>2. Cong(1, 1, p)
    <3>1. 1 - 1 = 0 * p /\ 0 \in Int
        OBVIOUS
    <3> QED BY <3>1, CongShown
  <2>3. a * FieldInverse(a, p) = 1
    BY <1>2, <2>1
  <2> QED BY <1>1, <2>1, <2>2, <2>3
<1>3. CASE a # 1
  <2> DEFINE b == CHOOSE b \in 1 .. (p - 1) : (a * b) % p = 1
  <2>1. b \in 1 .. (p - 1) /\ (a * b) % p = 1
    OBVIOUS
  <2>2. FieldInverse(a, p) = b
    BY <1>3 DEF FieldInverse
  <2> HIDE DEF b
  <2>3. a * b \in Int
    BY <2>1
  <2>4. Cong(a * b, 1, p)
    BY <1>1, <2>1, <2>3, ResidueIs
  <2> QED BY <2>1, <2>2, <2>4
<1> QED BY <1>2, <1>3

\* y solves r + a * y = 0 in the field.
Solves(y, a, r, p) == (r + a * y) % p = 0

\* The solution that is computed.
Solution(a, r, p) == ((p - r) * FieldInverse(a, p)) % p

(* A linear equation over the field has the one solution. *)
LEMMA LinearSolved ==
    ASSUME NEW p \in Nat \ {0, 1}, NEW a \in 1 .. (p - 1), \E b \in 1 .. (p - 1) : (a * b) % p = 1,
           NEW r \in 0 .. (p - 1), NEW y \in 0 .. (p - 1)
    PROVE  Solves(y, a, r, p) <=> y = Solution(a, r, p)
<1> DEFINE v == FieldInverse(a, p)
           t == (p - r) * v
           e == r + a * y
<1>1. v \in 1 .. (p - 1) /\ Cong(a * v, 1, p)
    BY InverseIs
<1> HIDE DEF v
<1>2. /\ v \in Int /\ a \in Int /\ r \in Int /\ y \in Int /\ p \in Int /\ p \in Nat \ {0}
      /\ 0 \in 0 .. (p - 1)
    BY <1>1
<1>3. t \in Int /\ e \in Int
    BY <1>2
<1>4. PICK q \in Int : a * v - 1 = q * p
    BY <1>1 DEF Cong
<1>5. a * v = 1 + q * p
    BY <1>2, <1>4
<1>6. ASSUME Cong(e, 0, p) PROVE Cong(t, y, p)
  <2>1. PICK k \in Int : e - 0 = k * p
    BY <1>6 DEF Cong
  <2>2. a * y = k * p - r
    BY <1>2, <2>1
  <2>3. (a * v) * y = v * (a * y)
    BY <1>2
  <2>4. (1 + q * p) * y = v * (k * p - r)
    BY <1>5, <2>2, <2>3
  <2>5. y = v * (k * p) - v * r - (q * p) * y
    BY <1>2, <2>4
  <2> DEFINE w == v - v * k + q * y
  <2>6. w \in Int
    BY <1>2
  <2>7. w * p = v * p - v * (k * p) + (q * p) * y
    BY <1>2
  <2>8. t = v * p - v * r
    BY <1>2
  <2> HIDE DEF w, t
  <2>9. t - y = w * p
    BY <1>2, <2>5, <2>7, <2>8
  <2> QED BY <2>6, <2>9, CongShown
<1>7. ASSUME Cong(t, y, p) PROVE Cong(e, 0, p)
  <2>1. PICK k \in Int : t - y = k * p
    BY <1>7 DEF Cong
  <2>2. y = (p - r) * v - k * p
    BY <1>2, <2>1
  <2>3. a * y = (p - r) * (a * v) - a * (k * p)
    BY <1>2, <2>2
  <2>4. a * y = (p - r) * (1 + q * p) - a * (k * p)
    BY <1>5, <2>3
  <2> DEFINE w == 1 + (p - r) * q - a * k
  <2>5. w \in Int
    BY <1>2
  <2>6. w * p = p + (p - r) * (q * p) - a * (k * p)
    BY <1>2
  <2>7. (p - r) * (1 + q * p) = p - r + (p - r) * (q * p)
    BY <1>2
  <2> HIDE DEF w
  <2>8. e - 0 = w * p
    BY <1>2, <2>4, <2>6, <2>7
  <2> QED BY <2>5, <2>8, CongShown
<1>8. e % p = 0 <=> Cong(e, 0, p)
    BY <1>2, <1>3, ResidueIs
<1>9. t % p = y <=> Cong(t, y, p)
    BY <1>2, <1>3, ResidueIs
<1> HIDE DEF e, t
<1>10. e % p = 0 <=> y = t % p
    BY <1>6, <1>7, <1>8, <1>9
<1> QED BY <1>10 DEF e, t, v, Solves, Solution

(* A linear form may be reduced before it is evaluated. *)
LEMMA LinearReduced ==
    ASSUME NEW p \in Nat \ {0}, NEW a \in Int, NEW r \in Int, NEW y \in Int
    PROVE  Solves(y, a, r, p) <=> Solves(y, a % p, r % p, p)
<1> DEFINE b == a % p
           s == r % p
<1>1. Cong(a, b, p) /\ b \in 0 .. (p - 1) /\ Cong(r, s, p) /\ s \in 0 .. (p - 1) /\ 0 \in 0 .. (p - 1)
  <2>1. Cong(a, b, p) /\ b \in 0 .. (p - 1)
    BY CongResidue
  <2>2. Cong(r, s, p) /\ s \in 0 .. (p - 1)
    BY CongResidue
  <2> QED BY <2>1, <2>2
<1> HIDE DEF b, s
<1>2. PICK k \in Int : a - b = k * p
    BY <1>1 DEF Cong
<1>3. PICK m \in Int : r - s = m * p
    BY <1>1 DEF Cong
<1> DEFINE d == r + a * y
           e == s + b * y
           w == k * y + m
<1>4. d \in Int /\ e \in Int /\ w \in Int
    BY <1>1
<1>5. d - e = w * p
  <2>1. (a - b) * y = (k * p) * y
    BY <1>2
  <2>2. (a - b) * y = a * y - b * y
    BY <1>1
  <2>3. w * p = (k * p) * y + m * p
    OBVIOUS
  <2> HIDE DEF w
  <2> QED BY <1>1, <1>3, <2>1, <2>2, <2>3
<1> HIDE DEF d, e, w
<1>6. Cong(d, e, p) /\ Cong(e, d, p)
  <2>1. Cong(d, e, p)
    BY <1>4, <1>5, CongShown
  <2>2. p \in Int
    OBVIOUS
  <2> QED BY <1>4, <2>1, <2>2, CongSwap
<1>7. Cong(d, 0, p) <=> Cong(e, 0, p)
    BY <1>4, <1>6, CongTrans
<1>8. d % p = 0 <=> Cong(d, 0, p)
    BY <1>1, <1>4, ResidueIs
<1>9. e % p = 0 <=> Cong(e, 0, p)
    BY <1>1, <1>4, ResidueIs
<1>10. d % p = 0 <=> e % p = 0
    BY <1>7, <1>8, <1>9
<1> QED BY <1>10 DEF d, e, b, s, Solves

-------------------------------------------------------------------------------
(* Sums and products. *)

\* f is the recursion inside SumOf.
Sums(f, seq) ==
    /\ f \in [0 .. Len(seq) -> Int]
    /\ f[0] = 0 /\ SumOf(seq) = f[Len(seq)]
    /\ \A k \in 1 .. Len(seq) : f[k] = f[k - 1] + seq[k]

(* The recursion inside SumOf unrolls. *)
LEMMA SumOfRecursion ==
    ASSUME NEW seq \in Seq(Int)
    PROVE  \E f : Sums(f, seq)
<1> DEFINE n == Len(seq)
<1> DEFINE Eqn(f) == f = [k \in 0 .. n |-> IF k = 0 THEN 0 ELSE f[k - 1] + seq[k]]
<1> DEFINE F == [q \in (1 .. n) \X Int |-> q[2] + seq[q[1]]]
<1>1. n \in Nat /\ 0 \in Int /\ \A k \in 1 .. n : seq[k] \in Int
    OBVIOUS
<1>2. F \in [(1 .. n) \X Int -> Int]
    BY <1>1
<1>3. PICK g : Unrolls(g, n, Int, 0, F)
  <2>1. F \in Steps(n, Int)
    BY <1>2 DEF Steps
  <2> HIDE DEF F, n
  <2> QED BY <1>1, <2>1, RecursionExists
<1>4. ASSUME NEW k \in 1 .. n
      PROVE  g[k] = g[k - 1] + seq[k]
  <2>1. g[k - 1] \in Int
    <3>1. k - 1 \in 0 .. n
        BY <1>1
    <3> HIDE DEF n, F
    <3> QED BY <1>3, <3>1 DEF Unrolls
  <2>2. F[<<k, g[k - 1]>>] = g[k - 1] + seq[k]
    BY <2>1
  <2> QED BY <1>3, <2>2 DEF Unrolls
<1>5. Eqn(g)
  <2> HIDE DEF F, n
  <2>1. \A k \in 0 .. n : k # 0 => k \in 1 .. n
    BY <1>1
  <2> QED BY <1>3, <1>4, <2>1 DEF Unrolls
<1>6. Eqn(CHOOSE f : Eqn(f))
  <2> HIDE DEF Eqn
  <2> QED BY <1>5
<1> DEFINE h == CHOOSE f : Eqn(f)
<1>7. SumOf(seq) = h[n]
    BY DEF SumOf
<1>8. h[0] = 0 /\ \A k \in 1 .. n : h[k] = h[k - 1] + seq[k]
  <2>1. Eqn(h)
    BY <1>6
  <2>2. 0 \in 0 .. n /\ \A k \in 1 .. n : k \in 0 .. n /\ k # 0
    BY <1>1
  <2> HIDE DEF h, n
  <2> QED BY <2>1, <2>2
<1>9. \A k \in 0 .. n : h[k] \in Int
  <2>1. ASSUME NEW k \in 1 .. n, h[k - 1] \in Int PROVE h[k] \in Int
    <3> HIDE DEF h, n
    <3> QED BY <1>1, <1>8, <2>1
  <2>2. h[0] \in Int
    <3> HIDE DEF h
    <3> QED BY <1>1, <1>8
  <2> HIDE DEF h, n
  <2> QED BY <1>1, <2>1, <2>2, RecursionInvariant
<1>10. h \in [0 .. n -> Int]
  <2>1. Eqn(h)
    BY <1>6
  <2>2. h = [k \in 0 .. n |-> h[k]]
    <3> HIDE DEF h, n
    <3> QED BY <2>1
  <2> HIDE DEF h, n
  <2> QED BY <1>9, <2>2
<1> HIDE DEF h
<1> QED BY <1>7, <1>8, <1>10 DEF Sums

\* f is the recursion inside Product.
Multiplies(f, seq) ==
    /\ f \in [0 .. Len(seq) -> Int]
    /\ f[0] = 1 /\ Product(seq) = f[Len(seq)]
    /\ \A k \in 1 .. Len(seq) : f[k] = f[k - 1] * seq[k]

(* The recursion inside Product unrolls. *)
LEMMA ProductRecursion ==
    ASSUME NEW seq \in Seq(Int)
    PROVE  \E f : Multiplies(f, seq)
<1> DEFINE n == Len(seq)
<1> DEFINE Eqn(f) == f = [k \in 0 .. n |-> IF k = 0 THEN 1 ELSE f[k - 1] * seq[k]]
<1> DEFINE F == [q \in (1 .. n) \X Int |-> q[2] * seq[q[1]]]
<1>1. n \in Nat /\ 1 \in Int /\ \A k \in 1 .. n : seq[k] \in Int
    OBVIOUS
<1>2. F \in [(1 .. n) \X Int -> Int]
    BY <1>1
<1>3. PICK g : Unrolls(g, n, Int, 1, F)
  <2>1. F \in Steps(n, Int)
    BY <1>2 DEF Steps
  <2> HIDE DEF F, n
  <2> QED BY <1>1, <2>1, RecursionExists
<1>4. ASSUME NEW k \in 1 .. n
      PROVE  g[k] = g[k - 1] * seq[k]
  <2>1. g[k - 1] \in Int
    <3>1. k - 1 \in 0 .. n
        BY <1>1
    <3> HIDE DEF n, F
    <3> QED BY <1>3, <3>1 DEF Unrolls
  <2>2. F[<<k, g[k - 1]>>] = g[k - 1] * seq[k]
    BY <2>1
  <2> QED BY <1>3, <2>2 DEF Unrolls
<1>5. Eqn(g)
  <2> HIDE DEF F, n
  <2>1. \A k \in 0 .. n : k # 0 => k \in 1 .. n
    BY <1>1
  <2> QED BY <1>3, <1>4, <2>1 DEF Unrolls
<1>6. Eqn(CHOOSE f : Eqn(f))
  <2> HIDE DEF Eqn
  <2> QED BY <1>5
<1> DEFINE h == CHOOSE f : Eqn(f)
<1>7. Product(seq) = h[n]
    BY DEF Product
<1>8. h[0] = 1 /\ \A k \in 1 .. n : h[k] = h[k - 1] * seq[k]
  <2>1. Eqn(h)
    BY <1>6
  <2>2. 0 \in 0 .. n /\ \A k \in 1 .. n : k \in 0 .. n /\ k # 0
    BY <1>1
  <2> HIDE DEF h, n
  <2> QED BY <2>1, <2>2
<1>9. \A k \in 0 .. n : h[k] \in Int
  <2>1. ASSUME NEW k \in 1 .. n, h[k - 1] \in Int PROVE h[k] \in Int
    <3> HIDE DEF h, n
    <3> QED BY <1>1, <1>8, <2>1
  <2>2. h[0] \in Int
    <3> HIDE DEF h
    <3> QED BY <1>1, <1>8
  <2> HIDE DEF h, n
  <2> QED BY <1>1, <2>1, <2>2, RecursionInvariant
<1>10. h \in [0 .. n -> Int]
  <2>1. Eqn(h)
    BY <1>6
  <2>2. h = [k \in 0 .. n |-> h[k]]
    <3> HIDE DEF h, n
    <3> QED BY <2>1
  <2> HIDE DEF h, n
  <2> QED BY <1>9, <2>2
<1> HIDE DEF h
<1> QED BY <1>7, <1>8, <1>10 DEF Multiplies

(* A sum of numbers is one. *)
LEMMA SumAppend ==
    ASSUME NEW seq \in Seq(Int), NEW x \in Int
    PROVE  SumOf(seq) \in Int /\ SumOf(Append(seq, x)) = SumOf(seq) + x
<1> DEFINE n == Len(seq)
           long == Append(seq, x)
<1>1. /\ long \in Seq(Int) /\ Len(long) = n + 1 /\ n \in Nat /\ long[n + 1] = x
      /\ \A k \in 1 .. n : long[k] = seq[k]
    OBVIOUS
<1>2. PICK f : Sums(f, seq)
    BY SumOfRecursion
<1> HIDE DEF long
<1>3. PICK g : Sums(g, long)
    BY <1>1, SumOfRecursion
<1> DEFINE T == {k \in 0 .. n : f[k] = g[k]}
<1>4. 0 \in T
    BY <1>1, <1>2, <1>3 DEF Sums
<1>5. ASSUME NEW k \in 0 .. n - 1, k \in T PROVE k + 1 \in T
  <2>1. k + 1 \in 1 .. n /\ k + 1 \in 1 .. (n + 1) /\ (k + 1) - 1 = k /\ k + 1 \in 0 .. n
    BY <1>1
  <2>2. long[k + 1] = seq[k + 1]
    BY <1>1, <2>1
  <2>3. f[k + 1] = f[k] + seq[k + 1]
    BY <1>2, <2>1 DEF Sums
  <2>4. g[k + 1] = g[k] + long[k + 1]
    BY <1>1, <1>3, <2>1 DEF Sums
  <2> HIDE DEF n
  <2> QED BY <1>5, <2>1, <2>2, <2>3, <2>4
<1>6. n \in T
  <2> HIDE DEF T, n
  <2>1. 0 .. n \subseteq T
    BY <1>1, <1>4, <1>5, IntervalInduction
  <2>2. n \in 0 .. n
    BY <1>1
  <2> QED BY <2>1, <2>2
<1>7. SumOf(seq) = f[n] /\ f[n] \in Int
  <2>1. n \in 0 .. n
    BY <1>1
  <2> QED BY <1>2, <2>1 DEF Sums
<1>8. SumOf(long) = g[n + 1]
    BY <1>1, <1>3 DEF Sums
<1>9. g[n + 1] = g[n] + x
  <2>1. n + 1 \in 1 .. (n + 1) /\ (n + 1) - 1 = n
    BY <1>1
  <2> HIDE DEF n
  <2> QED BY <1>1, <1>3, <2>1 DEF Sums
<1> QED BY <1>6, <1>7, <1>8, <1>9 DEF long

(* So is a product. *)
LEMMA ProductAppend ==
    ASSUME NEW seq \in Seq(Int), NEW x \in Int
    PROVE  Product(seq) \in Int /\ Product(Append(seq, x)) = Product(seq) * x
<1> DEFINE n == Len(seq)
           long == Append(seq, x)
<1>1. /\ long \in Seq(Int) /\ Len(long) = n + 1 /\ n \in Nat /\ long[n + 1] = x
      /\ \A k \in 1 .. n : long[k] = seq[k]
    OBVIOUS
<1>2. PICK f : Multiplies(f, seq)
    BY ProductRecursion
<1> HIDE DEF long
<1>3. PICK g : Multiplies(g, long)
    BY <1>1, ProductRecursion
<1> DEFINE T == {k \in 0 .. n : f[k] = g[k]}
<1>4. 0 \in T
    BY <1>1, <1>2, <1>3 DEF Multiplies
<1>5. ASSUME NEW k \in 0 .. n - 1, k \in T PROVE k + 1 \in T
  <2>1. k + 1 \in 1 .. n /\ k + 1 \in 1 .. (n + 1) /\ (k + 1) - 1 = k /\ k + 1 \in 0 .. n
    BY <1>1
  <2>2. long[k + 1] = seq[k + 1]
    BY <1>1, <2>1
  <2>3. f[k + 1] = f[k] * seq[k + 1]
    BY <1>2, <2>1 DEF Multiplies
  <2>4. g[k + 1] = g[k] * long[k + 1]
    BY <1>1, <1>3, <2>1 DEF Multiplies
  <2> HIDE DEF n
  <2> QED BY <1>5, <2>1, <2>2, <2>3, <2>4
<1>6. n \in T
  <2> HIDE DEF T, n
  <2>1. 0 .. n \subseteq T
    BY <1>1, <1>4, <1>5, IntervalInduction
  <2>2. n \in 0 .. n
    BY <1>1
  <2> QED BY <2>1, <2>2
<1>7. Product(seq) = f[n] /\ f[n] \in Int
  <2>1. n \in 0 .. n
    BY <1>1
  <2> QED BY <1>2, <2>1 DEF Multiplies
<1>8. Product(long) = g[n + 1]
    BY <1>1, <1>3 DEF Multiplies
<1>9. g[n + 1] = g[n] * x
  <2>1. n + 1 \in 1 .. (n + 1) /\ (n + 1) - 1 = n
    BY <1>1
  <2> HIDE DEF n
  <2> QED BY <1>1, <1>3, <2>1 DEF Multiplies
<1> QED BY <1>6, <1>7, <1>8, <1>9 DEF long

(* A sum of one or two. *)
LEMMA SumShort ==
    ASSUME NEW seq \in Seq(Int)
    PROVE  /\ Len(seq) = 1 => SumOf(seq) = seq[1]
           /\ Len(seq) = 2 => SumOf(seq) = seq[1] + seq[2]
<1>1. PICK f : Sums(f, seq)
    BY SumOfRecursion
<1>2. CASE Len(seq) = 1
  <2>1. 1 \in 1 .. Len(seq) /\ 1 - 1 = 0 /\ seq[1] \in Int
    BY <1>2
  <2>2. f[1] = f[0] + seq[1] /\ f[0] = 0 /\ SumOf(seq) = f[1]
    BY <1>1, <1>2, <2>1 DEF Sums
  <2> QED BY <1>2, <2>1, <2>2
<1>3. CASE Len(seq) = 2
  <2>1. 1 \in 1 .. Len(seq) /\ 2 \in 1 .. Len(seq) /\ 1 - 1 = 0 /\ 2 - 1 = 1 /\ seq[1] \in Int /\ seq[2] \in Int
    BY <1>3
  <2>2. f[1] = f[0] + seq[1] /\ f[2] = f[1] + seq[2] /\ f[0] = 0 /\ SumOf(seq) = f[2]
    BY <1>1, <1>3, <2>1 DEF Sums
  <2> QED BY <1>3, <2>1, <2>2
<1> QED BY <1>2, <1>3

(* A product of none or one. *)
LEMMA ProductShort ==
    ASSUME NEW seq \in Seq(Int)
    PROVE  /\ Len(seq) = 0 => Product(seq) = 1
           /\ Len(seq) = 1 => Product(seq) = seq[1]
<1>1. PICK f : Multiplies(f, seq)
    BY ProductRecursion
<1>2. CASE Len(seq) = 0
    BY <1>1, <1>2 DEF Multiplies
<1>3. CASE Len(seq) = 1
  <2>1. 1 \in 1 .. Len(seq) /\ 1 - 1 = 0 /\ seq[1] \in Int
    BY <1>3
  <2>2. f[1] = f[0] * seq[1] /\ f[0] = 1 /\ Product(seq) = f[1]
    BY <1>1, <1>3, <2>1 DEF Multiplies
  <2> QED BY <1>3, <2>1, <2>2
<1> QED BY <1>2, <1>3

\* Each of A is linear in w, with its coefficient in B and the rest in R.
Linearly(A, B, R, w, n) == \A i \in 1 .. n : A[i] = B[i] * w + R[i]

(* A sum of linear forms is the linear form of the sums. *)
LEMMA SumLinear ==
    ASSUME NEW n \in Nat, NEW A \in Seq(Int), NEW B \in Seq(Int), NEW R \in Seq(Int), NEW w \in Int,
           Len(A) = n, Len(B) = n, Len(R) = n, Linearly(A, B, R, w, n)
    PROVE  SumOf(A) = SumOf(B) * w + SumOf(R)
<1>1. /\ A \in Seq(Int) /\ B \in Seq(Int) /\ R \in Seq(Int)
      /\ Len(A) = n /\ Len(B) = n /\ Len(R) = n
    OBVIOUS
<1>2. PICK f : Sums(f, A)
    BY <1>1, SumOfRecursion
<1>3. PICK g : Sums(g, B)
    BY <1>1, SumOfRecursion
<1>4. PICK h : Sums(h, R)
    BY <1>1, SumOfRecursion
<1>5. \A k \in 1 .. n : A[k] = B[k] * w + R[k] /\ B[k] \in Int /\ R[k] \in Int
    BY DEF Linearly
<1>6. \A k \in 0 .. n : g[k] \in Int /\ h[k] \in Int
    BY <1>1, <1>3, <1>4 DEF Sums
<1> DEFINE T == {k \in 0 .. n : f[k] = g[k] * w + h[k]}
<1>7. 0 \in T
  <2>1. f[0] = 0 /\ g[0] = 0 /\ h[0] = 0
    BY <1>2, <1>3, <1>4 DEF Sums
  <2> QED BY <2>1
<1>8. ASSUME NEW k \in 0 .. n - 1, k \in T PROVE k + 1 \in T
  <2>1. k + 1 \in 1 .. n /\ (k + 1) - 1 = k /\ k + 1 \in 0 .. n /\ k \in 0 .. n
    OBVIOUS
  <2>2. f[k + 1] = f[k] + A[k + 1] /\ g[k + 1] = g[k] + B[k + 1] /\ h[k + 1] = h[k] + R[k + 1]
    BY <1>1, <1>2, <1>3, <1>4, <2>1 DEF Sums
  <2>3. f[k] = g[k] * w + h[k]
    BY <1>8
  <2>4. A[k + 1] = B[k + 1] * w + R[k + 1] /\ B[k + 1] \in Int /\ R[k + 1] \in Int
    BY <1>5, <2>1
  <2>5. g[k] \in Int /\ h[k] \in Int
    BY <1>6, <2>1
  <2>6. (g[k] + B[k + 1]) * w = g[k] * w + B[k + 1] * w
    BY <2>4, <2>5
  <2>7. g[k] * w \in Int /\ B[k + 1] * w \in Int
    BY <2>4, <2>5
  <2> DEFINE u == g[k] * w
             v == B[k + 1] * w
             x == g[k + 1] * w
  <2>8. x = u + v
    BY <2>2, <2>6
  <2> HIDE DEF u, v, x
  <2>9. f[k + 1] = (u + h[k]) + (v + R[k + 1]) /\ u \in Int /\ v \in Int
    BY <2>2, <2>3, <2>4, <2>7 DEF u, v
  <2>10. f[k + 1] = x + h[k + 1]
    BY <2>2, <2>4, <2>5, <2>8, <2>9
  <2>11. f[k + 1] = g[k + 1] * w + h[k + 1]
    BY <2>10 DEF x
  <2> QED BY <2>1, <2>11
<1>9. n \in T
  <2> HIDE DEF T
  <2>1. 0 .. n \subseteq T
    BY <1>7, <1>8, IntervalInduction
  <2> QED BY <2>1
<1>10. SumOf(A) = f[n] /\ SumOf(B) = g[n] /\ SumOf(R) = h[n]
    BY <1>1, <1>2, <1>3, <1>4 DEF Sums
<1> QED BY <1>6, <1>9, <1>10

\* The values at y of the variables of a term, in its order.
Values(y, m) == [j \in DOMAIN m |-> y[m[j]]]

(* The values of a term that has grown by a variable. *)
LEMMA ValuesAppend ==
    ASSUME NEW T, NEW y, \A x \in T : y[x] \in Int, NEW m \in Seq(T), NEW x \in T
    PROVE  /\ Values(y, m) \in Seq(Int)
           /\ Values(y, Append(m, x)) = Append(Values(y, m), y[x])
           /\ Product(Values(y, m)) \in Int
           /\ Product(Values(y, Append(m, x))) = Product(Values(y, m)) * y[x]
<1> DEFINE n == Len(m)
           v == Values(y, m)
           u == Append(m, x)
<1>1. /\ n \in Nat /\ DOMAIN m = 1 .. n /\ \A j \in 1 .. n : m[j] \in T
      /\ DOMAIN u = 1 .. n + 1 /\ u[n + 1] = x /\ \A j \in 1 .. n : u[j] = m[j]
    OBVIOUS
<1> HIDE DEF u
<1>2. v = [j \in 1 .. n |-> y[m[j]]]
    BY <1>1 DEF Values
<1>3. v \in Seq(Int) /\ Len(v) = n
  <2>1. v \in [1 .. n -> Int]
    BY <1>1, <1>2
  <2> HIDE DEF v, n
  <2> QED BY <1>1, <2>1
<1>4. Values(y, u) = [j \in 1 .. n + 1 |-> y[u[j]]]
    BY <1>1 DEF Values
<1> HIDE DEF v, n
<1>5. Append(v, y[x]) = [j \in 1 .. n + 1 |-> IF j = n + 1 THEN y[x] ELSE v[j]]
  <2>1. y[x] \in Int
    OBVIOUS
  <2> QED BY <1>1, <1>3, <2>1
<1>6. ASSUME NEW j \in 1 .. n + 1 PROVE y[u[j]] = IF j = n + 1 THEN y[x] ELSE v[j]
  <2>1. j # n + 1 => j \in 1 .. n
    BY <1>1
  <2> QED BY <1>1, <1>2, <2>1
<1>7. Values(y, u) = Append(v, y[x])
    BY <1>4, <1>5, <1>6
<1>8. Product(v) \in Int /\ Product(Append(v, y[x])) = Product(v) * y[x]
    BY <1>3, ProductAppend
<1> QED BY <1>3, <1>7, <1>8 DEF v, u

(* The next prefix. *)
LEMMA PrefixNext ==
    ASSUME NEW T, NEW m \in Seq(T), NEW k \in 0 .. Len(m) - 1
    PROVE  /\ Prefix(m, k) \in Seq(T) /\ m[k + 1] \in T
           /\ Prefix(m, k + 1) = Append(Prefix(m, k), m[k + 1])
<1> DEFINE u == Prefix(m, k)
           v == Prefix(m, k + 1)
<1>1. Len(m) \in Nat /\ k \in Nat /\ k <= Len(m) /\ k + 1 <= Len(m) /\ \A i \in 1 .. Len(m) : m[i] \in T
    OBVIOUS
<1>2. IsSeq(m)
  <2>1. \A i \in 1 .. Len(m) : m[i] \in Range(m)
    BY DEF Range
  <2> QED BY <2>1 DEF IsSeq
<1>3. u = [i \in 1 .. k |-> m[i]] /\ v = [i \in 1 .. k + 1 |-> m[i]]
  <2>1. k \in 0 .. Len(m) /\ k + 1 \in 0 .. Len(m)
    BY <1>1
  <2> QED BY <1>2, <2>1, PrefixSeq
<1> HIDE DEF u, v
<1>4. u \in [1 .. k -> T]
  <2>1. \A i \in 1 .. k : m[i] \in T
    BY <1>1
  <2> QED BY <1>3, <2>1
<1>5. u \in Seq(T) /\ Len(u) = k
    BY <1>1, <1>4
<1>6. m[k + 1] \in T
    BY <1>1
<1>7. Append(u, m[k + 1]) = [i \in 1 .. k + 1 |-> IF i = k + 1 THEN m[k + 1] ELSE u[i]]
    BY <1>5, <1>6
<1>8. \A i \in 1 .. k + 1 : m[i] = IF i = k + 1 THEN m[k + 1] ELSE u[i]
  <2> SUFFICES ASSUME NEW i \in 1 .. k + 1, i # k + 1 PROVE m[i] = u[i]
    OBVIOUS
  <2>1. i \in 1 .. k
    BY <1>1
  <2> QED BY <1>3, <2>1
<1>9. v = Append(u, m[k + 1])
    BY <1>3, <1>7, <1>8
<1> QED BY <1>5, <1>6, <1>9 DEF u, v

\* Each element is in one of two sets.
Parted(m, S, R) == \A k \in 1 .. Len(m) : m[k] \in S <=> m[k] \notin R

(* The product over a term is that over two parts of it. *)
LEMMA ProductSplit ==
    ASSUME NEW T, NEW y, \A x \in T : y[x] \in Int, NEW m \in Seq(T), NEW S, NEW R, Parted(m, S, R)
    PROVE  /\ Product(Values(y, Selected(m, S))) \in Int
           /\ Product(Values(y, m)) = Product(Values(y, Selected(m, S))) * Product(Values(y, Selected(m, R)))
<1> DEFINE n == Len(m)
           P(u) == Product(Values(y, u))
           Split(u) == /\ P(u) \in Int /\ P(Selected(u, S)) \in Int /\ P(Selected(u, R)) \in Int
                       /\ P(u) = P(Selected(u, S)) * P(Selected(u, R))
           K == {k \in 0 .. n : Split(Prefix(m, k))}
<1>1. n \in Nat /\ m \in Seq(T)
    OBVIOUS
<1>2. Prefix(m, 0) = <<>> /\ Prefix(m, n) = m
  <2>1. IsSeq(m)
    <3>1. \A i \in 1 .. Len(m) : m[i] \in Range(m)
        BY DEF Range
    <3> QED BY <3>1 DEF IsSeq
  <2>2. 0 \in 0 .. Len(m)
    OBVIOUS
  <2>3. Len(Prefix(m, 0)) = 0 /\ IsSeq(Prefix(m, 0))
    BY <2>1, <2>2, PrefixSeq
  <2>4. Prefix(m, 0) = <<>>
    BY <2>3 DEF IsSeq
  <2> QED BY <2>1, <2>4, PrefixWhole
<1>3. Split(<<>>)
  <2>1. Values(y, <<>>) = <<>>
    BY DEF Values
  <2>2. <<>> \in Seq(Int) /\ Len(<<>>) = 0
    OBVIOUS
  <2>3. P(<<>>) = 1
    BY <2>1, <2>2, ProductShort
  <2>4. Selected(<<>>, S) = <<>> /\ Selected(<<>>, R) = <<>>
    BY SelectedEmpty
  <2> HIDE DEF P
  <2> QED BY <2>3, <2>4
<1>4. ASSUME NEW u \in Seq(T), NEW x \in T, Split(u), x \in S <=> x \notin R
      PROVE  Split(Append(u, x))
  <2>1. /\ P(Append(u, x)) = P(u) * y[x] /\ y[x] \in Int
    BY <1>4, ValuesAppend
  <2>2. ASSUME NEW v \in Seq(T) PROVE P(v) \in Int /\ P(Append(v, x)) = P(v) * y[x]
    BY <2>2, ValuesAppend
  <2>3. Selected(u, S) \in Seq(T) /\ Selected(u, R) \in Seq(T)
    <3>1. Selected(u, S) \in Seq(T \cap S) /\ Selected(u, R) \in Seq(T \cap R)
        BY SelectedSeq
    <3>2. ASSUME NEW Q, NEW w \in Seq(T \cap Q) PROVE w \in Seq(T)
        OBVIOUS
    <3> QED BY <3>1, <3>2
  <2>4. /\ Selected(Append(u, x), S) = IF x \in S THEN Append(Selected(u, S), x) ELSE Selected(u, S)
        /\ Selected(Append(u, x), R) = IF x \in R THEN Append(Selected(u, R), x) ELSE Selected(u, R)
    BY SelectedAppend
  <2> DEFINE a == P(Selected(u, S))
             b == P(Selected(u, R))
             w == y[x]
  <2>5. a \in Int /\ b \in Int /\ w \in Int /\ P(u) = a * b
    BY <1>4, <2>1
  <2>6. CASE x \in S
    <3>1. P(Selected(Append(u, x), S)) = a * w /\ P(Selected(Append(u, x), R)) = b
        BY <1>4, <2>2, <2>3, <2>4, <2>6
    <3>2. P(Append(u, x)) = (a * b) * w
        BY <2>1, <2>5
    <3> HIDE DEF a, b, w, P
    <3>3. (a * b) * w = (a * w) * b /\ a * w \in Int /\ (a * w) * b \in Int
        BY <2>5
    <3> QED BY <2>5, <3>1, <3>2, <3>3
  <2>7. CASE x \notin S
    <3>1. P(Selected(Append(u, x), S)) = a /\ P(Selected(Append(u, x), R)) = b * w
        BY <1>4, <2>2, <2>3, <2>4, <2>7
    <3>2. P(Append(u, x)) = (a * b) * w
        BY <2>1, <2>5
    <3> HIDE DEF a, b, w, P
    <3>3. (a * b) * w = a * (b * w) /\ b * w \in Int /\ a * (b * w) \in Int
        BY <2>5
    <3> QED BY <2>5, <3>1, <3>2, <3>3
  <2> QED BY <2>6, <2>7
<1>5. 0 \in K
    BY <1>2, <1>3
<1>6. ASSUME NEW k \in 0 .. n - 1, k \in K PROVE k + 1 \in K
  <2>1. /\ Prefix(m, k) \in Seq(T) /\ m[k + 1] \in T
        /\ Prefix(m, k + 1) = Append(Prefix(m, k), m[k + 1])
    BY PrefixNext
  <2>2. k + 1 \in 1 .. n /\ k + 1 \in 0 .. n
    BY <1>1
  <2>3. m[k + 1] \in S <=> m[k + 1] \notin R
    BY <2>2 DEF Parted
  <2>4. Split(Prefix(m, k))
    BY <1>6
  <2> HIDE DEF Split
  <2>5. Split(Prefix(m, k + 1))
    BY <1>4, <2>1, <2>3, <2>4
  <2> QED BY <2>2, <2>5
<1>7. n \in K
  <2> HIDE DEF K, n
  <2>1. 0 .. n \subseteq K
    BY <1>1, <1>5, <1>6, IntervalInduction
  <2> QED BY <1>1, <2>1
<1>8. Split(m)
  <2> HIDE DEF Split
  <2> QED BY <1>2, <1>7
<1> HIDE DEF P
<1>9. P(Selected(m, S)) \in Int /\ P(m) = P(Selected(m, S)) * P(Selected(m, R))
    BY <1>8
<1> QED BY <1>9 DEF P

(* The terms of a key. *)
LEMMA KeyTerms ==
    ASSUME NEW t, IsTable(t), NEW v \in DOMAIN t.key, NEW y,
           \A n \in Variables(t.key[v]) : y[n] \in 0 .. (t.p - 1)
    PROVE  /\ t.key[v] \in Seq(Range(t.key[v])) /\ DOMAIN t.key[v] = 1 .. Len(t.key[v])
           /\ Len(t.key[v]) \in Nat /\ t.p \in Nat \ {0, 1}
           /\ \A i \in DOMAIN t.key[v] :
                 /\ t.key[v][i].c \in 1 .. (t.p - 1)
                 /\ t.key[v][i].m \in Seq(Variables(t.key[v]))
                 /\ Values(y, t.key[v][i].m) \in Seq(Int)
                 /\ Len(Values(y, t.key[v][i].m)) = Len(t.key[v][i].m)
                 /\ Product(Values(y, t.key[v][i].m)) \in Int
<1> DEFINE key == t.key[v]
           p == t.p
           V == Variables(key)
<1>1. /\ p \in Nat \ {0, 1} /\ key \in Seq(Range(key))
      /\ \A i \in DOMAIN key : key[i].c \in 1 .. (p - 1) /\ key[i].m \in Seq(Range(key[i].m))
    BY DEF IsTable
<1>2. \A n \in V : y[n] \in 0 .. (p - 1)
    OBVIOUS
<1>3. V = UNION {ToSet(key[i].m) : i \in DOMAIN key}
    BY DEF Variables
<1> HIDE DEF key, p, V
<1>4. ASSUME NEW i \in DOMAIN key
      PROVE  /\ key[i].m \in Seq(V) /\ Values(y, key[i].m) \in Seq(Int)
             /\ Len(Values(y, key[i].m)) = Len(key[i].m) /\ Product(Values(y, key[i].m)) \in Int
  <2> DEFINE m == key[i].m
             n == Len(m)
  <2>1. m \in Seq(Range(m)) /\ n \in Nat /\ DOMAIN m = 1 .. n
    BY <1>1
  <2>2. \A j \in DOMAIN m : m[j] \in V
    BY <1>3 DEF ToSet
  <2> HIDE DEF m, n
  <2>3. m \in [1 .. n -> V]
    BY <2>1, <2>2
  <2>4. Values(y, m) = [j \in 1 .. n |-> y[m[j]]]
    BY <2>1 DEF Values
  <2>5. \A j \in 1 .. n : y[m[j]] \in Int
    <3>1. \A j \in 1 .. n : y[m[j]] \in 0 .. (p - 1)
        BY <1>2, <2>1, <2>2
    <3> QED BY <1>1, <3>1
  <2>6. Values(y, m) \in [1 .. n -> Int]
    BY <2>4, <2>5
  <2>7. Values(y, m) \in Seq(Int) /\ Len(Values(y, m)) = n
    BY <2>1, <2>6
  <2>8. Product(Values(y, m)) \in Int
    <3>1. 0 \in Int
        OBVIOUS
    <3> QED BY <2>7, <3>1, ProductAppend
  <2>9. m \in Seq(V)
    BY <2>1, <2>3
  <2> QED BY <2>7, <2>8, <2>9 DEF m, n
<1>5. DOMAIN key = 1 .. Len(key) /\ Len(key) \in Nat
    BY <1>1
<1> QED BY <1>1, <1>4, <1>5 DEF key, p, V

(* The value of a key as the sum of its terms'. *)
LEMMA ValueIs ==
    ASSUME NEW key, NEW y, NEW p
    PROVE  ValueAt(key, y, p) = SumOf([i \in DOMAIN key |-> key[i].c * Product(Values(y, key[i].m))]) % p
BY DEF ValueAt, Values

(* A key that pins a variable vanishes where the variable has its constant. *)
LEMMA PinSolved ==
    ASSUME NEW t, IsTable(t), NEW v \in DOMAIN t.key, SingleVarEq(t.key[v], t.p) # <<>>, NEW y,
           \A n \in Variables(t.key[v]) : y[n] \in 0 .. (t.p - 1)
    PROVE  /\ SingleVarEq(t.key[v], t.p)[1] \in Variables(t.key[v])
           /\ ValueAt(t.key[v], y, t.p) = 0 <=> y[SingleVarEq(t.key[v], t.p)[1]] = SingleVarEq(t.key[v], t.p)[2]
<1> DEFINE key == t.key[v]
           p == t.p
           A == [i \in DOMAIN key |-> key[i].c * Product(Values(y, key[i].m))]
           eq == SingleVarEq(key, p)
<1>1. /\ DOMAIN key = 1 .. Len(key) /\ Len(key) \in Nat /\ p \in Nat \ {0, 1}
      /\ \A i \in DOMAIN key :
            /\ key[i].c \in 1 .. (p - 1) /\ key[i].m \in Seq(Variables(key))
            /\ Values(y, key[i].m) \in Seq(Int) /\ Len(Values(y, key[i].m)) = Len(key[i].m)
            /\ Product(Values(y, key[i].m)) \in Int
    BY KeyTerms
<1>2. \A a \in 1 .. (p - 1) : \E b \in 1 .. (p - 1) : (a * b) % p = 1
    BY DEF IsTable
<1>3. \A n \in Variables(key) : y[n] \in 0 .. (p - 1)
    OBVIOUS
<1>4. ValueAt(key, y, p) = SumOf(A) % p
    BY ValueIs
<1>5. eq # <<>>
    OBVIOUS
<1>6. eq = IF Len(key) = 1 /\ Len(key[1].m) = 1 THEN <<key[1].m[1], 0>>
           ELSE IF Len(key) = 2 /\ key[1].m = <<>> /\ Len(key[2].m) = 1
                THEN <<key[2].m[1], ((p - key[1].c) * FieldInverse(key[2].c, p)) % p>>
                ELSE <<>>
    BY DEF SingleVarEq
<1> HIDE DEF key, p, eq
<1>7. A \in Seq(Int) /\ Len(A) = Len(key) /\ \A i \in 1 .. Len(key) : A[i] = key[i].c * Product(Values(y, key[i].m))
  <2>1. \A i \in 1 .. Len(key) : key[i].c * Product(Values(y, key[i].m)) \in Int
    <3> SUFFICES ASSUME NEW i \in 1 .. Len(key) PROVE key[i].c * Product(Values(y, key[i].m)) \in Int
        OBVIOUS
    <3>1. key[i].c \in Int /\ Product(Values(y, key[i].m)) \in Int
        BY <1>1
    <3> QED BY <3>1
  <2>2. A \in [1 .. Len(key) -> Int]
    BY <1>1, <2>1
  <2> QED BY <1>1, <2>2
<1>8. ASSUME NEW i \in DOMAIN key, Len(key[i].m) = 1
      PROVE  /\ key[i].m[1] \in Variables(key) /\ y[key[i].m[1]] \in 0 .. (p - 1)
             /\ Product(Values(y, key[i].m)) = y[key[i].m[1]]
  <2>1. key[i].m[1] \in Variables(key) /\ 1 \in DOMAIN key[i].m
    BY <1>1, <1>8
  <2>2. Product(Values(y, key[i].m)) = Values(y, key[i].m)[1]
    BY <1>1, <1>8, ProductShort
  <2>3. Values(y, key[i].m)[1] = y[key[i].m[1]]
    BY <2>1 DEF Values
  <2> QED BY <1>3, <2>1, <2>2, <2>3
<1>9. CASE Len(key) = 1 /\ Len(key[1].m) = 1
  <2>1. 1 \in DOMAIN key
    BY <1>1, <1>9
  <2> DEFINE x == key[1].m[1]
             a == key[1].c
  <2>2. eq = <<x, 0>>
    BY <1>6, <1>9
  <2>3. SumOf(A) = A[1]
    BY <1>7, <1>9, SumShort
  <2>4. A[1] = a * y[x]
    BY <1>7, <1>8, <1>9, <2>1
  <2>5. a \in 1 .. (p - 1) /\ x \in Variables(key) /\ y[x] \in 0 .. (p - 1) /\ 0 \in 0 .. (p - 1)
    BY <1>1, <1>8, <1>9, <2>1
  <2> DEFINE w == y[x]
             z == FieldInverse(a, p)
  <2> HIDE DEF a, w, A
  <2>6. (0 + a * w) % p = 0 <=> w = ((p - 0) * z) % p
    <3>1. Solves(w, a, 0, p) <=> w = Solution(a, 0, p)
        BY <1>1, <1>2, <2>5, LinearSolved DEF w
    <3> QED BY <3>1 DEF Solves, Solution
  <2>7. z \in 1 .. (p - 1)
    BY <1>1, <1>2, <2>5, InverseIs
  <2> HIDE DEF z
  <2>8. ((p - 0) * z) % p = 0
    <3>1. (p - 0) * z - 0 = z * p /\ z \in Int /\ (p - 0) * z \in Int
        BY <1>1, <2>7
    <3>2. Cong((p - 0) * z, 0, p)
        BY <3>1, CongShown
    <3>3. p \in Nat \ {0}
        BY <1>1
    <3> QED BY <2>5, <3>1, <3>2, <3>3, ResidueIs
  <2>9. 0 + a * w = a * w
    BY <1>1, <2>5 DEF w
  <2>10. ValueAt(key, y, p) = 0 <=> w = 0
    BY <1>4, <2>3, <2>4, <2>6, <2>8, <2>9 DEF w
  <2>11. eq[1] = x /\ eq[2] = 0
    BY <2>2
  <2> QED BY <2>5, <2>10, <2>11 DEF w, key, p, eq
<1>10. CASE Len(key) = 2 /\ key[1].m = <<>> /\ Len(key[2].m) = 1
  <2>1. 1 \in DOMAIN key /\ 2 \in DOMAIN key /\ Len(key) # 1
    BY <1>1, <1>10
  <2> DEFINE x == key[2].m[1]
             r == key[1].c
             a == key[2].c
             w == y[x]
             c == ((p - r) * FieldInverse(a, p)) % p
  <2>2. eq = <<x, c>>
    BY <1>6, <1>10, <2>1
  <2>3. SumOf(A) = A[1] + A[2]
    BY <1>7, <1>10, SumShort
  <2>4. Product(Values(y, key[1].m)) = 1
    <3>1. Len(key[1].m) = 0
        BY <1>10
    <3> QED BY <1>1, <2>1, <3>1, ProductShort
  <2>5. A[1] = r * 1 /\ A[2] = a * w
    BY <1>7, <1>8, <1>10, <2>1, <2>4
  <2>6. a \in 1 .. (p - 1) /\ r \in 1 .. (p - 1) /\ x \in Variables(key) /\ w \in 0 .. (p - 1)
    BY <1>1, <1>8, <1>10, <2>1
  <2> HIDE DEF a, w, A, r
  <2>7. r \in 0 .. (p - 1)
    BY <1>1, <2>6
  <2>8. (r + a * w) % p = 0 <=> w = c
    <3>1. Solves(w, a, r, p) <=> w = Solution(a, r, p)
        BY <1>1, <1>2, <2>6, <2>7, LinearSolved
    <3> QED BY <3>1 DEF Solves, Solution
  <2>9. r * 1 = r
    BY <1>1, <2>6
  <2>10. ValueAt(key, y, p) = 0 <=> w = c
    BY <1>4, <2>3, <2>5, <2>8, <2>9
  <2> HIDE DEF c
  <2>11. eq[1] = x /\ eq[2] = c
    BY <2>2
  <2> QED BY <2>6, <2>10, <2>11 DEF w, key, p, eq
<1> QED BY <1>5, <1>6, <1>9, <1>10

-------------------------------------------------------------------------------
(* What is propagated. *)

(* What pins a variable is a positive fact that holds only where the        *)
(* variable has its constant.                                               *)
LEMMA PinsAre ==
    ASSUME Shape, InnerOk(facts, degraded, inc, gens, Trail), NEW x \in DOMAIN Pins
    PROVE  /\ Pins[x][2] \in Range(facts[1]) /\ Pins[x][2] \in Range(Trail)
           /\ x \in NamesOf(setup.tables[1])
           /\ \A y \in Points : y \in world[Pins[x][2]] => y[x] = Pins[x][1]
<1> DEFINE f == facts[1]
           pinning == {i \in DOMAIN f : PinOf(f[i]) # <<>>}
           here == {i \in pinning : PinOf(f[i])[1] = x}
           k == Max(here)
           l == f[k]
<1>1. setup \in SetUps /\ 1 \in Tables
    BY Kinds DEF Shape
<1>2. f \in Seq(Int) /\ Range(f) \subseteq Range(Trail)
  <2>1. f = MeantFor(1, Trail) /\ Trail \in Seq(Int)
    BY <1>1 DEF InnerOk, IsMeant, Shape, Once
  <2>2. MeantFor(1, Trail) \in Seq(Int)
    BY <2>1, MeantSeq
  <2> QED BY <1>1, <2>1, <2>2, FactsAre
<1>3. /\ x \in {PinOf(f[i])[1] : i \in pinning}
      /\ Pins[x] = <<PinOf(l)[2], l>>
    BY DEF Pins
<1>4. here # {}
    BY <1>3
<1>5. k \in here
  <2>1. DOMAIN f = 1 .. Len(f) /\ Len(f) \in Nat
    BY <1>2
  <2>2. here \in SUBSET (1 .. Len(f))
    BY <2>1
  <2> HIDE DEF here, f
  <2> QED BY <1>4, <2>1, <2>2, MaxMember
<1>6. l \in Range(f) /\ PinOf(l) # <<>> /\ PinOf(l)[1] = x
    BY <1>5 DEF Range
<1>7. Pins[x][1] = PinOf(l)[2] /\ Pins[x][2] = l
    BY <1>3
<1> HIDE DEF k, l, here, pinning, f
<1>8. l > 0 /\ HasAtom(1, l) /\ PinOf(l) = SingleVarEq(Key(1, l), Prime(1))
    BY <1>6 DEF PinOf
<1>9. l \in DOMAIN world /\ l \in Int /\ l \in Range(Trail)
    BY <1>2, <1>6, AssertedIs, WorldIs
<1>10. Abs(l) = l
    BY <1>8, <1>9 DEF Abs
<1> DEFINE t == setup.tables[1]
<1>11. IsTable(t) /\ l \in DOMAIN t.key /\ Key(1, l) = t.key[l] /\ Prime(1) = t.p
    BY <1>1, <1>8, TablesApart DEF HasAtom, Key, Prime
<1>12. Variables(t.key[l]) \subseteq NamesOf(t)
    BY <1>1, <1>8, <1>11, NamesIn
<1>13. ASSUME NEW y \in Points PROVE \A n \in Variables(t.key[l]) : y[n] \in 0 .. (t.p - 1)
    BY <1>1, <1>12, PointIs DEF Field
<1>14. ASSUME NEW y \in Points
       PROVE  /\ x \in Variables(t.key[l])
              /\ y \in world[l] => y[x] = PinOf(l)[2]
  <2> HIDE DEF t
  <2>1. SingleVarEq(t.key[l], t.p) # <<>> /\ SingleVarEq(t.key[l], t.p) = PinOf(l)
    BY <1>6, <1>8, <1>11
  <2>2. /\ PinOf(l)[1] \in Variables(t.key[l])
        /\ ValueAt(t.key[l], y, t.p) = 0 <=> y[PinOf(l)[1]] = PinOf(l)[2]
    BY <1>11, <1>13, <2>1, PinSolved
  <2>3. y \in world[l] => ValueAt(t.key[l], y, t.p) = 0
    BY <1>1, <1>8, <1>9, <1>10, <1>11, Meaning
  <2> QED BY <1>6, <2>2, <2>3
<1>15. \E y : y \in Points
  <2> DEFINE y == [n \in AllNames |-> 0]
  <2>3. \A s \in Tables : \A n \in NamesOf(setup.tables[s]) : n \in AllNames
    BY DEF AllNames
  <2>4. y = [n \in AllNames |-> y[n]] /\ \A n \in AllNames : y[n] = 0
    OBVIOUS
  <2> HIDE DEF y
  <2>5. y \in Points
    BY <1>1, <2>3, <2>4, PointIs, TablesApart
  <2> QED BY <2>5
<1>16. x \in NamesOf(t)
    BY <1>12, <1>14, <1>15
<1> QED BY <1>6, <1>7, <1>9, <1>14, <1>16 DEF f

(* Where the reasons hold, the variables have the constants they are pinned *)
(* to.                                                                      *)
LEMMA SourcesPin ==
    ASSUME Shape, InnerOk(facts, degraded, inc, gens, Trail), NEW V
    PROVE  /\ Sources(V, Pins) \subseteq Range(Trail)
           /\ \A y \in Common(Sources(V, Pins)) : \A x \in V \cap DOMAIN Pins : y[x] = Pins[x][1]
<1> DEFINE P == Pins
<1>1. \A x \in DOMAIN P : P[x][2] \in Range(Trail)
    BY PinsAre
<1>2. ASSUME NEW y \in Common(Sources(V, P)), NEW x \in V \cap DOMAIN P PROVE y[x] = P[x][1]
  <2>1. y \in Points /\ P[x][2] \in Sources(V, P)
    BY DEF Common, Sources
  <2>2. y \in world[P[x][2]]
    BY <2>1 DEF Common
  <2> QED BY <2>1, <2>2, PinsAre
<1> HIDE DEF P
<1>3. Sources(V, P) \subseteq Range(Trail)
    BY <1>1 DEF Sources
<1> QED BY <1>2, <1>3 DEF P

(* An atom's literals are literals of the world, and split its points.      *)
LEMMA AtomMeans ==
    ASSUME Shape, NEW v \in DOMAIN setup.tables[1].key
    PROVE  /\ HasAtom(1, v) /\ v \in DOMAIN world /\ -v \in DOMAIN world
           /\ Variables(Key(1, v)) \subseteq NamesOf(setup.tables[1])
           /\ \A y \in Points : /\ y \in world[v] <=> ValueAt(Key(1, v), y, Prime(1)) = 0
                                /\ y \in world[-v] <=> ValueAt(Key(1, v), y, Prime(1)) # 0
<1>1. setup \in SetUps /\ 1 \in Tables /\ HasAtom(1, v)
    BY Kinds DEF Shape, HasAtom
<1>2. v \in 1 .. setup.tables[1].slots /\ setup.tables[1].slots <= setup.vars /\ setup.tables[1].slots \in Nat
    BY <1>1, TheoryAssumption DEF Tables, IsTable
<1>3. setup.vars \in Nat \ {0} /\ DOMAIN world = (-setup.vars .. setup.vars) \ {0}
    BY WorldIs
<1>4. v \in DOMAIN world /\ -v \in DOMAIN world /\ v > 0 /\ ~(-v > 0) /\ v \in Int
    BY <1>2, <1>3
<1>5. Abs(v) = v /\ Abs(-v) = v
    BY <1>4 DEF Abs
<1>6. \A y \in Points : /\ y \in world[v] <=> ValueAt(Key(1, v), y, Prime(1)) = 0
                        /\ y \in world[-v] <=> ValueAt(Key(1, v), y, Prime(1)) # 0
  <2> SUFFICES ASSUME NEW y \in Points
               PROVE  /\ y \in world[v] <=> ValueAt(Key(1, v), y, Prime(1)) = 0
                      /\ y \in world[-v] <=> ValueAt(Key(1, v), y, Prime(1)) # 0
    OBVIOUS
  <2>1. y \in world[v] <=> ((v > 0) <=> ValueAt(Key(1, Abs(v)), y, Prime(1)) = 0)
    BY <1>1, <1>4, <1>5, Meaning
  <2>2. y \in world[-v] <=> ((-v > 0) <=> ValueAt(Key(1, Abs(-v)), y, Prime(1)) = 0)
    <3> DEFINE m == -v
    <3>1. m \in DOMAIN world /\ HasAtom(1, Abs(m))
        BY <1>1, <1>4, <1>5
    <3> HIDE DEF m
    <3>2. y \in world[m] <=> ((m > 0) <=> ValueAt(Key(1, Abs(m)), y, Prime(1)) = 0)
        BY <1>1, <3>1, Meaning
    <3> QED BY <3>2 DEF m
  <2> DEFINE z == ValueAt(Key(1, v), y, Prime(1)) = 0
  <2>3. /\ y \in world[v] <=> ((v > 0) <=> z)
        /\ y \in world[-v] <=> ((-v > 0) <=> z)
    BY <1>5, <2>1, <2>2
  <2> HIDE DEF z
  <2>4. /\ y \in world[v] <=> z
        /\ y \in world[-v] <=> ~z
    BY <1>4, <2>3
  <2> QED BY <2>4 DEF z
<1>7. Variables(Key(1, v)) \subseteq NamesOf(setup.tables[1])
    BY <1>1, NamesIn
<1> QED BY <1>1, <1>4, <1>6, <1>7

\* A derived literal is entailed by its reason, and that is asserted.
DerivedOk(d) ==
    /\ d.reason # {} /\ d.reason \subseteq Range(Trail)
    /\ d.lit \in DOMAIN world /\ Common(d.reason) \subseteq world[d.lit]

(* What the first tier derives: its atom has its value at the pins.         *)
LEMMA Tier1Right ==
    ASSUME Shape, InnerOk(facts, degraded, inc, gens, Trail), NEW d \in Tier1(Pins)
    PROVE  DerivedOk(d)
<1> DEFINE P == Pins
           at == [x \in DOMAIN P |-> P[x][1]]
<1>1. PICK v \in DOMAIN setup.tables[1].key :
        /\ Variables(Key(1, v)) # {} /\ Variables(Key(1, v)) \subseteq DOMAIN P
        /\ d = [lit |-> IF ValueAt(Key(1, v), at, Prime(1)) = 0 THEN v ELSE -v,
                reason |-> Sources(Variables(Key(1, v)), P)]
    BY DEF Tier1
<1> DEFINE V == Variables(Key(1, v))
           z == ValueAt(Key(1, v), at, Prime(1)) = 0
<1>2. d.lit = IF z THEN v ELSE -v
    BY <1>1
<1>3. d.reason = Sources(V, P)
    BY <1>1
<1>4. d.reason # {}
    BY <1>1, <1>3 DEF Sources
<1>5. /\ Sources(V, P) \subseteq Range(Trail)
      /\ \A y \in Common(Sources(V, P)) : \A x \in V \cap DOMAIN P : y[x] = P[x][1]
    BY SourcesPin
<1>6. ASSUME NEW y \in Common(d.reason)
      PROVE  y \in Points /\ (ValueAt(Key(1, v), y, Prime(1)) = 0 <=> z)
  <2>1. \A x \in V : y[x] = at[x]
    BY <1>1, <1>3, <1>5, <1>6
  <2> HIDE DEF at, P
  <2>2. ValueAt(Key(1, v), y, Prime(1)) = ValueAt(Key(1, v), at, Prime(1))
    BY <2>1, ValueSame
  <2>3. y \in Points
    BY <1>6 DEF Common
  <2> QED BY <2>2, <2>3
<1>7. /\ v \in DOMAIN world /\ -v \in DOMAIN world
      /\ \A y \in Points : /\ y \in world[v] <=> ValueAt(Key(1, v), y, Prime(1)) = 0
                           /\ y \in world[-v] <=> ValueAt(Key(1, v), y, Prime(1)) # 0
    BY AtomMeans
<1> HIDE DEF z, V, P
<1>8. Common(d.reason) \subseteq world[d.lit]
    BY <1>2, <1>6, <1>7
<1> QED BY <1>2, <1>3, <1>4, <1>5, <1>7, <1>8 DEF DerivedOk

\* The pinned variables of V have their constants at y.
PinnedAt(y, V, P) == \A x \in V \cap DOMAIN P : y[x] = P[x][1]

\* The pins leave one variable.
LeavesOne(V, P, z) == V \ DOMAIN P = {z}

\* The value of a monomial, with its open part and without.
SplitsAt(t, P, y, z) ==
    /\ Open(t, P) = <<>> => PinnedValue(t.m, P) = Product(Values(y, t.m))
    /\ Open(t, P) # <<>> => /\ PinnedValue(Closed(t, P), P) \in Int
                            /\ Product(Values(y, t.m)) = PinnedValue(Closed(t, P), P) * y[z]

(* A term is a linear form of the one variable the pins leave open: its     *)
(* open part is at most that variable, once.                                *)
LEMMA TermSplit ==
    ASSUME NEW t, NEW P, NEW V, t.m \in Seq(V), t.c \in Int, NEW y, \A x \in V : y[x] \in Int,
           PinnedAt(y, V, P), NEW z \in V, LeavesOne(V, P, z), Len(Open(t, P)) <= 1
    PROVE  SplitsAt(t, P, y, z)
<1> DEFINE m == t.m
           S == DOMAIN P
           R == ToSet(m) \ DOMAIN P
           o == Selected(m, R)
           c == Selected(m, S)
<1>1. Open(t, P) = o /\ Closed(t, P) = c
    BY DEF Open, Closed
<1>2. m \in Seq(V) /\ DOMAIN m = 1 .. Len(m) /\ ToSet(m) = Range(m)
    BY DEF ToSet, Range
<1>3. \A k \in 1 .. Len(m) : m[k] \in V /\ m[k] \in Range(m) /\ (m[k] \in S <=> m[k] \notin R)
    BY <1>2 DEF Range
<1>4. ASSUME NEW u, \A j \in DOMAIN u : u[j] \in V \cap DOMAIN P
      PROVE  PinnedValue(u, P) = Product(Values(y, u))
  <2>1. \A j \in DOMAIN u : P[u[j]][1] = y[u[j]]
    BY <1>4 DEF PinnedAt
  <2>2. [j \in DOMAIN u |-> P[u[j]][1]] = Values(y, u)
    BY <2>1 DEF Values
  <2> QED BY <2>2 DEF PinnedValue
<1>5. o \in Seq(V \cap R) /\ Range(o) = Range(m) \cap R /\ c \in Seq(V \cap S)
  <2> HIDE DEF R, S, m
  <2> QED BY <1>2, SelectedSeq, SelectedRange
<1>6. /\ Product(Values(y, c)) \in Int /\ Product(Values(y, m)) = Product(Values(y, c)) * Product(Values(y, o))
  <2>1. Parted(m, S, R)
    BY <1>3 DEF Parted
  <2>2. m \in Seq(V) /\ \A x \in V : y[x] \in Int
    BY <1>2
  <2> HIDE DEF R, S, m
  <2> QED BY <2>1, <2>2, ProductSplit
<1>7. CASE o = <<>>
  <2>1. Range(o) = {}
    BY <1>7 DEF Range
  <2>2. \A j \in DOMAIN m : m[j] \in V \cap DOMAIN P
    <3> SUFFICES ASSUME NEW j \in DOMAIN m PROVE m[j] \in V \cap DOMAIN P
        OBVIOUS
    <3>1. m[j] \in V /\ m[j] \in Range(m) /\ m[j] \notin R
        BY <1>2, <1>3, <1>5, <2>1
    <3> QED BY <1>2, <3>1
  <2>3. PinnedValue(m, P) = Product(Values(y, m))
    BY <1>4, <2>2
  <2> QED BY <1>1, <1>7, <2>3 DEF SplitsAt
<1>8. CASE o # <<>>
  <2>1. Len(o) = 1
    <3>1. Len(o) <= 1
        BY <1>1
    <3> HIDE DEF o
    <3>2. Len(o) \in Nat /\ Len(o) # 0
        BY <1>5, <1>8
    <3> DEFINE n == Len(o)
    <3> HIDE DEF n
    <3>3. n \in Nat /\ n # 0 /\ n <= 1
        BY <3>1, <3>2 DEF n
    <3>4. n = 1
        BY <3>3
    <3> QED BY <3>4 DEF n
  <2>2. o[1] = z /\ 1 \in DOMAIN o
    <3>1. 1 \in DOMAIN o /\ o[1] \in V \cap R
        BY <1>5, <2>1
    <3>2. o[1] \in V \ DOMAIN P
        BY <3>1
    <3> QED BY <3>1, <3>2 DEF LeavesOne
  <2>3. Product(Values(y, o)) = y[z]
    <3>1. Values(y, o) = [j \in 1 .. 1 |-> y[o[j]]]
      <4>1. DOMAIN o = 1 .. 1
        BY <1>5, <2>1
      <4> QED BY <4>1 DEF Values
    <3>2. y[z] \in Int
        OBVIOUS
    <3>3. \A j \in 1 .. 1 : y[o[j]] = y[z]
        BY <2>2
    <3> HIDE DEF o
    <3>4. Values(y, o) \in Seq(Int) /\ Len(Values(y, o)) = 1 /\ Values(y, o)[1] = y[z]
        BY <3>1, <3>2, <3>3
    <3> QED BY <3>4, ProductShort
  <2>4. PinnedValue(c, P) = Product(Values(y, c))
    <3>1. \A j \in DOMAIN c : c[j] \in V \cap DOMAIN P
        BY <1>5
    <3> QED BY <1>4, <3>1
  <2>5. PinnedValue(c, P) \in Int
    BY <1>6, <2>4
  <2> QED BY <1>1, <1>6, <1>8, <2>3, <2>4, <2>5 DEF SplitsAt
<1> QED BY <1>7, <1>8

(* A sequence has finitely many elements.                                   *)
LEMMA RangeFinite ==
    ASSUME NEW T, NEW seq \in Seq(T)
    PROVE  IsFiniteSet(Range(seq))
<1>1. Len(seq) \in Nat /\ DOMAIN seq = 1 .. Len(seq) /\ 1 \in Int /\ Len(seq) \in Int
    OBVIOUS
<1>2. IsFiniteSet(1 .. Len(seq))
    BY <1>1, FS_Interval
<1> DEFINE f == [i \in 1 .. Len(seq) |-> seq[i]]
<1>3. f \in Surjection(1 .. Len(seq), Range(seq))
  <2>1. \A i \in 1 .. Len(seq) : seq[i] \in Range(seq)
    BY <1>1 DEF Range
  <2>2. \A r \in Range(seq) : \E i \in 1 .. Len(seq) : seq[i] = r
    BY <1>1 DEF Range
  <2> QED BY <2>1, <2>2 DEF Surjection
<1> HIDE DEF f
<1> QED BY <1>2, <1>3, FS_Surjection

(* The variables of a key are finitely many.                                *)
LEMMA VariablesFinite ==
    ASSUME NEW key, NEW V, Len(key) \in Nat, DOMAIN key = 1 .. Len(key), \A i \in DOMAIN key : key[i].m \in Seq(V)
    PROVE  IsFiniteSet(Variables(key))
<1> DEFINE parts == [i \in 1 .. Len(key) |-> ToSet(key[i].m)]
           T == {ToSet(key[i].m) : i \in DOMAIN key}
<1>1. parts \in Seq(T) /\ Range(parts) = T
  <2>1. \A i \in 1 .. Len(key) : parts[i] \in T
    OBVIOUS
  <2>2. parts \in [1 .. Len(key) -> T] /\ DOMAIN parts = DOMAIN key
    BY <2>1
  <2> QED BY <2>2 DEF Range
<1>2. IsFiniteSet(T)
  <2> HIDE DEF T, parts
  <2> QED BY <1>1, RangeFinite
<1>3. ASSUME NEW S \in T PROVE IsFiniteSet(S)
  <2>1. PICK i \in DOMAIN key : S = ToSet(key[i].m)
    OBVIOUS
  <2>2. key[i].m \in Seq(V) /\ ToSet(key[i].m) = Range(key[i].m)
    BY DEF ToSet, Range
  <2> QED BY <2>1, <2>2, RangeFinite
<1>4. Variables(key) = UNION T
    BY DEF Variables
<1> HIDE DEF T
<1> QED BY <1>2, <1>3, <1>4, FS_UNION

(* The names have residues for values.                                      *)
ResidueAt(y, V, p) == \A n \in V : y[n] \in 0 .. (p - 1)

(* What the source leaves open has the value derived.                       *)
SolvedAt(y, key, P) == \A z \in LeftOpen(key, P) : y[z] = Derived(key, P)

(* A positive fact in which the pins leave one variable holds only where    *)
(* that variable has the value that is derived.                             *)
LEMMA LinearMeans ==
    ASSUME NEW t, IsTable(t), t = setup.tables[1], NEW a, a \in DOMAIN t.key, NEW P, NEW y,
           Linear(Key(1, a), P), Coefficient(Key(1, a), P) # 0,
           ResidueAt(y, Variables(Key(1, a)), t.p), PinnedAt(y, Variables(Key(1, a)), P),
           ValueAt(Key(1, a), y, t.p) = 0
    PROVE  SolvedAt(y, Key(1, a), P)
<1> SUFFICES ASSUME \A n \in Variables(Key(1, a)) : y[n] \in 0 .. (t.p - 1),
                    \A x \in Variables(Key(1, a)) \cap DOMAIN P : y[x] = P[x][1]
             PROVE  \A z \in LeftOpen(Key(1, a), P) : y[z] = Derived(Key(1, a), P)
    BY DEF ResidueAt, PinnedAt, SolvedAt
<1> DEFINE key == Key(1, a)
           p == t.p
           V == Variables(key)
           n == Len(key)
           A == [i \in DOMAIN key |-> key[i].c * Product(Values(y, key[i].m))]
           B == [i \in DOMAIN key |-> IF Open(key[i], P) = <<>> THEN 0
                                      ELSE key[i].c * PinnedValue(Closed(key[i], P), P)]
           R == [i \in DOMAIN key |-> IF Open(key[i], P) # <<>> THEN 0
                                      ELSE key[i].c * PinnedValue(key[i].m, P)]
<1>1. /\ DOMAIN key = 1 .. n /\ n \in Nat /\ p \in Nat \ {0, 1}
      /\ \A i \in DOMAIN key :
            /\ key[i].c \in 1 .. (p - 1) /\ key[i].m \in Seq(V)
            /\ Product(Values(y, key[i].m)) \in Int
  <2>1. key = t.key[a] /\ \A m \in Variables(t.key[a]) : y[m] \in 0 .. (t.p - 1)
    BY DEF Key
  <2> HIDE DEF key
  <2> QED BY <2>1, KeyTerms
<1>2. \A x \in V : y[x] \in 0 .. (p - 1) /\ y[x] \in Int
    BY <1>1
<1>3. /\ Prime(1) = p
      /\ Coefficient(key, P) = SumOf(B) % p /\ Remainder(key, P) = SumOf(R) % p
      /\ Derived(key, P) = ((p - Remainder(key, P)) * FieldInverse(Coefficient(key, P), p)) % p
  <2>1. Prime(1) = p
    BY DEF Prime
  <2>2. Coefficient(key, P) = SumOf(B) % Prime(1)
    BY DEF Coefficient
  <2>3. Remainder(key, P) = SumOf(R) % Prime(1)
    BY DEF Remainder
  <2>4. Derived(key, P) = ((Prime(1) - Remainder(key, P)) * FieldInverse(Coefficient(key, P), Prime(1))) % Prime(1)
    BY DEF Derived
  <2> HIDE DEF key, B, R, p
  <2> QED BY <2>1, <2>2, <2>3, <2>4
<1>4. ValueAt(key, y, p) = SumOf(A) % p
    BY ValueIs
<1>5. PICK z : V \ DOMAIN P = {z}
  <2>1. Cardinality(V \ DOMAIN P) = 1
    BY DEF Linear, LeftOpen
  <2>2. IsFiniteSet(V)
    <3>1. Len(key) \in Nat /\ DOMAIN key = 1 .. Len(key)
        BY <1>1
    <3>2. \A i \in DOMAIN key : key[i].m \in Seq(V)
        BY <1>1
    <3> HIDE DEF key
    <3> QED BY <3>1, <3>2, VariablesFinite
  <2>3. IsFiniteSet(V \ DOMAIN P)
    BY <2>2, FS_Subset
  <2> QED BY <2>1, <2>3, FS_Singleton
<1> DEFINE w == y[z]
<1>6. z \in V /\ w \in 0 .. (p - 1) /\ w \in Int
    BY <1>2, <1>5
<1>7. \A i \in DOMAIN key : Len(Open(key[i], P)) <= 1
    BY DEF Linear
<1>8. Coefficient(key, P) # 0 /\ ValueAt(key, y, p) = 0 /\ \A x \in V \cap DOMAIN P : y[x] = P[x][1]
    OBVIOUS
<1>9. \A b \in 1 .. (p - 1) : \E c \in 1 .. (p - 1) : (b * c) % p = 1
    BY DEF IsTable
<1> HIDE DEF key, p, V, n
<1>10. ASSUME NEW i \in DOMAIN key
       PROVE  B[i] \in Int /\ R[i] \in Int /\ A[i] = B[i] * w + R[i]
  <2> DEFINE r == key[i]
             c == r.c
             v == Product(Values(y, r.m))
  <2>1. r.m \in Seq(V) /\ c \in Int /\ v \in Int
    BY <1>1
  <2>2. /\ Open(r, P) = <<>> => PinnedValue(r.m, P) = v
        /\ Open(r, P) # <<>> => /\ PinnedValue(Closed(r, P), P) \in Int
                                /\ v = PinnedValue(Closed(r, P), P) * w
    <3>1. Len(Open(r, P)) <= 1
        BY <1>7
    <3>2. \A x \in V : y[x] \in Int
        BY <1>2
    <3>3. PinnedAt(y, V, P) /\ LeavesOne(V, P, z)
        BY <1>5, <1>8 DEF PinnedAt, LeavesOne
    <3>4. z \in V /\ r.m \in Seq(V) /\ r.c \in Int
        BY <1>6, <2>1
    <3> HIDE DEF r
    <3>5. SplitsAt(r, P, y, z)
        BY <3>1, <3>2, <3>3, <3>4, TermSplit
    <3> QED BY <3>5 DEF SplitsAt
  <2>3. A[i] = c * v
    OBVIOUS
  <2>4. CASE Open(r, P) = <<>>
    <3>1. B[i] = 0 /\ R[i] = c * PinnedValue(r.m, P)
        BY <2>4
    <3> HIDE DEF A, B, R, r, v, w
    <3>2. R[i] = c * v /\ c * v \in Int
        BY <2>1, <2>2, <2>4, <3>1
    <3> DEFINE e == c * v
    <3> HIDE DEF e
    <3>3. 0 * w + e = e
        BY <1>6, <3>2 DEF e
    <3> QED BY <2>3, <3>1, <3>2, <3>3 DEF e
  <2>5. CASE Open(r, P) # <<>>
    <3> DEFINE q == PinnedValue(Closed(r, P), P)
    <3>1. R[i] = 0 /\ B[i] = c * q
        BY <2>5
    <3>2. q \in Int /\ v = q * w
        BY <2>2, <2>5
    <3> HIDE DEF A, B, R, r, v, q, w, c
    <3>3. c * (q * w) = (c * q) * w /\ c * q \in Int /\ (c * q) * w \in Int
        BY <1>6, <2>1, <3>2
    <3> DEFINE e == (c * q) * w
    <3> HIDE DEF e
    <3>4. e + 0 = e
        BY <3>3 DEF e
    <3> QED BY <2>3, <3>1, <3>2, <3>3, <3>4 DEF e
  <2> QED BY <2>4, <2>5
<1>11. /\ A \in Seq(Int) /\ B \in Seq(Int) /\ R \in Seq(Int)
       /\ Len(A) = n /\ Len(B) = n /\ Len(R) = n
  <2>1. B = [i \in 1 .. n |-> B[i]] /\ R = [i \in 1 .. n |-> R[i]] /\ A = [i \in 1 .. n |-> A[i]]
    BY <1>1
  <2> HIDE DEF A, B, R, w
  <2>2. \A i \in 1 .. n : A[i] \in Int /\ B[i] \in Int /\ R[i] \in Int
    BY <1>1, <1>6, <1>10
  <2>3. A \in [1 .. n -> Int] /\ B \in [1 .. n -> Int] /\ R \in [1 .. n -> Int]
    BY <2>1, <2>2
  <2> QED BY <1>1, <2>3
<1> HIDE DEF A, B, R, w
<1>12. SumOf(B) \in Int /\ SumOf(R) \in Int /\ SumOf(A) = SumOf(B) * w + SumOf(R)
  <2>1. Linearly(A, B, R, w, n)
    BY <1>1, <1>10 DEF Linearly
  <2>2. SumOf(A) = SumOf(B) * w + SumOf(R)
    <3>1. n \in Nat /\ w \in Int
        BY <1>1, <1>6
    <3> QED BY <1>11, <2>1, <3>1, SumLinear
  <2>3. 0 \in Int
    OBVIOUS
  <2> QED BY <1>11, <2>2, <2>3, SumAppend
<1> DEFINE b == SumOf(B)
           r == SumOf(R)
<1> HIDE DEF b, r
<1>13. Solves(w, b, r, p)
  <2>1. (b * w + r) % p = 0
    BY <1>4, <1>8, <1>12 DEF b, r
  <2>2. b * w + r = r + b * w
    BY <1>6, <1>12 DEF b, r
  <2> QED BY <2>1, <2>2 DEF Solves
<1>14. b \in Int /\ r \in Int /\ p \in Nat \ {0}
    BY <1>1, <1>12 DEF b, r
<1>15. Solves(w, b % p, r % p, p)
    BY <1>6, <1>13, <1>14, LinearReduced
<1>16. b % p \in 1 .. (p - 1) /\ r % p \in 0 .. (p - 1)
  <2>1. b % p \in 0 .. (p - 1) /\ r % p \in 0 .. (p - 1)
    BY <1>14, CongResidue
  <2>2. b % p # 0
    BY <1>3, <1>8 DEF b
  <2> DEFINE d == b % p
  <2> HIDE DEF d
  <2>3. d \in 0 .. (p - 1) /\ d # 0 => d \in 1 .. (p - 1)
    BY <1>1
  <2> QED BY <2>1, <2>2, <2>3 DEF d
<1> DEFINE d == b % p
           e == r % p
<1> HIDE DEF d, e
<1>17. d \in 1 .. (p - 1) /\ e \in 0 .. (p - 1) /\ Solves(w, d, e, p)
    BY <1>15, <1>16 DEF d, e
<1>18. w = ((p - e) * FieldInverse(d, p)) % p
  <2>1. w = Solution(d, e, p)
    BY <1>1, <1>6, <1>9, <1>17, LinearSolved
  <2> QED BY <2>1 DEF Solution
<1>19. d = Coefficient(key, P) /\ e = Remainder(key, P)
    BY <1>3 DEF d, e, b, r
<1>20. w = Derived(key, P)
    BY <1>3, <1>18, <1>19
<1>21. LeftOpen(key, P) = {z}
    BY <1>5 DEF LeftOpen, V
<1>22. \A x \in LeftOpen(key, P) : y[x] = Derived(key, P)
    BY <1>20, <1>21 DEF w
<1> QED BY <1>22 DEF key

(* A fact of the second tier comes of a source and a target.                *)
SecondTier(d, a, v, P) ==
    d = [lit |-> IF PinnedConstant(setup.tables[1].key, v, Prime(1)) = Derived(Key(1, a), P) THEN v ELSE -v,
         reason |-> {a} \cup Sources(Variables(Key(1, a)), P)]

(* The source is a fact whose polynomial is linear once the pins are put.   *)
SecondSource(a, P) ==
    /\ a > 0 /\ HasAtom(1, a) /\ SingleVarEq(Key(1, a), Prime(1)) = <<>>
    /\ Linear(Key(1, a), P) /\ Coefficient(Key(1, a), P) # 0

(* The target pins the variable the source leaves open.                     *)
SecondTarget(a, P) ==
    PinningAtoms(setup.tables[1].key, CHOOSE x \in LeftOpen(Key(1, a), P) : TRUE, Prime(1))

(* What the second tier derives is read off its definition.                 *)
LEMMA Tier2Comes ==
    ASSUME NEW P, NEW d \in Tier2(P)
    PROVE  \E a \in ToSet(facts[1]) : SecondSource(a, P) /\ \E v \in SecondTarget(a, P) : SecondTier(d, a, v, P)
<1> DEFINE S == {a \in ToSet(facts[1]) :
                      /\ a > 0 /\ HasAtom(1, a) /\ SingleVarEq(Key(1, a), Prime(1)) = <<>>
                      /\ Linear(Key(1, a), P) /\ Coefficient(Key(1, a), P) # 0}
           T(a) == {v \in PinningAtoms(setup.tables[1].key, CHOOSE x \in LeftOpen(Key(1, a), P) : TRUE, Prime(1)) :
                      v # a /\ ~OnFacts(v)}
           F(a) == {[lit |-> IF PinnedConstant(setup.tables[1].key, v, Prime(1)) = Derived(Key(1, a), P) THEN v ELSE -v,
                     reason |-> {a} \cup Sources(Variables(Key(1, a)), P)] : v \in T(a)}
<1>1. d \in UNION {F(a) : a \in S}
    BY DEF Tier2
<1>2. \A a \in S : a \in ToSet(facts[1]) /\ SecondSource(a, P)
    BY DEF SecondSource
<1>3. ASSUME NEW a, d \in F(a)
      PROVE  \E v \in SecondTarget(a, P) : SecondTier(d, a, v, P)
  <2>1. \A v \in T(a) : v \in SecondTarget(a, P)
    BY DEF SecondTarget
  <2>2. \E v \in T(a) : SecondTier(d, a, v, P)
    <3> HIDE DEF T
    <3>1. PICK v \in T(a) :
            d = [lit |-> IF PinnedConstant(setup.tables[1].key, v, Prime(1)) = Derived(Key(1, a), P) THEN v ELSE -v,
                 reason |-> {a} \cup Sources(Variables(Key(1, a)), P)]
        BY <1>3
    <3> QED BY <3>1 DEF SecondTier
  <2> HIDE DEF T
  <2> QED BY <2>1, <2>2
<1> HIDE DEF F, S
<1>4. PICK a \in S : d \in F(a)
    BY <1>1
<1> QED BY <1>2, <1>3, <1>4

(* What the second tier derives: its atom pins the variable left open.      *)
LEMMA Tier2Right ==
    ASSUME Shape, InnerOk(facts, degraded, inc, gens, Trail), NEW d \in Tier2(Pins)
    PROVE  DerivedOk(d)
<1> DEFINE P == Pins
           t == setup.tables[1]
           p == Prime(1)
           f == facts[1]
<1>0. setup \in SetUps /\ 1 \in Tables
    BY Kinds DEF Shape
<1>1. PICK a \in ToSet(f) :
        /\ a > 0 /\ HasAtom(1, a) /\ Linear(Key(1, a), P) /\ Coefficient(Key(1, a), P) # 0
        /\ \E v \in PinningAtoms(t.key, CHOOSE x \in LeftOpen(Key(1, a), P) : TRUE, p) :
              d = [lit |-> IF PinnedConstant(t.key, v, p) = Derived(Key(1, a), P) THEN v ELSE -v,
                   reason |-> {a} \cup Sources(Variables(Key(1, a)), P)]
  <2> HIDE DEF P
  <2>1. \E a \in ToSet(facts[1]) : SecondSource(a, P) /\ \E v \in SecondTarget(a, P) : SecondTier(d, a, v, P)
    BY Tier2Comes DEF P
  <2>2. PICK a \in ToSet(facts[1]) : SecondSource(a, P) /\ \E v \in SecondTarget(a, P) : SecondTier(d, a, v, P)
    BY <2>1
  <2> QED BY <2>2 DEF SecondSource, SecondTarget, SecondTier
<1> DEFINE z == CHOOSE x \in LeftOpen(Key(1, a), P) : TRUE
<1>2. PICK v \in PinningAtoms(t.key, z, p) :
        d = [lit |-> IF PinnedConstant(t.key, v, p) = Derived(Key(1, a), P) THEN v ELSE -v,
             reason |-> {a} \cup Sources(Variables(Key(1, a)), P)]
    BY <1>1
<1> DEFINE c == PinnedConstant(t.key, v, p)
           V == Variables(Key(1, a))
<1>3. d.lit = IF c = Derived(Key(1, a), P) THEN v ELSE -v
    BY <1>2
<1>4. d.reason = {a} \cup Sources(V, P)
    BY <1>2
<1>5. /\ v \in DOMAIN t.key /\ SingleVarEq(t.key[v], p) # <<>>
      /\ SingleVarEq(t.key[v], p)[1] = z /\ SingleVarEq(t.key[v], p)[2] = c
  <2> HIDE DEF z
  <2> QED BY <1>2 DEF PinningAtoms, PinnedConstant
<1>6. z \in LeftOpen(Key(1, a), P)
  <2>1. LeftOpen(Key(1, a), P) # {}
    <3>1. Cardinality(LeftOpen(Key(1, a), P)) = 1
        BY <1>1 DEF Linear
    <3>2. Cardinality({}) = 0 /\ 0 # 1
        BY FS_EmptySet
    <3> HIDE DEF P
    <3> QED BY <3>1, <3>2
  <2> QED BY <2>1
<1>7. a \in Range(Trail) /\ a \in DOMAIN world
  <2>1. a \in Range(f)
    BY DEF ToSet, Range
  <2> QED BY <1>0, <2>1, FactsAre, AssertedIs
<1>8. a \in DOMAIN t.key /\ Key(1, a) = t.key[a] /\ p = t.p /\ Key(1, v) = t.key[v]
    BY <1>1 DEF HasAtom, Key, Prime
<1>9. IsTable(t)
    BY <1>0, TablesApart
<1>10. /\ Sources(V, P) \subseteq Range(Trail)
       /\ \A y \in Common(Sources(V, P)) : \A x \in V \cap DOMAIN P : y[x] = P[x][1]
    BY SourcesPin
<1>11. /\ \A y \in Points : y \in world[a] <=> ValueAt(Key(1, a), y, p) = 0
       /\ V \subseteq NamesOf(t)
    BY <1>8, AtomMeans
<1>12. /\ v \in DOMAIN world /\ -v \in DOMAIN world
       /\ Variables(Key(1, v)) \subseteq NamesOf(t)
       /\ \A y \in Points : /\ y \in world[v] <=> ValueAt(Key(1, v), y, p) = 0
                            /\ y \in world[-v] <=> ValueAt(Key(1, v), y, p) # 0
    BY <1>5, AtomMeans
<1>13. \A y \in Points : \A n \in NamesOf(t) : y[n] \in 0 .. (t.p - 1)
    BY <1>0, PointIs DEF Field
<1>14. t = setup.tables[1] /\ Linear(Key(1, a), P) /\ Coefficient(Key(1, a), P) # 0
    BY <1>1
<1>15. V = Variables(Key(1, a))
    OBVIOUS
<1> HIDE DEF P, t, p, z, c, V, f
<1>16. ASSUME NEW y \in Common(d.reason)
       PROVE  y \in Points /\ y[z] = Derived(Key(1, a), P) /\ (ValueAt(Key(1, v), y, p) = 0 <=> y[z] = c)
  <2>1. y \in Points /\ y \in world[a] /\ y \in Common(Sources(V, P))
    BY <1>4, <1>16 DEF Common
  <2>2. \A n \in Variables(Key(1, a)) : y[n] \in 0 .. (t.p - 1)
    BY <1>11, <1>13, <1>15, <2>1
  <2>3. \A x \in Variables(Key(1, a)) \cap DOMAIN P : y[x] = P[x][1]
    BY <1>10, <1>15, <2>1
  <2>4. ValueAt(Key(1, a), y, t.p) = 0
    BY <1>8, <1>11, <2>1
  <2>5. \A x \in LeftOpen(Key(1, a), P) : y[x] = Derived(Key(1, a), P)
    <3>1. a \in DOMAIN t.key /\ IsTable(t) /\ ValueAt(Key(1, a), y, t.p) = 0
        BY <1>8, <1>9, <2>4
    <3>2. ResidueAt(y, Variables(Key(1, a)), t.p)
        BY <2>2 DEF ResidueAt
    <3>3. PinnedAt(y, Variables(Key(1, a)), P)
        BY <2>3 DEF PinnedAt
    <3>4. SolvedAt(y, Key(1, a), P)
        BY <1>14, <3>1, <3>2, <3>3, LinearMeans
    <3> QED BY <3>4 DEF SolvedAt
  <2>6. \A n \in Variables(t.key[v]) : y[n] \in 0 .. (t.p - 1)
    BY <1>8, <1>12, <1>13, <2>1
  <2>7. SingleVarEq(t.key[v], t.p) # <<>>
    BY <1>5, <1>8
  <2>8. ValueAt(t.key[v], y, t.p) = 0 <=> y[SingleVarEq(t.key[v], t.p)[1]] = SingleVarEq(t.key[v], t.p)[2]
    BY <1>5, <1>9, <2>6, <2>7, PinSolved
  <2>9. ValueAt(Key(1, v), y, p) = 0 <=> y[z] = c
    BY <1>5, <1>8, <2>8
  <2> QED BY <1>6, <2>1, <2>5, <2>9
<1>17. Common(d.reason) \subseteq world[d.lit]
    BY <1>3, <1>12, <1>16
<1>18. d.reason # {} /\ d.reason \subseteq Range(Trail) /\ d.lit \in DOMAIN world
    BY <1>3, <1>4, <1>7, <1>10, <1>12
<1> QED BY <1>17, <1>18 DEF DerivedOk

-------------------------------------------------------------------------------
(* Each step is one of the abstract specification. *)

(* A core read off the trail is the set of literals it came from. *)
LEMMA ReadOff ==
    ASSUME Shape, NEW ls \in SUBSET Range(Trail), NEW core, core = {Abs(l) : l \in ls}
    PROVE  {OnTrail(v) : v \in core} = ls
<1>1. \A l \in ls : OnTrail(Abs(l)) = l
    BY AssertedIs
<1>2. \A l \in ls : Abs(l) \in core
    OBVIOUS
<1>3. \A v \in core : \E l \in ls : v = Abs(l)
    OBVIOUS
<1> QED BY <1>1, <1>2, <1>3

(* A check answers as the contract says. *)
LEMMA PostCheckMaps ==
    ASSUME IInv, PostCheck
    PROVE  Contract!PostCheck
<1>0. /\ Shape /\ InnerOk(facts, degraded, inc, gens, Trail)
      /\ pending # None => setup.ee /\ PendingIs(pending, Trail)
    BY DEF IInv, InnerKept, FilterKept
<1>1. /\ Contract!Asserted = Range(Trail)
      /\ \A ls : Contract!Common(ls) = Common(ls)
    BY <1>0, AssertedIs, SameWorld
<1>2. asserted' = asserted
    BY DEF PostCheck
<1>3. ASSUME NEW ls \in SUBSET Range(Trail), Common(ls) = {}, reply' = UnsatReply(ls)
      PROVE  Contract!AnswerUnsat
    BY <1>1, <1>3 DEF Contract!AnswerUnsat, UnsatReply
<1>4. CASE pending # None
  <2>1. PICK l, m \in Range(Trail) : pending = <<Abs(l), Abs(m)>> /\ Common({l, m}) = {}
    BY <1>0, <1>4, PendingContradicts
  <2>2. reply' = UnsatReply({OnTrail(pending[1]), OnTrail(pending[2])})
    BY <1>4 DEF PostCheck
  <2>3. pending[1] = Abs(l) /\ pending[2] = Abs(m)
    BY <2>1
  <2>4. OnTrail(Abs(l)) = l /\ OnTrail(Abs(m)) = m
    BY <1>0, AssertedIs
  <2>5. reply' = UnsatReply({l, m})
    BY <2>2, <2>3, <2>4
  <2>6. {l, m} \in SUBSET Range(Trail)
    OBVIOUS
  <2> QED BY <1>2, <1>3, <2>1, <2>5, <2>6 DEF Contract!PostCheck
<1>5. CASE pending = None
  <2>1. PICK r \in InnerReplies :
           reply' = IF r.kind = "unsat" THEN UnsatReply({OnTrail(v) : v \in r.core}) ELSE r
    BY <1>5 DEF PostCheck
  <2>2. ReplyOk(r)
    BY <1>0, InnerRepliesRight
  <2>3. CASE r = Unknown
    <3>1. reply' = Unknown
        BY <2>1, <2>3 DEF Unknown
    <3> QED BY <1>2, <3>1 DEF Contract!PostCheck, Contract!AnswerUnknown, Contract!GivenUp, Unknown
  <2>4. CASE r.kind = "sat" /\ r.points # {} /\ r.points \subseteq Common(Range(Trail))
    <3>1. reply' = r
        BY <2>1, <2>4
    <3>2. Contract!AnswerSat
        BY <1>1, <2>4, <3>1 DEF Contract!AnswerSat
    <3> QED BY <1>2, <3>2 DEF Contract!PostCheck
  <2>5. ASSUME r.kind = "unsat", NEW ls \in SUBSET Range(Trail),
               r.core = {Abs(l) : l \in ls}, Common(ls) = {}
        PROVE  Contract!PostCheck
    <3>1. {OnTrail(v) : v \in r.core} = ls
        BY <1>0, <2>5, ReadOff
    <3>2. reply' = UnsatReply(ls)
        BY <2>1, <2>5, <3>1
    <3> QED BY <1>2, <1>3, <2>5, <3>2 DEF Contract!PostCheck
  <2> QED BY <2>2, <2>3, <2>4, <2>5 DEF ReplyOk
<1> QED BY <1>4, <1>5

(* Notification, push and pop are those of the contract. *)
LEMMA NotifyMaps ==
    ASSUME IInv, NEW l \in DOMAIN world, NotifyFact(l)
    PROVE  Contract!NotifyFact(l)
<1>0. Shape
    BY DEF IInv
<1>1. ASSUME NEW k \in Contract!Asserted PROVE k # l /\ k # -l
  <2>1. Contract!Asserted = UNION {Range(asserted[j]) : j \in DOMAIN asserted}
    BY DEF Contract!Asserted, Contract!Levels, Contract!LiteralsAt, Range
  <2>2. PICK j \in DOMAIN asserted : k \in Range(asserted[j])
    BY <2>1
  <2>3. PICK i \in DOMAIN asserted[j] : asserted[j][i] = k
    BY <2>2 DEF Range
  <2>4. Abs(k) # Abs(l)
    BY <2>3 DEF NotifyFact
  <2>5. l \in Int \ {0}
    BY <1>0, WorldIs
  <2>6. Abs(-l) = Abs(l)
    <3>1. l < 0 => Abs(l) = -l /\ Abs(-l) = -l
        BY <2>5 DEF Abs
    <3>2. l > 0 => Abs(l) = l /\ Abs(-l) = l
        BY <2>5 DEF Abs
    <3> QED BY <2>5, <3>1, <3>2
  <2> QED BY <2>4, <2>6
<1>2. asserted' = [asserted EXCEPT ![Len(asserted)] = Append(@, l)] /\ reply' = NoReply
    BY DEF NotifyFact
<1> QED BY <1>1, <1>2 DEF Contract!NotifyFact, Contract!NoReply, NoReply

(* A push opens a level. *)
LEMMA PushMaps == Push => Contract!Push
BY DEF Push, Contract!Push, NoReply, Contract!NoReply

(* A pop drops what was asserted at its level. *)
LEMMA PopMaps ==
    ASSUME IInv, Pop
    PROVE  Contract!Pop
<1>1. /\ asserted \in Seq(Seq(Int)) /\ Len(asserted) = Len(levels) + 1 /\ IsSeq(levels)
    BY DEF IInv, Shape
<1>2. levels # <<>> /\ asserted' = Front(asserted) /\ reply' = NoReply
    BY DEF Pop
<1>3. Len(levels) > 0
    BY <1>1, <1>2 DEF IsSeq
<1>4. Len(asserted) > 1
    BY <1>1, <1>3
<1>5. Front(asserted) = SubSeq(asserted, 1, Len(asserted) - 1)
    BY DEF Front
<1> QED BY <1>2, <1>4, <1>5 DEF Contract!Pop, NoReply, Contract!NoReply

(* What is propagated is entailed, as the contract says.                    *)
LEMMA PropagateMaps ==
    ASSUME IInv, Propagate
    PROVE  Contract!Propagate
<1>0. Shape /\ InnerOk(facts, degraded, inc, gens, Trail)
    BY DEF IInv, InnerKept
<1>1. /\ Contract!Asserted = Range(Trail) /\ Contract!Literals = DOMAIN world
      /\ \A ls : Contract!Common(ls) = Common(ls)
    BY <1>0, AssertedIs, SameWorld
<1>2. asserted' = asserted
    BY DEF Propagate
<1>3. reply'.kind = "derived" /\ \A d \in reply'.facts : DerivedOk(d)
  <2>1. CASE setup.kind = "router"
    <3>1. reply' = [kind |-> "derived", facts |-> {}]
        BY <2>1 DEF Propagate
    <3> QED BY <3>1
  <2>2. CASE setup.kind # "router"
    <3>1. PICK ds \in SUBSET Tier2(Pins) : reply' = [kind |-> "derived", facts |-> Tier1(Pins) \cup ds]
        BY <2>2 DEF Propagate
    <3>2. \A d \in Tier1(Pins) \cup ds : DerivedOk(d)
        BY <1>0, Tier1Right, Tier2Right
    <3> DEFINE all == Tier1(Pins) \cup ds
    <3> HIDE DEF all
    <3>3. reply' = [kind |-> "derived", facts |-> all]
        BY <3>1 DEF all
    <3>4. reply'.kind = "derived" /\ reply'.facts = all
        BY <3>3
    <3> QED BY <3>2, <3>4 DEF all
  <2> QED BY <2>1, <2>2
<1> QED BY <1>1, <1>2, <1>3 DEF DerivedOk, Contract!Propagate

(* Whichever plug-in is chosen, with the filter or without it, it does what  *)
(* CDCL(T) asks of a theory: what it calls satisfiable is, its cores are     *)
(* asserted and contradictory, and what it derives is entailed.              *)
THEOREM Refinement == Spec => ImplementsContract
<1>1. Init => Contract!Init
    BY DEF Init, Contract!Init, NoReply, Contract!NoReply
<1>2. ASSUME IInv, [Next]_vars PROVE [Contract!Next]_(Contract!contract)
  <2>1. Contract!Literals = DOMAIN world
    BY <1>2, SameWorld DEF IInv
  <2>2. ASSUME NEW l \in DOMAIN world, NotifyFact(l) PROVE Contract!Next
    <3>1. Contract!NotifyFact(l) /\ world' = world
        BY <1>2, <2>2, NotifyMaps DEF NotifyFact
    <3> QED BY <2>1, <3>1 DEF Contract!Next
  <2>3. CASE Push
    BY <2>3, PushMaps DEF Push, Contract!Next
  <2>4. CASE Pop
    <3>1. Contract!Pop /\ world' = world
        BY <1>2, <2>4, PopMaps DEF Pop
    <3> QED BY <3>1 DEF Contract!Next
  <2>5. CASE PostCheck
    <3>1. Contract!PostCheck /\ world' = world
        BY <1>2, <2>5, PostCheckMaps DEF PostCheck
    <3> QED BY <3>1 DEF Contract!Next
  <2>6. CASE Propagate
    <3>1. Contract!Propagate /\ world' = world
        BY <1>2, <2>6, PropagateMaps DEF Propagate
    <3> QED BY <3>1 DEF Contract!Next
  <2>7. CASE UNCHANGED vars
    BY <2>7 DEF vars, Contract!contract
  <2> QED BY <1>2, <2>2, <2>3, <2>4, <2>5, <2>6, <2>7 DEF Next
<1> QED BY <1>1, <1>2, InvariantHolds, PTL DEF Spec, ImplementsContract, Contract!Spec

===============================================================================
