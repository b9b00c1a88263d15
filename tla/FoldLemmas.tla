------------------------------ MODULE FoldLemmas ------------------------------
(***************************************************************************)
(* Induction for the folds the models use.  The induction theorems of the   *)
(* library take an operator; here the induction hypothesis is a set, and a  *)
(* fold is described by the function its definition chooses.               *)
(***************************************************************************)
EXTENDS Selection, SequencesExt, FiniteSetTheorems, WellFoundedInduction, SequenceTheorems,
        TLAPS

(* A set that holds 0 and the successor of each of its numbers holds them    *)
(* all.                                                                      *)
LEMMA NatSetInduction ==
    ASSUME NEW T, 0 \in T, \A k \in Nat : k \in T => k + 1 \in T
    PROVE  Nat \subseteq T
<1>1. SUFFICES ASSUME NEW m \in Nat, m \notin T PROVE FALSE
    OBVIOUS
<1> DEFINE Missing == Nat \ T
<1>2. PICK x \in Missing : \A y \in Missing : ~ (<<y, x>> \in OpToRel(<, Nat))
  <2>1. Missing \subseteq Nat /\ Missing # {}
    BY <1>1
  <2> QED BY <2>1, NatLessThanWellFounded, WFMin
<1>3. \A y \in Missing : ~(y < x)
    BY <1>2 DEF OpToRel
<1>4. x # 0
    OBVIOUS
<1>5. x - 1 \in Nat /\ x - 1 < x /\ (x - 1) + 1 = x
    BY <1>4
<1>6. x - 1 \in T
    BY <1>3, <1>5
<1> QED BY <1>5, <1>6

(* The same below a bound. *)
LEMMA IntervalInduction ==
    ASSUME NEW n \in Nat, NEW T, 0 \in T,
           \A k \in 0 .. n - 1 : k \in T => k + 1 \in T
    PROVE  0 .. n \subseteq T
<1> DEFINE S == {k \in Nat : k <= n => k \in T}
<1>1. 0 \in S
    OBVIOUS
<1>2. ASSUME NEW k \in Nat, k \in S PROVE k + 1 \in S
  <2>1. CASE k + 1 <= n
    <3>1. k \in 0 .. n - 1 /\ k \in T
        BY <1>2, <2>1
    <3> QED BY <3>1
  <2>2. CASE ~(k + 1 <= n)
    BY <2>2
  <2> QED BY <2>1, <2>2
<1>3. Nat \subseteq S
  <2> HIDE DEF S
  <2> QED BY <1>1, <1>2, NatSetInduction
<1> QED BY <1>3

(* The largest of 1 .. k, and what is left without it. *)
LEMMA IntervalMax ==
    ASSUME NEW k \in Nat, k > 0
    PROVE  1 .. k # {} /\ Max(1 .. k) = k /\ (1 .. k) \ {k} = 1 .. k - 1
<1>1. k \in 1 .. k /\ \A y \in 1 .. k : k >= y
    OBVIOUS
<1>2. \A x \in 1 .. k : (\A y \in 1 .. k : x >= y) => x = k
    OBVIOUS
<1>3. Max(1 .. k) = k
    BY <1>1, <1>2 DEF Max
<1> QED BY <1>1, <1>3

(* A set whose largest element is named. *)
LEMMA TopMax ==
    ASSUME NEW k \in Nat, NEW s \in SUBSET (1 .. k + 1), k + 1 \in s
    PROVE  Max(s) = k + 1 /\ s \ {k + 1} \in SUBSET (1 .. k)
<1>1. \A y \in s : k + 1 >= y
    OBVIOUS
<1>2. \A x \in s : (\A y \in s : x >= y) => x = k + 1
    OBVIOUS
<1>3. Max(s) = k + 1
    BY <1>1, <1>2 DEF Max
<1> QED BY <1>3

(* A nonempty set of indices up to n has a largest element. *)
LEMMA MaxMember ==
    ASSUME NEW n \in Nat, NEW s \in SUBSET (1 .. n), s # {}
    PROVE  Max(s) \in s
<1> DEFINE T == {k \in 0 .. n : \A r \in SUBSET (1 .. k) : r # {} => Max(r) \in r}
<1>1. 0 \in T
  <2>1. \A r \in SUBSET (1 .. 0) : r = {}
    OBVIOUS
  <2>2. 0 \in 0 .. n
    OBVIOUS
  <2> QED BY <2>1, <2>2
<1>2. ASSUME NEW k \in 0 .. n - 1, k \in T PROVE k + 1 \in T
  <2>1. ASSUME NEW r \in SUBSET (1 .. k + 1), r # {} PROVE Max(r) \in r
    <3>1. CASE k + 1 \in r
        BY <3>1, TopMax
    <3>2. CASE k + 1 \notin r
        <4>1. r \in SUBSET (1 .. k)
            BY <3>2
        <4> QED BY <1>2, <2>1, <4>1
    <3> QED BY <3>1, <3>2
  <2>2. k + 1 \in 0 .. n
    OBVIOUS
  <2> QED BY <2>1, <2>2
<1>3. 0 .. n \subseteq T
  <2> HIDE DEF T
  <2> QED BY <1>1, <1>2, IntervalInduction
<1>4. n \in T
  <2> HIDE DEF T
  <2> QED BY <1>3
<1> QED BY <1>4

(* A step takes an index and the value so far; it stays in S.                 *)
Steps(n, S) == [(1 .. n) \X S -> S]

(* The recursion of a fold over 1 .. n has a solution, whatever the step is.  *)
FoldsOver(g, n, S, base, F) ==
    /\ g \in [SUBSET (1 .. n) -> S]
    /\ \A s \in SUBSET (1 .. n) :
          g[s] = IF s = {} THEN base ELSE F[<<Max(s), g[s \ {Max(s)}]>>]

(* A fold over the subsets of 1 .. n, taken from the largest index, *)
(* exists.                                                          *)
LEMMA FoldExists ==
    ASSUME NEW n \in Nat, NEW S, NEW base \in S, NEW F \in Steps(n, S)
    PROVE  \E g : FoldsOver(g, n, S, base, F)
<1> DEFINE Solves(g, k) ==
        \A s \in SUBSET (1 .. k) :
            g[s] = IF s = {} THEN base ELSE F[<<Max(s), g[s \ {Max(s)}]>>]
<1> DEFINE T == {k \in 0 .. n : \E g \in [SUBSET (1 .. k) -> S] : Solves(g, k)}
<1>1. 0 \in T
  <2> DEFINE g == [s \in SUBSET (1 .. 0) |-> base]
  <2>1. g \in [SUBSET (1 .. 0) -> S]
    OBVIOUS
  <2>2. Solves(g, 0)
    <3> SUFFICES ASSUME NEW s \in SUBSET (1 .. 0) PROVE s = {} /\ g[s] = base
        OBVIOUS
    <3> QED OBVIOUS
  <2>3. 0 \in 0 .. n
    OBVIOUS
  <2> HIDE DEF g, Solves
  <2> QED BY <2>1, <2>2, <2>3
<1>2. ASSUME NEW k \in 0 .. n - 1, k \in T PROVE k + 1 \in T
  <2>1. PICK h \in [SUBSET (1 .. k) -> S] : Solves(h, k)
    BY <1>2
  <2> DEFINE g == [s \in SUBSET (1 .. k + 1) |->
                      IF k + 1 \in s THEN F[<<k + 1, h[s \ {k + 1}]>>] ELSE h[s]]
  <2>2. ASSUME NEW s \in SUBSET (1 .. k + 1), k + 1 \notin s
        PROVE  s \in SUBSET (1 .. k) /\ g[s] = h[s]
    BY <2>2
  <2>3. ASSUME NEW s \in SUBSET (1 .. k + 1), k + 1 \in s
        PROVE  /\ Max(s) = k + 1 /\ s \ {k + 1} \in SUBSET (1 .. k)
               /\ g[s] = F[<<k + 1, h[s \ {k + 1}]>>]
    BY <2>3, TopMax
  <2>4. g \in [SUBSET (1 .. k + 1) -> S]
    <3> SUFFICES ASSUME NEW s \in SUBSET (1 .. k + 1) PROVE g[s] \in S
        OBVIOUS
    <3>1. CASE k + 1 \in s
        <4>1. h[s \ {k + 1}] \in S
            BY <2>1, <2>3, <3>1
        <4>2. <<k + 1, h[s \ {k + 1}]>> \in (1 .. n) \X S
            BY <4>1
        <4> HIDE DEF g
        <4> QED BY <2>3, <3>1, <4>2 DEF Steps
    <3>2. CASE k + 1 \notin s
        <4> HIDE DEF g
        <4> QED BY <2>1, <2>2, <3>2
    <3> QED BY <3>1, <3>2
  <2>5. Solves(g, k + 1)
    <3> SUFFICES ASSUME NEW s \in SUBSET (1 .. k + 1)
                 PROVE  g[s] = IF s = {} THEN base ELSE F[<<Max(s), g[s \ {Max(s)}]>>]
        OBVIOUS
    <3> HIDE DEF g
    <3>1. CASE k + 1 \in s
        <4>1. s \ {k + 1} \in SUBSET (1 .. k + 1) /\ k + 1 \notin s \ {k + 1}
            OBVIOUS
        <4>2. g[s \ {k + 1}] = h[s \ {k + 1}]
            BY <2>2, <4>1
        <4> QED BY <2>3, <3>1, <4>2
    <3>2. CASE k + 1 \notin s
        <4>1. CASE s = {}
            BY <2>1, <2>2, <3>2, <4>1
        <4>2. CASE s # {}
            <5>1. s \in SUBSET (1 .. k) /\ g[s] = h[s]
                BY <2>2, <3>2
            <5>2. s \ {Max(s)} \in SUBSET (1 .. k + 1) /\ k + 1 \notin s \ {Max(s)}
                BY <3>2
            <5>3. g[s \ {Max(s)}] = h[s \ {Max(s)}]
                BY <2>2, <5>2
            <5>4. h[s] = F[<<Max(s), h[s \ {Max(s)}]>>]
                BY <2>1, <4>2, <5>1
            <5> QED BY <4>2, <5>1, <5>3, <5>4
        <4> QED BY <4>1, <4>2
    <3> QED BY <3>1, <3>2
  <2>6. k + 1 \in 0 .. n
    OBVIOUS
  <2> HIDE DEF g, Solves
  <2> QED BY <2>4, <2>5, <2>6
<1>3. 0 .. n \subseteq T
  <2> HIDE DEF T
  <2> QED BY <1>1, <1>2, IntervalInduction
<1>4. n \in T
  <2> HIDE DEF T
  <2> QED BY <1>3
<1>5. PICK g \in [SUBSET (1 .. n) -> S] : Solves(g, n)
  <2> HIDE DEF Solves
  <2> QED BY <1>4
<1> QED BY <1>5 DEF FoldsOver

(* What holds of the base and is kept by each step holds of the fold.         *)
LEMMA FoldInvariant ==
    ASSUME NEW n \in Nat, NEW S, NEW it, it[1 .. 0] \in S,
           \A k \in 1 .. n : it[1 .. k - 1] \in S => it[1 .. k] \in S
    PROVE  it[1 .. n] \in S
<1> DEFINE T == {k \in 0 .. n : it[1 .. k] \in S}
<1>1. 0 \in T
    OBVIOUS
<1>2. ASSUME NEW k \in 0 .. n - 1, k \in T PROVE k + 1 \in T
  <2>1. k + 1 \in 1 .. n /\ (k + 1) - 1 = k
    OBVIOUS
  <2> QED BY <1>2, <2>1
<1>3. 0 .. n \subseteq T
  <2> HIDE DEF T
  <2> QED BY <1>1, <1>2, IntervalInduction
<1> QED BY <1>3

(* The same for a recursion over 0 .. n.                                      *)
Unrolls(g, n, S, base, F) ==
    g \in [0 .. n -> S] /\ g[0] = base /\ \A k \in 1 .. n : g[k] = F[<<k, g[k - 1]>>]

(* A recursion on the index exists. *)
LEMMA RecursionExists ==
    ASSUME NEW n \in Nat, NEW S, NEW base \in S, NEW F \in Steps(n, S)
    PROVE  \E g : Unrolls(g, n, S, base, F)
<1> DEFINE Solves(g, m) == g[0] = base /\ \A k \in 1 .. m : g[k] = F[<<k, g[k - 1]>>]
<1> DEFINE T == {m \in 0 .. n : \E g \in [0 .. m -> S] : Solves(g, m)}
<1>1. 0 \in T
  <2> DEFINE g == [k \in 0 .. 0 |-> base]
  <2>1. g \in [0 .. 0 -> S] /\ Solves(g, 0)
    OBVIOUS
  <2>2. 0 \in 0 .. n
    OBVIOUS
  <2> HIDE DEF g, Solves
  <2> QED BY <2>1, <2>2
<1>2. ASSUME NEW m \in 0 .. n - 1, m \in T PROVE m + 1 \in T
  <2>1. PICK h \in [0 .. m -> S] : Solves(h, m)
    BY <1>2
  <2> DEFINE g == [k \in 0 .. m + 1 |-> IF k = m + 1 THEN F[<<m + 1, h[m]>>] ELSE h[k]]
  <2>2. \A k \in 0 .. m : k \in 0 .. m + 1 /\ k # m + 1
    OBVIOUS
  <2>3. m + 1 \in 0 .. m + 1 /\ m + 1 \in 1 .. n /\ m \in 0 .. m /\ (m + 1) - 1 = m
    OBVIOUS
  <2>4. F[<<m + 1, h[m]>>] \in S
    BY <2>1, <2>3 DEF Steps
  <2>5. (\A k \in 0 .. m : g[k] = h[k]) /\ g[m + 1] = F[<<m + 1, h[m]>>]
    BY <2>2, <2>3
  <2>6. g \in [0 .. m + 1 -> S]
    <3> SUFFICES ASSUME NEW k \in 0 .. m + 1
                 PROVE  (IF k = m + 1 THEN F[<<m + 1, h[m]>>] ELSE h[k]) \in S
        OBVIOUS
    <3>1. CASE k = m + 1
        BY <2>4, <3>1
    <3>2. CASE k # m + 1
        <4>1. k \in 0 .. m
            BY <3>2
        <4> QED BY <2>1, <3>2, <4>1
    <3> QED BY <3>1, <3>2
  <2>7. Solves(g, m + 1)
    <3> HIDE DEF g
    <3>1. g[0] = base
        BY <2>1, <2>5
    <3>2. ASSUME NEW k \in 1 .. m + 1 PROVE g[k] = F[<<k, g[k - 1]>>]
        <4>1. CASE k = m + 1
            <5>1. k - 1 = m
                BY <4>1
            <5> QED BY <2>3, <2>5, <4>1, <5>1
        <4>2. CASE k # m + 1
            <5>1. k \in 1 .. m /\ k \in 0 .. m /\ k - 1 \in 0 .. m
                BY <4>2
            <5> QED BY <2>1, <2>5, <5>1
        <4> QED BY <4>1, <4>2
    <3> QED BY <3>1, <3>2
  <2>8. m + 1 \in 0 .. n
    OBVIOUS
  <2> HIDE DEF g, Solves
  <2> QED BY <2>6, <2>7, <2>8
<1>3. 0 .. n \subseteq T
  <2> HIDE DEF T
  <2> QED BY <1>1, <1>2, IntervalInduction
<1>4. n \in T
  <2> HIDE DEF T
  <2> QED BY <1>3
<1>5. PICK g \in [0 .. n -> S] : Solves(g, n)
  <2> HIDE DEF Solves
  <2> QED BY <1>4
<1> QED BY <1>5 DEF Unrolls

(* What holds at 0 and is kept by each step holds of the recursion. *)
LEMMA RecursionInvariant ==
    ASSUME NEW n \in Nat, NEW S, NEW f, f[0] \in S,
           \A k \in 1 .. n : f[k - 1] \in S => f[k] \in S
    PROVE  \A k \in 0 .. n : f[k] \in S
<1> DEFINE T == {k \in 0 .. n : f[k] \in S}
<1>1. 0 \in T
    OBVIOUS
<1>2. ASSUME NEW k \in 0 .. n - 1, k \in T PROVE k + 1 \in T
  <2>1. k + 1 \in 1 .. n /\ (k + 1) - 1 = k
    OBVIOUS
  <2> QED BY <1>2, <2>1
<1>3. 0 .. n \subseteq T
  <2> HIDE DEF T
  <2> QED BY <1>1, <1>2, IntervalInduction
<1> QED BY <1>3

-------------------------------------------------------------------------------
(* Selected: how it grows, and what it holds. *)

\* f is the recursion inside Selected, of elements in T.
Selects(f, seq, S, T) ==
    /\ f \in [0 .. Len(seq) -> Seq(T)]
    /\ f[0] = <<>> /\ Selected(seq, S) = f[Len(seq)]
    /\ \A k \in 1 .. Len(seq) :
          f[k] = IF seq[k] \in S THEN Append(f[k - 1], seq[k]) ELSE f[k - 1]

(* The recursion inside Selected unrolls. *)
LEMMA SelectedRecursion ==
    ASSUME NEW T, NEW seq \in Seq(T), NEW S
    PROVE  \E f : Selects(f, seq, S, T)
<1> DEFINE n == Len(seq)
<1> DEFINE Eqn(f) ==
        f = [k \in 0 .. n |->
                IF k = 0 THEN <<>>
                ELSE IF seq[k] \in S THEN Append(f[k - 1], seq[k]) ELSE f[k - 1]]
<1> DEFINE F == [q \in (1 .. n) \X Seq(T) |->
                    IF seq[q[1]] \in S THEN Append(q[2], seq[q[1]]) ELSE q[2]]
<1>1. n \in Nat /\ <<>> \in Seq(T)
    OBVIOUS
<1>2. F \in [(1 .. n) \X Seq(T) -> Seq(T)]
    OBVIOUS
<1>3. PICK g : Unrolls(g, n, Seq(T), <<>>, F)
  <2>1. F \in Steps(n, Seq(T))
    BY <1>2 DEF Steps
  <2> HIDE DEF F, n
  <2> QED BY <1>1, <2>1, RecursionExists
<1>4. ASSUME NEW k \in 1 .. n
      PROVE  g[k] = IF seq[k] \in S THEN Append(g[k - 1], seq[k]) ELSE g[k - 1]
  <2>1. g[k - 1] \in Seq(T)
    <3>1. k - 1 \in 0 .. n
        BY <1>1
    <3> HIDE DEF n, F
    <3> QED BY <1>3, <3>1 DEF Unrolls
  <2>2. F[<<k, g[k - 1]>>] = IF seq[k] \in S THEN Append(g[k - 1], seq[k]) ELSE g[k - 1]
    BY <2>1
  <2> QED BY <1>3, <2>2 DEF Unrolls
<1>5. Eqn(g)
  <2> HIDE DEF F, n
  <2>1. \A k \in 0 .. n : k # 0 => k \in 1 .. n
    BY <1>1
  <2> QED BY <1>3, <1>4, <2>1 DEF Unrolls
<1>6. Eqn(CHOOSE f : Eqn(f))
  <2> HIDE DEF Eqn
  <2> QED BY <1>5
<1> DEFINE h == CHOOSE f : Eqn(f)
<1>7. Selected(seq, S) = h[n]
    BY DEF Selected
<1>8. h[0] = <<>> /\ \A k \in 1 .. n :
          h[k] = IF seq[k] \in S THEN Append(h[k - 1], seq[k]) ELSE h[k - 1]
  <2>1. Eqn(h)
    BY <1>6
  <2>2. 0 \in 0 .. n /\ \A k \in 1 .. n : k \in 0 .. n /\ k # 0
    BY <1>1
  <2> HIDE DEF h, n
  <2> QED BY <2>1, <2>2
<1>9. \A k \in 0 .. n : h[k] \in Seq(T)
  <2>1. ASSUME NEW k \in 1 .. n, h[k - 1] \in Seq(T) PROVE h[k] \in Seq(T)
    <3>1. seq[k] \in T
        OBVIOUS
    <3>2. Append(h[k - 1], seq[k]) \in Seq(T)
        BY <2>1, <3>1, AppendProperties
    <3> HIDE DEF h
    <3> QED BY <1>8, <2>1, <3>2
  <2>2. h[0] \in Seq(T)
    <3> HIDE DEF h
    <3> QED BY <1>1, <1>8
  <2> HIDE DEF h, n
  <2> QED BY <1>1, <2>1, <2>2, RecursionInvariant
<1>10. h \in [0 .. n -> Seq(T)]
  <2>1. Eqn(h)
    BY <1>6
  <2>2. h = [k \in 0 .. n |-> h[k]]
    <3> HIDE DEF h, n
    <3> QED BY <2>1
  <2> HIDE DEF h, n
  <2> QED BY <1>9, <2>2
<1> HIDE DEF h
<1> QED BY <1>7, <1>8, <1>10 DEF Selects

(* What is selected is in the sequence and in the set.                        *)
LEMMA SelectedSeq ==
    ASSUME NEW T, NEW seq \in Seq(T), NEW S
    PROVE  Selected(seq, S) \in Seq(T \cap S)
<1>0. PICK f : Selects(f, seq, S, T)
    BY SelectedRecursion
<1>1. /\ f[0] = <<>> /\ Selected(seq, S) = f[Len(seq)]
      /\ \A k \in 1 .. Len(seq) :
            f[k] = IF seq[k] \in S THEN Append(f[k - 1], seq[k]) ELSE f[k - 1]
    BY <1>0 DEF Selects
<1> DEFINE n == Len(seq)  Q == Seq(T \cap S)
<1>2. n \in Nat /\ <<>> \in Q
    OBVIOUS
<1>3. ASSUME NEW k \in 1 .. n, f[k - 1] \in Q PROVE f[k] \in Q
  <2>1. CASE seq[k] \in S
    <3>1. seq[k] \in T \cap S
        BY <2>1
    <3>2. Append(f[k - 1], seq[k]) \in Q
        BY <1>3, <3>1, AppendProperties
    <3> HIDE DEF Q
    <3> QED BY <1>1, <2>1, <3>2
  <2>2. CASE seq[k] \notin S
    <3> HIDE DEF Q
    <3> QED BY <1>1, <1>3, <2>2
  <2> QED BY <2>1, <2>2
<1>4. \A k \in 0 .. n : f[k] \in Q
  <2>1. f[0] \in Q
    BY <1>1, <1>2
  <2> HIDE DEF Q, n
  <2> QED BY <1>2, <1>3, <2>1, RecursionInvariant
<1>5. n \in 0 .. n
    BY <1>2
<1> HIDE DEF Q
<1>6. Selected(seq, S) \in Q
    BY <1>1, <1>4, <1>5
<1> QED BY <1>6 DEF Q

(* It looks at the elements of the sequence only. *)
LEMMA SelectedCong ==
    ASSUME NEW T, NEW seq \in Seq(T), NEW S, NEW R,
           \A k \in 1 .. Len(seq) : seq[k] \in S <=> seq[k] \in R
    PROVE  Selected(seq, S) = Selected(seq, R)
<1> DEFINE n == Len(seq)
<1>1. PICK f : Selects(f, seq, S, T)
    BY SelectedRecursion
<1>2. PICK h : Selects(h, seq, R, T)
    BY SelectedRecursion
<1> DEFINE Q == {k \in 0 .. n : f[k] = h[k]}
<1>3. n \in Nat
    OBVIOUS
<1>4. 0 \in Q
    BY <1>1, <1>2 DEF Selects
<1>5. ASSUME NEW k \in 0 .. n - 1, k \in Q PROVE k + 1 \in Q
  <2>1. k + 1 \in 1 .. n /\ (k + 1) - 1 = k /\ k + 1 \in 0 .. n
    BY <1>3
  <2> QED BY <1>1, <1>2, <1>5, <2>1 DEF Selects
<1>6. 0 .. n \subseteq Q
  <2> HIDE DEF Q, n
  <2> QED BY <1>3, <1>4, <1>5, IntervalInduction
<1>7. f[n] = h[n]
    BY <1>3, <1>6
<1> QED BY <1>1, <1>2, <1>7 DEF Selects

(* An element more. *)
LEMMA SelectedAppend ==
    ASSUME NEW T, NEW seq \in Seq(T), NEW x \in T, NEW S
    PROVE  Selected(Append(seq, x), S) =
              IF x \in S THEN Append(Selected(seq, S), x) ELSE Selected(seq, S)
<1> DEFINE n == Len(seq)
           long == Append(seq, x)
<1>0. /\ long \in Seq(T) /\ Len(long) = n + 1 /\ n \in Nat
      /\ long[n + 1] = x /\ \A k \in 1 .. n : long[k] = seq[k]
    OBVIOUS
<1>1. PICK f : Selects(f, seq, S, T)
    BY SelectedRecursion
<1> HIDE DEF long
<1>2. PICK h : Selects(h, long, S, T)
    BY <1>0, SelectedRecursion
<1> DEFINE Q == {k \in 0 .. n : f[k] = h[k]}
<1>4. 0 \in Q
    BY <1>0, <1>1, <1>2 DEF Selects
<1>5. ASSUME NEW k \in 0 .. n - 1, k \in Q PROVE k + 1 \in Q
  <2>1. k + 1 \in 1 .. n /\ (k + 1) - 1 = k /\ k + 1 \in 0 .. n /\ k + 1 \in 1 .. n + 1
    BY <1>0
  <2>2. f[k + 1] = IF seq[k + 1] \in S THEN Append(f[k], seq[k + 1]) ELSE f[k]
    BY <1>1, <2>1 DEF Selects
  <2>3. h[k + 1] = IF long[k + 1] \in S THEN Append(h[k], long[k + 1]) ELSE h[k]
    BY <1>0, <1>2, <2>1 DEF Selects
  <2> QED BY <1>0, <1>5, <2>1, <2>2, <2>3
<1>6. 0 .. n \subseteq Q
  <2> HIDE DEF Q, n
  <2> QED BY <1>0, <1>4, <1>5, IntervalInduction
<1>7. f[n] = h[n]
    BY <1>0, <1>6
<1>8. h[n + 1] = IF x \in S THEN Append(h[n], x) ELSE h[n]
  <2>1. n + 1 \in 1 .. n + 1 /\ (n + 1) - 1 = n
    BY <1>0
  <2> QED BY <1>0, <1>2, <2>1 DEF Selects
<1>9. Selected(long, S) = h[n + 1] /\ Selected(seq, S) = f[n]
    BY <1>0, <1>1, <1>2 DEF Selects
<1> QED BY <1>7, <1>8, <1>9 DEF long

(* Of nothing, nothing is selected. *)
LEMMA SelectedEmpty == ASSUME NEW S PROVE Selected(<<>>, S) = <<>>
<1>1. <<>> \in Seq({}) /\ Len(<<>>) = 0
    OBVIOUS
<1>2. PICK f : Selects(f, <<>>, S, {})
    BY <1>1, SelectedRecursion
<1> QED BY <1>1, <1>2 DEF Selects

-------------------------------------------------------------------------------
(* FlattenSeq. *)

(* A concatenation holds the elements of both. *)
LEMMA ConcatRange ==
    ASSUME NEW T, NEW s \in Seq(T), NEW t \in Seq(T)
    PROVE  Range(s \o t) = Range(s) \cup Range(t)
<1>1. /\ s \o t \in Seq(T) /\ Len(s \o t) = Len(s) + Len(t)
      /\ Len(s) \in Nat /\ Len(t) \in Nat
      /\ DOMAIN s = 1 .. Len(s) /\ DOMAIN t = 1 .. Len(t)
    OBVIOUS
<1>2. \A i \in 1 .. Len(s) : (s \o t)[i] = s[i] /\ i \in DOMAIN (s \o t)
    OBVIOUS
<1>3. \A i \in 1 .. Len(t) : (s \o t)[Len(s) + i] = t[i] /\ Len(s) + i \in DOMAIN (s \o t)
    OBVIOUS
<1>4. ASSUME NEW i \in DOMAIN (s \o t) PROVE (s \o t)[i] \in Range(s) \cup Range(t)
  <2>1. CASE i \in 1 .. Len(s)
    BY <1>1, <1>2, <2>1 DEF Range
  <2>2. CASE i \notin 1 .. Len(s)
    <3>1. i \in 1 .. Len(s) + Len(t)
        BY <1>1
    <3>2. i - Len(s) \in 1 .. Len(t) /\ i = Len(s) + (i - Len(s))
        BY <1>1, <2>2, <3>1
    <3>3. (s \o t)[i] = t[i - Len(s)]
        BY <1>3, <3>2
    <3> QED BY <1>1, <3>2, <3>3 DEF Range
  <2> QED BY <2>1, <2>2
<1>5. Range(s) \subseteq Range(s \o t)
    BY <1>1, <1>2 DEF Range
<1>6. Range(t) \subseteq Range(s \o t)
    BY <1>1, <1>3 DEF Range
<1>7. Range(s \o t) \subseteq Range(s) \cup Range(t)
    BY <1>4 DEF Range
<1> QED BY <1>5, <1>6, <1>7

(* All that is in both is selected. *)
LEMMA SelectedRange ==
    ASSUME NEW T, NEW seq \in Seq(T), NEW S
    PROVE  Range(Selected(seq, S)) = Range(seq) \cap S
<1> DEFINE n == Len(seq)
           Met(k) == {y \in S : \E i \in 1 .. k : seq[i] = y}
<1>1. PICK f : Selects(f, seq, S, T)
    BY SelectedRecursion
<1>2. /\ n \in Nat /\ DOMAIN seq = 1 .. n /\ \A k \in 0 .. n : f[k] \in Seq(T)
      /\ f[0] = <<>> /\ Selected(seq, S) = f[n]
      /\ \A k \in 1 .. n :
            f[k] = IF seq[k] \in S THEN Append(f[k - 1], seq[k]) ELSE f[k - 1]
  <2>1. n \in Nat /\ DOMAIN seq = 1 .. n
    OBVIOUS
  <2> HIDE DEF n
  <2>2. /\ f \in [0 .. n -> Seq(T)] /\ f[0] = <<>> /\ Selected(seq, S) = f[n]
        /\ \A k \in 1 .. n :
              f[k] = IF seq[k] \in S THEN Append(f[k - 1], seq[k]) ELSE f[k - 1]
    BY <1>1 DEF Selects, n
  <2>3. \A k \in 0 .. n : f[k] \in Seq(T)
    BY <2>2
  <2> QED BY <2>1, <2>2, <2>3
<1> DEFINE Q == {k \in 0 .. n : Range(f[k]) = Met(k)}
<1>3. 0 \in Q
  <2>1. Range(<<>>) = {} /\ 1 .. 0 = {}
    BY DEF Range
  <2> QED BY <1>2, <2>1
<1>4. ASSUME NEW k \in 0 .. n - 1, k \in Q PROVE k + 1 \in Q
  <2>1. k + 1 \in 1 .. n /\ (k + 1) - 1 = k /\ k + 1 \in 0 .. n /\ k \in 0 .. n
    BY <1>2
  <2>2. Range(f[k]) = Met(k) /\ f[k] \in Seq(T)
    BY <1>2, <1>4, <2>1
  <2>3. f[k + 1] = IF seq[k + 1] \in S THEN Append(f[k], seq[k + 1]) ELSE f[k]
    BY <1>2, <2>1
  <2>4. \A i : i \in 1 .. (k + 1) <=> i \in 1 .. k \/ i = k + 1
    BY <2>1
  <2>5. Met(k + 1) = IF seq[k + 1] \in S THEN Met(k) \cup {seq[k + 1]} ELSE Met(k)
    BY <2>4
  <2>6. Range(Append(f[k], seq[k + 1])) = Range(f[k]) \cup {seq[k + 1]}
    <3>1. seq[k + 1] \in T
        BY <2>1
    <3>2. \A s \in Seq(T), x \in T : Range(Append(s, x)) = Range(s) \cup {x}
      <4> SUFFICES ASSUME NEW s \in Seq(T), NEW x \in T PROVE Range(Append(s, x)) = Range(s) \cup {x}
        OBVIOUS
      <4>1. Append(s, x) = s \o <<x>> /\ <<x>> \in Seq(T)
        OBVIOUS
      <4>2. Range(<<x>>) = {x}
        BY DEF Range
      <4>3. Range(s \o <<x>>) = Range(s) \cup Range(<<x>>)
        BY <4>1, ConcatRange
      <4> QED BY <4>1, <4>2, <4>3
    <3> HIDE DEF n
    <3> QED BY <2>2, <3>1, <3>2
  <2> HIDE DEF Met
  <2> QED BY <2>1, <2>2, <2>3, <2>5, <2>6
<1>5. 0 .. n \subseteq Q
  <2> HIDE DEF Q, n
  <2> QED BY <1>2, <1>3, <1>4, IntervalInduction
<1>6. Range(f[n]) = Met(n)
    BY <1>2, <1>5
<1>7. Met(n) = Range(seq) \cap S
    BY <1>2 DEF Range
<1> QED BY <1>2, <1>6, <1>7

(* Nothing before a sequence leaves it as it is. *)
LEMMA ConcatEmpty == ASSUME NEW T, NEW s \in Seq(T) PROVE <<>> \o s = s
OBVIOUS

\* f is the recursion inside FlattenSeq, starting from nothing.
Flattens(f, ss, T) ==
    /\ f \in [0 .. Len(ss) -> Seq(T)]
    /\ f[0] = <<>> /\ FlattenSeq(ss) = f[Len(ss)]
    /\ \A k \in 1 .. Len(ss) : f[k] = f[k - 1] \o ss[k]

(* The recursion inside FlattenSeq unrolls, starting from nothing. *)
LEMMA FlattenRecursion ==
    ASSUME NEW T, NEW ss \in Seq(Seq(T))
    PROVE  \E f : Flattens(f, ss, T)
<1> DEFINE n == Len(ss)
<1> DEFINE Eqn(f) ==
        f = [i \in 1 .. n |-> IF i = 1 THEN ss[i] ELSE f[i - 1] \o ss[i]]
<1> DEFINE F == [q \in (1 .. n) \X Seq(T) |-> q[2] \o ss[q[1]]]
<1>1. n \in Nat /\ <<>> \in Seq(T) /\ \A k \in 1 .. n : ss[k] \in Seq(T)
    OBVIOUS
<1>2. F \in Steps(n, Seq(T))
  <2>1. \A q \in (1 .. n) \X Seq(T) : q[2] \o ss[q[1]] \in Seq(T)
    BY <1>1
  <2> HIDE DEF n
  <2> QED BY <2>1 DEF Steps
<1>3. PICK g : Unrolls(g, n, Seq(T), <<>>, F)
  <2> HIDE DEF F, n
  <2> QED BY <1>1, <1>2, RecursionExists
<1>4. ASSUME NEW k \in 1 .. n PROVE g[k - 1] \in Seq(T) /\ g[k] = g[k - 1] \o ss[k]
  <2>1. g[k - 1] \in Seq(T)
    <3>1. k - 1 \in 0 .. n
        BY <1>1
    <3> HIDE DEF n, F
    <3> QED BY <1>3, <3>1 DEF Unrolls
  <2>2. F[<<k, g[k - 1]>>] = g[k - 1] \o ss[k]
    BY <2>1
  <2> QED BY <1>3, <2>1, <2>2 DEF Unrolls
<1>5. g[0] = <<>> /\ g \in [0 .. n -> Seq(T)]
    BY <1>3 DEF Unrolls
<1> DEFINE e == [k \in 1 .. n |-> g[k]]
<1>6. Eqn(e)
  <2> SUFFICES ASSUME NEW k \in 1 .. n
               PROVE  e[k] = IF k = 1 THEN ss[k] ELSE e[k - 1] \o ss[k]
    OBVIOUS
  <2>1. CASE k = 1
    <3>1. k - 1 = 0 /\ ss[k] \in Seq(T)
        BY <1>1, <2>1
    <3>2. g[k] = <<>> \o ss[k]
        BY <1>4, <1>5, <3>1
    <3>3. <<>> \o ss[k] = ss[k]
        BY <3>1, ConcatEmpty
    <3> QED BY <2>1, <3>2, <3>3
  <2>2. CASE k # 1
    <3>1. k - 1 \in 1 .. n
        BY <1>1, <2>2
    <3> QED BY <1>4, <2>2, <3>1
  <2> QED BY <2>1, <2>2
<1> DEFINE h == CHOOSE f : Eqn(f)
<1>7. Eqn(h)
  <2> HIDE DEF Eqn, e
  <2> QED BY <1>6
<1>8. ASSUME NEW k \in 1 .. n PROVE h[k] = g[k]
  <2> DEFINE Q == {i \in 0 .. n : i = 0 \/ h[i] = g[i]}
  <2>1. 0 \in Q
    BY <1>1
  <2>2. ASSUME NEW i \in 0 .. n - 1, i \in Q PROVE i + 1 \in Q
    <3>1. i + 1 \in 1 .. n /\ (i + 1) - 1 = i /\ i + 1 \in 0 .. n
        BY <1>1
    <3>2. h[i + 1] = IF i + 1 = 1 THEN ss[i + 1] ELSE h[i] \o ss[i + 1]
        <4> HIDE DEF h
        <4> QED BY <1>7, <3>1
    <3>3. g[i + 1] = g[i] \o ss[i + 1]
        BY <1>4, <3>1
    <3>4. CASE i = 0
        <4>1. ss[i + 1] \in Seq(T)
            BY <1>1, <3>1
        <4>2. <<>> \o ss[i + 1] = ss[i + 1]
            BY <4>1, ConcatEmpty
        <4>3. g[i + 1] = ss[i + 1]
            BY <1>5, <3>3, <3>4, <4>2
        <4>4. h[i + 1] = ss[i + 1]
            <5> HIDE DEF h
            <5> QED BY <3>2, <3>4
        <4> HIDE DEF h
        <4> QED BY <3>1, <4>3, <4>4
    <3>5. CASE i # 0
        <4>1. h[i] = g[i]
            BY <2>2, <3>5
        <4>2. h[i + 1] = h[i] \o ss[i + 1]
            <5>1. i + 1 # 1
                BY <3>5
            <5> HIDE DEF h
            <5> QED BY <3>2, <5>1
        <4> HIDE DEF h
        <4> QED BY <3>1, <3>3, <4>1, <4>2
    <3> QED BY <3>4, <3>5
  <2>3. 0 .. n \subseteq Q
    <3> HIDE DEF Q, n
    <3> QED BY <1>1, <2>1, <2>2, IntervalInduction
  <2>4. k \in 0 .. n /\ k # 0
    BY <1>1
  <2> QED BY <2>3, <2>4
<1>9. FlattenSeq(ss) = g[n]
  <2>1. CASE n = 0
    <3>1. ss = <<>>
        BY <2>1
    <3>2. FlattenSeq(ss) = ss
        BY <2>1 DEF FlattenSeq
    <3> QED BY <1>5, <2>1, <3>1, <3>2
  <2>2. CASE n # 0
    <3>1. FlattenSeq(ss) = h[n]
        BY <2>2 DEF FlattenSeq
    <3>2. n \in 1 .. n
        BY <1>1, <2>2
    <3> HIDE DEF h
    <3> QED BY <1>8, <3>1, <3>2
  <2> QED BY <2>1, <2>2
<1> QED BY <1>4, <1>5, <1>9 DEF Flattens

(* What is flattened is a sequence of the elements. *)
LEMMA FlattenIsSeq ==
    ASSUME NEW T, NEW ss \in Seq(Seq(T))
    PROVE  FlattenSeq(ss) \in Seq(T)
<1>1. PICK f : Flattens(f, ss, T)
    BY FlattenRecursion
<1>2. Len(ss) \in 0 .. Len(ss)
    OBVIOUS
<1> QED BY <1>1, <1>2 DEF Flattens

(* One sequence more. *)
LEMMA FlattenAppend ==
    ASSUME NEW T, NEW ss \in Seq(Seq(T)), NEW s \in Seq(T)
    PROVE  FlattenSeq(Append(ss, s)) = FlattenSeq(ss) \o s
<1> DEFINE n == Len(ss)
           long == Append(ss, s)
<1>0. /\ long \in Seq(Seq(T)) /\ Len(long) = n + 1 /\ n \in Nat
      /\ long[n + 1] = s /\ \A k \in 1 .. n : long[k] = ss[k]
    OBVIOUS
<1>1. PICK f : Flattens(f, ss, T)
    BY FlattenRecursion
<1> HIDE DEF long
<1>2. PICK h : Flattens(h, long, T)
    BY <1>0, FlattenRecursion
<1> DEFINE Q == {k \in 0 .. n : f[k] = h[k]}
<1>4. 0 \in Q
    BY <1>0, <1>1, <1>2 DEF Flattens
<1>5. ASSUME NEW k \in 0 .. n - 1, k \in Q PROVE k + 1 \in Q
  <2>1. k + 1 \in 1 .. n /\ (k + 1) - 1 = k /\ k + 1 \in 0 .. n /\ k + 1 \in 1 .. n + 1
    BY <1>0
  <2>2. f[k + 1] = f[k] \o ss[k + 1]
    BY <1>1, <2>1 DEF Flattens
  <2>3. h[k + 1] = h[k] \o long[k + 1]
    BY <1>0, <1>2, <2>1 DEF Flattens
  <2> QED BY <1>0, <1>5, <2>1, <2>2, <2>3
<1>6. 0 .. n \subseteq Q
  <2> HIDE DEF Q, n
  <2> QED BY <1>0, <1>4, <1>5, IntervalInduction
<1>7. f[n] = h[n]
    BY <1>0, <1>6
<1>8. h[n + 1] = h[n] \o s
  <2>1. n + 1 \in 1 .. n + 1 /\ (n + 1) - 1 = n
    BY <1>0
  <2> QED BY <1>0, <1>2, <2>1 DEF Flattens
<1>9. FlattenSeq(long) = h[n + 1] /\ FlattenSeq(ss) = f[n]
    BY <1>0, <1>1, <1>2 DEF Flattens
<1> QED BY <1>7, <1>8, <1>9 DEF long

(* Of no sequences. *)
LEMMA FlattenEmpty == FlattenSeq(<<>>) = <<>>
BY DEF FlattenSeq

(* What is flattened holds the elements of the sequences. *)
LEMMA FlattenRange ==
    ASSUME NEW T, NEW ss \in Seq(Seq(T))
    PROVE  Range(FlattenSeq(ss)) = UNION {Range(ss[k]) : k \in DOMAIN ss}
<1> DEFINE n == Len(ss)
<1>1. n \in Nat /\ DOMAIN ss = 1 .. n /\ \A k \in 1 .. n : ss[k] \in Seq(T)
    OBVIOUS
<1>2. PICK f : Flattens(f, ss, T)
    BY FlattenRecursion
<1>3. /\ \A k \in 0 .. n : f[k] \in Seq(T)
      /\ f[0] = <<>> /\ FlattenSeq(ss) = f[n]
      /\ \A k \in 1 .. n : f[k] = f[k - 1] \o ss[k]
    BY <1>2 DEF Flattens
<1> DEFINE All(k) == UNION {Range(ss[i]) : i \in 1 .. k}
           Q == {k \in 0 .. n : Range(f[k]) = All(k)}
<1>4. 0 \in Q
  <2>1. Range(<<>>) = {} /\ All(0) = {}
    BY DEF Range
  <2> QED BY <1>1, <1>3, <2>1
<1>5. ASSUME NEW k \in 0 .. n - 1, k \in Q PROVE k + 1 \in Q
  <2>1. k + 1 \in 1 .. n /\ (k + 1) - 1 = k /\ k + 1 \in 0 .. n /\ k \in 0 .. n
    BY <1>1
  <2>2. f[k + 1] = f[k] \o ss[k + 1]
    BY <1>3, <2>1
  <2>3. f[k] \in Seq(T) /\ ss[k + 1] \in Seq(T)
    BY <1>1, <1>3, <2>1
  <2>4. Range(f[k + 1]) = Range(f[k]) \cup Range(ss[k + 1])
    BY <2>2, <2>3, ConcatRange
  <2>5. All(k + 1) = All(k) \cup Range(ss[k + 1])
    <3>1. 1 .. k + 1 = (1 .. k) \cup {k + 1}
        BY <2>1
    <3> QED BY <3>1
  <2>6. Range(f[k]) = All(k)
    BY <1>5
  <2> HIDE DEF All
  <2> QED BY <2>1, <2>4, <2>5, <2>6
<1>6. 0 .. n \subseteq Q
  <2> HIDE DEF Q, n
  <2> QED BY <1>1, <1>4, <1>5, IntervalInduction
<1>7. n \in Q
  <2>1. n \in 0 .. n
    BY <1>1
  <2> HIDE DEF Q, n
  <2> QED BY <1>6, <2>1
<1> QED BY <1>1, <1>3, <1>7

(* A sequence that ends in another one. *)
LEMMA LastSplit ==
    ASSUME NEW T, NEW ss \in Seq(T), ss # <<>>
    PROVE  /\ Len(ss) \in Nat \ {0} /\ ss[Len(ss)] \in T
           /\ SubSeq(ss, 1, Len(ss) - 1) \in Seq(T)
           /\ ss = Append(SubSeq(ss, 1, Len(ss) - 1), ss[Len(ss)])
<1> DEFINE n == Len(ss)
           front == SubSeq(ss, 1, n - 1)
<1>1. n \in Nat \ {0} /\ ss[n] \in T /\ n - 1 \in Nat /\ DOMAIN ss = 1 .. n
    OBVIOUS
<1>2. /\ front = [i \in 1 .. n - 1 |-> ss[i]]
      /\ \A i \in 1 .. n - 1 : ss[i] \in T
  <2>1. (n - 1) - 1 + 1 = n - 1 /\ \A i \in 1 .. n - 1 : i + 1 - 1 = i
    BY <1>1
  <2>2. \A i \in 1 .. n - 1 : i \in DOMAIN ss
    BY <1>1
  <2> QED BY <1>1, <2>1, <2>2
<1> HIDE DEF n, front
<1>3. front \in Seq(T) /\ Len(front) = n - 1 /\ \A i \in 1 .. n - 1 : front[i] = ss[i]
    BY <1>1, <1>2
<1>4. /\ Append(front, ss[n]) \in Seq(T) /\ Len(Append(front, ss[n])) = n
      /\ \A i \in 1 .. n : Append(front, ss[n])[i] = ss[i]
    BY <1>1, <1>3
<1>5. ss = Append(front, ss[n])
    BY <1>4 DEF n
<1> QED BY <1>1, <1>3, <1>5 DEF n, front

(* The last sequence grows. *)
LEMMA FlattenExtend ==
    ASSUME NEW T, NEW ss \in Seq(Seq(T)), ss # <<>>, NEW l \in T
    PROVE  FlattenSeq([ss EXCEPT ![Len(ss)] = Append(ss[Len(ss)], l)])
              = Append(FlattenSeq(ss), l)
<1> DEFINE n == Len(ss)
           front == SubSeq(ss, 1, n - 1)
           last == ss[n]
           longer == Append(last, l)
<1>1. n \in Nat \ {0} /\ last \in Seq(T) /\ front \in Seq(Seq(T)) /\ ss = Append(front, last)
    BY LastSplit
<1>2. Len(front) = n - 1 /\ longer \in Seq(T)
    BY <1>1
<1>3. [ss EXCEPT ![n] = longer] = Append(front, longer)
  <2>1. \A i \in 1 .. n - 1 : front[i] = ss[i]
    BY <1>1
  <2> HIDE DEF front, longer, n
  <2>2. /\ Len(Append(front, longer)) = n /\ DOMAIN Append(front, longer) = 1 .. n
        /\ \A i \in 1 .. n : Append(front, longer)[i] = IF i = n THEN longer ELSE front[i]
    BY <1>1, <1>2
  <2>3. DOMAIN ss = 1 .. n
    BY DEF n
  <2>4. Append(front, longer) = [i \in 1 .. n |-> Append(front, longer)[i]]
    <3> DEFINE e == Append(front, longer)
    <3>1. e \in Seq(Seq(T))
        BY <1>1, <1>2
    <3>2. Len(e) = n
        BY <2>2
    <3> HIDE DEF e
    <3>3. e = [i \in 1 .. n |-> e[i]]
        BY <3>1, <3>2
    <3> QED BY <3>3 DEF e
  <2>5. [ss EXCEPT ![n] = longer] = [i \in 1 .. n |-> IF i = n THEN longer ELSE ss[i]]
    BY <2>3
  <2>6. \A i \in 1 .. n : i # n => i \in 1 .. n - 1
    BY <1>1
  <2> QED BY <2>1, <2>2, <2>4, <2>5, <2>6
<1>4. FlattenSeq(Append(front, longer)) = FlattenSeq(front) \o longer
    BY <1>1, <1>2, FlattenAppend
<1>5. FlattenSeq(ss) = FlattenSeq(front) \o last /\ FlattenSeq(front) \in Seq(T)
    BY <1>1, FlattenAppend, FlattenIsSeq
<1>6. FlattenSeq(front) \o Append(last, l) = Append(FlattenSeq(front) \o last, l)
  <2> DEFINE a == FlattenSeq(front)
  <2> HIDE DEF a, last
  <2>1. a \in Seq(T) /\ last \in Seq(T)
    BY <1>1, <1>5 DEF a
  <2>2. a \o Append(last, l) = Append(a \o last, l)
    BY <2>1
  <2> QED BY <2>2 DEF a
<1> QED BY <1>3, <1>4, <1>5, <1>6

-------------------------------------------------------------------------------
(* Congruences. *)

\* Equal modulo p.
Cong(a, b, p) == \E q \in Int : a - b = q * p

(* A multiple that is shown is a congruence. *)
LEMMA CongShown == ASSUME NEW p, NEW a, NEW b, NEW q \in Int, a - b = q * p PROVE Cong(a, b, p)
BY DEF Cong

(* A number is congruent to its residue. *)
LEMMA CongResidue ==
    ASSUME NEW a \in Int, NEW p \in Nat \ {0}
    PROVE  Cong(a, a % p, p) /\ a % p \in 0 .. (p - 1)
<1> DEFINE q == a \div p
           r == a % p
<1>1. a = p * q + r /\ q \in Int /\ r \in 0 .. (p - 1)
    OBVIOUS
<1> HIDE DEF q, r
<1>2. a - r = q * p
    BY <1>1
<1> QED BY <1>1, <1>2, CongShown DEF r

(* Residues that are congruent are equal. *)
LEMMA CongEqual ==
    ASSUME NEW p \in Nat \ {0}, NEW r \in 0 .. (p - 1), NEW s \in 0 .. (p - 1), Cong(r, s, p)
    PROVE  r = s
<1>1. PICK q \in Int : r - s = q * p
    BY DEF Cong
<1>2. q = 0
  <2>1. q > 0 => q * p >= p
    OBVIOUS
  <2>2. q < 0 => q * p <= -p
    OBVIOUS
  <2> QED BY <1>1, <2>1, <2>2
<1> QED BY <1>1, <1>2

(* Congruence is transitive. *)
LEMMA CongTrans ==
    ASSUME NEW p \in Int, NEW a \in Int, NEW b \in Int, NEW c \in Int, Cong(a, b, p), Cong(b, c, p)
    PROVE  Cong(a, c, p)
<1>1. PICK q \in Int : a - b = q * p
    BY DEF Cong
<1>2. PICK r \in Int : b - c = r * p
    BY DEF Cong
<1> DEFINE s == q + r
<1>3. s \in Int /\ a - c = s * p
  <2>1. s * p = q * p + r * p
    OBVIOUS
  <2> QED BY <1>1, <1>2, <2>1
<1> HIDE DEF s
<1> QED BY <1>3, CongShown

(* Congruence is symmetric. *)
LEMMA CongSwap ==
    ASSUME NEW p \in Int, NEW a \in Int, NEW b \in Int, Cong(a, b, p)
    PROVE  Cong(b, a, p)
<1>1. PICK q \in Int : a - b = q * p
    BY DEF Cong
<1> DEFINE s == -q
<1>2. s \in Int /\ b - a = s * p
    BY <1>1
<1> HIDE DEF s
<1> QED BY <1>2, CongShown

(* The residue of a number is the one residue congruent to it. *)
LEMMA ResidueIs ==
    ASSUME NEW p \in Nat \ {0}, NEW a \in Int, NEW r \in 0 .. (p - 1)
    PROVE  a % p = r <=> Cong(a, r, p)
<1>1. Cong(a, a % p, p) /\ a % p \in 0 .. (p - 1)
    BY CongResidue
<1> DEFINE s == a % p
<1>2. s \in 0 .. (p - 1) /\ Cong(a, s, p)
    BY <1>1
<1> HIDE DEF s
<1>3. ASSUME Cong(a, r, p) PROVE s = r
  <2>1. Cong(s, a, p)
    BY <1>2, CongSwap
  <2>2. Cong(s, r, p)
    BY <1>2, <1>3, <2>1, CongTrans
  <2> QED BY <1>2, <2>2, CongEqual
<1> QED BY <1>2, <1>3 DEF s

(* A number is congruent to itself. *)
LEMMA CongSame == ASSUME NEW p \in Int, NEW a \in Int PROVE Cong(a, a, p)
<1>1. a - a = 0 * p /\ 0 \in Int
    OBVIOUS
<1> QED BY <1>1, CongShown

(* Congruent numbers have congruent sums. *)
LEMMA CongSum ==
    ASSUME NEW p \in Int, NEW a \in Int, NEW b \in Int, NEW c \in Int, NEW d \in Int,
           Cong(a, b, p), Cong(c, d, p)
    PROVE  Cong(a + c, b + d, p)
<1>1. PICK q \in Int : a - b = q * p
    BY DEF Cong
<1>2. PICK r \in Int : c - d = r * p
    BY DEF Cong
<1>3. (q + r) * p = q * p + r * p
    OBVIOUS
<1>4. q + r \in Int /\ (a + c) - (b + d) = (q + r) * p
    BY <1>1, <1>2, <1>3
<1> QED BY <1>4, CongShown

(* So are products. *)
LEMMA CongProduct ==
    ASSUME NEW p \in Int, NEW a \in Int, NEW b \in Int, NEW c \in Int, NEW d \in Int,
           Cong(a, b, p), Cong(c, d, p)
    PROVE  Cong(a * c, b * d, p)
<1>1. PICK q \in Int : a - b = q * p
    BY DEF Cong
<1>2. PICK r \in Int : c - d = r * p
    BY DEF Cong
<1> DEFINE w == q * c + b * r
<1>3. w \in Int
    OBVIOUS
<1>4. a * c - b * d = (a - b) * c + b * (c - d)
    OBVIOUS
<1>5. w * p = (q * p) * c + b * (r * p)
    OBVIOUS
<1> HIDE DEF w
<1>6. a * c - b * d = w * p
    BY <1>1, <1>2, <1>4, <1>5
<1> QED BY <1>3, <1>6, CongShown

(* A congruence may be multiplied. *)
LEMMA CongTimes ==
    ASSUME NEW p \in Int, NEW a \in Int, NEW b \in Int, NEW c \in Int, Cong(a, b, p)
    PROVE  Cong(a * c, b * c, p) /\ Cong(c * a, c * b, p)
BY CongSame, CongProduct

(* The difference of congruent numbers is congruent to zero. *)
LEMMA CongLess ==
    ASSUME NEW p \in Int, NEW a \in Int, NEW b \in Int
    PROVE  Cong(a, b, p) <=> Cong(a - b, 0, p)
<1>1. (a - b) - 0 = a - b
    OBVIOUS
<1> QED BY <1>1 DEF Cong

-------------------------------------------------------------------------------
(* Sums over finite sets. *)

(* What holds of a set when it holds of the set without any one element      *)
(* holds of every finite set.                                                *)
LEMMA RemovalInduction ==
    ASSUME NEW S, IsFiniteSet(S), NEW T,
           \A s \in SUBSET S : (\A x \in s : s \ {x} \in T) => s \in T
    PROVE  SUBSET S \subseteq T
<1> DEFINE Q == {n \in Nat : \A s \in SUBSET S : Cardinality(s) = n => s \in T}
<1>0. \A s \in SUBSET S : IsFiniteSet(s) /\ Cardinality(s) \in Nat
    BY FS_Subset, FS_CardinalityType
<1>1. 0 \in Q
  <2>1. ASSUME NEW s \in SUBSET S, Cardinality(s) = 0 PROVE s \in T
    <3>1. s = {}
        BY <1>0, <2>1, FS_EmptySet
    <3> QED BY <3>1
  <2> QED BY <2>1
<1>2. ASSUME NEW n \in Nat, n \in Q PROVE n + 1 \in Q
  <2>1. ASSUME NEW s \in SUBSET S, Cardinality(s) = n + 1 PROVE s \in T
    <3>1. ASSUME NEW x \in s PROVE s \ {x} \in T
        <4>1. Cardinality(s \ {x}) = n
            <5>1. Cardinality(s \ {x}) = Cardinality(s) - 1
                BY <1>0, FS_RemoveElement
            <5> QED BY <2>1, <5>1
        <4> QED BY <1>2, <4>1
    <3> QED BY <3>1
  <2> QED BY <2>1
<1>3. Nat \subseteq Q
  <2> HIDE DEF Q
  <2> QED BY <1>1, <1>2, NatSetInduction
<1> QED BY <1>0, <1>3

(* What holds of {} and of a set with one element more holds of every finite *)
(* set.                                                                      *)
LEMMA SubsetInduction ==
    ASSUME NEW S, IsFiniteSet(S), NEW T, {} \in T,
           \A s \in SUBSET S : \A x \in S \ s : s \in T => s \cup {x} \in T
    PROVE  S \in T
<1>1. ASSUME NEW s \in SUBSET S, \A x \in s : s \ {x} \in T PROVE s \in T
  <2>1. ASSUME s # {} PROVE s \in T
    <3>1. PICK x \in s : TRUE
        BY <2>1
    <3>2. s \ {x} \in SUBSET S /\ x \in S \ (s \ {x}) /\ s = (s \ {x}) \cup {x}
        BY <3>1
    <3>3. s \ {x} \in T
        BY <1>1
    <3> QED BY <3>2, <3>3
  <2> QED BY <2>1
<1> QED BY <1>1, RemovalInduction

\* it sums f over the subsets of S, as the fold does.
IsSum(it, f, S) ==
    /\ it \in [SUBSET S -> Int]
    /\ \A s \in SUBSET S :
          it[s] = IF s = {} THEN 0
                  ELSE f[CHOOSE x \in s : TRUE] + it[s \ {CHOOSE x \in s : TRUE}]

\* f has integers on S.
IntOn(f, S) == \A x \in S : f[x] \in Int

(* The recursion inside the fold over a finite set has a solution. *)
LEMMA SumExists ==
    ASSUME NEW S, IsFiniteSet(S), NEW f, IntOn(f, S)
    PROVE  \E it : IsSum(it, f, S)
<1> DEFINE D(n) == {s \in SUBSET S : Cardinality(s) <= n}
           The(s) == CHOOSE x \in s : TRUE
           Solves(g, n) == \A s \in D(n) : g[s] = IF s = {} THEN 0 ELSE f[The(s)] + g[s \ {The(s)}]
           Q == {n \in Nat : \E g \in [D(n) -> Int] : Solves(g, n)}
<1>0. \A s \in SUBSET S : IsFiniteSet(s) /\ Cardinality(s) \in Nat
    BY FS_Subset, FS_CardinalityType
<1>01. \A s \in SUBSET S : s # {} => The(s) \in s /\ f[The(s)] \in Int
    BY DEF IntOn
<1>02. ASSUME NEW n \in Nat, NEW s \in D(n + 1), s # {} PROVE s \ {The(s)} \in D(n)
  <2>1. Cardinality(s \ {The(s)}) = Cardinality(s) - 1
    BY <1>0, <1>01, <1>02, FS_RemoveElement
  <2> HIDE DEF The
  <2> QED BY <1>0, <1>02, <2>1
<1>1. 0 \in Q
  <2> DEFINE g == [s \in D(0) |-> 0]
  <2>1. ASSUME NEW s \in D(0) PROVE s = {}
    BY <1>0, FS_EmptySet
  <2>2. g \in [D(0) -> Int] /\ Solves(g, 0)
    BY <2>1
  <2> QED BY <2>2
<1>2. ASSUME NEW n \in Nat, n \in Q PROVE n + 1 \in Q
  <2>1. PICK h \in [D(n) -> Int] : Solves(h, n)
    BY <1>2
  <2> DEFINE g == [s \in D(n + 1) |-> IF s = {} THEN 0 ELSE f[The(s)] + h[s \ {The(s)}]]
  <2> HIDE DEF D, The
  <2>2. ASSUME NEW s \in D(n + 1), s # {} PROVE f[The(s)] + h[s \ {The(s)}] \in Int
    <3>1. f[The(s)] \in Int
        BY <1>01, <2>2 DEF D
    <3>2. h[s \ {The(s)}] \in Int
        BY <1>02, <2>1, <2>2
    <3> QED BY <3>1, <3>2
  <2>3. g \in [D(n + 1) -> Int]
    BY <2>2
  <2>4. ASSUME NEW s \in D(n) PROVE s \in D(n + 1) /\ g[s] = h[s]
    <3>1. s \in D(n + 1)
        BY <1>0 DEF D
    <3>2. g[s] = h[s]
        BY <2>1, <3>1
    <3> QED BY <3>1, <3>2
  <2>5. Solves(g, n + 1)
    <3> SUFFICES ASSUME NEW s \in D(n + 1)
                 PROVE  g[s] = IF s = {} THEN 0 ELSE f[The(s)] + g[s \ {The(s)}]
        OBVIOUS
    <3>1. CASE s = {}
        BY <3>1
    <3>2. CASE s # {}
        <4>1. g[s] = f[The(s)] + h[s \ {The(s)}]
            BY <3>2
        <4>2. g[s \ {The(s)}] = h[s \ {The(s)}]
            BY <1>02, <2>4, <3>2
        <4> HIDE DEF g
        <4> QED BY <3>2, <4>1, <4>2
    <3> QED BY <3>1, <3>2
  <2> HIDE DEF g, Solves
  <2> QED BY <2>3, <2>5
<1>3. Nat \subseteq Q
  <2> HIDE DEF Q
  <2> QED BY <1>1, <1>2, NatSetInduction
<1>4. D(Cardinality(S)) = SUBSET S
  <2>1. \A s \in SUBSET S : Cardinality(s) <= Cardinality(S)
    BY FS_Subset
  <2> QED BY <2>1
<1>5. PICK g \in [D(Cardinality(S)) -> Int] : Solves(g, Cardinality(S))
  <2>1. Cardinality(S) \in Q
    BY <1>0, <1>3
  <2> QED BY <2>1
<1> HIDE DEF D
<1> QED BY <1>4, <1>5 DEF IsSum

(* The sum of f over S. *)
LEMMA SumIs ==
    ASSUME NEW S, IsFiniteSet(S), NEW f, IntOn(f, S)
    PROVE  \E it : IsSum(it, f, S) /\ SumFunctionOnSet(f, S) = it[S]
<1> DEFINE Eqn(g) ==
        g = [s \in SUBSET S |->
                IF s = {} THEN 0
                ELSE f[CHOOSE x \in s : TRUE] + g[s \ {CHOOSE x \in s : TRUE}]]
           it == CHOOSE g : Eqn(g)
<1>1. PICK g : IsSum(g, f, S)
    BY SumExists
<1>2. Eqn(g)
    BY <1>1 DEF IsSum
<1>3. Eqn(it)
  <2> HIDE DEF Eqn
  <2> QED BY <1>2
<1>4. SumFunctionOnSet(f, S) = it[S]
    BY DEF SumFunctionOnSet, FoldFunctionOnSet, MapThenFoldSet
<1> HIDE DEF it
<1>5. /\ it = [s \in SUBSET S |-> it[s]]
      /\ \A s \in SUBSET S :
          it[s] = IF s = {} THEN 0
                  ELSE f[CHOOSE x \in s : TRUE] + it[s \ {CHOOSE x \in s : TRUE}]
    BY <1>3
<1>6. \A s \in SUBSET S : it[s] \in Int
  <2> DEFINE Q == {s \in SUBSET S : it[s] \in Int}
  <2>1. ASSUME NEW s \in SUBSET S, \A x \in s : s \ {x} \in Q PROVE s \in Q
    <3>1. CASE s = {}
        <4>1. it[s] = 0
            BY <1>5, <3>1
        <4> QED BY <4>1
    <3>2. CASE s # {}
        <4> DEFINE c == CHOOSE x \in s : TRUE
        <4>1. c \in s
            BY <3>2
        <4>2. f[c] \in Int /\ it[s \ {c}] \in Int
            BY <2>1, <4>1 DEF IntOn
        <4>3. it[s] = f[c] + it[s \ {c}]
            BY <1>5, <3>2
        <4> HIDE DEF c
        <4>4. it[s] \in Int
            BY <4>2, <4>3
        <4> QED BY <4>4
    <3> QED BY <3>1, <3>2
  <2> HIDE DEF Q
  <2>2. SUBSET S \subseteq Q
    BY <2>1, RemovalInduction
  <2> QED BY <2>2 DEF Q
<1> QED BY <1>4, <1>5, <1>6 DEF IsSum

(* Two sums of the same function agree where both are. *)
LEMMA SumAgrees ==
    ASSUME NEW S, IsFiniteSet(S), NEW f, NEW g, NEW h, NEW R \in SUBSET S,
           IsSum(g, f, S), IsSum(h, f, R)
    PROVE  \A s \in SUBSET R : g[s] = h[s]
<1> DEFINE Q == {s \in SUBSET R : g[s] = h[s]}
<1>1. ASSUME NEW s \in SUBSET R, \A x \in s : s \ {x} \in Q PROVE s \in Q
  <2> DEFINE c == CHOOSE x \in s : TRUE
  <2>1. s # {} => c \in s
    OBVIOUS
  <2>2. g[s] = IF s = {} THEN 0 ELSE f[c] + g[s \ {c}]
    BY DEF IsSum
  <2>3. h[s] = IF s = {} THEN 0 ELSE f[c] + h[s \ {c}]
    BY DEF IsSum
  <2> HIDE DEF c
  <2> QED BY <1>1, <2>1, <2>2, <2>3
<1>2. IsFiniteSet(R)
    BY FS_Subset
<1> HIDE DEF Q
<1>3. SUBSET R \subseteq Q
    BY <1>1, <1>2, RemovalInduction
<1> QED BY <1>3 DEF Q

(* A sum is an integer. *)
LEMMA SumType ==
    ASSUME NEW S, IsFiniteSet(S), NEW f, IntOn(f, S)
    PROVE  SumFunctionOnSet(f, S) \in Int
<1>1. PICK it : IsSum(it, f, S) /\ SumFunctionOnSet(f, S) = it[S]
    BY SumIs
<1> QED BY <1>1 DEF IsSum

(* The sum of nothing. *)
LEMMA SumEmpty == ASSUME NEW f PROVE SumFunctionOnSet(f, {}) = 0
<1>1. IsFiniteSet({}) /\ IntOn(f, {})
    BY FS_EmptySet DEF IntOn
<1>2. PICK it : IsSum(it, f, {}) /\ SumFunctionOnSet(f, {}) = it[{}]
    BY <1>1, SumIs
<1> QED BY <1>2 DEF IsSum

(* The sum without the element the fold chooses. *)
LEMMA SumStep ==
    ASSUME NEW S, IsFiniteSet(S), NEW f, IntOn(f, S), S # {}
    PROVE  LET c == CHOOSE x \in S : TRUE
           IN  c \in S /\ SumFunctionOnSet(f, S) = f[c] + SumFunctionOnSet(f, S \ {c})
<1> DEFINE c == CHOOSE x \in S : TRUE
           R == S \ {c}
<1>1. PICK g : IsSum(g, f, S) /\ SumFunctionOnSet(f, S) = g[S]
    BY SumIs
<1>2. IsFiniteSet(R) /\ IntOn(f, R)
    BY FS_Subset DEF IntOn
<1>3. PICK h : IsSum(h, f, R) /\ SumFunctionOnSet(f, R) = h[R]
  <2> HIDE DEF R
  <2> QED BY <1>2, SumIs
<1>4. g[R] = h[R]
  <2>1. R \in SUBSET S /\ R \in SUBSET R
    OBVIOUS
  <2> HIDE DEF R
  <2> QED BY <1>1, <1>3, <2>1, SumAgrees
<1>5. g[S] = f[c] + g[R]
    BY <1>1 DEF IsSum
<1>6. c \in S
    OBVIOUS
<1> HIDE DEF R
<1>7. SumFunctionOnSet(f, S) = f[c] + SumFunctionOnSet(f, R)
    BY <1>1, <1>3, <1>4, <1>5
<1> QED BY <1>6, <1>7 DEF R

(* Any element may be taken out of a sum. *)
LEMMA SumRemove ==
    ASSUME NEW S, IsFiniteSet(S), NEW f, IntOn(f, S), NEW e \in S
    PROVE  SumFunctionOnSet(f, S) = f[e] + SumFunctionOnSet(f, S \ {e})
<1> DEFINE Sum(s) == SumFunctionOnSet(f, s)
           Q == {s \in SUBSET S : \A x \in s : Sum(s) = f[x] + Sum(s \ {x})}
<1>0. \A s \in SUBSET S : IsFiniteSet(s) /\ IntOn(f, s)
    BY FS_Subset DEF IntOn
<1>01. \A s \in SUBSET S : Sum(s) \in Int
    BY <1>0, SumType
<1>1. ASSUME NEW s \in SUBSET S, \A x \in s : s \ {x} \in Q PROVE s \in Q
  <2>1. ASSUME NEW x \in s PROVE Sum(s) = f[x] + Sum(s \ {x})
    <3> DEFINE c == CHOOSE y \in s : TRUE
    <3>1. c \in s /\ Sum(s) = f[c] + Sum(s \ {c})
        BY <1>0, SumStep
    <3> HIDE DEF c
    <3>2. CASE x = c
        BY <3>1, <3>2
    <3>3. CASE x # c
        <4> DEFINE r == s \ {c, x}
        <4>1. s \ {c} \in Q /\ s \ {x} \in Q
            BY <1>1, <3>1
        <4>2. (s \ {c}) \ {x} = r /\ (s \ {x}) \ {c} = r /\ x \in s \ {c} /\ c \in s \ {x}
            BY <3>1, <3>3
        <4>3. Sum(s \ {c}) = f[x] + Sum(r)
            BY <4>1, <4>2
        <4>4. Sum(s \ {x}) = f[c] + Sum(r)
            BY <4>1, <4>2
        <4>5. f[x] \in Int /\ f[c] \in Int /\ Sum(r) \in Int
            BY <1>01, <3>1 DEF IntOn
        <4> HIDE DEF Sum, r, Q
        <4> QED BY <3>1, <4>3, <4>4, <4>5
    <3> QED BY <3>2, <3>3
  <2> QED BY <2>1
<1> HIDE DEF Q
<1>2. SUBSET S \subseteq Q
    BY <1>1, RemovalInduction
<1>3. S \in Q
    BY <1>2
<1> QED BY <1>3 DEF Q

(* A sum of multiples of p is one. *)
LEMMA SumVanishes ==
    ASSUME NEW p \in Int, NEW S, IsFiniteSet(S), NEW f, IntOn(f, S), \A x \in S : Cong(f[x], 0, p)
    PROVE  Cong(SumFunctionOnSet(f, S), 0, p)
<1> DEFINE Q == {s \in SUBSET S : Cong(SumFunctionOnSet(f, s), 0, p)}
<1>0. \A s \in SUBSET S : IsFiniteSet(s) /\ IntOn(f, s) /\ SumFunctionOnSet(f, s) \in Int
    BY FS_Subset, SumType DEF IntOn
<1>1. {} \in Q
    BY SumEmpty, CongSame
<1>2. ASSUME NEW s \in SUBSET S, NEW x \in S \ s, s \in Q PROVE s \cup {x} \in Q
  <2> DEFINE r == s \cup {x}
  <2>1. r \in SUBSET S /\ x \in r /\ r \ {x} = s
    OBVIOUS
  <2> HIDE DEF r
  <2>2. SumFunctionOnSet(f, r) = f[x] + SumFunctionOnSet(f, s)
    BY <1>0, <2>1, SumRemove
  <2>3. f[x] \in Int /\ Cong(f[x], 0, p) /\ Cong(SumFunctionOnSet(f, s), 0, p)
    BY <1>2 DEF IntOn
  <2>4. SumFunctionOnSet(f, s) \in Int /\ 0 + 0 = 0
    BY <1>0
  <2>5. Cong(f[x] + SumFunctionOnSet(f, s), 0 + 0, p)
    BY <2>3, <2>4, CongSum
  <2> QED BY <2>1, <2>2, <2>4, <2>5 DEF r
<1> HIDE DEF Q
<1>3. S \in Q
    BY <1>1, <1>2, SubsetInduction
<1> QED BY <1>3 DEF Q

\* h pairs S with a part of R, on which f and g agree modulo p; the rest of R adds nothing.
Pairs(h, f, S, g, R, p) ==
    /\ \A x \in S : h[x] \in R /\ Cong(f[x], g[h[x]], p)
    /\ \A x, y \in S : h[x] = h[y] => x = y
    /\ \A z \in R : (\A x \in S : h[x] # z) => Cong(g[z], 0, p)

(* Sums that are paired are congruent. *)
LEMMA SumPaired ==
    ASSUME NEW p \in Int, NEW S, IsFiniteSet(S), NEW f, IntOn(f, S),
           NEW R, IsFiniteSet(R), NEW g, IntOn(g, R), NEW h, Pairs(h, f, S, g, R, p)
    PROVE  Cong(SumFunctionOnSet(f, S), SumFunctionOnSet(g, R), p)
<1> DEFINE Agree(s, r) == Cong(SumFunctionOnSet(f, s), SumFunctionOnSet(g, r), p)
           Q == {s \in SUBSET S : \A r \in SUBSET R : Pairs(h, f, s, g, r, p) => Agree(s, r)}
<1>0. \A s \in SUBSET S : IsFiniteSet(s) /\ IntOn(f, s) /\ SumFunctionOnSet(f, s) \in Int
    BY FS_Subset, SumType DEF IntOn
<1>01. \A r \in SUBSET R : IsFiniteSet(r) /\ IntOn(g, r) /\ SumFunctionOnSet(g, r) \in Int
    BY FS_Subset, SumType DEF IntOn
<1>1. {} \in Q
  <2>1. ASSUME NEW r \in SUBSET R, Pairs(h, f, {}, g, r, p) PROVE Agree({}, r)
    <3>1. \A z \in r : Cong(g[z], 0, p)
        BY <2>1 DEF Pairs
    <3>2. Cong(SumFunctionOnSet(g, r), 0, p)
        BY <1>01, <3>1, SumVanishes
    <3>3. Cong(0, SumFunctionOnSet(g, r), p)
        BY <1>01, <3>2, CongSwap
    <3> QED BY <3>3, SumEmpty
  <2> HIDE DEF Agree
  <2> QED BY <2>1
<1>2. ASSUME NEW s \in SUBSET S, NEW x \in S \ s, s \in Q PROVE s \cup {x} \in Q
  <2> DEFINE t == s \cup {x}
  <2>1. t \in SUBSET S /\ x \in t /\ t \ {x} = s
    OBVIOUS
  <2> HIDE DEF t
  <2>2. ASSUME NEW r \in SUBSET R, Pairs(h, f, t, g, r, p) PROVE Agree(t, r)
    <3> DEFINE y == h[x]
               q == r \ {y}
    <3>1. y \in r /\ Cong(f[x], g[y], p)
        BY <2>1, <2>2 DEF Pairs
    <3>2. Pairs(h, f, s, g, q, p)
        <4>1. \A z \in s : h[z] \in q /\ Cong(f[z], g[h[z]], p)
            BY <2>1, <2>2 DEF Pairs, t
        <4>2. \A z, w \in s : h[z] = h[w] => z = w
            BY <2>1, <2>2 DEF Pairs, t
        <4>3. ASSUME NEW z \in q, \A w \in s : h[w] # z PROVE Cong(g[z], 0, p)
            BY <2>1, <2>2, <4>3 DEF Pairs, t
        <4> QED BY <4>1, <4>2, <4>3 DEF Pairs
    <3>3. q \in SUBSET R
        OBVIOUS
    <3> HIDE DEF y
    <3>4. SumFunctionOnSet(g, r) = g[y] + SumFunctionOnSet(g, q)
        BY <1>01, <3>1, SumRemove
    <3>5. SumFunctionOnSet(f, t) = f[x] + SumFunctionOnSet(f, s)
        BY <1>0, <2>1, SumRemove
    <3> HIDE DEF q
    <3>6. Agree(s, q)
        BY <1>2, <3>2, <3>3
    <3>7. f[x] \in Int /\ g[y] \in Int
        BY <3>1 DEF IntOn
    <3>8. Cong(f[x] + SumFunctionOnSet(f, s), g[y] + SumFunctionOnSet(g, q), p)
        BY <1>0, <1>01, <3>1, <3>3, <3>6, <3>7, CongSum
    <3> QED BY <3>4, <3>5, <3>8
  <2> HIDE DEF Agree
  <2> QED BY <2>1, <2>2 DEF t
<1> HIDE DEF Q
<1>3. S \in Q
    BY <1>1, <1>2, SubsetInduction
<1> QED BY <1>3 DEF Q

(* The sum of sums. *)
LEMMA SumPlus ==
    ASSUME NEW S, IsFiniteSet(S), NEW f, IntOn(f, S), NEW g, IntOn(g, S),
           NEW h, \A x \in S : h[x] = f[x] + g[x]
    PROVE  SumFunctionOnSet(h, S) = SumFunctionOnSet(f, S) + SumFunctionOnSet(g, S)
<1> DEFINE Q == {s \in SUBSET S :
                    SumFunctionOnSet(h, s) = SumFunctionOnSet(f, s) + SumFunctionOnSet(g, s)}
<1>0. \A s \in SUBSET S : IsFiniteSet(s) /\ IntOn(f, s) /\ IntOn(g, s) /\ IntOn(h, s)
    BY FS_Subset DEF IntOn
<1>1. {} \in Q
    BY SumEmpty
<1>2. ASSUME NEW s \in SUBSET S, NEW x \in S \ s, s \in Q PROVE s \cup {x} \in Q
  <2> DEFINE r == s \cup {x}
  <2>1. r \in SUBSET S /\ x \in r /\ r \ {x} = s
    OBVIOUS
  <2> HIDE DEF r
  <2>2. SumFunctionOnSet(f, r) = f[x] + SumFunctionOnSet(f, s)
    BY <1>0, <2>1, SumRemove
  <2>3. SumFunctionOnSet(g, r) = g[x] + SumFunctionOnSet(g, s)
    BY <1>0, <2>1, SumRemove
  <2>4. SumFunctionOnSet(h, r) = h[x] + SumFunctionOnSet(h, s)
    BY <1>0, <2>1, SumRemove
  <2>5. /\ f[x] \in Int /\ g[x] \in Int /\ SumFunctionOnSet(f, s) \in Int
        /\ SumFunctionOnSet(g, s) \in Int
    BY <1>0, SumType DEF IntOn
  <2>6. SumFunctionOnSet(h, s) = SumFunctionOnSet(f, s) + SumFunctionOnSet(g, s)
    BY <1>2
  <2>7. h[x] = f[x] + g[x]
    OBVIOUS
  <2>8. SumFunctionOnSet(h, r) = SumFunctionOnSet(f, r) + SumFunctionOnSet(g, r)
    BY <2>2, <2>3, <2>4, <2>5, <2>6, <2>7
  <2> QED BY <2>1, <2>8 DEF r
<1> HIDE DEF Q
<1>3. S \in Q
    BY <1>1, <1>2, SubsetInduction
<1> QED BY <1>3 DEF Q

(* A sum with a common factor. *)
LEMMA SumScaled ==
    ASSUME NEW S, IsFiniteSet(S), NEW f, IntOn(f, S), NEW c \in Int,
           NEW h, \A x \in S : h[x] = c * f[x]
    PROVE  SumFunctionOnSet(h, S) = c * SumFunctionOnSet(f, S)
<1> DEFINE Q == {s \in SUBSET S : SumFunctionOnSet(h, s) = c * SumFunctionOnSet(f, s)}
<1>0. \A s \in SUBSET S : IsFiniteSet(s) /\ IntOn(f, s) /\ IntOn(h, s)
    BY FS_Subset DEF IntOn
<1>1. {} \in Q
    BY SumEmpty
<1>2. ASSUME NEW s \in SUBSET S, NEW x \in S \ s, s \in Q PROVE s \cup {x} \in Q
  <2> DEFINE r == s \cup {x}
  <2>1. r \in SUBSET S /\ x \in r /\ r \ {x} = s
    OBVIOUS
  <2> HIDE DEF r
  <2>2. SumFunctionOnSet(f, r) = f[x] + SumFunctionOnSet(f, s)
    BY <1>0, <2>1, SumRemove
  <2>3. SumFunctionOnSet(h, r) = h[x] + SumFunctionOnSet(h, s)
    BY <1>0, <2>1, SumRemove
  <2>4. f[x] \in Int /\ SumFunctionOnSet(f, s) \in Int
    BY <1>0, SumType DEF IntOn
  <2>5. SumFunctionOnSet(h, s) = c * SumFunctionOnSet(f, s) /\ h[x] = c * f[x]
    BY <1>2
  <2>6. c * (f[x] + SumFunctionOnSet(f, s)) = c * f[x] + c * SumFunctionOnSet(f, s)
    BY <2>4
  <2> QED BY <2>1, <2>2, <2>3, <2>5, <2>6 DEF r
<1> HIDE DEF Q
<1>3. S \in Q
    BY <1>1, <1>2, SubsetInduction
<1> QED BY <1>3 DEF Q

=============================================================================
