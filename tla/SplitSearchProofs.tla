------------------------- MODULE SplitSearchProofs --------------------------
(***************************************************************************)
(* Proofs about the search for a zero of a polynomial system (SplitSearch, *)
(* FindZero), for every system of polynomials over any finite field, any   *)
(* number of variables, and any caps.                                      *)
(***************************************************************************)
EXTENDS SplitSearch, FiniteSetTheorems, TLAPS

Rank(U, v) == Cardinality({w \in U : w < v})

LEMMA RankGrows ==
    ASSUME NEW U \in SUBSET Int, IsFiniteSet(U), NEW v \in U, NEW w \in U, v < w
    PROVE  Rank(U, v) < Rank(U, w)
<1> DEFINE S == {u \in U : u < w}
           T == {u \in U : u < v}
<1>1. T \in SUBSET S /\ v \in S \ T
  <2>1. v \in Int /\ w \in Int /\ \A u \in U : u \in Int
    OBVIOUS
  <2>2. \A u \in U : u < v => u < w
    BY <2>1
  <2>3. v \in S /\ ~(v < v)
    BY <2>1
  <2> QED BY <2>2, <2>3
<1>2. IsFiniteSet(S)
  BY FS_Subset
<1>3. IsFiniteSet(T) /\ Cardinality(T) <= Cardinality(S) /\ Cardinality(T) # Cardinality(S)
  BY <1>1, <1>2, FS_Subset
<1>4. Cardinality(S) \in Nat /\ Cardinality(T) \in Nat
  BY <1>2, <1>3, FS_CardinalityType
<1> QED BY <1>3, <1>4 DEF Rank

(* Ranks of a finite set of numbers count through it. *)
LEMMA RanksCount ==
    ASSUME NEW U \in SUBSET Int, IsFiniteSet(U)
    PROVE  /\ Cardinality(U) \in Nat
           /\ \A v \in U : Rank(U, v) \in 0 .. Cardinality(U) - 1
           /\ \A i \in 0 .. Cardinality(U) - 1 : \E v \in U : Rank(U, v) = i
           /\ \A v, w \in U : Rank(U, v) = Rank(U, w) => v = w
<1> DEFINE n == Cardinality(U)
           f == [v \in U |-> Rank(U, v)]
<1>1. n \in Nat
  BY FS_CardinalityType
<1>2. \A v \in U : Rank(U, v) \in 0 .. n - 1
  <2> SUFFICES ASSUME NEW v \in U PROVE Rank(U, v) \in 0 .. n - 1
    OBVIOUS
  <2> DEFINE T == {w \in U : w < v}
  <2>1. T \in SUBSET U /\ v \in U \ T
    OBVIOUS
  <2>2. IsFiniteSet(T) /\ Cardinality(T) <= n /\ Cardinality(T) # n
    BY <2>1, FS_Subset
  <2>3. Cardinality(T) \in Nat
    BY <2>2, FS_CardinalityType
  <2> QED BY <1>1, <2>2, <2>3 DEF Rank
<1>3. ASSUME NEW v \in U, NEW w \in U, v < w PROVE Rank(U, v) < Rank(U, w)
  BY <1>3, RankGrows
<1>4. \A v, w \in U : Rank(U, v) = Rank(U, w) => v = w
  <2> SUFFICES ASSUME NEW v \in U, NEW w \in U, v # w PROVE Rank(U, v) # Rank(U, w)
    OBVIOUS
  <2>1. v \in Int /\ w \in Int /\ Rank(U, v) \in Int /\ Rank(U, w) \in Int
    BY <1>1, <1>2
  <2>2. CASE v < w
    BY <1>3, <2>1, <2>2
  <2>3. CASE w < v
    BY <1>3, <2>1, <2>3
  <2> QED BY <2>1, <2>2, <2>3
<1>5. f \in Injection(U, 0 .. n - 1)
  <2>1. f \in [U -> 0 .. n - 1]
    BY <1>2
  <2> QED BY <1>4, <2>1 DEF Injection, IsInjective
<1>6. IsFiniteSet(0 .. n - 1) /\ Cardinality(0 .. n - 1) = n
  <2>1. 0 \in Int /\ n - 1 \in Int
    BY <1>1
  <2>2. Cardinality(0 .. n - 1) = IF 0 > n - 1 THEN 0 ELSE (n - 1) - 0 + 1
    BY <2>1, FS_Interval
  <2> QED BY <1>1, <2>1, <2>2, FS_Interval
<1>7. f \in Surjection(U, 0 .. n - 1)
  BY <1>5, <1>6, FS_Injection
<1>8. \A i \in 0 .. n - 1 : \E v \in U : Rank(U, v) = i
  BY <1>7 DEF Surjection
<1> QED BY <1>1, <1>2, <1>4, <1>8

(* Ordered lists all of a finite set of numbers and nothing else. *)
LEMMA OrderedLists ==
    ASSUME NEW U \in SUBSET Int, IsFiniteSet(U)
    PROVE  /\ Ordered(U) \in [1 .. Cardinality(U) -> U]
           /\ \A v \in U : \E i \in 1 .. Cardinality(U) : Ordered(U)[i] = v
<1> DEFINE n == Cardinality(U)
<1>1. n \in Nat
  BY RanksCount
<1>2. ASSUME NEW i \in 1 .. n
      PROVE  Ordered(U)[i] \in U /\ Rank(U, Ordered(U)[i]) = i - 1
  <2>1. i - 1 \in 0 .. n - 1
    BY <1>1
  <2>2. \E v \in U : Rank(U, v) = i - 1
    BY <2>1, RanksCount
  <2>3. Ordered(U)[i] = CHOOSE v \in U : Rank(U, v) = i - 1
    BY DEF Ordered, Rank
  <2> QED BY <2>2, <2>3
<1>3. Ordered(U) \in [1 .. n -> U]
  BY <1>2 DEF Ordered
<1>4. ASSUME NEW v \in U PROVE \E i \in 1 .. n : Ordered(U)[i] = v
  <2>1. Rank(U, v) \in 0 .. n - 1
    BY RanksCount
  <2>2. Rank(U, v) + 1 \in 1 .. n /\ (Rank(U, v) + 1) - 1 = Rank(U, v)
    BY <1>1, <2>1
  <2>3. Ordered(U)[Rank(U, v) + 1] \in U
        /\ Rank(U, Ordered(U)[Rank(U, v) + 1]) = Rank(U, v)
    BY <1>2, <2>2
  <2>4. \A u, w \in U : Rank(U, u) = Rank(U, w) => u = w
    BY RanksCount
  <2>5. Ordered(U)[Rank(U, v) + 1] = v
    BY <2>3, <2>4, Zenon
  <2> QED BY <2>2, <2>5
<1> QED BY <1>3, <1>4


(* A finite set of numbers that is not empty has a greatest element. *)
LEMMA GreatestExists ==
    ASSUME NEW U \in SUBSET Int, IsFiniteSet(U), U # {}
    PROVE  \E m \in U : \A u \in U : u <= m
<1> DEFINE n == Cardinality(U)
<1>1. n \in Nat /\ n # 0
  BY FS_CardinalityType, FS_EmptySet
<1>2. PICK m \in U : Rank(U, m) = n - 1
  <2>1. n - 1 \in 0 .. n - 1
    BY <1>1
  <2> QED BY <2>1, RanksCount
<1>3. ASSUME NEW u \in U PROVE u <= m
  <2>1. u \in Int /\ m \in Int
    OBVIOUS
  <2>2. CASE m < u
    <3>1. Rank(U, m) < Rank(U, u)
      BY <2>2, RankGrows
    <3>2. Rank(U, u) \in 0 .. n - 1
      BY RanksCount
    <3> QED BY <1>1, <1>2, <3>1, <3>2
  <2> QED BY <2>1, <2>2
<1> QED BY <1>3

LEMMA Scale ==
    ASSUME NEW n \in Nat, n > 0, NEW x \in Nat, NEW q \in Int, NEW r \in 0 .. n - 1,
           x * n = n * q + r
    PROVE  q = x /\ r = 0
<1> DEFINE d == x - q
<1>1. n * d = r /\ d \in Int
  OBVIOUS
<1>2. CASE d >= 1
  <2>1. n * d >= n * 1
    BY <1>1, <1>2
  <2> QED BY <1>1, <2>1
<1>3. CASE d <= -1
  <2>1. n * d <= n * (-1)
    BY <1>1, <1>3
  <2> QED BY <1>1, <2>1
<1>4. CASE d = 0
  BY <1>1, <1>4
<1> QED BY <1>1, <1>2, <1>3, <1>4

LEMMA MultipleDiv ==
    ASSUME NEW n \in Nat, n > 0, NEW x \in Nat
    PROVE  (x * n) % n = 0 /\ (x * n) \div n = x
<1>1. /\ (x * n) \in Int
      /\ (x * n) % n \in 0 .. n - 1
      /\ (x * n) \div n \in Int
      /\ x * n = n * ((x * n) \div n) + ((x * n) % n)
  <2> DEFINE a == x * n
  <2>1. a \in Int OBVIOUS
  <2>2. \A b \in Int : b % n \in 0 .. n - 1 OBVIOUS
  <2>3. \A b \in Int : b \div n \in Int OBVIOUS
  <2>4. \A b \in Int : b = n * (b \div n) + (b % n) OBVIOUS
  <2> HIDE DEF a
  <2>5. a % n \in 0 .. n - 1 /\ a \div n \in Int /\ a = n * (a \div n) + (a % n) BY <2>1, <2>2, <2>3, <2>4
  <2> QED BY <2>1, <2>5 DEF a
<1> QED BY <1>1, Scale

-----------------------------------------------------------------------------
(* Branchers.                                                              *)

(* Brancher b comes to a candidate that z extends, or proves nothing. *)
Reaches(b, z) ==
    \/ ~b.exhaustive
    \/ \E k \in DOMAIN b.left : z[b.left[k][1]] = b.left[k][2]

(* A brancher the search may stack: it counts as exhaustive whenever the    *)
(* field can be enumerated.                                                 *)
Sound(b) == b \in Branchers(problem) /\ (b.exhaustive \/ ~problem.small)

PartialPoints == UNION {[D -> problem.values] : D \in SUBSET problem.vars}

LEMMA ProblemFacts ==
    ASSUME problem \in Problems
    PROVE  /\ problem.vars \in SUBSET Int /\ IsFiniteSet(problem.vars)
           /\ problem.values \in SUBSET Nat /\ IsFiniteSet(problem.values)
           /\ Cardinality(problem.vars) \in Nat /\ Cardinality(problem.values) \in Nat
           /\ Cardinality(problem.values) > 0
           /\ problem.vars = 1 .. Cardinality(problem.vars)
           /\ problem.values = 0 .. Cardinality(problem.values) - 1
           /\ problem.small \in BOOLEAN
           /\ ValueLimit \in Nat
<1>1. /\ problem.vars = 1 .. Cardinality(problem.vars) /\ IsFiniteSet(problem.vars)
      /\ problem.values = 0 .. Cardinality(problem.values) - 1
      /\ IsFiniteSet(problem.values) /\ problem.values # {}
      /\ problem.small \in BOOLEAN /\ ValueLimit \in Nat
  BY ProblemAssumption
<1>2. Cardinality(problem.vars) \in Nat /\ Cardinality(problem.values) \in Nat
  BY <1>1, FS_CardinalityType
<1>3. Cardinality(problem.values) # 0
  BY <1>1, FS_EmptySet
<1>4. problem.vars \in SUBSET Int
  <2> DEFINE n == Cardinality(problem.vars)
  <2>1. 1 .. n \in SUBSET Int
    OBVIOUS
  <2> QED BY <1>1, <2>1
<1>5. problem.values \in SUBSET Nat
  <2> DEFINE n == Cardinality(problem.values)
  <2>1. 0 .. n - 1 \in SUBSET Nat
    BY <1>2
  <2> QED BY <1>1, <2>1
<1>6. Cardinality(problem.values) > 0
  BY <1>2, <1>3
<1> QED BY <1>1, <1>2, <1>4, <1>5, <1>6

(* Roots lists the values it is given, of one variable.                     *)
LEMMA RootsSound ==
    ASSUME problem \in Problems, NEW v \in problem.vars, NEW S \in SUBSET problem.values
    PROVE  /\ Sound(Roots(v, S))
           /\ \A z : z[v] \in S => Reaches(Roots(v, S), z)
<1> DEFINE n == Cardinality(S)
           b == Roots(v, S)
<1>1. S \in SUBSET Int /\ IsFiniteSet(S) /\ n \in Nat
  <2>1. S \in SUBSET Int
    BY ProblemFacts
  <2>2. IsFiniteSet(S)
    BY ProblemFacts, FS_Subset
  <2> QED BY <2>1, <2>2, FS_CardinalityType
<1>2. /\ Ordered(S) \in [1 .. n -> S]
      /\ \A x \in S : \E i \in 1 .. n : Ordered(S)[i] = x
  BY <1>1, OrderedLists
<1>3. /\ b.kind = "roots" /\ b.exhaustive = TRUE
      /\ b.left = [i \in 1 .. n |-> <<v, Ordered(S)[i]>>]
      /\ b = [kind |-> "roots", left |-> b.left, exhaustive |-> TRUE]
  BY DEF Roots
<1>4. b.left \in Seq(problem.vars \X problem.values)
  <2>1. \A i \in 1 .. n : <<v, Ordered(S)[i]>> \in problem.vars \X problem.values
    BY <1>2
  <2>2. b.left \in [1 .. n -> problem.vars \X problem.values]
    BY <1>3, <2>1
  <2> QED BY <1>1, <2>2
<1>5. Sound(b)
  BY <1>3, <1>4 DEF Sound, Branchers
<1>6. ASSUME NEW z, z[v] \in S PROVE Reaches(b, z)
  <2>1. PICK i \in 1 .. n : Ordered(S)[i] = z[v]
    BY <1>2, <1>6
  <2>2. i \in DOMAIN b.left /\ b.left[i] = <<v, z[v]>>
    BY <1>3, <2>1
  <2>3. z[b.left[i][1]] = b.left[i][2]
    BY <2>2
  <2> QED BY <2>2, <2>3 DEF Reaches
<1> QED BY <1>5, <1>6

(* A round robin reaches every point: the value of the variable it names    *)
(* first comes up.                                                          *)
LEMMA RoundRobinSound ==
    ASSUME problem \in Problems, NEW U \in SUBSET problem.vars, U # {}
    PROVE  /\ Sound(RoundRobin(U))
           /\ \A z \in Points(problem) : Reaches(RoundRobin(U), z)
<1> DEFINE n == Cardinality(U)
           m == Cardinality(problem.values)
           perVar == IF problem.small THEN m ELSE ValueLimit
           total == perVar * n
           b == RoundRobin(U)
           cand(k) == RobinAt(Ordered(U), k)
<1>1. U \in SUBSET Int /\ IsFiniteSet(U)
  BY ProblemFacts, FS_Subset
<1>2. n \in Nat /\ n > 0
  <2>1. n \in Nat /\ n # 0
    BY <1>1, FS_CardinalityType, FS_EmptySet
  <2> QED BY <2>1
<1>3. Ordered(U) \in [1 .. n -> U]
  BY <1>1, OrderedLists
<1>4. Ordered(U) \in Seq(U) /\ Len(Ordered(U)) = n
  BY <1>2, <1>3
<1>5. m \in Nat /\ m > 0 /\ perVar \in Nat /\ problem.values = 0 .. m - 1
  BY ProblemFacts
<1>6. total \in Nat
  BY <1>2, <1>5
<1>7. /\ b.left = [i \in 1 .. total |-> cand(total - i)]
      /\ b.exhaustive = problem.small
      /\ b = [kind |-> "robin", left |-> b.left, exhaustive |-> problem.small]
  BY DEF RoundRobin
<1>8. ASSUME NEW k \in Nat PROVE cand(k) \in problem.vars \X problem.values
  <2>1. (k % n) + 1 \in 1 .. n /\ k \div n \in Int
    BY <1>2
  <2>2. (k \div n) % m \in 0 .. m - 1
    BY <1>5, <2>1
  <2>3. cand(k) = <<Ordered(U)[(k % n) + 1], (k \div n) % m>>
    BY <1>4 DEF RobinAt
  <2> QED BY <1>3, <1>5, <2>1, <2>2, <2>3
<1>9. b.left \in Seq(problem.vars \X problem.values)
  <2>1. \A i \in 1 .. total : total - i \in Nat
    BY <1>6
  <2>2. \A i \in 1 .. total : cand(total - i) \in problem.vars \X problem.values
    BY <1>8, <2>1
  <2>3. b.left \in [1 .. total -> problem.vars \X problem.values]
    BY <1>7, <2>2
  <2> QED BY <1>6, <2>3
<1>10. Sound(b)
  <2>1. problem.small \in BOOLEAN
    BY ProblemFacts
  <2>2. b.exhaustive \in BOOLEAN
    BY <1>7, <2>1
  <2>3. b \in Branchers(problem)
    <3> HIDE DEF b
    <3>1. b = [kind |-> "robin", left |-> b.left, exhaustive |-> b.exhaustive]
      BY <1>7
    <3> QED BY <1>9, <2>2, <3>1 DEF Branchers
  <2>4. b.exhaustive \/ ~problem.small
    BY <1>7, <2>1
  <2> QED BY <2>3, <2>4 DEF Sound
<1>11. ASSUME NEW z \in Points(problem) PROVE Reaches(b, z)
  <2>1. CASE ~problem.small
    BY <1>7, <2>1 DEF Reaches
  <2>2. CASE problem.small
    <3> DEFINE x == z[Ordered(U)[1]]
               k == x * n
               i == total - k
    <3>1. Ordered(U)[1] \in problem.vars
      BY <1>2, <1>3
    <3>2. x \in 0 .. m - 1
      BY <1>5, <3>1 DEF Points
    <3>3. k \in Nat /\ k % n = 0 /\ k \div n = x
      <4>1. x \in Nat
        BY <1>5, <3>2
      <4> HIDE DEF x
      <4> QED BY <1>2, <4>1, MultipleDiv
    <3>4. total = m * n /\ k <= (m - 1) * n /\ (m - 1) * n = m * n - n
      BY <1>2, <1>5, <2>2, <3>2
    <3>5. i \in 1 .. total /\ total - i = k
      <4> HIDE DEF k, total, n, m
      <4>1. m * n \in Int /\ (m - 1) * n \in Int
        BY <1>2, <1>5
      <4> QED BY <1>2, <1>6, <3>3, <3>4, <4>1
    <3>6. b.left[i] = cand(k) /\ i \in DOMAIN b.left
      BY <1>7, <3>5
    <3>7. x % m = x
      BY <1>5, <3>2
    <3>8. cand(k) = <<Ordered(U)[1], x>>
      BY <1>4, <3>3, <3>7 DEF RobinAt
    <3>9. z[b.left[i][1]] = b.left[i][2]
      BY <3>6, <3>8
    <3> QED BY <3>6, <3>9 DEF Reaches
  <2> QED BY <2>1, <2>2
<1> QED BY <1>10, <1>11

(* The common part of both: candidates for all zeros that extend `at`.      *)
LEMMA RuleSound ==
    ASSUME problem \in Problems, NEW at, NEW U \in SUBSET problem.vars, U # {},
           NEW b \in RootBranchers(at, U) \cup {RoundRobin(U)}
    PROVE  Sound(b) /\ \A z \in ZerosAt(at) : Reaches(b, z)
<1>1. \A z \in ZerosAt(at) : z \in Points(problem)
  BY DEF ZerosAt, ZerosOf
<1>2. CASE b = RoundRobin(U)
  BY <1>1, <1>2, RoundRobinSound
<1>3. CASE b \in RootBranchers(at, U)
  <2>1. PICK v \in U : b \in {Roots(v, {z[v] : z \in ZerosAt(at)}), Roots(v, problem.values)}
    BY <1>3 DEF RootBranchers
  <2>2. v \in problem.vars
    OBVIOUS
  <2>3. \A z \in ZerosAt(at) : z[v] \in problem.values
    BY <1>1, <2>2 DEF Points
  <2> DEFINE S == {z[v] : z \in ZerosAt(at)}
  <2>4. S \in SUBSET problem.values
    BY <2>3
  <2>5. CASE b = Roots(v, S)
    <3>1. \A z \in ZerosAt(at) : z[v] \in S
      OBVIOUS
    <3>2. Sound(Roots(v, S)) /\ \A z : z[v] \in S => Reaches(Roots(v, S), z)
      BY <2>2, <2>4, RootsSound
    <3> QED BY <2>5, <3>1, <3>2
  <2>6. CASE b = Roots(v, problem.values)
    <3>1. /\ Sound(Roots(v, problem.values))
          /\ \A z : z[v] \in problem.values => Reaches(Roots(v, problem.values), z)
      BY <2>2, RootsSound
    <3> QED BY <2>3, <2>6, <3>1
  <2> QED BY <2>1, <2>5, <2>6
<1> QED BY <1>2, <1>3

(* apply_rule_multi, and compute_candidates, lose no zero.                  *)
LEMMA ApplyRuleSound ==
    ASSUME problem \in Problems, NEW at, DOMAIN at \in SUBSET problem.vars, ~Total(at),
           NEW b \in ApplyRule(at)
    PROVE  Sound(b) /\ \A z \in ZerosAt(at) : Reaches(b, z)
<1>1. Unassigned(at) \in SUBSET problem.vars /\ Unassigned(at) # {}
  BY DEF Unassigned, Total
<1>2. b \in RootBranchers(at, Unassigned(at)) \cup {RoundRobin(Unassigned(at))}
  BY DEF ApplyRule
<1> QED BY <1>1, <1>2, RuleSound

LEMMA ComputeSound ==
    ASSUME problem \in Problems, NEW at, NEW b \in ComputeCandidates(at)
    PROVE  Sound(b) /\ \A z \in ZerosAt(at) : Reaches(b, z)
<1>1. PICK U \in Unfixed(at) : b \in RootBranchers(at, U) \cup {RoundRobin(U)}
  BY DEF ComputeCandidates
<1>2. U \in SUBSET problem.vars /\ U # {}
  BY DEF Unfixed
<1> QED BY <1>1, <1>2, RuleSound

(* The model of a walk names each variable with its value.                  *)
LEMMA ModelSound ==
    ASSUME problem \in Problems, problem.vars # {}, NEW z \in Points(problem)
    PROVE  Sound(ModelAsSequence(z)) /\ Reaches(ModelAsSequence(z), z)
<1> DEFINE n == Cardinality(problem.vars)
           b == ModelAsSequence(z)
<1>1. n \in Nat /\ problem.vars = 1 .. n
  BY ProblemFacts
<1>2. n > 0
  BY <1>1
<1>3. /\ b.left = [i \in 1 .. n |-> <<n + 1 - i, z[n + 1 - i]>>]
      /\ b.exhaustive = TRUE
      /\ b = [kind |-> "roots", left |-> b.left, exhaustive |-> TRUE]
  BY DEF ModelAsSequence
<1>4. \A i \in 1 .. n : n + 1 - i \in 1 .. n
  BY <1>1
<1>5. \A i \in 1 .. n : z[n + 1 - i] \in problem.values
  BY <1>1, <1>4 DEF Points
<1>6. b.left \in Seq(problem.vars \X problem.values)
  <2>1. b.left \in [1 .. n -> problem.vars \X problem.values]
    BY <1>1, <1>3, <1>4, <1>5
  <2> QED BY <1>1, <2>1
<1>7. Sound(b)
  <2> HIDE DEF b
  <2>1. b = [kind |-> "roots", left |-> b.left, exhaustive |-> b.exhaustive]
    BY <1>3
  <2>2. b.exhaustive \in BOOLEAN
    BY <1>3
  <2>3. b \in Branchers(problem)
    BY <1>6, <2>1, <2>2 DEF Branchers
  <2> QED BY <1>3, <2>3 DEF Sound
<1>8. Reaches(b, z)
  <2>1. 1 \in DOMAIN b.left /\ b.left[1] = <<n + 1 - 1, z[n + 1 - 1]>>
    BY <1>1, <1>2, <1>3
  <2>2. z[b.left[1][1]] = b.left[1][2]
    BY <2>1
  <2> QED BY <2>1, <2>2 DEF Reaches
<1> QED BY <1>7, <1>8

(* A walk of the Lex basis that does not mislead has a zero to offer, if    *)
(* there is one.                                                            *)
LEMMA UnsplitSound ==
    ASSUME problem \in Problems, problem.vars # {}, NEW at, NEW b \in UnsplitCandidates(at)
    PROVE  /\ Sound(b)
           /\ \/ Misleads(at, b)
              \/ ZerosAt(at) = {}
              \/ \E z \in ZerosAt(at) : Reaches(b, z)
<1>1. \A z \in ZerosAt(at) : z \in Points(problem)
  BY DEF ZerosAt, ZerosOf
<1>2. CASE \E U \in Unfixed(at) : b = RoundRobin(U)
  <2>1. PICK U \in Unfixed(at) : b = RoundRobin(U)
    BY <1>2
  <2>2. U \in SUBSET problem.vars /\ U # {}
    BY DEF Unfixed
  <2> QED BY <1>1, <2>1, <2>2, RoundRobinSound
<1>3. CASE b = ProvedUnsat
  <2>1. /\ b.left = <<>> /\ b.exhaustive = TRUE
        /\ b = [kind |-> "unsat", left |-> <<>>, exhaustive |-> TRUE]
    BY <1>3 DEF ProvedUnsat
  <2>2. <<>> \in Seq(problem.vars \X problem.values)
    OBVIOUS
  <2>3. Sound(b)
    BY <2>1, <2>2 DEF Sound, Branchers
  <2> QED BY <1>3, <2>3 DEF Misleads
<1>4. CASE \E m \in Walked(at) : b = ModelAsSequence(m)
  <2>1. PICK m \in Walked(at) : b = ModelAsSequence(m)
    BY <1>4
  <2>2. m \in Points(problem)
    BY DEF Walked
  <2>3. Sound(b)
    BY <2>1, <2>2, ModelSound
  <2>4. b.kind = "roots"
    BY <2>1 DEF ModelAsSequence
  <2>5. CASE \E z \in ZerosAt(at) : b = ModelAsSequence(z)
    BY <1>1, <2>3, <2>5, ModelSound
  <2>6. CASE ~ \E z \in ZerosAt(at) : b = ModelAsSequence(z)
    BY <2>3, <2>4, <2>6 DEF Misleads
  <2> QED BY <2>5, <2>6
<1>5. b \in LexWalk(at) \/ \E U \in Unfixed(at) : b = RoundRobin(U)
  BY DEF UnsplitCandidates
<1>6. b \in LexWalk(at) => b = ProvedUnsat \/ \E m \in Walked(at) : b = ModelAsSequence(m)
  BY DEF LexWalk
<1> QED BY <1>2, <1>3, <1>4, <1>5, <1>6

(* A brancher after its saved candidate went to the back has the same       *)
(* candidates.                                                              *)
LEMMA PhaseSavedKeeps ==
    ASSUME NEW b, Sound(b)
    PROVE  /\ Sound(PhaseSaved(b))
           /\ \A z : Reaches(b, z) => Reaches(PhaseSaved(b), z)
<1> DEFINE n == Len(b.left)
           C == problem.vars \X problem.values
           repeats == {i \in 1 .. n : /\ b.left[i][1] \in DOMAIN saved
                                      /\ saved[b.left[i][1]] = b.left[i][2]}
           last == CHOOSE i \in repeats : \A j \in repeats : j <= i
           moved == [i \in 1 .. n |-> IF i < last THEN b.left[i]
                                      ELSE IF i < n THEN b.left[i + 1] ELSE b.left[last]]
<1>1. b.left \in Seq(C) /\ b.exhaustive \in BOOLEAN
  BY DEF Sound, Branchers
<1>2. n \in Nat /\ DOMAIN b.left = 1 .. n /\ b.left \in [1 .. n -> C]
  BY <1>1
<1>3. CASE ~(b.kind = "roots" /\ repeats # {})
  BY <1>3 DEF PhaseSaved
<1>4. CASE b.kind = "roots" /\ repeats # {}
  <2> DEFINE d == [b EXCEPT !.left = moved]
  <2>1. PhaseSaved(b) = d
    BY <1>4 DEF PhaseSaved
  <2>2. last \in 1 .. n
    <3>1. repeats \in SUBSET (1 .. n)
      OBVIOUS
    <3>2. IsFiniteSet(1 .. n)
      BY <1>2, FS_Interval
    <3>3. IsFiniteSet(repeats) /\ repeats \in SUBSET Int
      BY <3>1, <3>2, FS_Subset
    <3> HIDE DEF repeats
    <3>4. \E m \in repeats : \A j \in repeats : j <= m
      BY <1>4, <3>3, GreatestExists
    <3>5. last \in repeats
      BY <3>4
    <3> QED BY <3>1, <3>5
  <2> HIDE DEF repeats, last
  <2>3. moved \in [1 .. n -> C]
    BY <1>2, <2>2
  <2>4. moved \in Seq(C)
    BY <1>2, <2>3
  <2>5. b = [kind |-> b.kind, left |-> b.left, exhaustive |-> b.exhaustive]
    BY DEF Sound, Branchers
  <2>6. /\ d = [kind |-> b.kind, left |-> moved, exhaustive |-> b.exhaustive]
        /\ d.left = moved /\ d.exhaustive = b.exhaustive
    <3> HIDE DEF moved
    <3> QED BY <2>5
  <2>7. Sound(d)
    <3> HIDE DEF d, moved
    <3>1. b.kind \in {"roots", "robin", "unsat"}
      BY DEF Sound, Branchers
    <3>2. d \in Branchers(problem)
      BY <1>1, <2>4, <2>6, <3>1 DEF Branchers
    <3> QED BY <2>6, <3>2 DEF Sound
  <2>8. ASSUME NEW k \in 1 .. n PROVE \E i \in 1 .. n : moved[i] = b.left[k]
    <3>1. CASE k < last
      BY <1>2, <2>2, <3>1
    <3>2. CASE k = last
      <4>1. n \in 1 .. n /\ ~(n < last) /\ ~(n < n)
        BY <1>2, <2>2
      <4> QED BY <3>2, <4>1
    <3>3. CASE k > last
      <4>1. k - 1 \in 1 .. n /\ ~(k - 1 < last) /\ k - 1 < n /\ (k - 1) + 1 = k
        BY <1>2, <2>2, <3>3
      <4>2. moved[k - 1] = b.left[(k - 1) + 1]
        BY <4>1
      <4> QED BY <4>1, <4>2
    <3> QED BY <1>2, <2>2, <3>1, <3>2, <3>3
  <2>9. ASSUME NEW z, Reaches(b, z) PROVE Reaches(d, z)
    <3>1. CASE ~b.exhaustive
      BY <2>6, <3>1 DEF Reaches
    <3>2. CASE \E k \in DOMAIN b.left : z[b.left[k][1]] = b.left[k][2]
      <4>1. PICK k \in 1 .. n : z[b.left[k][1]] = b.left[k][2]
        BY <1>2, <3>2
      <4>2. PICK i \in 1 .. n : moved[i] = b.left[k]
        BY <2>8
      <4>3. i \in DOMAIN d.left /\ z[d.left[i][1]] = d.left[i][2]
        BY <2>3, <2>6, <4>1, <4>2
      <4> QED BY <4>3 DEF Reaches
    <3> QED BY <2>9, <3>1, <3>2 DEF Reaches
  <2> QED BY <2>1, <2>7, <2>9
<1> QED BY <1>3, <1>4

(* A brancher whose last candidate is taken reaches what it reached, or the *)
(* candidate does.                                                          *)
LEMMA WithoutLastKeeps ==
    ASSUME NEW b, Sound(b), b.left # <<>>
    PROVE  /\ Sound(WithoutLast(b))
           /\ LastCandidate(b) \in problem.vars \X problem.values
           /\ \A z : Reaches(b, z) =>
                \/ Reaches(WithoutLast(b), z)
                \/ z[LastCandidate(b)[1]] = LastCandidate(b)[2]
<1> DEFINE n == Len(b.left)
           C == problem.vars \X problem.values
           rest == SubSeq(b.left, 1, n - 1)
           d == WithoutLast(b)
<1>1. b.left \in Seq(C) /\ b.exhaustive \in BOOLEAN /\ b.kind \in {"roots", "robin", "unsat"}
  BY DEF Sound, Branchers
<1>2. n \in Nat /\ n > 0 /\ DOMAIN b.left = 1 .. n /\ b.left[n] \in C
  BY <1>1
<1>3. rest \in Seq(C) /\ DOMAIN rest = 1 .. n - 1 /\ \A i \in 1 .. n - 1 : rest[i] = b.left[i]
  BY <1>1, <1>2
<1>4. b = [kind |-> b.kind, left |-> b.left, exhaustive |-> b.exhaustive]
  BY DEF Sound, Branchers
<1>5. /\ d = [kind |-> b.kind, left |-> rest, exhaustive |-> b.exhaustive]
      /\ d.left = rest /\ d.exhaustive = b.exhaustive
  BY <1>4, SMTT(30) DEF WithoutLast
<1> HIDE DEF d, rest
<1>6. Sound(d)
  <2>1. d \in Branchers(problem)
    BY <1>1, <1>3, <1>5 DEF Branchers
  <2> QED BY <1>5, <2>1 DEF Sound
<1>7. LastCandidate(b) = b.left[n]
  BY DEF LastCandidate
<1>8. ASSUME NEW z, Reaches(b, z), z[b.left[n][1]] # b.left[n][2]
      PROVE  Reaches(d, z)
  <2>1. CASE ~b.exhaustive
    BY <1>5, <2>1 DEF Reaches
  <2>2. CASE \E k \in DOMAIN b.left : z[b.left[k][1]] = b.left[k][2]
    <3>1. PICK k \in 1 .. n : z[b.left[k][1]] = b.left[k][2]
      BY <1>2, <2>2
    <3>2. k # n
      BY <1>8, <3>1
    <3>3. k \in 1 .. n - 1
      BY <1>2, <3>2
    <3> QED BY <1>3, <1>5, <3>1, <3>3, ZenonT(30) DEF Reaches
  <2> QED BY <1>8, <2>1, <2>2 DEF Reaches
<1> QED BY <1>2, <1>6, <1>7, <1>8 DEF d

-----------------------------------------------------------------------------
(* Frames and stacks.                                                      *)

SoundBranchers(pb) == {b \in Branchers(pb) : b.exhaustive \/ ~pb.small}

PartialPointsOf(pb) == UNION {[D -> pb.values] : D \in SUBSET pb.vars}

SoundFrames(pb) ==
    [at : PartialPointsOf(pb), brancher : SoundBranchers(pb) \cup {None},
     last : (pb.vars \X pb.values) \cup {None}]

(* Frame f still leads to z. *)
Leads(f, z) == Extends(z, f.at) /\ (f.brancher = None \/ Reaches(f.brancher, z))

(* InReach, of any stack. *)
Near(z, s, bnd) == bnd \/ \E i \in DOMAIN s : Leads(s[i], z)

LEMMA FrameParts ==
    ASSUME problem \in Problems, NEW f \in SoundFrames(problem)
    PROVE  /\ f.at \in PartialPointsOf(problem)
           /\ DOMAIN f.at \in SUBSET problem.vars
           /\ f.at \in [DOMAIN f.at -> problem.values]
           /\ f.brancher # None => Sound(f.brancher)
           /\ f = [at |-> f.at, brancher |-> f.brancher, last |-> f.last]
<1>1. /\ f.at \in PartialPointsOf(problem)
      /\ f.brancher \in SoundBranchers(problem) \cup {None}
      /\ f = [at |-> f.at, brancher |-> f.brancher, last |-> f.last]
  BY DEF SoundFrames
<1>2. DOMAIN f.at \in SUBSET problem.vars /\ f.at \in [DOMAIN f.at -> problem.values]
  BY <1>1 DEF PartialPointsOf
<1>3. f.brancher # None => Sound(f.brancher)
  BY <1>1 DEF SoundBranchers, Sound
<1> QED BY <1>1, <1>2, <1>3

LEMMA NoneIsNoBrancher ==
    ASSUME problem \in Problems, NEW b, Sound(b)
    PROVE  b # None
BY NoneAssumption DEF Sound

(* A new frame leads to everything that extends it.                         *)
LEMMA NewFrameSound ==
    ASSUME NEW at \in PartialPointsOf(problem)
    PROVE  /\ NewFrame(at) \in SoundFrames(problem)
           /\ NewFrame(at).at = at /\ NewFrame(at).brancher = None
           /\ \A z : Extends(z, at) => Leads(NewFrame(at), z)
BY DEF NewFrame, SoundFrames, Leads

LEMMA BranchFrameSound ==
    ASSUME NEW f \in SoundFrames(problem), NEW b, Sound(b), problem \in Problems
    PROVE  /\ [f EXCEPT !.brancher = b] \in SoundFrames(problem)
           /\ [f EXCEPT !.brancher = b].at = f.at
           /\ [f EXCEPT !.brancher = b].brancher = b
           /\ \A z : Extends(z, f.at) /\ Reaches(b, z) => Leads([f EXCEPT !.brancher = b], z)
<1> DEFINE g == [f EXCEPT !.brancher = b]
<1>1. f = [at |-> f.at, brancher |-> f.brancher, last |-> f.last]
  BY FrameParts
<1>2. /\ g = [at |-> f.at, brancher |-> b, last |-> f.last]
      /\ g.at = f.at /\ g.brancher = b
  BY <1>1
<1>3. /\ f.at \in PartialPointsOf(problem)
      /\ f.last \in (problem.vars \X problem.values) \cup {None}
      /\ b \in SoundBranchers(problem)
  BY DEF SoundFrames, Sound, SoundBranchers
<1> HIDE DEF g
<1>4. g \in SoundFrames(problem)
  BY <1>2, <1>3 DEF SoundFrames
<1>5. ASSUME NEW z, Extends(z, f.at), Reaches(b, z) PROVE Leads(g, z)
  BY <1>2, <1>5 DEF Leads
<1> QED BY <1>2, <1>4, <1>5 DEF g

LEMMA NowhereSound ==
    /\ Nowhere \in PartialPointsOf(problem) /\ DOMAIN Nowhere = {}
    /\ \A z : Extends(z, Nowhere)
<1>1. Nowhere \in [{} -> problem.values] /\ DOMAIN Nowhere = {}
  BY DEF Nowhere
<1>2. {} \in SUBSET problem.vars
  OBVIOUS
<1> QED BY <1>1, <1>2 DEF PartialPointsOf, Extends

(* One more variable is assigned.                                           *)
LEMMA AssignSound ==
    ASSUME NEW at \in PartialPointsOf(problem), NEW c \in problem.vars \X problem.values
    PROVE  /\ Assign(at, c) \in PartialPointsOf(problem)
           /\ \A z : Extends(z, at) /\ z[c[1]] = c[2] => Extends(z, Assign(at, c))
<1>1. PICK D \in SUBSET problem.vars : at \in [D -> problem.values]
  BY DEF PartialPointsOf
<1>2. c[1] \in problem.vars /\ c[2] \in problem.values
  OBVIOUS
<1>3. /\ Assign(at, c) = [v \in D \cup {c[1]} |-> IF v = c[1] THEN c[2] ELSE at[v]]
      /\ DOMAIN at = D
  BY <1>1 DEF Assign
<1>4. Assign(at, c) \in [D \cup {c[1]} -> problem.values]
  BY <1>1, <1>2, <1>3
<1>5. D \cup {c[1]} \in SUBSET problem.vars
  BY <1>2
<1>6. ASSUME NEW z, Extends(z, at), z[c[1]] = c[2] PROVE Extends(z, Assign(at, c))
  BY <1>3, <1>6 DEF Extends
<1> QED BY <1>4, <1>5, <1>6 DEF PartialPointsOf

(* A stack without its top leads to what its top does not lead to.          *)
LEMMA PopKeeps ==
    ASSUME NEW S, NEW s \in Seq(S), s # <<>>
    PROVE  LET p == SubSeq(s, 1, Len(s) - 1)
           IN  /\ p \in Seq(S)
               /\ \A i \in DOMAIN p : i \in DOMAIN s /\ p[i] = s[i]
               /\ \A z, bnd : Near(z, s, bnd) /\ ~Leads(s[Len(s)], z) => Near(z, p, bnd)
<1> DEFINE n == Len(s)
           p == SubSeq(s, 1, n - 1)
<1>1. n \in Nat /\ n > 0 /\ DOMAIN s = 1 .. n
  OBVIOUS
<1>2. p \in Seq(S) /\ DOMAIN p = 1 .. n - 1 /\ \A i \in 1 .. n - 1 : p[i] = s[i]
  BY <1>1
<1> HIDE DEF p, n
<1>3. ASSUME NEW z, NEW bnd, Near(z, s, bnd), ~Leads(s[n], z) PROVE Near(z, p, bnd)
  <2>1. CASE bnd
    BY <2>1 DEF Near
  <2>2. CASE ~bnd
    <3>1. PICK i \in 1 .. n : Leads(s[i], z)
      BY <1>1, <1>3, <2>2 DEF Near
    <3>2. i # n
      BY <1>3, <3>1
    <3>3. i \in 1 .. n - 1
      BY <1>1, <3>2
    <3> QED BY <1>2, <3>1, <3>3 DEF Near
  <2> QED BY <2>1, <2>2
<1> QED BY <1>1, <1>2, <1>3 DEF p, n

(* A stack whose top is replaced.                                           *)
LEMMA PutKeeps ==
    ASSUME NEW S, NEW s \in Seq(S), s # <<>>, NEW f \in S
    PROVE  LET t == [s EXCEPT ![Len(s)] = f]
           IN  /\ t \in Seq(S) /\ t # <<>> /\ DOMAIN t = DOMAIN s
               /\ \A i \in DOMAIN t : t[i] = f \/ t[i] = s[i]
               /\ \A z, bnd : Near(z, s, bnd) => Near(z, t, bnd) \/ Leads(s[Len(s)], z)
               /\ \A z, bnd : Leads(f, z) => Near(z, t, bnd)
<1> DEFINE n == Len(s)
           t == [s EXCEPT ![n] = f]
<1>1. n \in Nat /\ n > 0 /\ DOMAIN s = 1 .. n /\ s \in [1 .. n -> S]
  OBVIOUS
<1> HIDE DEF n
<1>2. /\ t \in [1 .. n -> S] /\ DOMAIN t = 1 .. n /\ n \in 1 .. n /\ t[n] = f
      /\ \A i \in 1 .. n : i # n => t[i] = s[i]
  BY <1>1
<1> HIDE DEF t
<1>3. t \in Seq(S) /\ t # <<>>
  <2>1. t \in Seq(S)
    BY <1>1, <1>2
  <2>2. DOMAIN <<>> = {}
    OBVIOUS
  <2> QED BY <1>2, <2>1, <2>2
<1>4. ASSUME NEW z, NEW bnd, Near(z, s, bnd), ~Leads(s[n], z) PROVE Near(z, t, bnd)
  <2>1. CASE bnd
    BY <2>1 DEF Near
  <2>2. CASE ~bnd
    <3>1. PICK i \in 1 .. n : Leads(s[i], z)
      BY <1>1, <1>4, <2>2 DEF Near
    <3>2. i # n
      BY <1>4, <3>1
    <3> QED BY <1>2, <3>1, <3>2 DEF Near
  <2> QED BY <2>1, <2>2
<1>5. ASSUME NEW z, NEW bnd, Leads(f, z) PROVE Near(z, t, bnd)
  BY <1>2, <1>5 DEF Near
<1> QED BY <1>1, <1>2, <1>3, <1>4, <1>5 DEF t, n

(* A frame is pushed.                                                       *)
LEMMA PushKeeps ==
    ASSUME NEW S, NEW s \in Seq(S), NEW f \in S
    PROVE  /\ Append(s, f) \in Seq(S)
           /\ \A i \in DOMAIN Append(s, f) :
                Append(s, f)[i] = f \/ (i \in DOMAIN s /\ Append(s, f)[i] = s[i])
           /\ \A z, bnd : Near(z, s, bnd) \/ Leads(f, z) => Near(z, Append(s, f), bnd)
<1> DEFINE n == Len(s)
           t == Append(s, f)
<1>1. n \in Nat /\ DOMAIN s = 1 .. n
  OBVIOUS
<1>2. /\ t \in Seq(S) /\ DOMAIN t = 1 .. n + 1 /\ n + 1 \in 1 .. n + 1 /\ t[n + 1] = f
      /\ \A i \in 1 .. n : i \in 1 .. n + 1 /\ t[i] = s[i]
  BY <1>1
<1> HIDE DEF t
<1>3. ASSUME NEW z, NEW bnd, Near(z, s, bnd) PROVE Near(z, t, bnd)
  BY <1>1, <1>2, <1>3 DEF Near
<1>4. ASSUME NEW z, NEW bnd, Leads(f, z) PROVE Near(z, t, bnd)
  BY <1>2, <1>4 DEF Near
<1>5. \A i \in DOMAIN t : t[i] = f \/ (i \in DOMAIN s /\ t[i] = s[i])
  <2> SUFFICES ASSUME NEW i \in 1 .. n + 1, i # n + 1 PROVE i \in 1 .. n
    BY <1>1, <1>2
  <2> QED BY <1>1
<1> QED BY <1>2, <1>3, <1>4, <1>5 DEF t

LEMMA StartStack ==
    ASSUME NEW S, NEW f \in S
    PROVE  /\ <<f>> \in Seq(S) /\ DOMAIN <<f>> = {1} /\ <<f>>[1] = f
           /\ \A z, bnd : Leads(f, z) => Near(z, <<f>>, bnd)
BY DEF Near

(* The frame whose last candidate is taken leads where it led, or the       *)
(* candidate does.                                                          *)
LEMMA TakeKeeps ==
    ASSUME problem \in Problems, NEW f \in SoundFrames(problem), f.brancher # None,
           f.brancher.left # <<>>, NEW l \in (problem.vars \X problem.values) \cup {None}
    PROVE  LET c == LastCandidate(f.brancher)
               g == [at |-> f.at, brancher |-> WithoutLast(f.brancher), last |-> l]
           IN  /\ g \in SoundFrames(problem) /\ g.brancher # None /\ g.at = f.at
               /\ c \in problem.vars \X problem.values
               /\ Assign(f.at, c) \in PartialPointsOf(problem)
               /\ \A z : Leads(f, z) => Leads(g, z) \/ Extends(z, Assign(f.at, c))
<1> DEFINE c == LastCandidate(f.brancher)
           w == WithoutLast(f.brancher)
           g == [at |-> f.at, brancher |-> w, last |-> l]
<1>1. Sound(f.brancher) /\ f.at \in PartialPointsOf(problem)
  BY FrameParts
<1>2. /\ Sound(w) /\ c \in problem.vars \X problem.values
      /\ \A z : Reaches(f.brancher, z) => Reaches(w, z) \/ z[c[1]] = c[2]
  BY <1>1, WithoutLastKeeps
<1>3. w # None /\ w \in SoundBranchers(problem)
  BY <1>2, NoneIsNoBrancher DEF Sound, SoundBranchers
<1>4. g \in SoundFrames(problem) /\ g.brancher # None /\ g.at = f.at
  BY <1>1, <1>3 DEF SoundFrames
<1>5. /\ Assign(f.at, c) \in PartialPointsOf(problem)
      /\ \A z : Extends(z, f.at) /\ z[c[1]] = c[2] => Extends(z, Assign(f.at, c))
  <2> HIDE DEF c
  <2> QED BY <1>1, <1>2, AssignSound
<1>6. ASSUME NEW z, Leads(f, z) PROVE Leads(g, z) \/ Extends(z, Assign(f.at, c))
  <2>1. Extends(z, f.at) /\ Reaches(f.brancher, z)
    BY <1>6 DEF Leads
  <2>2. CASE Reaches(w, z)
    BY <2>1, <2>2 DEF Leads
  <2>3. CASE z[c[1]] = c[2]
    BY <1>5, <2>1, <2>3
  <2> QED BY <1>2, <2>1, <2>2, <2>3
<1> QED BY <1>2, <1>4, <1>5, <1>6

-----------------------------------------------------------------------------
(* The inductive invariant: every frame counts as exhaustive only if it is, *)
(* what find_zero has found and what has been answered is right, nogoods    *)
(* are barren, and no zero (in find_zero: not every zero) is lost.          *)

AllZeros(pb) == ZerosOf(pb, pb.polys)

Shape(pb, p, s, bnd, can, mis) ==
    /\ pb \in Problems /\ s \in Seq(SoundFrames(pb))
    /\ bnd \in BOOLEAN /\ can \in BOOLEAN /\ mis \in BOOLEAN
    /\ bnd => ~pb.small
    /\ p = "dfs" => \A i \in DOMAIN s : s[i].brancher # None

RightOutcome(pb, can, mis, o) ==
    /\ o.kind = "sat" => o.point \in AllZeros(pb)
    /\ o.kind = "unsat" => mis \/ AllZeros(pb) = {}
    /\ o.kind \notin {"sat", "unsat"} => can \/ ~pb.small

RightAnswer(pb, can, mis, a) ==
    /\ a.kind = "sat" => a.point \in AllZeros(pb)
    /\ a.kind = "unsat" => mis \/ ZerosOf(pb, a.core \cup {f \in pb.polys : f.bitsum}) = {}
    /\ a.kind \notin {"sat", "unsat"} => can \/ mis \/ ~pb.small

Barren(pb, N) == \A n \in N : \A z \in AllZeros(pb) : ~Extends(z, n)

Lossless(pb, p, s, bnd, mis) ==
    /\ p = "dfs" => \A z \in AllZeros(pb) : Near(z, s, bnd)
    /\ p = "branch" /\ AllZeros(pb) # {} /\ ~mis => \E z \in AllZeros(pb) : Near(z, s, bnd)

IInv ==
    /\ Shape(problem, pc, stack, bounded, cancelled, misled)
    /\ pc = "found" => RightOutcome(problem, cancelled, misled, outcome)
    /\ Barren(problem, nogoods)
    /\ Lossless(problem, pc, stack, bounded, misled)
    /\ answer # None => RightAnswer(problem, cancelled, misled, answer)

LEMMA ZerosAtAre ==
    ASSUME NEW at
    PROVE  /\ ZerosAt(at) = {z \in AllZeros(problem) : Extends(z, at)}
           /\ \A z \in AllZeros(problem) : z \in Points(problem)
BY DEF ZerosAt, AllZeros, ZerosOf

LEMMA DefinitionsAre ==
    /\ Definitions = {f \in problem.polys : f.bitsum}
    /\ Inputs \cup Definitions = problem.polys
BY DEF Definitions, Inputs

(* A zero that extends a total assignment is that assignment.               *)
LEMMA TotalZero ==
    ASSUME NEW at \in PartialPointsOf(problem), Total(at), ZerosAt(at) # {}
    PROVE  at \in AllZeros(problem)
<1>1. PICK z \in AllZeros(problem) : Extends(z, at) /\ z \in Points(problem)
  BY ZerosAtAre
<1>2. at \in [problem.vars -> problem.values] /\ z \in [problem.vars -> problem.values]
  BY <1>1 DEF PartialPointsOf, Total, Points
<1>3. \A v \in problem.vars : z[v] = at[v]
  BY <1>1, <1>2 DEF Extends
<1>4. z = at
  BY <1>2, <1>3
<1> QED BY <1>1, <1>4

LEMMA InitHolds == Init => IInv
<1> SUFFICES ASSUME Init PROVE IInv
  OBVIOUS
<1> USE DEF Init
<1>1. <<>> \in Seq(SoundFrames(problem))
  OBVIOUS
<1>2. Shape(problem, pc, stack, bounded, cancelled, misled)
  BY <1>1 DEF Shape
<1> QED BY <1>2 DEF IInv, Barren, Lossless

-----------------------------------------------------------------------------
(* What a step of each kind preserves.                                      *)

(* A right answer ends the search.                                          *)
LEMMA AnswerKeeps ==
    ASSUME IInv, NEW a, Answer(a), RightAnswer(problem, cancelled, misled, a)
    PROVE  IInv'
<1> USE DEF Answer
<1>1. <<>> \in Seq(SoundFrames(problem))
  OBVIOUS
<1>2. Shape(problem, pc, stack, bounded, cancelled, misled)'
  BY <1>1 DEF Shape, IInv
<1>3. Barren(problem, nogoods)' /\ Lossless(problem, pc, stack, bounded, misled)'
  BY DEF Barren, Lossless
<1>4. RightAnswer(problem, cancelled, misled, answer)'
  OBVIOUS
<1>5. (pc = "found" => RightOutcome(problem, cancelled, misled, outcome))'
  OBVIOUS
<1> QED BY <1>2, <1>3, <1>4, <1>5 DEF IInv

(* Unsatisfiable, on a basis that is the whole ring.                        *)
LEMMA InputsRight ==
    ASSUME misled \/ AllZeros(problem) = {}
    PROVE  RightAnswer(problem, cancelled, misled, Unsat(Inputs))
<1>1. Inputs \cup {f \in problem.polys : f.bitsum} = problem.polys
  BY DEF Inputs
<1> QED BY <1>1 DEF RightAnswer, Unsat, AllZeros

(* A model is verified before it is the answer.                             *)
LEMMA VerifiedRight ==
    ASSUME NEW z \in AllZeros(problem)
    PROVE  RightAnswer(problem, cancelled, misled, Verified(z))
BY DEF RightAnswer, Verified, Sat, AllZeros

(* A step that leaves the stack, the nogoods and the answer alone, outside  *)
(* the searches.                                                            *)
LEMMA MoveKeeps ==
    ASSUME IInv, pc' \notin {"dfs", "branch", "found"},
           problem' = problem, stack' = stack \/ stack' = <<>>,
           bounded' = bounded, cancelled' = cancelled, misled' = misled,
           nogoods' = nogoods \/ nogoods' = {}, answer' = answer
    PROVE  IInv'
<1>1. <<>> \in Seq(SoundFrames(problem))
  OBVIOUS
<1>2. Shape(problem, pc, stack, bounded, cancelled, misled)'
  BY <1>1 DEF Shape, IInv
<1>3. Barren(problem, nogoods)'
  BY DEF Barren, IInv
<1>4. Lossless(problem, pc, stack, bounded, misled)'
  BY DEF Lossless
<1> QED BY <1>2, <1>3, <1>4 DEF IInv

(* A search starts with one frame, that everything extends.                 *)
LEMMA StartKeeps ==
    ASSUME IInv, pc' \in {"branch", "root"},
           problem' = problem, stack' = <<NewFrame(Nowhere)>>, bounded' = FALSE,
           cancelled' = cancelled, misled' = misled,
           nogoods' = nogoods, answer' = answer
    PROVE  IInv'
<1>1. /\ stack' \in Seq(SoundFrames(problem))
      /\ \A z, bnd : Near(z, stack', bnd)
  BY NowhereSound, NewFrameSound, StartStack
<1>2. Shape(problem, pc, stack, bounded, cancelled, misled)'
  BY <1>1 DEF Shape, IInv
<1>3. Lossless(problem, pc, stack, bounded, misled)'
  BY <1>1 DEF Lossless
<1> QED BY <1>2, <1>3 DEF IInv

(* A step of find_zero yields a right outcome.                              *)
LEMMA YieldKeeps ==
    ASSUME IInv, NEW o, Yield(o), RightOutcome(problem, cancelled, misled, o),
           nogoods' = nogoods, answer' = answer
    PROVE  IInv'
<1> USE DEF Yield
<1>1. <<>> \in Seq(SoundFrames(problem))
  OBVIOUS
<1>2. Shape(problem, pc, stack, bounded, cancelled, misled)'
  BY <1>1 DEF Shape, IInv
<1>3. Lossless(problem, pc, stack, bounded, misled)'
  BY DEF Lossless
<1> QED BY <1>2, <1>3 DEF IInv

(* A step of find_zero on its stack.                                        *)
LEMMA BranchKeeps ==
    ASSUME IInv, pc = "branch", pc' = "branch",
           problem' = problem, cancelled' = cancelled, nogoods' = nogoods, answer' = answer,
           misled' \in BOOLEAN, misled => misled',
           stack' \in Seq(SoundFrames(problem)),
           bounded' \in BOOLEAN, bounded' => ~problem.small,
           AllZeros(problem) # {} /\ ~misled' =>
              \E z \in AllZeros(problem) : Near(z, stack', bounded')
    PROVE  IInv'
<1>1. Shape(problem, pc, stack, bounded, cancelled, misled)'
  BY DEF Shape, IInv
<1>2. Lossless(problem, pc, stack, bounded, misled)'
  BY DEF Lossless
<1>3. answer # None => RightAnswer(problem, cancelled, misled', answer)
  BY DEF IInv, RightAnswer
<1> QED BY <1>1, <1>2, <1>3 DEF IInv

(* A step of the depth-first search on its stack.                           *)
LEMMA SearchKeeps ==
    ASSUME IInv, pc = "dfs", pc' = "dfs",
           problem' = problem, cancelled' = cancelled, misled' = misled, answer' = answer,
           stack' \in Seq(SoundFrames(problem)),
           \A i \in DOMAIN stack' : stack'[i].brancher # None,
           bounded' \in BOOLEAN, bounded' => ~problem.small,
           \A z \in AllZeros(problem) : Near(z, stack', bounded'),
           Barren(problem, nogoods')
    PROVE  IInv'
<1>1. Shape(problem, pc, stack, bounded, cancelled, misled)'
  BY DEF Shape, IInv
<1>2. Lossless(problem, pc, stack, bounded, misled)'
  BY DEF Lossless
<1> QED BY <1>1, <1>2 DEF IInv

-----------------------------------------------------------------------------
(* Up to the search.                                                       *)

LEMMA GiveUpKeeps ==
    ASSUME IInv, GiveUp
    PROVE  IInv'
<1>1. RightAnswer(problem, cancelled, misled, Unknown)
  BY DEF GiveUp, RightAnswer, Unknown
<1> QED BY <1>1, AnswerKeeps DEF GiveUp

(* The inputs that are left out of a core only shrink the zeros further.    *)
LEMMA CoreRight ==
    ASSUME NEW core, ZerosOf(problem, core \cup Definitions) = {}
    PROVE  RightAnswer(problem, cancelled, misled, Unsat(core))
BY DEF RightAnswer, Unsat, Definitions, Inputs

LEMMA ShortCircuitKeeps ==
    ASSUME IInv, ShortCircuit
    PROVE  IInv'
<1>1. PICK f \in Constants : Answer(Unsat({f}))
  BY DEF ShortCircuit
<1>2. ZerosOf(problem, {f} \cup Definitions) = {}
  BY DEF Constants, ZerosOf
<1> QED BY <1>1, <1>2, CoreRight, AnswerKeeps

LEMMA RadicalMembershipKeeps ==
    ASSUME IInv, RadicalMembership
    PROVE  IInv'
<1>1. AllZeros(problem) = {}
  BY DEF RadicalMembership, AllZeros
<1> QED BY <1>1, InputsRight, AnswerKeeps DEF RadicalMembership

LEMMA BuildPartitionsKeeps ==
    ASSUME IInv, BuildPartitions
    PROVE  IInv'
BY MoveKeeps DEF BuildPartitions, Goto

LEMMA ExtendTracedKeeps ==
    ASSUME IInv, NEW j, NEW here, NEW next \in {"extend2", "cross"},
           ExtendTraced(j, here, next)
    PROVE  IInv'
<1> DEFINE core == IF AllInputDeps(j) = {} THEN Inputs ELSE AllInputDeps(j)
<1>1. CASE ZerosOf(problem, AllInputDeps(j) \cup Definitions) = {} /\ Answer(Unsat(core))
  <2>1. ZerosOf(problem, core \cup Definitions) = {}
    BY <1>1 DEF ZerosOf
  <2> HIDE DEF core
  <2> QED BY <1>1, <2>1, CoreRight, AnswerKeeps
<1>2. CASE Goto(next) /\ UNCHANGED <<method, rounds, linear, saved, nogoods, answer>>
  BY <1>2, MoveKeeps DEF Goto
<1> QED BY <1>1, <1>2 DEF ExtendTraced

LEMMA FixpointKeeps ==
    ASSUME IInv, Cross \/ Settle
    PROVE  IInv'
BY MoveKeeps DEF Cross, Settle, Goto

LEMMA SearchStarts ==
    ASSUME IInv, Search
    PROVE  IInv'
<1>1. nogoods' = nogoods /\ answer' = answer
  BY DEF Search
<1>2. CASE Goto("triangular")
  BY <1>1, <1>2, MoveKeeps DEF Goto
<1>3. CASE /\ pc' = "root" /\ stack' = <<NewFrame(Nowhere)>> /\ bounded' = FALSE
           /\ UNCHANGED <<problem, cancelled, outcome, unsplit, misled>>
  BY <1>1, <1>3, StartKeeps
<1> QED BY <1>2, <1>3 DEF Search

LEMMA SingleKeeps ==
    ASSUME IInv, Single
    PROVE  IInv'
<1>1. CASE ZerosOf(problem, problem.polys) = {} /\ Answer(Unsat(Inputs))
  BY <1>1, InputsRight, AnswerKeeps DEF AllZeros
<1>2. CASE Goto("triangular") /\ UNCHANGED searchVars
  BY <1>2, MoveKeeps DEF Goto, searchVars
<1> QED BY <1>1, <1>2 DEF Single

(* What find_zero found is the answer, or the search goes on.               *)
LEMMA AfterFindZeroKeeps ==
    ASSUME IInv, AfterFindZero
    PROVE  IInv'
<1>1. RightOutcome(problem, cancelled, misled, outcome)
  BY DEF AfterFindZero, IInv
<1>2. CASE outcome.kind = "sat"
  <2>1. outcome.point \in AllZeros(problem)
    BY <1>1, <1>2 DEF RightOutcome
  <2>2. Answer(Verified(outcome.point))
    BY <1>2 DEF AfterFindZero
  <2> QED BY <2>1, <2>2, VerifiedRight, AnswerKeeps
<1>3. CASE outcome.kind = "unsat"
  <2>1. misled \/ AllZeros(problem) = {}
    BY <1>1, <1>3 DEF RightOutcome
  <2>2. Answer(Unsat(Inputs))
    BY <1>3 DEF AfterFindZero
  <2> QED BY <2>1, <2>2, InputsRight, AnswerKeeps
<1>4. CASE outcome.kind = "unknown" /\ method = "single"
  <2>1. RightAnswer(problem, cancelled, misled, Unknown)
    BY <1>1, <1>4 DEF RightOutcome, RightAnswer, Unknown
  <2>2. Answer(Unknown)
    BY <1>4 DEF AfterFindZero
  <2> QED BY <2>1, <2>2, AnswerKeeps
<1>5. CASE /\ outcome.kind # "sat" /\ outcome.kind # "unsat"
           /\ ~(outcome.kind = "unknown" /\ method = "single")
  <2>1. /\ pc' = "root" /\ stack' = <<NewFrame(Nowhere)>> /\ bounded' = FALSE
        /\ UNCHANGED <<problem, cancelled, outcome, unsplit, misled, searchVars>>
    BY <1>5 DEF AfterFindZero
  <2> QED BY <2>1, StartKeeps DEF searchVars
<1> QED BY <1>2, <1>3, <1>4, <1>5

-----------------------------------------------------------------------------
(* find_zero.                                                              *)

LEMMA TryTriangularKeeps ==
    ASSUME IInv, TryTriangular, UNCHANGED searchVars
    PROVE  IInv'
<1>1. nogoods' = nogoods /\ answer' = answer
  BY DEF searchVars
<1>2. CASE \E z \in ZerosAt(Nowhere) : Yield(Found(z))
  <2>1. PICK z \in ZerosAt(Nowhere) : Yield(Found(z))
    BY <1>2
  <2>2. RightOutcome(problem, cancelled, misled, Found(z))
    BY ZerosAtAre DEF RightOutcome, Found
  <2> QED BY <1>1, <2>1, <2>2, YieldKeeps
<1>3. CASE /\ pc' = "branch" /\ stack' = <<NewFrame(Nowhere)>> /\ bounded' = FALSE
           /\ UNCHANGED <<problem, cancelled, outcome, unsplit, misled>>
  BY <1>1, <1>3, StartKeeps
<1> QED BY <1>2, <1>3 DEF TryTriangular

LEMMA StopKeeps ==
    ASSUME IInv, Stop, UNCHANGED searchVars
    PROVE  IInv'
<1>1. RightOutcome(problem, cancelled, misled, Inconclusive)
  BY DEF Stop, RightOutcome, Inconclusive
<1> QED BY <1>1, YieldKeeps DEF Stop, searchVars

LEMMA ExtractAssignmentKeeps ==
    ASSUME IInv, ExtractAssignment, UNCHANGED searchVars
    PROVE  IInv'
<1>1. PICK z \in ZerosAt(Top.at) : Yield(Found(z))
  BY DEF ExtractAssignment
<1>2. RightOutcome(problem, cancelled, misled, Found(z))
  BY ZerosAtAre DEF RightOutcome, Found
<1> QED BY <1>1, <1>2, YieldKeeps DEF searchVars

(* The stack is empty: every zero was met, or the search was bounded.       *)
LEMMA ExhaustKeeps ==
    ASSUME IInv, Exhaust, UNCHANGED searchVars
    PROVE  IInv'
<1> DEFINE o == IF bounded THEN Inconclusive ELSE Infeasible
<1>1. DOMAIN stack = {} /\ pc = "branch"
  BY DEF Exhaust
<1>2. bounded \/ misled \/ AllZeros(problem) = {}
  BY <1>1 DEF IInv, Lossless, Near
<1>3. bounded => ~problem.small
  BY DEF IInv, Shape
<1>4. RightOutcome(problem, cancelled, misled, o)
  BY <1>2, <1>3 DEF RightOutcome, Inconclusive, Infeasible
<1> HIDE DEF o
<1> QED BY <1>4, YieldKeeps DEF Exhaust, searchVars, o

(* The top frame of a stack that is not empty.                              *)
LEMMA TopIs ==
    ASSUME IInv, stack # <<>>
    PROVE  /\ Top \in SoundFrames(problem) /\ Top = stack[Len(stack)]
           /\ Len(stack) \in DOMAIN stack /\ stack \in Seq(SoundFrames(problem))
           /\ problem \in Problems
           /\ Top.at \in PartialPointsOf(problem)
           /\ Top.brancher # None => Sound(Top.brancher)
           /\ Top.last \in (problem.vars \X problem.values) \cup {None}
           /\ Top = [at |-> Top.at, brancher |-> Top.brancher, last |-> Top.last]
<1>1. stack \in Seq(SoundFrames(problem)) /\ problem \in Problems
  BY DEF IInv, Shape
<1>2. Len(stack) \in DOMAIN stack /\ stack[Len(stack)] \in SoundFrames(problem)
  BY <1>1
<1>3. Top \in SoundFrames(problem)
  BY <1>2 DEF Top
<1>4. Top.last \in (problem.vars \X problem.values) \cup {None}
  BY <1>3 DEF SoundFrames
<1> QED BY <1>1, <1>2, <1>3, <1>4, FrameParts DEF Top

(* A top frame that leads nowhere may go.                                   *)
LEMMA PopTop ==
    ASSUME IInv, stack # <<>>
    PROVE  /\ Pop \in Seq(SoundFrames(problem))
           /\ \A i \in DOMAIN Pop : i \in DOMAIN stack /\ Pop[i] = stack[i]
           /\ \A z, bnd : Near(z, stack, bnd) /\ ~Leads(Top, z) => Near(z, Pop, bnd)
<1>1. stack \in Seq(SoundFrames(problem)) /\ Top = stack[Len(stack)]
  BY TopIs
<1> QED BY <1>1, PopKeeps DEF Pop

(* The brancher of the top frame that is put there leads further.           *)
LEMMA PutBrancher ==
    ASSUME IInv, stack # <<>>, NEW b, Sound(b)
    PROVE  LET s == [stack EXCEPT ![Len(stack)].brancher = b]
           IN  /\ s \in Seq(SoundFrames(problem))
               /\ \A z, bnd : Near(z, stack, bnd) => Near(z, s, bnd) \/ Leads(Top, z)
               /\ \A z, bnd : Extends(z, Top.at) /\ Reaches(b, z) => Near(z, s, bnd)
<1> DEFINE g == [Top EXCEPT !.brancher = b]
           s == [stack EXCEPT ![Len(stack)].brancher = b]
<1>1. /\ stack \in Seq(SoundFrames(problem)) /\ Top = stack[Len(stack)]
      /\ Top \in SoundFrames(problem) /\ problem \in Problems
  BY TopIs
<1>2. s = [stack EXCEPT ![Len(stack)] = g]
  BY <1>1
<1>3. /\ g \in SoundFrames(problem)
      /\ \A z : Extends(z, Top.at) /\ Reaches(b, z) => Leads(g, z)
  BY <1>1, BranchFrameSound
<1> HIDE DEF g, s
<1> QED BY <1>1, <1>2, <1>3, PutKeeps DEF s

LEMMA DropWholeRingKeeps ==
    ASSUME IInv, DropWholeRing, UNCHANGED searchVars
    PROVE  IInv'
<1>1. /\ pc = "branch" /\ stack # <<>> /\ stack' = Pop /\ ZerosAt(Top.at) = {}
      /\ UNCHANGED <<problem, pc, bounded, cancelled, misled, nogoods, answer>>
  BY DEF DropWholeRing, Searching, Advance, searchVars
<1>2. \A z \in AllZeros(problem) : ~Leads(Top, z)
  BY <1>1, ZerosAtAre DEF Leads
<1>3. /\ Pop \in Seq(SoundFrames(problem))
      /\ \A z, bnd : Near(z, stack, bnd) /\ ~Leads(Top, z) => Near(z, Pop, bnd)
  BY <1>1, PopTop
<1>4. AllZeros(problem) # {} /\ ~misled => \E z \in AllZeros(problem) : Near(z, stack, bounded)
  BY <1>1 DEF IInv, Lossless
<1>5. bounded \in BOOLEAN /\ misled \in BOOLEAN /\ (bounded => ~problem.small)
  BY DEF IInv, Shape
<1> QED BY <1>1, <1>2, <1>3, <1>4, <1>5, BranchKeeps

LEMMA BranchStepKeeps ==
    ASSUME IInv, Branch, UNCHANGED searchVars
    PROVE  IInv'
<1>1. PICK b \in ComputeCandidates(Top.at) :
         stack' = [stack EXCEPT ![Len(stack)].brancher = b]
  BY DEF Branch, Advance
<1>2. /\ pc = "branch" /\ stack # <<>> /\ ~Total(Top.at)
      /\ UNCHANGED <<problem, pc, bounded, cancelled, misled, nogoods, answer>>
  BY DEF Branch, Searching, Advance, searchVars
<1>3. problem \in Problems
  BY <1>2, TopIs
<1>4. Sound(b) /\ \A z \in ZerosAt(Top.at) : Reaches(b, z)
  BY <1>3, ComputeSound
<1>5. /\ stack' \in Seq(SoundFrames(problem))
      /\ \A z, bnd : Near(z, stack, bnd) => Near(z, stack', bnd) \/ Leads(Top, z)
      /\ \A z, bnd : Extends(z, Top.at) /\ Reaches(b, z) => Near(z, stack', bnd)
  BY <1>1, <1>2, <1>4, PutBrancher
<1>6. \A z \in AllZeros(problem) : Leads(Top, z) => Near(z, stack', bounded)
  BY <1>4, <1>5, ZerosAtAre DEF Leads
<1>7. AllZeros(problem) # {} /\ ~misled => \E z \in AllZeros(problem) : Near(z, stack, bounded)
  BY <1>2 DEF IInv, Lossless
<1>8. bounded \in BOOLEAN /\ misled \in BOOLEAN /\ (bounded => ~problem.small)
  BY DEF IInv, Shape
<1> QED BY <1>2, <1>5, <1>6, <1>7, <1>8, BranchKeeps

(* One zero may be lost to a walk, but only if another one is then met, or  *)
(* the walk is noted.                                                       *)
LEMMA BranchUnsplitKeeps ==
    ASSUME IInv, BranchUnsplit, UNCHANGED searchVars
    PROVE  IInv'
<1>1. PICK b \in UnsplitCandidates(Top.at) :
         /\ stack' = [stack EXCEPT ![Len(stack)].brancher = b]
         /\ misled' = (misled \/ Misleads(Top.at, b))
  BY DEF BranchUnsplit
<1>2. /\ pc = "branch" /\ stack # <<>> /\ ~Total(Top.at)
      /\ UNCHANGED <<problem, pc, bounded, cancelled, nogoods, answer>>
  BY DEF BranchUnsplit, Searching, searchVars
<1>3. problem \in Problems /\ Top.at \in PartialPointsOf(problem)
  BY <1>2, TopIs
<1>4. problem.vars # {}
  BY <1>2, <1>3 DEF Total, PartialPointsOf
<1>5. /\ Sound(b)
      /\ Misleads(Top.at, b) \/ ZerosAt(Top.at) = {} \/ \E z \in ZerosAt(Top.at) : Reaches(b, z)
  BY <1>3, <1>4, UnsplitSound
<1>6. /\ stack' \in Seq(SoundFrames(problem))
      /\ \A z, bnd : Near(z, stack, bnd) => Near(z, stack', bnd) \/ Leads(Top, z)
      /\ \A z, bnd : Extends(z, Top.at) /\ Reaches(b, z) => Near(z, stack', bnd)
  BY <1>1, <1>2, <1>5, PutBrancher
<1>7. AllZeros(problem) # {} /\ ~misled => \E z \in AllZeros(problem) : Near(z, stack, bounded)
  BY <1>2 DEF IInv, Lossless
<1>8. /\ bounded \in BOOLEAN /\ misled \in BOOLEAN /\ (bounded => ~problem.small)
      /\ misled' \in BOOLEAN /\ (misled => misled')
  BY <1>1 DEF IInv, Shape
<1>9. ASSUME AllZeros(problem) # {}, ~misled'
      PROVE  \E z \in AllZeros(problem) : Near(z, stack', bounded)
  <2>1. ~misled /\ ~Misleads(Top.at, b)
    BY <1>1, <1>9
  <2>2. PICK z \in AllZeros(problem) : Near(z, stack, bounded)
    BY <1>7, <1>9, <2>1
  <2>3. CASE Near(z, stack', bounded)
    BY <2>3
  <2>4. CASE Leads(Top, z)
    <3>1. z \in ZerosAt(Top.at)
      BY <2>4, ZerosAtAre DEF Leads
    <3>2. PICK y \in ZerosAt(Top.at) : Reaches(b, y)
      BY <1>5, <2>1, <3>1
    <3>3. y \in AllZeros(problem) /\ Extends(y, Top.at)
      BY ZerosAtAre
    <3> QED BY <1>6, <3>2, <3>3
  <2> QED BY <1>6, <2>2, <2>3, <2>4
<1> QED BY <1>2, <1>6, <1>8, <1>9, BranchKeeps

(* The candidate's frame leads to what the top frame no longer does.        *)
LEMMA TryCandidateKeeps ==
    ASSUME IInv, TryCandidate, UNCHANGED searchVars
    PROVE  IInv'
<1> DEFINE c == LastCandidate(Top.brancher)
           g == [at |-> Top.at, brancher |-> WithoutLast(Top.brancher), last |-> Top.last]
           s == [stack EXCEPT ![Len(stack)] = g]
           h == NewFrame(Assign(Top.at, c))
<1>1. /\ pc = "branch" /\ stack # <<>> /\ Top.brancher # None /\ Top.brancher.left # <<>>
      /\ UNCHANGED <<problem, pc, bounded, cancelled, misled, nogoods, answer>>
  BY DEF TryCandidate, Searching, Advance, searchVars
<1>2. /\ Top \in SoundFrames(problem) /\ Top = stack[Len(stack)] /\ problem \in Problems
      /\ stack \in Seq(SoundFrames(problem))
      /\ Top.last \in (problem.vars \X problem.values) \cup {None}
      /\ Top = [at |-> Top.at, brancher |-> Top.brancher, last |-> Top.last]
  BY <1>1, TopIs
<1>3. /\ g \in SoundFrames(problem) /\ Assign(Top.at, c) \in PartialPointsOf(problem)
      /\ \A z : Leads(Top, z) => Leads(g, z) \/ Extends(z, Assign(Top.at, c))
  BY <1>1, <1>2, TakeKeeps
<1>4. stack' = Append(s, h)
  <2>1. stack' = Append([stack EXCEPT ![Len(stack)].brancher = WithoutLast(@)], h)
    BY DEF TryCandidate, Advance
  <2>2. [Top EXCEPT !.brancher = WithoutLast(@)] = g
    BY <1>2
  <2> QED BY <1>2, <2>1, <2>2
<1>5. h \in SoundFrames(problem) /\ \A z : Extends(z, Assign(Top.at, c)) => Leads(h, z)
  BY <1>3, NewFrameSound
<1> HIDE DEF g, h, c
<1>6. /\ s \in Seq(SoundFrames(problem))
      /\ \A z, bnd : Near(z, stack, bnd) => Near(z, s, bnd) \/ Leads(Top, z)
      /\ \A z, bnd : Leads(g, z) => Near(z, s, bnd)
  BY <1>1, <1>2, <1>3, PutKeeps
<1> HIDE DEF s
<1>7. /\ stack' \in Seq(SoundFrames(problem))
      /\ \A z, bnd : Near(z, s, bnd) \/ Leads(h, z) => Near(z, stack', bnd)
  BY <1>4, <1>5, <1>6, PushKeeps
<1>8. \A z, bnd : Near(z, stack, bnd) => Near(z, stack', bnd)
  BY <1>3, <1>5, <1>6, <1>7
<1>9. AllZeros(problem) # {} /\ ~misled => \E z \in AllZeros(problem) : Near(z, stack, bounded)
  BY <1>1 DEF IInv, Lossless
<1>10. bounded \in BOOLEAN /\ misled \in BOOLEAN /\ (bounded => ~problem.small)
  BY DEF IInv, Shape
<1> QED BY <1>1, <1>7, <1>8, <1>9, <1>10, BranchKeeps

(* A brancher that ran out led nowhere, or the search counts as bounded.    *)
LEMMA OutOfCandidates ==
    ASSUME IInv, stack # <<>>, Top.brancher # None, Top.brancher.left = <<>>,
           NEW bnd, bnd = (bounded \/ ~Top.brancher.exhaustive)
    PROVE  /\ bnd \in BOOLEAN /\ (bnd => ~problem.small)
           /\ \A z : Near(z, stack, bounded) => Near(z, Pop, bnd)
<1>1. Sound(Top.brancher)
  BY TopIs
<1>2. /\ Top.brancher.exhaustive \in BOOLEAN /\ (Top.brancher.exhaustive \/ ~problem.small)
      /\ bounded \in BOOLEAN /\ (bounded => ~problem.small)
  BY <1>1 DEF Sound, Branchers, IInv, Shape
<1>3. ASSUME NEW z, Near(z, stack, bounded) PROVE Near(z, Pop, bnd)
  <2>1. CASE bnd
    BY <2>1 DEF Near
  <2>2. CASE ~bnd
    <3>1. Top.brancher.exhaustive /\ ~bounded
      BY <1>2, <2>2
    <3>2. DOMAIN Top.brancher.left = {}
      OBVIOUS
    <3>3. ~Leads(Top, z)
      BY <3>1, <3>2 DEF Leads, Reaches
    <3>4. Near(z, stack, bnd)
      BY <1>3, <3>1, <2>2 DEF Near
    <3> QED BY <3>3, <3>4, PopTop
  <2> QED BY <1>2, <2>1, <2>2
<1> QED BY <1>2, <1>3

LEMMA BacktrackIdealKeeps ==
    ASSUME IInv, BacktrackIdeal, UNCHANGED searchVars
    PROVE  IInv'
<1>1. /\ pc = "branch" /\ stack # <<>> /\ Top.brancher # None /\ Top.brancher.left = <<>>
      /\ stack' = Pop /\ bounded' = (bounded \/ ~Top.brancher.exhaustive)
      /\ UNCHANGED <<problem, pc, cancelled, misled, nogoods, answer>>
  BY DEF BacktrackIdeal, Searching, searchVars
<1>2. /\ bounded' \in BOOLEAN /\ (bounded' => ~problem.small)
      /\ \A z : Near(z, stack, bounded) => Near(z, stack', bounded')
  BY <1>1, OutOfCandidates
<1>3. stack' \in Seq(SoundFrames(problem))
  BY <1>1, PopTop
<1>4. AllZeros(problem) # {} /\ ~misled => \E z \in AllZeros(problem) : Near(z, stack, bounded)
  BY <1>1 DEF IInv, Lossless
<1>5. misled \in BOOLEAN
  BY DEF IInv, Shape
<1>6. AllZeros(problem) # {} /\ ~misled' =>
        \E z \in AllZeros(problem) : Near(z, stack', bounded')
  BY <1>1, <1>2, <1>4
<1> QED BY <1>1, <1>2, <1>3, <1>5, <1>6, BranchKeeps

LEMMA FindZeroKeeps ==
    ASSUME IInv, FindZeroRuns
    PROVE  IInv'
<1>1. CASE TryTriangular BY <1>1, TryTriangularKeeps DEF FindZeroRuns
<1>2. CASE Stop BY <1>2, StopKeeps DEF FindZeroRuns
<1>3. CASE DropWholeRing BY <1>3, DropWholeRingKeeps DEF FindZeroRuns
<1>4. CASE ExtractAssignment BY <1>4, ExtractAssignmentKeeps DEF FindZeroRuns
<1>5. CASE Branch BY <1>5, BranchStepKeeps DEF FindZeroRuns
<1>6. CASE BranchUnsplit BY <1>6, BranchUnsplitKeeps DEF FindZeroRuns
<1>7. CASE TryCandidate BY <1>7, TryCandidateKeeps DEF FindZeroRuns
<1>8. CASE BacktrackIdeal BY <1>8, BacktrackIdealKeeps DEF FindZeroRuns
<1>9. CASE Exhaust BY <1>9, ExhaustKeeps DEF FindZeroRuns
<1> QED
  BY <1>1, <1>2, <1>3, <1>4, <1>5, <1>6, <1>7, <1>8, <1>9 DEF FindZeroRuns, FindZeroStep

-----------------------------------------------------------------------------
(* The depth-first search.                                                 *)

(* A conflict, or the whole ring: the search starts afresh.                 *)
LEMMA ConflictKeeps ==
    ASSUME IInv, NEW f, Conflict(f)
    PROVE  IInv'
BY MoveKeeps DEF Conflict

(* The brancher the rule picks, after the saved phase.                      *)
LEMMA PickedSound ==
    ASSUME problem \in Problems, NEW at \in PartialPointsOf(problem), ~Total(at),
           NEW b \in ApplyRule(at)
    PROVE  LET f == [NewFrame(at) EXCEPT !.brancher = PhaseSaved(b)]
           IN  /\ f \in SoundFrames(problem) /\ f.brancher # None
               /\ \A z \in AllZeros(problem) : Extends(z, at) => Leads(f, z)
<1>1. DOMAIN at \in SUBSET problem.vars
  BY DEF PartialPointsOf
<1>2. Sound(b) /\ \A z \in ZerosAt(at) : Reaches(b, z)
  BY <1>1, ApplyRuleSound
<1>3. Sound(PhaseSaved(b)) /\ \A z : Reaches(b, z) => Reaches(PhaseSaved(b), z)
  BY <1>2, PhaseSavedKeeps
<1>4. NewFrame(at) \in SoundFrames(problem) /\ NewFrame(at).at = at
  BY NewFrameSound
<1>5. PhaseSaved(b) # None
  BY <1>3, NoneIsNoBrancher
<1> DEFINE d == PhaseSaved(b)
           f == [NewFrame(at) EXCEPT !.brancher = d]
<1> HIDE DEF d
<1>6. /\ f \in SoundFrames(problem) /\ f.brancher = d
      /\ \A z : Extends(z, at) /\ Reaches(d, z) => Leads(f, z)
  BY <1>3, <1>4, BranchFrameSound DEF d
<1>7. \A z \in AllZeros(problem) : Extends(z, at) => Reaches(d, z)
  BY <1>2, <1>3, ZerosAtAre DEF d
<1> HIDE DEF f
<1> QED BY <1>5, <1>6, <1>7 DEF d, f

LEMMA RootKeeps ==
    ASSUME IInv, Root
    PROVE  IInv'
<1>1. problem \in Problems
  BY DEF IInv, Shape
<1>2. /\ Nowhere \in PartialPointsOf(problem) /\ DOMAIN Nowhere = {}
      /\ \A z : Extends(z, Nowhere)
  BY NowhereSound
<1>3. CASE ZerosAt(Nowhere) = {} /\ Answer(Unsat(Inputs))
  <2>1. AllZeros(problem) = {}
    BY <1>2, <1>3, ZerosAtAre
  <2> QED BY <1>3, <2>1, InputsRight, AnswerKeeps
<1>4. CASE Conflict(One)
  BY <1>4, ConflictKeeps
<1>5. CASE Total(Nowhere) /\ ZerosAt(Nowhere) # {} /\ Answer(Verified(Nowhere))
  <2>1. Nowhere \in AllZeros(problem)
    BY <1>2, <1>5, TotalZero
  <2> QED BY <1>5, <2>1, VerifiedRight, AnswerKeeps
<1>6. CASE /\ ~Total(Nowhere) /\ pc' = "dfs"
           /\ \E b \in ApplyRule(Nowhere) :
                stack' = <<[NewFrame(Nowhere) EXCEPT !.brancher = PhaseSaved(b)]>>
           /\ UNCHANGED <<problem, bounded, cancelled, outcome, unsplit, misled, searchVars>>
  <2>1. PICK b \in ApplyRule(Nowhere) :
           stack' = <<[NewFrame(Nowhere) EXCEPT !.brancher = PhaseSaved(b)]>>
    BY <1>6
  <2> DEFINE f == [NewFrame(Nowhere) EXCEPT !.brancher = PhaseSaved(b)]
  <2>2. /\ f \in SoundFrames(problem) /\ f.brancher # None
        /\ \A z \in AllZeros(problem) : Extends(z, Nowhere) => Leads(f, z)
    BY <1>1, <1>2, <1>6, PickedSound
  <2>3. stack' = <<f>>
    BY <2>1
  <2> HIDE DEF f
  <2>4. /\ stack' \in Seq(SoundFrames(problem))
        /\ \A i \in DOMAIN stack' : stack'[i].brancher # None
        /\ \A z \in AllZeros(problem) : Near(z, stack', bounded')
    BY <1>2, <2>2, <2>3, StartStack
  <2>5. /\ pc' = "dfs" /\ problem' = problem /\ bounded' = bounded
        /\ cancelled' = cancelled /\ misled' = misled
        /\ nogoods' = nogoods /\ answer' = answer
    BY <1>6 DEF searchVars
  <2>6. Shape(problem, pc, stack, bounded, cancelled, misled)'
    BY <2>4, <2>5 DEF IInv, Shape
  <2>7. Lossless(problem, pc, stack, bounded, misled)'
    BY <2>4, <2>5 DEF Lossless
  <2> QED BY <2>5, <2>6, <2>7 DEF IInv
<1> QED BY <1>3, <1>4, <1>5, <1>6 DEF Root

(* The search ran out: every zero was met, or a node's candidates were not  *)
(* all there are.                                                           *)
LEMMA NoZeroKeeps ==
    ASSUME IInv, NoZero
    PROVE  IInv'
<1> DEFINE a == IF bounded THEN Unknown ELSE Unsat(Inputs)
<1>1. DOMAIN stack = {} /\ pc = "dfs" /\ Answer(a)
  BY DEF NoZero, InSearch
<1>2. bounded \/ AllZeros(problem) = {}
  BY <1>1 DEF IInv, Lossless, Near
<1>3. CASE bounded
  <2>1. ~problem.small
    BY <1>3 DEF IInv, Shape
  <2>2. RightAnswer(problem, cancelled, misled, Unknown)
    BY <2>1 DEF RightAnswer, Unknown
  <2> QED BY <1>1, <1>3, <2>2, AnswerKeeps
<1>4. CASE ~bounded
  BY <1>1, <1>2, <1>4, InputsRight, AnswerKeeps
<1> QED BY <1>3, <1>4

LEMMA BacktrackKeeps ==
    ASSUME IInv, Backtrack
    PROVE  IInv'
<1>1. /\ pc = "dfs" /\ stack # <<>> /\ Top.brancher.left = <<>>
      /\ stack' = Pop /\ bounded' = (bounded \/ ~Top.brancher.exhaustive)
      /\ UNCHANGED <<problem, pc, cancelled, misled, nogoods, answer>>
  BY DEF Backtrack, InSearch
<1>2. \A i \in DOMAIN stack : stack[i].brancher # None
  BY <1>1 DEF IInv, Shape
<1>3. Top.brancher # None
  BY <1>1, <1>2, TopIs
<1>4. /\ bounded' \in BOOLEAN /\ (bounded' => ~problem.small)
      /\ \A z : Near(z, stack, bounded) => Near(z, stack', bounded')
  BY <1>1, <1>3, OutOfCandidates
<1>5. /\ stack' \in Seq(SoundFrames(problem))
      /\ \A i \in DOMAIN stack' : stack'[i].brancher # None
  BY <1>1, <1>2, PopTop
<1>6. \A z \in AllZeros(problem) : Near(z, stack, bounded)
  BY <1>1 DEF IInv, Lossless
<1>7. Barren(problem, nogoods')
  BY <1>1 DEF IInv
<1>8. \A z \in AllZeros(problem) : Near(z, stack', bounded')
  BY <1>4, <1>6
<1> QED BY <1>1, <1>4, <1>5, <1>7, <1>8, SearchKeeps

(* The candidate is taken: a zero the stack no longer leads to extends it.  *)
LEMMA TakenKeeps ==
    ASSUME IInv, HasCandidate
    PROVE  /\ Taken \in Seq(SoundFrames(problem))
           /\ \A i \in DOMAIN Taken : Taken[i].brancher # None
           /\ NewAt \in PartialPointsOf(problem)
           /\ \A z \in AllZeros(problem) : Near(z, Taken, bounded) \/ Extends(z, NewAt)
<1> DEFINE c == Candidate
           g == [at |-> Top.at, brancher |-> WithoutLast(Top.brancher), last |-> c]
<1>1. pc = "dfs" /\ stack # <<>> /\ Top.brancher.left # <<>>
  BY DEF HasCandidate, InSearch
<1>2. \A i \in DOMAIN stack : stack[i].brancher # None
  BY <1>1 DEF IInv, Shape
<1>3. /\ Top \in SoundFrames(problem) /\ Top = stack[Len(stack)] /\ problem \in Problems
      /\ stack \in Seq(SoundFrames(problem)) /\ Top.brancher # None
      /\ Sound(Top.brancher)
      /\ Top = [at |-> Top.at, brancher |-> Top.brancher, last |-> Top.last]
  BY <1>1, <1>2, TopIs
<1>4. c \in problem.vars \X problem.values
  BY <1>1, <1>3, WithoutLastKeeps DEF Candidate
<1>5. /\ g \in SoundFrames(problem) /\ g.brancher # None
      /\ NewAt \in PartialPointsOf(problem)
      /\ \A z : Leads(Top, z) => Leads(g, z) \/ Extends(z, NewAt)
  BY <1>1, <1>3, <1>4, TakeKeeps DEF NewAt, Candidate
<1>6. Taken = [stack EXCEPT ![Len(stack)] = g]
  BY DEF Taken
<1> HIDE DEF g, c
<1>7. /\ Taken \in Seq(SoundFrames(problem)) /\ DOMAIN Taken = DOMAIN stack
      /\ \A i \in DOMAIN Taken : Taken[i] = g \/ Taken[i] = stack[i]
      /\ \A z, bnd : Near(z, stack, bnd) => Near(z, Taken, bnd) \/ Leads(Top, z)
      /\ \A z, bnd : Leads(g, z) => Near(z, Taken, bnd)
  BY <1>1, <1>3, <1>5, <1>6, PutKeeps
<1>8. \A z \in AllZeros(problem) : Near(z, stack, bounded)
  BY <1>1 DEF IInv, Lossless
<1>9. \A i \in DOMAIN Taken : Taken[i].brancher # None
  BY <1>2, <1>5, <1>7
<1>10. \A z \in AllZeros(problem) : Near(z, Taken, bounded) \/ Extends(z, NewAt)
  BY <1>5, <1>7, <1>8
<1> QED BY <1>5, <1>7, <1>9, <1>10

(* A candidate that no zero extends is passed over.                         *)
LEMMA PassOver ==
    ASSUME IInv, HasCandidate, \A z \in AllZeros(problem) : ~Extends(z, NewAt),
           stack' = Taken, Keep, Barren(problem, nogoods')
    PROVE  IInv'
<1>1. /\ Taken \in Seq(SoundFrames(problem))
      /\ \A i \in DOMAIN Taken : Taken[i].brancher # None
      /\ \A z \in AllZeros(problem) : Near(z, Taken, bounded)
  BY TakenKeeps
<1>2. /\ pc = "dfs" /\ pc' = "dfs"
      /\ UNCHANGED <<problem, bounded, cancelled, misled, answer>>
  BY DEF HasCandidate, InSearch, Keep
<1>3. bounded \in BOOLEAN /\ (bounded => ~problem.small)
  BY DEF IInv, Shape
<1> HIDE DEF Taken
<1> QED BY <1>1, <1>2, <1>3, SearchKeeps

(* A candidate that a nogood covers has no zero.                            *)
LEMMA SkipNogoodKeeps ==
    ASSUME IInv, SkipNogood
    PROVE  IInv'
<1>1. HasCandidate /\ stack' = Taken /\ nogoods' = nogoods /\ Keep
  BY DEF SkipNogood
<1>2. PICK n \in nogoods : \A v \in DOMAIN n : v \in DOMAIN NewAt /\ NewAt[v] = n[v]
  BY DEF SkipNogood, Covered
<1>3. Barren(problem, nogoods)
  BY DEF IInv
<1>4. ASSUME NEW z \in AllZeros(problem), Extends(z, NewAt) PROVE FALSE
  <2>1. Extends(z, n)
    BY <1>2, <1>4 DEF Extends
  <2> QED BY <1>3, <2>1 DEF Barren
<1> HIDE DEF NewAt
<1> QED BY <1>1, <1>3, <1>4, PassOver

LEMMA RecordNogoodKeeps ==
    ASSUME IInv, RecordNogood
    PROVE  IInv'
<1>1. HasCandidate /\ ZerosAt(NewAt) = {} /\ stack' = Taken /\ Keep
  BY DEF RecordNogood, Refuted
<1>2. \A z \in AllZeros(problem) : ~Extends(z, NewAt)
  BY <1>1, ZerosAtAre
<1>3. nogoods' = nogoods \/ nogoods' = nogoods \cup {NewAt}
  BY DEF RecordNogood, Nogood
<1>4. Barren(problem, nogoods')
  BY <1>2, <1>3 DEF IInv, Barren
<1> QED BY <1>1, <1>2, <1>4, PassOver

LEMMA ReachPointKeeps ==
    ASSUME IInv, ReachPoint
    PROVE  IInv'
<1>1. /\ HasCandidate /\ Total(NewAt) /\ ZerosAt(NewAt) # {}
      /\ Answer(Verified(NewAt))
  BY DEF ReachPoint
<1>2. NewAt \in PartialPointsOf(problem)
  BY <1>1, TakenKeeps
<1>3. NewAt \in AllZeros(problem)
  BY <1>1, <1>2, TotalZero
<1> QED BY <1>1, <1>3, VerifiedRight, AnswerKeeps

LEMMA DescendKeeps ==
    ASSUME IInv, Descend
    PROVE  IInv'
<1>1. HasCandidate /\ ~Total(NewAt) /\ nogoods' = nogoods /\ Keep
  BY DEF Descend
<1>2. PICK b \in ApplyRule(NewAt) :
         stack' = Append(Taken, [NewFrame(NewAt) EXCEPT !.brancher = PhaseSaved(b)])
  BY DEF Descend
<1>3. /\ Taken \in Seq(SoundFrames(problem)) /\ NewAt \in PartialPointsOf(problem)
      /\ \A i \in DOMAIN Taken : Taken[i].brancher # None
      /\ \A z \in AllZeros(problem) : Near(z, Taken, bounded) \/ Extends(z, NewAt)
  BY <1>1, TakenKeeps
<1> DEFINE f == [NewFrame(NewAt) EXCEPT !.brancher = PhaseSaved(b)]
<1>4. problem \in Problems
  BY DEF IInv, Shape
<1>5. /\ f \in SoundFrames(problem) /\ f.brancher # None
      /\ \A z \in AllZeros(problem) : Extends(z, NewAt) => Leads(f, z)
  <2> HIDE DEF NewAt
  <2> QED BY <1>1, <1>2, <1>3, <1>4, PickedSound
<1>6. stack' = Append(Taken, f)
  BY <1>2
<1> HIDE DEF f, Taken, NewAt
<1>7. /\ stack' \in Seq(SoundFrames(problem))
      /\ \A i \in DOMAIN stack' :
           stack'[i] = f \/ (i \in DOMAIN Taken /\ stack'[i] = Taken[i])
      /\ \A z, bnd : Near(z, Taken, bnd) \/ Leads(f, z) => Near(z, stack', bnd)
  BY <1>3, <1>5, <1>6, PushKeeps
<1>8. /\ \A i \in DOMAIN stack' : stack'[i].brancher # None
      /\ \A z \in AllZeros(problem) : Near(z, stack', bounded)
  BY <1>3, <1>5, <1>7
<1>9. /\ pc = "dfs" /\ pc' = "dfs"
      /\ UNCHANGED <<problem, bounded, cancelled, misled, answer>>
  BY <1>1 DEF HasCandidate, InSearch, Keep
<1>10. /\ bounded \in BOOLEAN /\ (bounded => ~problem.small)
       /\ Barren(problem, nogoods')
  BY <1>1 DEF IInv, Shape
<1> QED BY <1>7, <1>8, <1>9, <1>10, SearchKeeps

LEMMA CancelKeeps ==
    ASSUME IInv, Cancel
    PROVE  IInv'
<1>1. cancelled' = TRUE
      /\ UNCHANGED <<problem, pc, stack, bounded, outcome, misled, nogoods, answer>>
  BY DEF Cancel, searchVars
<1>2. Shape(problem, pc, stack, bounded, cancelled, misled)'
  BY <1>1 DEF IInv, Shape
<1>3. (pc = "found" => RightOutcome(problem, cancelled, misled, outcome))'
  BY <1>1 DEF IInv, RightOutcome
<1>4. (answer # None => RightAnswer(problem, cancelled, misled, answer))'
  BY <1>1 DEF IInv, RightAnswer
<1>5. Lossless(problem, pc, stack, bounded, misled)' /\ Barren(problem, nogoods)'
  BY <1>1 DEF IInv
<1> QED BY <1>2, <1>3, <1>4, <1>5 DEF IInv

LEMMA NothingChanges ==
    ASSUME IInv, UNCHANGED vars
    PROVE  IInv'
BY DEF vars, zeroVars, searchVars, IInv, Shape, RightOutcome, RightAnswer, Lossless, Barren

-----------------------------------------------------------------------------
(* Theorems.                                                               *)

LEMMA NextKeeps == IInv /\ [Next]_vars => IInv'
<1> SUFFICES ASSUME IInv, [Next]_vars PROVE IInv'
  OBVIOUS
<1>1. CASE GiveUp BY <1>1, GiveUpKeeps
<1>2. CASE ShortCircuit BY <1>2, ShortCircuitKeeps
<1>3. CASE RadicalMembership BY <1>3, RadicalMembershipKeeps
<1>4. CASE BuildPartitions BY <1>4, BuildPartitionsKeeps
<1>5. CASE ExtendTraced(1, "extend1", "extend2") BY <1>5, ExtendTracedKeeps
<1>6. CASE ExtendTraced(2, "extend2", "cross") BY <1>6, ExtendTracedKeeps
<1>7. CASE Cross \/ Settle BY <1>7, FixpointKeeps
<1>8. CASE Search BY <1>8, SearchStarts
<1>9. CASE Single BY <1>9, SingleKeeps
<1>10. CASE FindZeroRuns BY <1>10, FindZeroKeeps
<1>11. CASE AfterFindZero BY <1>11, AfterFindZeroKeeps
<1>12. CASE Root BY <1>12, RootKeeps
<1>13. CASE NoZero BY <1>13, NoZeroKeeps
<1>14. CASE Backtrack BY <1>14, BacktrackKeeps
<1>15. CASE SkipNogood BY <1>15, SkipNogoodKeeps
<1>16. CASE ReturnConflict
  <2>1. PICK f : Conflict(f)
    BY <1>16 DEF ReturnConflict
  <2> QED BY <2>1, ConflictKeeps
<1>17. CASE RecordNogood BY <1>17, RecordNogoodKeeps
<1>18. CASE ReachPoint BY <1>18, ReachPointKeeps
<1>19. CASE Descend BY <1>19, DescendKeeps
<1>20. CASE Cancel BY <1>20, CancelKeeps
<1>21. CASE Done BY <1>21, NothingChanges DEF Done
<1>22. CASE UNCHANGED vars BY <1>22, NothingChanges
<1>23. Step => IInv'
  BY <1>1, <1>2, <1>3, <1>4, <1>5, <1>6, <1>7, <1>8, <1>9, <1>10, <1>11, <1>12, <1>13,
     <1>14, <1>15, <1>16, <1>17, <1>18, <1>19 DEF Step
<1> QED BY <1>20, <1>21, <1>22, <1>23 DEF Next

(* The invariant above holds throughout, whatever the system of polynomials *)
(* and the settings: candidates, verdicts and nogoods of search.rs, model.rs *)
(* and brancher.rs, and the answers made from them in core.rs.              *)
THEOREM InvariantHolds == Spec => []IInv
<1>1. Init => IInv
  BY InitHolds
<1>2. IInv /\ [Next]_vars => IInv'
  BY NextKeeps
<1> QED BY <1>1, <1>2, PTL DEF Spec

(* However the search of search.rs runs, a nogood it keeps is barren: no    *)
(* zero of the system extends it, so a candidate that is skipped for it     *)
(* costs nothing (search.rs:75-79).                                         *)
THEOREM NogoodsAreBarren == Spec => []NogoodsBarren
<1>1. IInv => NogoodsBarren
  BY ZerosAtAre DEF IInv, Barren, NogoodsBarren
<1> QED BY <1>1, InvariantHolds, PTL

(* No zero is lost by the depth-first search: while it runs, every zero is  *)
(* below a candidate left on the stack or the search counts as bounded; and *)
(* find_zero does not lose all of them, unless a walk of the Lex basis      *)
(* misled it.                                                               *)
THEOREM SearchLosesNothing == Spec => []NothingLost
<1>1. IInv => NothingLost
  <2> SUFFICES ASSUME IInv PROVE NothingLost
    OBVIOUS
  <2>1. \A z : Near(z, stack, bounded) => InReach(z)
    BY DEF Near, Leads, Reaches, InReach
  <2>2. Lossless(problem, pc, stack, bounded, misled)
    BY DEF IInv
  <2> QED BY <2>1, <2>2 DEF Lossless, AllZeros, NothingLost
<1> QED BY <1>1, InvariantHolds, PTL

(* An answer of the entry points of core.rs is right, for every system over *)
(* every finite field and all settings: a model is a zero of every          *)
(* polynomial, a core is unsatisfiable with the definitions, and the solver *)
(* only gives up when it was cancelled or the field is large; unless a walk *)
(* of the Lex basis misled the search.                                      *)
THEOREM AnswersAreRight == Spec => []AnswerRight
<1>1. IInv => AnswerRight
  <2> SUFFICES ASSUME IInv, answer # None PROVE AnswerRight
    BY DEF AnswerRight
  <2>1. RightAnswer(problem, cancelled, misled, answer)
    BY DEF IInv
  <2>2. Definitions = {f \in problem.polys : f.bitsum}
    BY DefinitionsAre
  <2>3. CASE answer.kind = "sat"
    BY <2>1, <2>3 DEF RightAnswer, AllZeros, AnswerRight
  <2>4. CASE answer.kind = "unsat"
    BY <2>1, <2>2, <2>4 DEF RightAnswer, AllZeros, AnswerRight
  <2>5. CASE answer.kind \notin {"sat", "unsat"}
    BY <2>1, <2>5 DEF RightAnswer, AllZeros, AnswerRight
  <2> QED BY <2>3, <2>4, <2>5
<1> QED BY <1>1, InvariantHolds, PTL

=============================================================================
