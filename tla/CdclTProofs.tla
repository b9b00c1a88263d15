----------------------------- MODULE CdclTProofs -----------------------------
(***************************************************************************)
(* Proofs about the CDCL(T) loop (CdclT), for every formula, every theory  *)
(* that keeps its contract, any number of variables, and every choice of   *)
(* decisions, watches, restarts and theory propagations.                   *)
(*                                                                         *)
(* The invariant IInv says, beyond SolverInv of the record sat: the models *)
(* of the problem satisfy every clause of the arena and every literal of   *)
(* level 0 (Follows); every input clause is satisfied at level 0, watched, *)
(* or still to be added (Inputs); one watch of each watched clause is not  *)
(* false, unless propagate has yet to see it (Watching); the facts and the *)
(* levels of the theory are prefixes of the trail (TheoryOk, InStep); and  *)
(* what analyze has resolved so far is false and follows from the clauses  *)
(* (Analyzing).                                                            *)
(***************************************************************************)
EXTENDS CdclT, FiniteSetTheorems, TLAPS

-----------------------------------------------------------------------------
(* sat::Solver: what its operations keep in order, for any number of        *)
(* variables.                                                              *)

Fields == {"assigns", "level", "reason", "trail", "lim", "qhead", "arena", "watches",
           "heap", "conflicts", "restartStep", "lubyIdx"}

SolverType(s) ==
    /\ DOMAIN s = Fields
    /\ s.assigns \in [Vars -> {"True", "False", "Undef"}]
    /\ s.level \in [Vars -> Int]
    /\ s.reason \in [Vars -> Nat]
    /\ s.trail \in Seq(Lits)
    /\ s.lim \in Seq(Nat)
    /\ s.qhead \in Nat
    /\ s.arena \in Seq(SUBSET Lits)
    /\ s.watches \in [Lits -> SUBSET Nat]
    /\ s.heap \in SUBSET Vars

(* The trail lists the assigned literals, each variable once. *)
TrailMatches(s) ==
    /\ \A i \in 1 .. Len(s.trail) : LitValue(s, s.trail[i]) = "True"
    /\ \A i, j \in 1 .. Len(s.trail) : Var(s.trail[i]) = Var(s.trail[j]) => i = j
    /\ \A v \in Vars : s.assigns[v] # "Undef" =>
          \E i \in 1 .. Len(s.trail) : Var(s.trail[i]) = v

(* Level k starts after lim[k] literals, with its decision; the queue is at *)
(* the last level.                                                          *)
LevelsMatch(s) ==
    /\ \A k \in 1 .. Len(s.lim) : s.lim[k] < Len(s.trail) /\ s.lim[k] <= s.qhead
    /\ \A j, k \in 1 .. Len(s.lim) : j < k => s.lim[j] < s.lim[k]
    /\ \A i \in 1 .. Len(s.trail) :
          /\ LevelOf(s, s.trail[i]) \in 0 .. Len(s.lim)
          /\ \A k \in 1 .. Len(s.lim) : s.lim[k] < i <=> k <= LevelOf(s, s.trail[i])
    /\ s.qhead <= Len(s.trail)

(* Only decisions, and literals of level 0, have no reason. *)
ReasonsMatch(s) ==
    \A i \in 1 .. Len(s.trail) :
        LET l == s.trail[i]
            c == s.reason[Var(l)]
        IN  /\ c = NoClause =>
                 LevelOf(s, l) = 0 \/ \E k \in 1 .. Len(s.lim) : i = s.lim[k] + 1
            /\ c # NoClause =>
                 /\ c \in 1 .. Len(s.arena) /\ l \in s.arena[c]
                 /\ \A q \in s.arena[c] \ {l} : \E j \in 1 .. i - 1 : s.trail[j] = -q

WatchesMatch(s) ==
    \A l \in Lits : \A c \in s.watches[l] : c \in 1 .. Len(s.arena) /\ l \in s.arena[c]

SolverInv(s) ==
    SolverType(s) /\ TrailMatches(s) /\ LevelsMatch(s) /\ ReasonsMatch(s) /\ WatchesMatch(s)

(* Append, index by index. *)
LEMMA Appended ==
    ASSUME NEW S, NEW q \in Seq(S), NEW x \in S
    PROVE  /\ Len(q) \in Nat /\ Len(Append(q, x)) = Len(q) + 1
           /\ Append(q, x)[Len(q) + 1] = x
           /\ \A i \in 1 .. Len(q) : Append(q, x)[i] = q[i] /\ q[i] \in S
OBVIOUS

(* SubSeq from the front, index by index. *)
LEMMA Prefix ==
    ASSUME NEW S, NEW q \in Seq(S), NEW k \in 0 .. Len(q)
    PROVE  /\ SubSeq(q, 1, k) \in Seq(S) /\ Len(SubSeq(q, 1, k)) = k
           /\ \A i \in 1 .. k : SubSeq(q, 1, k)[i] = q[i] /\ i \in 1 .. Len(q)
OBVIOUS

(* Concatenation, index by index. *)
LEMMA Joined ==
    ASSUME NEW S, NEW q \in Seq(S), NEW z \in Seq(S)
    PROVE  /\ q \o z \in Seq(S) /\ Len(q \o z) = Len(q) + Len(z)
           /\ \A i \in 1 .. Len(q) : (q \o z)[i] = q[i]
           /\ \A i \in 1 .. Len(z) : (q \o z)[Len(q) + i] = z[i]
OBVIOUS

(* The indices up to n + 1. *)
LEMMA NextIndex ==
    ASSUME NEW n \in Nat
    PROVE  /\ n + 1 \in 1 .. n + 1
           /\ \A i \in 1 .. n : i \in 1 .. n + 1 /\ i < n + 1 /\ i # n + 1
           /\ \A i \in 1 .. n + 1 : i \in 1 .. n \/ i = n + 1
OBVIOUS

-----------------------------------------------------------------------------
(* Literals.                                                               *)

(* A literal, its variable and its negation. *)
LEMMA LitFacts ==
    ASSUME NEW l \in Lits
    PROVE  /\ Var(l) \in Vars /\ -l \in Lits /\ Var(-l) = Var(l) /\ -(-l) = l /\ -l # l
           /\ l \in Int /\ (-l > 0 <=> ~(l > 0))
           /\ \A q \in Lits : Var(q) = Var(l) => q = l \/ q = -l
BY SolverAssumption DEF Lits, Vars, Var

(* A variable as a literal. *)
LEMMA VarFacts ==
    ASSUME NEW v \in Vars
    PROVE  v \in Lits /\ -v \in Lits /\ Var(v) = v /\ Var(-v) = v
BY SolverAssumption DEF Lits, Vars, Var

(* The value of a literal, and of its negation, from assigns. *)
LEMMA Values ==
    ASSUME NEW s, SolverType(s), NEW l \in Lits
    PROVE  /\ LitValue(s, l) \in {"True", "False", "Undef"}
           /\ LitValue(s, l) = "Undef" <=> s.assigns[Var(l)] = "Undef"
           /\ LitValue(s, l) = "True" <=> s.assigns[Var(l)] = (IF l > 0 THEN "True" ELSE "False")
           /\ LitValue(s, l) = "True" <=> LitValue(s, -l) = "False"
           /\ LitValue(s, l) = "False" <=> LitValue(s, -l) = "True"
           /\ LitValue(s, l) = "Undef" <=> LitValue(s, -l) = "Undef"
<1>1. s.assigns[Var(l)] \in {"True", "False", "Undef"}
  BY LitFacts DEF SolverType
<1>2. Var(-l) = Var(l) /\ (-l > 0 <=> ~(l > 0))
  BY LitFacts
<1> QED BY <1>1, <1>2 DEF LitValue

(* A literal has a value exactly if it, or its negation, is on the trail.   *)
LEMMA OnTrail ==
    ASSUME NEW s, SolverType(s), TrailMatches(s), NEW l \in Lits
    PROVE  /\ LitValue(s, l) = "True" <=> \E i \in 1 .. Len(s.trail) : s.trail[i] = l
           /\ LitValue(s, l) = "False" <=> \E i \in 1 .. Len(s.trail) : s.trail[i] = -l
<1>1. ASSUME NEW q \in Lits, LitValue(s, q) = "True"
      PROVE  \E i \in 1 .. Len(s.trail) : s.trail[i] = q
  <2>1. Var(q) \in Vars /\ s.assigns[Var(q)] # "Undef"
    BY <1>1, LitFacts, Values
  <2>2. PICK i \in 1 .. Len(s.trail) : Var(s.trail[i]) = Var(q)
    BY <2>1 DEF TrailMatches
  <2>3. s.trail[i] \in Lits
    BY DEF SolverType
  <2>4. s.trail[i] = q \/ s.trail[i] = -q
    BY <2>2, <2>3, LitFacts
  <2>5. LitValue(s, s.trail[i]) = "True"
    BY DEF TrailMatches
  <2>6. LitValue(s, -q) = "False"
    BY <1>1, Values
  <2> QED BY <2>4, <2>5, <2>6
<1>2. \A i \in 1 .. Len(s.trail) : LitValue(s, s.trail[i]) = "True"
  BY DEF TrailMatches
<1>3. -l \in Lits /\ (LitValue(s, l) = "False" <=> LitValue(s, -l) = "True")
  BY LitFacts, Values
<1> QED BY <1>1, <1>2, <1>3

(* Lower levels come first. *)
LEMMA LevelOrder ==
    ASSUME NEW s, SolverType(s), LevelsMatch(s),
           NEW i \in 1 .. Len(s.trail), NEW j \in 1 .. Len(s.trail),
           LevelOf(s, s.trail[i]) < LevelOf(s, s.trail[j])
    PROVE  i < j
<1> DEFINE k == LevelOf(s, s.trail[j])
<1>1. k \in 1 .. Len(s.lim) /\ LevelOf(s, s.trail[i]) \in Int /\ Len(s.lim) \in Nat
  BY DEF LevelsMatch, SolverType
<1>2. s.lim[k] < j /\ ~(s.lim[k] < i)
  BY <1>1 DEF LevelsMatch
<1>3. s.lim[k] \in Nat
  BY <1>1 DEF SolverType
<1> QED BY <1>2, <1>3

(* The trail limits up to the one a backtrack to level k cuts at. *)
LEMMA LowerLims ==
    ASSUME NEW s, SolverType(s), LevelsMatch(s), NEW k \in Nat, k < DecisionLevel(s)
    PROVE  /\ DecisionLevel(s) = Len(s.lim) /\ Len(s.lim) \in Nat
           /\ k + 1 \in 1 .. Len(s.lim) /\ s.lim[k + 1] \in Nat
           /\ \A j \in 1 .. k : j \in 1 .. Len(s.lim) /\ s.lim[j] \in Nat /\ s.lim[j] < s.lim[k + 1]
<1>1. DecisionLevel(s) = Len(s.lim) /\ Len(s.lim) \in Nat
  BY DEF SolverType, DecisionLevel
<1>2. k + 1 \in 1 .. Len(s.lim)
  BY <1>1
<1>3. ASSUME NEW j \in 1 .. k
      PROVE  j \in 1 .. Len(s.lim) /\ s.lim[j] \in Nat /\ s.lim[j] < s.lim[k + 1]
  <2>1. j \in 1 .. Len(s.lim) /\ j < k + 1
    BY <1>1
  <2> QED BY <1>2, <2>1, SMTT(30) DEF SolverType, LevelsMatch
<1> QED BY <1>1, <1>2, <1>3 DEF SolverType

-----------------------------------------------------------------------------
(* enqueue: what changes, and what stays in order.                         *)

(* t is s with l added to the trail. *)
Enqueued(s, t, l, r) ==
    /\ SolverType(t)
    /\ t.trail = Append(s.trail, l) /\ t.lim = s.lim /\ t.qhead = s.qhead
    /\ t.arena = s.arena /\ t.watches = s.watches
    /\ t.assigns = [s.assigns EXCEPT ![Var(l)] = IF l > 0 THEN "True" ELSE "False"]
    /\ t.level = [s.level EXCEPT ![Var(l)] = DecisionLevel(s)]
    /\ t.reason = [s.reason EXCEPT ![Var(l)] = r]

(* Enqueue changes what Enqueued says and nothing else. *)
LEMMA EnqueueFields ==
    ASSUME NEW s, SolverType(s), NEW l \in Lits, NEW r \in Nat, NEW t, t = Enqueue(s, l, r)
    PROVE  Enqueued(s, t, l, r)
<1> DEFINE a == [s.assigns EXCEPT ![Var(l)] = IF l > 0 THEN "True" ELSE "False"]
           v == [s.level EXCEPT ![Var(l)] = DecisionLevel(s)]
           e == [s.reason EXCEPT ![Var(l)] = r]
<1>1. DOMAIN s = Fields
  BY DEF SolverType
<1>2. /\ DOMAIN t = Fields
      /\ t.trail = Append(s.trail, l) /\ t.lim = s.lim /\ t.qhead = s.qhead
      /\ t.arena = s.arena /\ t.watches = s.watches /\ t.heap = s.heap
      /\ t.assigns = a /\ t.level = v /\ t.reason = e
  BY <1>1 DEF Enqueue, Fields
<1>3. a \in [Vars -> {"True", "False", "Undef"}]
  BY DEF SolverType
<1>4. DecisionLevel(s) \in Int
  BY DEF SolverType, DecisionLevel
<1>5. v \in [Vars -> Int]
  BY <1>4 DEF SolverType
<1>6. e \in [Vars -> Nat]
  BY DEF SolverType
<1>7. t.trail \in Seq(Lits)
  BY <1>2 DEF SolverType
<1> HIDE DEF a, v, e
<1>8. SolverType(t)
  BY <1>2, <1>3, <1>5, <1>6, <1>7 DEF SolverType
<1> QED BY <1>2, <1>8 DEF a, v, e, Enqueued

(* The new literal is true, at the current level; no other literal changes. *)
LEMMA EnqueueValues ==
    ASSUME NEW s, SolverType(s), NEW l \in Lits, NEW r \in Nat, NEW t, Enqueued(s, t, l, r)
    PROVE  /\ LitValue(t, l) = "True" /\ LitValue(t, -l) = "False"
           /\ LevelOf(t, l) = DecisionLevel(s) /\ t.reason[Var(l)] = r
           /\ DecisionLevel(t) = DecisionLevel(s)
           /\ \A q \in Lits : Var(q) # Var(l) =>
                 /\ LitValue(t, q) = LitValue(s, q)
                 /\ LevelOf(t, q) = LevelOf(s, q)
                 /\ t.reason[Var(q)] = s.reason[Var(q)]
<1>1. /\ SolverType(t) /\ t.lim = s.lim
      /\ t.assigns = [s.assigns EXCEPT ![Var(l)] = IF l > 0 THEN "True" ELSE "False"]
      /\ t.level = [s.level EXCEPT ![Var(l)] = DecisionLevel(s)]
      /\ t.reason = [s.reason EXCEPT ![Var(l)] = r]
  BY DEF Enqueued
<1>2. Var(l) \in Vars
  BY LitFacts
<1>3. t.assigns[Var(l)] = IF l > 0 THEN "True" ELSE "False"
  BY <1>1, <1>2 DEF SolverType
<1>4. LitValue(t, l) = "True" /\ LitValue(t, -l) = "False"
  BY <1>1, <1>3, Values
<1>5. LevelOf(t, l) = DecisionLevel(s) /\ t.reason[Var(l)] = r
  BY <1>1, <1>2 DEF SolverType, LevelOf
<1>6. ASSUME NEW q \in Lits, Var(q) # Var(l)
      PROVE  /\ LitValue(t, q) = LitValue(s, q) /\ LevelOf(t, q) = LevelOf(s, q)
             /\ t.reason[Var(q)] = s.reason[Var(q)]
  <2>1. Var(q) \in Vars
    BY LitFacts
  <2>2. /\ t.assigns[Var(q)] = s.assigns[Var(q)] /\ t.level[Var(q)] = s.level[Var(q)]
        /\ t.reason[Var(q)] = s.reason[Var(q)]
    BY <1>1, <1>6, <2>1 DEF SolverType
  <2> QED BY <2>2 DEF LitValue, LevelOf
<1> QED BY <1>1, <1>4, <1>5, <1>6 DEF DecisionLevel

(* An open literal may be enqueued as a decision of a new level (see        *)
(* Decide), at level 0, or with a clause that makes it true.                *)
LEMMA EnqueueTrail ==
    ASSUME NEW s, SolverType(s), TrailMatches(s), NEW l \in Lits,
           NEW r \in Nat, NEW t, Enqueued(s, t, l, r), LitValue(s, l) = "Undef"
    PROVE  TrailMatches(t)
<1> DEFINE n == Len(s.trail)
<1>1. /\ SolverType(t) /\ t.trail = Append(s.trail, l)
      /\ t.assigns = [s.assigns EXCEPT ![Var(l)] = IF l > 0 THEN "True" ELSE "False"]
  BY DEF Enqueued
<1>2. /\ LitValue(t, l) = "True"
      /\ \A q \in Lits : Var(q) # Var(l) => LitValue(t, q) = LitValue(s, q)
  BY EnqueueValues
<1>3. /\ n \in Nat /\ Len(t.trail) = n + 1 /\ t.trail[n + 1] = l
      /\ \A i \in 1 .. n : t.trail[i] = s.trail[i] /\ s.trail[i] \in Lits
  BY <1>1 DEF SolverType
<1>4. \A i \in 1 .. n : Var(s.trail[i]) # Var(l)
  <2> SUFFICES ASSUME NEW i \in 1 .. n, Var(s.trail[i]) = Var(l) PROVE FALSE
    OBVIOUS
  <2>1. s.trail[i] = l \/ s.trail[i] = -l
    BY <1>3, LitFacts
  <2>2. LitValue(s, s.trail[i]) = "True"
    BY DEF TrailMatches
  <2> QED BY <2>1, <2>2, Values
<1>5. \A i \in 1 .. n + 1 : i \in 1 .. n \/ i = n + 1
  BY <1>3
<1> HIDE DEF n
<1>6. ASSUME NEW i \in 1 .. n + 1 PROVE LitValue(t, t.trail[i]) = "True"
  <2>1. CASE i = n + 1
    BY <1>2, <1>3, <2>1
  <2>2. CASE i \in 1 .. n
    BY <1>2, <1>3, <1>4, <2>2 DEF TrailMatches, n
  <2> QED BY <1>5, <2>1, <2>2
<1>7. ASSUME NEW i \in 1 .. n + 1, NEW j \in 1 .. n + 1, Var(t.trail[i]) = Var(t.trail[j])
      PROVE  i = j
  <2>1. CASE i = n + 1 /\ j \in 1 .. n
    BY <1>3, <1>4, <1>7, <2>1
  <2>2. CASE j = n + 1 /\ i \in 1 .. n
    BY <1>3, <1>4, <1>7, <2>2
  <2>3. CASE i \in 1 .. n /\ j \in 1 .. n
    BY <1>3, <1>7, <2>3 DEF TrailMatches, n
  <2> QED BY <1>5, <2>1, <2>2, <2>3
<1>8. ASSUME NEW v \in Vars, t.assigns[v] # "Undef"
      PROVE  \E i \in 1 .. n + 1 : Var(t.trail[i]) = v
  <2>1. CASE v = Var(l)
    <3>1. n + 1 \in 1 .. n + 1
      BY <1>3
    <3> QED BY <1>3, <2>1, <3>1
  <2>2. CASE v # Var(l)
    <3>1. s.assigns[v] # "Undef"
      BY <1>1, <1>8, <2>2 DEF SolverType
    <3>2. PICK i \in 1 .. n : Var(s.trail[i]) = v
      BY <3>1 DEF TrailMatches, n
    <3>3. i \in 1 .. n + 1
      BY <1>3
    <3> QED BY <1>3, <3>2, <3>3
  <2> QED BY <2>1, <2>2
<1> QED BY <1>3, <1>6, <1>7, <1>8 DEF TrailMatches

(* The new literal is at the last level. *)
LEMMA EnqueueLevels ==
    ASSUME NEW s, SolverType(s), TrailMatches(s), LevelsMatch(s), NEW l \in Lits,
           NEW r \in Nat, NEW t, Enqueued(s, t, l, r), LitValue(s, l) = "Undef"
    PROVE  LevelsMatch(t)
<1> DEFINE n == Len(s.trail)
<1>1. SolverType(t) /\ t.trail = Append(s.trail, l) /\ t.lim = s.lim /\ t.qhead = s.qhead
  BY DEF Enqueued
<1>2. /\ LevelOf(t, l) = DecisionLevel(s)
      /\ \A q \in Lits : Var(q) # Var(l) => LevelOf(t, q) = LevelOf(s, q)
  BY EnqueueValues
<1>3. TrailMatches(t)
  BY EnqueueTrail
<1>4. /\ n \in Nat /\ Len(t.trail) = n + 1 /\ t.trail[n + 1] = l
      /\ \A i \in 1 .. n : t.trail[i] = s.trail[i] /\ s.trail[i] \in Lits
      /\ n + 1 \in 1 .. n + 1 /\ \A i \in 1 .. n : i \in 1 .. n + 1
      /\ \A i \in 1 .. n + 1 : i \in 1 .. n \/ i = n + 1
  BY <1>1 DEF SolverType
<1>5. Len(s.lim) \in Nat /\ \A k \in 1 .. Len(s.lim) : s.lim[k] \in Nat
  BY DEF SolverType
<1>6. \A i \in 1 .. n : Var(s.trail[i]) # Var(l)
  <2> SUFFICES ASSUME NEW i \in 1 .. n, Var(s.trail[i]) = Var(l) PROVE FALSE
    OBVIOUS
  <2>1. i = n + 1
    BY <1>3, <1>4 DEF TrailMatches
  <2> QED BY <1>4, <2>1
<1>7. ASSUME NEW i \in 1 .. n + 1
      PROVE  /\ LevelOf(t, t.trail[i]) \in 0 .. Len(s.lim)
             /\ \A k \in 1 .. Len(s.lim) : s.lim[k] < i <=> k <= LevelOf(t, t.trail[i])
  <2>1. CASE i \in 1 .. n
    <3>1. t.trail[i] = s.trail[i] /\ LevelOf(t, t.trail[i]) = LevelOf(s, s.trail[i])
      BY <1>2, <1>4, <1>6, <2>1
    <3> QED BY <2>1, <3>1 DEF LevelsMatch
  <2>2. CASE i = n + 1
    <3>1. LevelOf(t, t.trail[i]) = Len(s.lim)
      BY <1>2, <1>4, <2>2 DEF DecisionLevel
    <3>2. \A k \in 1 .. Len(s.lim) : s.lim[k] < n
      BY DEF LevelsMatch
    <3> QED BY <1>4, <1>5, <2>2, <3>1, <3>2
  <2> QED BY <1>4, <2>1, <2>2
<1>8. /\ \A k \in 1 .. Len(s.lim) : s.lim[k] < n + 1 /\ s.lim[k] <= s.qhead
      /\ s.qhead <= n + 1 /\ s.qhead \in Nat
  BY <1>4, <1>5, SMTT(30) DEF LevelsMatch, SolverType
<1>9. \A j, k \in 1 .. Len(s.lim) : j < k => s.lim[j] < s.lim[k]
  BY DEF LevelsMatch
<1> HIDE DEF n
<1> QED BY <1>1, <1>4, <1>7, <1>8, <1>9 DEF LevelsMatch

(* The clause that makes l true: it contains l, and the rest is false. *)
Forces(s, c, l) ==
    /\ c \in 1 .. Len(s.arena) /\ l \in s.arena[c]
    /\ \A q \in s.arena[c] \ {l} : LitValue(s, q) = "False"

(* A reason that forces its literal is a reason on the longer trail. *)
LEMMA EnqueueReasons ==
    ASSUME NEW s, SolverType(s), TrailMatches(s), LevelsMatch(s), ReasonsMatch(s),
           NEW l \in Lits, NEW r \in Nat, NEW t, Enqueued(s, t, l, r),
           LitValue(s, l) = "Undef",
           r = NoClause => DecisionLevel(s) = 0,
           r # NoClause => Forces(s, r, l)
    PROVE  ReasonsMatch(t)
<1> DEFINE n == Len(s.trail)
<1>1. SolverType(t) /\ t.trail = Append(s.trail, l) /\ t.lim = s.lim /\ t.arena = s.arena
  BY DEF Enqueued
<1>2. /\ LevelOf(t, l) = DecisionLevel(s) /\ t.reason[Var(l)] = r
      /\ \A q \in Lits : Var(q) # Var(l) => /\ LevelOf(t, q) = LevelOf(s, q)
                                           /\ t.reason[Var(q)] = s.reason[Var(q)]
  BY EnqueueValues
<1>3. TrailMatches(t)
  BY EnqueueTrail
<1>4. /\ n \in Nat /\ Len(t.trail) = n + 1 /\ t.trail[n + 1] = l
      /\ \A i \in 1 .. n : t.trail[i] = s.trail[i] /\ s.trail[i] \in Lits
      /\ n + 1 \in 1 .. n + 1 /\ \A i \in 1 .. n : i \in 1 .. n + 1
      /\ \A i \in 1 .. n + 1 : i \in 1 .. n \/ i = n + 1
      /\ (n + 1) - 1 = n /\ \A i \in 1 .. n : \A j \in 1 .. i - 1 : j \in 1 .. n
  BY <1>1 DEF SolverType
<1>5. \A i \in 1 .. n : Var(s.trail[i]) # Var(l)
  <2> SUFFICES ASSUME NEW i \in 1 .. n, Var(s.trail[i]) = Var(l) PROVE FALSE
    OBVIOUS
  <2>1. i = n + 1
    BY <1>3, <1>4 DEF TrailMatches
  <2> QED BY <1>4, <2>1
<1> DEFINE Good(i) ==
        LET q == t.trail[i]
            c == t.reason[Var(q)]
        IN  /\ c = NoClause =>
                 LevelOf(t, q) = 0 \/ \E k \in 1 .. Len(t.lim) : i = t.lim[k] + 1
            /\ c # NoClause =>
                 /\ c \in 1 .. Len(t.arena) /\ q \in t.arena[c]
                 /\ \A p \in t.arena[c] \ {q} : \E j \in 1 .. i - 1 : t.trail[j] = -p
<1>6. ASSUME NEW i \in 1 .. n PROVE Good(i)
  <2>1. /\ t.trail[i] = s.trail[i] /\ LevelOf(t, t.trail[i]) = LevelOf(s, s.trail[i])
        /\ t.reason[Var(t.trail[i])] = s.reason[Var(s.trail[i])]
    BY <1>2, <1>4, <1>5
  <2>2. \A j \in 1 .. i - 1 : t.trail[j] = s.trail[j]
    BY <1>4
  <2>3. LET q == s.trail[i]
            c == s.reason[Var(q)]
        IN  /\ c = NoClause =>
                 LevelOf(s, q) = 0 \/ \E k \in 1 .. Len(s.lim) : i = s.lim[k] + 1
            /\ c # NoClause =>
                 /\ c \in 1 .. Len(s.arena) /\ q \in s.arena[c]
                 /\ \A p \in s.arena[c] \ {q} : \E j \in 1 .. i - 1 : s.trail[j] = -p
    BY DEF ReasonsMatch
  <2> QED BY <1>1, <2>1, <2>2, <2>3
<1>7. Good(n + 1)
  <2>1. t.trail[n + 1] = l /\ t.reason[Var(l)] = r /\ LevelOf(t, l) = DecisionLevel(s)
    BY <1>2, <1>4
  <2>2. CASE r = NoClause
    BY <2>1, <2>2
  <2>3. CASE r # NoClause
    <3>1. Forces(s, r, l)
      BY <2>3
    <3>2. ASSUME NEW p \in s.arena[r] \ {l} PROVE \E j \in 1 .. n : t.trail[j] = -p
      <4>1. p \in Lits /\ LitValue(s, p) = "False"
        BY <3>1 DEF Forces, SolverType
      <4>2. PICK j \in 1 .. n : s.trail[j] = -p
        BY <4>1, OnTrail
      <4> QED BY <1>4, <4>2
    <3> QED BY <1>1, <1>4, <2>1, <2>3, <3>1, <3>2 DEF Forces
  <2> QED BY <2>2, <2>3
<1>8. \A i \in 1 .. Len(t.trail) : Good(i)
  BY <1>4, <1>6, <1>7
<1> QED BY <1>8 DEF ReasonsMatch

(* enqueue keeps the solver in order. *)
LEMMA EnqueueKeeps ==
    ASSUME NEW s, SolverInv(s), NEW l \in Lits, NEW r \in Nat, NEW t, Enqueued(s, t, l, r),
           LitValue(s, l) = "Undef",
           r = NoClause => DecisionLevel(s) = 0,
           r # NoClause => Forces(s, r, l)
    PROVE  SolverInv(t)
<1>1. SolverType(t) /\ t.arena = s.arena /\ t.watches = s.watches
  BY DEF SolverInv, Enqueued
<1>2. TrailMatches(t) /\ LevelsMatch(t) /\ ReasonsMatch(t)
  BY EnqueueTrail, EnqueueLevels, EnqueueReasons DEF SolverInv
<1>3. WatchesMatch(t)
  BY <1>1 DEF WatchesMatch, SolverInv
<1> QED BY <1>1, <1>2, <1>3 DEF SolverInv

-----------------------------------------------------------------------------
(* Steps that leave the trail, its reasons and the clauses alone.          *)

Same(s, t) ==
    /\ DOMAIN t = Fields
    /\ t.assigns = s.assigns /\ t.level = s.level /\ t.reason = s.reason
    /\ t.trail = s.trail /\ t.lim = s.lim /\ t.qhead = s.qhead
    /\ t.arena = s.arena /\ t.watches = s.watches /\ t.heap \in SUBSET Vars

(* Values and levels depend on assigns and level alone. *)
LEMMA SameValues ==
    ASSUME NEW s, NEW t, t.assigns = s.assigns, t.level = s.level
    PROVE  \A l : LitValue(t, l) = LitValue(s, l) /\ LevelOf(t, l) = LevelOf(s, l)
BY DEF LitValue, LevelOf

(* The solver invariant does not look at the heap or the counters. *)
LEMMA SameKeeps ==
    ASSUME NEW s, SolverInv(s), NEW t, Same(s, t)
    PROVE  SolverInv(t)
<1>1. SolverType(t)
  BY DEF SolverInv, SolverType, Same
<1>2. \A l : LitValue(t, l) = LitValue(s, l) /\ LevelOf(t, l) = LevelOf(s, l)
  BY SameValues DEF Same
<1>3. /\ t.assigns = s.assigns /\ t.reason = s.reason /\ t.trail = s.trail /\ t.lim = s.lim
      /\ t.qhead = s.qhead /\ t.arena = s.arena /\ t.watches = s.watches
  BY DEF Same
<1>4. TrailMatches(t)
  BY <1>2, <1>3 DEF TrailMatches, SolverInv
<1>5. LevelsMatch(t)
  BY <1>2, <1>3 DEF LevelsMatch, SolverInv
<1>6. ReasonsMatch(t)
  BY <1>2, <1>3 DEF ReasonsMatch, SolverInv
<1>7. WatchesMatch(t)
  BY <1>3 DEF WatchesMatch, SolverInv
<1> QED BY <1>1, <1>4, <1>5, <1>6, <1>7 DEF SolverInv

-----------------------------------------------------------------------------
(* A decision opens a level.                                               *)

Decided(s, t, l) ==
    /\ t.trail = Append(s.trail, l) /\ t.lim = Append(s.lim, Len(s.trail))
    /\ t.qhead = s.qhead /\ t.arena = s.arena /\ t.watches = s.watches
    /\ LitValue(t, l) = "True" /\ LitValue(t, -l) = "False"
    /\ LevelOf(t, l) = DecisionLevel(s) + 1
    /\ \A q \in Lits : Var(q) # Var(l) =>
          /\ LitValue(t, q) = LitValue(s, q) /\ LevelOf(t, q) = LevelOf(s, q)
          /\ t.reason[Var(q)] = s.reason[Var(q)]

(* Decide opens a level and assigns its literal. *)
LEMMA DecideFields ==
    ASSUME NEW s, SolverType(s), TrailMatches(s), NEW l \in Lits, LitValue(s, l) = "Undef",
           NEW t, t = Decide(s, l)
    PROVE  /\ SolverType(t) /\ TrailMatches(t) /\ Decided(s, t, l)
           /\ t.reason[Var(l)] = NoClause
<1> DEFINE u == [s EXCEPT !.lim = Append(@, Len(s.trail))]
<1>1. DOMAIN s = Fields
  BY DEF SolverType
<1>2. /\ DOMAIN u = Fields
      /\ u.assigns = s.assigns /\ u.level = s.level /\ u.reason = s.reason
      /\ u.trail = s.trail /\ u.lim = Append(s.lim, Len(s.trail)) /\ u.qhead = s.qhead
      /\ u.arena = s.arena /\ u.watches = s.watches /\ u.heap = s.heap
  BY <1>1 DEF Fields
<1>3. t = Enqueue(u, l, NoClause)
  BY DEF Decide
<1> HIDE DEF u
<1>4. Len(s.trail) \in Nat /\ Append(s.lim, Len(s.trail)) \in Seq(Nat)
  BY DEF SolverType
<1>5. SolverType(u)
  BY <1>2, <1>4 DEF SolverType
<1>6. \A q : LitValue(u, q) = LitValue(s, q) /\ LevelOf(u, q) = LevelOf(s, q)
  BY <1>2, SameValues
<1>7. TrailMatches(u)
  BY <1>2, <1>6 DEF TrailMatches
<1>8. Enqueued(u, t, l, NoClause)
  BY <1>3, <1>5, EnqueueFields DEF NoClause
<1>9. SolverType(t) /\ TrailMatches(t)
  BY <1>5, <1>6, <1>7, <1>8, EnqueueTrail DEF Enqueued, NoClause
<1>10. /\ LitValue(t, l) = "True" /\ LitValue(t, -l) = "False"
       /\ LevelOf(t, l) = DecisionLevel(u) /\ t.reason[Var(l)] = NoClause
       /\ \A q \in Lits : Var(q) # Var(l) =>
             /\ LitValue(t, q) = LitValue(u, q)
             /\ LevelOf(t, q) = LevelOf(u, q)
             /\ t.reason[Var(q)] = u.reason[Var(q)]
  BY <1>5, <1>8, EnqueueValues DEF NoClause
<1>11. DecisionLevel(u) = DecisionLevel(s) + 1
  BY <1>2, <1>4 DEF DecisionLevel, SolverType
<1>12. /\ t.trail = Append(s.trail, l) /\ t.lim = Append(s.lim, Len(s.trail))
       /\ t.qhead = s.qhead /\ t.arena = s.arena /\ t.watches = s.watches
  BY <1>2, <1>8 DEF Enqueued
<1> QED BY <1>2, <1>6, <1>9, <1>10, <1>11, <1>12 DEF Decided

(* The new level starts after the old trail. *)
LEMMA DecideLevels ==
    ASSUME NEW s, SolverType(s), LevelsMatch(s), NEW l \in Lits,
           s.qhead = Len(s.trail), NEW t, SolverType(t), TrailMatches(t), Decided(s, t, l)
    PROVE  LevelsMatch(t)
<1> DEFINE n == Len(s.trail)
           d == Len(s.lim)
<1>1. t.trail = Append(s.trail, l) /\ t.lim = Append(s.lim, n) /\ t.qhead = n
  BY DEF Decided
<1>2. /\ LevelOf(t, l) = d + 1
      /\ \A q \in Lits : Var(q) # Var(l) => LevelOf(t, q) = LevelOf(s, q)
  BY DEF Decided, DecisionLevel
<1>3. /\ n \in Nat /\ Len(t.trail) = n + 1 /\ t.trail[n + 1] = l
      /\ \A i \in 1 .. n : t.trail[i] = s.trail[i] /\ s.trail[i] \in Lits
  BY <1>1, Appended DEF SolverType
<1>4. /\ d \in Nat /\ Len(t.lim) = d + 1 /\ t.lim[d + 1] = n
      /\ \A k \in 1 .. d : t.lim[k] = s.lim[k] /\ s.lim[k] \in Nat
  BY <1>1, <1>3, Appended, SMTT(30) DEF SolverType
<1>5. \A i \in 1 .. n : Var(s.trail[i]) # Var(l)
  <2> SUFFICES ASSUME NEW i \in 1 .. n, Var(s.trail[i]) = Var(l) PROVE FALSE
    OBVIOUS
  <2>1. i \in 1 .. n + 1 /\ n + 1 \in 1 .. n + 1
    BY <1>3
  <2>2. i = n + 1
    BY <1>3, <2>1 DEF TrailMatches
  <2> QED BY <1>3, <2>2
<1>6. \A k \in 1 .. d : s.lim[k] < n
  BY DEF LevelsMatch
<1>7. \A j, k \in 1 .. d : j < k => s.lim[j] < s.lim[k]
  BY DEF LevelsMatch
<1>8. \A i \in 1 .. n : /\ LevelOf(s, s.trail[i]) \in 0 .. d
                        /\ \A k \in 1 .. d : s.lim[k] < i <=> k <= LevelOf(s, s.trail[i])
  BY DEF LevelsMatch
<1> HIDE DEF n, d
<1>9. /\ \A i \in 1 .. d + 1 : i \in 1 .. d \/ i = d + 1
      /\ \A i \in 1 .. n + 1 : i \in 1 .. n \/ i = n + 1
  BY <1>3, <1>4, NextIndex
<1>10. ASSUME NEW k \in 1 .. d + 1 PROVE t.lim[k] < n + 1 /\ t.lim[k] <= n
  BY <1>3, <1>4, <1>6, <1>9, SMTT(30)
<1>11. ASSUME NEW j \in 1 .. d + 1, NEW k \in 1 .. d + 1, j < k
      PROVE  t.lim[j] < t.lim[k]
  <2>1. j \in 1 .. d
    BY <1>4, <1>11, <1>9
  <2>2. CASE k \in 1 .. d
    BY <1>4, <1>7, <1>11, <2>1, <2>2
  <2>3. CASE k = d + 1
    BY <1>4, <1>6, <2>1, <2>3
  <2> QED BY <1>9, <2>2, <2>3
<1>12. ASSUME NEW i \in 1 .. n + 1
       PROVE  /\ LevelOf(t, t.trail[i]) \in 0 .. d + 1
              /\ \A k \in 1 .. d + 1 : t.lim[k] < i <=> k <= LevelOf(t, t.trail[i])
  <2>1. CASE i \in 1 .. n
    <3> DEFINE v == LevelOf(t, t.trail[i])
    <3>1. t.trail[i] = s.trail[i] /\ v = LevelOf(s, s.trail[i])
      BY <1>2, <1>3, <1>5, <2>1
    <3>2. v \in 0 .. d /\ \A k \in 1 .. d : s.lim[k] < i <=> k <= v
      BY <1>8, <2>1, <3>1
    <3> HIDE DEF v
    <3>3. v \in 0 .. d + 1 /\ ~(d + 1 <= v) /\ ~(n < i)
      BY <1>3, <1>4, <2>1, <3>2
    <3>4. ASSUME NEW k \in 1 .. d + 1 PROVE t.lim[k] < i <=> k <= v
      <4>1. CASE k \in 1 .. d
        BY <1>4, <3>2, <4>1
      <4>2. CASE k = d + 1
        BY <1>4, <3>3, <4>2
      <4> QED BY <1>9, <4>1, <4>2
    <3> QED BY <3>3, <3>4 DEF v
  <2>2. CASE i = n + 1
    <3>1. LevelOf(t, t.trail[i]) = d + 1
      BY <1>2, <1>3, <2>2
    <3> QED BY <1>4, <1>10, <2>2, <3>1
  <2> QED BY <1>9, <2>1, <2>2
<1>13. n <= n + 1
  BY <1>3
<1> QED BY <1>1, <1>3, <1>4, <1>10, <1>11, <1>12, <1>13 DEF LevelsMatch

(* A decision at a drained queue keeps the solver in order. *)
LEMMA DecideKeeps ==
    ASSUME NEW s, SolverInv(s), NEW l \in Lits, LitValue(s, l) = "Undef",
           s.qhead = Len(s.trail), NEW t, t = Decide(s, l)
    PROVE  SolverInv(t) /\ Decided(s, t, l)
<1>1. SolverType(s) /\ TrailMatches(s) /\ LevelsMatch(s)
  BY DEF SolverInv
<1>2. /\ SolverType(t) /\ TrailMatches(t) /\ Decided(s, t, l) /\ t.reason[Var(l)] = NoClause
  BY <1>1, DecideFields
<1>3. LevelsMatch(t)
  BY <1>1, <1>2, DecideLevels
<1>4. t.arena = s.arena /\ t.watches = s.watches
  BY <1>2 DEF Decided
<1>5. WatchesMatch(t)
  BY <1>4 DEF WatchesMatch, SolverInv
<1> DEFINE n == Len(s.trail)
           d == Len(s.lim)
<1>6. /\ n \in Nat /\ Len(t.trail) = n + 1 /\ t.trail[n + 1] = l
      /\ \A i \in 1 .. n : t.trail[i] = s.trail[i] /\ s.trail[i] \in Lits
  BY <1>1, <1>2 DEF SolverType, Decided
<1>7. /\ d \in Nat /\ Len(t.lim) = d + 1 /\ t.lim[d + 1] = n
      /\ \A k \in 1 .. d : t.lim[k] = s.lim[k]
  BY <1>1, <1>2, <1>6 DEF SolverType, Decided
<1>8. \A i \in 1 .. n : Var(s.trail[i]) # Var(l)
  <2> SUFFICES ASSUME NEW i \in 1 .. n, Var(s.trail[i]) = Var(l) PROVE FALSE
    OBVIOUS
  <2>1. i \in 1 .. n + 1 /\ n + 1 \in 1 .. n + 1
    BY <1>6
  <2>2. i = n + 1
    BY <1>2, <1>6, <2>1 DEF TrailMatches
  <2> QED BY <1>6, <2>2
<1> DEFINE Good(i) ==
        LET q == t.trail[i]
            c == t.reason[Var(q)]
        IN  /\ c = NoClause =>
                 LevelOf(t, q) = 0 \/ \E k \in 1 .. Len(t.lim) : i = t.lim[k] + 1
            /\ c # NoClause =>
                 /\ c \in 1 .. Len(t.arena) /\ q \in t.arena[c]
                 /\ \A p \in t.arena[c] \ {q} : \E j \in 1 .. i - 1 : t.trail[j] = -p
<1>9. ASSUME NEW i \in 1 .. n PROVE Good(i)
  <2>1. /\ t.trail[i] = s.trail[i] /\ LevelOf(t, t.trail[i]) = LevelOf(s, s.trail[i])
        /\ t.reason[Var(t.trail[i])] = s.reason[Var(s.trail[i])]
    BY <1>2, <1>6, <1>8 DEF Decided
  <2>2. \A j \in 1 .. i - 1 : t.trail[j] = s.trail[j]
    BY <1>6
  <2>3. LET q == s.trail[i]
            c == s.reason[Var(q)]
        IN  /\ c = NoClause =>
                 LevelOf(s, q) = 0 \/ \E k \in 1 .. Len(s.lim) : i = s.lim[k] + 1
            /\ c # NoClause =>
                 /\ c \in 1 .. Len(s.arena) /\ q \in s.arena[c]
                 /\ \A p \in s.arena[c] \ {q} : \E j \in 1 .. i - 1 : s.trail[j] = -p
    BY DEF ReasonsMatch, SolverInv
  <2>4. \A k \in 1 .. Len(s.lim) : k \in 1 .. Len(t.lim) /\ t.lim[k] = s.lim[k]
    BY <1>7
  <2> QED BY <1>4, <2>1, <2>2, <2>3, <2>4, SMTT(30)
<1>10. Good(n + 1)
  <2>1. d + 1 \in 1 .. Len(t.lim) /\ n + 1 = t.lim[d + 1] + 1
    BY <1>6, <1>7
  <2> QED BY <1>2, <1>6, <2>1
<1> HIDE DEF Good, n
<1>11. \A i \in 1 .. Len(t.trail) : Good(i)
  BY <1>6, <1>9, <1>10, NextIndex
<1>12. ReasonsMatch(t)
  BY <1>11 DEF ReasonsMatch, Good
<1> QED BY <1>2, <1>3, <1>5, <1>12 DEF SolverInv

-----------------------------------------------------------------------------
(* backtrack_to a lower level.                                             *)

UndoneVars(s, keep) == {Var(s.trail[i]) : i \in (keep + 1)..Len(s.trail)}

(* t is s with the assignments above level k cancelled. *)
BackedTo(s, t, k) ==
    LET keep == s.lim[k + 1]
        undone == UndoneVars(s, keep)
    IN  /\ SolverType(t)
        /\ t.trail = SubSeq(s.trail, 1, keep) /\ t.lim = SubSeq(s.lim, 1, k)
        /\ t.qhead = keep /\ t.arena = s.arena /\ t.watches = s.watches
        /\ t.assigns = [v \in Vars |-> IF v \in undone THEN "Undef" ELSE s.assigns[v]]
        /\ t.level = [v \in Vars |-> IF v \in undone THEN -1 ELSE s.level[v]]
        /\ t.reason = [v \in Vars |-> IF v \in undone THEN NoClause ELSE s.reason[v]]

(* backtrack_to, field by field. *)
LEMMA BacktrackFields ==
    ASSUME NEW s, SolverType(s), LevelsMatch(s), NEW k \in Nat, k < DecisionLevel(s),
           NEW t, t = BacktrackTo(s, k)
    PROVE  BackedTo(s, t, k)
<1> DEFINE keep == s.lim[k + 1]
           undone == UndoneVars(s, keep)
           a == [v \in Vars |-> IF v \in undone THEN "Undef" ELSE s.assigns[v]]
           e == [v \in Vars |-> IF v \in undone THEN -1 ELSE s.level[v]]
           r == [v \in Vars |-> IF v \in undone THEN NoClause ELSE s.reason[v]]
<1>1. DOMAIN s = Fields
  BY DEF SolverType
<1>2. ~(k >= DecisionLevel(s)) /\ k + 1 \in 1 .. Len(s.lim)
  BY DEF DecisionLevel, SolverType
<1>3. t = [s EXCEPT !.assigns = a, !.level = e, !.reason = r,
                    !.heap = HeapWith(s, undone),
                    !.trail = SubSeq(s.trail, 1, keep), !.lim = SubSeq(s.lim, 1, k),
                    !.qhead = keep]
  BY <1>2, Zenon DEF BacktrackTo, UndoneVars, QheadAfter
<1> HIDE DEF a, e, r
<1>4. /\ DOMAIN t = Fields
      /\ t.trail = SubSeq(s.trail, 1, keep) /\ t.lim = SubSeq(s.lim, 1, k)
      /\ t.qhead = keep /\ t.arena = s.arena /\ t.watches = s.watches
      /\ t.assigns = a /\ t.level = e /\ t.reason = r /\ t.heap = HeapWith(s, undone)
  BY <1>1, <1>3 DEF Fields
<1>5. keep \in Nat /\ keep < Len(s.trail)
  BY <1>2 DEF LevelsMatch, SolverType
<1>6. SubSeq(s.trail, 1, keep) \in Seq(Lits) /\ SubSeq(s.lim, 1, k) \in Seq(Nat)
  <2>1. keep \in 0 .. Len(s.trail) /\ k \in 0 .. Len(s.lim)
    BY <1>2, <1>5
  <2> QED BY <2>1, Prefix DEF SolverType
<1>7. a \in [Vars -> {"True", "False", "Undef"}]
  BY DEF SolverType, a
<1>8. e \in [Vars -> Int]
  BY DEF SolverType, e
<1>9. r \in [Vars -> Nat]
  BY DEF SolverType, r, NoClause
<1>10. HeapWith(s, undone) \in SUBSET Vars
  <2>1. \A i \in keep + 1 .. Len(s.trail) : s.trail[i] \in Lits
    BY <1>5 DEF SolverType
  <2>2. undone \in SUBSET Vars
    BY <2>1, LitFacts DEF UndoneVars
  <2> QED BY <2>2 DEF HeapWith, SolverType
<1> HIDE DEF keep, undone
<1>11. SolverType(t)
  BY <1>4, <1>5, <1>6, <1>7, <1>8, <1>9, <1>10 DEF SolverType
<1> QED BY <1>4, <1>11, Zenon DEF BackedTo, a, e, r, keep, undone

(* What stays: a prefix of the trail and of the levels, and all that is at *)
(* level k or below.                                                       *)
Kept(s, t, k) ==
    /\ SolverType(t) /\ s.lim[k + 1] \in Nat /\ s.lim[k + 1] < Len(s.trail)
    /\ Len(t.trail) = s.lim[k + 1] /\ t.qhead = s.lim[k + 1]
    /\ \A i \in 1 .. Len(t.trail) : t.trail[i] = s.trail[i] /\ i \in 1 .. Len(s.trail)
    /\ Len(t.lim) = k /\ \A j \in 1 .. k : t.lim[j] = s.lim[j]
    /\ t.arena = s.arena /\ t.watches = s.watches
    /\ \A l \in Lits :
          IF LitValue(s, l) = "Undef" \/ LevelOf(s, l) > k
          THEN LitValue(t, l) = "Undef"
          ELSE /\ LitValue(t, l) = LitValue(s, l) /\ LevelOf(t, l) = LevelOf(s, l)
               /\ t.reason[Var(l)] = s.reason[Var(l)]

(* The variables undone are those assigned above level k. *)
LEMMA UndoneAbove ==
    ASSUME NEW s, SolverType(s), TrailMatches(s), LevelsMatch(s),
           NEW k \in Nat, k + 1 \in 1 .. Len(s.lim), NEW v \in Vars
    PROVE  v \in UndoneVars(s, s.lim[k + 1]) <=> s.assigns[v] # "Undef" /\ s.level[v] > k
<1> DEFINE keep == s.lim[k + 1]
           n == Len(s.trail)
<1>1. keep \in Nat /\ n \in Nat
  BY SMTT(30) DEF SolverType
<1>2. \A i \in 1 .. n : keep < i <=> k + 1 <= LevelOf(s, s.trail[i])
  BY DEF LevelsMatch
<1>3. \A i \in 1 .. n : s.trail[i] \in Lits /\ s.level[Var(s.trail[i])] \in Int
  BY LitFacts DEF SolverType
<1>4. ASSUME v \in UndoneVars(s, s.lim[k + 1])
      PROVE  s.assigns[v] # "Undef" /\ s.level[v] > k
  <2>1. PICK i \in (keep + 1) .. n : v = Var(s.trail[i])
    BY <1>4 DEF UndoneVars
  <2> HIDE DEF keep, n
  <2>2. i \in 1 .. n /\ keep < i
    BY <1>1, <2>1
  <2>3. k + 1 <= s.level[v] /\ s.level[v] \in Int
    BY <1>2, <1>3, <2>1, <2>2 DEF LevelOf
  <2>4. LitValue(s, s.trail[i]) = "True"
    BY <2>2 DEF TrailMatches, n
  <2>5. s.assigns[v] # "Undef"
    BY <1>3, <2>1, <2>2, <2>4, Values
  <2> QED BY <2>3, <2>5
<1>5. ASSUME s.assigns[v] # "Undef", s.level[v] > k
      PROVE  v \in UndoneVars(s, s.lim[k + 1])
  <2>1. PICK i \in 1 .. n : Var(s.trail[i]) = v
    BY <1>5 DEF TrailMatches
  <2> HIDE DEF keep, n
  <2>2. k + 1 <= LevelOf(s, s.trail[i])
    BY <1>3, <1>5, <2>1 DEF LevelOf
  <2>3. i \in (keep + 1) .. n
    BY <1>1, <1>2, <2>1, <2>2
  <2> QED BY <2>1, <2>3 DEF UndoneVars, keep, n
<1> QED BY <1>4, <1>5

(* What is at or below level k keeps its value, the rest loses it. *)
LEMMA BacktrackValues ==
    ASSUME NEW s, SolverType(s), TrailMatches(s), LevelsMatch(s),
           NEW k \in Nat, k < DecisionLevel(s), NEW t, t = BacktrackTo(s, k)
    PROVE  Kept(s, t, k)
<1> DEFINE keep == s.lim[k + 1]
           undone == UndoneVars(s, keep)
<1>1. BackedTo(s, t, k)
  BY BacktrackFields
<1>2. k + 1 \in 1 .. Len(s.lim)
  BY DEF DecisionLevel, SolverType
<1>3. keep \in Nat /\ keep < Len(s.trail)
  BY <1>2 DEF LevelsMatch, SolverType
<1>4. /\ SolverType(t) /\ t.qhead = keep /\ t.arena = s.arena /\ t.watches = s.watches
      /\ t.trail = SubSeq(s.trail, 1, keep) /\ t.lim = SubSeq(s.lim, 1, k)
  BY <1>1 DEF BackedTo
<1>5. /\ Len(t.trail) = keep
      /\ \A i \in 1 .. keep : t.trail[i] = s.trail[i] /\ i \in 1 .. Len(s.trail)
  <2>1. keep \in 0 .. Len(s.trail)
    BY <1>3
  <2> HIDE DEF keep
  <2> QED BY <1>4, <2>1, Prefix DEF SolverType
<1>6. Len(t.lim) = k /\ \A j \in 1 .. k : t.lim[j] = s.lim[j]
  <2>1. k \in 0 .. Len(s.lim)
    BY <1>2
  <2> QED BY <1>4, <2>1, Prefix DEF SolverType
<1>7. ASSUME NEW l \in Lits
      PROVE  IF LitValue(s, l) = "Undef" \/ LevelOf(s, l) > k
             THEN LitValue(t, l) = "Undef"
             ELSE /\ LitValue(t, l) = LitValue(s, l) /\ LevelOf(t, l) = LevelOf(s, l)
                  /\ t.reason[Var(l)] = s.reason[Var(l)]
  <2>1. Var(l) \in Vars
    BY LitFacts
  <2>2. Var(l) \in undone <=> s.assigns[Var(l)] # "Undef" /\ s.level[Var(l)] > k
    BY <1>2, <2>1, UndoneAbove
  <2>3. s.assigns[Var(l)] = "Undef" <=> LitValue(s, l) = "Undef"
    BY Values
  <2>4. /\ t.assigns[Var(l)] = IF Var(l) \in undone THEN "Undef" ELSE s.assigns[Var(l)]
        /\ t.level[Var(l)] = IF Var(l) \in undone THEN -1 ELSE s.level[Var(l)]
        /\ t.reason[Var(l)] = IF Var(l) \in undone THEN NoClause ELSE s.reason[Var(l)]
    BY <1>1, <2>1 DEF BackedTo
  <2> HIDE DEF undone
  <2>5. CASE Var(l) \in undone
    BY <2>2, <2>3, <2>4, <2>5 DEF LitValue, LevelOf
  <2>6. CASE Var(l) \notin undone /\ s.assigns[Var(l)] = "Undef"
    BY <2>3, <2>4, <2>6 DEF LitValue
  <2>7. CASE Var(l) \notin undone /\ s.assigns[Var(l)] # "Undef"
    <3>1. LitValue(t, l) = LitValue(s, l)
      BY <2>4, <2>7 DEF LitValue
    <3> QED BY <2>2, <2>3, <2>4, <2>7, <3>1 DEF LevelOf
  <2> QED BY <2>5, <2>6, <2>7
<1> HIDE DEF keep, undone
<1> QED BY <1>3, <1>4, <1>5, <1>6, <1>7 DEF Kept, keep

(* The trail that is left, literal by literal. *)
LEMMA KeptTrail ==
    ASSUME NEW s, SolverInv(s), NEW k \in Nat, k < DecisionLevel(s), NEW t, Kept(s, t, k)
    PROVE  \A i \in 1 .. Len(t.trail) :
              /\ i \in 1 .. Len(s.trail) /\ t.trail[i] = s.trail[i] /\ t.trail[i] \in Lits
              /\ LevelOf(s, s.trail[i]) <= k /\ LevelOf(s, s.trail[i]) \in Nat
              /\ LitValue(t, t.trail[i]) = "True"
              /\ LevelOf(t, t.trail[i]) = LevelOf(s, s.trail[i])
              /\ t.reason[Var(t.trail[i])] = s.reason[Var(s.trail[i])]
<1> SUFFICES ASSUME NEW i \in 1 .. Len(t.trail)
             PROVE /\ i \in 1 .. Len(s.trail) /\ t.trail[i] = s.trail[i] /\ t.trail[i] \in Lits
                   /\ LevelOf(s, s.trail[i]) <= k /\ LevelOf(s, s.trail[i]) \in Nat
                   /\ LitValue(t, t.trail[i]) = "True"
                   /\ LevelOf(t, t.trail[i]) = LevelOf(s, s.trail[i])
                   /\ t.reason[Var(t.trail[i])] = s.reason[Var(s.trail[i])]
  OBVIOUS
<1>1. i \in 1 .. Len(s.trail) /\ t.trail[i] = s.trail[i]
  BY DEF Kept
<1>2. s.trail[i] \in Lits /\ k + 1 \in 1 .. Len(s.lim) /\ Len(s.lim) \in Nat
  BY <1>1 DEF SolverInv, SolverType, DecisionLevel
<1>3. ~(s.lim[k + 1] < i)
  BY DEF Kept
<1>4. /\ LevelOf(s, s.trail[i]) \in 0 .. Len(s.lim)
      /\ s.lim[k + 1] < i <=> k + 1 <= LevelOf(s, s.trail[i])
  BY <1>1, <1>2 DEF LevelsMatch, SolverInv
<1>5. LevelOf(s, s.trail[i]) <= k /\ LevelOf(s, s.trail[i]) \in Nat
  BY <1>2, <1>3, <1>4
<1>6. LitValue(s, s.trail[i]) = "True"
  BY <1>1 DEF TrailMatches, SolverInv
<1>7. ~(LitValue(s, s.trail[i]) = "Undef" \/ LevelOf(s, s.trail[i]) > k)
  BY <1>5, <1>6
<1> QED BY <1>1, <1>2, <1>5, <1>6, <1>7 DEF Kept

(* It still lists the assigned literals. *)
LEMMA BacktrackTrail ==
    ASSUME NEW s, SolverInv(s), NEW k \in Nat, k < DecisionLevel(s), NEW t, Kept(s, t, k)
    PROVE  TrailMatches(t)
<1>1. \A i \in 1 .. Len(t.trail) :
         /\ i \in 1 .. Len(s.trail) /\ t.trail[i] = s.trail[i] /\ LitValue(t, t.trail[i]) = "True"
  BY KeptTrail
<1>2. \A i, j \in 1 .. Len(t.trail) : Var(t.trail[i]) = Var(t.trail[j]) => i = j
  BY <1>1 DEF TrailMatches, SolverInv
<1>3. ASSUME NEW v \in Vars, t.assigns[v] # "Undef"
      PROVE  \E i \in 1 .. Len(t.trail) : Var(t.trail[i]) = v
  <2>1. v \in Lits /\ Var(v) = v
    BY VarFacts
  <2>2. SolverType(s) /\ SolverType(t) /\ TrailMatches(s) /\ LevelsMatch(s)
    BY DEF SolverInv, Kept
  <2>3. LitValue(t, v) # "Undef"
    BY <1>3, <2>1, <2>2, Values
  <2>4. ~(LitValue(s, v) = "Undef" \/ LevelOf(s, v) > k)
    BY <2>1, <2>3 DEF Kept
  <2>5. s.assigns[v] # "Undef"
    BY <2>1, <2>2, <2>4, Values
  <2>6. PICK i \in 1 .. Len(s.trail) : Var(s.trail[i]) = v
    BY <2>2, <2>5 DEF TrailMatches
  <2>7. LevelOf(s, s.trail[i]) = LevelOf(s, v)
    BY <2>1, <2>6 DEF LevelOf
  <2>8. k + 1 \in 1 .. Len(s.lim) /\ LevelOf(s, v) \in Int
    <3>1. s.level \in [Vars -> Int] /\ s.lim \in Seq(Nat)
      BY <2>2, Zenon DEF SolverType
    <3>2. LevelOf(s, v) \in Int
      BY <2>1, <3>1 DEF LevelOf
    <3>3. k < Len(s.lim) /\ Len(s.lim) \in Nat
      BY <3>1 DEF DecisionLevel
    <3> QED BY <3>2, <3>3
  <2>9. s.lim[k + 1] < i <=> k + 1 <= LevelOf(s, s.trail[i])
    BY <2>2, <2>6, <2>8 DEF LevelsMatch
  <2>10. i \in 1 .. Len(t.trail)
    BY <2>4, <2>6, <2>7, <2>8, <2>9 DEF Kept
  <2> QED BY <1>1, <2>6, <2>10
<1> QED BY <1>1, <1>2, <1>3 DEF TrailMatches

(* It is still cut into levels. *)
LEMMA BacktrackLevels ==
    ASSUME NEW s, SolverInv(s), NEW k \in Nat, k < DecisionLevel(s), NEW t, Kept(s, t, k)
    PROVE  LevelsMatch(t)
<1>1. LevelsMatch(s) /\ SolverType(s)
  BY DEF SolverInv
<1>2. \A j \in 1 .. k : j \in 1 .. Len(s.lim) /\ j < k + 1 /\ k + 1 \in 1 .. Len(s.lim)
  BY <1>1 DEF DecisionLevel, SolverType
<1>3. \A j \in 1 .. k : s.lim[j] < s.lim[k + 1] /\ s.lim[j] \in Nat
  BY <1>1, <1>2, SMTT(30) DEF LevelsMatch, SolverType
<1>4. \A j \in 1 .. Len(t.lim) : t.lim[j] < Len(t.trail) /\ t.lim[j] <= t.qhead
  BY <1>3, SMTT(30) DEF Kept
<1>5. \A i, j \in 1 .. Len(t.lim) : i < j => t.lim[i] < t.lim[j]
  BY <1>1, <1>2 DEF LevelsMatch, Kept
<1>6. ASSUME NEW i \in 1 .. Len(t.trail)
      PROVE  /\ LevelOf(t, t.trail[i]) \in 0 .. Len(t.lim)
             /\ \A j \in 1 .. Len(t.lim) : t.lim[j] < i <=> j <= LevelOf(t, t.trail[i])
  <2>1. /\ i \in 1 .. Len(s.trail) /\ LevelOf(t, t.trail[i]) = LevelOf(s, s.trail[i])
        /\ LevelOf(s, s.trail[i]) <= k /\ LevelOf(s, s.trail[i]) \in Nat
    BY KeptTrail
  <2>2. Len(t.lim) = k /\ \A j \in 1 .. k : t.lim[j] = s.lim[j]
    BY DEF Kept
  <2>3. \A j \in 1 .. k : s.lim[j] < i <=> j <= LevelOf(s, s.trail[i])
    BY <1>1, <1>2, <2>1 DEF LevelsMatch
  <2> QED BY <2>1, <2>2, <2>3
<1>7. t.qhead <= Len(t.trail)
  BY DEF Kept
<1> QED BY <1>4, <1>5, <1>6, <1>7 DEF LevelsMatch

(* Its reasons still assert: they mention earlier literals only. *)
LEMMA BacktrackReasons ==
    ASSUME NEW s, SolverInv(s), NEW k \in Nat, k < DecisionLevel(s), NEW t, Kept(s, t, k)
    PROVE  ReasonsMatch(t)
<1> DEFINE Good(i) ==
        LET q == t.trail[i]
            c == t.reason[Var(q)]
        IN  /\ c = NoClause =>
                 LevelOf(t, q) = 0 \/ \E j \in 1 .. Len(t.lim) : i = t.lim[j] + 1
            /\ c # NoClause =>
                 /\ c \in 1 .. Len(t.arena) /\ q \in t.arena[c]
                 /\ \A p \in t.arena[c] \ {q} : \E j \in 1 .. i - 1 : t.trail[j] = -p
<1>1. ASSUME NEW i \in 1 .. Len(t.trail) PROVE Good(i)
  <2>1. /\ i \in 1 .. Len(s.trail) /\ t.trail[i] = s.trail[i]
        /\ LevelOf(s, s.trail[i]) <= k /\ LevelOf(s, s.trail[i]) \in Nat
        /\ LevelOf(t, t.trail[i]) = LevelOf(s, s.trail[i])
        /\ t.reason[Var(t.trail[i])] = s.reason[Var(s.trail[i])]
    BY KeptTrail
  <2>2. LET q == s.trail[i]
            c == s.reason[Var(q)]
        IN  /\ c = NoClause =>
                 LevelOf(s, q) = 0 \/ \E j \in 1 .. Len(s.lim) : i = s.lim[j] + 1
            /\ c # NoClause =>
                 /\ c \in 1 .. Len(s.arena) /\ q \in s.arena[c]
                 /\ \A p \in s.arena[c] \ {q} : \E j \in 1 .. i - 1 : s.trail[j] = -p
    BY <2>1 DEF ReasonsMatch, SolverInv
  <2>3. \A j \in 1 .. i - 1 : t.trail[j] = s.trail[j]
    BY DEF Kept, SolverType
  <2>4. ASSUME NEW j \in 1 .. Len(s.lim), i = s.lim[j] + 1
        PROVE  j \in 1 .. Len(t.lim) /\ i = t.lim[j] + 1
    <3>1. s.lim[j] \in Nat /\ s.lim[j] < i
      BY <2>4 DEF SolverInv, SolverType
    <3>2. j <= LevelOf(s, s.trail[i])
      BY <2>1, <3>1 DEF LevelsMatch, SolverInv
    <3>3. j \in 1 .. k
      BY <2>1, <3>2
    <3> QED BY <2>4, <3>3 DEF Kept
  <2>5. t.arena = s.arena
    BY DEF Kept
  <2> QED BY <2>1, <2>2, <2>3, <2>4, <2>5
<1> QED BY <1>1 DEF ReasonsMatch

(* backtrack_to keeps the solver in order. *)
LEMMA BacktrackKeeps ==
    ASSUME NEW s, SolverInv(s), NEW k \in Nat, k < DecisionLevel(s), NEW t, t = BacktrackTo(s, k)
    PROVE  SolverInv(t) /\ Kept(s, t, k)
<1>1. SolverType(s) /\ TrailMatches(s) /\ LevelsMatch(s) /\ WatchesMatch(s)
  BY DEF SolverInv
<1>2. Kept(s, t, k)
  BY <1>1, BacktrackValues
<1>3. TrailMatches(t) /\ LevelsMatch(t) /\ ReasonsMatch(t)
  BY <1>2, BacktrackTrail, BacktrackLevels, BacktrackReasons
<1>4. SolverType(t) /\ WatchesMatch(t)
  BY <1>1, <1>2 DEF Kept, WatchesMatch
<1> QED BY <1>2, <1>3, <1>4 DEF SolverInv

-----------------------------------------------------------------------------
(* Clauses are added at the end of the arena.                              *)

(* u is s with the clause c, watched by the literals of W. *)
Grown(s, u, c, W) ==
    /\ SolverType(u)
    /\ u.assigns = s.assigns /\ u.level = s.level /\ u.reason = s.reason
    /\ u.trail = s.trail /\ u.lim = s.lim /\ u.qhead = s.qhead
    /\ u.arena = Append(s.arena, c)
    /\ \A l \in Lits :
          u.watches[l] = IF l \in W THEN s.watches[l] \cup {Len(s.arena) + 1} ELSE s.watches[l]

(* A clause stored without a watch. *)
LEMMA ArenaGrows ==
    ASSUME NEW s, SolverType(s), NEW c \in SUBSET Lits, NEW u, u = AddToArena(s, c)
    PROVE  Grown(s, u, c, {})
<1>1. DOMAIN s = Fields
  BY DEF SolverType
<1>2. /\ DOMAIN u = Fields
      /\ u.assigns = s.assigns /\ u.level = s.level /\ u.reason = s.reason
      /\ u.trail = s.trail /\ u.lim = s.lim /\ u.qhead = s.qhead
      /\ u.arena = Append(s.arena, c) /\ u.watches = s.watches /\ u.heap = s.heap
  BY <1>1 DEF AddToArena, Fields
<1>3. Append(s.arena, c) \in Seq(SUBSET Lits)
  BY DEF SolverType
<1>4. SolverType(u)
  BY <1>2, <1>3 DEF SolverType
<1> QED BY <1>2, <1>4 DEF Grown

(* A clause stored and watched by two of its literals. *)
LEMMA WatchedGrows ==
    ASSUME NEW s, SolverType(s), NEW c \in SUBSET Lits, NEW w0 \in c, NEW w1 \in c,
           NEW u, u = AddWatched(s, c, w0, w1)
    PROVE  Grown(s, u, c, {w0, w1})
<1> DEFINE a == AddToArena(s, c)
           n == {Len(s.arena) + 1}
           f == [a.watches EXCEPT ![w0] = @ \cup n]
           g == [f EXCEPT ![w1] = @ \cup n]
<1>1. Grown(s, a, c, {})
  BY ArenaGrows
<1>2. SolverType(a) /\ DOMAIN a = Fields
  BY <1>1 DEF Grown, SolverType
<1>3. u = [a EXCEPT !.watches[w0] = @ \cup n, !.watches[w1] = @ \cup n]
  BY DEF AddWatched
<1> HIDE DEF a, n
<1>4. /\ DOMAIN u = Fields
      /\ u.assigns = a.assigns /\ u.level = a.level /\ u.reason = a.reason
      /\ u.trail = a.trail /\ u.lim = a.lim /\ u.qhead = a.qhead
      /\ u.arena = a.arena /\ u.watches = g /\ u.heap = a.heap
  BY <1>2, <1>3 DEF Fields
<1>5. a.watches \in [Lits -> SUBSET Nat] /\ n \in SUBSET Nat
  BY <1>2 DEF SolverType, n
<1>6. f \in [Lits -> SUBSET Nat]
  BY <1>5
<1>7. g \in [Lits -> SUBSET Nat]
  BY <1>5, <1>6
<1>8. \A l \in Lits : g[l] = IF l \in {w0, w1} THEN a.watches[l] \cup n ELSE a.watches[l]
  BY <1>5, <1>6
<1> HIDE DEF f, g
<1>9. SolverType(u)
  BY <1>2, <1>4, <1>7 DEF SolverType
<1>10. \A l \in Lits : a.watches[l] = s.watches[l]
  BY <1>1 DEF Grown
<1> QED BY <1>1, <1>4, <1>8, <1>9, <1>10 DEF Grown, n

(* A new clause keeps the solver in order, whatever it says. *)
LEMMA GrownKeeps ==
    ASSUME NEW s, SolverInv(s), NEW c \in SUBSET Lits, NEW W \in SUBSET c,
           NEW u, Grown(s, u, c, W)
    PROVE  SolverInv(u)
<1>1. SolverType(u)
  BY DEF Grown
<1>2. \A l : LitValue(u, l) = LitValue(s, l) /\ LevelOf(u, l) = LevelOf(s, l)
  BY SameValues DEF Grown
<1>3. /\ u.assigns = s.assigns /\ u.reason = s.reason /\ u.trail = s.trail /\ u.lim = s.lim
      /\ u.qhead = s.qhead
  BY DEF Grown
<1>4. TrailMatches(u)
  BY <1>2, <1>3 DEF TrailMatches, SolverInv
<1>5. LevelsMatch(u)
  BY <1>2, <1>3 DEF LevelsMatch, SolverInv
<1>6. /\ Len(s.arena) \in Nat /\ Len(u.arena) = Len(s.arena) + 1
      /\ u.arena[Len(s.arena) + 1] = c
      /\ \A d \in 1 .. Len(s.arena) : u.arena[d] = s.arena[d] /\ d \in 1 .. Len(u.arena)
      /\ Len(s.arena) + 1 \in 1 .. Len(u.arena)
  <2>1. u.arena = Append(s.arena, c) /\ s.arena \in Seq(SUBSET Lits)
    BY DEF Grown, SolverInv, SolverType
  <2> QED BY <2>1, Appended, NextIndex
<1>7. ReasonsMatch(u)
  <2> SUFFICES ASSUME NEW i \in 1 .. Len(u.trail)
               PROVE LET l == u.trail[i]
                         d == u.reason[Var(l)]
                     IN  /\ d = NoClause =>
                              LevelOf(u, l) = 0 \/ \E k \in 1 .. Len(u.lim) : i = u.lim[k] + 1
                         /\ d # NoClause =>
                              /\ d \in 1 .. Len(u.arena) /\ l \in u.arena[d]
                              /\ \A q \in u.arena[d] \ {l} :
                                    \E j \in 1 .. i - 1 : u.trail[j] = -q
    BY DEF ReasonsMatch
  <2>1. LET l == s.trail[i]
            d == s.reason[Var(l)]
        IN  /\ d = NoClause =>
                 LevelOf(s, l) = 0 \/ \E k \in 1 .. Len(s.lim) : i = s.lim[k] + 1
            /\ d # NoClause =>
                 /\ d \in 1 .. Len(s.arena) /\ l \in s.arena[d]
                 /\ \A q \in s.arena[d] \ {l} :
                       \E j \in 1 .. i - 1 : s.trail[j] = -q
    BY <1>3 DEF ReasonsMatch, SolverInv
  <2> QED BY <1>2, <1>3, <1>6, <2>1
<1>8. ASSUME NEW l \in Lits, NEW d \in u.watches[l]
      PROVE  d \in 1 .. Len(u.arena) /\ l \in u.arena[d]
  <2>1. d \in s.watches[l] \/ (l \in W /\ d = Len(s.arena) + 1)
    BY <1>8 DEF Grown
  <2> QED BY <1>6, <2>1 DEF SolverInv, WatchesMatch
<1> QED BY <1>1, <1>4, <1>5, <1>7, <1>8 DEF SolverInv, WatchesMatch

(* A clause that is unit under the assignment is added, and asserts. *)
LEMMA AssertKeeps ==
    ASSUME NEW s, SolverInv(s), NEW c \in SUBSET Lits, NEW W \in SUBSET c,
           NEW u, Grown(s, u, c, W), NEW l \in c, LitValue(s, l) = "Undef",
           \A q \in c \ {l} : LitValue(s, q) = "False",
           NEW t, t = Enqueue(u, l, Len(s.arena) + 1)
    PROVE  SolverInv(u) /\ SolverInv(t) /\ Enqueued(u, t, l, Len(s.arena) + 1)
<1> DEFINE n == Len(s.arena) + 1
<1>1. SolverInv(u) /\ SolverType(u)
  BY GrownKeeps DEF SolverInv
<1>2. \A q : LitValue(u, q) = LitValue(s, q)
  BY SameValues DEF Grown
<1>3. n \in Nat /\ n # NoClause /\ n \in 1 .. Len(u.arena) /\ u.arena[n] = c
  <2>1. u.arena = Append(s.arena, c) /\ s.arena \in Seq(SUBSET Lits)
    BY DEF Grown, SolverInv, SolverType
  <2>2. Len(s.arena) \in Nat
    BY <2>1
  <2> QED BY <2>1, <2>2, Appended, NextIndex DEF NoClause
<1> HIDE DEF n
<1>4. Forces(u, n, l)
  BY <1>2, <1>3 DEF Forces
<1>5. Enqueued(u, t, l, n)
  BY <1>1, <1>3, EnqueueFields DEF n
<1>6. LitValue(u, l) = "Undef"
  BY <1>2
<1>7. SolverInv(t)
  BY <1>1, <1>3, <1>4, <1>5, <1>6, EnqueueKeeps
<1> QED BY <1>1, <1>5, <1>7 DEF n

-----------------------------------------------------------------------------
(* Two watches a clause: one is not false, or the queue still holds what   *)
(* made it false, or propagate is about to visit the clause for it.        *)

GoodWatch(s, w) ==
    LitValue(s, w) # "False" \/ \E i \in s.qhead + 1 .. Len(s.trail) : s.trail[i] = -w

Watching(s, lit, rest) ==
    \A l \in Lits : \A c \in s.watches[l] :
        \E w \in Lits : c \in s.watches[w] /\ (GoodWatch(s, w) \/ (w = lit /\ c \in rest))

(* During analyze: a watch is not false, or will not be after a backjump.  *)
WatchingBelow(s) ==
    \A l \in Lits : \A c \in s.watches[l] :
        \E w \in Lits :
            /\ c \in s.watches[w]
            /\ LitValue(s, w) = "False" => LevelOf(s, w) = DecisionLevel(s)

(* The heap and the counters do not matter to the watches. *)
LEMMA WatchSame ==
    ASSUME NEW s, NEW t, Same(s, t), NEW lit, NEW rest, Watching(s, lit, rest)
    PROVE  Watching(t, lit, rest)
<1>1. \A l : LitValue(t, l) = LitValue(s, l)
  BY SameValues DEF Same
<1>2. t.trail = s.trail /\ t.qhead = s.qhead /\ t.watches = s.watches
  BY DEF Same
<1> QED BY <1>1, <1>2 DEF Watching, GoodWatch

(* A literal that turns false by an enqueue is still in the queue. *)
LEMMA WatchEnqueue ==
    ASSUME NEW s, SolverInv(s), NEW l \in Lits,
           NEW r \in Nat, NEW t, Enqueued(s, t, l, r), LitValue(s, l) = "Undef",
           NEW lit, NEW rest, Watching(s, lit, rest)
    PROVE  Watching(t, lit, rest)
<1>1. t.trail = Append(s.trail, l) /\ t.qhead = s.qhead /\ t.watches = s.watches
  BY DEF Enqueued
<1>2. /\ LitValue(t, l) = "True"
      /\ \A q \in Lits : Var(q) # Var(l) => LitValue(t, q) = LitValue(s, q)
  BY EnqueueValues DEF SolverInv
<1> DEFINE n == Len(s.trail)
<1>3. /\ n \in Nat /\ Len(t.trail) = n + 1 /\ t.trail[n + 1] = l
      /\ \A i \in 1 .. n : t.trail[i] = s.trail[i]
  BY <1>1, Appended DEF SolverInv, SolverType
<1>4. s.qhead \in Nat /\ s.qhead <= n
  BY DEF SolverInv, SolverType, LevelsMatch
<1>5. ASSUME NEW w \in Lits, GoodWatch(s, w) PROVE GoodWatch(t, w)
  <2>1. CASE w = -l
    <3>1. n + 1 \in t.qhead + 1 .. Len(t.trail) /\ t.trail[n + 1] = -w
      BY <1>1, <1>3, <1>4, <2>1, LitFacts
    <3> QED BY <3>1 DEF GoodWatch
  <2>2. CASE w # -l /\ LitValue(s, w) # "False"
    <3>1. w = l \/ Var(w) # Var(l)
      BY <2>2, LitFacts
    <3> QED BY <1>2, <2>2, <3>1 DEF GoodWatch
  <2>3. CASE \E i \in s.qhead + 1 .. n : s.trail[i] = -w
    <3>1. PICK i \in s.qhead + 1 .. n : s.trail[i] = -w
      BY <2>3
    <3> HIDE DEF n
    <3>2. i \in 1 .. n /\ i \in t.qhead + 1 .. Len(t.trail)
      BY <1>1, <1>3, <1>4, <3>1
    <3> QED BY <1>3, <3>1, <3>2 DEF GoodWatch
  <2> QED BY <1>5, <2>1, <2>2, <2>3 DEF GoodWatch
<1> QED BY <1>1, <1>5 DEF Watching

(* A new clause with a watch that is not false. *)
LEMMA WatchGrown ==
    ASSUME NEW s, SolverInv(s), NEW c \in SUBSET Lits, NEW W \in SUBSET c,
           NEW u, Grown(s, u, c, W), Watching(s, 0, {}),
           W # {} => \E w \in W : LitValue(s, w) # "False"
    PROVE  Watching(u, 0, {})
<1>1. \A l : LitValue(u, l) = LitValue(s, l)
  BY SameValues DEF Grown
<1>2. u.trail = s.trail /\ u.qhead = s.qhead
  BY DEF Grown
<1>3. \A w \in Lits : GoodWatch(s, w) => GoodWatch(u, w)
  BY <1>1, <1>2 DEF GoodWatch
<1>4. ASSUME NEW l \in Lits, NEW d \in u.watches[l]
      PROVE  \E w \in Lits : d \in u.watches[w] /\ GoodWatch(u, w)
  <2>1. CASE d \in s.watches[l]
    <3>1. PICK w \in Lits : d \in s.watches[w] /\ GoodWatch(s, w)
      BY <2>1 DEF Watching
    <3>2. d \in u.watches[w]
      BY <3>1 DEF Grown
    <3> QED BY <1>3, <3>1, <3>2
  <2>2. CASE l \in W /\ d = Len(s.arena) + 1
    <3>1. PICK w \in W : LitValue(s, w) # "False"
      BY <2>2
    <3>2. w \in Lits /\ d \in u.watches[w]
      BY <2>2 DEF Grown
    <3> QED BY <1>1, <3>1, <3>2 DEF GoodWatch
  <2> QED BY <1>4, <2>1, <2>2 DEF Grown
<1> QED BY <1>4 DEF Watching

(* At a conflict, the watches in the queue are of the last level. *)
LEMMA WatchBelow ==
    ASSUME NEW s, SolverInv(s), DecisionLevel(s) > 0, NEW lit, NEW rest,
           Watching(s, lit, rest), rest # {} => LevelOf(s, lit) = DecisionLevel(s)
    PROVE  WatchingBelow(s)
<1> DEFINE d == Len(s.lim)
<1>1. d \in Nat /\ d \in 1 .. d /\ d = DecisionLevel(s)
  BY DEF SolverInv, SolverType, DecisionLevel
<1>2. ASSUME NEW w \in Lits, NEW i \in s.qhead + 1 .. Len(s.trail), s.trail[i] = -w
      PROVE  LevelOf(s, w) = d
  <2>1. s.qhead \in Nat /\ Len(s.trail) \in Nat /\ s.lim[d] <= s.qhead /\ s.lim[d] \in Nat
    BY <1>1 DEF SolverInv, SolverType, LevelsMatch
  <2>2. i \in 1 .. Len(s.trail) /\ s.lim[d] < i
    BY <2>1
  <2>3. LevelOf(s, -w) \in 0 .. d /\ d <= LevelOf(s, -w)
    BY <1>1, <1>2, <2>2 DEF SolverInv, LevelsMatch
  <2>4. LevelOf(s, w) = LevelOf(s, -w)
    BY LitFacts DEF LevelOf
  <2> HIDE DEF d
  <2> QED BY <1>1, <2>3, <2>4
<1> HIDE DEF d
<1> QED BY <1>1, <1>2 DEF Watching, GoodWatch, WatchingBelow

(* A backjump below that level repairs every watch. *)
LEMMA WatchBacktrack ==
    ASSUME NEW s, SolverInv(s), NEW k \in Nat, k < DecisionLevel(s), NEW t, Kept(s, t, k),
           WatchingBelow(s)
    PROVE  Watching(t, 0, {})
<1>1. t.watches = s.watches /\ DecisionLevel(s) \in Nat
  BY DEF Kept, DecisionLevel, SolverInv, SolverType
<1>2. ASSUME NEW w \in Lits, LitValue(s, w) = "False" => LevelOf(s, w) = DecisionLevel(s)
      PROVE  LitValue(t, w) # "False"
  BY <1>1, <1>2 DEF Kept
<1> QED BY <1>1, <1>2 DEF Watching, WatchingBelow, GoodWatch

-----------------------------------------------------------------------------
(* What the models of the problem satisfy.                                 *)

(* Each assignment of M satisfies the clauses of s and its literals of     *)
(* level 0.                                                                *)
Follows(s, M) ==
    \A m \in M :
        /\ \A c \in 1 .. Len(s.arena) : Satisfies(m, s.arena[c])
        /\ \A i \in 1 .. Len(s.trail) : LevelOf(s, s.trail[i]) = 0 => Holds(m, s.trail[i])

(* A literal or its negation holds. *)
LEMMA HoldsNeg ==
    ASSUME NEW m \in Assignments, NEW l \in Lits
    PROVE  Holds(m, -l) <=> ~Holds(m, l)
<1>1. Var(-l) = Var(l) /\ Var(l) \in Vars /\ (-l > 0 <=> ~(l > 0))
  BY LitFacts
<1>2. m[Var(l)] \in BOOLEAN
  BY <1>1 DEF Assignments
<1>3. (-l > 0) \in BOOLEAN /\ (l > 0) \in BOOLEAN
  OBVIOUS
<1> QED BY <1>1, <1>2, <1>3, Zenon DEF Holds

(* A false literal of level 0 holds in no model. *)
LEMMA FalseAtRoot ==
    ASSUME NEW s, SolverInv(s), NEW M \in SUBSET Assignments, Follows(s, M), NEW m \in M,
           NEW q \in Lits, LitValue(s, q) = "False", LevelOf(s, q) <= 0
    PROVE  ~Holds(m, q)
<1>1. PICK i \in 1 .. Len(s.trail) : s.trail[i] = -q
  BY OnTrail DEF SolverInv
<1>2. LevelOf(s, -q) = LevelOf(s, q)
  BY LitFacts DEF LevelOf
<1>3. LevelOf(s, -q) \in 0 .. Len(s.lim)
  BY <1>1 DEF SolverInv, LevelsMatch
<1>4. LevelOf(s, -q) = 0
  BY <1>2, <1>3
<1>5. Holds(m, -q)
  BY <1>1, <1>4 DEF Follows
<1> QED BY <1>5, HoldsNeg

(* A true literal of level 0 holds in every model. *)
LEMMA TrueAtRoot ==
    ASSUME NEW s, SolverInv(s), NEW M \in SUBSET Assignments, Follows(s, M), NEW m \in M,
           NEW q \in Lits, LitValue(s, q) = "True", LevelOf(s, q) <= 0
    PROVE  Holds(m, q)
<1>1. -q \in Lits /\ LitValue(s, -q) = "False" /\ -(-q) = q
  BY LitFacts, Values DEF SolverInv
<1>2. LevelOf(s, -q) <= 0
  BY LitFacts DEF LevelOf
<1>3. ~Holds(m, -q)
  BY <1>1, <1>2, FalseAtRoot
<1> QED BY <1>3, HoldsNeg

(* A reason that the models satisfy forces its literal in them too. *)
LEMMA FollowsEnqueue ==
    ASSUME NEW s, SolverInv(s), NEW M \in SUBSET Assignments, Follows(s, M),
           NEW l \in Lits, NEW r \in Nat, NEW t, Enqueued(s, t, l, r), SolverInv(t),
           r = NoClause => \A m \in M : Holds(m, l),
           r # NoClause => Forces(s, r, l)
    PROVE  Follows(t, M)
<1> DEFINE n == Len(s.trail)
<1>1. t.trail = Append(s.trail, l) /\ t.arena = s.arena
  BY DEF Enqueued
<1>2. /\ LevelOf(t, l) = DecisionLevel(s)
      /\ \A q \in Lits : Var(q) # Var(l) => LevelOf(t, q) = LevelOf(s, q)
  BY EnqueueValues DEF SolverInv
<1>3. /\ n \in Nat /\ Len(t.trail) = n + 1 /\ t.trail[n + 1] = l
      /\ \A i \in 1 .. n : t.trail[i] = s.trail[i] /\ s.trail[i] \in Lits
  BY <1>1, Appended DEF SolverInv, SolverType
<1>4. \A i \in 1 .. n : Var(s.trail[i]) # Var(l)
  <2> SUFFICES ASSUME NEW i \in 1 .. n, Var(s.trail[i]) = Var(l) PROVE FALSE
    OBVIOUS
  <2>1. i \in 1 .. n + 1 /\ n + 1 \in 1 .. n + 1
    BY <1>3
  <2>2. i = n + 1
    BY <1>3, <2>1 DEF TrailMatches, SolverInv
  <2> QED BY <1>3, <2>2
<1>5. ASSUME NEW m \in M, DecisionLevel(s) = 0 PROVE Holds(m, l)
  <2>1. CASE r = NoClause
    BY <2>1
  <2>2. CASE r # NoClause
    <3>1. r \in 1 .. Len(s.arena) /\ \A q \in s.arena[r] \ {l} : LitValue(s, q) = "False"
      BY <2>2 DEF Forces
    <3>2. PICK q \in s.arena[r] : Holds(m, q)
      BY <3>1 DEF Follows, Satisfies
    <3>3. q \in Lits
      BY <3>1 DEF SolverInv, SolverType
    <3>4. ASSUME q # l PROVE FALSE
      <4>1. LitValue(s, q) = "False"
        BY <3>1, <3>4
      <4>2. PICK i \in 1 .. n : s.trail[i] = -q
        BY <3>3, <4>1, OnTrail DEF SolverInv
      <4>3. LevelOf(s, -q) \in 0 .. 0
        BY <1>5, <4>2 DEF SolverInv, LevelsMatch, DecisionLevel
      <4>4. LevelOf(s, q) <= 0
        BY <3>3, <4>3, LitFacts DEF LevelOf
      <4> QED BY <3>2, <3>3, <4>1, <4>4, FalseAtRoot
    <3> QED BY <3>2, <3>4
  <2> QED BY <2>1, <2>2
<1>6. ASSUME NEW m \in M, NEW i \in 1 .. n + 1, LevelOf(t, t.trail[i]) = 0
      PROVE  Holds(m, t.trail[i])
  <2>1. CASE i \in 1 .. n
    <3>1. t.trail[i] = s.trail[i] /\ LevelOf(t, t.trail[i]) = LevelOf(s, s.trail[i])
      BY <1>2, <1>3, <1>4, <2>1
    <3> QED BY <1>6, <2>1, <3>1 DEF Follows
  <2>2. CASE i = n + 1
    BY <1>2, <1>3, <1>5, <1>6, <2>2
  <2> QED BY <1>3, <2>1, <2>2, NextIndex
<1> HIDE DEF n
<1> QED BY <1>1, <1>3, <1>6 DEF Follows

(* A decision is above level 0: it binds no model. *)
LEMMA FollowsDecide ==
    ASSUME NEW s, SolverInv(s), NEW M, Follows(s, M),
           NEW l \in Lits, NEW t, Decided(s, t, l), SolverInv(t)
    PROVE  Follows(t, M)
<1> DEFINE n == Len(s.trail)
<1>1. t.trail = Append(s.trail, l) /\ t.arena = s.arena
  BY DEF Decided
<1>2. /\ LevelOf(t, l) # 0
      /\ \A q \in Lits : Var(q) # Var(l) => LevelOf(t, q) = LevelOf(s, q)
  BY DEF Decided, SolverInv, SolverType, DecisionLevel
<1>3. /\ n \in Nat /\ Len(t.trail) = n + 1 /\ t.trail[n + 1] = l
      /\ \A i \in 1 .. n : t.trail[i] = s.trail[i] /\ s.trail[i] \in Lits
  BY <1>1, Appended DEF SolverInv, SolverType
<1>4. \A i \in 1 .. n : Var(s.trail[i]) # Var(l)
  <2> SUFFICES ASSUME NEW i \in 1 .. n, Var(s.trail[i]) = Var(l) PROVE FALSE
    OBVIOUS
  <2>1. i \in 1 .. n + 1 /\ n + 1 \in 1 .. n + 1
    BY <1>3
  <2>2. i = n + 1
    BY <1>3, <2>1 DEF TrailMatches, SolverInv
  <2> QED BY <1>3, <2>2
<1>5. ASSUME NEW m \in M, NEW i \in 1 .. n + 1, LevelOf(t, t.trail[i]) = 0
      PROVE  Holds(m, t.trail[i])
  <2>1. i # n + 1
    BY <1>2, <1>3, <1>5
  <2>2. i \in 1 .. n
    BY <1>3, <2>1, NextIndex
  <2>3. t.trail[i] = s.trail[i] /\ LevelOf(t, t.trail[i]) = LevelOf(s, s.trail[i])
    BY <1>2, <1>3, <1>4, <2>2
  <2> QED BY <1>5, <2>2, <2>3 DEF Follows
<1> HIDE DEF n
<1> QED BY <1>1, <1>3, <1>5 DEF Follows

(* Backtracking takes back no literal of level 0. *)
LEMMA FollowsBacktrack ==
    ASSUME NEW s, SolverInv(s), NEW M, Follows(s, M), NEW k \in Nat, k < DecisionLevel(s),
           NEW t, Kept(s, t, k)
    PROVE  Follows(t, M)
<1>1. \A i \in 1 .. Len(t.trail) :
         /\ i \in 1 .. Len(s.trail) /\ t.trail[i] = s.trail[i]
         /\ LevelOf(t, t.trail[i]) = LevelOf(s, s.trail[i])
  BY KeptTrail
<1>2. t.arena = s.arena
  BY DEF Kept
<1> QED BY <1>1, <1>2 DEF Follows

(* A clause the models satisfy may be added. *)
LEMMA FollowsGrown ==
    ASSUME NEW s, SolverInv(s), NEW M, Follows(s, M), NEW c \in SUBSET Lits, NEW W,
           NEW u, Grown(s, u, c, W), \A m \in M : Satisfies(m, c)
    PROVE  Follows(u, M)
<1>1. \A l : LevelOf(u, l) = LevelOf(s, l)
  BY SameValues DEF Grown
<1>2. u.trail = s.trail /\ u.arena = Append(s.arena, c) /\ s.arena \in Seq(SUBSET Lits)
  BY DEF Grown, SolverInv, SolverType
<1>3. ASSUME NEW d \in 1 .. Len(u.arena), NEW m \in M PROVE Satisfies(m, u.arena[d])
  <2>1. /\ Len(s.arena) \in Nat /\ Len(u.arena) = Len(s.arena) + 1
        /\ u.arena[Len(s.arena) + 1] = c
        /\ \A e \in 1 .. Len(s.arena) : u.arena[e] = s.arena[e]
    BY <1>2, Appended
  <2>2. d \in 1 .. Len(s.arena) \/ d = Len(s.arena) + 1
    BY <2>1, NextIndex
  <2> QED BY <2>1, <2>2 DEF Follows
<1> QED BY <1>1, <1>2, <1>3 DEF Follows

(* The heap and the counters do not matter. *)
LEMMA FollowsSame ==
    ASSUME NEW s, NEW M, Follows(s, M), NEW t, Same(s, t)
    PROVE  Follows(t, M)
<1>1. \A l : LevelOf(t, l) = LevelOf(s, l)
  BY SameValues DEF Same
<1>2. t.trail = s.trail /\ t.arena = s.arena
  BY DEF Same
<1> QED BY <1>1, <1>2 DEF Follows

-----------------------------------------------------------------------------
(* What no step takes back: literals of level 0, and watched clauses.      *)

RootKept(s, t) ==
    /\ \A l \in Lits : LitValue(s, l) = "True" /\ LevelOf(s, l) = 0 =>
          LitValue(t, l) = "True" /\ LevelOf(t, l) = 0
    /\ \A l \in Lits : \A d \in s.watches[l] :
          (\E q \in Lits : d \in t.watches[q]) /\ t.arena[d] = s.arena[d]

(* An input clause that AddClause has dealt with. *)
Covered(s, c) ==
    \/ \E l \in c : -l \in c
    \/ \E l \in c : LitValue(s, l) = "True" /\ LevelOf(s, l) = 0
    \/ \E l \in Lits : \E d \in s.watches[l] : s.arena[d] \subseteq c

(* A clause dealt with stays dealt with. *)
LEMMA StillCovered ==
    ASSUME NEW s, NEW t, RootKept(s, t), NEW c \in SUBSET Lits, Covered(s, c)
    PROVE  Covered(t, c)
<1>1. CASE \E l \in c : -l \in c
  BY <1>1 DEF Covered
<1>2. CASE \E l \in c : LitValue(s, l) = "True" /\ LevelOf(s, l) = 0
  BY <1>2 DEF Covered, RootKept
<1>3. CASE \E l \in Lits : \E d \in s.watches[l] : s.arena[d] \subseteq c
  BY <1>3 DEF Covered, RootKept
<1> QED BY <1>1, <1>2, <1>3 DEF Covered

(* Steps that keep the root compose. *)
LEMMA RootTrans ==
    ASSUME NEW s, NEW t, NEW u, RootKept(s, t), RootKept(t, u)
    PROVE  RootKept(s, u)
BY DEF RootKept

(* enqueue keeps the root. *)
LEMMA RootEnqueue ==
    ASSUME NEW s, SolverType(s), NEW l \in Lits,
           NEW r \in Nat, NEW t, Enqueued(s, t, l, r), LitValue(s, l) = "Undef"
    PROVE  RootKept(s, t)
<1>1. t.arena = s.arena /\ t.watches = s.watches
  BY DEF Enqueued
<1>2. \A q \in Lits : Var(q) # Var(l) =>
         LitValue(t, q) = LitValue(s, q) /\ LevelOf(t, q) = LevelOf(s, q)
  BY EnqueueValues
<1>3. ASSUME NEW q \in Lits, LitValue(s, q) = "True" PROVE Var(q) # Var(l)
  <2>1. s.assigns[Var(l)] = "Undef" /\ s.assigns[Var(q)] # "Undef"
    BY <1>3, Values
  <2> QED BY <2>1
<1> QED BY <1>1, <1>2, <1>3 DEF RootKept

(* A decision keeps the root. *)
LEMMA RootDecide ==
    ASSUME NEW s, SolverType(s), NEW l \in Lits, NEW t, Decided(s, t, l),
           LitValue(s, l) = "Undef"
    PROVE  RootKept(s, t)
<1>1. t.arena = s.arena /\ t.watches = s.watches
  BY DEF Decided
<1>2. \A q \in Lits : Var(q) # Var(l) =>
         LitValue(t, q) = LitValue(s, q) /\ LevelOf(t, q) = LevelOf(s, q)
  BY DEF Decided
<1>3. ASSUME NEW q \in Lits, LitValue(s, q) = "True" PROVE Var(q) # Var(l)
  <2>1. s.assigns[Var(l)] = "Undef" /\ s.assigns[Var(q)] # "Undef"
    BY <1>3, Values
  <2> QED BY <2>1
<1> QED BY <1>1, <1>2, <1>3 DEF RootKept

(* Backtracking keeps the root. *)
LEMMA RootBacktrack ==
    ASSUME NEW s, NEW k \in Nat, NEW t, Kept(s, t, k)
    PROVE  RootKept(s, t)
<1>1. t.arena = s.arena /\ t.watches = s.watches
  BY DEF Kept
<1>2. ASSUME NEW l \in Lits, LitValue(s, l) = "True", LevelOf(s, l) = 0
      PROVE  LitValue(t, l) = "True" /\ LevelOf(t, l) = 0
  BY <1>2 DEF Kept
<1> QED BY <1>1, <1>2 DEF RootKept

(* A new clause keeps the root. *)
LEMMA RootGrown ==
    ASSUME NEW s, SolverInv(s), NEW c \in SUBSET Lits, NEW W, NEW u, Grown(s, u, c, W)
    PROVE  RootKept(s, u)
<1>1. \A l : LitValue(u, l) = LitValue(s, l) /\ LevelOf(u, l) = LevelOf(s, l)
  BY SameValues DEF Grown
<1>2. ASSUME NEW l \in Lits, NEW d \in s.watches[l]
      PROVE  d \in u.watches[l] /\ u.arena[d] = s.arena[d]
  <2>1. u.arena = Append(s.arena, c) /\ s.arena \in Seq(SUBSET Lits)
    BY DEF Grown, SolverInv, SolverType
  <2>2. d \in 1 .. Len(s.arena)
    BY DEF SolverInv, WatchesMatch
  <2>3. d \in u.watches[l]
    BY DEF Grown
  <2> QED BY <2>1, <2>2, <2>3, Appended
<1> QED BY <1>1, <1>2 DEF RootKept

(* The heap and the counters do not matter. *)
LEMMA RootSame ==
    ASSUME NEW s, NEW t, Same(s, t)
    PROVE  RootKept(s, t)
<1>1. \A l : LitValue(t, l) = LitValue(s, l) /\ LevelOf(t, l) = LevelOf(s, l)
  BY SameValues DEF Same
<1>2. t.arena = s.arena /\ t.watches = s.watches
  BY DEF Same
<1> QED BY <1>1, <1>2 DEF RootKept

-----------------------------------------------------------------------------
(* A backjump: backtrack, learn, and restart if it is due.                 *)

(* What the theory is told of it. *)
Jumped(s, s1, s3) ==
    LET k == DecisionLevel(s3)
    IN  /\ k \in Nat /\ k < DecisionLevel(s) /\ s.lim[k + 1] \in Nat
        /\ \A j \in 1 .. k : s3.lim[j] = s.lim[j]
        /\ \A i \in 1 .. s.lim[k + 1] : s3.trail[i] = s.trail[i] /\ i \in 1 .. Len(s.trail)
        /\ Len(s1.trail) \in Nat /\ s.lim[k + 1] <= Len(s1.trail)
        /\ s.lim[k + 1] <= Len(s3.trail)
        /\ s.lim[k + 1] = Len(s1.trail) \/ s.lim[k + 1] = Len(s3.trail)

Learning(s, t, l, c) ==
    \E u, W :
        /\ W \in SUBSET c /\ Grown(s, u, c, W) /\ (W # {} => l \in W)
        /\ t = Enqueue(u, l, Len(s.arena) + 1)

(* learn_clause adds one clause, then enqueues. *)
LEMMA LearnGrows ==
    ASSUME NEW s, SolverType(s), NEW l \in Lits, NEW rest \in SUBSET Lits, NEW w,
           rest # {} => w \in rest, NEW t, t = LearnClause(s, l, rest, w),
           NEW c, c = {l} \cup rest
    PROVE  Learning(s, t, l, c)
<1>1. CASE rest = {}
  <2>1. Grown(s, AddToArena(s, {l}), {l}, {})
    BY ArenaGrows
  <2>2. c = {l} /\ t = Enqueue(AddToArena(s, {l}), l, Len(s.arena) + 1)
    BY <1>1 DEF LearnClause
  <2>3. Grown(s, AddToArena(s, {l}), c, {})
    BY <2>1, <2>2
  <2>4. {} \in SUBSET c
    OBVIOUS
  <2> QED BY <2>2, <2>3, <2>4 DEF Learning
<1>2. CASE rest # {}
  <2>1. l \in c /\ w \in c /\ c \in SUBSET Lits
    BY <1>2
  <2>2. t = Enqueue(AddWatched(s, c, l, w), l, Len(s.arena) + 1)
    BY <1>2 DEF LearnClause
  <2>3. Grown(s, AddWatched(s, c, l, w), c, {l, w})
    BY <2>1, WatchedGrows
  <2>4. {l, w} \in SUBSET c /\ l \in {l, w}
    BY <2>1
  <2> QED BY <2>2, <2>3, <2>4 DEF Learning
<1> QED BY <1>1, <1>2

Learnt(s, t, l) == t.trail = Append(s.trail, l) /\ t.lim = s.lim

(* A learnt clause that asserts l keeps everything in order. *)
LEMMA LearnAfter ==
    ASSUME NEW s, SolverInv(s), NEW M \in SUBSET Assignments, Follows(s, M), Watching(s, 0, {}),
           NEW l \in Lits, LitValue(s, l) = "Undef", NEW rest \in SUBSET Lits,
           \A q \in rest : LitValue(s, q) = "False",
           NEW c, c = {l} \cup rest, \A m \in M : Satisfies(m, c),
           NEW w, rest # {} => w \in rest, NEW t, t = LearnClause(s, l, rest, w)
    PROVE  /\ SolverInv(t) /\ Follows(t, M) /\ Watching(t, 0, {}) /\ RootKept(s, t)
           /\ Learnt(s, t, l)
<1>1. SolverType(s)
  BY DEF SolverInv
<1>2. Learning(s, t, l, c)
  BY <1>1, LearnGrows
<1>3. PICK u, W :
         /\ W \in SUBSET c /\ Grown(s, u, c, W) /\ (W # {} => l \in W)
         /\ t = Enqueue(u, l, Len(s.arena) + 1)
  BY <1>2 DEF Learning
<1>4. c \in SUBSET Lits /\ l \in c /\ \A q \in c \ {l} : LitValue(s, q) = "False"
  OBVIOUS
<1> DEFINE n == Len(s.arena) + 1
<1>5. SolverInv(u) /\ SolverInv(t) /\ Enqueued(u, t, l, n)
  BY <1>3, <1>4, AssertKeeps
<1>6. Follows(u, M)
  BY <1>3, <1>4, FollowsGrown
<1>7. LitValue(u, l) = "Undef" /\ \A q : LitValue(u, q) = LitValue(s, q)
  BY <1>3, SameValues DEF Grown
<1>8. n \in Nat /\ n # NoClause /\ n \in 1 .. Len(u.arena) /\ u.arena[n] = c
  <2>1. u.arena = Append(s.arena, c) /\ s.arena \in Seq(SUBSET Lits)
    BY <1>3 DEF Grown, SolverInv, SolverType
  <2>2. Len(s.arena) \in Nat
    BY <2>1
  <2> QED BY <1>4, <2>1, <2>2, Appended, NextIndex DEF NoClause
<1>9. Forces(u, n, l)
  BY <1>4, <1>7, <1>8 DEF Forces
<1>10. Follows(t, M)
  BY <1>5, <1>6, <1>8, <1>9, FollowsEnqueue
<1>11. W # {} => \E q \in W : LitValue(s, q) # "False"
  BY <1>3
<1>12. Watching(u, 0, {})
  BY <1>3, <1>4, <1>11, WatchGrown
<1>13. Watching(t, 0, {})
  BY <1>5, <1>7, <1>8, <1>12, WatchEnqueue
<1>14. RootKept(s, u)
  BY <1>3, <1>4, RootGrown
<1>15. RootKept(u, t)
  BY <1>5, <1>7, <1>8, RootEnqueue DEF SolverInv
<1>16. Learnt(s, t, l)
  BY <1>3, <1>5 DEF Grown, Enqueued, Learnt
<1> QED BY <1>5, <1>10, <1>13, <1>14, <1>15, <1>16, RootTrans

Restarted(s, t) ==
    IF DecisionLevel(s) = 0 THEN Same(s, t)
    ELSE /\ DecisionLevel(t) = 0 /\ s.lim[1] \in Nat /\ Len(t.trail) = s.lim[1]
         /\ \A i \in 1 .. s.lim[1] : t.trail[i] = s.trail[i] /\ i \in 1 .. Len(s.trail)

(* perform_restart. *)
LEMMA RestartKeeps ==
    ASSUME NEW s, SolverInv(s), NEW M, Follows(s, M), Watching(s, 0, {}),
           NEW t, t = PerformRestart(s)
    PROVE  /\ SolverInv(t) /\ Follows(t, M) /\ Watching(t, 0, {}) /\ RootKept(s, t)
           /\ Restarted(s, t)
<1> DEFINE b == BacktrackTo(s, 0)
<1>1. DecisionLevel(s) \in Nat
  BY DEF SolverInv, SolverType, DecisionLevel
<1>2. CASE DecisionLevel(s) = 0
  <2>1. b = s
    BY <1>2 DEF BacktrackTo
  <2>2. Same(s, t)
    <3>1. DOMAIN s = Fields /\ s.heap \in SUBSET Vars
      BY DEF SolverInv, SolverType
    <3>2. t = [s EXCEPT !.lubyIdx = @ + 1,
                        !.restartStep = s.conflicts + RestartBase * Luby[s.lubyIdx]]
      BY <2>1 DEF PerformRestart
    <3> QED BY <3>1, <3>2 DEF Same, Fields
  <2> QED BY <1>2, <2>2, SameKeeps, FollowsSame, WatchSame, RootSame DEF Restarted
<1>3. CASE DecisionLevel(s) # 0
  <2>1. 0 < DecisionLevel(s) /\ 0 \in Nat
    BY <1>1, <1>3
  <2>2. SolverInv(b) /\ Kept(s, b, 0)
    BY <2>1, BacktrackKeeps
  <2>3. WatchingBelow(s)
    BY <2>1, WatchBelow
  <2>4. Follows(b, M) /\ Watching(b, 0, {}) /\ RootKept(s, b)
    BY <2>1, <2>2, <2>3, FollowsBacktrack, WatchBacktrack, RootBacktrack
  <2>5. t = [b EXCEPT !.lubyIdx = @ + 1,
                      !.restartStep = s.conflicts + RestartBase * Luby[s.lubyIdx]]
    BY DEF PerformRestart
  <2>6. DOMAIN b = Fields /\ b.heap \in SUBSET Vars
    BY <2>2 DEF SolverInv, SolverType
  <2> HIDE DEF b
  <2>7. Same(b, t)
    BY <2>5, <2>6 DEF Same, Fields
  <2>8. SolverInv(t) /\ Follows(t, M) /\ Watching(t, 0, {}) /\ RootKept(s, t)
    BY <2>2, <2>4, <2>7, SameKeeps, FollowsSame, WatchSame, RootSame, RootTrans
  <2>9. t.trail = b.trail /\ t.lim = b.lim
    BY <2>7 DEF Same
  <2>10. /\ DecisionLevel(t) = 0 /\ s.lim[1] \in Nat /\ Len(t.trail) = s.lim[1]
         /\ \A i \in 1 .. s.lim[1] : t.trail[i] = s.trail[i] /\ i \in 1 .. Len(s.trail)
    BY <2>2, <2>9 DEF Kept, DecisionLevel
  <2> QED BY <1>3, <2>8, <2>10 DEF Restarted
<1> QED BY <1>2, <1>3

(* So do the backjump before it and the restart after it. *)
LEMMA Backjump ==
    ASSUME NEW s, SolverInv(s), NEW M \in SUBSET Assignments, Follows(s, M), WatchingBelow(s),
           NEW bt \in Nat, bt < DecisionLevel(s), NEW l \in Lits, LevelOf(s, l) > bt,
           NEW rest \in SUBSET Lits,
           \A q \in rest : LitValue(s, q) = "False" /\ LevelOf(s, q) <= bt,
           NEW c, c = {l} \cup rest, \A m \in M : Satisfies(m, c),
           NEW w, rest # {} => w \in rest, NEW restart \in BOOLEAN,
           NEW s1, s1 = BacktrackTo(s, bt), NEW s2, s2 = LearnClause(s1, l, rest, w),
           NEW s3, s3 = IF restart THEN PerformRestart(s2) ELSE s2
    PROVE  /\ SolverInv(s3) /\ Follows(s3, M) /\ Watching(s3, 0, {}) /\ RootKept(s, s3)
           /\ Jumped(s, s1, s3)
<1>1. SolverInv(s1) /\ Kept(s, s1, bt)
  BY BacktrackKeeps
<1>2. Follows(s1, M) /\ Watching(s1, 0, {}) /\ RootKept(s, s1)
  BY <1>1, FollowsBacktrack, WatchBacktrack, RootBacktrack
<1>3. LitValue(s1, l) = "Undef"
  BY <1>1 DEF Kept
<1>4. ASSUME NEW q \in rest PROVE LitValue(s1, q) = "False"
  <2>1. q \in Lits /\ LitValue(s, q) = "False" /\ LevelOf(s, q) <= bt
    OBVIOUS
  <2>2. LevelOf(s, q) \in Int
    BY <2>1, LitFacts DEF SolverInv, SolverType, LevelOf
  <2>3. ~(LitValue(s, q) = "Undef" \/ LevelOf(s, q) > bt)
    BY <2>1, <2>2
  <2> QED BY <1>1, <2>1, <2>3 DEF Kept
<1>5. /\ SolverInv(s2) /\ Follows(s2, M) /\ Watching(s2, 0, {}) /\ RootKept(s1, s2)
      /\ Learnt(s1, s2, l)
  BY <1>1, <1>2, <1>3, <1>4, LearnAfter
<1>6. RootKept(s, s2)
  BY <1>2, <1>5, RootTrans
<1> DEFINE keep == s.lim[bt + 1]
<1>7. /\ keep \in Nat /\ keep < Len(s.trail) /\ Len(s1.trail) = keep
      /\ \A i \in 1 .. keep : s1.trail[i] = s.trail[i] /\ i \in 1 .. Len(s.trail)
      /\ Len(s1.lim) = bt /\ \A j \in 1 .. bt : s1.lim[j] = s.lim[j]
  BY <1>1 DEF Kept
<1>8. Len(s2.trail) = keep + 1 /\ \A i \in 1 .. keep : s2.trail[i] = s.trail[i]
  <2>1. s1.trail \in Seq(Lits)
    BY <1>1 DEF SolverInv, SolverType
  <2> QED BY <1>5, <1>7, <2>1, Appended DEF Learnt
<1>9. DecisionLevel(s2) = bt /\ \A j \in 1 .. bt : s2.lim[j] = s.lim[j]
  BY <1>5, <1>7 DEF DecisionLevel, Learnt
<1> HIDE DEF keep
<1>10. Jumped(s, s1, s2)
  BY <1>7, <1>8, <1>9 DEF Jumped, keep
<1>11. CASE ~restart
  BY <1>5, <1>6, <1>10, <1>11
<1>12. CASE restart
  <2>1. s3 = PerformRestart(s2)
    BY <1>12
  <2>2. /\ SolverInv(s3) /\ Follows(s3, M) /\ Watching(s3, 0, {}) /\ RootKept(s2, s3)
        /\ Restarted(s2, s3)
    BY <1>5, <2>1, RestartKeeps
  <2>3. Jumped(s, s1, s3)
    <3>1. CASE bt = 0
      <4>1. Same(s2, s3)
        BY <1>9, <2>2, <3>1 DEF Restarted
      <4>2. s3.trail = s2.trail /\ s3.lim = s2.lim
        BY <4>1 DEF Same
      <4> QED BY <1>10, <4>2, ZenonT(30) DEF Jumped, DecisionLevel
    <3>2. CASE bt # 0
      <4>1. /\ DecisionLevel(s3) = 0 /\ s2.lim[1] \in Nat /\ Len(s3.trail) = s2.lim[1]
            /\ \A i \in 1 .. s2.lim[1] : s3.trail[i] = s2.trail[i] /\ i \in 1 .. Len(s2.trail)
        BY <1>9, <2>2, <3>2 DEF Restarted
      <4>2. s2.lim[1] = s.lim[1] /\ s1.lim[1] = s.lim[1] /\ 1 \in 1 .. Len(s1.lim)
        BY <1>7, <1>9, <3>2
      <4>3. s.lim[1] < keep
        BY <1>1, <1>7, <4>2 DEF SolverInv, LevelsMatch
      <4>4. \A i \in 1 .. s.lim[1] : i \in 1 .. keep
        BY <1>7, <4>1, <4>2, <4>3
      <4>5. \A i \in 1 .. s.lim[1] : s3.trail[i] = s.trail[i] /\ i \in 1 .. Len(s.trail)
        BY <1>7, <1>8, <4>1, <4>2, <4>4
      <4>6. DecisionLevel(s) \in Nat
        BY <1>1 DEF SolverInv, SolverType, DecisionLevel
      <4>7. s.lim[0 + 1] = s.lim[1] /\ s.lim[1] \in Nat /\ 0 < DecisionLevel(s) /\ 0 \in Nat
        BY <4>1, <4>2, <4>6
      <4>8. s.lim[1] <= Len(s1.trail) /\ s.lim[1] = Len(s3.trail) /\ s.lim[1] <= Len(s3.trail)
        BY <1>7, <4>1, <4>2, <4>3
      <4> QED BY <1>7, <4>1, <4>5, <4>7, <4>8 DEF Jumped
    <3> QED BY <3>1, <3>2
  <2> QED BY <1>6, <2>2, <2>3, RootTrans
<1> QED BY <1>11, <1>12

-----------------------------------------------------------------------------
(* What the theory knows: the atoms of a prefix of the trail, and of the    *)
(* prefixes at which its levels were opened.                                *)

Told(s, n) == {s.trail[i] : i \in {j \in 1 .. n : Var(s.trail[j]) \in Atoms}}

TheoryOk(s, F, L, n) ==
    /\ F \in SUBSET Lits /\ L \in Seq(SUBSET Lits) /\ n \in Nat
    /\ DecisionLevel(s) <= Len(L) + 1
    /\ \A j \in 1 .. DecisionLevel(s) :
          s.lim[j] <= n /\ (j <= Len(L) => L[j] = Told(s, s.lim[j]))
    /\ Len(L) < DecisionLevel(s) => n = s.lim[DecisionLevel(s)] /\ F = Told(s, n)

(* Outside analyze, its facts are those of the first n literals. *)
InStep(s, F, L, n) == Len(L) <= DecisionLevel(s) /\ n <= Len(s.trail) /\ F = Told(s, n)

(* What the theory was told depends on a prefix of the trail. *)
LEMMA ToldPrefix ==
    ASSUME NEW s, NEW t, NEW n \in Nat, \A i \in 1 .. n : t.trail[i] = s.trail[i]
    PROVE  Told(t, n) = Told(s, n)
<1>1. {j \in 1 .. n : Var(t.trail[j]) \in Atoms} = {j \in 1 .. n : Var(s.trail[j]) \in Atoms}
  OBVIOUS
<1>2. \A j \in {i \in 1 .. n : Var(s.trail[i]) \in Atoms} : t.trail[j] = s.trail[j]
  OBVIOUS
<1> QED BY <1>1, <1>2 DEF Told

(* The trail may grow ahead of the theory. *)
LEMMA TheoryExtends ==
    ASSUME NEW s, SolverInv(s), NEW F, NEW L, NEW n, TheoryOk(s, F, L, n), InStep(s, F, L, n),
           NEW t, t.lim = s.lim, Len(t.trail) \in Nat, Len(s.trail) <= Len(t.trail),
           \A i \in 1 .. Len(s.trail) : t.trail[i] = s.trail[i]
    PROVE  TheoryOk(t, F, L, n) /\ InStep(t, F, L, n)
<1> DEFINE d == DecisionLevel(s)
<1>1. DecisionLevel(t) = d /\ d = Len(s.lim)
  BY DEF DecisionLevel
<1>2. n \in Nat /\ n <= Len(s.trail) /\ Len(s.trail) \in Nat
  BY DEF TheoryOk, InStep, SolverInv, SolverType
<1>3. \A j \in 1 .. d : s.lim[j] \in Nat /\ s.lim[j] <= n
                           /\ (j <= Len(L) => L[j] = Told(s, s.lim[j]))
  BY <1>1, SMTT(30) DEF TheoryOk, SolverInv, SolverType
<1>4. ASSUME NEW i \in Nat, i <= n PROVE Told(t, i) = Told(s, i)
  <2>1. \A j \in 1 .. i : t.trail[j] = s.trail[j]
    BY <1>2, <1>4
  <2> QED BY <2>1, ToldPrefix
<1>5. Told(t, n) = Told(s, n)
  BY <1>2, <1>4
<1>6. \A j \in 1 .. d : t.lim[j] <= n /\ (j <= Len(L) => L[j] = Told(t, t.lim[j]))
  BY <1>3, <1>4
<1>7. /\ F \in SUBSET Lits /\ L \in Seq(SUBSET Lits) /\ d <= Len(L) + 1
      /\ Len(L) < d => n = t.lim[d] /\ F = Told(t, n)
  BY <1>5 DEF TheoryOk
<1>8. TheoryOk(t, F, L, n)
  BY <1>1, <1>2, <1>6, <1>7 DEF TheoryOk
<1>9. InStep(t, F, L, n)
  BY <1>1, <1>2, <1>5 DEF InStep
<1> QED BY <1>8, <1>9

(* A decision opens a level the theory opens at its next pass. *)
LEMMA TheoryDecides ==
    ASSUME NEW s, SolverInv(s), NEW F, NEW L, NEW n, TheoryOk(s, F, L, n), InStep(s, F, L, n),
           Len(L) = DecisionLevel(s), n = Len(s.trail), NEW l \in Lits, NEW t, Decided(s, t, l)
    PROVE  TheoryOk(t, F, L, n) /\ InStep(t, F, L, n)
<1> DEFINE d == Len(s.lim)
<1>1. /\ d \in Nat /\ n \in Nat /\ Len(L) = d
      /\ Len(t.lim) = d + 1 /\ t.lim[d + 1] = n
      /\ \A j \in 1 .. d : t.lim[j] = s.lim[j] /\ s.lim[j] \in Nat
      /\ Len(t.trail) = n + 1 /\ \A i \in 1 .. n : t.trail[i] = s.trail[i]
  <2>1. /\ s.lim \in Seq(Nat) /\ s.trail \in Seq(Lits) /\ n \in Nat
        /\ t.lim = Append(s.lim, n) /\ t.trail = Append(s.trail, l)
    BY DEF SolverInv, SolverType, Decided, TheoryOk
  <2> QED BY <2>1, Appended DEF DecisionLevel
<1>2. ASSUME NEW i \in Nat, i <= n PROVE Told(t, i) = Told(s, i)
  <2>1. \A j \in 1 .. i : t.trail[j] = s.trail[j]
    BY <1>1, <1>2
  <2> QED BY <2>1, ToldPrefix
<1>3. \A j \in 1 .. d : s.lim[j] <= n /\ L[j] = Told(s, s.lim[j])
  BY <1>1 DEF TheoryOk, DecisionLevel
<1>4. F \in SUBSET Lits /\ L \in Seq(SUBSET Lits) /\ F = Told(s, n)
  BY DEF TheoryOk, InStep
<1>5. F = Told(t, n)
  BY <1>1, <1>2, <1>4
<1> HIDE DEF d
<1>6. ASSUME NEW j \in 1 .. d + 1
      PROVE  t.lim[j] <= n /\ (j <= Len(L) => L[j] = Told(t, t.lim[j]))
  <2>1. CASE j \in 1 .. d
    BY <1>1, <1>2, <1>3, <2>1
  <2>2. CASE j = d + 1
    BY <1>1, <2>2
  <2> QED BY <1>1, <2>1, <2>2, NextIndex
<1>7. TheoryOk(t, F, L, n)
  BY <1>1, <1>4, <1>5, <1>6 DEF TheoryOk, DecisionLevel
<1>8. InStep(t, F, L, n)
  BY <1>1, <1>5 DEF InStep, DecisionLevel
<1> QED BY <1>7, <1>8

(* analyze may have to backtrack first: the theory pops only afterwards. *)
LEMMA TheoryLags ==
    ASSUME NEW s, SolverInv(s), NEW F, NEW L, NEW n, TheoryOk(s, F, L, n),
           NEW k \in Nat, k < DecisionLevel(s), NEW t, Kept(s, t, k)
    PROVE  TheoryOk(t, F, L, n)
<1> DEFINE d == Len(s.lim)
<1>1. /\ d \in Nat /\ k < d /\ DecisionLevel(t) = k /\ \A j \in 1 .. k : t.lim[j] = s.lim[j]
      /\ Len(t.trail) = s.lim[k + 1] /\ Len(t.trail) \in Nat
      /\ \A i \in 1 .. Len(t.trail) : t.trail[i] = s.trail[i]
  <2>1. d \in Nat /\ k < d /\ s.lim[k + 1] \in Nat
    BY LowerLims DEF SolverInv
  <2>2. /\ Len(t.lim) = k /\ \A j \in 1 .. k : t.lim[j] = s.lim[j]
        /\ Len(t.trail) = s.lim[k + 1]
        /\ \A i \in 1 .. Len(t.trail) : t.trail[i] = s.trail[i]
    BY DEF Kept
  <2> QED BY <2>1, <2>2 DEF DecisionLevel
<1>2. /\ F \in SUBSET Lits /\ L \in Seq(SUBSET Lits) /\ n \in Nat /\ d <= Len(L) + 1
      /\ \A j \in 1 .. d : s.lim[j] <= n /\ (j <= Len(L) => L[j] = Told(s, s.lim[j]))
  BY DEF TheoryOk, DecisionLevel
<1>3. \A j \in 1 .. k : j \in 1 .. d /\ s.lim[j] \in Nat /\ s.lim[j] < s.lim[k + 1]
  BY LowerLims DEF SolverInv
<1>4. ASSUME NEW j \in 1 .. k PROVE Told(t, s.lim[j]) = Told(s, s.lim[j])
  <2>1. \A i \in 1 .. s.lim[j] : t.trail[i] = s.trail[i]
    BY <1>1, <1>3
  <2> QED BY <1>3, <2>1, ToldPrefix
<1>5. k <= Len(L) + 1 /\ ~(Len(L) < k) /\ Len(L) \in Nat
  BY <1>1, <1>2
<1> HIDE DEF d
<1> QED BY <1>1, <1>2, <1>3, <1>4, <1>5 DEF TheoryOk

(* resync_after_lemma. *)
LEMMA TheoryJumps ==
    ASSUME NEW s, SolverInv(s), NEW F, NEW L, NEW n, TheoryOk(s, F, L, n),
           NEW s1, NEW t, Jumped(s, s1, t), SolverInv(t), NEW G, NEW K, NEW p,
           p = Lower(Lower(n, Len(s1.trail)), Len(t.trail)),
           IF Len(L) > DecisionLevel(t)
           THEN G = L[DecisionLevel(t) + 1] /\ K = SubSeq(L, 1, DecisionLevel(t))
           ELSE G = F /\ K = L
    PROVE  TheoryOk(t, G, K, p) /\ InStep(t, G, K, p)
<1> DEFINE d == DecisionLevel(s)
           k == DecisionLevel(t)
           x == s.lim[k + 1]
<1>1. /\ k \in Nat /\ k < d /\ x \in Nat /\ \A j \in 1 .. k : t.lim[j] = s.lim[j]
      /\ \A i \in 1 .. x : t.trail[i] = s.trail[i]
      /\ Len(s1.trail) \in Nat /\ x <= Len(s1.trail) /\ x <= Len(t.trail)
      /\ x = Len(s1.trail) \/ x = Len(t.trail)
  BY DEF Jumped
<1>2. /\ F \in SUBSET Lits /\ L \in Seq(SUBSET Lits) /\ n \in Nat /\ d <= Len(L) + 1
      /\ \A j \in 1 .. d : s.lim[j] <= n /\ (j <= Len(L) => L[j] = Told(s, s.lim[j]))
      /\ Len(L) < d => n = s.lim[d] /\ F = Told(s, n)
  BY DEF TheoryOk
<1>3. d \in Nat /\ d = Len(s.lim) /\ Len(L) \in Nat /\ Len(t.trail) \in Nat
  BY <1>2, SMTT(30) DEF SolverInv, SolverType, DecisionLevel
<1>4. k + 1 \in 1 .. d
  BY <1>1, <1>3
<1>5. x <= n
  BY <1>2, <1>4
<1> HIDE DEF x
<1>6. p = x
  BY <1>1, <1>2, <1>3, <1>5 DEF Lower
<1>7. \A j \in 1 .. k : j \in 1 .. d /\ s.lim[j] \in Nat /\ s.lim[j] < x
  BY <1>1, <1>3, LowerLims DEF SolverInv, x
<1>8. Told(t, x) = Told(s, x)
  BY <1>1, ToldPrefix
<1>9. ASSUME NEW j \in 1 .. k PROVE Told(t, s.lim[j]) = Told(s, s.lim[j])
  <2>1. \A i \in 1 .. s.lim[j] : t.trail[i] = s.trail[i]
    BY <1>1, <1>7
  <2> QED BY <1>7, <2>1, ToldPrefix
<1>10. /\ K \in Seq(SUBSET Lits) /\ Len(K) = k /\ G = Told(s, x) /\ G \in SUBSET Lits
       /\ \A j \in 1 .. k : K[j] = L[j] /\ j <= Len(L)
  <2>1. CASE Len(L) > k
    <3>1. G = L[k + 1] /\ K = SubSeq(L, 1, k) /\ k \in 0 .. Len(L)
      BY <1>1, <1>3, <2>1
    <3>2. K \in Seq(SUBSET Lits) /\ Len(K) = k /\ \A j \in 1 .. k : K[j] = L[j]
      BY <1>2, <3>1, Prefix
    <3>3. k + 1 \in 1 .. Len(L) /\ \A j \in 1 .. k : j <= Len(L)
      BY <1>1, <1>3, <2>1
    <3>4. G = Told(s, x) /\ G \in SUBSET Lits
      BY <1>2, <1>4, <3>1, <3>3 DEF x
    <3> QED BY <3>2, <3>3, <3>4
  <2>2. CASE ~(Len(L) > k)
    <3>1. Len(L) = k /\ d = k + 1 /\ Len(L) < d
      BY <1>1, <1>2, <1>3, <2>2
    <3>2. F = Told(s, x) /\ G = F /\ K = L
      BY <1>2, <2>2, <3>1 DEF x
    <3> QED BY <1>2, <3>1, <3>2
  <2> QED BY <2>1, <2>2
<1> HIDE DEF d
<1>11. ASSUME NEW j \in 1 .. k PROVE t.lim[j] <= x /\ K[j] = Told(t, t.lim[j])
  <2>1. j \in 1 .. d /\ t.lim[j] = s.lim[j] /\ s.lim[j] \in Nat /\ s.lim[j] < x
    BY <1>1, <1>7
  <2>2. K[j] = L[j] /\ j <= Len(L)
    BY <1>10
  <2>3. L[j] = Told(s, s.lim[j])
    BY <1>2, <2>1, <2>2
  <2>4. Told(t, s.lim[j]) = Told(s, s.lim[j])
    BY <1>9
  <2> QED BY <1>1, <2>1, <2>2, <2>3, <2>4
<1>12. k <= Len(K) + 1 /\ ~(Len(K) < k)
  BY <1>1, <1>10
<1>13. TheoryOk(t, G, K, p)
  BY <1>1, <1>6, <1>10, <1>11, <1>12 DEF TheoryOk
<1>14. InStep(t, G, K, p)
  BY <1>1, <1>6, <1>8, <1>10 DEF InStep
<1> QED BY <1>13, <1>14

(* sync_theory_after_propagate and the notifications after it. *)
NewFacts(s, F, n) ==
    F \cup {s.trail[i] : i \in {j \in n + 1 .. Len(s.trail) : Var(s.trail[j]) \in Atoms}}
NewLevels(s, F, L) == L \o [i \in 1 .. (DecisionLevel(s) - Len(L)) |-> F]

(* A pass brings the theory up to date. *)
LEMMA TheorySyncs ==
    ASSUME NEW s, SolverInv(s), NEW F, NEW L, NEW n, TheoryOk(s, F, L, n), InStep(s, F, L, n),
           NEW G, G = NewFacts(s, F, n), NEW K, K = NewLevels(s, F, L)
    PROVE  /\ TheoryOk(s, G, K, Len(s.trail)) /\ InStep(s, G, K, Len(s.trail))
           /\ Len(K) = DecisionLevel(s)
<1> DEFINE d == DecisionLevel(s)
           N == Len(s.trail)
<1>1. /\ F \in SUBSET Lits /\ L \in Seq(SUBSET Lits) /\ n \in Nat /\ d <= Len(L) + 1
      /\ \A j \in 1 .. d : s.lim[j] <= n /\ (j <= Len(L) => L[j] = Told(s, s.lim[j]))
      /\ Len(L) < d => n = s.lim[d] /\ F = Told(s, n)
  BY DEF TheoryOk
<1>2. Len(L) <= d /\ n <= N /\ F = Told(s, n)
  BY DEF InStep
<1>3. d \in Nat /\ d = Len(s.lim) /\ Len(L) \in Nat /\ N \in Nat
  BY <1>1 DEF SolverInv, SolverType, DecisionLevel
<1>4. s.trail \in Seq(Lits) /\ s.lim \in Seq(Nat)
  BY DEF SolverInv, SolverType
<1>5. G = Told(s, N)
  <2>1. \A i : i \in 1 .. N <=> i \in 1 .. n \/ i \in n + 1 .. N
    BY <1>1, <1>2, <1>3
  <2>2. ASSUME NEW x PROVE x \in G <=> x \in Told(s, N)
    BY <1>2, <2>1 DEF Told, NewFacts
  <2> QED BY <2>2
<1>6. G \in SUBSET Lits
  <2>1. \A j \in n + 1 .. N : s.trail[j] \in Lits
    BY <1>1, <1>3, <1>4
  <2> QED BY <1>1, <2>1 DEF NewFacts
<1> DEFINE z == [i \in 1 .. (d - Len(L)) |-> F]
<1>7. z \in Seq(SUBSET Lits) /\ Len(z) = d - Len(L) /\ \A i \in 1 .. Len(z) : z[i] = F
  BY <1>1, <1>2, <1>3
<1>8. K = L \o z
  BY DEF NewLevels
<1> HIDE DEF z, d, N
<1>9. /\ K \in Seq(SUBSET Lits) /\ Len(K) = d
      /\ \A j \in 1 .. d : K[j] = IF j <= Len(L) THEN L[j] ELSE F
  <2>1. K \in Seq(SUBSET Lits) /\ Len(K) = d
    <3>1. L \o z \in Seq(SUBSET Lits) /\ Len(L \o z) = Len(L) + Len(z)
      BY <1>1, <1>7, Joined
    <3>2. Len(L) + Len(z) = d
      BY <1>3, <1>7
    <3> QED BY <1>8, <3>1, <3>2
  <2>2. ASSUME NEW j \in 1 .. d PROVE K[j] = IF j <= Len(L) THEN L[j] ELSE F
    <3>1. CASE j <= Len(L)
      <4>1. j \in 1 .. Len(L)
        BY <1>3, <3>1
      <4> QED BY <1>1, <1>7, <1>8, <3>1, <4>1, Joined
    <3>2. CASE ~(j <= Len(L))
      <4> DEFINE i == j - Len(L)
      <4>1. i \in 1 .. Len(z) /\ j = Len(L) + i
        BY <1>3, <1>7, <3>2
      <4> HIDE DEF i
      <4>2. K[Len(L) + i] = z[i]
        BY <1>1, <1>7, <1>8, <4>1, Joined
      <4> QED BY <1>7, <3>2, <4>1, <4>2
    <3> QED BY <3>1, <3>2
  <2> QED BY <2>1, <2>2
<1>10. ASSUME NEW j \in 1 .. d
       PROVE  s.lim[j] <= N /\ K[j] = Told(s, s.lim[j])
  <2>1. s.lim[j] \in Nat /\ s.lim[j] <= n
    BY <1>1, <1>3, <1>4
  <2>2. CASE j <= Len(L)
    BY <1>1, <1>2, <1>3, <1>9, <2>1, <2>2
  <2>3. CASE ~(j <= Len(L))
    <3>1. j = d /\ Len(L) < d
      BY <1>1, <1>3, <2>3
    <3> QED BY <1>1, <1>2, <1>3, <1>9, <2>1, <2>3, <3>1
  <2> QED BY <2>2, <2>3
<1>11. d <= Len(K) + 1 /\ ~(Len(K) < d) /\ Len(K) <= d /\ N <= N
  BY <1>3, <1>9
<1>12. TheoryOk(s, G, K, N)
  BY <1>3, <1>6, <1>9, <1>10, <1>11 DEF TheoryOk, d
<1>13. InStep(s, G, K, N)
  BY <1>5, <1>11 DEF InStep, d, N
<1> QED BY <1>9, <1>12, <1>13 DEF d, N

-----------------------------------------------------------------------------
(* analyze, one resolution.                                                *)

(* There are NVars variables. *)
LEMMA VarsFinite == IsFiniteSet(Vars) /\ Cardinality(Vars) = NVars
BY FS_Interval, SolverAssumption DEF Vars

AtLevel(s, V) == {v \in V : s.level[v] = DecisionLevel(s)}

(* The locals of analyze: seen variables are on the trail before idx, those *)
(* of lower levels are in the clause being learnt, the others are counted;  *)
(* and every model satisfies that clause, or the negation of the pivot or   *)
(* of a literal that is still to be resolved.                               *)
Refuted(s, a, m) ==
    \/ Satisfies(m, a.learnt)
    \/ ~Holds(m, a.pivot)
    \/ \E i \in 1 .. a.idx - 1 :
          /\ Var(s.trail[i]) \in a.seen /\ LevelOf(s, s.trail[i]) = DecisionLevel(s)
          /\ ~Holds(m, s.trail[i])

AnalysisFields == {"conf", "pivot", "seen", "learnt", "counter", "idx", "restarts"}

SeenOk(s, a) ==
    /\ a.idx \in 1 .. Len(s.trail) + 1
    /\ a.seen \in SUBSET Vars
    /\ \A v \in a.seen : \E i \in 1 .. a.idx - 1 : Var(s.trail[i]) = v
    /\ a.counter = Cardinality(AtLevel(s, a.seen))

LearntOk(s, a) ==
    /\ a.learnt \in SUBSET Lits
    /\ \A q \in a.learnt : LitValue(s, q) = "False" /\ LevelOf(s, q) \in 1 .. DecisionLevel(s) - 1
    /\ \A v \in a.seen : s.level[v] # DecisionLevel(s) => \E q \in a.learnt : Var(q) = v

Analyzing(s, a, M) ==
    /\ DOMAIN a = AnalysisFields /\ a.restarts \in BOOLEAN
    /\ DecisionLevel(s) > 0
    /\ SeenOk(s, a)
    /\ LearntOk(s, a)
    /\ a.pivot # 0 =>
          /\ a.pivot \in Lits /\ LitValue(s, a.pivot) = "True"
          /\ LevelOf(s, a.pivot) = DecisionLevel(s)
          /\ \A m \in M : Refuted(s, a, m)

(* The clause at hand is false but for the pivot, and reaches the current   *)
(* level.                                                                   *)
AtClause(s, a) ==
    /\ a.conf \in 1 .. Len(s.arena)
    /\ \A q \in s.arena[a.conf] \ {a.pivot} : \E j \in 1 .. a.idx - 1 : s.trail[j] = -q
    /\ \/ a.counter > 0
       \/ a.seen = {} /\ \E q \in s.arena[a.conf] \ {a.pivot} : LevelOf(s, q) = DecisionLevel(s)

NewMarks(s, a) ==
    {q \in s.arena[a.conf] : q # a.pivot /\ Var(q) \notin a.seen /\ LevelOf(s, q) > 0}
NewHere(s, a) == {q \in NewMarks(s, a) : LevelOf(s, q) = DecisionLevel(s)}
NewSeen(s, a) == a.seen \cup {Var(q) : q \in NewMarks(s, a)}

(* A marked literal is false, and was made false before an.idx. *)
LEMMA MarkFacts ==
    ASSUME NEW s, SolverInv(s), NEW a, NEW M, Analyzing(s, a, M), AtClause(s, a),
           NEW q \in NewMarks(s, a)
    PROVE  /\ q \in Lits /\ Var(q) \in Vars /\ LitValue(s, q) = "False"
           /\ LevelOf(s, q) \in 1 .. DecisionLevel(s) /\ LevelOf(s, q) = s.level[Var(q)]
           /\ \E j \in 1 .. a.idx - 1 : s.trail[j] = -q /\ Var(s.trail[j]) = Var(q)
<1>1. q \in s.arena[a.conf] \ {a.pivot} /\ LevelOf(s, q) > 0 /\ a.conf \in 1 .. Len(s.arena)
  BY DEF NewMarks, AtClause
<1>2. q \in Lits
  BY <1>1 DEF SolverInv, SolverType
<1>3. PICK j \in 1 .. a.idx - 1 : s.trail[j] = -q
  BY <1>1 DEF AtClause
<1>4. j \in 1 .. Len(s.trail)
  BY DEF Analyzing, SeenOk, LearntOk, SolverInv, SolverType
<1>5. LevelOf(s, -q) \in 0 .. DecisionLevel(s)
  BY <1>3, <1>4 DEF SolverInv, LevelsMatch, DecisionLevel
<1>6. Var(-q) = Var(q) /\ Var(q) \in Vars /\ LevelOf(s, -q) = LevelOf(s, q)
  BY <1>2, LitFacts DEF LevelOf
<1>7. LitValue(s, q) = "False"
  BY <1>2, <1>3, <1>4, OnTrail DEF SolverInv
<1>8. LevelOf(s, q) \in 1 .. DecisionLevel(s)
  BY <1>1, <1>5, <1>6
<1> QED BY <1>2, <1>3, <1>6, <1>7, <1>8 DEF LevelOf

(* A variable that is seen is on the trail before an.idx. *)
LEMMA SeenBefore ==
    ASSUME NEW s, SolverInv(s), NEW a, NEW M, Analyzing(s, a, M), AtClause(s, a)
    PROVE  /\ NewSeen(s, a) \in SUBSET Vars
           /\ \A v \in NewSeen(s, a) : \E i \in 1 .. a.idx - 1 : Var(s.trail[i]) = v
<1>1. \A q \in NewMarks(s, a) :
         Var(q) \in Vars /\ \E i \in 1 .. a.idx - 1 : Var(s.trail[i]) = Var(q)
  BY MarkFacts
<1>2. a.seen \in SUBSET Vars /\ \A v \in a.seen : \E i \in 1 .. a.idx - 1 : Var(s.trail[i]) = v
  BY DEF Analyzing, SeenOk, LearntOk
<1> QED BY <1>1, <1>2 DEF NewSeen

(* The counter counts the seen variables of the current level. *)
LEMMA CountSeen ==
    ASSUME NEW s, SolverInv(s), NEW a, NEW M, Analyzing(s, a, M), AtClause(s, a)
    PROVE  /\ IsFiniteSet(AtLevel(s, NewSeen(s, a)))
           /\ Cardinality(AtLevel(s, NewSeen(s, a))) = a.counter + Cardinality(NewHere(s, a))
           /\ AtLevel(s, NewSeen(s, a)) # {}
           /\ a.counter \in Nat /\ Cardinality(NewHere(s, a)) \in Nat
<1> DEFINE A == AtLevel(s, a.seen)
           H == NewHere(s, a)
           B == {Var(q) : q \in H}
           C == AtLevel(s, NewSeen(s, a))
<1>1. \A q \in NewMarks(s, a) :
         /\ q \in Lits /\ Var(q) \in Vars /\ LitValue(s, q) = "False"
         /\ LevelOf(s, q) = s.level[Var(q)] /\ Var(q) \notin a.seen
  BY MarkFacts DEF NewMarks
<1>2. /\ H \in SUBSET NewMarks(s, a)
      /\ \A q \in NewMarks(s, a) : q \in H <=> s.level[Var(q)] = DecisionLevel(s)
  BY <1>1 DEF NewHere
<1> HIDE DEF H
<1>3. C = A \cup B /\ A \cap B = {}
  <2>1. ASSUME NEW v \in C PROVE v \in A \cup B
    BY <1>2 DEF AtLevel, NewSeen
  <2>2. ASSUME NEW v \in A PROVE v \in C /\ v \notin B
    BY <1>1, <1>2 DEF AtLevel, NewSeen
  <2>3. ASSUME NEW v \in B PROVE v \in C
    BY <1>2 DEF AtLevel, NewSeen
  <2> QED BY <2>1, <2>2, <2>3
<1>4. IsFiniteSet(A) /\ IsFiniteSet(B) /\ IsFiniteSet(C)
  <2>1. a.seen \in SUBSET Vars /\ NewSeen(s, a) \in SUBSET Vars
    BY SeenBefore DEF Analyzing, SeenOk, LearntOk
  <2>2. A \in SUBSET Vars /\ C \in SUBSET Vars
    BY <2>1 DEF AtLevel
  <2>3. B \in SUBSET Vars
    BY <1>1, <1>2
  <2> HIDE DEF A, B, C
  <2> QED BY <2>2, <2>3, VarsFinite, FS_Subset
<1>5. IsFiniteSet(H) /\ Cardinality(H) = Cardinality(B)
  <2> DEFINE f == [q \in H |-> Var(q)]
  <2>1. ASSUME NEW p \in H, NEW q \in H, Var(p) = Var(q) PROVE p = q
    <3>1. /\ p \in Lits /\ q \in Lits /\ LitValue(s, p) = "False" /\ LitValue(s, q) = "False"
      BY <1>1, <1>2
    <3>2. p = q \/ p = -q
      BY <2>1, <3>1, LitFacts
    <3>3. LitValue(s, -q) = "True"
      BY <3>1, Values DEF SolverInv
    <3> QED BY <3>1, <3>2, <3>3
  <2>2. f \in [H -> B] /\ \A p, q \in H : f[p] = f[q] => p = q
    BY <2>1
  <2>3. \A v \in B : \E q \in H : f[q] = v
    OBVIOUS
  <2> HIDE DEF f, B
  <2>4. f \in Injection(H, B)
    BY <2>2 DEF Injection, IsInjective
  <2>5. f \in Surjection(H, B)
    BY <2>2, <2>3 DEF Surjection
  <2> QED BY <1>4, <2>4, <2>5, FS_Injection
<1>6. /\ Cardinality(A) \in Nat /\ Cardinality(B) \in Nat
      /\ Cardinality(C) = Cardinality(A) + Cardinality(B)
  <2> HIDE DEF A, B, C
  <2>1. Cardinality(A) \in Nat /\ Cardinality(B) \in Nat
    BY <1>4, FS_CardinalityType
  <2>2. Cardinality(A \cup B) = Cardinality(A) + Cardinality(B) - Cardinality(A \cap B)
    BY <1>4, FS_Union
  <2>3. Cardinality(A \cap B) = 0
    BY <1>3, FS_EmptySet
  <2> QED BY <1>3, <2>1, <2>2, <2>3
<1>7. C # {}
  <2>1. CASE a.counter > 0
    <3>1. A # {}
      <4> HIDE DEF A
      <4>1. ASSUME A = {} PROVE FALSE
        <5>1. Cardinality(A) = 0
          BY <4>1, FS_EmptySet
        <5> QED BY <2>1, <5>1 DEF Analyzing, SeenOk, LearntOk, A
      <4> QED BY <4>1
    <3> QED BY <1>3, <3>1
  <2>2. CASE a.seen = {} /\ \E q \in s.arena[a.conf] \ {a.pivot} : LevelOf(s, q) = DecisionLevel(s)
    <3>1. PICK q \in s.arena[a.conf] \ {a.pivot} : LevelOf(s, q) = DecisionLevel(s)
      BY <2>2
    <3>2. q \in NewMarks(s, a)
      BY <2>2, <3>1 DEF NewMarks, Analyzing, SeenOk, LearntOk
    <3>3. q \in H
      BY <3>1, <3>2 DEF NewHere, H
    <3> QED BY <1>3, <3>3
  <2> QED BY <2>1, <2>2 DEF AtClause
<1>8. a.counter = Cardinality(A)
  BY DEF Analyzing, SeenOk, LearntOk
<1> HIDE DEF A, B, C
<1> QED BY <1>4, <1>5, <1>6, <1>7, <1>8 DEF C, H

(* Walk to the last seen literal. *)
IsHit(s, a, i) == i \in 1 .. a.idx - 1 /\ Var(s.trail[i]) \in NewSeen(s, a)

(* The walk back finds a variable that is seen, at the last level. *)
LEMMA SomeHit ==
    ASSUME NEW s, SolverInv(s), NEW a, NEW M, Analyzing(s, a, M), AtClause(s, a)
    PROVE  \E i : IsHit(s, a, i) /\ LevelOf(s, s.trail[i]) = DecisionLevel(s)
<1>1. PICK v \in AtLevel(s, NewSeen(s, a)) : TRUE
  BY CountSeen
<1>2. v \in NewSeen(s, a) /\ s.level[v] = DecisionLevel(s)
  BY DEF AtLevel
<1>3. PICK i \in 1 .. a.idx - 1 : Var(s.trail[i]) = v
  BY <1>2, SeenBefore
<1> QED BY <1>2, <1>3 DEF IsHit, LevelOf

AtTop(s, i) ==
    /\ i \in 1 .. Len(s.trail) /\ s.trail[i] \in Lits /\ LitValue(s, s.trail[i]) = "True"
    /\ LevelOf(s, s.trail[i]) = DecisionLevel(s)

(* The first one it meets is at the last level. *)
LEMMA LastHit ==
    ASSUME NEW s, SolverInv(s), NEW a, NEW M, Analyzing(s, a, M), AtClause(s, a),
           NEW i, IsHit(s, a, i), \A j : IsHit(s, a, j) => j <= i
    PROVE  AtTop(s, i)
<1>1. PICK j : IsHit(s, a, j) /\ LevelOf(s, s.trail[j]) = DecisionLevel(s)
  BY SomeHit
<1>2. \A k : IsHit(s, a, k) => k \in 1 .. Len(s.trail)
  BY DEF IsHit, Analyzing, SeenOk, LearntOk, SolverInv, SolverType
<1>3. i \in 1 .. Len(s.trail) /\ j \in 1 .. Len(s.trail) /\ j <= i
  BY <1>1, <1>2
<1>4. s.trail[i] \in Lits /\ LitValue(s, s.trail[i]) = "True"
  BY <1>3 DEF SolverInv, SolverType, TrailMatches
<1>5. LevelOf(s, s.trail[i]) \in 0 .. DecisionLevel(s) /\ DecisionLevel(s) \in Nat
  BY <1>3 DEF SolverInv, SolverType, LevelsMatch, DecisionLevel
<1>6. ~(LevelOf(s, s.trail[i]) < LevelOf(s, s.trail[j]))
  <2>1. ASSUME LevelOf(s, s.trail[i]) < LevelOf(s, s.trail[j]) PROVE FALSE
    <3>1. i < j
      BY <1>3, <2>1, LevelOrder DEF SolverInv
    <3> QED BY <1>3, <3>1
  <2> QED BY <2>1
<1> QED BY <1>1, <1>3, <1>4, <1>5, <1>6 DEF AtTop

Walked(s, a, b, i) ==
    /\ DOMAIN b = AnalysisFields /\ b.restarts = a.restarts
    /\ b.conf = s.reason[Var(s.trail[i])] /\ b.pivot = s.trail[i] /\ b.idx = i
    /\ b.seen = NewSeen(s, a) \ {Var(s.trail[i])}
    /\ b.learnt = a.learnt \cup (NewMarks(s, a) \ NewHere(s, a))
    /\ b.counter = a.counter + Cardinality(NewHere(s, a)) - 1

(* What is seen and the counter stay in step. *)
LEMMA WalkSeen ==
    ASSUME NEW s, SolverInv(s), NEW a, NEW M, Analyzing(s, a, M), AtClause(s, a),
           NEW i, IsHit(s, a, i), \A j : IsHit(s, a, j) => j <= i, NEW b, Walked(s, a, b, i)
    PROVE  SeenOk(s, b)
<1>1. AtTop(s, i)
  BY LastHit
<1>2. i \in 1 .. Len(s.trail) /\ s.trail[i] \in Lits /\ LevelOf(s, s.trail[i]) = DecisionLevel(s)
  BY <1>1 DEF AtTop
<1>3. b.idx = i /\ b.seen = NewSeen(s, a) \ {Var(s.trail[i])}
  BY DEF Walked
<1>4. b.idx \in 1 .. Len(s.trail) + 1 /\ b.seen \in SUBSET Vars
  BY <1>2, <1>3, SeenBefore
<1>5. ASSUME NEW v \in b.seen PROVE \E j \in 1 .. i - 1 : Var(s.trail[j]) = v
  <2>1. v \in NewSeen(s, a) /\ v # Var(s.trail[i])
    BY <1>3
  <2>2. PICK j \in 1 .. a.idx - 1 : Var(s.trail[j]) = v
    BY <2>1, SeenBefore
  <2>3. j <= i /\ j # i
    BY <2>1, <2>2 DEF IsHit
  <2>4. j \in 1 .. i - 1
    BY <1>2, <2>2, <2>3 DEF Analyzing, SeenOk, LearntOk, SolverInv, SolverType
  <2> QED BY <2>2, <2>4
<1> DEFINE C == AtLevel(s, NewSeen(s, a))
           v == Var(s.trail[i])
<1> DEFINE n == a.counter
           h == Cardinality(NewHere(s, a))
<1>6. IsFiniteSet(C) /\ Cardinality(C) = n + h /\ n \in Nat /\ h \in Nat
  BY CountSeen
<1>7. v \in C /\ AtLevel(s, b.seen) = C \ {v}
  BY <1>2, <1>3 DEF AtLevel, IsHit, LevelOf
<1> HIDE DEF C, v
<1>8. Cardinality(C \ {v}) = Cardinality(C) - 1
  BY <1>6, <1>7, FS_RemoveElement
<1>9. b.counter = Cardinality(AtLevel(s, b.seen))
  <2>1. b.counter = n + h - 1
    BY Zenon DEF Walked
  <2> HIDE DEF n, h
  <2>2. b.counter = Cardinality(C) - 1
    BY <1>6, <2>1
  <2> QED BY <1>7, <1>8, <2>2
<1> QED BY <1>3, <1>4, <1>5, <1>9 DEF SeenOk

(* The literals kept for the learnt clause stay false, below the level. *)
LEMMA WalkLearnt ==
    ASSUME NEW s, SolverInv(s), NEW a, NEW M, Analyzing(s, a, M), AtClause(s, a),
           NEW i, IsHit(s, a, i), \A j : IsHit(s, a, j) => j <= i, NEW b, Walked(s, a, b, i)
    PROVE  LearntOk(s, b)
<1>1. b.learnt = a.learnt \cup (NewMarks(s, a) \ NewHere(s, a)) /\ b.seen \in SUBSET NewSeen(s, a)
  BY DEF Walked
<1>2. ASSUME NEW q \in b.learnt
      PROVE q \in Lits /\ LitValue(s, q) = "False" /\ LevelOf(s, q) \in 1 .. DecisionLevel(s) - 1
  <2>1. CASE q \in a.learnt
    BY <2>1 DEF Analyzing, SeenOk, LearntOk
  <2>2. CASE q \in NewMarks(s, a) \ NewHere(s, a)
    <3>1. /\ q \in Lits /\ LitValue(s, q) = "False" /\ LevelOf(s, q) \in 1 .. DecisionLevel(s)
      BY <2>2, MarkFacts
    <3>2. LevelOf(s, q) # DecisionLevel(s)
      BY <2>2 DEF NewHere
    <3>3. DecisionLevel(s) \in Nat
      BY DEF SolverInv, SolverType, DecisionLevel
    <3> QED BY <3>1, <3>2, <3>3
  <2> QED BY <1>1, <2>1, <2>2
<1>3. ASSUME NEW v \in b.seen, s.level[v] # DecisionLevel(s)
      PROVE  \E q \in b.learnt : Var(q) = v
  <2>1. CASE v \in a.seen
    BY <1>1, <1>3, <2>1 DEF Analyzing, SeenOk, LearntOk
  <2>2. CASE v \in {Var(q) : q \in NewMarks(s, a)}
    <3>1. PICK q \in NewMarks(s, a) : v = Var(q)
      BY <2>2
    <3>2. LevelOf(s, q) = s.level[v]
      BY <3>1, MarkFacts
    <3>3. q \notin NewHere(s, a)
      BY <1>3, <3>2 DEF NewHere
    <3> QED BY <1>1, <3>1, <3>3
  <2> QED BY <1>1, <2>1, <2>2 DEF NewSeen
<1> QED BY <1>2, <1>3 DEF LearntOk

(* What the resolvent says, the models satisfy. *)
LEMMA WalkRefutes ==
    ASSUME NEW s, SolverInv(s), NEW a, NEW M \in SUBSET Assignments, Follows(s, M),
           Analyzing(s, a, M), AtClause(s, a),
           NEW i, IsHit(s, a, i), \A j : IsHit(s, a, j) => j <= i, NEW b, Walked(s, a, b, i),
           NEW m \in M
    PROVE  Refuted(s, b, m)
<1>1. /\ b.pivot = s.trail[i] /\ b.idx = i /\ b.seen = NewSeen(s, a) \ {Var(s.trail[i])}
      /\ b.learnt = a.learnt \cup (NewMarks(s, a) \ NewHere(s, a))
  BY DEF Walked
<1>2. AtTop(s, i)
  BY LastHit
<1>3. i \in 1 .. Len(s.trail) /\ \A j \in 1 .. a.idx - 1 : j \in 1 .. Len(s.trail)
  BY <1>2 DEF AtTop, Analyzing, SeenOk, SolverInv, SolverType
<1>4. ASSUME NEW j \in 1 .. a.idx - 1, Var(s.trail[j]) \in NewSeen(s, a),
             LevelOf(s, s.trail[j]) = DecisionLevel(s), ~Holds(m, s.trail[j])
      PROVE  Refuted(s, b, m)
  <2>1. j <= i
    BY <1>4 DEF IsHit
  <2>2. CASE j = i
    BY <1>1, <1>4, <2>2 DEF Refuted
  <2>3. CASE j # i
    <3>1. j \in 1 .. i - 1
      BY <1>3, <2>1, <2>3
    <3>2. Var(s.trail[j]) # Var(s.trail[i])
      BY <1>3, <2>3 DEF SolverInv, TrailMatches
    <3> QED BY <1>1, <1>4, <3>1, <3>2 DEF Refuted
  <2> QED BY <2>2, <2>3
<1>5. CASE Satisfies(m, a.learnt)
  BY <1>1, <1>5 DEF Refuted, Satisfies
<1>6. PICK q \in s.arena[a.conf] : Holds(m, q)
  BY DEF Follows, Satisfies, AtClause
<1>7. CASE q = a.pivot /\ ~Satisfies(m, a.learnt)
  <2>1. q \in Lits
    BY DEF AtClause, SolverInv, SolverType
  <2>2. a.pivot # 0
    BY <1>7, <2>1, SolverAssumption DEF Lits, Vars
  <2>3. Refuted(s, a, m)
    BY <2>2 DEF Analyzing, SeenOk, LearntOk
  <2>4. PICK j \in 1 .. a.idx - 1 :
           /\ Var(s.trail[j]) \in a.seen /\ LevelOf(s, s.trail[j]) = DecisionLevel(s)
           /\ ~Holds(m, s.trail[j])
    BY <1>6, <1>7, <2>3 DEF Refuted
  <2> QED BY <1>4, <2>4 DEF NewSeen
<1>8. CASE q # a.pivot
  <2>1. PICK j \in 1 .. a.idx - 1 : s.trail[j] = -q
    BY <1>8 DEF AtClause
  <2>2. q \in Lits /\ Var(-q) = Var(q) /\ j \in 1 .. Len(s.trail) /\ -q \in Lits
    BY <1>3, LitFacts DEF AtClause, SolverInv, SolverType
  <2>3. m \in Assignments /\ ~Holds(m, -q)
    BY <1>6, <2>2, HoldsNeg
  <2>4. LevelOf(s, -q) = LevelOf(s, q) /\ LevelOf(s, q) = s.level[Var(q)]
    BY <2>2 DEF LevelOf
  <2>5. LevelOf(s, -q) \in 0 .. DecisionLevel(s)
    BY <2>1, <2>2 DEF SolverInv, LevelsMatch, DecisionLevel
  <2>6. LevelOf(s, q) > 0
    <3>1. LevelOf(s, -q) # 0
      BY <2>1, <2>2, <2>3 DEF Follows
    <3> QED BY <2>4, <2>5, <3>1
  <2>7. Var(q) \in NewSeen(s, a)
    BY <1>8, <2>6 DEF NewSeen, NewMarks
  <2>8. CASE LevelOf(s, q) = DecisionLevel(s)
    BY <1>4, <2>1, <2>2, <2>3, <2>4, <2>7, <2>8
  <2>9. CASE LevelOf(s, q) # DecisionLevel(s)
    <3>1. CASE q \in NewMarks(s, a)
      <4>1. q \in b.learnt
        BY <1>1, <2>9, <3>1 DEF NewHere
      <4> QED BY <1>6, <4>1 DEF Refuted, Satisfies
    <3>2. CASE q \notin NewMarks(s, a)
      <4>1. Var(q) \in a.seen
        BY <1>8, <2>6, <3>2 DEF NewMarks
      <4>2. PICK p \in a.learnt : Var(p) = Var(q)
        BY <2>4, <2>9, <4>1 DEF Analyzing, SeenOk, LearntOk
      <4>3. p \in Lits /\ LitValue(s, p) = "False"
        BY DEF Analyzing, SeenOk, LearntOk
      <4>4. LitValue(s, q) = "False"
        BY <2>1, <2>2, OnTrail DEF SolverInv
      <4>5. p = q \/ p = -q
        BY <2>2, <4>2, <4>3, LitFacts
      <4>6. LitValue(s, -q) = "True"
        BY <2>2, <4>4, Values DEF SolverInv
      <4>7. p = q
        BY <4>3, <4>5, <4>6
      <4> QED BY <1>6, <4>7, <1>5 DEF Satisfies
    <3> QED BY <3>1, <3>2
  <2> QED BY <2>8, <2>9
<1> QED BY <1>5, <1>7, <1>8

(* While others are to be resolved, the pivot is no decision.              *)
LEMMA WalkClause ==
    ASSUME NEW s, SolverInv(s), NEW a, NEW M, Analyzing(s, a, M), AtClause(s, a),
           NEW i, IsHit(s, a, i), \A j : IsHit(s, a, j) => j <= i, NEW b, Walked(s, a, b, i),
           b.counter # 0
    PROVE  AtClause(s, b)
<1>1. AtTop(s, i) /\ SeenOk(s, b)
  BY LastHit, WalkSeen
<1>2. /\ i \in 1 .. Len(s.trail) /\ s.trail[i] \in Lits /\ LevelOf(s, s.trail[i]) = DecisionLevel(s)
  BY <1>1 DEF AtTop
<1>3. /\ \A v \in b.seen : \E j \in 1 .. i - 1 : Var(s.trail[j]) = v
      /\ b.counter = Cardinality(AtLevel(s, b.seen)) /\ b.seen \in SUBSET Vars
  BY <1>1 DEF Walked, SeenOk
<1>4. AtLevel(s, b.seen) # {}
  BY <1>3, FS_EmptySet
<1>5. PICK j \in 1 .. i - 1 : LevelOf(s, s.trail[j]) = DecisionLevel(s)
  BY <1>3, <1>4 DEF AtLevel, LevelOf
<1> DEFINE d == Len(s.lim)
<1>6. d = DecisionLevel(s) /\ d \in Nat /\ d > 0 /\ d \in 1 .. d
  BY DEF DecisionLevel, SolverInv, SolverType, Analyzing, SeenOk, LearntOk
<1>7. \A k \in 1 .. d : s.lim[k] \in Nat /\ s.lim[k] < j
  <2>1. j \in 1 .. Len(s.trail)
    BY <1>2
  <2>2. s.lim \in Seq(Nat) /\ LevelsMatch(s)
    BY Zenon DEF SolverInv, SolverType
  <2>3. ASSUME NEW k \in 1 .. Len(s.lim) PROVE s.lim[k] < j <=> k <= LevelOf(s, s.trail[j])
    BY <2>1, <2>2, <2>3, Zenon DEF LevelsMatch
  <2>4. LevelOf(s, s.trail[j]) = d
    BY <1>5, <1>6
  <2>5. \A k \in 1 .. d : s.lim[k] \in Nat
    BY <2>2
  <2> QED BY <1>6, <2>3, <2>4, <2>5
<1>8. \A k \in 1 .. d : i # s.lim[k] + 1
  BY <1>2, <1>7
<1>9. s.reason[Var(s.trail[i])] # NoClause
  BY <1>2, <1>6, <1>8 DEF SolverInv, ReasonsMatch
<1>10. /\ b.conf \in 1 .. Len(s.arena)
      /\ \A q \in s.arena[b.conf] \ {b.pivot} : \E k \in 1 .. b.idx - 1 : s.trail[k] = -q
  BY <1>2, <1>9 DEF SolverInv, ReasonsMatch, Walked
<1>11. b.counter > 0
  <2>1. IsFiniteSet(AtLevel(s, b.seen))
    <3>1. AtLevel(s, b.seen) \in SUBSET Vars
      BY <1>3 DEF AtLevel
    <3> QED BY <3>1, VarsFinite, FS_Subset
  <2>2. b.counter \in Nat
    BY <1>3, <2>1, FS_CardinalityType
  <2> QED BY <2>2
<1> QED BY <1>10, <1>11 DEF AtClause

(* A turn of the loop of analyze. *)
LEMMA WalkKeeps ==
    ASSUME NEW s, SolverInv(s), NEW a, NEW M \in SUBSET Assignments, Follows(s, M),
           Analyzing(s, a, M), AtClause(s, a),
           NEW i, IsHit(s, a, i), \A j : IsHit(s, a, j) => j <= i, NEW b, Walked(s, a, b, i)
    PROVE  /\ Analyzing(s, b, M) /\ b.pivot # 0 /\ (b.counter # 0 => AtClause(s, b))
<1>1. /\ i \in 1 .. Len(s.trail) /\ s.trail[i] \in Lits /\ LitValue(s, s.trail[i]) = "True"
      /\ LevelOf(s, s.trail[i]) = DecisionLevel(s)
  <2>1. AtTop(s, i)
    BY LastHit
  <2> QED BY <2>1 DEF AtTop
<1>2. b.pivot = s.trail[i] /\ DOMAIN b = AnalysisFields /\ b.restarts \in BOOLEAN
  BY DEF Walked, Analyzing, SeenOk, LearntOk
<1>3. b.pivot # 0
  BY <1>1, <1>2, SolverAssumption DEF Lits, Vars
<1>4. \A m \in M : Refuted(s, b, m)
  BY WalkRefutes
<1>5. Analyzing(s, b, M)
  <2>1. SeenOk(s, b) /\ LearntOk(s, b)
    BY WalkSeen, WalkLearnt
  <2>2. DecisionLevel(s) > 0
    BY DEF Analyzing
  <2> QED BY <1>1, <1>2, <1>4, <2>1, <2>2 DEF Analyzing
<1> QED BY <1>3, <1>5, WalkClause

-----------------------------------------------------------------------------
(* propagate.                                                              *)

(* What is still in the queue has the current level. *)
LEMMA QueueAtLevel ==
    ASSUME NEW s, SolverInv(s), NEW i \in s.qhead + 1 .. Len(s.trail)
    PROVE  /\ i \in 1 .. Len(s.trail) /\ s.trail[i] \in Lits
           /\ LevelOf(s, s.trail[i]) = DecisionLevel(s) /\ LitValue(s, s.trail[i]) = "True"
<1> DEFINE d == Len(s.lim)
<1>1. d \in Nat /\ d = DecisionLevel(s) /\ s.qhead \in Nat /\ Len(s.trail) \in Nat
  BY DEF SolverInv, SolverType, DecisionLevel
<1>2. i \in 1 .. Len(s.trail)
  BY <1>1
<1>3. LevelOf(s, s.trail[i]) \in 0 .. d
  BY <1>2 DEF SolverInv, LevelsMatch
<1>4. CASE d > 0
  <2>1. d \in 1 .. d /\ s.lim[d] <= s.qhead /\ s.lim[d] \in Nat
    BY <1>1, <1>4 DEF SolverInv, SolverType, LevelsMatch
  <2>2. s.lim[d] < i
    BY <1>1, <2>1
  <2>3. d <= LevelOf(s, s.trail[i])
    BY <1>2, <2>1, <2>2 DEF SolverInv, LevelsMatch
  <2> HIDE DEF d
  <2>4. LevelOf(s, s.trail[i]) = d
    BY <1>1, <1>3, <2>3
  <2> QED BY <1>1, <1>2, <2>4 DEF SolverInv, SolverType, TrailMatches
<1>5. CASE d = 0
  BY <1>1, <1>2, <1>3, <1>5 DEF SolverInv, SolverType, TrailMatches
<1> QED BY <1>1, <1>4, <1>5

(* The trail, the levels and the clauses are as they were. *)
Stays(s, t) ==
    /\ SolverType(t)
    /\ t.assigns = s.assigns /\ t.level = s.level /\ t.reason = s.reason
    /\ t.trail = s.trail /\ t.lim = s.lim /\ t.arena = s.arena

(* Changes to the queue head and the watches keep the solver in order. *)
LEMMA StaysInv ==
    ASSUME NEW s, SolverInv(s), NEW t, Stays(s, t), s.qhead <= t.qhead,
           t.qhead <= Len(s.trail), WatchesMatch(t)
    PROVE  SolverInv(t)
<1>1. SolverType(t) /\ s.qhead \in Nat /\ t.qhead \in Nat /\ s.lim \in Seq(Nat)
  BY DEF SolverInv, SolverType, Stays
<1>2. \A l : LitValue(t, l) = LitValue(s, l) /\ LevelOf(t, l) = LevelOf(s, l)
  BY SameValues DEF Stays
<1>3. /\ t.assigns = s.assigns /\ t.reason = s.reason /\ t.trail = s.trail /\ t.lim = s.lim
      /\ t.arena = s.arena
  BY DEF Stays
<1>4. TrailMatches(t)
  BY <1>2, <1>3 DEF TrailMatches, SolverInv
<1>5. \A k \in 1 .. Len(t.lim) : t.lim[k] < Len(t.trail) /\ t.lim[k] <= t.qhead
  <2> SUFFICES ASSUME NEW k \in 1 .. Len(s.lim) PROVE s.lim[k] < Len(s.trail) /\ s.lim[k] <= t.qhead
    BY <1>3
  <2>1. s.lim[k] < Len(s.trail) /\ s.lim[k] <= s.qhead /\ s.lim[k] \in Nat
    BY <1>1 DEF LevelsMatch, SolverInv
  <2> QED BY <1>1, <2>1
<1>6. LevelsMatch(t)
  BY <1>2, <1>3, <1>5 DEF LevelsMatch, SolverInv
<1>7. ReasonsMatch(t)
  BY <1>2, <1>3 DEF ReasonsMatch, SolverInv
<1> QED BY <1>1, <1>4, <1>6, <1>7 DEF SolverInv

(* They change no clause and no value. *)
LEMMA StaysFollows ==
    ASSUME NEW s, NEW M, Follows(s, M), NEW t, Stays(s, t)
    PROVE  Follows(t, M)
<1>1. \A l : LevelOf(t, l) = LevelOf(s, l)
  BY SameValues DEF Stays
<1>2. t.trail = s.trail /\ t.arena = s.arena
  BY DEF Stays
<1> QED BY <1>1, <1>2 DEF Follows

(* The head of the queue is taken: the watchers of its negation are next. *)
LEMMA TakeHead ==
    ASSUME NEW s, SolverInv(s), s.qhead < Len(s.trail), Watching(s, 0, {}),
           NEW p, p = s.trail[s.qhead + 1], NEW t, t = [s EXCEPT !.qhead = @ + 1]
    PROVE  /\ SolverInv(t) /\ Stays(s, t) /\ RootKept(s, t) /\ Watching(t, -p, s.watches[-p])
           /\ t.watches = s.watches
           /\ -p \in Lits /\ LitValue(t, -p) = "False" /\ LevelOf(t, -p) = DecisionLevel(t)
<1>1. /\ s.qhead \in Nat /\ Len(s.trail) \in Nat /\ DOMAIN s = Fields
  BY DEF SolverInv, SolverType
<1> DEFINE n == s.qhead + 1
<1>2. n \in s.qhead + 1 .. Len(s.trail) /\ n \in Nat
  BY <1>1
<1>3. /\ p \in Lits /\ LevelOf(s, p) = DecisionLevel(s) /\ LitValue(s, p) = "True"
  BY <1>2, QueueAtLevel
<1>4. /\ DOMAIN t = Fields /\ t.qhead = n
      /\ t.assigns = s.assigns /\ t.level = s.level /\ t.reason = s.reason
      /\ t.trail = s.trail /\ t.lim = s.lim /\ t.arena = s.arena
      /\ t.watches = s.watches /\ t.heap = s.heap
  BY <1>1 DEF Fields
<1>5. SolverType(t)
  BY <1>2, <1>4 DEF SolverType, SolverInv
<1>6. Stays(s, t)
  BY <1>4, <1>5 DEF Stays
<1>7. WatchesMatch(t)
  BY <1>4 DEF WatchesMatch, SolverInv
<1>8. SolverInv(t)
  <2>1. s.qhead <= t.qhead /\ t.qhead <= Len(s.trail)
    BY <1>1, <1>4
  <2> QED BY <1>6, <1>7, <2>1, StaysInv
<1>9. \A l : LitValue(t, l) = LitValue(s, l) /\ LevelOf(t, l) = LevelOf(s, l)
  BY <1>4, SameValues
<1>10. RootKept(s, t)
  BY <1>4, <1>9 DEF RootKept
<1>11. Watching(t, -p, s.watches[-p])
  <2> SUFFICES ASSUME NEW l \in Lits, NEW c \in s.watches[l]
               PROVE \E w \in Lits : /\ c \in s.watches[w]
                                     /\ GoodWatch(t, w) \/ (w = -p /\ c \in s.watches[-p])
    BY <1>4 DEF Watching
  <2>1. PICK w \in Lits : c \in s.watches[w] /\ GoodWatch(s, w)
    BY DEF Watching
  <2>2. CASE LitValue(s, w) # "False"
    BY <1>9, <2>1, <2>2 DEF GoodWatch
  <2>3. CASE \E i \in s.qhead + 1 .. Len(s.trail) : s.trail[i] = -w
    <3>1. PICK i \in s.qhead + 1 .. Len(s.trail) : s.trail[i] = -w
      BY <2>3
    <3>2. CASE i = n
      <4>1. w = -p
        BY <3>1, <3>2, LitFacts
      <4> QED BY <2>1, <4>1
    <3>3. CASE i # n
      <4>1. i \in t.qhead + 1 .. Len(t.trail) /\ t.trail[i] = -w
        BY <1>1, <1>4, <3>1, <3>3
      <4> QED BY <2>1, <4>1 DEF GoodWatch
    <3> QED BY <3>2, <3>3
  <2> QED BY <2>1, <2>2, <2>3 DEF GoodWatch
<1>12. -p \in Lits /\ LitValue(s, -p) = "False" /\ LevelOf(s, -p) = LevelOf(s, p)
  BY <1>3, LitFacts, Values DEF SolverInv, LevelOf
<1> QED BY <1>3, <1>4, <1>6, <1>8, <1>9, <1>10, <1>11, <1>12 DEF DecisionLevel

(* A visited watcher with a watch that is good leaves the rest. *)
LEMMA WatchVisited ==
    ASSUME NEW s, NEW lit, NEW rest, Watching(s, lit, rest), NEW c,
           NEW w \in Lits, c \in s.watches[w], GoodWatch(s, w)
    PROVE  Watching(s, lit, rest \ {c})
BY DEF Watching

(* A watch moves from lit to another literal of the clause. *)
Moved(s, t, c, lit, new) ==
    /\ SolverType(t)
    /\ \A l \in Lits : \A d : d \in t.watches[l] <=>
          (l = new /\ d = c) \/ (d \in s.watches[l] /\ ~(l = lit /\ d = c))

MovedWatch(s, c, lit, new) ==
    [s EXCEPT !.watches[lit] = @ \ {c}, !.watches[new] = @ \cup {c}]

(* Moving a watch, field by field. *)
LEMMA MoveFields ==
    ASSUME NEW s, SolverInv(s), NEW lit \in Lits, NEW new \in Lits, lit # new, NEW c \in Nat,
           NEW t, t = MovedWatch(s, c, lit, new)
    PROVE  Moved(s, t, c, lit, new) /\ Stays(s, t) /\ t.qhead = s.qhead
<1> DEFINE f == [s.watches EXCEPT ![lit] = @ \ {c}]
           g == [f EXCEPT ![new] = @ \cup {c}]
<1>1. DOMAIN s = Fields /\ s.watches \in [Lits -> SUBSET Nat]
  BY DEF SolverInv, SolverType
<1>2. /\ DOMAIN t = Fields /\ t.qhead = s.qhead
      /\ t.assigns = s.assigns /\ t.level = s.level /\ t.reason = s.reason
      /\ t.trail = s.trail /\ t.lim = s.lim /\ t.arena = s.arena
      /\ t.watches = g /\ t.heap = s.heap
  BY <1>1 DEF Fields, MovedWatch
<1>3. f \in [Lits -> SUBSET Nat]
  BY <1>1
<1>4. g \in [Lits -> SUBSET Nat]
  BY <1>3
<1>5. \A l \in Lits : g[l] = IF l = new THEN s.watches[l] \cup {c}
                             ELSE IF l = lit THEN s.watches[l] \ {c} ELSE s.watches[l]
  BY <1>1, <1>3
<1>6. ASSUME NEW l \in Lits, NEW d
      PROVE  d \in g[l] <=> (l = new /\ d = c) \/ (d \in s.watches[l] /\ ~(l = lit /\ d = c))
  <2> HIDE DEF g, f
  <2> QED BY <1>5
<1> HIDE DEF f, g
<1>7. SolverType(t)
  BY <1>2, <1>4 DEF SolverType, SolverInv
<1> QED BY <1>2, <1>7, <1>6 DEF Moved, Stays

(* Moving a watch to a literal that is not false. *)
LEMMA MoveKeeps ==
    ASSUME NEW s, SolverInv(s), NEW lit \in Lits, NEW new \in Lits, lit # new,
           NEW c \in s.watches[lit], new \in s.arena[c], LitValue(s, new) # "False",
           NEW rest, Watching(s, lit, rest),
           NEW t, t = MovedWatch(s, c, lit, new)
    PROVE  /\ SolverInv(t) /\ Stays(s, t) /\ RootKept(s, t) /\ Watching(t, lit, rest \ {c})
           /\ \A d \in s.watches[lit] : d # c => d \in t.watches[lit]
<1>1. c \in 1 .. Len(s.arena) /\ c \in Nat
  BY DEF SolverInv, WatchesMatch
<1>2. Moved(s, t, c, lit, new) /\ Stays(s, t) /\ t.qhead = s.qhead
  BY <1>1, MoveFields
<1>3. \A l \in Lits : \A d : d \in t.watches[l] => d \in s.watches[l] \/ (l = new /\ d = c)
  BY <1>2 DEF Moved
<1>4. \A l \in Lits : \A d : d \in s.watches[l] => d \in t.watches[l] \/ (l = lit /\ d = c)
  BY <1>2 DEF Moved
<1>5. c \in t.watches[new]
  BY <1>2 DEF Moved
<1>6. /\ \A l : LitValue(t, l) = LitValue(s, l) /\ LevelOf(t, l) = LevelOf(s, l)
      /\ t.trail = s.trail /\ t.arena = s.arena
  BY <1>2, SameValues DEF Stays
<1>7. WatchesMatch(t)
  BY <1>1, <1>3, <1>6 DEF WatchesMatch, SolverInv
<1>8. SolverInv(t)
  <2>1. s.qhead <= t.qhead /\ t.qhead <= Len(s.trail)
    BY <1>2 DEF SolverInv, SolverType, LevelsMatch
  <2> QED BY <1>2, <1>7, <2>1, StaysInv
<1>9. RootKept(s, t)
  <2>1. ASSUME NEW l \in Lits, NEW d \in s.watches[l] PROVE \E q \in Lits : d \in t.watches[q]
    BY <1>4, <1>5
  <2> QED BY <1>6, <2>1 DEF RootKept
<1>10. \A w : GoodWatch(s, w) => GoodWatch(t, w)
  BY <1>2, <1>6 DEF GoodWatch
<1>11. ASSUME NEW l \in Lits, NEW d \in t.watches[l]
       PROVE  \E w \in Lits : /\ d \in t.watches[w]
                              /\ GoodWatch(t, w) \/ (w = lit /\ d \in rest \ {c})
  <2>1. CASE d = c
    BY <1>5, <1>6, <2>1 DEF GoodWatch
  <2>2. CASE d # c
    <3>1. d \in s.watches[l]
      BY <1>3, <1>11, <2>2
    <3>2. PICK w \in Lits : d \in s.watches[w] /\ (GoodWatch(s, w) \/ (w = lit /\ d \in rest))
      BY <3>1 DEF Watching
    <3> QED BY <1>4, <1>10, <2>2, <3>2
  <2> QED BY <2>1, <2>2
<1> QED BY <1>2, <1>4, <1>8, <1>9, <1>11 DEF Watching

(* A decision turns a literal false that is still in the queue. *)
LEMMA WatchDecide ==
    ASSUME NEW s, SolverInv(s), NEW l \in Lits, LitValue(s, l) = "Undef",
           s.qhead = Len(s.trail), NEW t, Decided(s, t, l), Watching(s, 0, {})
    PROVE  Watching(t, 0, {})
<1> DEFINE n == Len(s.trail)
<1>1. /\ t.qhead = n /\ t.watches = s.watches /\ LitValue(t, l) = "True"
      /\ \A q \in Lits : Var(q) # Var(l) => LitValue(t, q) = LitValue(s, q)
  BY DEF Decided
<1>2. n \in Nat /\ Len(t.trail) = n + 1 /\ t.trail[n + 1] = l
  BY Appended DEF SolverInv, SolverType, Decided
<1>3. ASSUME NEW w \in Lits, GoodWatch(s, w) PROVE GoodWatch(t, w)
  <2>1. LitValue(s, w) # "False"
    BY <1>2, <1>3 DEF GoodWatch
  <2>2. CASE w = -l
    <3>1. n + 1 \in t.qhead + 1 .. Len(t.trail) /\ t.trail[n + 1] = -w
      BY <1>1, <1>2, <2>2, LitFacts
    <3> QED BY <3>1 DEF GoodWatch
  <2>3. CASE w # -l
    <3>1. w = l \/ Var(w) # Var(l)
      BY <2>3, LitFacts
    <3> QED BY <1>1, <2>1, <3>1 DEF GoodWatch
  <2> QED BY <2>2, <2>3
<1> QED BY <1>1, <1>3 DEF Watching

-----------------------------------------------------------------------------
(* A full trail assigns every variable. *)

(* By counting: NVars literals of different variables are all of them. *)
LEMMA FullTrail ==
    ASSUME NEW s, SolverInv(s), AllAssigned(s), NEW v \in Vars
    PROVE  s.assigns[v] # "Undef" /\ \E i \in 1 .. Len(s.trail) : Var(s.trail[i]) = v
<1> DEFINE n == Len(s.trail)
           f == [i \in 1 .. n |-> Var(s.trail[i])]
<1>1. n \in Nat /\ n = NVars /\ \A i \in 1 .. n : s.trail[i] \in Lits /\ Var(s.trail[i]) \in Vars
  BY LitFacts DEF SolverInv, SolverType, AllAssigned
<1>2. f \in [1 .. n -> Vars] /\ \A i, j \in 1 .. n : f[i] = f[j] => i = j
  BY <1>1 DEF SolverInv, TrailMatches
<1> HIDE DEF f
<1>3. f \in Injection(1 .. n, Vars)
  BY <1>2 DEF Injection, IsInjective
<1>4. IsFiniteSet(1 .. n) /\ Cardinality(1 .. n) = n
  BY <1>1, FS_Interval
<1>5. f \in Surjection(1 .. n, Vars)
  <2>1. Cardinality(1 .. n) = Cardinality(Vars)
    BY <1>1, <1>4, VarsFinite
  <2> QED BY <1>3, <1>4, <2>1, VarsFinite, FS_Injection
<1>6. PICK i \in 1 .. n : f[i] = v
  BY <1>5 DEF Surjection
<1>7. Var(s.trail[i]) = v
  BY <1>6 DEF f
<1>8. LitValue(s, s.trail[i]) # "Undef"
  BY <1>6 DEF SolverInv, TrailMatches
<1>9. s.assigns[v] # "Undef"
  BY <1>1, <1>6, <1>7, <1>8, Values DEF SolverInv
<1> QED BY <1>6, <1>7, <1>9

-----------------------------------------------------------------------------
(* The inductive invariant.                                                *)

Models == {m \in theory : IsModel(m)}

(* Every input clause is still to be added, or the solver has it. *)
Inputs ==
    /\ todo \in Seq(SUBSET Lits)
    /\ \A j \in 1 .. Len(todo) : \E i \in 1 .. Len(formula) : todo[j] = formula[i]
    /\ \A i \in 1 .. Len(formula) :
          Covered(sat, formula[i]) \/ \E j \in 1 .. Len(todo) : todo[j] = formula[i]

Loading ==
    /\ loading \in BOOLEAN
    /\ loading => DecisionLevel(sat) = 0 /\ pc \in {"load", "propagate", "scan"}
    /\ ~loading => todo = <<>> /\ pc # "load"

Scanning ==
    IF pc = "scan"
    THEN /\ DOMAIN scan = {"lit", "rest"} /\ scan.lit \in Lits
         /\ LitValue(sat, scan.lit) = "False" /\ LevelOf(sat, scan.lit) = DecisionLevel(sat)
         /\ scan.rest \in SUBSET sat.watches[scan.lit]
    ELSE scan = NoScan

(* Where the loop is, and what it relies on there. *)
AtPc ==
    /\ pc \in {"load", "loop", "propagate", "scan", "analyze", "learn", "sync", "theory", "check"}
    /\ pc \in {"analyze", "learn"} => WatchingBelow(sat) /\ Analyzing(sat, an, Models)
    /\ pc = "analyze" => AtClause(sat, an)
    /\ pc = "learn" => an.pivot # 0 /\ an.counter = 0
    /\ pc \notin {"analyze", "learn"} =>
          Watching(sat, scan.lit, scan.rest) /\ InStep(sat, facts, levels, notified)
    /\ pc = "sync" => sat.qhead = Len(sat.trail)
    /\ pc \in {"theory", "check"} => sat.qhead = notified /\ Len(levels) = DecisionLevel(sat)
    /\ pc = "check" => notified = Len(sat.trail)

Running ==
    /\ verdict = "running"
    /\ Follows(sat, Models)
    /\ Inputs
    /\ TheoryOk(sat, facts, levels, notified)
    /\ Loading
    /\ Scanning
    /\ AtPc

IInv ==
    /\ formula \in Formulas
    /\ theory \in Theories
    /\ SolverInv(sat)
    /\ AnswersRight
    /\ pc # "done" => Running

(* The models are assignments that satisfy every input clause. *)
LEMMA ModelFacts ==
    ASSUME formula \in Formulas, theory \in Theories
    PROVE  /\ Models \in SUBSET Assignments /\ theory \in SUBSET Assignments
           /\ formula \in Seq(SUBSET Lits)
           /\ \A m \in Models :
                 m \in theory /\ \A i \in 1 .. Len(formula) : Satisfies(m, formula[i])
           /\ \A m \in theory : IsModel(m) => m \in Models
BY CdclTAssumption DEF Models, IsModel

(* Input clauses dealt with stay dealt with. *)
LEMMA StillInputs ==
    ASSUME formula \in Seq(SUBSET Lits), Inputs, UNCHANGED <<formula, todo>>, RootKept(sat, sat')
    PROVE  Inputs'
<1>1. ASSUME NEW i \in 1 .. Len(formula), Covered(sat, formula[i]) PROVE Covered(sat', formula[i])
  <2>1. formula[i] \in SUBSET Lits
    OBVIOUS
  <2> QED BY <1>1, <2>1, StillCovered
<1> QED BY <1>1 DEF Inputs

(* The initial states satisfy it. *)
LEMMA InitKeeps == Init => IInv
<1> SUFFICES ASSUME Init PROVE IInv
  OBVIOUS
<1> USE DEF Init
<1> DEFINE s == NewSolver
<1>1. /\ DOMAIN s = Fields /\ s.trail = <<>> /\ s.lim = <<>> /\ s.qhead = 0 /\ s.arena = <<>>
      /\ s.assigns = [v \in Vars |-> "Undef"] /\ s.level = [v \in Vars |-> -1]
      /\ s.reason = [v \in Vars |-> NoClause] /\ s.watches = [l \in Lits |-> {}]
      /\ s.heap = Vars
  BY DEF NewSolver, Fields
<1> HIDE DEF s
<1>2. SolverType(s)
  BY <1>1 DEF SolverType, NoClause
<1>3. SolverInv(s)
  BY <1>1, <1>2 DEF SolverInv, TrailMatches, LevelsMatch, ReasonsMatch, WatchesMatch
<1>4. Follows(s, Models)
  BY <1>1 DEF Follows
<1>5. DecisionLevel(s) = 0
  BY <1>1 DEF DecisionLevel
<1>6. Told(s, 0) = {}
  BY DEF Told
<1>7. TheoryOk(s, {}, <<>>, 0) /\ InStep(s, {}, <<>>, 0)
  BY <1>1, <1>5, <1>6 DEF TheoryOk, InStep
<1>8. Watching(s, NoScan.lit, NoScan.rest)
  BY <1>1 DEF Watching
<1>9. sat = s
  BY DEF s
<1>10. Inputs
  BY ModelFacts DEF Inputs
<1>11. Loading /\ Scanning
  BY <1>5, <1>9 DEF Loading, Scanning
<1>12. AtPc
  BY <1>7, <1>8, <1>9 DEF AtPc
<1>13. AnswersRight
  BY DEF AnswersRight
<1> QED BY <1>3, <1>4, <1>7, <1>9, <1>10, <1>11, <1>12, <1>13 DEF IInv, Running

(* The answer is no, and no assignment is a model. *)
LEMMA FinishUnsat ==
    ASSUME IInv, UNCHANGED <<formula, theory, sat, giveUp>>, Finish("unsat"), Models = {}
    PROVE  IInv'
<1>1. \A m \in theory : ~IsModel(m)
  BY ModelFacts DEF IInv
<1>2. AnswersRight'
  BY <1>1 DEF AnswersRight, Finish, IsModel, IInv
<1> QED BY <1>2 DEF IInv, Finish

(* The answer is unknown. *)
LEMMA FinishUnknown ==
    ASSUME IInv, UNCHANGED <<formula, theory, sat, giveUp>>, Finish("unknown")
    PROVE  IInv'
<1>1. AnswersRight'
  BY DEF AnswersRight, Finish, IInv
<1> QED BY <1>1 DEF IInv, Finish

(* Steps that only move on. *)
LEMMA MoveOn ==
    ASSUME IInv, Running, UNCHANGED <<formula, theory, todo, sat>>,
           UNCHANGED <<facts, levels, notified, giveUp, verdict>>,
           Loading', Scanning', AtPc'
    PROVE  IInv'
<1>1. Models' = Models
  BY DEF Models, IsModel
<1>2. Inputs'
  BY DEF Inputs, Running
<1>3. Follows(sat, Models)'
  BY <1>1 DEF Running
<1>4. TheoryOk(sat, facts, levels, notified)'
  BY DEF Running
<1>5. AnswersRight'
  BY DEF AnswersRight, Running, IInv
<1>6. Running'
  BY <1>2, <1>3, <1>4 DEF Running
<1> QED BY <1>5, <1>6 DEF IInv

(* StartLoop keeps the invariant. *)
LEMMA StartLoopKeeps == IInv /\ StartLoop => IInv'
<1> SUFFICES ASSUME IInv, StartLoop PROVE IInv'
  OBVIOUS
<1>1. Running
  BY DEF IInv, StartLoop
<1>2. Loading' /\ Scanning' /\ AtPc'
  BY <1>1 DEF Running, StartLoop, Loading, Scanning, AtPc, theoryVars
<1> QED BY <1>1, <1>2, MoveOn DEF StartLoop, problem, theoryVars

(* BeginIteration keeps the invariant. *)
LEMMA BeginIterationKeeps == IInv /\ BeginIteration => IInv'
<1> SUFFICES ASSUME IInv, BeginIteration PROVE IInv'
  OBVIOUS
<1>1. Running
  BY DEF IInv, BeginIteration
<1>2. CASE Finish("unknown")
  BY <1>2, FinishUnknown DEF BeginIteration, problem
<1>3. CASE pc' = "propagate" /\ UNCHANGED verdict
  <2>1. Loading' /\ Scanning' /\ AtPc'
    BY <1>1, <1>3 DEF Running, BeginIteration, Loading, Scanning, AtPc, theoryVars, loadVars
  <2> QED BY <1>1, <1>3, <2>1, MoveOn DEF BeginIteration, problem, theoryVars, loadVars
<1> QED BY <1>2, <1>3 DEF BeginIteration

(* Quiet keeps the invariant. *)
LEMMA QuietKeeps == IInv /\ Quiet => IInv'
<1> SUFFICES ASSUME IInv, Quiet PROVE IInv'
  OBVIOUS
<1>1. Running
  BY DEF IInv, Quiet
<1>2. Loading' /\ Scanning' /\ AtPc'
  BY <1>1 DEF Running, Quiet, Loading, Scanning, AtPc, theoryVars, loadVars
<1> QED BY <1>1, <1>2, MoveOn DEF Quiet, problem, theoryVars, loadVars

(* ScanEnd keeps the invariant. *)
LEMMA ScanEndKeeps == IInv /\ ScanEnd => IInv'
<1> SUFFICES ASSUME IInv, ScanEnd PROVE IInv'
  OBVIOUS
<1>1. Running
  BY DEF IInv, ScanEnd
<1>2. Watching(sat, scan.lit, scan.rest) /\ scan.rest = {}
  BY <1>1 DEF Running, ScanEnd, AtPc
<1>3. Watching(sat, NoScan.lit, NoScan.rest)
  BY <1>2 DEF Watching
<1>4. Loading' /\ Scanning' /\ AtPc'
  BY <1>1, <1>3 DEF Running, ScanEnd, Loading, Scanning, AtPc, theoryVars, loadVars
<1> QED BY <1>1, <1>4, MoveOn DEF ScanEnd, problem, theoryVars, loadVars

(* TheoryRoundEnds keeps the invariant. *)
LEMMA TheoryRoundEndsKeeps == IInv /\ TheoryRoundEnds => IInv'
<1> SUFFICES ASSUME IInv, TheoryRoundEnds PROVE IInv'
  OBVIOUS
<1>1. Running
  BY DEF IInv, TheoryRoundEnds
<1>2. notified \in Nat /\ Len(sat.trail) \in Nat /\ notified <= Len(sat.trail)
  BY <1>1 DEF Running, TheoryRoundEnds, AtPc, InStep, TheoryOk, IInv, SolverInv, SolverType
<1>3. ~(Len(sat.trail) > notified) => notified = Len(sat.trail)
  BY <1>2
<1>4. Loading' /\ Scanning' /\ AtPc'
  BY <1>1, <1>3 DEF Running, TheoryRoundEnds, Loading, Scanning, AtPc, theoryVars, loadVars
<1> QED BY <1>1, <1>4, MoveOn DEF TheoryRoundEnds, problem, theoryVars, loadVars

(* Stuttering keeps the invariant. *)
LEMMA TerminatedKeeps == IInv /\ UNCHANGED vars => IInv'
<1> SUFFICES ASSUME IInv, UNCHANGED vars PROVE IInv'
  OBVIOUS
<1> USE DEF vars
<1>1. Models' = Models
  BY DEF Models, IsModel
<1>2. AnswersRight'
  BY DEF AnswersRight, IInv, AllAssigned, IsModel, Assignment
<1>3. Running => Running'
  BY <1>1 DEF Running, Inputs, Loading, Scanning, AtPc
<1> QED BY <1>2, <1>3 DEF IInv

-----------------------------------------------------------------------------
(* Steps of propagate.                                                     *)

(* Steps that change the solver and answer nothing. *)
LEMMA Continue ==
    ASSUME IInv, Running, UNCHANGED <<formula, theory, todo, giveUp, verdict>>,
           SolverInv(sat'), Follows(sat', Models), RootKept(sat, sat'),
           TheoryOk(sat', facts', levels', notified'), Loading', Scanning', AtPc'
    PROVE  IInv'
<1>1. Models' = Models
  BY DEF Models, IsModel
<1>2. Inputs'
  BY StillInputs, ModelFacts DEF IInv, Running
<1>3. AnswersRight'
  BY DEF AnswersRight, Running, IInv
<1>4. Running'
  BY <1>1, <1>2 DEF Running
<1> QED BY <1>3, <1>4 DEF IInv

(* The theory looks at the trail and its limits only. *)
LEMMA TheoryStays ==
    ASSUME NEW s, SolverInv(s), NEW F, NEW L, NEW n, TheoryOk(s, F, L, n), InStep(s, F, L, n),
           NEW t, t.lim = s.lim, t.trail = s.trail
    PROVE  TheoryOk(t, F, L, n) /\ InStep(t, F, L, n)
<1>1. Len(t.trail) \in Nat /\ Len(s.trail) <= Len(t.trail)
  BY DEF SolverInv, SolverType
<1> QED BY <1>1, TheoryExtends

(* NextLiteral keeps the invariant: the head leaves the queue, its *)
(* watchers are to visit.                                          *)
LEMMA NextLiteralKeeps == IInv /\ NextLiteral => IInv'
<1> SUFFICES ASSUME IInv, NextLiteral PROVE IInv'
  OBVIOUS
<1>1. /\ Running /\ pc = "propagate" /\ pc' = "scan"
      /\ UNCHANGED <<formula, theory, todo, loading, an, facts, levels, notified, giveUp, verdict>>
  BY DEF IInv, NextLiteral, problem, theoryVars, loadVars
<1>2. /\ SolverInv(sat) /\ Follows(sat, Models) /\ TheoryOk(sat, facts, levels, notified)
      /\ Watching(sat, scan.lit, scan.rest) /\ InStep(sat, facts, levels, notified)
      /\ scan = NoScan /\ Loading
  BY <1>1 DEF IInv, Running, AtPc, Scanning
<1> DEFINE p == sat.trail[sat.qhead + 1]
<1>3. /\ sat.qhead < Len(sat.trail) /\ sat' = [sat EXCEPT !.qhead = @ + 1]
      /\ scan' = [lit |-> -p, rest |-> sat.watches[-p]]
  BY DEF NextLiteral
<1>4. Watching(sat, 0, {})
  BY <1>2 DEF NoScan
<1> HIDE DEF p
<1>5. /\ SolverInv(sat') /\ Stays(sat, sat') /\ RootKept(sat, sat')
      /\ Watching(sat', -p, sat.watches[-p]) /\ sat'.watches = sat.watches
      /\ -p \in Lits /\ LitValue(sat', -p) = "False" /\ LevelOf(sat', -p) = DecisionLevel(sat')
  BY <1>2, <1>3, <1>4, TakeHead DEF p
<1>6. sat'.lim = sat.lim /\ sat'.trail = sat.trail
  BY <1>5 DEF Stays
<1>7. TheoryOk(sat', facts', levels', notified') /\ InStep(sat', facts', levels', notified')
  BY <1>1, <1>2, <1>6, TheoryStays
<1>8. Follows(sat', Models)
  BY <1>2, <1>5, StaysFollows
<1>9. Loading'
  BY <1>1, <1>2, <1>6 DEF Loading, DecisionLevel
<1>10. Scanning'
  BY <1>1, <1>3, <1>5 DEF Scanning
<1>11. AtPc'
  BY <1>1, <1>3, <1>5, <1>7 DEF AtPc
<1> QED BY <1>1, <1>5, <1>7, <1>8, <1>9, <1>10, <1>11, Continue

(* The watcher c at hand, and its other watch. *)
AtWatcher(c, other) ==
    /\ IInv /\ Running /\ pc = "scan" /\ c \in scan.rest /\ other \in Lits /\ other # scan.lit
    /\ c \in sat.watches[other]
    /\ UNCHANGED <<formula, theory, todo, loading, facts, levels, notified, giveUp>>

(* What holds when propagate is at a watcher. *)
LEMMA WatcherFacts ==
    ASSUME NEW c, NEW other, AtWatcher(c, other)
    PROVE  /\ SolverInv(sat) /\ Follows(sat, Models) /\ TheoryOk(sat, facts, levels, notified)
           /\ Watching(sat, scan.lit, scan.rest) /\ InStep(sat, facts, levels, notified)
           /\ Loading /\ Scanning /\ scan.lit \in Lits /\ DOMAIN scan = {"lit", "rest"}
           /\ LitValue(sat, scan.lit) = "False" /\ LevelOf(sat, scan.lit) = DecisionLevel(sat)
           /\ c \in sat.watches[scan.lit] /\ scan.rest \in SUBSET sat.watches[scan.lit]
           /\ c \in 1 .. Len(sat.arena) /\ sat.arena[c] \in SUBSET Lits
           /\ scan.lit \in sat.arena[c] /\ other \in sat.arena[c]
           /\ \A q \in sat.arena[c] : q \notin Replacements(c, other) =>
                 LitValue(sat, q) = "False" \/ q = other
<1>1. /\ SolverInv(sat) /\ Follows(sat, Models) /\ TheoryOk(sat, facts, levels, notified)
      /\ Watching(sat, scan.lit, scan.rest) /\ InStep(sat, facts, levels, notified)
      /\ Loading /\ Scanning
  BY DEF AtWatcher, IInv, Running, AtPc
<1>2. /\ scan.lit \in Lits /\ DOMAIN scan = {"lit", "rest"}
      /\ LitValue(sat, scan.lit) = "False" /\ LevelOf(sat, scan.lit) = DecisionLevel(sat)
      /\ c \in sat.watches[scan.lit] /\ scan.rest \in SUBSET sat.watches[scan.lit]
  BY <1>1 DEF Scanning, AtWatcher
<1>3. /\ c \in 1 .. Len(sat.arena) /\ scan.lit \in sat.arena[c] /\ other \in sat.arena[c]
  BY <1>1, <1>2 DEF SolverInv, WatchesMatch, AtWatcher
<1>4. sat.arena[c] \in SUBSET Lits
  BY <1>1, <1>3 DEF SolverInv, SolverType
<1>5. ASSUME NEW q \in sat.arena[c], q \notin Replacements(c, other)
      PROVE  LitValue(sat, q) = "False" \/ q = other
  BY <1>2, <1>5 DEF Replacements
<1> QED BY <1>1, <1>2, <1>3, <1>4, <1>5

(* The scan goes on after c. *)
LEMMA ScanOn ==
    ASSUME NEW c, NEW other, AtWatcher(c, other),
           SolverInv(sat'), Follows(sat', Models), RootKept(sat, sat'),
           TheoryOk(sat', facts, levels, notified), InStep(sat', facts, levels, notified),
           Watching(sat', scan.lit, scan.rest \ {c}), sat'.lim = sat.lim,
           LitValue(sat', scan.lit) = "False", LevelOf(sat', scan.lit) = DecisionLevel(sat),
           \A d \in sat.watches[scan.lit] : d # c => d \in sat'.watches[scan.lit],
           scan' = [scan EXCEPT !.rest = @ \ {c}], UNCHANGED <<an, verdict, pc>>
    PROVE  IInv'
<1>1. /\ DOMAIN scan = {"lit", "rest"} /\ scan.lit \in Lits
      /\ scan.rest \in SUBSET sat.watches[scan.lit]
  BY WatcherFacts
<1>2. DOMAIN scan' = {"lit", "rest"} /\ scan'.lit = scan.lit /\ scan'.rest = scan.rest \ {c}
  BY <1>1
<1>3. /\ IInv /\ Running /\ pc = "scan" /\ Loading /\ pc' = "scan"
      /\ UNCHANGED <<formula, theory, todo, loading, facts, levels, notified, giveUp>>
  BY WatcherFacts DEF AtWatcher
<1>4. DecisionLevel(sat') = DecisionLevel(sat)
  BY DEF DecisionLevel
<1>5. Loading'
  BY <1>3, <1>4 DEF Loading
<1>6. scan'.rest \in SUBSET sat'.watches[scan.lit]
  BY <1>1, <1>2
<1>7. Scanning'
  BY <1>1, <1>2, <1>3, <1>4, <1>6 DEF Scanning
<1>8. AtPc'
  BY <1>2, <1>3 DEF AtPc
<1> QED BY <1>3, <1>5, <1>7, <1>8, Continue

(* The other watch is true. *)
LEMMA KeepWatchKeeps ==
    ASSUME NEW c, NEW other, AtWatcher(c, other), KeepWatch(c, other)
    PROVE  IInv'
<1>1. sat' = sat /\ LitValue(sat, other) = "True"
  BY DEF KeepWatch
<1>2. Watching(sat, scan.lit, scan.rest \ {c})
  BY <1>1, WatcherFacts, WatchVisited DEF AtWatcher, GoodWatch
<1>3. RootKept(sat, sat')
  BY <1>1 DEF RootKept
<1> QED BY <1>1, <1>2, <1>3, WatcherFacts, ScanOn DEF KeepWatch

(* Another literal takes over. *)
LEMMA MoveWatchKeeps ==
    ASSUME NEW c, NEW other, AtWatcher(c, other), MoveWatch(c, other)
    PROVE  IInv'
<1>1. PICK new \in Replacements(c, other) :
         sat' = [sat EXCEPT !.watches[scan.lit] = @ \ {c}, !.watches[new] = @ \cup {c}]
  BY DEF MoveWatch
<1> DEFINE s == sat
           t == sat'
           lit == scan.lit
           rest == scan.rest
<1>2. t = MovedWatch(s, c, lit, new)
  BY <1>1 DEF MovedWatch
<1>3. /\ new \in Lits /\ new # lit /\ new \in s.arena[c] /\ LitValue(s, new) # "False"
  BY WatcherFacts DEF Replacements
<1>4. /\ SolverInv(s) /\ Follows(s, Models) /\ TheoryOk(s, facts, levels, notified)
      /\ Watching(s, lit, rest) /\ InStep(s, facts, levels, notified) /\ lit \in Lits
      /\ LitValue(s, lit) = "False" /\ LevelOf(s, lit) = DecisionLevel(s) /\ c \in s.watches[lit]
  BY WatcherFacts
<1> HIDE DEF s, t, lit, rest
<1>5. /\ SolverInv(t) /\ Stays(s, t) /\ RootKept(s, t) /\ Watching(t, lit, rest \ {c})
      /\ \A d \in s.watches[lit] : d # c => d \in t.watches[lit]
  BY <1>2, <1>3, <1>4, MoveKeeps
<1>6. /\ Follows(t, Models) /\ t.lim = s.lim /\ t.trail = s.trail
      /\ LitValue(t, lit) = LitValue(s, lit) /\ LevelOf(t, lit) = LevelOf(s, lit)
  BY <1>4, <1>5, StaysFollows, SameValues DEF Stays
<1>7. TheoryOk(t, facts, levels, notified) /\ InStep(t, facts, levels, notified)
  BY <1>4, <1>6, TheoryStays
<1> QED BY <1>4, <1>5, <1>6, <1>7, ScanOn DEF MoveWatch, s, t, lit, rest

(* The clause is unit: it forces its other watch. *)
LEMMA UnitPropagateKeeps ==
    ASSUME NEW c, NEW other, AtWatcher(c, other), UnitPropagate(c, other)
    PROVE  IInv'
<1> DEFINE s == sat
           t == sat'
           lit == scan.lit
           rest == scan.rest
<1>1. t = Enqueue(s, other, c) /\ LitValue(s, other) = "Undef" /\ Replacements(c, other) = {}
  BY DEF UnitPropagate
<1>2. /\ SolverInv(s) /\ Follows(s, Models) /\ TheoryOk(s, facts, levels, notified)
      /\ Watching(s, lit, rest) /\ InStep(s, facts, levels, notified) /\ lit \in Lits
      /\ LitValue(s, lit) = "False" /\ LevelOf(s, lit) = DecisionLevel(s) /\ c \in s.watches[lit]
      /\ c \in 1 .. Len(s.arena) /\ other \in s.arena[c] /\ other \in Lits /\ c \in s.watches[other]
      /\ \A q \in s.arena[c] : LitValue(s, q) = "False" \/ q = other
  BY <1>1, WatcherFacts DEF AtWatcher
<1>3. Models \in SUBSET Assignments
  BY ModelFacts DEF AtWatcher, IInv
<1> HIDE DEF s, t, lit, rest
<1>4. c \in Nat /\ c # NoClause /\ Forces(s, c, other)
  BY <1>2 DEF Forces, NoClause
<1>5. Enqueued(s, t, other, c)
  BY <1>1, <1>2, <1>4, EnqueueFields DEF SolverInv
<1>6. SolverInv(t)
  BY <1>1, <1>2, <1>4, <1>5, EnqueueKeeps
<1>7. Follows(t, Models)
  BY <1>2, <1>3, <1>4, <1>5, <1>6, FollowsEnqueue
<1>8. RootKept(s, t)
  BY <1>1, <1>2, <1>4, <1>5, RootEnqueue DEF SolverInv
<1>9. t.lim = s.lim /\ t.watches = s.watches /\ t.trail = Append(s.trail, other)
  BY <1>5 DEF Enqueued
<1>10. TheoryOk(t, facts, levels, notified) /\ InStep(t, facts, levels, notified)
  <2>1. /\ Len(t.trail) \in Nat /\ Len(s.trail) <= Len(t.trail)
        /\ \A i \in 1 .. Len(s.trail) : t.trail[i] = s.trail[i]
    BY <1>2, <1>9, Appended DEF SolverInv, SolverType
  <2> QED BY <1>2, <1>9, <2>1, TheoryExtends
<1>11. /\ LitValue(t, other) = "True"
       /\ \A q \in Lits : Var(q) # Var(other) =>
             LitValue(t, q) = LitValue(s, q) /\ LevelOf(t, q) = LevelOf(s, q)
  BY <1>2, <1>4, <1>5, EnqueueValues DEF SolverInv
<1>12. Var(lit) # Var(other)
  <2>1. SolverType(s)
    BY <1>2 DEF SolverInv
  <2>2. s.assigns[Var(other)] = "Undef" /\ s.assigns[Var(lit)] # "Undef"
    BY <1>1, <1>2, <2>1, Values
  <2> QED BY <2>2
<1>13. Watching(t, lit, rest \ {c})
  <2>1. Watching(t, lit, rest)
    BY <1>1, <1>2, <1>4, <1>5, WatchEnqueue
  <2>2. GoodWatch(t, other)
    BY <1>11 DEF GoodWatch
  <2> QED BY <1>2, <1>9, <2>1, <2>2, WatchVisited
<1> QED BY <1>2, <1>6, <1>7, <1>8, <1>9, <1>10, <1>11, <1>12, <1>13, ScanOn
        DEF UnitPropagate, s, t, lit, rest

(* A false literal has a level, and its negation is on the trail. *)
LEMMA FalseLevel ==
    ASSUME NEW s, SolverInv(s), NEW q \in Lits, LitValue(s, q) = "False"
    PROVE  LevelOf(s, q) \in 0 .. DecisionLevel(s) /\ \E i \in 1 .. Len(s.trail) : s.trail[i] = -q
<1>1. PICK i \in 1 .. Len(s.trail) : s.trail[i] = -q
  BY OnTrail DEF SolverInv
<1>2. LevelOf(s, -q) \in 0 .. DecisionLevel(s)
  BY <1>1 DEF SolverInv, LevelsMatch, DecisionLevel
<1>3. LevelOf(s, -q) = LevelOf(s, q)
  BY LitFacts DEF LevelOf
<1> QED BY <1>1, <1>2, <1>3

(* A clause that is false at level 0 leaves no model. *)
LEMMA RootConflict ==
    ASSUME NEW s, SolverInv(s), NEW M \in SUBSET Assignments, Follows(s, M),
           NEW c \in SUBSET Lits, \A m \in M : Satisfies(m, c),
           \A q \in c : LitValue(s, q) = "False" /\ LevelOf(s, q) <= 0
    PROVE  M = {}
<1> SUFFICES ASSUME NEW m \in M PROVE FALSE
  OBVIOUS
<1>1. PICK q \in c : Holds(m, q)
  BY DEF Satisfies
<1>2. ~Holds(m, q)
  BY FalseAtRoot
<1> QED BY <1>1, <1>2

-----------------------------------------------------------------------------
(* Steps of analyze.                                                       *)

Analysis(s, c, r) == [NoAnalysis EXCEPT !.conf = c, !.idx = Len(s.trail) + 1, !.restarts = r]
Counted(s) == [s EXCEPT !.conflicts = @ + 1]

(* analyze is entered with a clause false at the last level. *)
LEMMA AnalysisStarts ==
    ASSUME NEW s, SolverInv(s), NEW M, Follows(s, M), WatchingBelow(s), DecisionLevel(s) > 0,
           NEW c \in 1 .. Len(s.arena), \A q \in s.arena[c] : LitValue(s, q) = "False",
           \E q \in s.arena[c] : LevelOf(s, q) = DecisionLevel(s), NEW r \in BOOLEAN,
           NEW t, t = Counted(s), NEW a, a = Analysis(s, c, r)
    PROVE  /\ SolverInv(t) /\ Same(s, t) /\ Follows(t, M) /\ WatchingBelow(t) /\ RootKept(s, t)
           /\ Analyzing(t, a, M) /\ AtClause(t, a)
<1>1. DOMAIN s = Fields /\ s.heap \in SUBSET Vars /\ s.arena[c] \in SUBSET Lits
  BY DEF SolverInv, SolverType
<1>2. Same(s, t)
  BY <1>1 DEF Same, Fields, Counted
<1>3. SolverInv(t) /\ Follows(t, M) /\ RootKept(s, t)
  BY <1>2, SameKeeps, FollowsSame, RootSame
<1>4. /\ \A l : LitValue(t, l) = LitValue(s, l) /\ LevelOf(t, l) = LevelOf(s, l)
      /\ t.trail = s.trail /\ t.lim = s.lim /\ t.arena = s.arena /\ t.watches = s.watches
      /\ t.level = s.level
  BY <1>2, SameValues DEF Same
<1>5. DecisionLevel(t) = DecisionLevel(s)
  BY <1>4 DEF DecisionLevel
<1>6. WatchingBelow(t)
  BY <1>4, <1>5 DEF WatchingBelow
<1>7. /\ DOMAIN a = AnalysisFields /\ a.conf = c /\ a.pivot = 0 /\ a.seen = {} /\ a.learnt = {}
      /\ a.counter = 0 /\ a.idx = Len(s.trail) + 1 /\ a.restarts = r
  BY DEF Analysis, NoAnalysis, AnalysisFields
<1>8. AtLevel(t, {}) = {}
  BY DEF AtLevel
<1>9. Cardinality(AtLevel(t, {})) = 0
  BY <1>8, FS_EmptySet
<1>10. Len(s.trail) \in Nat
  BY DEF SolverInv, SolverType
<1>11. SeenOk(t, a) /\ LearntOk(t, a)
  BY <1>4, <1>7, <1>9, <1>10, NextIndex DEF SeenOk, LearntOk
<1>12. Analyzing(t, a, M)
  BY <1>5, <1>7, <1>11 DEF Analyzing
<1>13. ASSUME NEW q \in t.arena[a.conf] \ {a.pivot}
       PROVE  \E j \in 1 .. a.idx - 1 : t.trail[j] = -q
  <2>1. q \in Lits /\ LitValue(s, q) = "False"
    BY <1>1, <1>4, <1>7
  <2>2. PICK i \in 1 .. Len(s.trail) : s.trail[i] = -q
    BY <2>1, FalseLevel
  <2>3. i \in 1 .. a.idx - 1
    BY <1>7, <1>10
  <2> QED BY <1>4, <2>2, <2>3
<1>14. \E q \in t.arena[a.conf] \ {a.pivot} : LevelOf(t, q) = DecisionLevel(t)
  <2>1. PICK q \in s.arena[c] : LevelOf(s, q) = DecisionLevel(s)
    OBVIOUS
  <2>2. q # 0
    BY <1>1, SolverAssumption DEF Lits, Vars
  <2> QED BY <1>4, <1>5, <1>7, <2>1, <2>2
<1>15. AtClause(t, a)
  BY <1>4, <1>7, <1>13, <1>14 DEF AtClause
<1> QED BY <1>2, <1>3, <1>6, <1>12, <1>15

(* The clause is false: unsat at level 0, else analyze. *)
LEMMA ConflictKeeps ==
    ASSUME NEW c, NEW other, AtWatcher(c, other), Conflict(c, other)
    PROVE  IInv'
<1> DEFINE s == sat
           t == sat'
           a == an'
           lit == scan.lit
           rest == scan.rest
<1>1. /\ SolverInv(s) /\ Follows(s, Models) /\ TheoryOk(s, facts, levels, notified)
      /\ Watching(s, lit, rest) /\ InStep(s, facts, levels, notified) /\ lit \in Lits
      /\ LitValue(s, lit) = "False" /\ LevelOf(s, lit) = DecisionLevel(s)
      /\ c \in 1 .. Len(s.arena) /\ s.arena[c] \in SUBSET Lits /\ lit \in s.arena[c] /\ Loading
  BY WatcherFacts
<1>2. \A q \in s.arena[c] : LitValue(s, q) = "False"
  BY WatcherFacts DEF Conflict
<1>3. Models \in SUBSET Assignments
  BY ModelFacts DEF AtWatcher, IInv
<1>4. CASE DecisionLevel(s) = 0 /\ Finish("unsat") /\ UNCHANGED <<sat, an>>
  <2> HIDE DEF s, t, a, lit, rest
  <2>1. \A m \in Models : Satisfies(m, s.arena[c])
    BY <1>1 DEF Follows
  <2>2. ASSUME NEW q \in s.arena[c] PROVE LevelOf(s, q) <= 0
    BY <1>1, <1>2, <1>4, FalseLevel
  <2>3. Models = {}
    BY <1>1, <1>2, <1>3, <2>1, <2>2, RootConflict
  <2> QED BY <1>4, <2>3, FinishUnsat DEF AtWatcher
<1>5. CASE DecisionLevel(s) > 0 /\ StartAnalysis(s, c, TRUE)
  <2>1. /\ t = Counted(s) /\ a = Analysis(s, c, TRUE) /\ pc' = "analyze" /\ verdict' = verdict
        /\ scan' = NoScan
    BY <1>5 DEF StartAnalysis, Counted, Analysis, Conflict
  <2> HIDE DEF s, t, a, lit, rest
  <2>2. WatchingBelow(s)
    BY <1>1, <1>5, WatchBelow
  <2>3. /\ SolverInv(t) /\ Same(s, t) /\ Follows(t, Models) /\ WatchingBelow(t) /\ RootKept(s, t)
        /\ Analyzing(t, a, Models) /\ AtClause(t, a)
    BY <1>1, <1>2, <1>5, <2>1, <2>2, AnalysisStarts
  <2>4. t.lim = s.lim /\ t.trail = s.trail
    BY <2>3 DEF Same
  <2>5. TheoryOk(t, facts, levels, notified)
    BY <1>1, <2>4, TheoryStays
  <2>6. Models' = Models
    BY DEF Models, IsModel, AtWatcher
  <2>7. Loading'
    BY <1>1, <1>5, <2>1, <2>4 DEF Loading, AtWatcher, DecisionLevel, s
  <2>8. Scanning'
    BY <2>1 DEF Scanning
  <2>9. AtPc'
    BY <2>1, <2>3, <2>6 DEF AtPc, t, a
  <2> QED BY <2>1, <2>3, <2>5, <2>7, <2>8, <2>9, Continue DEF AtWatcher, s, t
<1> QED BY <1>4, <1>5 DEF Conflict

(* VisitWatcher keeps the invariant. *)
LEMMA VisitWatcherKeeps == IInv /\ VisitWatcher => IInv'
<1> SUFFICES ASSUME IInv, VisitWatcher PROVE IInv'
  OBVIOUS
<1>1. PICK c \in scan.rest, other \in Lits :
         /\ other # scan.lit /\ c \in sat.watches[other]
         /\ \/ KeepWatch(c, other)
            \/ MoveWatch(c, other)
            \/ UnitPropagate(c, other)
            \/ Conflict(c, other)
  BY DEF VisitWatcher
<1>2. AtWatcher(c, other)
  BY <1>1 DEF AtWatcher, VisitWatcher, IInv, problem, loadVars, theoryVars
<1> QED BY <1>1, <1>2, KeepWatchKeeps, MoveWatchKeeps, UnitPropagateKeeps, ConflictKeeps

(* Resolve keeps the invariant: its give-up exits are never taken. *)
LEMMA ResolveKeeps == IInv /\ Resolve => IInv'
<1> SUFFICES ASSUME IInv, Resolve PROVE IInv'
  OBVIOUS
<1>1. /\ Running /\ pc = "analyze"
      /\ UNCHANGED <<formula, theory, todo, loading, sat, scan, facts, levels, notified>>
  BY DEF IInv, Resolve, problem, theoryVars, loadVars
<1>2. /\ SolverInv(sat) /\ Follows(sat, Models) /\ TheoryOk(sat, facts, levels, notified)
      /\ WatchingBelow(sat) /\ Analyzing(sat, an, Models) /\ AtClause(sat, an)
      /\ Loading /\ Scanning /\ Models \in SUBSET Assignments
  BY <1>1, ModelFacts DEF IInv, Running, AtPc
<1>3. an.conf # NoClause
  BY <1>2 DEF AtClause, NoClause
<1>4. Marked = NewMarks(sat, an)
  BY DEF Marked, NewMarks
<1> DEFINE here == {q \in Marked : LevelOf(sat, q) = DecisionLevel(sat)}
           seen == an.seen \cup {Var(q) : q \in Marked}
           hits == {i \in 1..(an.idx - 1) : Var(sat.trail[i]) \in seen}
           Walk(i) ==
               [an EXCEPT !.conf    = sat.reason[Var(sat.trail[i])],
                          !.pivot   = sat.trail[i],
                          !.seen    = seen \ {Var(sat.trail[i])},
                          !.learnt  = @ \cup (Marked \ here),
                          !.counter = @ + Cardinality(here) - 1,
                          !.idx     = i]
<1>5. here = NewHere(sat, an) /\ seen = NewSeen(sat, an)
  BY <1>4 DEF NewHere, NewSeen
<1>6. \A i : i \in hits <=> IsHit(sat, an, i)
  BY <1>5 DEF IsHit
<1>7. hits # {}
  BY <1>2, <1>6, SomeHit
<1>8. PICK i \in hits :
         /\ \A j \in hits : j <= i
         /\ an' = Walk(i)
         /\ pc' = IF an'.counter = 0 THEN "learn" ELSE "analyze"
         /\ UNCHANGED <<giveUp, verdict>>
  BY <1>3, <1>7 DEF Resolve
<1>9. IsHit(sat, an, i) /\ \A j : IsHit(sat, an, j) => j <= i
  BY <1>6, <1>8
<1> HIDE DEF here, seen, hits
<1>10. Walked(sat, an, an', i)
  <2>1. DOMAIN an = AnalysisFields
    BY <1>2 DEF Analyzing
  <2>2. /\ DOMAIN an' = AnalysisFields /\ an'.restarts = an.restarts
        /\ an'.conf = sat.reason[Var(sat.trail[i])] /\ an'.pivot = sat.trail[i] /\ an'.idx = i
        /\ an'.seen = seen \ {Var(sat.trail[i])}
        /\ an'.learnt = an.learnt \cup (Marked \ here)
        /\ an'.counter = an.counter + Cardinality(here) - 1
    BY <1>8, <2>1 DEF AnalysisFields
  <2> QED BY <1>4, <1>5, <2>2 DEF Walked
<1>11. /\ Analyzing(sat, an', Models) /\ an'.pivot # 0
       /\ an'.counter # 0 => AtClause(sat, an')
  BY <1>2, <1>9, <1>10, WalkKeeps
<1>12. Models' = Models
  BY <1>1 DEF Models, IsModel
<1>13. RootKept(sat, sat')
  BY <1>1 DEF RootKept
<1>14. pc' \in {"learn", "analyze"}
  BY <1>8, Zenon
<1>15. Loading' /\ Scanning'
  BY <1>1, <1>2, <1>14 DEF Loading, Scanning
<1>16. AtPc'
  <2>1. CASE an'.counter = 0
    BY <1>1, <1>2, <1>8, <1>11, <1>12, <2>1 DEF AtPc
  <2>2. CASE an'.counter # 0
    BY <1>1, <1>2, <1>8, <1>11, <1>12, <2>2 DEF AtPc
  <2> QED BY <2>1, <2>2
<1> QED BY <1>1, <1>2, <1>8, <1>13, <1>14, <1>15, <1>16, Continue

(* A clause is learnt after a backjump, and the theory follows. *)
LEMMA JumpKeeps ==
    ASSUME IInv, Running, ~loading, scan = NoScan, WatchingBelow(sat),
           UNCHANGED <<formula, theory, todo, loading, scan, giveUp, verdict>>,
           NEW bt \in Nat, bt < DecisionLevel(sat), NEW l \in Lits, LevelOf(sat, l) > bt,
           NEW rest \in SUBSET Lits,
           \A q \in rest : LitValue(sat, q) = "False" /\ LevelOf(sat, q) <= bt,
           \A m \in Models : Satisfies(m, {l} \cup rest),
           NEW w, rest # {} => w \in rest, NEW restarts \in BOOLEAN,
           BackjumpAndLearn(bt, l, rest, w, restarts)
    PROVE  IInv'
<1> DEFINE s == sat
           s1 == BacktrackTo(sat, bt)
           s2 == LearnClause(s1, l, rest, w)
           r == restarts /\ ShouldRestart(s2)
           s3 == sat'
           c == {l} \cup rest
<1>1. /\ SolverInv(s) /\ Follows(s, Models) /\ TheoryOk(s, facts, levels, notified)
      /\ Models \in SUBSET Assignments /\ Loading
  BY ModelFacts DEF IInv, Running
<1>2. s3 = IF r THEN PerformRestart(s2) ELSE s2
  BY DEF BackjumpAndLearn
<1>3. r \in BOOLEAN
  BY DEF ShouldRestart
<1>4. Resync(s3, Len(s1.trail)) /\ pc' = "loop"
  BY <1>2, Zenon DEF BackjumpAndLearn
<1>5. notified' = Lower(Lower(notified, Len(s1.trail)), Len(s3.trail))
  BY <1>4 DEF Resync
<1>6. IF Len(levels) > DecisionLevel(s3)
      THEN facts' = levels[DecisionLevel(s3) + 1] /\ levels' = SubSeq(levels, 1, DecisionLevel(s3))
      ELSE facts' = facts /\ levels' = levels
  BY <1>4 DEF Resync, PopTheory
<1>7. s1 = BacktrackTo(s, bt) /\ s2 = LearnClause(s1, l, rest, w) /\ c = {l} \cup rest
  OBVIOUS
<1> HIDE DEF s, s1, s2, s3, r, c
<1>8. WatchingBelow(s) /\ bt < DecisionLevel(s) /\ LevelOf(s, l) > bt
  BY DEF s
<1>9. \A q \in rest : LitValue(s, q) = "False" /\ LevelOf(s, q) <= bt
  BY DEF s
<1>10. \A m \in Models : Satisfies(m, c)
  BY DEF c
<1>11. /\ SolverInv(s3) /\ Follows(s3, Models) /\ Watching(s3, 0, {}) /\ RootKept(s, s3)
       /\ Jumped(s, s1, s3)
  BY <1>1, <1>2, <1>3, <1>7, <1>8, <1>9, <1>10, Backjump
<1>12. TheoryOk(s3, facts', levels', notified') /\ InStep(s3, facts', levels', notified')
  BY <1>1, <1>5, <1>6, <1>11, TheoryJumps
<1>13. Loading' /\ Scanning'
  BY <1>1, <1>4 DEF Loading, Scanning
<1>14. AtPc'
  BY <1>4, <1>11, <1>12 DEF AtPc, NoScan, s3
<1> QED BY <1>11, <1>12, <1>13, <1>14, Continue DEF s, s3

(* Learn keeps the invariant. *)
LEMMA LearnKeeps == IInv /\ Learn => IInv'
<1> SUFFICES ASSUME IInv, Learn PROVE IInv'
  OBVIOUS
<1>1. /\ Running /\ pc = "learn"
      /\ UNCHANGED <<formula, theory, todo, loading, scan, giveUp, verdict>>
  BY DEF IInv, Learn, problem, loadVars
<1>2. /\ SolverInv(sat) /\ WatchingBelow(sat) /\ Analyzing(sat, an, Models)
      /\ an.pivot # 0 /\ an.counter = 0 /\ scan = NoScan /\ ~loading
      /\ Models \in SUBSET Assignments
  BY <1>1, ModelFacts DEF IInv, Running, AtPc, Scanning, Loading
<1>3. PICK bt \in 0 .. DecisionLevel(sat) :
         /\ IsHighest(bt, an.learnt)
         /\ \E w \in IF an.learnt = {} THEN {0} ELSE an.learnt :
               BackjumpAndLearn(bt, -an.pivot, an.learnt, w, an.restarts)
  BY DEF Learn
<1>4. PICK w \in IF an.learnt = {} THEN {0} ELSE an.learnt :
         BackjumpAndLearn(bt, -an.pivot, an.learnt, w, an.restarts)
  BY <1>3
<1>5. an.learnt # {} => w \in an.learnt
  OBVIOUS
<1>6. /\ an.restarts \in BOOLEAN /\ an.learnt \in SUBSET Lits /\ DecisionLevel(sat) > 0
      /\ an.pivot \in Lits /\ LevelOf(sat, an.pivot) = DecisionLevel(sat)
      /\ \A q \in an.learnt :
            LitValue(sat, q) = "False" /\ LevelOf(sat, q) \in 1 .. DecisionLevel(sat) - 1
      /\ \A m \in Models : Refuted(sat, an, m)
      /\ an.seen \in SUBSET Vars /\ an.counter = Cardinality(AtLevel(sat, an.seen))
  BY <1>2 DEF Analyzing, SeenOk, LearntOk
<1>7. DecisionLevel(sat) \in Nat
  BY <1>2 DEF SolverInv, SolverType, DecisionLevel
<1>8. bt \in Nat /\ bt < DecisionLevel(sat) /\ \A q \in an.learnt : LevelOf(sat, q) <= bt
  <2>1. \A q \in an.learnt : LevelOf(sat, q) <= bt
    BY <1>3 DEF IsHighest
  <2>2. CASE an.learnt = {}
    BY <1>3, <1>6, <1>7, <2>1, <2>2 DEF IsHighest
  <2>3. CASE an.learnt # {}
    <3>1. PICK q \in an.learnt : LevelOf(sat, q) = bt
      BY <1>3, <2>3 DEF IsHighest
    <3> QED BY <1>6, <1>7, <2>1, <3>1
  <2> QED BY <2>2, <2>3
<1>9. -an.pivot \in Lits /\ LevelOf(sat, -an.pivot) > bt
  <2>1. LevelOf(sat, -an.pivot) = LevelOf(sat, an.pivot) /\ -an.pivot \in Lits
    BY <1>6, LitFacts DEF LevelOf
  <2> QED BY <1>6, <1>7, <1>8, <2>1
<1>10. AtLevel(sat, an.seen) = {}
  <2>1. AtLevel(sat, an.seen) \in SUBSET Vars
    BY <1>6 DEF AtLevel
  <2>2. IsFiniteSet(AtLevel(sat, an.seen))
    BY <2>1, VarsFinite, FS_Subset
  <2> QED BY <1>2, <1>6, <2>2, FS_EmptySet
<1>11. ASSUME NEW m \in Models PROVE Satisfies(m, {-an.pivot} \cup an.learnt)
  <2>1. CASE Satisfies(m, an.learnt)
    BY <2>1 DEF Satisfies
  <2>2. CASE ~Holds(m, an.pivot)
    <3>1. Holds(m, -an.pivot)
      BY <1>2, <1>6, <2>2, HoldsNeg
    <3> QED BY <3>1 DEF Satisfies
  <2>3. ASSUME NEW i \in 1 .. an.idx - 1, Var(sat.trail[i]) \in an.seen,
               LevelOf(sat, sat.trail[i]) = DecisionLevel(sat)
        PROVE  FALSE
    BY <1>10, <2>3 DEF AtLevel, LevelOf
  <2> QED BY <1>6, <2>1, <2>2, <2>3 DEF Refuted
<1> QED BY <1>1, <1>2, <1>4, <1>5, <1>6, <1>8, <1>9, <1>11, JumpKeeps

-----------------------------------------------------------------------------
(* A lemma of the theory, all of whose literals are false. *)

(* The lemma has one literal of the highest level. *)
LemmaAsserts(lits, l, top, rest, al, w) ==
    /\ l \in lits /\ top = LevelOf(sat, l) /\ rest = lits \ {l} /\ top > 0
    /\ \A q \in rest : LevelOf(sat, q) < top
    /\ al \in 0 .. (top - 1) /\ AssertionLevel(al, top, rest)
    /\ w \in IF rest = {} THEN {0} ELSE rest
    /\ BackjumpAndLearn(al, l, rest, w, FALSE) /\ UNCHANGED <<an, verdict>>

(* add_theory_lemma, on false literals one of which holds in each model. *)
LEMMA TheoryLemmaKeeps ==
    ASSUME IInv, Running, pc \in {"theory", "check"}, NEW lits \in SUBSET Lits,
           \A q \in lits : LitValue(sat, q) = "False",
           \A m \in Models : Satisfies(m, lits),
           UNCHANGED <<formula, theory, todo, loading, scan, giveUp>>,
           AddTheoryLemma(lits)
    PROVE  IInv'
<1>1. /\ SolverInv(sat) /\ Follows(sat, Models) /\ TheoryOk(sat, facts, levels, notified)
      /\ Models \in SUBSET Assignments /\ Loading /\ ~loading /\ scan = NoScan
      /\ Watching(sat, 0, {}) /\ InStep(sat, facts, levels, notified)
  <2>1. /\ SolverInv(sat) /\ Follows(sat, Models) /\ TheoryOk(sat, facts, levels, notified)
        /\ Models \in SUBSET Assignments /\ Loading /\ Scanning /\ AtPc
    BY ModelFacts DEF IInv, Running
  <2>2. ~loading /\ scan = NoScan
    BY <2>1 DEF Loading, Scanning
  <2>3. Watching(sat, scan.lit, scan.rest) /\ InStep(sat, facts, levels, notified)
    BY <2>1 DEF AtPc
  <2>4. scan.lit = 0 /\ scan.rest = {}
    BY <2>2 DEF NoScan
  <2> QED BY <2>1, <2>2, <2>3, <2>4
<1>2. DecisionLevel(sat) \in Nat /\ \A q \in lits : LevelOf(sat, q) \in 0 .. DecisionLevel(sat)
  <2>1. DecisionLevel(sat) \in Nat
    BY <1>1 DEF SolverInv, SolverType, DecisionLevel
  <2> QED BY <1>1, <2>1, FalseLevel
<1>3. CASE AtRoot(lits) /\ Finish("unsat") /\ UNCHANGED <<sat, an, theoryVars>>
  <2>1. Models = {}
    BY <1>1, <1>3, RootConflict DEF AtRoot
  <2> QED BY <1>3, <2>1, FinishUnsat
<1>4. ASSUME NEW asserting \in lits, NEW top, top = LevelOf(sat, asserting),
             NEW rest, rest = lits \ {asserting}, top > 0, \A l \in rest : LevelOf(sat, l) <= top,
             \E l \in rest : LevelOf(sat, l) = top,
             NEW s1, s1 = AddToArena(BacktrackTo(sat, top), lits),
             StartAnalysis(s1, Len(s1.arena), FALSE), UNCHANGED theoryVars
      PROVE  IInv'
  <2> DEFINE b == BacktrackTo(sat, top)
             t == sat'
             a == an'
             n == Len(s1.arena)
  <2>1. top \in Nat /\ top <= DecisionLevel(sat) /\ DecisionLevel(sat) > 0
    BY <1>2, <1>4
  <2>2. /\ SolverInv(b) /\ Follows(b, Models) /\ TheoryOk(b, facts, levels, notified)
        /\ DecisionLevel(b) = top /\ Watching(b, 0, {}) /\ RootKept(sat, b)
        /\ \A q \in lits : LitValue(b, q) = "False" /\ LevelOf(b, q) = LevelOf(sat, q)
    <3>1. CASE top = DecisionLevel(sat)
      <4>1. b = sat
        BY <1>2, <3>1 DEF BacktrackTo
      <4>2. RootKept(sat, b)
        BY <4>1 DEF RootKept
      <4> QED BY <1>1, <3>1, <4>1, <4>2
    <3>2. CASE top < DecisionLevel(sat)
      <4>1. SolverInv(b) /\ Kept(sat, b, top)
        BY <1>1, <2>1, <3>2, BacktrackKeeps
      <4>2. WatchingBelow(sat)
        BY <1>1, <2>1, WatchBelow
      <4> HIDE DEF b
      <4>3. /\ Follows(b, Models) /\ TheoryOk(b, facts, levels, notified)
            /\ Watching(b, 0, {}) /\ RootKept(sat, b)
        BY <1>1, <2>1, <3>2, <4>1, <4>2, FollowsBacktrack, TheoryLags, WatchBacktrack, RootBacktrack
      <4>4. DecisionLevel(b) = top
        BY <4>1 DEF Kept, DecisionLevel
      <4>5. ASSUME NEW q \in lits
            PROVE  LitValue(b, q) = "False" /\ LevelOf(b, q) = LevelOf(sat, q)
        <5>1. q \in Lits /\ LitValue(sat, q) = "False"
          OBVIOUS
        <5>2. LevelOf(sat, q) <= top /\ LevelOf(sat, q) \in Int
          BY <1>2, <1>4, <2>1
        <5>3. ~(LitValue(sat, q) = "Undef" \/ LevelOf(sat, q) > top)
          BY <2>1, <5>1, <5>2
        <5> QED BY <4>1, <5>1, <5>3 DEF Kept
      <4> QED BY <4>1, <4>3, <4>4, <4>5
    <3> QED BY <1>2, <2>1, <3>1, <3>2
  <2>3. s1 = AddToArena(b, lits)
    BY <1>4
  <2>4. /\ t = Counted(s1) /\ a = Analysis(s1, n, FALSE) /\ pc' = "analyze" /\ verdict' = verdict
    BY <1>4 DEF StartAnalysis, Counted, Analysis
  <2> HIDE DEF b, t, a, n
  <2>5. Grown(b, s1, lits, {})
    BY <2>2, <2>3, ArenaGrows DEF SolverInv
  <2>6. /\ SolverInv(s1) /\ Follows(s1, Models) /\ Watching(s1, 0, {}) /\ RootKept(b, s1)
    BY <2>2, <2>5, GrownKeeps, FollowsGrown, WatchGrown, RootGrown
  <2>7. /\ n \in 1 .. Len(s1.arena) /\ s1.arena[n] = lits /\ n = Len(s1.arena)
        /\ s1.lim = b.lim /\ s1.trail = b.trail
        /\ \A l : LitValue(s1, l) = LitValue(b, l) /\ LevelOf(s1, l) = LevelOf(b, l)
    <3>1. s1.arena = Append(b.arena, lits) /\ b.arena \in Seq(SUBSET Lits)
      BY <2>2, <2>5 DEF Grown, SolverInv, SolverType
    <3>2. Len(b.arena) \in Nat /\ n = Len(b.arena) + 1 /\ s1.arena[Len(b.arena) + 1] = lits
      BY <3>1, Appended DEF n
    <3> QED BY <2>5, <3>2, SameValues, NextIndex DEF Grown, n
  <2>8. DecisionLevel(s1) = top
    BY <2>2, <2>7 DEF DecisionLevel
  <2>9. WatchingBelow(s1)
    BY <1>4, <2>6, <2>8, WatchBelow
  <2>10. \A q \in s1.arena[n] : LitValue(s1, q) = "False"
    BY <2>2, <2>7
  <2>11. \E q \in s1.arena[n] : LevelOf(s1, q) = DecisionLevel(s1)
    BY <1>4, <2>2, <2>7, <2>8
  <2>12. /\ SolverInv(t) /\ Same(s1, t) /\ Follows(t, Models) /\ WatchingBelow(t) /\ RootKept(s1, t)
         /\ Analyzing(t, a, Models) /\ AtClause(t, a)
    <3>1. DecisionLevel(s1) > 0 /\ FALSE \in BOOLEAN
      BY <1>4, <2>8
    <3>2. n \in 1 .. Len(s1.arena) /\ SolverInv(s1) /\ Follows(s1, Models)
      BY <2>6, <2>7
    <3> QED BY <2>4, <2>9, <2>10, <2>11, <3>1, <3>2, AnalysisStarts
  <2>13. TheoryOk(t, facts, levels, notified)
    <3>1. t.lim = b.lim /\ t.trail = b.trail
      BY <2>7, <2>12 DEF Same
    <3>2. \A i : Told(t, i) = Told(b, i)
      BY <3>1 DEF Told
    <3> QED BY <2>2, <3>1, <3>2 DEF TheoryOk, DecisionLevel
  <2>14. RootKept(sat, t)
    BY <2>2, <2>6, <2>12, RootTrans
  <2>15. Models' = Models
    BY DEF Models, IsModel
  <2>16. Loading' /\ Scanning'
    BY <1>1, <2>4 DEF Loading, Scanning
  <2>17. AtPc'
    BY <2>4, <2>12, <2>15 DEF AtPc, t, a
  <2>18. facts' = facts /\ levels' = levels /\ notified' = notified
    BY <1>4 DEF theoryVars
  <2> QED BY <2>4, <2>12, <2>13, <2>14, <2>16, <2>17, <2>18, Continue DEF t
<1>5. ASSUME NEW asserting, NEW top, NEW rest, NEW al, NEW w,
             LemmaAsserts(lits, asserting, top, rest, al, w)
      PROVE  IInv'
  <2>1. /\ asserting \in lits /\ top = LevelOf(sat, asserting) /\ rest = lits \ {asserting}
        /\ top > 0 /\ \A q \in rest : LevelOf(sat, q) < top
        /\ al \in 0 .. (top - 1) /\ AssertionLevel(al, top, rest)
        /\ w \in IF rest = {} THEN {0} ELSE rest
        /\ BackjumpAndLearn(al, asserting, rest, w, FALSE) /\ UNCHANGED <<an, verdict>>
    BY <1>5, Zenon DEF LemmaAsserts
  <2>2. top \in Nat /\ top <= DecisionLevel(sat) /\ al \in Nat /\ al < top /\ al < DecisionLevel(sat)
    <3>1. asserting \in lits /\ top = LevelOf(sat, asserting) /\ top > 0
      BY <2>1
    <3>2. al \in 0 .. (top - 1)
      BY <2>1
    <3>3. top \in 0 .. DecisionLevel(sat) /\ DecisionLevel(sat) \in Nat
      BY <1>2, <3>1
    <3> QED BY <3>1, <3>2, <3>3
  <2>3. WatchingBelow(sat)
    BY <1>1, <1>2, <2>2, WatchBelow
  <2>4. {l \in rest : LevelOf(sat, l) \in 0 .. (top - 1)} = rest
    BY <1>2, <2>1, <2>2
  <2>5. ASSUME NEW q \in rest PROVE LevelOf(sat, q) <= al
    <3>1. IsHighest(al, rest)
      BY <2>1, <2>4 DEF AssertionLevel
    <3> QED BY <3>1 DEF IsHighest
  <2>6. \A q \in rest : LitValue(sat, q) = "False" /\ LevelOf(sat, q) <= al
    BY <2>1, <2>5
  <2>7. {asserting} \cup rest = lits /\ rest \in SUBSET Lits /\ asserting \in Lits
    BY <2>1
  <2>8. \A m \in Models : Satisfies(m, {asserting} \cup rest)
    BY <2>7
  <2>9. rest # {} => w \in rest
    BY <2>1
  <2>10. LevelOf(sat, asserting) > al
    BY <2>1, <2>2
  <2> QED BY <1>1, <2>1, <2>2, <2>3, <2>6, <2>7, <2>8, <2>9, <2>10, JumpKeeps
<1>6. CASE ~(AtRoot(lits) /\ Finish("unsat") /\ UNCHANGED <<sat, an, theoryVars>>)
  <2>1. PICK asserting \in lits :
           LET top == LevelOf(sat, asserting)
               rest == lits \ {asserting}
           IN  /\ top > 0
               /\ \A l \in rest : LevelOf(sat, l) <= top
               /\ \/ /\ \E l \in rest : LevelOf(sat, l) = top
                     /\ LET s1 == AddToArena(BacktrackTo(sat, top), lits)
                        IN  StartAnalysis(s1, Len(s1.arena), FALSE)
                     /\ UNCHANGED theoryVars
                  \/ /\ \A l \in rest : LevelOf(sat, l) < top
                     /\ \E al \in 0..(top - 1) :
                           /\ AssertionLevel(al, top, rest)
                           /\ \E w \in IF rest = {} THEN {0} ELSE rest :
                                 /\ \A l \in rest : LevelOf(sat, l) <= LevelOf(sat, w)
                                 /\ BackjumpAndLearn(al, asserting, rest, w, FALSE)
                     /\ UNCHANGED <<an, verdict>>
    BY <1>6, Zenon DEF AddTheoryLemma
  <2> DEFINE top == LevelOf(sat, asserting)
             rest == lits \ {asserting}
             s1 == AddToArena(BacktrackTo(sat, top), lits)
  <2>2. /\ top > 0
        /\ \A l \in rest : LevelOf(sat, l) <= top
        /\ \/ /\ \E l \in rest : LevelOf(sat, l) = top
              /\ StartAnalysis(s1, Len(s1.arena), FALSE)
              /\ UNCHANGED theoryVars
           \/ /\ \A l \in rest : LevelOf(sat, l) < top
              /\ \E al \in 0..(top - 1) :
                    /\ AssertionLevel(al, top, rest)
                    /\ \E w \in IF rest = {} THEN {0} ELSE rest :
                          BackjumpAndLearn(al, asserting, rest, w, FALSE)
              /\ UNCHANGED <<an, verdict>>
    BY <2>1, Zenon
  <2>3. /\ top = LevelOf(sat, asserting) /\ rest = lits \ {asserting}
        /\ s1 = AddToArena(BacktrackTo(sat, top), lits)
    OBVIOUS
  <2> HIDE DEF s1, rest, top
  <2>4. CASE /\ \E l \in rest : LevelOf(sat, l) = top
             /\ StartAnalysis(s1, Len(s1.arena), FALSE)
             /\ UNCHANGED theoryVars
    BY <1>4, <2>2, <2>3, <2>4, Zenon
  <2>5. CASE /\ \A l \in rest : LevelOf(sat, l) < top
             /\ \E al \in 0..(top - 1) :
                   /\ AssertionLevel(al, top, rest)
                   /\ \E w \in IF rest = {} THEN {0} ELSE rest :
                         BackjumpAndLearn(al, asserting, rest, w, FALSE)
             /\ UNCHANGED <<an, verdict>>
    <3>1. PICK al \in 0..(top - 1) :
             /\ AssertionLevel(al, top, rest)
             /\ \E w \in IF rest = {} THEN {0} ELSE rest :
                   BackjumpAndLearn(al, asserting, rest, w, FALSE)
      BY <2>5
    <3>2. PICK w \in IF rest = {} THEN {0} ELSE rest :
             BackjumpAndLearn(al, asserting, rest, w, FALSE)
      BY <3>1
    <3>3. LemmaAsserts(lits, asserting, top, rest, al, w)
      BY <2>2, <2>3, <2>5, <3>1, <3>2 DEF LemmaAsserts
    <3> QED BY <1>5, <3>3
  <2> QED BY <2>2, <2>4, <2>5, Zenon
<1> QED BY <1>3, <1>6

-----------------------------------------------------------------------------
(* Loading.                                                                *)

(* The step of add_clause that covers the clause at hand. *)
LEMMA InputAdded ==
    ASSUME IInv, Running, todo # <<>>, todo' = Tail(todo), RootKept(sat, sat'),
           Covered(sat', Head(todo)), UNCHANGED <<formula, theory, giveUp, verdict>>,
           SolverInv(sat'), Follows(sat', Models),
           TheoryOk(sat', facts', levels', notified'), Loading', Scanning', AtPc'
    PROVE  IInv'
<1>1. formula \in Seq(SUBSET Lits) /\ todo \in Seq(SUBSET Lits) /\ Inputs
  BY ModelFacts DEF IInv, Running, Inputs
<1>2. /\ todo' \in Seq(SUBSET Lits) /\ Len(todo') = Len(todo) - 1 /\ Head(todo) = todo[1]
      /\ \A j \in 1 .. Len(todo') : j + 1 \in 1 .. Len(todo) /\ todo'[j] = todo[j + 1]
      /\ Len(todo) \in Nat
  BY <1>1
<1>3. ASSUME NEW j \in 1 .. Len(todo)
      PROVE  todo[j] = Head(todo) \/ \E k \in 1 .. Len(todo') : todo'[k] = todo[j]
  <2>1. CASE j = 1
    BY <1>2, <2>1
  <2>2. CASE j # 1
    <3> DEFINE k == j - 1
    <3>1. k \in 1 .. Len(todo') /\ j = k + 1
      BY <1>2, <2>2
    <3> HIDE DEF k
    <3> QED BY <1>2, <3>1
  <2> QED BY <2>1, <2>2
<1>4. ASSUME NEW i \in 1 .. Len(formula)
      PROVE  Covered(sat', formula[i]) \/ \E j \in 1 .. Len(todo') : todo'[j] = formula[i]
  <2>1. formula[i] \in SUBSET Lits
    BY <1>1
  <2>2. CASE Covered(sat, formula[i])
    BY <2>1, <2>2, StillCovered
  <2>3. CASE \E j \in 1 .. Len(todo) : todo[j] = formula[i]
    BY <1>3, <2>3
  <2> QED BY <1>1, <2>2, <2>3 DEF Inputs
<1>5. \A j \in 1 .. Len(todo') : \E i \in 1 .. Len(formula) : todo'[j] = formula[i]
  BY <1>1, <1>2 DEF Inputs
<1>6. Inputs'
  BY <1>2, <1>4, <1>5 DEF Inputs
<1>7. Models' = Models
  BY DEF Models, IsModel
<1>8. AnswersRight'
  BY DEF AnswersRight, Running, IInv
<1>9. Running'
  BY <1>6, <1>7 DEF Running
<1> QED BY <1>8, <1>9 DEF IInv

(* AddClause keeps the invariant. *)
LEMMA AddClauseKeeps == IInv /\ AddClause => IInv'
<1> SUFFICES ASSUME IInv, AddClause PROVE IInv'
  OBVIOUS
<1> DEFINE c == Head(todo)
           open == {l \in c : LitValue(sat, l) = "Undef"}
<1>1. /\ Running /\ pc = "load" /\ todo # <<>> /\ todo' = Tail(todo)
      /\ UNCHANGED <<formula, theory, loading, scan, an, facts, levels, notified, giveUp>>
  BY DEF IInv, AddClause, problem, theoryVars
<1>2. /\ SolverInv(sat) /\ Follows(sat, Models) /\ TheoryOk(sat, facts, levels, notified)
      /\ Inputs /\ Loading /\ Scanning /\ AtPc /\ Models \in SUBSET Assignments
  BY <1>1, ModelFacts DEF IInv, Running
<1>3. /\ loading /\ DecisionLevel(sat) = 0 /\ scan = NoScan /\ SolverType(sat)
      /\ InStep(sat, facts, levels, notified) /\ Watching(sat, scan.lit, scan.rest)
  BY <1>1, <1>2 DEF Loading, Scanning, AtPc, SolverInv
<1>4. Watching(sat, 0, {})
  BY <1>3 DEF NoScan
<1>5. c \in SUBSET Lits /\ \A m \in Models : Satisfies(m, c)
  <2>1. todo \in Seq(SUBSET Lits) /\ c = todo[1] /\ 1 \in 1 .. Len(todo)
    BY <1>1, <1>2 DEF Inputs
  <2>2. c \in SUBSET Lits
    BY <2>1
  <2> HIDE DEF c
  <2>3. PICK i \in 1 .. Len(formula) : c = formula[i]
    BY <1>2, <2>1 DEF Inputs
  <2> QED BY <2>2, <2>3, ModelFacts DEF IInv
<1>6. \/ Redundant(c) /\ UNCHANGED <<sat, verdict, pc>>
      \/ ~Redundant(c) /\ open = {} /\ Finish("unsat") /\ UNCHANGED sat
      \/ /\ ~Redundant(c) /\ \E l \in open : open = {l} /\ sat' = Enqueue(sat, l, NoClause)
         /\ pc' = "propagate" /\ UNCHANGED verdict
      \/ /\ ~Redundant(c) /\ \E w0, w1 \in open : sat' = AddWatched(sat, open, w0, w1)
         /\ UNCHANGED <<verdict, pc>>
  BY DEF AddClause
<1> HIDE DEF c
<1>7. ASSUME NEW q \in c, LitValue(sat, q) = "False"
      PROVE  LevelOf(sat, q) <= 0 /\ \A m \in Models : ~Holds(m, q)
  <2>1. q \in Lits
    BY <1>5
  <2>2. LevelOf(sat, q) \in 0 .. 0
    BY <1>2, <1>3, <1>7, <2>1, FalseLevel
  <2> QED BY <1>2, <1>7, <2>1, <2>2, FalseAtRoot
<1>8. ASSUME ~Redundant(c), NEW m \in Models, NEW q \in c, Holds(m, q) PROVE q \in open
  <2>1. q \in Lits /\ LitValue(sat, q) # "True"
    BY <1>5, <1>8 DEF Redundant
  <2>2. LitValue(sat, q) # "False"
    BY <1>7, <1>8
  <2> QED BY <1>3, <2>1, <2>2, Values
<1>9. ASSUME ~Redundant(c) PROVE open \in SUBSET Lits /\ \A m \in Models : Satisfies(m, open)
  BY <1>5, <1>8, <1>9 DEF Satisfies
<1>10. CASE Redundant(c) /\ UNCHANGED <<sat, verdict, pc>>
  <2>1. Covered(sat, c)
    <3>1. CASE \E l \in c : -l \in c
      BY <3>1 DEF Covered
    <3>2. CASE \E l \in c : LitValue(sat, l) = "True"
      <4>1. PICK l \in c : LitValue(sat, l) = "True"
        BY <3>2
      <4>2. l \in Lits /\ -l \in Lits /\ LitValue(sat, -l) = "False"
        BY <1>3, <1>5, <4>1, LitFacts, Values
      <4>3. LevelOf(sat, -l) \in 0 .. 0 /\ LevelOf(sat, -l) = LevelOf(sat, l)
        BY <1>2, <1>3, <4>2, FalseLevel, LitFacts DEF LevelOf
      <4> QED BY <4>1, <4>3 DEF Covered
    <3> QED BY <1>10, <3>1, <3>2 DEF Redundant
  <2>2. RootKept(sat, sat')
    BY <1>10 DEF RootKept
  <2>3. Models' = Models
    BY <1>1 DEF Models, IsModel
  <2>4. Loading' /\ Scanning' /\ AtPc'
    BY <1>1, <1>2, <1>10, <2>3 DEF Loading, Scanning, AtPc
  <2> QED BY <1>1, <1>2, <1>10, <2>1, <2>2, <2>4, InputAdded DEF c
<1>11. CASE ~Redundant(c) /\ open = {} /\ Finish("unsat") /\ UNCHANGED sat
  <2>1. ASSUME NEW m \in Models PROVE FALSE
    BY <1>9, <1>11 DEF Satisfies
  <2> QED BY <1>1, <1>11, <2>1, FinishUnsat
<1>12. CASE /\ ~Redundant(c) /\ \E l \in open : open = {l} /\ sat' = Enqueue(sat, l, NoClause)
            /\ pc' = "propagate" /\ UNCHANGED verdict
  <2>1. PICK l \in open : open = {l} /\ sat' = Enqueue(sat, l, NoClause)
    BY <1>12
  <2> DEFINE t == sat'
  <2>2. l \in Lits /\ l \in c /\ LitValue(sat, l) = "Undef" /\ NoClause \in Nat
    BY <1>5 DEF NoClause
  <2>3. t = Enqueue(sat, l, NoClause)
    BY <2>1
  <2>4. \A m \in Models : Holds(m, l)
    BY <1>9, <1>12, <2>1 DEF Satisfies
  <2> HIDE DEF t, open
  <2>5. Enqueued(sat, t, l, NoClause)
    BY <1>3, <2>2, <2>3, EnqueueFields
  <2>6. SolverInv(t)
    BY <1>2, <1>3, <2>2, <2>5, EnqueueKeeps
  <2>7. Follows(t, Models)
    BY <1>2, <2>2, <2>4, <2>5, <2>6, FollowsEnqueue
  <2>8. RootKept(sat, t)
    BY <1>3, <2>2, <2>5, RootEnqueue
  <2>9. Watching(t, 0, {})
    BY <1>2, <1>4, <2>2, <2>5, WatchEnqueue
  <2>10. LitValue(t, l) = "True" /\ LevelOf(t, l) = 0 /\ DecisionLevel(t) = 0
    BY <1>3, <2>2, <2>5, EnqueueValues
  <2>11. Covered(t, c)
    BY <2>2, <2>10 DEF Covered
  <2>12. TheoryOk(t, facts, levels, notified) /\ InStep(t, facts, levels, notified)
    <3>1. t.lim = sat.lim /\ t.trail = Append(sat.trail, l) /\ sat.trail \in Seq(Lits)
      BY <1>3, <2>5 DEF Enqueued, SolverType
    <3>2. /\ Len(t.trail) \in Nat /\ Len(sat.trail) <= Len(t.trail)
          /\ \A i \in 1 .. Len(sat.trail) : t.trail[i] = sat.trail[i]
      BY <2>2, <3>1, Appended
    <3> QED BY <1>2, <1>3, <3>1, <3>2, TheoryExtends
  <2>13. Loading' /\ Scanning'
    BY <1>1, <1>3, <1>12, <2>10 DEF Loading, Scanning, t
  <2>14. AtPc'
    BY <1>1, <1>3, <1>12, <2>9, <2>12 DEF AtPc, NoScan, t
  <2> QED BY <1>1, <1>12, <2>6, <2>7, <2>8, <2>11, <2>12, <2>13, <2>14, InputAdded DEF t, c
<1>13. CASE /\ ~Redundant(c) /\ \E w0, w1 \in open : sat' = AddWatched(sat, open, w0, w1)
            /\ UNCHANGED <<verdict, pc>>
  <2>1. PICK w0 \in open, w1 \in open : sat' = AddWatched(sat, open, w0, w1)
    BY <1>13
  <2> DEFINE t == sat'
             n == Len(sat.arena) + 1
  <2>2. open \in SUBSET Lits /\ (\A m \in Models : Satisfies(m, open)) /\ open \in SUBSET c
    BY <1>9, <1>13
  <2>3. t = AddWatched(sat, open, w0, w1) /\ LitValue(sat, w0) = "Undef"
    BY <2>1
  <2> HIDE DEF t, open
  <2>4. Grown(sat, t, open, {w0, w1})
    BY <1>3, <2>2, <2>3, WatchedGrows
  <2>5. SolverInv(t) /\ Follows(t, Models) /\ RootKept(sat, t)
    BY <1>2, <2>2, <2>4, GrownKeeps, FollowsGrown, RootGrown
  <2>6. Watching(t, 0, {})
    <3>1. {w0, w1} \in SUBSET open /\ w0 \in {w0, w1} /\ LitValue(sat, w0) # "False"
      BY <2>3
    <3> QED BY <1>2, <1>4, <2>2, <2>4, <3>1, WatchGrown
  <2>7. /\ t.arena = Append(sat.arena, open) /\ sat.arena \in Seq(SUBSET Lits)
        /\ t.lim = sat.lim /\ t.trail = sat.trail
    BY <1>3, <2>4 DEF Grown, SolverType
  <2>8. Covered(t, c)
    <3>1. w0 \in Lits /\ n \in t.watches[w0]
      BY <2>2, <2>4 DEF Grown
    <3>2. t.arena[n] = open
      BY <2>2, <2>7, Appended
    <3> QED BY <2>2, <3>1, <3>2 DEF Covered
  <2>9. TheoryOk(t, facts, levels, notified) /\ InStep(t, facts, levels, notified)
    BY <1>2, <1>3, <2>7, TheoryStays
  <2>10. Loading' /\ Scanning'
    BY <1>1, <1>2, <1>3, <1>13, <2>7 DEF Loading, Scanning, DecisionLevel, t
  <2>11. AtPc'
    BY <1>1, <1>3, <1>13, <2>6, <2>9 DEF AtPc, NoScan, t
  <2> QED BY <1>1, <1>13, <2>5, <2>8, <2>9, <2>10, <2>11, InputAdded DEF t, c
<1> QED BY <1>6, <1>10, <1>11, <1>12, <1>13

-----------------------------------------------------------------------------
(* The theory's turn.                                                      *)

(* Sync keeps the invariant. *)
LEMMA SyncKeeps == IInv /\ Sync => IInv'
<1> SUFFICES ASSUME IInv, Sync PROVE IInv'
  OBVIOUS
<1>1. /\ Running /\ pc = "sync" /\ pc' = "theory"
      /\ UNCHANGED <<formula, theory, todo, loading, sat, scan, an, giveUp, verdict>>
      /\ facts' = NewFacts(sat, facts, notified) /\ levels' = NewLevels(sat, facts, levels)
      /\ notified' = Len(sat.trail)
  BY DEF IInv, Sync, problem, loadVars, AtomLits, NewFacts, NewLevels
<1>2. /\ SolverInv(sat) /\ Follows(sat, Models) /\ TheoryOk(sat, facts, levels, notified)
      /\ Loading /\ Scanning /\ AtPc
  BY <1>1 DEF IInv, Running
<1>3. /\ InStep(sat, facts, levels, notified) /\ Watching(sat, scan.lit, scan.rest)
      /\ sat.qhead = Len(sat.trail)
  BY <1>1, <1>2 DEF AtPc
<1>4. /\ TheoryOk(sat, facts', levels', notified') /\ InStep(sat, facts', levels', notified')
      /\ Len(levels') = DecisionLevel(sat)
  BY <1>1, <1>2, <1>3, TheorySyncs
<1>5. RootKept(sat, sat')
  BY <1>1 DEF RootKept
<1>6. Loading' /\ Scanning'
  BY <1>1, <1>2 DEF Loading, Scanning
<1>7. AtPc'
  BY <1>1, <1>3, <1>4 DEF AtPc
<1> QED BY <1>1, <1>2, <1>4, <1>5, <1>6, <1>7, Continue

(* The clause that says that the facts R imply l. *)
Justification(l, R) == {l} \cup {-r : r \in R}

(* An enqueued derivation is justified by a clause that asserts it. *)
LEMMA EnqueueTheoryAfter ==
    ASSUME NEW s, SolverInv(s), NEW M \in SUBSET Assignments, Follows(s, M), Watching(s, 0, {}),
           NEW l \in Lits, LitValue(s, l) = "Undef", NEW R \in SUBSET Lits,
           \A r \in R : LitValue(s, r) = "True",
           \A m \in M : Satisfies(m, Justification(l, R)),
           NEW w \in R, NEW t, t = EnqueueTheory(s, l, R, -w)
    PROVE  /\ SolverInv(t) /\ Follows(t, M) /\ Watching(t, 0, {}) /\ RootKept(s, t)
           /\ Learnt(s, t, l) /\ t.qhead = s.qhead
<1> DEFINE c == Justification(l, R)
           u == AddWatched(s, c, l, -w)
           n == Len(s.arena) + 1
           W == {l, -w}
<1>1. SolverType(s)
  BY DEF SolverInv
<1>2. t = Enqueue(u, l, n)
  BY DEF EnqueueTheory, Justification
<1>3. c \in SUBSET Lits /\ l \in c /\ -w \in c /\ \A q \in c \ {l} : LitValue(s, q) = "False"
  BY <1>1, LitFacts, Values DEF Justification
<1>4. \A m \in M : Satisfies(m, c)
  OBVIOUS
<1> HIDE DEF c
<1>5. Grown(s, u, c, W)
  BY <1>1, <1>3, WatchedGrows
<1>6. W \in SUBSET c /\ l \in W
  BY <1>3
<1> HIDE DEF u, W
<1>7. SolverInv(u) /\ SolverInv(t) /\ Enqueued(u, t, l, n)
  BY <1>2, <1>3, <1>5, <1>6, AssertKeeps
<1>8. Follows(u, M)
  BY <1>3, <1>4, <1>5, FollowsGrown
<1>9. LitValue(u, l) = "Undef" /\ \A q : LitValue(u, q) = LitValue(s, q)
  BY <1>5, SameValues DEF Grown
<1>10. n \in Nat /\ n # NoClause /\ n \in 1 .. Len(u.arena) /\ u.arena[n] = c
  <2>1. u.arena = Append(s.arena, c) /\ s.arena \in Seq(SUBSET Lits)
    BY <1>1, <1>5 DEF Grown, SolverType
  <2>2. Len(s.arena) \in Nat
    BY <2>1
  <2> QED BY <1>3, <2>1, <2>2, Appended, NextIndex DEF NoClause
<1>11. Forces(u, n, l)
  BY <1>3, <1>9, <1>10 DEF Forces
<1>12. Follows(t, M)
  BY <1>7, <1>8, <1>10, <1>11, FollowsEnqueue
<1>13. \E q \in W : LitValue(s, q) # "False"
  BY <1>6
<1>14. Watching(u, 0, {})
  BY <1>3, <1>5, <1>6, <1>13, WatchGrown
<1>15. Watching(t, 0, {})
  BY <1>7, <1>9, <1>10, <1>14, WatchEnqueue
<1>16. RootKept(s, u)
  BY <1>3, <1>5, RootGrown
<1>17. RootKept(u, t)
  BY <1>7, <1>9, <1>10, RootEnqueue DEF SolverInv
<1>18. Learnt(s, t, l) /\ t.qhead = s.qhead
  BY <1>5, <1>7 DEF Grown, Enqueued, Learnt
<1> QED BY <1>7, <1>12, <1>15, <1>16, <1>17, <1>18, RootTrans

(* What the theory entails from its facts, models satisfy as a clause. *)
LEMMA EntailedClause ==
    ASSUME theory \in Theories, formula \in Formulas,
           NEW l \in Lits, NEW R \in SUBSET Lits, Entails(R, l)
    PROVE  \A m \in Models : Satisfies(m, Justification(l, R))
<1> SUFFICES ASSUME NEW m \in Models PROVE Satisfies(m, Justification(l, R))
  OBVIOUS
<1>1. m \in theory /\ m \in Assignments
  BY ModelFacts
<1>2. CASE \A r \in R : Holds(m, r)
  <2>1. Holds(m, l)
    BY <1>1, <1>2 DEF Entails
  <2> QED BY <2>1 DEF Satisfies, Justification
<1>3. CASE \E r \in R : ~Holds(m, r)
  <2>1. PICK r \in R : ~Holds(m, r)
    BY <1>3
  <2>2. Holds(m, -r)
    BY <1>1, <2>1, HoldsNeg
  <2> QED BY <2>2 DEF Satisfies, Justification
<1> QED BY <1>2, <1>3

(* A fact is true in SAT: the theory was told it from the trail. *)
LEMMA FactsTrue ==
    ASSUME NEW s, SolverInv(s), NEW F, NEW L, NEW n \in Nat, InStep(s, F, L, n), NEW f \in F
    PROVE  f \in Lits /\ LitValue(s, f) = "True"
<1>1. PICK i \in 1 .. n : f = s.trail[i]
  BY DEF InStep, Told
<1>2. i \in 1 .. Len(s.trail) /\ s.trail \in Seq(Lits)
  BY DEF InStep, SolverInv, SolverType
<1> QED BY <1>1, <1>2 DEF SolverInv, TrailMatches

(* TheoryPropagates keeps the invariant. *)
LEMMA TheoryPropagatesKeeps == IInv /\ TheoryPropagates => IInv'
<1> SUFFICES ASSUME IInv, TheoryPropagates PROVE IInv'
  OBVIOUS
<1>1. /\ Running /\ pc = "theory"
      /\ UNCHANGED <<formula, theory, todo, loading, scan, giveUp>>
  BY DEF IInv, TheoryPropagates, problem, loadVars
<1>2. /\ SolverInv(sat) /\ Follows(sat, Models) /\ TheoryOk(sat, facts, levels, notified)
      /\ Models \in SUBSET Assignments /\ Loading /\ Scanning /\ AtPc
      /\ formula \in Formulas /\ theory \in Theories
  BY <1>1, ModelFacts DEF IInv, Running
<1>3. /\ InStep(sat, facts, levels, notified) /\ Watching(sat, scan.lit, scan.rest)
      /\ sat.qhead = notified /\ Len(levels) = DecisionLevel(sat)
      /\ facts \in SUBSET Lits /\ notified \in Nat
  BY <1>1, <1>2 DEF AtPc, TheoryOk
<1>4. Watching(sat, 0, {}) /\ scan = NoScan
  <2>1. scan = NoScan
    BY <1>1, <1>2 DEF Scanning
  <2>2. scan.lit = 0 /\ scan.rest = {}
    BY <2>1 DEF NoScan
  <2> QED BY <1>3, <2>1, <2>2
<1>5. PICK v \in Atoms : \E l \in {v, -v}, R \in Explain(facts) :
          /\ Entails(R, l)
          /\ \/ /\ LitValue(sat, l) = "Undef"
                /\ \A r \in R : LitValue(sat, r) = "True"
                /\ \E w \in R :
                      /\ \A r \in R : LevelOf(sat, r) <= LevelOf(sat, w)
                      /\ sat' = EnqueueTheory(sat, l, R, -w)
                /\ UNCHANGED <<an, theoryVars, verdict, pc>>
             \/ /\ LitValue(sat, l) = "False"
                /\ AddTheoryLemma({l} \cup {-r : r \in R})
  BY DEF TheoryPropagates
<1>6. PICK l \in {v, -v}, R \in Explain(facts) :
          /\ Entails(R, l)
          /\ \/ /\ LitValue(sat, l) = "Undef"
                /\ \A r \in R : LitValue(sat, r) = "True"
                /\ \E w \in R :
                      /\ \A r \in R : LevelOf(sat, r) <= LevelOf(sat, w)
                      /\ sat' = EnqueueTheory(sat, l, R, -w)
                /\ UNCHANGED <<an, theoryVars, verdict, pc>>
             \/ /\ LitValue(sat, l) = "False"
                /\ AddTheoryLemma(Justification(l, R))
  BY <1>5 DEF Justification
<1>7. l \in Lits
  <2>1. v \in Vars
    BY CdclTAssumption
  <2> QED BY <2>1 DEF Lits
<1>8. R \in SUBSET facts /\ R \in SUBSET Lits
  BY <1>3, CdclTAssumption
<1> DEFINE c == Justification(l, R)
<1>9. \A m \in Models : Satisfies(m, c)
  BY <1>2, <1>6, <1>7, <1>8, EntailedClause
<1>10. ASSUME LitValue(sat, l) = "Undef", \A r \in R : LitValue(sat, r) = "True",
              NEW w \in R, sat' = EnqueueTheory(sat, l, R, -w),
              UNCHANGED <<an, theoryVars, verdict, pc>>
       PROVE  IInv'
  <2> DEFINE t == sat'
  <2>1. t = EnqueueTheory(sat, l, R, -w)
    BY <1>10
  <2>2. \A m \in Models : Satisfies(m, Justification(l, R))
    BY <1>9
  <2> HIDE DEF t, c
  <2>3. /\ SolverInv(t) /\ Follows(t, Models) /\ Watching(t, 0, {}) /\ RootKept(sat, t)
        /\ Learnt(sat, t, l) /\ t.qhead = sat.qhead
    BY <1>2, <1>4, <1>7, <1>8, <1>10, <2>1, <2>2, EnqueueTheoryAfter
  <2>4. /\ t.lim = sat.lim /\ Len(t.trail) \in Nat /\ Len(sat.trail) <= Len(t.trail)
        /\ \A i \in 1 .. Len(sat.trail) : t.trail[i] = sat.trail[i]
    <3>1. t.lim = sat.lim /\ t.trail = Append(sat.trail, l) /\ sat.trail \in Seq(Lits)
      BY <1>2, <2>3 DEF Learnt, SolverInv, SolverType
    <3> QED BY <1>7, <3>1, Appended
  <2>5. TheoryOk(t, facts, levels, notified) /\ InStep(t, facts, levels, notified)
    BY <1>2, <1>3, <2>4, TheoryExtends
  <2>6. UNCHANGED <<an, facts, levels, notified, verdict, pc>>
    BY <1>10 DEF theoryVars
  <2>7. Loading' /\ Scanning'
    BY <1>1, <1>2, <1>4, <2>4, <2>6 DEF Loading, Scanning, DecisionLevel, t
  <2>8. DecisionLevel(t) = DecisionLevel(sat)
    BY <2>4 DEF DecisionLevel
  <2>9. AtPc'
    BY <1>1, <1>3, <1>4, <2>3, <2>5, <2>6, <2>8 DEF AtPc, NoScan, t
  <2> QED BY <1>1, <2>3, <2>5, <2>6, <2>7, <2>9, Continue DEF t
<1>11. ASSUME LitValue(sat, l) = "False", AddTheoryLemma(c)
       PROVE  IInv'
  <2>1. ASSUME NEW r \in R PROVE -r \in Lits /\ LitValue(sat, -r) = "False"
    <3>1. r \in Lits /\ LitValue(sat, r) = "True"
      BY <1>2, <1>3, <1>8, FactsTrue
    <3> QED BY <1>2, <3>1, LitFacts, Values DEF SolverInv
  <2>2. c \in SUBSET Lits /\ \A q \in c : LitValue(sat, q) = "False"
    BY <1>7, <1>11, <2>1 DEF Justification
  <2> HIDE DEF c
  <2> QED BY <1>1, <1>9, <1>11, <2>2, TheoryLemmaKeeps
<1> HIDE DEF c
<1> QED BY <1>6, <1>10, <1>11 DEF c

-----------------------------------------------------------------------------
(* The end of the search, and decisions.                                   *)

(* The assignment a Sat answer returns makes the true literals hold. *)
LEMMA HoldsTrue ==
    ASSUME SolverType(sat), NEW l \in Lits, LitValue(sat, l) = "True"
    PROVE  Holds(Assignment, l)
<1>1. Var(l) \in Vars
  BY LitFacts
<1>2. sat.assigns[Var(l)] = IF l > 0 THEN "True" ELSE "False"
  BY DEF LitValue
<1>3. Assignment[Var(l)] = (sat.assigns[Var(l)] = "True")
  BY <1>1 DEF Assignment
<1>4. CASE l > 0
  BY <1>2, <1>3, <1>4, Zenon DEF Holds
<1>5. CASE ~(l > 0)
  <2>1. sat.assigns[Var(l)] # "True"
    BY <1>2, <1>5
  <2>2. (sat.assigns[Var(l)] = "True") = FALSE
    BY <2>1
  <2>3. (l > 0) = FALSE
    BY <1>5
  <2>4. Assignment[Var(l)] = (l > 0)
    BY <1>3, <2>2, <2>3, Zenon
  <2> QED BY <2>4, Zenon DEF Holds
<1> QED BY <1>4, <1>5

(* With every variable assigned and the queue drained, an input clause the *)
(* solver has is satisfied.                                                *)
LEMMA FullCovers ==
    ASSUME SolverInv(sat), Watching(sat, 0, {}), sat.qhead = Len(sat.trail), AllAssigned(sat),
           NEW c \in SUBSET Lits, Covered(sat, c)
    PROVE  Satisfies(Assignment, c)
<1>1. SolverType(sat)
  BY DEF SolverInv
<1>2. Assignment \in Assignments
  BY DEF Assignment, Assignments
<1>3. CASE \E l \in c : -l \in c
  <2>1. PICK l \in c : -l \in c
    BY <1>3
  <2>2. Holds(Assignment, l) \/ Holds(Assignment, -l)
    BY <1>2, HoldsNeg
  <2> QED BY <2>1, <2>2 DEF Satisfies
<1>4. CASE \E l \in c : LitValue(sat, l) = "True" /\ LevelOf(sat, l) = 0
  BY <1>1, <1>4, HoldsTrue DEF Satisfies
<1>5. CASE \E l \in Lits : \E d \in sat.watches[l] : sat.arena[d] \subseteq c
  <2>1. PICK l \in Lits : \E d \in sat.watches[l] : sat.arena[d] \subseteq c
    BY <1>5
  <2>2. PICK d \in sat.watches[l] : sat.arena[d] \subseteq c
    BY <2>1
  <2>3. PICK w \in Lits : d \in sat.watches[w] /\ GoodWatch(sat, w)
    BY <2>2 DEF Watching
  <2>4. w \in c
    BY <2>2, <2>3 DEF SolverInv, WatchesMatch
  <2>5. Len(sat.trail) \in Nat
    BY <1>1 DEF SolverType
  <2>6. sat.qhead + 1 .. Len(sat.trail) = {}
    BY <2>5
  <2>7. LitValue(sat, w) # "False"
    BY <2>3, <2>6 DEF GoodWatch
  <2>8. sat.assigns[Var(w)] # "Undef"
    BY FullTrail, LitFacts
  <2>9. LitValue(sat, w) = "True"
    BY <1>1, <2>7, <2>8, Values
  <2> QED BY <1>1, <2>4, <2>9, HoldsTrue DEF Satisfies
<1> QED BY <1>3, <1>4, <1>5 DEF Covered

(* A theory that admits the facts of a full assignment admits it. *)
LEMMA FullAdmits ==
    ASSUME SolverInv(sat), AllAssigned(sat), theory \in Theories,
           NEW L, InStep(sat, facts, L, Len(sat.trail)), ~Inconsistent(facts)
    PROVE  Assignment \in theory
<1>1. PICK m \in theory : \A f \in facts : Holds(m, f)
  BY DEF Inconsistent
<1>2. m \in Assignments /\ Assignment \in Assignments
  BY CdclTAssumption DEF Assignment, Assignments
<1>3. ASSUME NEW v \in Atoms PROVE m[v] = Assignment[v]
  <2>1. v \in Vars
    BY CdclTAssumption
  <2>2. PICK i \in 1 .. Len(sat.trail) : Var(sat.trail[i]) = v
    BY <2>1, FullTrail
  <2> DEFINE l == sat.trail[i]
  <2>3. l \in Lits /\ LitValue(sat, l) = "True" /\ Var(l) = v
    BY <2>2 DEF SolverInv, SolverType, TrailMatches
  <2>4. l \in facts
    BY <2>2 DEF InStep, Told
  <2> HIDE DEF l
  <2>5. Holds(m, l) /\ Holds(Assignment, l)
    BY <1>1, <2>3, <2>4, HoldsTrue DEF SolverInv
  <2> QED BY <2>3, <2>5, Zenon DEF Holds
<1>4. \A n \in Assignments : (\A v \in Atoms : m[v] = n[v]) => n \in theory
  BY <1>1, CdclTAssumption
<1> QED BY <1>2, <1>3, <1>4, Zenon

(* A Sat answer is right. *)
LEMMA TheoryAcceptsKeeps ==
    ASSUME IInv, Running, pc = "check", AllAssigned(sat), UNCHANGED <<formula, theory>>,
           TheoryAccepts
    PROVE  IInv'
<1>1. /\ SolverInv(sat) /\ Inputs /\ Loading /\ Scanning /\ AtPc
      /\ formula \in Seq(SUBSET Lits) /\ theory \in Theories
  BY ModelFacts DEF IInv, Running
<1>2. todo = <<>> /\ scan = NoScan
  BY <1>1 DEF Loading, Scanning
<1>3. /\ Watching(sat, scan.lit, scan.rest) /\ InStep(sat, facts, levels, notified)
      /\ sat.qhead = Len(sat.trail) /\ notified = Len(sat.trail)
  BY <1>1 DEF AtPc
<1>4. Watching(sat, 0, {})
  <2>1. scan.lit = 0 /\ scan.rest = {}
    BY <1>2 DEF NoScan
  <2> QED BY <1>3, <2>1
<1>5. ASSUME NEW i \in 1 .. Len(formula) PROVE Satisfies(Assignment, formula[i])
  <2>1. formula[i] \in SUBSET Lits
    BY <1>1
  <2>2. Covered(sat, formula[i])
    BY <1>1, <1>2 DEF Inputs
  <2> QED BY <1>1, <1>3, <1>4, <2>1, <2>2, FullCovers
<1>6. Assignment \in theory
  BY <1>1, <1>3, FullAdmits DEF TheoryAccepts
<1>7. IsModel(Assignment)
  BY <1>5, <1>6 DEF IsModel
<1>8. UNCHANGED <<formula, theory, sat, giveUp>> /\ verdict' = "sat" /\ pc' = "done"
  BY DEF TheoryAccepts, Finish
<1>9. IsModel(Assignment)' /\ AllAssigned(sat)'
  BY <1>7, <1>8 DEF IsModel, Assignment
<1>10. AnswersRight'
  BY <1>8, <1>9 DEF AnswersRight, IInv
<1> QED BY <1>8, <1>10 DEF IInv

(* A refuted assignment: the core is true, so its negation is false. *)
LEMMA TheoryRefutesKeeps ==
    ASSUME IInv, Running, pc = "check", TheoryRefutes,
           UNCHANGED <<formula, theory, todo, loading, scan>>
    PROVE  IInv'
<1>1. /\ SolverInv(sat) /\ TheoryOk(sat, facts, levels, notified)
      /\ AtPc /\ Models \in SUBSET Assignments
  BY ModelFacts DEF IInv, Running
<1>2. /\ InStep(sat, facts, levels, notified) /\ facts \in SUBSET Lits /\ notified \in Nat
  BY <1>1 DEF AtPc, TheoryOk
<1>3. PICK core \in Explain(facts) :
        /\ Inconsistent(core)
        /\ IF \E f \in core : LitValue(sat, f) = "Undef"
           THEN GiveUp /\ UNCHANGED <<sat, an, theoryVars>>
           ELSE /\ AddTheoryLemma({IF LitValue(sat, f) = "True" THEN -f ELSE f : f \in core})
                /\ UNCHANGED giveUp
  BY DEF TheoryRefutes
<1>4. core \in SUBSET facts /\ core \in SUBSET Lits
  BY <1>2, CdclTAssumption
<1>5. \A f \in core : f \in Lits /\ LitValue(sat, f) = "True"
  BY <1>1, <1>2, <1>4, FactsTrue
<1> DEFINE lits == {IF LitValue(sat, f) = "True" THEN -f ELSE f : f \in core}
<1>6. AddTheoryLemma(lits) /\ UNCHANGED giveUp
  BY <1>3, <1>5
<1>7. /\ \A q \in lits : \E f \in core : q = -f
      /\ \A f \in core : -f \in lits
  BY <1>5
<1> HIDE DEF lits
<1>8. lits \in SUBSET Lits /\ \A q \in lits : LitValue(sat, q) = "False"
  <2> SUFFICES ASSUME NEW q \in lits PROVE q \in Lits /\ LitValue(sat, q) = "False"
    OBVIOUS
  <2>1. PICK f \in core : q = -f
    BY <1>7
  <2> QED BY <1>1, <1>5, <2>1, LitFacts, Values DEF SolverInv
<1>9. ASSUME NEW m \in Models PROVE Satisfies(m, lits)
  <2>1. m \in theory /\ m \in Assignments
    BY <1>1, ModelFacts DEF IInv
  <2>2. PICK f \in core : ~Holds(m, f)
    BY <1>3, <2>1 DEF Inconsistent
  <2>3. Holds(m, -f)
    BY <1>5, <2>1, <2>2, HoldsNeg
  <2> QED BY <1>7, <2>3 DEF Satisfies
<1> QED BY <1>6, <1>8, <1>9, TheoryLemmaKeeps

(* PostCheck keeps the invariant. *)
LEMMA PostCheckKeeps == IInv /\ PostCheck => IInv'
<1> SUFFICES ASSUME IInv, PostCheck PROVE IInv'
  OBVIOUS
<1>1. /\ Running /\ pc = "check" /\ AllAssigned(sat)
      /\ UNCHANGED <<formula, theory, todo, loading, scan>>
  BY DEF IInv, PostCheck, problem, loadVars
<1>2. CASE TheoryAccepts
  BY <1>1, <1>2, TheoryAcceptsKeeps
<1>3. CASE TheoryRefutes
  BY <1>1, <1>3, TheoryRefutesKeeps
<1>4. CASE Finish("unknown") /\ UNCHANGED <<sat, an, theoryVars, giveUp>>
  BY <1>1, <1>4, FinishUnknown
<1> QED BY <1>2, <1>3, <1>4 DEF PostCheck

(* PickDecision keeps the invariant. *)
LEMMA PickDecisionKeeps == IInv /\ PickDecision => IInv'
<1> SUFFICES ASSUME IInv, PickDecision PROVE IInv'
  OBVIOUS
<1>1. /\ Running /\ pc = "check"
      /\ UNCHANGED <<formula, theory, todo, loading, scan, an>>
      /\ UNCHANGED <<facts, levels, notified, giveUp, verdict>>
  BY DEF IInv, PickDecision, problem, loadVars, theoryVars
<1>2. /\ SolverInv(sat) /\ SolverType(sat) /\ Follows(sat, Models)
      /\ TheoryOk(sat, facts, levels, notified) /\ Loading /\ Scanning /\ AtPc
  BY <1>1 DEF IInv, Running, SolverInv
<1>3. ~loading /\ scan = NoScan
  BY <1>1, <1>2 DEF Loading, Scanning
<1>4. /\ InStep(sat, facts, levels, notified) /\ Watching(sat, scan.lit, scan.rest)
      /\ sat.qhead = notified /\ Len(levels) = DecisionLevel(sat) /\ notified = Len(sat.trail)
  BY <1>1, <1>2 DEF AtPc
<1>5. scan.lit = 0 /\ scan.rest = {}
  BY <1>3 DEF NoScan
<1>6. PICK v \in sat.heap :
        IF LitValue(sat, v) = "Undef"
        THEN /\ \E l \in {v, -v} : sat' = Decide([sat EXCEPT !.heap = @ \ {v}], l)
             /\ pc' = "loop"
        ELSE /\ sat' = [sat EXCEPT !.heap = @ \ {v}]
             /\ UNCHANGED pc
  BY DEF PickDecision
<1> DEFINE p == [sat EXCEPT !.heap = @ \ {v}]
<1>7. v \in Vars
  BY <1>2 DEF SolverType
<1>8. Same(sat, p)
  BY <1>2 DEF Same, SolverType, Fields
<1>9. IF LitValue(sat, v) = "Undef"
      THEN (\E l \in {v, -v} : sat' = Decide(p, l)) /\ pc' = "loop"
      ELSE sat' = p /\ UNCHANGED pc
  BY <1>6
<1> HIDE DEF p
<1>10. /\ SolverInv(p) /\ Follows(p, Models) /\ RootKept(sat, p)
       /\ p.trail = sat.trail /\ p.lim = sat.lim /\ p.qhead = sat.qhead
       /\ \A l : LitValue(p, l) = LitValue(sat, l)
  BY <1>2, <1>8, SameKeeps, FollowsSame, RootSame, SameValues DEF Same
<1>11. Watching(p, 0, {})
  BY <1>4, <1>5, <1>8, WatchSame
<1>12. TheoryOk(p, facts, levels, notified) /\ InStep(p, facts, levels, notified)
  BY <1>2, <1>4, <1>10, TheoryStays
<1>13. DecisionLevel(p) = DecisionLevel(sat)
  BY <1>10 DEF DecisionLevel
<1>14. CASE sat' = p /\ UNCHANGED pc
  <2>1. Loading' /\ Scanning'
    BY <1>1, <1>2, <1>3, <1>14 DEF Loading, Scanning
  <2>2. AtPc'
    BY <1>1, <1>4, <1>5, <1>10, <1>11, <1>12, <1>13, <1>14 DEF AtPc
  <2> QED BY <1>1, <1>10, <1>12, <1>14, <2>1, <2>2, Continue
<1>15. ASSUME NEW l \in {v, -v}, LitValue(sat, v) = "Undef", sat' = Decide(p, l), pc' = "loop"
       PROVE  IInv'
  <2> DEFINE t == sat'
  <2>1. l \in Lits /\ LitValue(p, l) = "Undef"
    <3>1. v \in Lits /\ l \in Lits
      BY <1>7 DEF Lits
    <3>2. Var(l) = Var(v)
      BY <3>1, LitFacts
    <3>3. LitValue(sat, l) = "Undef"
      BY <1>2, <1>15, <3>1, <3>2, Values
    <3> QED BY <1>10, <3>1, <3>3
  <2>2. t = Decide(p, l)
    BY <1>15
  <2>3. /\ p.qhead = Len(p.trail) /\ Len(levels) = DecisionLevel(p) /\ notified = Len(p.trail)
    BY <1>4, <1>10, <1>13
  <2> HIDE DEF t
  <2>4. SolverInv(t) /\ Decided(p, t, l)
    BY <1>10, <2>1, <2>2, <2>3, DecideKeeps
  <2>5. Follows(t, Models)
    BY <1>10, <2>1, <2>4, FollowsDecide
  <2>6. RootKept(sat, t)
    BY <1>10, <2>1, <2>4, RootDecide, RootTrans DEF SolverInv
  <2>7. TheoryOk(t, facts, levels, notified) /\ InStep(t, facts, levels, notified)
    BY <1>10, <1>12, <2>1, <2>3, <2>4, TheoryDecides
  <2>8. Watching(t, 0, {})
    BY <1>10, <1>11, <2>1, <2>3, <2>4, WatchDecide
  <2>9. Loading' /\ Scanning'
    BY <1>1, <1>2, <1>3, <1>15 DEF Loading, Scanning
  <2>10. AtPc'
    BY <1>1, <1>5, <1>15, <2>7, <2>8 DEF AtPc, t
  <2> QED BY <1>1, <2>4, <2>5, <2>6, <2>7, <2>9, <2>10, Continue DEF t
<1> QED BY <1>9, <1>14, <1>15

-----------------------------------------------------------------------------
(* The theorems.                                                           *)

(* Every step keeps the invariant. *)
LEMMA NextKeeps == IInv /\ [Next]_vars => IInv'
<1> SUFFICES ASSUME IInv, [Next]_vars PROVE IInv'
  OBVIOUS
<1>1. CASE AddClause
  BY <1>1, AddClauseKeeps
<1>2. CASE StartLoop
  BY <1>2, StartLoopKeeps
<1>3. CASE BeginIteration
  BY <1>3, BeginIterationKeeps
<1>4. CASE NextLiteral
  BY <1>4, NextLiteralKeeps
<1>5. CASE Quiet
  BY <1>5, QuietKeeps
<1>6. CASE ScanEnd
  BY <1>6, ScanEndKeeps
<1>7. CASE VisitWatcher
  BY <1>7, VisitWatcherKeeps
<1>8. CASE Resolve
  BY <1>8, ResolveKeeps
<1>9. CASE Learn
  BY <1>9, LearnKeeps
<1>10. CASE Sync
  BY <1>10, SyncKeeps
<1>11. CASE TheoryPropagates
  BY <1>11, TheoryPropagatesKeeps
<1>12. CASE TheoryRoundEnds
  BY <1>12, TheoryRoundEndsKeeps
<1>13. CASE PostCheck
  BY <1>13, PostCheckKeeps
<1>14. CASE PickDecision
  BY <1>14, PickDecisionKeeps
<1>15. CASE Terminated
  BY <1>15, TerminatedKeeps DEF Terminated
<1>16. CASE UNCHANGED vars
  BY <1>16, TerminatedKeeps
<1> QED BY <1>1, <1>2, <1>3, <1>4, <1>5, <1>6, <1>7, <1>8, <1>9, <1>10,
           <1>11, <1>12, <1>13, <1>14, <1>15, <1>16 DEF Next

(* The inductive invariant: see IInv and the parts it names. *)
THEOREM InvariantHolds == Spec => []IInv
<1>1. Init => IInv
  BY InitKeeps
<1>2. IInv /\ [Next]_vars => IInv'
  BY NextKeeps
<1> QED BY <1>1, <1>2, PTL DEF Spec

(* Whatever the formula, the theory, and the choices made on the way, Sat  *)
(* comes with an assignment that satisfies every input clause and that the *)
(* theory admits, Unsat means there is none, and the exits of analyze and  *)
(* of apply_theory_conflict that give up are never taken.                  *)
THEOREM AnswersAreRight == Spec => []AnswersRight
<1>1. IInv => AnswersRight
  BY DEF IInv
<1> QED BY <1>1, InvariantHolds, PTL

(* What analyze resolves on asserts: the reason of a literal of the trail  *)
(* contains it, and its other literals were made false before it.          *)
THEOREM ReasonsAlwaysAssert == Spec => []ReasonsAssert
<1>1. IInv => ReasonsAssert
  BY DEF IInv, SolverInv, ReasonsMatch, ReasonsAssert
<1> QED BY <1>1, InvariantHolds, PTL

(* When propagate returns without a conflict, no watched clause is false.  *)
THEOREM NoConflictIsMissed == Spec => []NoConflictMissed
<1>1. ASSUME IInv PROVE NoConflictMissed
  <2> SUFFICES ASSUME pc = "sync", NEW c \in 1 .. Len(sat.arena), NEW l \in Lits,
                      c \in sat.watches[l]
               PROVE  \E q \in sat.arena[c] : LitValue(sat, q) # "False"
    BY DEF NoConflictMissed
  <2>1. SolverInv(sat) /\ Scanning /\ AtPc
    BY <1>1 DEF IInv, Running
  <2>2. scan = NoScan /\ sat.qhead = Len(sat.trail) /\ Watching(sat, scan.lit, scan.rest)
    BY <2>1 DEF Scanning, AtPc
  <2>3. scan.rest = {}
    BY <2>2 DEF NoScan
  <2>4. PICK w \in Lits : c \in sat.watches[w] /\ GoodWatch(sat, w)
    BY <2>2, <2>3 DEF Watching
  <2>5. Len(sat.trail) \in Nat
    BY <2>1 DEF SolverInv, SolverType
  <2>6. sat.qhead + 1 .. Len(sat.trail) = {}
    BY <2>2, <2>5
  <2>7. LitValue(sat, w) # "False"
    BY <2>4, <2>6 DEF GoodWatch
  <2>8. w \in sat.arena[c]
    BY <2>1, <2>4 DEF SolverInv, WatchesMatch
  <2> QED BY <2>7, <2>8
<1> QED BY <1>1, InvariantHolds, PTL

=============================================================================
