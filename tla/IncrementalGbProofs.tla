-------------------------- MODULE IncrementalGbProofs --------------------------
(*****************************************************************************)
(* What the engine holds follows from what it was told, at every level and   *)
(* wherever it was cancelled, and from the inputs that the tracer names; and *)
(* an engine that is never cancelled stops with a Groebner basis.            *)
(*                                                                           *)
(* The polynomials, their division and their ideals are parameters of the    *)
(* engine.  The theorems assume of them only the laws it relies on: Laws for *)
(* the first two, PairLaws as well for the third.                            *)
(*                                                                           *)
(* The invariant IInv says of each level that its elements follow from what  *)
(* that level was told and that its queue pairs elements (LevelRight), of    *)
(* the calls of an observed engine which inputs it has consumed              *)
(* (CallsRight), and of the tracer's sets that they entail (DepsSound).      *)
(*                                                                           *)
(* The invariant GInv says of each level that is not trivial that every pair *)
(* of its elements is accounted for by its queue (Complete) and that its     *)
(* elements generate what it was told (Generates).  A pair is accounted for  *)
(* when the queue and the pairs joined so far connect its elements at their  *)
(* least common multiple; the criteria put aside pairs that are connected.   *)
(*****************************************************************************)
EXTENDS IncrementalGb, FoldLemmas, TLAPS

CONSTANT Polys  \* the polynomials

\* The laws of the arithmetic, and callers that add polynomials.
Laws ==
    /\ Closed(Polys)
    /\ Membership(Polys, Seq(Polys \ {Zero}), SUBSET Polys)
    /\ Dividing(Polys, Seq(Polys \ {Zero}))
    /\ \A c \in Configs : Batches(c) \subseteq Seq(Polys)

-------------------------------------------------------------------------------
(* The laws, one by one. *)

(* A generator is in the ideal, and more generators lose nothing. *)
LEMMA GeneratorIn ==
    ASSUME Laws, NEW S \in SUBSET Polys, NEW p \in S
    PROVE  Member(p, S)
BY DEF Laws, Membership

(* More generators lose nothing. *)
LEMMA MoreIn ==
    ASSUME Laws, NEW T \in SUBSET Polys, NEW S \in SUBSET T, NEW p \in Polys, Member(p, S)
    PROVE  Member(p, T)
<1>1. S \in SUBSET Polys /\ \A q \in S : Member(q, T)
    BY DEF Laws, Membership
<1> QED BY <1>1 DEF Laws, Membership

(* Scaling stays in the ideal. *)
LEMMA MonicIn ==
    ASSUME Laws, NEW p \in Polys \ {Zero}
    PROVE  /\ Monic(p) \in Polys \ {Zero}
           /\ IsConstant(p) => IsConstant(Monic(p))
           /\ \A S \in SUBSET Polys : Member(p, S) => Member(Monic(p), S)
BY DEF Laws, Membership, Closed, Dividing, IsConstant

(* An S-polynomial is in the ideal of its pair. *)
LEMMA SPolynomialIn ==
    ASSUME Laws, NEW p \in Polys \ {Zero}, NEW q \in Polys \ {Zero}
    PROVE  /\ SPolynomial(p, q) \in Polys
           /\ \A S \in SUBSET Polys : Member(p, S) /\ Member(q, S) => Member(SPolynomial(p, q), S)
BY DEF Laws, Membership, Closed

(* A normal form is in the ideal of the dividend and the divisors used. *)
LEMMA NormalFormIn ==
    ASSUME Laws, NEW p \in Polys, NEW D \in Seq(Polys \ {Zero})
    PROVE  /\ NormalForm(p, D).nf \in Polys
           /\ NormalForm(p, D).used \subseteq DOMAIN D
           /\ (\E k \in DOMAIN D : IsConstant(D[k])) => NormalForm(p, D).nf = Zero
           /\ \A S \in SUBSET Polys :
                 Member(p, S) /\ (\A k \in NormalForm(p, D).used : Member(D[k], S))
                     => Member(NormalForm(p, D).nf, S)
BY DEF Laws, Membership, Closed, Dividing, IsConstant

-------------------------------------------------------------------------------
(* The basis. *)

\* An element of a basis.
IsElement(e) ==
    /\ e = [poly |-> e.poly, lt |-> e.lt, active |-> e.active, sugar |-> e.sugar]
    /\ e.poly \in Polys \ {Zero}

\* A basis of polynomials that follow from S.
Follows(b, S) ==
    /\ b \in Seq(Range(b)) /\ \A i \in DOMAIN b : IsElement(b[i])
    /\ \A i \in DOMAIN b : Member(b[i].poly, S)

(* The active elements, in their order. *)
LEMMA ActiveAre ==
    ASSUME NEW b, b \in Seq(Range(b))
    PROVE  /\ ActiveIndices(b) \in Seq(DOMAIN b)
           /\ Range(ActiveIndices(b)) = {i \in DOMAIN b : b[i].active}
<1> DEFINE seq == [i \in DOMAIN b |-> i]
           S == {i \in DOMAIN b : b[i].active}
<1>1. seq \in Seq(DOMAIN b) /\ Range(seq) = DOMAIN b /\ S \subseteq DOMAIN b
  <2>1. DOMAIN b = 1 .. Len(b) /\ Len(b) \in Nat
    OBVIOUS
  <2>2. seq \in Seq(DOMAIN b)
    BY <2>1
  <2>3. Range(seq) = DOMAIN b
    BY DEF Range
  <2> QED BY <2>2, <2>3
<1>2. ActiveIndices(b) = Selected(seq, S)
    BY DEF ActiveIndices
<1> HIDE DEF seq, S
<1>3. Selected(seq, S) \in Seq(DOMAIN b \cap S) /\ Range(Selected(seq, S)) = Range(seq) \cap S
    BY <1>1, SelectedSeq, SelectedRange
<1>4. DOMAIN b \cap S = S /\ Selected(seq, S) \in Seq(DOMAIN b)
    BY <1>1, <1>3
<1> QED BY <1>1, <1>2, <1>3, <1>4 DEF S

(* Their polynomials are divisors. *)
LEMMA PolysAre ==
    ASSUME NEW b, b \in Seq(Range(b)), \A i \in DOMAIN b : IsElement(b[i]), NEW idx \in Seq(DOMAIN b)
    PROVE  /\ PolysAt(b, idx) \in Seq(Polys \ {Zero})
           /\ DOMAIN PolysAt(b, idx) = DOMAIN idx
           /\ \A k \in DOMAIN idx : PolysAt(b, idx)[k] = b[idx[k]].poly /\ idx[k] \in DOMAIN b
<1>1. DOMAIN idx = 1 .. Len(idx) /\ Len(idx) \in Nat /\ \A k \in DOMAIN idx : idx[k] \in DOMAIN b
    OBVIOUS
<1>2. \A k \in DOMAIN idx : b[idx[k]].poly \in Polys \ {Zero}
    BY <1>1 DEF IsElement
<1>3. PolysAt(b, idx) = [k \in 1 .. Len(idx) |-> b[idx[k]].poly]
    BY <1>1 DEF PolysAt
<1> QED BY <1>1, <1>2, <1>3

(* What a generator reduces to follows from it and the basis, by the active *)
(* elements alone; and it is nothing once a constant is active.             *)
LEMMA ReducedIs ==
    ASSUME Laws, NEW b, b \in Seq(Range(b)), \A i \in DOMAIN b : IsElement(b[i]), NEW p \in Polys
    PROVE  LET r == NormalForm(p, PolysAt(b, ActiveIndices(b)))
           IN  /\ r.nf \in Polys
               /\ \A k \in r.used : k \in DOMAIN ActiveIndices(b) /\ ActiveIndices(b)[k] \in DOMAIN b
               /\ (\E i \in DOMAIN b : b[i].active /\ IsConstant(b[i].poly)) => r.nf = Zero
               /\ \A S \in SUBSET Polys :
                     Member(p, S) /\ (\A k \in r.used : Member(b[ActiveIndices(b)[k]].poly, S)) => Member(r.nf, S)
<1> DEFINE idx == ActiveIndices(b)
           D == PolysAt(b, idx)
           r == NormalForm(p, D)
<1>1. idx \in Seq(DOMAIN b) /\ Range(idx) = {i \in DOMAIN b : b[i].active}
    BY ActiveAre
<1> HIDE DEF idx
<1>2. /\ D \in Seq(Polys \ {Zero}) /\ DOMAIN D = DOMAIN idx
      /\ \A k \in DOMAIN idx : D[k] = b[idx[k]].poly /\ idx[k] \in DOMAIN b
    BY <1>1, PolysAre
<1> HIDE DEF D
<1>3. /\ r.nf \in Polys /\ r.used \subseteq DOMAIN D
      /\ (\E k \in DOMAIN D : IsConstant(D[k])) => r.nf = Zero
      /\ \A S \in SUBSET Polys : Member(p, S) /\ (\A k \in r.used : Member(D[k], S)) => Member(r.nf, S)
    BY <1>2, NormalFormIn
<1>4. ASSUME NEW i \in DOMAIN b, b[i].active, IsConstant(b[i].poly) PROVE r.nf = Zero
  <2>1. PICK k \in DOMAIN idx : idx[k] = i
    BY <1>1, <1>4 DEF Range
  <2> QED BY <1>2, <1>3, <1>4, <2>1
<1> HIDE DEF r
<1> QED BY <1>2, <1>3, <1>4 DEF r, D, idx

(* Intervals that are equal have equal ends. *)
LEMMA SameLength ==
    ASSUME NEW m \in Nat, NEW n \in Nat, 1 .. m = 1 .. n
    PROVE  m = n
<1>1. m > 0 => m \in 1 .. n
    OBVIOUS
<1>2. n > 0 => n \in 1 .. m
    OBVIOUS
<1> QED BY <1>1, <1>2

(* One more element. *)
LEMMA OneMore ==
    ASSUME NEW b, b \in Seq(Range(b)), NEW e
    PROVE  /\ Append(b, e) \in Seq(Range(Append(b, e))) /\ DOMAIN Append(b, e) = DOMAIN b \cup {Len(b) + 1}
           /\ Append(b, e)[Len(b) + 1] = e /\ Len(b) + 1 \notin DOMAIN b
           /\ \A i \in DOMAIN b : Append(b, e)[i] = b[i]
<1> DEFINE T == Range(b) \cup {e}
           c == Append(b, e)
<1>1. b \in Seq(T) /\ e \in T /\ Len(b) \in Nat /\ DOMAIN b = 1 .. Len(b)
    OBVIOUS
<1> HIDE DEF T
<1>2. /\ c \in Seq(T) /\ Len(c) = Len(b) + 1 /\ DOMAIN c = 1 .. (Len(b) + 1)
      /\ c[Len(b) + 1] = e /\ \A i \in 1 .. Len(b) : c[i] = b[i]
    BY <1>1
<1> HIDE DEF c
<1>3. c \in Seq(Range(c))
  <2>1. c \in [1 .. Len(c) -> Range(c)]
    BY <1>1, <1>2 DEF Range
  <2> QED BY <1>1, <1>2, <2>1
<1>4. 1 .. (Len(b) + 1) = (1 .. Len(b)) \cup {Len(b) + 1} /\ Len(b) + 1 \notin 1 .. Len(b)
    BY <1>1
<1> QED BY <1>1, <1>2, <1>3, <1>4 DEF c

(* Elements of the same polynomials follow from the same generators. *)
LEMMA SameFollows ==
    ASSUME NEW b, NEW S, Follows(b, S), NEW c,
           c = [i \in DOMAIN b |-> c[i]],
           \A i \in DOMAIN b : IsElement(c[i]) /\ Member(c[i].poly, S)
    PROVE  Follows(c, S) /\ DOMAIN c = DOMAIN b
<1>1. DOMAIN b = 1 .. Len(b) /\ Len(b) \in Nat
    BY DEF Follows
<1>2. c \in [1 .. Len(b) -> Range(c)]
    BY <1>1 DEF Range
<1>3. c \in Seq(Range(c)) /\ DOMAIN c = DOMAIN b
    BY <1>1, <1>2
<1> QED BY <1>3 DEF Follows

(* An element that follows keeps the basis following. *)
LEMMA AppendFollows ==
    ASSUME NEW b, NEW S, Follows(b, S), NEW e, IsElement(e), Member(e.poly, S)
    PROVE  Follows(Append(b, e), S)
<1> DEFINE c == Append(b, e)
<1>1. /\ c \in Seq(Range(c)) /\ DOMAIN c = DOMAIN b \cup {Len(b) + 1}
      /\ c[Len(b) + 1] = e /\ \A i \in DOMAIN b : c[i] = b[i]
    BY OneMore DEF Follows
<1> HIDE DEF c
<1>2. \A i \in DOMAIN c : IsElement(c[i]) /\ Member(c[i].poly, S)
    BY <1>1 DEF Follows
<1> QED BY <1>1, <1>2 DEF Follows, c

(* A new element, with those it supersedes put aside. *)
LEMMA BasisWithFollows ==
    ASSUME NEW S, Follows(basis, S), NEW f \in Polys \ {Zero}, Member(f, S), NEW sugar
    PROVE  /\ Follows(BasisWith(f, sugar), S)
           /\ DOMAIN BasisWith(f, sugar) = DOMAIN basis \cup {Len(basis) + 1}
           /\ BasisWith(f, sugar)[Len(basis) + 1] = Element(f, sugar)
           /\ \A i \in DOMAIN basis : BasisWith(f, sugar)[i].poly = basis[i].poly
<1> DEFINE off(k) == basis[k].active /\ ~Divides(Lead(f), basis[k].lt)
           b == [k \in DOMAIN basis |-> [basis[k] EXCEPT !.active = off(k)]]
           e == Element(f, sugar)
<1>1. ASSUME NEW k \in DOMAIN basis PROVE IsElement(b[k]) /\ b[k].poly = basis[k].poly
  <2>1. IsElement(basis[k])
    BY DEF Follows
  <2> DEFINE x == basis[k]
  <2>2. b[k] = [x EXCEPT !.active = off(k)]
    OBVIOUS
  <2>3. x = [poly |-> x.poly, lt |-> x.lt, active |-> x.active, sugar |-> x.sugar] /\ x.poly \in Polys \ {Zero}
    BY <2>1 DEF IsElement
  <2> HIDE DEF off, x
  <2>4. b[k] = [poly |-> x.poly, lt |-> x.lt, active |-> off(k), sugar |-> x.sugar]
    BY <2>2, <2>3
  <2> HIDE DEF b
  <2>5. b[k].poly = x.poly /\ IsElement(b[k])
    BY <2>3, <2>4 DEF IsElement
  <2> QED BY <2>5 DEF x
<1>2. b = [k \in DOMAIN basis |-> b[k]]
    OBVIOUS
<1>3. BasisWith(f, sugar) = Append(b, e)
    BY DEF BasisWith
<1> HIDE DEF b
<1>4. Follows(b, S) /\ DOMAIN b = DOMAIN basis
  <2>1. \A k \in DOMAIN basis : IsElement(b[k]) /\ Member(b[k].poly, S)
    BY <1>1 DEF Follows
  <2> QED BY <1>2, <2>1, SameFollows
<1>5. IsElement(e) /\ e.poly = f
    BY DEF Element, IsElement
<1>6. Len(b) = Len(basis)
  <2>1. Len(b) \in Nat /\ DOMAIN b = 1 .. Len(b) /\ Len(basis) \in Nat /\ DOMAIN basis = 1 .. Len(basis)
    BY <1>4 DEF Follows
  <2> QED BY <1>4, <2>1, SameLength
<1> HIDE DEF e
<1>7. /\ Follows(Append(b, e), S) /\ DOMAIN Append(b, e) = DOMAIN b \cup {Len(b) + 1}
      /\ Append(b, e)[Len(b) + 1] = e /\ \A i \in DOMAIN b : Append(b, e)[i] = b[i]
    BY <1>4, <1>5, AppendFollows, OneMore DEF Follows
<1> QED BY <1>1, <1>3, <1>4, <1>6, <1>7 DEF e

\* The pairs of a queue are pairs of elements.
Paired(queue, b) == \A p \in queue : p.i \in DOMAIN b /\ p.j \in DOMAIN b

(* The pairs of a new element are with elements there are. *)
LEMMA OpenWithPaired ==
    ASSUME NEW queue, Paired(queue, basis), NEW lt, NEW sugar, NEW b,
           DOMAIN b = DOMAIN basis \cup {Len(basis) + 1}
    PROVE  Paired(OpenWith(queue, lt, sugar), b)
<1>1. SUFFICES ASSUME NEW p \in OpenWith(queue, lt, sugar)
               PROVE  p.i \in DOMAIN b /\ p.j \in DOMAIN b
    BY DEF Paired
<1>2. CASE p \in queue
    BY <1>2 DEF Paired
<1>3. CASE p \notin queue
  <2>1. p \in {NewPair(k, lt, sugar) : k \in Partners(lt)}
    BY <1>1, <1>3 DEF OpenWith, Undominated
  <2>2. PICK k \in Partners(lt) : p = NewPair(k, lt, sugar)
    BY <2>1
  <2>3. p.i = k /\ p.j = Len(basis) + 1
    BY <2>2 DEF NewPair
  <2> QED BY <2>3 DEF Partners
<1> QED BY <1>2, <1>3

-------------------------------------------------------------------------------
(* Inter-reduction. *)

\* The tracer folds what reduces an element in place into its dependencies.
Tracking == config.traced /\ config.trackDeps

\* An inter-reduction on its way: the polynomials, and the dependencies.
Reducing(idx, d) ==
    [polys : [DOMAIN idx -> Polys],
     deps : IF Tracking THEN [DOMAIN d -> SUBSET DOMAIN inputs] ELSE {d}]

(* More inputs. *)
LEMMA InputsAre ==
    ASSUME inputs \in Seq(Polys), NEW E \in SUBSET DOMAIN inputs, NEW D \in SUBSET E
    PROVE  InputsOf(E) \in SUBSET Polys /\ InputsOf(D) \in SUBSET InputsOf(E)
BY DEF InputsOf

(* An element is reduced by the others that are not zero. *)
LEMMA OthersAre ==
    ASSUME NEW T, NEW idx \in Seq(T), NEW d, NEW w \in Reducing(idx, d), NEW i
    PROVE  /\ [k \in DOMAIN Others(idx, w, i) |-> w.polys[Others(idx, w, i)[k]]] \in Seq(Polys \ {Zero})
           /\ \A k \in DOMAIN Others(idx, w, i) : Others(idx, w, i)[k] \in DOMAIN idx /\ Others(idx, w, i)[k] # i
<1> DEFINE seq == [k \in DOMAIN idx |-> k]
           S == {k \in DOMAIN idx : k # i /\ w.polys[k] # Zero}
           o == Others(idx, w, i)
<1>1. DOMAIN idx = 1 .. Len(idx) /\ Len(idx) \in Nat
    OBVIOUS
<1>2. seq \in Seq(DOMAIN idx)
    BY <1>1
<1>3. o = Selected(seq, S)
    BY DEF Others
<1>4. \A k \in S : k \in DOMAIN idx /\ k # i /\ w.polys[k] \in Polys \ {Zero}
    BY DEF Reducing
<1> HIDE DEF seq, S, o
<1>5. o \in Seq(DOMAIN idx \cap S)
    BY <1>2, <1>3, SelectedSeq
<1>6. DOMAIN o = 1 .. Len(o) /\ Len(o) \in Nat /\ \A k \in DOMAIN o : o[k] \in S /\ o[k] \in DOMAIN idx
    BY <1>5
<1>7. [k \in DOMAIN o |-> w.polys[o[k]]] \in Seq(Polys \ {Zero})
    BY <1>4, <1>6
<1> QED BY <1>4, <1>6, <1>7 DEF o

(* One element reduced: only it changes, and it follows from what the       *)
(* polynomials follow from; its dependencies grow by those of its reducers. *)
LEMMA ReduceAtIs ==
    ASSUME Laws, inputs \in Seq(Polys), NEW T, NEW idx \in Seq(T), NEW d, Tracking => T \subseteq DOMAIN d,
           NEW w \in Reducing(idx, d), NEW i \in DOMAIN idx
    PROVE  LET o == ReduceAt(idx, w, i)
           IN  /\ o \in Reducing(idx, d)
               /\ \A k \in DOMAIN idx : k # i => o.polys[k] = w.polys[k]
               /\ \A S \in SUBSET Polys :
                     (\A k \in DOMAIN idx : Member(w.polys[k], S)) => Member(o.polys[i], S)
               /\ Tracking =>
                     /\ \A j \in DOMAIN d : w.deps[j] \subseteq o.deps[j]
                     /\ (\A k \in DOMAIN idx : Member(w.polys[k], InputsOf(w.deps[idx[k]])))
                            => Member(o.polys[i], InputsOf(o.deps[idx[i]]))
<1> DEFINE others == Others(idx, w, i)
           D == [k \in DOMAIN others |-> w.polys[others[k]]]
           r == NormalForm(w.polys[i], D)
           used == {idx[others[k]] : k \in r.used}
           more == UNION {w.deps[u] : u \in used}
           o == ReduceAt(idx, w, i)
<1>1. /\ w.polys \in [DOMAIN idx -> Polys]
      /\ Tracking => w.deps \in [DOMAIN d -> SUBSET DOMAIN inputs]
      /\ ~Tracking => w.deps = d
    BY DEF Reducing
<1>2. o.polys = [w.polys EXCEPT ![i] = r.nf]
    BY DEF ReduceAt
<1>3. Tracking => o.deps = [w.deps EXCEPT ![idx[i]] = w.deps[idx[i]] \cup more]
    BY DEF ReduceAt, Tracking
<1>4. ~Tracking => o.deps = w.deps
    BY DEF ReduceAt, Tracking
<1>5. o = [polys |-> o.polys, deps |-> o.deps]
    BY DEF ReduceAt
<1>6. D \in Seq(Polys \ {Zero}) /\ \A k \in DOMAIN others : others[k] \in DOMAIN idx
    BY OthersAre
<1>7. DOMAIN D = DOMAIN others /\ \A k \in DOMAIN others : D[k] = w.polys[others[k]]
    OBVIOUS
<1>8. \A k \in r.used : idx[others[k]] \in used
    OBVIOUS
<1>9. \A u \in used : w.deps[u] \subseteq more /\ \E k \in r.used : u = idx[others[k]]
    OBVIOUS
<1>10. \A x \in more : \E u \in used : x \in w.deps[u]
    OBVIOUS
<1> HIDE DEF o, more, used, D, others
<1>11. /\ r.nf \in Polys /\ r.used \subseteq DOMAIN D
       /\ \A S \in SUBSET Polys :
             Member(w.polys[i], S) /\ (\A k \in r.used : Member(D[k], S)) => Member(r.nf, S)
    BY <1>1, <1>6, NormalFormIn
<1> HIDE DEF r
<1>12. o.polys \in [DOMAIN idx -> Polys] /\ o.polys[i] = r.nf
       /\ \A k \in DOMAIN idx : k # i => o.polys[k] = w.polys[k]
    BY <1>1, <1>2, <1>11
<1>13. ASSUME Tracking
       PROVE  /\ o.deps \in [DOMAIN d -> SUBSET DOMAIN inputs]
              /\ \A j \in DOMAIN d : w.deps[j] \subseteq o.deps[j]
              /\ o.deps[idx[i]] = w.deps[idx[i]] \cup more
              /\ \A k \in DOMAIN idx : idx[k] \in DOMAIN d
  <2>1. \A k \in DOMAIN idx : idx[k] \in DOMAIN d
    BY <1>13
  <2>2. used \subseteq DOMAIN d
    BY <1>6, <1>7, <1>9, <1>11, <2>1
  <2>3. more \subseteq DOMAIN inputs
    BY <1>1, <1>10, <1>13, <2>2
  <2>4. w.deps \in [DOMAIN d -> SUBSET DOMAIN inputs] /\ o.deps = [w.deps EXCEPT ![idx[i]] = w.deps[idx[i]] \cup more]
    BY <1>1, <1>3, <1>13
  <2>5. idx[i] \in DOMAIN d
    BY <2>1
  <2> QED BY <2>1, <2>3, <2>4, <2>5
<1>14. o \in Reducing(idx, d)
  <2>1. CASE Tracking
    BY <1>5, <1>12, <1>13, <2>1 DEF Reducing
  <2>2. CASE ~Tracking
    BY <1>1, <1>4, <1>5, <1>12, <2>2 DEF Reducing
  <2> QED BY <2>1, <2>2
<1>15. ASSUME NEW S \in SUBSET Polys, \A k \in DOMAIN idx : Member(w.polys[k], S)
       PROVE  Member(o.polys[i], S)
  <2>1. \A k \in r.used : others[k] \in DOMAIN idx /\ D[k] = w.polys[others[k]]
    BY <1>6, <1>7, <1>11
  <2>2. Member(w.polys[i], S) /\ \A k \in r.used : Member(D[k], S)
    BY <1>15, <2>1
  <2>3. Member(r.nf, S)
    BY <1>11, <2>2
  <2> QED BY <1>12, <2>3
<1>16. ASSUME Tracking, \A k \in DOMAIN idx : Member(w.polys[k], InputsOf(w.deps[idx[k]]))
       PROVE  Member(o.polys[i], InputsOf(o.deps[idx[i]]))
  <2> DEFINE E == o.deps[idx[i]]
  <2>1. /\ E \in SUBSET DOMAIN inputs /\ w.deps[idx[i]] \in SUBSET E
        /\ \A k \in r.used : w.deps[idx[others[k]]] \in SUBSET E
    BY <1>8, <1>9, <1>13, <1>16
  <2> HIDE DEF E
  <2>2. InputsOf(E) \in SUBSET Polys
    BY <2>1, InputsAre
  <2>3. Member(w.polys[i], InputsOf(E))
    BY <1>1, <1>16, <2>1, <2>2, InputsAre, MoreIn
  <2>4. ASSUME NEW k \in r.used PROVE Member(D[k], InputsOf(E))
    <3>1. others[k] \in DOMAIN idx /\ D[k] = w.polys[others[k]] /\ w.polys[others[k]] \in Polys
        BY <1>1, <1>6, <1>7, <1>11
    <3>2. Member(D[k], InputsOf(w.deps[idx[others[k]]])) /\ w.deps[idx[others[k]]] \in SUBSET E
        BY <1>16, <2>1, <3>1
    <3>3. InputsOf(w.deps[idx[others[k]]]) \in SUBSET InputsOf(E)
        BY <2>1, <3>2, InputsAre
    <3> QED BY <2>2, <3>1, <3>2, <3>3, MoreIn
  <2>5. Member(r.nf, InputsOf(E))
    BY <1>11, <2>2, <2>3, <2>4
  <2> QED BY <1>12, <2>5 DEF E
<1> QED BY <1>12, <1>13, <1>14, <1>15, <1>16 DEF o

\* Dependencies that entail the polynomials.
Entails(idx, w) == \A k \in DOMAIN idx : Member(w.polys[k], InputsOf(w.deps[idx[k]]))

\* Every element is entailed by the inputs it depends on.
DepsRight(b, d) == \A i \in DOMAIN b : Member(b[i].poly, InputsOf(d[i]))

\* The dependencies of each element are inputs.
DepsOf(b, d) == d \in [DOMAIN b -> SUBSET DOMAIN inputs]

\* On its way, all still follows from S and, if it did at first, from the inputs it depends on.
OnItsWay(b, idx, d, S) ==
    {w \in Reducing(idx, d) :
        /\ \A k \in DOMAIN idx : Member(w.polys[k], S)
        /\ Tracking => \A j \in DOMAIN d : d[j] \subseteq w.deps[j]
        /\ Tracking /\ DepsRight(b, d) => Entails(idx, w)}

(* Reducing one element keeps all that. *)
LEMMA ReduceAtKeeps ==
    ASSUME Laws, inputs \in Seq(Polys), NEW T, NEW idx \in Seq(T), NEW d, Tracking => T \subseteq DOMAIN d,
           NEW b, NEW S \in SUBSET Polys, NEW w \in OnItsWay(b, idx, d, S),
           NEW i \in DOMAIN idx
    PROVE  ReduceAt(idx, w, i) \in OnItsWay(b, idx, d, S)
<1> DEFINE o == ReduceAt(idx, w, i)
<1>1. /\ w \in Reducing(idx, d) /\ \A k \in DOMAIN idx : Member(w.polys[k], S)
      /\ Tracking => \A j \in DOMAIN d : d[j] \subseteq w.deps[j]
      /\ Tracking /\ DepsRight(b, d) => Entails(idx, w)
    BY DEF OnItsWay
<1>2. /\ o \in Reducing(idx, d)
      /\ \A k \in DOMAIN idx : k # i => o.polys[k] = w.polys[k]
      /\ (\A k \in DOMAIN idx : Member(w.polys[k], S)) => Member(o.polys[i], S)
      /\ Tracking =>
            /\ \A j \in DOMAIN d : w.deps[j] \subseteq o.deps[j]
            /\ (\A k \in DOMAIN idx : Member(w.polys[k], InputsOf(w.deps[idx[k]])))
                   => Member(o.polys[i], InputsOf(o.deps[idx[i]]))
  <2>1. w \in Reducing(idx, d)
    BY <1>1
  <2>2. /\ o \in Reducing(idx, d)
        /\ \A k \in DOMAIN idx : k # i => o.polys[k] = w.polys[k]
        /\ \A U \in SUBSET Polys :
              (\A k \in DOMAIN idx : Member(w.polys[k], U)) => Member(o.polys[i], U)
        /\ Tracking =>
              /\ \A j \in DOMAIN d : w.deps[j] \subseteq o.deps[j]
              /\ (\A k \in DOMAIN idx : Member(w.polys[k], InputsOf(w.deps[idx[k]])))
                     => Member(o.polys[i], InputsOf(o.deps[idx[i]]))
    BY <2>1, ReduceAtIs, Zenon
  <2> HIDE DEF o
  <2> QED BY <2>2
<1> HIDE DEF o
<1>3. \A k \in DOMAIN idx : Member(o.polys[k], S)
    BY <1>1, <1>2
<1>4. Tracking => \A j \in DOMAIN d : d[j] \subseteq o.deps[j]
    BY <1>1, <1>2
<1>5. ASSUME Tracking, DepsRight(b, d) PROVE Entails(idx, o)
  <2>1. \A k \in DOMAIN idx : Member(w.polys[k], InputsOf(w.deps[idx[k]]))
    BY <1>1, <1>5 DEF Entails
  <2>2. SUFFICES ASSUME NEW k \in DOMAIN idx PROVE Member(o.polys[k], InputsOf(o.deps[idx[k]]))
    BY DEF Entails
  <2>3. CASE k = i
    BY <1>2, <1>5, <2>1, <2>3
  <2>4. CASE k # i
    <3> DEFINE j == idx[k]  A == w.deps[j]  B == o.deps[j]
    <3>1. j \in DOMAIN d
        BY <1>5
    <3>2. o.deps \in [DOMAIN d -> SUBSET DOMAIN inputs] /\ w.polys \in [DOMAIN idx -> Polys]
        BY <1>1, <1>2, <1>5 DEF Reducing
    <3>3. B \in SUBSET DOMAIN inputs /\ A \in SUBSET B /\ w.polys[k] \in Polys
        BY <1>2, <1>5, <3>1, <3>2
    <3>4. Member(w.polys[k], InputsOf(A)) /\ o.polys[k] = w.polys[k]
        BY <1>2, <2>1, <2>4
    <3> HIDE DEF A, B
    <3>5. InputsOf(B) \in SUBSET Polys /\ InputsOf(A) \in SUBSET InputsOf(B)
        BY <3>3, InputsAre
    <3>6. Member(o.polys[k], InputsOf(B))
        BY <3>3, <3>4, <3>5, MoreIn
    <3> QED BY <3>6 DEF B
  <2> QED BY <2>3, <2>4
<1> QED BY <1>2, <1>3, <1>4, <1>5 DEF OnItsWay, o

\* h is the recursion inside TailReduced.
Reduces(h, idx, base) ==
    h[0] = base /\ \A k \in 1 .. Len(idx) : h[k] = ReduceAt(idx, h[k - 1], k)

\* What it writes back.
WrittenBack(b, idx, w) ==
    [i \in DOMAIN b |->
        IF ~b[i].active THEN b[i]
        ELSE IF w.polys[CHOOSE k \in DOMAIN idx : idx[k] = i] = Zero
             THEN [b[i] EXCEPT !.active = FALSE]
             ELSE [b[i] EXCEPT !.poly = Monic(w.polys[CHOOSE k \in DOMAIN idx : idx[k] = i])]]

Start(b, idx, d) == [polys |-> PolysAt(b, idx), deps |-> d]

(* The recursion inside TailReduced unrolls: it stays in any set in which it  *)
(* starts and that reducing an element does not leave.                        *)
LEMMA TailReducedUnrolls ==
    ASSUME NEW b, NEW d, NEW T, ActiveIndices(b) \in Seq(T),
           NEW W, Start(b, ActiveIndices(b), d) \in W,
           \A k \in DOMAIN ActiveIndices(b) : \A w \in W : ReduceAt(ActiveIndices(b), w, k) \in W
    PROVE  \/ TailReduced(b, d) = [basis |-> b, deps |-> d]
           \/ \E w \in W :
                 TailReduced(b, d) = [basis |-> WrittenBack(b, ActiveIndices(b), w), deps |-> w.deps]
<1> DEFINE idx == ActiveIndices(b)
           n == Len(idx)
           base == [polys |-> PolysAt(b, idx), deps |-> d]
<1> DEFINE Eqn(f) ==
        f = [k \in 0 .. n |-> IF k = 0 THEN base ELSE ReduceAt(idx, f[k - 1], k)]
<1> DEFINE F == [q \in (1 .. n) \X W |-> ReduceAt(idx, q[2], q[1])]
<1>1. n \in Nat /\ base \in W /\ 1 .. n = DOMAIN idx
    BY DEF Start
<1>2. \A k \in 1 .. n, w \in W : ReduceAt(idx, w, k) \in W
    BY <1>1
<1>3. F \in [(1 .. n) \X W -> W]
  <2> HIDE DEF idx, n, base
  <2> QED BY <1>2
<1>4. PICK g : Unrolls(g, n, W, base, F)
  <2>1. F \in Steps(n, W)
    BY <1>3 DEF Steps
  <2> HIDE DEF F, n, base
  <2> QED BY <1>1, <2>1, RecursionExists
<1> HIDE DEF idx
<1>5. ASSUME NEW k \in 1 .. n PROVE g[k] = ReduceAt(idx, g[k - 1], k)
  <2>1. g[k - 1] \in W
    <3>1. k - 1 \in 0 .. n
        BY <1>1
    <3> HIDE DEF n, F, base
    <3> QED BY <1>4, <3>1 DEF Unrolls
  <2>2. F[<<k, g[k - 1]>>] = ReduceAt(idx, g[k - 1], k)
    BY <2>1
  <2> HIDE DEF F, n, base
  <2> QED BY <1>4, <2>2 DEF Unrolls
<1>6. Eqn(g)
  <2> HIDE DEF F, n, base
  <2>1. \A k \in 0 .. n : k # 0 => k \in 1 .. n
    BY <1>1
  <2> QED BY <1>4, <1>5, <2>1 DEF Unrolls
<1>7. Eqn(CHOOSE f : Eqn(f))
  <2> HIDE DEF Eqn
  <2> QED BY <1>6
<1> DEFINE h == CHOOSE f : Eqn(f)
<1>8. h[0] = base /\ \A k \in 1 .. n : h[k] = ReduceAt(idx, h[k - 1], k)
  <2>1. Eqn(h)
    BY <1>7
  <2>2. 0 \in 0 .. n /\ \A k \in 1 .. n : k \in 0 .. n /\ k # 0
    BY <1>1
  <2> HIDE DEF h, n, base
  <2> QED BY <2>1, <2>2
<1>9. \A k \in 0 .. n : h[k] \in W
  <2> HIDE DEF h, n, base
  <2>1. ASSUME NEW k \in 1 .. n, h[k - 1] \in W PROVE h[k] \in W
    BY <1>2, <1>8, <2>1
  <2>2. h[0] \in W
    BY <1>1, <1>8
  <2> QED BY <1>1, <2>1, <2>2, RecursionInvariant
<1>10. h[n] \in W
  <2> HIDE DEF h
  <2> QED BY <1>1, <1>9
<1>11. TailReduced(b, d) =
          IF n < 2 \/ cancelled THEN [basis |-> b, deps |-> d]
          ELSE [basis |-> WrittenBack(b, idx, h[n]), deps |-> h[n].deps]
    BY DEF TailReduced, WrittenBack, idx
<1> HIDE DEF h
<1> QED BY <1>10, <1>11 DEF idx

(* An element put aside, and one with another polynomial. *)
LEMMA ElementChanged ==
    ASSUME NEW x, IsElement(x), NEW p \in Polys \ {Zero}
    PROVE  /\ IsElement([x EXCEPT !.active = FALSE]) /\ [x EXCEPT !.active = FALSE].poly = x.poly
           /\ IsElement([x EXCEPT !.poly = p]) /\ [x EXCEPT !.poly = p].poly = p
<1>1. x = [poly |-> x.poly, lt |-> x.lt, active |-> x.active, sugar |-> x.sugar] /\ x.poly \in Polys \ {Zero}
    BY DEF IsElement
<1> DEFINE no == FALSE
           y == [x EXCEPT !.active = no]
           z == [x EXCEPT !.poly = p]
           q == x.poly
           lt == x.lt
           active == x.active
           sugar == x.sugar
<1> HIDE DEF no, q, lt, active, sugar
<1>0. x = [poly |-> q, lt |-> lt, active |-> active, sugar |-> sugar] /\ q \in Polys \ {Zero}
    BY <1>1 DEF q, lt, active, sugar
<1>2. y = [poly |-> q, lt |-> lt, active |-> no, sugar |-> sugar]
    BY <1>0
<1>3. z = [poly |-> p, lt |-> lt, active |-> active, sugar |-> sugar]
    BY <1>0
<1> HIDE DEF y, z
<1>4. IsElement(y) /\ y.poly = x.poly
    BY <1>0, <1>2 DEF IsElement, q
<1>5. IsElement(z) /\ z.poly = p
    BY <1>3 DEF IsElement
<1> QED BY <1>4, <1>5 DEF no, y, z

(* Each element written back is what it was, or a multiple of what the      *)
(* inter-reduction made of it.                                              *)
LEMMA WrittenBackIs ==
    ASSUME Laws, NEW b, NEW S, Follows(b, S), NEW d, NEW V \in SUBSET Polys,
           NEW w \in OnItsWay(b, ActiveIndices(b), d, V), NEW i \in DOMAIN b
    PROVE  LET x == WrittenBack(b, ActiveIndices(b), w)[i]
           IN  /\ IsElement(x)
               /\ \/ x.poly = b[i].poly
                  \/ \E k \in DOMAIN ActiveIndices(b) :
                        /\ ActiveIndices(b)[k] = i /\ w.polys[k] \in Polys \ {Zero}
                        /\ x.poly = Monic(w.polys[k])
<1> DEFINE idx == ActiveIndices(b)
           k == CHOOSE j \in DOMAIN idx : idx[j] = i
           x == WrittenBack(b, idx, w)[i]
<1>1. b \in Seq(Range(b)) /\ IsElement(b[i])
    BY DEF Follows
<1>2. x = IF ~b[i].active THEN b[i]
          ELSE IF w.polys[k] = Zero THEN [b[i] EXCEPT !.active = FALSE]
          ELSE [b[i] EXCEPT !.poly = Monic(w.polys[k])]
    BY DEF WrittenBack
<1>3. Range(idx) = {j \in DOMAIN b : b[j].active}
    BY <1>1, ActiveAre
<1>4. w.polys \in [DOMAIN idx -> Polys]
    BY DEF OnItsWay, Reducing
<1> HIDE DEF idx
<1>5. b[i].active => k \in DOMAIN idx /\ idx[k] = i
  <2> SUFFICES ASSUME b[i].active PROVE k \in DOMAIN idx /\ idx[k] = i
    OBVIOUS
  <2>1. \E j \in DOMAIN idx : idx[j] = i
    BY <1>3 DEF Range
  <2> QED BY <2>1
<1> HIDE DEF x, k
<1>6. CASE ~b[i].active
    BY <1>1, <1>2, <1>6 DEF x, idx
<1>7. CASE b[i].active /\ w.polys[k] = Zero
  <2>1. x = [b[i] EXCEPT !.active = FALSE]
    BY <1>2, <1>7
  <2>2. PICK p : p \in Polys \ {Zero}
    BY <1>1 DEF IsElement
  <2>3. IsElement(x) /\ x.poly = b[i].poly
    BY <1>1, <2>1, <2>2, ElementChanged
  <2> QED BY <2>3 DEF x, idx
<1>8. CASE b[i].active /\ w.polys[k] # Zero
  <2>1. x = [b[i] EXCEPT !.poly = Monic(w.polys[k])]
    BY <1>2, <1>8
  <2>2. w.polys[k] \in Polys \ {Zero}
    BY <1>4, <1>5, <1>8
  <2>3. Monic(w.polys[k]) \in Polys \ {Zero}
    BY <2>2, MonicIn
  <2>4. IsElement(x) /\ x.poly = Monic(w.polys[k])
    BY <1>1, <2>1, <2>3, ElementChanged
  <2> QED BY <1>5, <1>8, <2>2, <2>4 DEF x, idx
<1> QED BY <1>6, <1>7, <1>8

(* Inter-reduction keeps every element following, and every dependency      *)
(* entailing.                                                               *)
LEMMA WrittenBackFollows ==
    ASSUME Laws, inputs \in Seq(Polys), NEW b, NEW S \in SUBSET Polys, Follows(b, S),
           NEW d, Tracking => DepsOf(b, d),
           NEW w \in OnItsWay(b, ActiveIndices(b), d, S)
    PROVE  LET c == WrittenBack(b, ActiveIndices(b), w)
           IN  /\ Follows(c, S) /\ DOMAIN c = DOMAIN b
               /\ Tracking => DepsOf(b, w.deps)
               /\ Tracking /\ DepsRight(b, d) => DepsRight(c, w.deps)
<1> DEFINE idx == ActiveIndices(b)
           c == WrittenBack(b, idx, w)
<1>1. /\ Tracking => w.deps \in [DOMAIN d -> SUBSET DOMAIN inputs]
      /\ \A k \in DOMAIN idx : Member(w.polys[k], S)
      /\ Tracking => \A j \in DOMAIN d : d[j] \subseteq w.deps[j]
      /\ Tracking /\ DepsRight(b, d) => \A k \in DOMAIN idx : Member(w.polys[k], InputsOf(w.deps[idx[k]]))
    BY DEF OnItsWay, Reducing, Entails
<1>2. \A i \in DOMAIN b :
          /\ IsElement(c[i])
          /\ \/ c[i].poly = b[i].poly
             \/ \E k \in DOMAIN idx :
                   idx[k] = i /\ w.polys[k] \in Polys \ {Zero} /\ c[i].poly = Monic(w.polys[k])
  <2> SUFFICES ASSUME NEW i \in DOMAIN b
               PROVE  /\ IsElement(c[i])
                      /\ \/ c[i].poly = b[i].poly
                         \/ \E k \in DOMAIN idx :
                               idx[k] = i /\ w.polys[k] \in Polys \ {Zero} /\ c[i].poly = Monic(w.polys[k])
    OBVIOUS
  <2> QED BY WrittenBackIs
<1>3. c = [i \in DOMAIN b |-> c[i]]
    BY DEF WrittenBack
<1> HIDE DEF c, idx
<1>4. Follows(c, S) /\ DOMAIN c = DOMAIN b
  <2>1. \A i \in DOMAIN b : Member(c[i].poly, S)
    BY <1>1, <1>2, MonicIn DEF Follows
  <2> QED BY <1>2, <1>3, <2>1, SameFollows
<1>5. Tracking => DepsOf(b, w.deps)
    BY <1>1 DEF DepsOf
<1>6. ASSUME Tracking, DepsRight(b, d), NEW i \in DOMAIN b PROVE Member(c[i].poly, InputsOf(w.deps[i]))
  <2> DEFINE A == d[i]  B == w.deps[i]
  <2>1. A \in SUBSET DOMAIN inputs /\ B \in SUBSET DOMAIN inputs /\ A \in SUBSET B /\ b[i].poly \in Polys
    BY <1>1, <1>5, <1>6 DEF Follows, IsElement, DepsOf
  <2>2. Member(b[i].poly, InputsOf(A))
    BY <1>6 DEF DepsRight
  <2>3. \A k \in DOMAIN idx : idx[k] = i => Member(w.polys[k], InputsOf(B))
    BY <1>1, <1>6
  <2> HIDE DEF A, B
  <2>4. InputsOf(B) \in SUBSET Polys /\ InputsOf(A) \in SUBSET InputsOf(B)
    BY <2>1, InputsAre
  <2>5. Member(b[i].poly, InputsOf(B))
    BY <2>1, <2>2, <2>4, MoreIn
  <2>6. Member(c[i].poly, InputsOf(B))
    BY <1>2, <2>3, <2>4, <2>5, MonicIn
  <2> QED BY <2>6 DEF B
<1>7. Tracking /\ DepsRight(b, d) => DepsRight(c, w.deps)
    BY <1>4, <1>6 DEF DepsRight
<1> QED BY <1>4, <1>5, <1>7 DEF c, idx

(* The start of an inter-reduction is on its way. *)
LEMMA StartOnItsWay ==
    ASSUME Laws, inputs \in Seq(Polys), NEW b, NEW S \in SUBSET Polys, Follows(b, S),
           NEW d, Tracking => DepsOf(b, d)
    PROVE  Start(b, ActiveIndices(b), d) \in OnItsWay(b, ActiveIndices(b), d, S)
<1> DEFINE idx == ActiveIndices(b)
           base == Start(b, idx, d)
<1>1. b \in Seq(Range(b)) /\ \A i \in DOMAIN b : IsElement(b[i]) /\ Member(b[i].poly, S)
    BY DEF Follows
<1>2. idx \in Seq(DOMAIN b)
    BY <1>1, ActiveAre
<1>3. /\ PolysAt(b, idx) \in Seq(Polys \ {Zero})
      /\ DOMAIN PolysAt(b, idx) = DOMAIN idx
      /\ \A k \in DOMAIN idx : PolysAt(b, idx)[k] = b[idx[k]].poly /\ idx[k] \in DOMAIN b
    BY <1>1, <1>2, PolysAre
<1>4. base.polys = PolysAt(b, idx) /\ base.deps = d /\ base = [polys |-> base.polys, deps |-> base.deps]
    BY DEF Start
<1> HIDE DEF base, idx
<1>5. PolysAt(b, idx) \in [DOMAIN idx -> Polys]
  <2>1. \A k \in DOMAIN idx : b[idx[k]].poly \in Polys
    BY <1>1, <1>3 DEF IsElement
  <2> QED BY <1>3, <2>1 DEF PolysAt
<1>6. base \in Reducing(idx, d)
  <2>1. CASE Tracking
    BY <1>4, <1>5, <2>1 DEF Reducing, DepsOf
  <2>2. CASE ~Tracking
    BY <1>4, <1>5, <2>2 DEF Reducing
  <2> QED BY <2>1, <2>2
<1>7. \A k \in DOMAIN idx : Member(base.polys[k], S)
    BY <1>1, <1>3, <1>4
<1>8. DepsRight(b, d) => Entails(idx, base)
    BY <1>3, <1>4 DEF Entails, DepsRight
<1>9. \A j \in DOMAIN d : d[j] \subseteq base.deps[j]
    BY <1>4
<1> QED BY <1>6, <1>7, <1>8, <1>9 DEF OnItsWay, base, idx

(* Inter-reduction, done or not. *)
LEMMA TailReducedFollows ==
    ASSUME Laws, inputs \in Seq(Polys), NEW b, NEW S \in SUBSET Polys, Follows(b, S),
           NEW d, Tracking => DepsOf(b, d)
    PROVE  LET r == TailReduced(b, d)
           IN  /\ Follows(r.basis, S) /\ DOMAIN r.basis = DOMAIN b
               /\ Tracking => DepsOf(b, r.deps)
               /\ Tracking /\ DepsRight(b, d) => DepsRight(r.basis, r.deps)
<1> DEFINE idx == ActiveIndices(b)
           T == DOMAIN b
           r == TailReduced(b, d)
           base == Start(b, idx, d)
<1>1. b \in Seq(Range(b)) /\ \A i \in DOMAIN b : IsElement(b[i]) /\ Member(b[i].poly, S)
    BY DEF Follows
<1>2. idx \in Seq(T)
    BY <1>1, ActiveAre
<1>3. Tracking => T \subseteq DOMAIN d
    BY DEF DepsOf
<1>4. base \in OnItsWay(b, idx, d, S)
    BY StartOnItsWay
<1>5. \/ r = [basis |-> b, deps |-> d]
      \/ \E w \in OnItsWay(b, idx, d, S) : r = [basis |-> WrittenBack(b, idx, w), deps |-> w.deps]
  <2> DEFINE W == OnItsWay(b, idx, d, S)
  <2>1. \A k \in DOMAIN idx : \A w \in W : ReduceAt(idx, w, k) \in W
    <3> SUFFICES ASSUME NEW k \in DOMAIN idx, NEW w \in W PROVE ReduceAt(idx, w, k) \in W
        OBVIOUS
    <3> HIDE DEF idx
    <3> QED BY <1>2, <1>3, ReduceAtKeeps
  <2> HIDE DEF W
  <2> QED BY <1>2, <1>4, <2>1, TailReducedUnrolls DEF W
<1> HIDE DEF r, idx, base
<1>6. CASE r = [basis |-> b, deps |-> d]
  <2>1. r.basis = b /\ r.deps = d
    BY <1>6
  <2> QED BY <2>1 DEF r
<1>7. ASSUME NEW w \in OnItsWay(b, idx, d, S), r = [basis |-> WrittenBack(b, idx, w), deps |-> w.deps]
      PROVE  /\ Follows(r.basis, S) /\ DOMAIN r.basis = DOMAIN b
             /\ Tracking => DepsOf(b, r.deps)
             /\ Tracking /\ DepsRight(b, d) => DepsRight(r.basis, r.deps)
  <2>1. r.basis = WrittenBack(b, idx, w) /\ r.deps = w.deps
    BY <1>7
  <2>2. w \in OnItsWay(b, ActiveIndices(b), d, S)
    BY <1>7 DEF idx
  <2>3. /\ Follows(WrittenBack(b, ActiveIndices(b), w), S)
        /\ DOMAIN WrittenBack(b, ActiveIndices(b), w) = DOMAIN b
        /\ Tracking => DepsOf(b, w.deps)
        /\ Tracking /\ DepsRight(b, d) => DepsRight(WrittenBack(b, ActiveIndices(b), w), w.deps)
    BY <2>2, WrittenBackFollows
  <2> QED BY <2>1, <2>3 DEF idx
<1> QED BY <1>5, <1>6, <1>7 DEF r

-------------------------------------------------------------------------------
(* The invariant. *)

\* A basis that reduces everything to nothing.
Sealed(b) == \E i \in DOMAIN b : b[i].active /\ IsConstant(b[i].poly)

\* One level: its basis, its queue, what it was told, and whether it is trivial.
LevelRight(b, queue, t, tr) ==
    /\ t \in Seq(Polys)
    /\ Follows(b, ToSet(t)) /\ Paired(queue, b)
    /\ tr => Sealed(b)

Typed == config \in Configs /\ todo \in Seq(Polys) /\ inputs \in Seq(Polys)

LevelsRight ==
    /\ LevelRight(basis, open, told, trivial)
    /\ trail \in Seq(Range(trail))
    /\ \A n \in DOMAIN trail :
          LevelRight(trail[n].basis, trail[n].open, trail[n].told, trail[n].trivial)

\* Where the calls of an observed engine are.
CallsRight ==
    config.traced =>
        /\ trail = <<>>
        /\ inputCount \in 0 .. Len(told)
        /\ pc = "adding" \/ todo = <<>>
        /\ cancelled => config.cancels
        /\ calls \in Nat /\ (pc # "idle" => calls >= 1)
        /\ trivial \/ inputs = told \o todo \/ (config.cancels /\ pc = "idle" /\ calls >= 1)

DepsSound ==
    Tracking => DepsOf(basis, deps) /\ (inputCount = Len(told) => DepsRight(basis, deps))

IInv == Typed /\ LevelsRight /\ CallsRight /\ DepsSound

(* What was told is polynomials. *)
LEMMA ToldAre ==
    ASSUME NEW t \in Seq(Polys), NEW g \in Polys
    PROVE  /\ ToSet(t) \in SUBSET Polys /\ ToSet(Append(t, g)) \in SUBSET Polys
           /\ ToSet(t) \in SUBSET ToSet(Append(t, g)) /\ g \in ToSet(Append(t, g))
           /\ Append(t, g) \in Seq(Polys) /\ Len(Append(t, g)) = Len(t) + 1
<1> DEFINE u == Append(t, g)
<1>1. DOMAIN t = 1 .. Len(t) /\ Len(t) \in Nat
    OBVIOUS
<1>2. /\ u \in Seq(Polys) /\ Len(u) = Len(t) + 1 /\ DOMAIN u = 1 .. (Len(t) + 1)
      /\ u[Len(t) + 1] = g /\ \A k \in 1 .. Len(t) : u[k] = t[k]
    BY <1>1
<1> HIDE DEF u
<1>3. \A k \in DOMAIN t : k \in DOMAIN u /\ u[k] = t[k]
    BY <1>1, <1>2
<1>4. Len(t) + 1 \in DOMAIN u
    BY <1>1, <1>2
<1>5. ToSet(t) \in SUBSET ToSet(u) /\ g \in ToSet(u)
    BY <1>2, <1>3, <1>4 DEF ToSet
<1>6. ToSet(u) \in SUBSET Polys
    BY <1>2 DEF ToSet
<1> QED BY <1>2, <1>5, <1>6 DEF u

(* A basis follows from more. *)
LEMMA FollowsMore ==
    ASSUME Laws, NEW b, NEW T \in SUBSET Polys, NEW S \in SUBSET T, Follows(b, S)
    PROVE  Follows(b, T)
<1>1. \A i \in DOMAIN b : b[i].poly \in Polys /\ Member(b[i].poly, S)
    BY DEF Follows, IsElement
<1>2. \A i \in DOMAIN b : Member(b[i].poly, T)
    BY <1>1, MoreIn
<1> QED BY <1>2 DEF Follows

(* The levels stay as they are. *)
LEMMA LevelsKept ==
    ASSUME LevelsRight, UNCHANGED <<basis, open, told, trivial, trail>>
    PROVE  LevelsRight'
BY DEF LevelsRight

(* Only the current level changes. *)
LEMMA LevelChanged ==
    ASSUME LevelsRight, UNCHANGED trail, LevelRight(basis', open', told', trivial')
    PROVE  LevelsRight'
BY DEF LevelsRight

(* The dependencies stay as they are. *)
LEMMA DepsKept ==
    ASSUME DepsSound, UNCHANGED <<config, basis, deps, inputCount, told, inputs>>
    PROVE  DepsSound'
BY DEF DepsSound, DepsOf, DepsRight, InputsOf, Tracking

(* They are right for the new basis. *)
LEMMA DepsChanged ==
    ASSUME UNCHANGED <<config, inputs>>, Tracking => DepsOf(basis', deps'),
           Tracking /\ inputCount' = Len(told') => DepsRight(basis', deps')
    PROVE  DepsSound'
BY DEF DepsSound, DepsOf, DepsRight, InputsOf, Tracking

-------------------------------------------------------------------------------
(* Calls. *)

(* The batch of a call is appended to the inputs. *)
LEMMA AddCallKeeps ==
    ASSUME Laws, IInv, AddCall
    PROVE  IInv'
<1> USE DEF IInv
<1>1. PICK batch \in Batches(config) : todo' = batch /\ inputs' = inputs \o batch
    BY DEF AddCall
<1>2. config \in Configs /\ inputs \in Seq(Polys) /\ batch \in Seq(Polys)
    BY DEF Laws, Typed
<1>3. /\ inputs' \in Seq(Polys) /\ DOMAIN inputs \subseteq DOMAIN inputs'
      /\ \A k \in DOMAIN inputs : inputs'[k] = inputs[k]
  <2>1. DOMAIN inputs = 1 .. Len(inputs) /\ Len(inputs) \in Nat /\ Len(batch) \in Nat
    BY <1>2
  <2>2. inputs \o batch \in Seq(Polys) /\ Len(inputs \o batch) = Len(inputs) + Len(batch)
    BY <1>2
  <2>3. DOMAIN (inputs \o batch) = 1 .. (Len(inputs) + Len(batch))
    BY <2>2
  <2>4. \A k \in 1 .. Len(inputs) : (inputs \o batch)[k] = inputs[k]
    BY <1>2, <2>1
  <2>5. 1 .. Len(inputs) \subseteq 1 .. (Len(inputs) + Len(batch))
    BY <2>1
  <2> QED BY <1>1, <2>1, <2>2, <2>3, <2>4, <2>5
<1>4. Typed'
    BY <1>1, <1>2, <1>3 DEF AddCall, Typed
<1>5. LevelsRight'
    BY LevelsKept DEF AddCall, basisVars
<1>6. CallsRight'
  <2>1. SUFFICES ASSUME config.traced PROVE CallsRight'
    BY DEF AddCall, CallsRight
  <2>2. /\ trail = <<>> /\ inputCount \in 0 .. Len(told) /\ todo = <<>> /\ calls \in Nat
        /\ trivial \/ inputs = told \o todo \/ (config.cancels /\ calls >= 1)
    BY <2>1 DEF CallsRight, AddCall
  <2>3. config.calls \in Nat /\ (config.cancels => config.calls <= 1)
    BY <1>2, <2>1, ConfigAssumption
  <2>4. ~(config.cancels /\ calls >= 1)
    BY <2>2, <2>3 DEF AddCall
  <2>5. trivial \/ inputs = told
    BY <2>2, <2>4 DEF LevelsRight, LevelRight
  <2>6. trivial \/ inputs' = told \o todo'
    BY <1>1, <2>5
  <2>7. calls' \in Nat /\ calls' >= 1
    BY <2>2 DEF AddCall, Fresh
  <2> QED BY <2>1, <2>2, <2>6, <2>7 DEF CallsRight, AddCall, Fresh, basisVars, tracer
<1>7. DepsSound'
  <2>1. SUFFICES ASSUME Tracking
                 PROVE  DepsOf(basis, deps)' /\ (inputCount = Len(told) => DepsRight(basis, deps))'
    BY DEF DepsSound, Tracking, AddCall
  <2>2. /\ basis' = basis /\ deps' = deps /\ inputCount' = inputCount /\ told' = told
        /\ deps \in [DOMAIN basis -> SUBSET DOMAIN inputs]
        /\ inputCount = Len(told) => DepsRight(basis, deps)
    BY <2>1 DEF DepsSound, DepsOf, AddCall, basisVars, tracer
  <2>3. DepsOf(basis, deps)'
    BY <1>3, <2>2 DEF DepsOf
  <2>4. ASSUME inputCount = Len(told), NEW i \in DOMAIN basis
        PROVE  Member(basis[i].poly, {inputs'[k] : k \in deps[i]})
    <3>1. Member(basis[i].poly, {inputs[k] : k \in deps[i]})
        BY <2>2, <2>4 DEF DepsRight, InputsOf
    <3>2. {inputs[k] : k \in deps[i]} = {inputs'[k] : k \in deps[i]}
        BY <1>3, <2>2
    <3> QED BY <3>1, <3>2
  <2>5. (inputCount = Len(told) => DepsRight(basis, deps))'
    BY <2>2, <2>4 DEF DepsRight, InputsOf
  <2> QED BY <2>3, <2>5
<1> QED BY <1>4, <1>5, <1>6, <1>7

(* A run goes on. *)
LEMMA RunOnlyKeeps ==
    ASSUME Laws, IInv, RunOnly
    PROVE  IInv'
<1> USE DEF IInv
<1>1. Typed'
    BY DEF RunOnly, Typed
<1>2. LevelsRight'
    BY LevelsKept DEF RunOnly, basisVars
<1>3. CallsRight'
  <2>1. SUFFICES ASSUME config.traced PROVE CallsRight'
    BY DEF RunOnly, CallsRight
  <2>2. /\ trail = <<>> /\ inputCount \in 0 .. Len(told) /\ todo = <<>> /\ calls \in Nat
        /\ trivial \/ inputs = told \o todo \/ (config.cancels /\ calls >= 1)
    BY <2>1 DEF CallsRight, RunOnly
  <2>3. config.calls \in Nat /\ (config.cancels => config.calls <= 1)
    BY <2>1, ConfigAssumption DEF Typed
  <2>4. ~(config.cancels /\ calls >= 1)
    BY <2>2, <2>3 DEF RunOnly
  <2>5. calls' \in Nat /\ calls' >= 1
    BY <2>2 DEF RunOnly, Fresh
  <2> QED BY <2>1, <2>2, <2>4, <2>5 DEF CallsRight, RunOnly, Fresh, basisVars, tracer
<1>4. DepsSound'
    BY DepsKept DEF RunOnly, basisVars, tracer
<1> QED BY <1>1, <1>2, <1>3, <1>4

(* The token is raised. *)
LEMMA CancelKeeps ==
    ASSUME Laws, IInv, Cancel
    PROVE  IInv'
<1> USE DEF IInv
<1>1. Typed'
    BY DEF Cancel, Typed
<1>2. LevelsRight'
    BY LevelsKept DEF Cancel, basisVars
<1>3. CallsRight'
    BY DEF CallsRight, Cancel, basisVars, tracer
<1>4. DepsSound'
    BY DepsKept DEF Cancel, basisVars, tracer
<1> QED BY <1>1, <1>2, <1>3, <1>4

(* The generators left are dropped, when the token is seen. *)
LEMMA DropGeneratorsKeeps ==
    ASSUME Laws, IInv, DropGenerators
    PROVE  IInv'
<1> USE DEF IInv
<1>1. Typed'
    BY DEF DropGenerators, Typed
<1>2. LevelsRight'
    BY LevelsKept DEF DropGenerators, basisVars
<1>3. CallsRight'
    BY DEF CallsRight, DropGenerators, basisVars, tracer
<1>4. DepsSound'
    BY DepsKept DEF DropGenerators, basisVars, tracer
<1> QED BY <1>1, <1>2, <1>3, <1>4

(* The pairs are turned to. *)
LEMMA StartRunKeeps ==
    ASSUME Laws, IInv, StartRun
    PROVE  IInv'
<1> USE DEF IInv
<1>1. Typed'
    BY DEF StartRun, Typed
<1>2. LevelsRight'
    BY LevelsKept DEF StartRun, basisVars
<1>3. CallsRight'
    BY DEF CallsRight, StartRun, basisVars, tracer
<1>4. DepsSound'
    BY DepsKept DEF StartRun, basisVars, tracer
<1> QED BY <1>1, <1>2, <1>3, <1>4

(* A pair is lost, when the token is seen. *)
LEMMA LosePairKeeps ==
    ASSUME Laws, IInv, LosePair
    PROVE  IInv'
<1> USE DEF IInv
<1>1. Typed'
    BY DEF LosePair, Typed
<1>2. LevelsRight'
  <2>1. open' \subseteq open
    BY DEF LosePair, Rest
  <2>2. LevelRight(basis, open', told, trivial)
    BY <2>1 DEF LevelsRight, LevelRight, Paired
  <2> QED BY <2>2, LevelChanged DEF LosePair
<1>3. CallsRight'
  <2>1. pc = "running"
    BY DEF LosePair
  <2> QED BY <2>1 DEF CallsRight, LosePair, basisVars, tracer
<1>4. DepsSound'
    BY DepsKept DEF LosePair, basisVars, tracer
<1> QED BY <1>1, <1>2, <1>3, <1>4

(* The body is inter-reduced at the end of a run that is not observed. *)
LEMMA FinishRunKeeps ==
    ASSUME Laws, IInv, FinishRun
    PROVE  IInv'
<1> USE DEF IInv
<1>1. Typed'
    BY DEF FinishRun, Typed
<1>2. LevelsRight'
  <2>1. CASE trivial \/ config.traced
    BY <2>1, LevelsKept DEF FinishRun
  <2>2. CASE ~(trivial \/ config.traced)
    <3> DEFINE r == TailReduced(basis, deps)
    <3>1. LevelRight(basis, open, told, trivial) /\ inputs \in Seq(Polys)
        BY DEF LevelsRight, Typed
    <3>2. ToSet(told) \in SUBSET Polys /\ Follows(basis, ToSet(told)) /\ Paired(open, basis) /\ told \in Seq(Polys)
        BY <3>1 DEF LevelRight, ToSet
    <3>3. ~Tracking
        BY <2>2 DEF Tracking
    <3>4. Follows(r.basis, ToSet(told)) /\ DOMAIN r.basis = DOMAIN basis
        BY <3>1, <3>2, <3>3, TailReducedFollows
    <3> HIDE DEF r
    <3>5. LevelRight(r.basis, open, told, trivial)
        BY <2>2, <3>2, <3>4 DEF LevelRight, Paired
    <3>6. basis' = r.basis
        BY <2>2 DEF FinishRun, r
    <3> QED BY <3>5, <3>6, LevelChanged DEF FinishRun
  <2> QED BY <2>1, <2>2
<1>3. CallsRight'
  <2>1. pc = "running"
    BY DEF FinishRun
  <2> QED BY <2>1 DEF CallsRight, FinishRun, tracer
<1>4. DepsSound'
  <2>1. CASE config.traced
    BY <2>1, DepsKept DEF FinishRun, tracer
  <2>2. CASE ~config.traced
    BY <2>2 DEF DepsSound, Tracking, FinishRun
  <2> QED BY <2>1, <2>2
<1> QED BY <1>1, <1>2, <1>3, <1>4

(* A level is kept as it is. *)
LEMMA PushKeeps ==
    ASSUME Laws, IInv, Push
    PROVE  IInv'
<1> USE DEF IInv
<1> DEFINE cp == [basis |-> basis, open |-> open, age |-> age, generation |-> generation,
                  trivial |-> trivial, told |-> told]
<1>1. Typed'
    BY DEF Push, Typed
<1>2. LevelsRight'
  <2>1. LevelRight(basis, open, told, trivial) /\ trail \in Seq(Range(trail))
    BY DEF LevelsRight
  <2>2. cp.basis = basis /\ cp.open = open /\ cp.told = told /\ cp.trivial = trivial
    OBVIOUS
  <2>3. trail' = Append(trail, cp)
    BY DEF Push
  <2> HIDE DEF cp
  <2>4. /\ trail' \in Seq(Range(trail')) /\ DOMAIN trail' = DOMAIN trail \cup {Len(trail) + 1}
        /\ trail'[Len(trail) + 1] = cp /\ \A n \in DOMAIN trail : trail'[n] = trail[n]
    BY <2>1, <2>3, OneMore
  <2>5. \A n \in DOMAIN trail' :
            LevelRight(trail'[n].basis, trail'[n].open, trail'[n].told, trail'[n].trivial)
    BY <2>1, <2>2, <2>4 DEF LevelsRight
  <2>6. basis' = basis /\ open' = open /\ told' = told /\ trivial' = trivial
    BY DEF Push, basisVars
  <2> QED BY <2>1, <2>4, <2>5, <2>6 DEF LevelsRight
<1>3. CallsRight'
    BY DEF CallsRight, Push
<1>4. DepsSound'
    BY DEF DepsSound, Tracking, Push
<1> QED BY <1>1, <1>2, <1>3, <1>4

(* And gone back to. *)
LEMMA PopKeeps ==
    ASSUME Laws, IInv, Pop
    PROVE  IInv'
<1> USE DEF IInv
<1>1. ~config.traced /\ trail # <<>>
    BY DEF CallsRight, Pop
<1>2. Typed'
    BY DEF Pop, Typed
<1>3. LevelsRight'
  <2> DEFINE n == Len(trail)
  <2>1. trail \in Seq(Range(trail)) /\ \A k \in DOMAIN trail :
            LevelRight(trail[k].basis, trail[k].open, trail[k].told, trail[k].trivial)
    BY DEF LevelsRight
  <2>2. n \in Nat /\ n # 0 /\ DOMAIN trail = 1 .. n
    BY <1>1, <2>1
  <2>3. n \in DOMAIN trail /\ n - 1 \in Nat
    BY <2>2
  <2>4. basis' = trail[n].basis /\ open' = trail[n].open /\ told' = trail[n].told /\ trivial' = trail[n].trivial
    BY DEF Pop, Last, RestoredBasis, RestoredQueue
  <2>5. trail' \in Seq(Range(trail')) /\ \A k \in DOMAIN trail' : k \in DOMAIN trail /\ trail'[k] = trail[k]
    <3>1. trail' = SubSeq(trail, 1, n - 1)
        BY DEF Pop, Front
    <3>2. Len(trail') = n - 1 /\ DOMAIN trail' = 1 .. n - 1 /\ \A k \in 1 .. n - 1 : trail'[k] = trail[k]
        BY <2>1, <2>2, <2>3, <3>1
    <3>3. trail' = [k \in 1 .. n - 1 |-> trail[k]]
        BY <2>1, <2>2, <2>3, <3>1
    <3>4. 1 .. n - 1 \subseteq DOMAIN trail
        BY <2>2
    <3> HIDE DEF n
    <3>5. trail' \in [1 .. n - 1 -> Range(trail')]
        BY <3>2, <3>3 DEF Range
    <3>6. trail' \in Seq(Range(trail'))
        BY <2>3, <3>5
    <3> QED BY <3>2, <3>4, <3>6
  <2> HIDE DEF n
  <2> QED BY <2>1, <2>3, <2>4, <2>5 DEF LevelsRight
<1>4. CallsRight'
    BY <1>1 DEF CallsRight, Pop
<1>5. DepsSound'
    BY <1>1 DEF DepsSound, Tracking, Pop
<1> QED BY <1>2, <1>3, <1>4, <1>5

-------------------------------------------------------------------------------
(* New elements. *)

\* c has one element more than b.
Longer(c, b, f) ==
    /\ DOMAIN c = DOMAIN b \cup {Len(b) + 1} /\ c[Len(b) + 1].poly = f
    /\ \A i \in DOMAIN b : c[i].poly = b[i].poly

(* A new element that the inputs it depends on entail. *)
LEMMA DepsLonger ==
    ASSUME Follows(basis, ToSet(told)), DepsOf(basis, deps), NEW E \in SUBSET DOMAIN inputs,
           NEW c, NEW f, Longer(c, basis, f)
    PROVE  /\ DepsOf(c, Append(deps, E))
           /\ DepsRight(basis, deps) /\ Member(f, InputsOf(E)) => DepsRight(c, Append(deps, E))
<1> DEFINE n == Len(basis)
           I == SUBSET DOMAIN inputs
           d == Append(deps, E)
<1>1. DOMAIN basis = 1 .. n /\ n \in Nat
    BY DEF Follows
<1>2. deps \in [1 .. n -> I]
    BY <1>1 DEF DepsOf
<1> HIDE DEF n, I
<1>3. deps \in Seq(I) /\ E \in I
    BY <1>1, <1>2 DEF I
<1>4. DOMAIN deps = 1 .. n /\ DOMAIN deps = 1 .. Len(deps) /\ Len(deps) \in Nat
    BY <1>2, <1>3
<1>5. Len(deps) = n
    BY <1>1, <1>4, SameLength
<1>6. /\ d \in Seq(I) /\ DOMAIN d = 1 .. (n + 1) /\ d[n + 1] = E
      /\ \A i \in 1 .. n : d[i] = deps[i]
    BY <1>1, <1>3, <1>5
<1>7. 1 .. (n + 1) = (1 .. n) \cup {n + 1}
    BY <1>1
<1> HIDE DEF d
<1>8. DOMAIN c = (1 .. n) \cup {n + 1} /\ c[n + 1].poly = f /\ \A i \in 1 .. n : c[i].poly = basis[i].poly
    BY <1>1 DEF Longer, n
<1>9. d \in [DOMAIN c -> I]
    BY <1>6, <1>7, <1>8
<1>10. ASSUME DepsRight(basis, deps), Member(f, InputsOf(E)) PROVE DepsRight(c, d)
  <2>1. \A i \in 1 .. n : Member(basis[i].poly, InputsOf(deps[i]))
    BY <1>1, <1>10 DEF DepsRight
  <2> QED BY <1>6, <1>8, <1>10, <2>1 DEF DepsRight
<1> QED BY <1>9, <1>10 DEF DepsOf, d, I

(* What a pair reduces to follows from what the basis follows from, and     *)
(* from the inputs that its parents and its reducers depend on.             *)
LEMMA PairReducesTo ==
    ASSUME Laws, IInv, NEW p \in open
    PROVE  LET idx == ActiveIndices(basis)
               r == NormalForm(SPolynomial(basis[p.i].poly, basis[p.j].poly), PolysAt(basis, idx))
           IN  /\ r.nf \in Polys /\ Member(r.nf, ToSet(told))
               /\ Tracking =>
                     \E E \in SUBSET DOMAIN inputs :
                        /\ PairDeps(p, idx, r) = Append(deps, E)
                        /\ DepsRight(basis, deps) => Member(r.nf, InputsOf(E))
<1> USE DEF IInv
<1> DEFINE idx == ActiveIndices(basis)
           s == SPolynomial(basis[p.i].poly, basis[p.j].poly)
           r == NormalForm(s, PolysAt(basis, idx))
           S == ToSet(told)
           E == deps[p.i] \cup deps[p.j] \cup UNION {deps[idx[k]] : k \in r.used}
<1>1. S \in SUBSET Polys /\ Follows(basis, S) /\ Paired(open, basis)
    BY DEF LevelsRight, LevelRight, ToSet
<1>2. basis \in Seq(Range(basis)) /\ \A i \in DOMAIN basis : IsElement(basis[i]) /\ Member(basis[i].poly, S)
    BY <1>1 DEF Follows
<1>3. p.i \in DOMAIN basis /\ p.j \in DOMAIN basis
    BY <1>1 DEF Paired
<1>4. basis[p.i].poly \in Polys \ {Zero} /\ basis[p.j].poly \in Polys \ {Zero}
    BY <1>2, <1>3 DEF IsElement
<1>5. /\ s \in Polys
      /\ \A U \in SUBSET Polys : Member(basis[p.i].poly, U) /\ Member(basis[p.j].poly, U) => Member(s, U)
    BY <1>4, SPolynomialIn
<1> HIDE DEF s
<1>6. /\ r.nf \in Polys /\ \A k \in r.used : k \in DOMAIN idx /\ idx[k] \in DOMAIN basis
      /\ \A U \in SUBSET Polys :
            Member(s, U) /\ (\A k \in r.used : Member(basis[idx[k]].poly, U)) => Member(r.nf, U)
    BY <1>2, <1>5, ReducedIs
<1>7. PairDeps(p, idx, r) = Append(deps, E)
    BY DEF PairDeps
<1>8. deps[p.i] \subseteq E /\ deps[p.j] \subseteq E /\ \A k \in r.used : deps[idx[k]] \subseteq E
    OBVIOUS
<1>9. \A x \in E : x \in deps[p.i] \/ x \in deps[p.j] \/ \E k \in r.used : x \in deps[idx[k]]
    OBVIOUS
<1> HIDE DEF idx, r, S, E
<1>10. Member(r.nf, S)
    BY <1>1, <1>2, <1>3, <1>5, <1>6
<1>11. ASSUME Tracking PROVE E \in SUBSET DOMAIN inputs
  <2>1. deps \in [DOMAIN basis -> SUBSET DOMAIN inputs]
    BY <1>11 DEF DepsSound, DepsOf
  <2> QED BY <1>3, <1>6, <1>9, <2>1
<1>12. ASSUME Tracking, DepsRight(basis, deps) PROVE Member(r.nf, InputsOf(E))
  <2> DEFINE U == InputsOf(E)
  <2>1. inputs \in Seq(Polys)
    BY DEF Typed
  <2>2. E \in SUBSET DOMAIN inputs
    BY <1>11, <1>12
  <2>3. U \in SUBSET Polys
    BY <2>1, <2>2, InputsAre
  <2>4. ASSUME NEW i \in DOMAIN basis, deps[i] \subseteq E PROVE Member(basis[i].poly, U)
    <3>1. InputsOf(deps[i]) \in SUBSET U /\ basis[i].poly \in Polys /\ Member(basis[i].poly, InputsOf(deps[i]))
        BY <1>2, <1>12, <2>1, <2>2, <2>4, InputsAre DEF DepsRight, IsElement
    <3> QED BY <2>3, <3>1, MoreIn
  <2> HIDE DEF U
  <2>5. Member(basis[p.i].poly, U) /\ Member(basis[p.j].poly, U)
    BY <1>3, <1>8, <2>4
  <2>6. \A k \in r.used : Member(basis[idx[k]].poly, U)
    BY <1>6, <1>8, <2>4
  <2> QED BY <1>5, <1>6, <2>3, <2>5, <2>6 DEF U
<1> QED BY <1>6, <1>7, <1>10, <1>11, <1>12 DEF S, r, idx, s

(* The pair that is taken leaves the queue. *)
LEMMA RestPaired ==
    ASSUME Paired(open, basis), NEW p
    PROVE  Paired(Rest(p), basis)
BY DEF Paired, Rest

(* A new constant, active, reduces everything to nothing. *)
LEMMA UnitLevel ==
    ASSUME Laws, NEW f \in Polys \ {Zero}, IsConstant(f), NEW t \in Seq(Polys), NEW sugar,
           Follows(basis, ToSet(t)), Paired(open, basis), NEW queue \in SUBSET open, Member(f, ToSet(t))
    PROVE  /\ LevelRight(Append(basis, Element(Monic(f), sugar)), queue, t, TRUE)
           /\ Longer(Append(basis, Element(Monic(f), sugar)), basis, Monic(f))
<1> DEFINE e == Element(Monic(f), sugar)
           c == Append(basis, e)
           S == ToSet(t)
<1>1. S \in SUBSET Polys
    BY DEF ToSet
<1>2. Monic(f) \in Polys \ {Zero} /\ IsConstant(Monic(f)) /\ Member(Monic(f), S)
    BY <1>1, MonicIn
<1>3. IsElement(e) /\ e.poly = Monic(f) /\ e.active
    BY <1>2 DEF IsElement, Element
<1> HIDE DEF e
<1>4. Follows(c, S)
    BY <1>2, <1>3, AppendFollows
<1>5. /\ DOMAIN c = DOMAIN basis \cup {Len(basis) + 1} /\ c[Len(basis) + 1] = e
      /\ \A i \in DOMAIN basis : c[i] = basis[i]
    BY OneMore DEF Follows
<1> HIDE DEF c
<1>6. Longer(c, basis, Monic(f))
    BY <1>3, <1>5 DEF Longer
<1>7. Sealed(c)
    BY <1>2, <1>3, <1>5 DEF Sealed
<1>8. Paired(queue, c)
    BY <1>5 DEF Paired
<1> QED BY <1>4, <1>6, <1>7, <1>8 DEF LevelRight, c, e

(* A new element that is none. *)
LEMMA NewLevel ==
    ASSUME Laws, NEW f \in Polys \ {Zero}, NEW t \in Seq(Polys), NEW sugar, NEW lt, NEW queue,
           Follows(basis, ToSet(t)), Paired(queue, basis), Member(f, ToSet(t))
    PROVE  /\ LevelRight(BasisWith(Monic(f), sugar), OpenWith(queue, lt, sugar), t, FALSE)
           /\ Longer(BasisWith(Monic(f), sugar), basis, Monic(f))
<1> DEFINE c == BasisWith(Monic(f), sugar)
           S == ToSet(t)
<1>1. S \in SUBSET Polys
    BY DEF ToSet
<1>2. Monic(f) \in Polys \ {Zero} /\ Member(Monic(f), S)
    BY <1>1, MonicIn
<1>3. /\ Follows(c, S) /\ DOMAIN c = DOMAIN basis \cup {Len(basis) + 1}
      /\ c[Len(basis) + 1] = Element(Monic(f), sugar)
      /\ \A i \in DOMAIN basis : c[i].poly = basis[i].poly
    BY <1>2, BasisWithFollows
<1> HIDE DEF c
<1>4. Longer(c, basis, Monic(f))
    BY <1>3 DEF Longer, Element
<1>5. Paired(OpenWith(queue, lt, sugar), c)
    BY <1>3, OpenWithPaired
<1> QED BY <1>3, <1>4, <1>5 DEF LevelRight, c

(* The pair is dropped, because it is older than its level or useless. *)
LEMMA DroppedPairKeeps ==
    ASSUME Laws, IInv, ProcessPair, NEW p \in open, open' = Rest(p),
           UNCHANGED <<basis, age, trivial, tracer>>
    PROVE  IInv'
<1> USE DEF IInv
<1>1. Typed'
    BY DEF ProcessPair, Typed
<1>2. LevelsRight'
  <2>1. LevelRight(basis, open, told, trivial)
    BY DEF LevelsRight
  <2>2. LevelRight(basis, Rest(p), told, trivial)
    BY <2>1, RestPaired DEF LevelRight
  <2> QED BY <2>2, LevelChanged DEF ProcessPair
<1>3. CallsRight'
    BY DEF CallsRight, ProcessPair, tracer
<1>4. DepsSound'
    BY DepsKept DEF ProcessPair, tracer
<1> QED BY <1>1, <1>2, <1>3, <1>4

(* The pair gives a constant. *)
LEMMA UnitPairKeeps ==
    ASSUME Laws, IInv, ProcessPair, NEW p \in open,
           UnitPair(p, ActiveIndices(basis),
                    NormalForm(SPolynomial(basis[p.i].poly, basis[p.j].poly),
                               PolysAt(basis, ActiveIndices(basis))))
    PROVE  IInv'
<1> USE DEF IInv
<1> DEFINE idx == ActiveIndices(basis)
           r == NormalForm(SPolynomial(basis[p.i].poly, basis[p.j].poly), PolysAt(basis, idx))
           c == Append(basis, Element(Monic(r.nf), p.sugar))
<1>1. /\ r.nf \in Polys /\ Member(r.nf, ToSet(told))
      /\ Tracking => \E E \in SUBSET DOMAIN inputs :
            PairDeps(p, idx, r) = Append(deps, E) /\ (DepsRight(basis, deps) => Member(r.nf, InputsOf(E)))
    BY PairReducesTo
<1>2. /\ r.nf # Zero /\ IsConstant(r.nf) /\ basis' = c /\ trivial' = TRUE /\ open' = Rest(p)
      /\ deps' = PairDeps(p, idx, r) /\ inputCount' = inputCount
    BY DEF UnitPair
<1>3. /\ told \in Seq(Polys) /\ Follows(basis, ToSet(told)) /\ Paired(open, basis)
    BY DEF LevelsRight, LevelRight
<1> HIDE DEF r, idx
<1>4. Rest(p) \in SUBSET open
    BY DEF Rest
<1>5. LevelRight(c, Rest(p), told, TRUE) /\ Longer(c, basis, Monic(r.nf))
    BY <1>1, <1>2, <1>3, <1>4, UnitLevel
<1> HIDE DEF c
<1>6. Typed'
    BY DEF ProcessPair, Typed
<1>7. LevelsRight'
    BY <1>2, <1>5, LevelChanged DEF ProcessPair
<1>8. CallsRight'
    BY <1>2 DEF CallsRight, ProcessPair
<1>9. DepsSound'
  <2>1. ASSUME Tracking
        PROVE  DepsOf(c, deps') /\ (inputCount' = Len(told') => DepsRight(c, deps'))
    <3>1. PICK E \in SUBSET DOMAIN inputs :
              PairDeps(p, idx, r) = Append(deps, E) /\ (DepsRight(basis, deps) => Member(r.nf, InputsOf(E)))
        BY <1>1, <2>1
    <3>2. DepsOf(basis, deps) /\ (inputCount = Len(told) => DepsRight(basis, deps))
        BY <2>1 DEF DepsSound
    <3>3. InputsOf(E) \in SUBSET Polys
        BY InputsAre DEF Typed
    <3>4. Member(r.nf, InputsOf(E)) => Member(Monic(r.nf), InputsOf(E))
        BY <1>1, <1>2, <3>3, MonicIn
    <3>5. /\ DepsOf(c, Append(deps, E))
          /\ DepsRight(basis, deps) /\ Member(Monic(r.nf), InputsOf(E)) => DepsRight(c, Append(deps, E))
        BY <1>3, <1>5, <3>2, DepsLonger
    <3>6. inputCount' = inputCount /\ told' = told /\ deps' = Append(deps, E)
        BY <1>2, <3>1 DEF ProcessPair
    <3> QED BY <3>1, <3>2, <3>4, <3>5, <3>6
  <2> QED BY <1>2, <2>1, DepsChanged DEF ProcessPair
<1> QED BY <1>6, <1>7, <1>8, <1>9

(* The pair gives an element: it follows, from the inputs that it is said to *)
(* depend on.                                                                *)
LEMMA NewPolyIs ==
    ASSUME Laws, IInv, NEW p \in open,
           NormalForm(SPolynomial(basis[p.i].poly, basis[p.j].poly),
                      PolysAt(basis, ActiveIndices(basis))).nf # Zero
    PROVE  LET idx == ActiveIndices(basis)
               r == NormalForm(SPolynomial(basis[p.i].poly, basis[p.j].poly), PolysAt(basis, idx))
               grown == BasisWith(Monic(r.nf), p.sugar)
               d == PairDeps(p, idx, r)
           IN  /\ LevelRight(grown, OpenWith(Rest(p), Lead(Monic(r.nf)), p.sugar), told, FALSE)
               /\ Tracking => DepsOf(grown, d) /\ (inputCount = Len(told) => DepsRight(grown, d))
<1> USE DEF IInv
<1> DEFINE idx == ActiveIndices(basis)
           r == NormalForm(SPolynomial(basis[p.i].poly, basis[p.j].poly), PolysAt(basis, idx))
           lt == Lead(Monic(r.nf))
           grown == BasisWith(Monic(r.nf), p.sugar)
           d == PairDeps(p, idx, r)
           q == OpenWith(Rest(p), lt, p.sugar)
<1>1. /\ r.nf \in Polys /\ Member(r.nf, ToSet(told))
      /\ Tracking => \E E \in SUBSET DOMAIN inputs :
            d = Append(deps, E) /\ (DepsRight(basis, deps) => Member(r.nf, InputsOf(E)))
    BY PairReducesTo
<1>2. r.nf # Zero
    OBVIOUS
<1>3. told \in Seq(Polys) /\ Follows(basis, ToSet(told)) /\ Paired(open, basis) /\ inputs \in Seq(Polys)
    BY DEF LevelsRight, LevelRight, Typed
<1> HIDE DEF r, idx, lt
<1>4. Paired(Rest(p), basis)
    BY <1>3, RestPaired
<1>5. LevelRight(grown, q, told, FALSE) /\ Longer(grown, basis, Monic(r.nf))
    BY <1>1, <1>2, <1>3, <1>4, NewLevel
<1> HIDE DEF grown, d
<1>6. ASSUME Tracking
      PROVE  DepsOf(grown, d) /\ (inputCount = Len(told) => DepsRight(grown, d))
  <2>1. PICK E \in SUBSET DOMAIN inputs :
            d = Append(deps, E) /\ (DepsRight(basis, deps) => Member(r.nf, InputsOf(E)))
    BY <1>1, <1>6
  <2>2. DepsOf(basis, deps) /\ (inputCount = Len(told) => DepsRight(basis, deps))
    BY <1>6 DEF DepsSound
  <2>3. InputsOf(E) \in SUBSET Polys
    BY <1>3, InputsAre
  <2>4. Member(r.nf, InputsOf(E)) => Member(Monic(r.nf), InputsOf(E))
    BY <1>1, <1>2, <2>3, MonicIn
  <2>5. /\ DepsOf(grown, Append(deps, E))
        /\ DepsRight(basis, deps) /\ Member(Monic(r.nf), InputsOf(E)) => DepsRight(grown, Append(deps, E))
    BY <1>3, <1>5, <2>2, DepsLonger
  <2> QED BY <2>1, <2>2, <2>4, <2>5
<1> QED BY <1>5, <1>6 DEF q, lt, grown, d, r, idx

(* The pair gives an element, and may bring on an inter-reduction. *)
LEMMA NewPolyKeeps ==
    ASSUME Laws, IInv, ProcessPair, NEW p \in open,
           NewPoly(p, ActiveIndices(basis),
                   NormalForm(SPolynomial(basis[p.i].poly, basis[p.j].poly),
                              PolysAt(basis, ActiveIndices(basis))))
    PROVE  IInv'
<1> USE DEF IInv
<1> DEFINE idx == ActiveIndices(basis)
           r == NormalForm(SPolynomial(basis[p.i].poly, basis[p.j].poly), PolysAt(basis, idx))
           lt == Lead(Monic(r.nf))
           grown == BasisWith(Monic(r.nf), p.sugar)
           d == PairDeps(p, idx, r)
           red == TailReduced(grown, d)
           q == OpenWith(Rest(p), lt, p.sugar)
<1>1. /\ r.nf # Zero /\ open' = q /\ trivial' = trivial /\ inputCount' = inputCount
      /\ (basis' = grown /\ deps' = d) \/ (basis' = red.basis /\ deps' = red.deps)
    BY DEF NewPoly
<1>2. told \in Seq(Polys) /\ inputs \in Seq(Polys)
    BY DEF LevelsRight, LevelRight, Typed
<1>3. /\ LevelRight(grown, q, told, FALSE)
      /\ Tracking => DepsOf(grown, d) /\ (inputCount = Len(told) => DepsRight(grown, d))
    BY <1>1, NewPolyIs
<1> HIDE DEF r, idx, lt, grown, d, q
<1>4. /\ Follows(red.basis, ToSet(told)) /\ DOMAIN red.basis = DOMAIN grown
      /\ Tracking => DepsOf(grown, red.deps)
      /\ Tracking /\ DepsRight(grown, d) => DepsRight(red.basis, red.deps)
  <2>1. ToSet(told) \in SUBSET Polys
    BY <1>2 DEF ToSet
  <2>2. Follows(grown, ToSet(told))
    BY <1>3 DEF LevelRight
  <2>3. Tracking => DepsOf(grown, d)
    BY <1>3
  <2> QED BY <1>2, <2>1, <2>2, <2>3, TailReducedFollows
<1> HIDE DEF red
<1>5. LevelRight(red.basis, q, told, FALSE)
    BY <1>3, <1>4 DEF LevelRight, Paired
<1>6. Tracking => DepsOf(red.basis, red.deps)
    BY <1>4 DEF DepsOf
<1>7. Typed'
    BY DEF ProcessPair, Typed
<1>8. LevelsRight'
  <2>1. LevelRight(basis', q, told, FALSE)
    BY <1>1, <1>3, <1>5
  <2>2. trivial' = FALSE \/ ~trivial'
    BY <1>1 DEF ProcessPair
  <2>3. LevelRight(basis', q, told, trivial')
    BY <2>1, <2>2 DEF LevelRight
  <2> QED BY <1>1, <2>3, LevelChanged DEF ProcessPair
<1>9. CallsRight'
    BY <1>1 DEF CallsRight, ProcessPair
<1>10. DepsSound'
  <2>1. Tracking => DepsOf(basis', deps')
    BY <1>1, <1>3, <1>6
  <2>2. Tracking /\ inputCount' = Len(told') => DepsRight(basis', deps')
    BY <1>1, <1>3, <1>4 DEF ProcessPair
  <2> QED BY <2>1, <2>2, DepsChanged DEF ProcessPair
<1> QED BY <1>7, <1>8, <1>9, <1>10

-------------------------------------------------------------------------------
(* Generators. *)

\* What an element made of the next generator depends on.
GeneratorDeps ==
    (IF inputCount < Len(inputs) THEN {inputCount + 1} ELSE DOMAIN inputs)
        \cup UNION {deps[i] : i \in {k \in DOMAIN basis : basis[k].active}}

(* The next generator is the next input. *)
LEMMA NextInput ==
    ASSUME NEW t \in Seq(Polys), NEW rest \in Seq(Polys), rest # <<>>
    PROVE  /\ Head(rest) \in Polys /\ Tail(rest) \in Seq(Polys)
           /\ Len(t) + 1 \in DOMAIN (t \o rest) /\ (t \o rest)[Len(t) + 1] = Head(rest)
           /\ Len(t) < Len(t \o rest)
           /\ Append(t, Head(rest)) \o Tail(rest) = t \o rest
<1> DEFINE m == Len(t)  n == Len(rest)  a == t \o rest
           u == Append(t, Head(rest))  b == u \o Tail(rest)
<1>1. m \in Nat /\ n \in Nat /\ n > 0
    OBVIOUS
<1>2. Head(rest) = rest[1] /\ Head(rest) \in Polys /\ Tail(rest) \in Seq(Polys) /\ Len(Tail(rest)) = n - 1
    OBVIOUS
<1>3. a \in Seq(Polys) /\ Len(a) = m + n /\ DOMAIN a = 1 .. m + n
    OBVIOUS
<1>4. \A k \in 1 .. m + n : a[k] = IF k <= m THEN t[k] ELSE rest[k - m]
    OBVIOUS
<1>5. u \in Seq(Polys) /\ Len(u) = m + 1 /\ \A k \in 1 .. m + 1 : u[k] = IF k <= m THEN t[k] ELSE rest[1]
    BY <1>1, <1>2
<1>6. \A k \in 1 .. n - 1 : Tail(rest)[k] = rest[k + 1]
    OBVIOUS
<1>7. b \in Seq(Polys) /\ Len(b) = m + n /\ DOMAIN b = 1 .. m + n
  <2> HIDE DEF u
  <2>1. b \in Seq(Polys) /\ Len(b) = Len(u) + Len(Tail(rest))
    BY <1>2, <1>5
  <2>2. Len(b) = m + n
    BY <1>1, <1>2, <1>5, <2>1
  <2> QED BY <2>1, <2>2
<1>8. ASSUME NEW k \in 1 .. m + n PROVE b[k] = a[k]
  <2> HIDE DEF u
  <2>1. b[k] = IF k <= Len(u) THEN u[k] ELSE Tail(rest)[k - Len(u)]
    <3>1. k \in 1 .. Len(u) + Len(Tail(rest))
        BY <1>1, <1>2, <1>5
    <3> HIDE DEF m, n
    <3> QED BY <1>2, <1>5, <3>1, ConcatProperties
  <2>2. CASE k <= m
    <3>1. k \in 1 .. m + 1 /\ k <= Len(u)
        BY <1>1, <1>5, <2>2
    <3> HIDE DEF b, a, m, n
    <3> QED BY <1>4, <1>5, <2>1, <2>2, <3>1
  <2>3. CASE k = m + 1
    <3>1. k \in 1 .. m + 1 /\ k <= Len(u) /\ ~(k <= m) /\ k - m = 1
        BY <1>1, <1>5, <2>3
    <3> HIDE DEF b, a, m, n
    <3> QED BY <1>4, <1>5, <2>1, <3>1
  <2>4. CASE k > m + 1
    <3>1. ~(k <= Len(u)) /\ ~(k <= m) /\ k - (m + 1) \in 1 .. n - 1 /\ (k - (m + 1)) + 1 = k - m
        BY <1>1, <1>5, <2>4
    <3> HIDE DEF b, a, m, n
    <3>2. b[k] = Tail(rest)[k - (m + 1)]
        BY <1>5, <2>1, <3>1
    <3>3. Tail(rest)[k - (m + 1)] = rest[k - m]
        BY <1>6, <3>1
    <3> QED BY <1>4, <3>1, <3>2, <3>3
  <2>5. k <= m \/ k = m + 1 \/ k > m + 1
    BY <1>1
  <2> QED BY <2>2, <2>3, <2>4, <2>5
<1>9. b = a
  <2> HIDE DEF a, b
  <2> QED BY <1>3, <1>7, <1>8
<1>10. m + 1 \in 1 .. m + n /\ a[m + 1] = rest[1]
  <2>1. m + 1 \in 1 .. m + n /\ ~(m + 1 <= m) /\ (m + 1) - m = 1
    BY <1>1
  <2> HIDE DEF a, m, n
  <2> QED BY <1>4, <2>1
<1> HIDE DEF a, b
<1> QED BY <1>1, <1>2, <1>3, <1>9, <1>10 DEF a, b

(* A generator reduces to what follows from it, and from the inputs that it *)
(* is said to depend on.                                                    *)
LEMMA GeneratorReducesTo ==
    ASSUME Laws, IInv, pc = "adding", todo # <<>>
    PROVE  /\ Reduced(Head(todo)) \in Polys
           /\ Member(Reduced(Head(todo)), ToSet(Append(told, Head(todo))))
           /\ trivial => Reduced(Head(todo)) = Zero
           /\ Tracking =>
                 /\ GeneratorDeps \in SUBSET DOMAIN inputs
                 /\ ~trivial /\ inputCount = Len(told) =>
                       Member(Reduced(Head(todo)), InputsOf(GeneratorDeps))
<1> USE DEF IInv
<1> DEFINE g == Head(todo)
           idx == ActiveIndices(basis)
           r == NormalForm(g, PolysAt(basis, idx))
           S == ToSet(told)
           T == ToSet(Append(told, g))
<1>1. told \in Seq(Polys) /\ Follows(basis, S) /\ (trivial => Sealed(basis))
    BY DEF LevelsRight, LevelRight
<1>2. basis \in Seq(Range(basis)) /\ \A i \in DOMAIN basis : IsElement(basis[i]) /\ basis[i].poly \in Polys
    BY <1>1 DEF Follows, IsElement
<1>3. todo \in Seq(Polys) /\ inputs \in Seq(Polys) /\ g \in Polys
    BY DEF Typed
<1> HIDE DEF g
<1>4. T \in SUBSET Polys /\ S \in SUBSET T /\ g \in T
    BY <1>1, <1>3, ToldAre
<1>5. /\ r.nf \in Polys /\ \A k \in r.used : k \in DOMAIN idx /\ idx[k] \in DOMAIN basis
      /\ (\E i \in DOMAIN basis : basis[i].active /\ IsConstant(basis[i].poly)) => r.nf = Zero
      /\ \A U \in SUBSET Polys :
            Member(g, U) /\ (\A k \in r.used : Member(basis[idx[k]].poly, U)) => Member(r.nf, U)
    BY <1>2, <1>3, ReducedIs
<1>6. Range(idx) = {k \in DOMAIN basis : basis[k].active}
    BY <1>2, ActiveAre
<1>7. Reduced(g) = r.nf
    BY DEF Reduced, Active
<1> HIDE DEF r, idx, S, T
<1>8. Member(r.nf, T)
  <2>1. Follows(basis, T)
    BY <1>1, <1>4, FollowsMore
  <2>2. \A k \in r.used : Member(basis[idx[k]].poly, T)
    BY <1>5, <2>1 DEF Follows
  <2> QED BY <1>4, <1>5, <2>2, GeneratorIn
<1>9. trivial => r.nf = Zero
    BY <1>1, <1>5 DEF Sealed
<1>10. ASSUME Tracking
       PROVE  /\ GeneratorDeps \in SUBSET DOMAIN inputs
              /\ ~trivial /\ inputCount = Len(told) => Member(r.nf, InputsOf(GeneratorDeps))
  <2> DEFINE E == GeneratorDeps
  <2>1. DepsOf(basis, deps) /\ (inputCount = Len(told) => DepsRight(basis, deps)) /\ inputCount \in 0 .. Len(told)
    BY <1>10 DEF DepsSound, CallsRight, Tracking
  <2>2. deps \in [DOMAIN basis -> SUBSET DOMAIN inputs]
    BY <2>1 DEF DepsOf
  <2>3. \A k \in DOMAIN basis : basis[k].active => deps[k] \subseteq E
    BY DEF GeneratorDeps
  <2>4. \A x \in E : \/ x \in (IF inputCount < Len(inputs) THEN {inputCount + 1} ELSE DOMAIN inputs)
                     \/ \E k \in DOMAIN basis : x \in deps[k]
    BY DEF GeneratorDeps
  <2>5. inputCount < Len(inputs) => inputCount + 1 \in DOMAIN inputs /\ inputCount + 1 \in E
    <3>1. DOMAIN inputs = 1 .. Len(inputs) /\ Len(inputs) \in Nat /\ inputCount \in Nat
        BY <1>3, <1>1, <2>1
    <3>2. inputCount < Len(inputs) => inputCount + 1 \in DOMAIN inputs
        BY <3>1
    <3> QED BY <3>2 DEF GeneratorDeps
  <2> HIDE DEF E
  <2>6. E \in SUBSET DOMAIN inputs
    BY <2>2, <2>4, <2>5
  <2>7. ASSUME ~trivial, inputCount = Len(told) PROVE Member(r.nf, InputsOf(E))
    <3> DEFINE U == InputsOf(E)
    <3>1. inputs = told \o todo
        BY <1>10, <2>7 DEF CallsRight, Tracking
    <3>2. /\ Len(told) + 1 \in DOMAIN (told \o todo) /\ (told \o todo)[Len(told) + 1] = g
          /\ Len(told) < Len(told \o todo)
        BY <1>1, <1>3, NextInput DEF g
    <3>3. inputCount + 1 \in E /\ inputs[inputCount + 1] = g
        BY <2>5, <2>7, <3>1, <3>2
    <3>4. g \in U /\ U \in SUBSET Polys
        BY <1>3, <2>6, <3>3, InputsAre DEF InputsOf
    <3>5. ASSUME NEW k \in r.used PROVE Member(basis[idx[k]].poly, U)
        <4> DEFINE i == idx[k]
        <4>1. i \in DOMAIN basis /\ basis[i].active
            BY <1>5, <1>6 DEF Range
        <4> HIDE DEF i
        <4>2. deps[i] \in SUBSET E /\ Member(basis[i].poly, InputsOf(deps[i])) /\ basis[i].poly \in Polys
            BY <1>2, <2>1, <2>3, <2>7, <4>1 DEF DepsRight
        <4>3. InputsOf(deps[i]) \in SUBSET U
            BY <1>3, <2>6, <4>2, InputsAre
        <4> QED BY <3>4, <4>2, <4>3, MoreIn DEF i
    <3>6. Member(g, U)
        BY <3>4, GeneratorIn
    <3> HIDE DEF U
    <3> QED BY <1>5, <3>4, <3>5, <3>6 DEF U
  <2> QED BY <2>6, <2>7 DEF E
<1> QED BY <1>5, <1>7, <1>8, <1>9, <1>10 DEF g, T

(* A generator consumed. *)
LEMMA GeneratorConsumed ==
    ASSUME Laws, IInv, InsertGenerator,
           LevelRight(basis', open', told', trivial'),
           (todo' = Tail(todo) /\ trivial' = trivial) \/ (todo' = <<>> /\ trivial'),
           inputCount' = inputCount \/ inputCount' = inputCount + 1,
           DepsSound'
    PROVE  IInv'
<1> USE DEF IInv
<1>1. /\ pc = "adding" /\ todo # <<>> /\ told' = Append(told, Head(todo))
      /\ UNCHANGED <<config, pc, inputs, trail, cancelled, calls>>
    BY DEF InsertGenerator
<1>2. told \in Seq(Polys) /\ todo \in Seq(Polys)
    BY DEF LevelsRight, LevelRight, Typed
<1>3. /\ Head(todo) \in Polys /\ Tail(todo) \in Seq(Polys)
      /\ Append(told, Head(todo)) \o Tail(todo) = told \o todo
    BY <1>1, <1>2, NextInput
<1>4. Len(told') = Len(told) + 1 /\ Len(told) \in Nat
    BY <1>1, <1>2, <1>3, ToldAre
<1>5. Typed'
  <2>1. <<>> \in Seq(Polys)
    OBVIOUS
  <2>2. todo' = Tail(todo) \/ todo' = <<>>
    OBVIOUS
  <2>3. todo' \in Seq(Polys)
    BY <1>3, <2>1, <2>2
  <2> QED BY <1>1, <2>3 DEF Typed
<1>6. LevelsRight'
    BY <1>1, LevelChanged
<1>7. CallsRight'
  <2>1. SUFFICES ASSUME config.traced PROVE CallsRight'
    BY <1>1 DEF CallsRight
  <2>2. /\ trail = <<>> /\ inputCount \in 0 .. Len(told)
        /\ cancelled => config.cancels
        /\ calls \in Nat /\ calls >= 1
        /\ trivial \/ inputs = told \o todo
    BY <1>1, <2>1 DEF CallsRight
  <2>3. inputCount' \in 0 .. Len(told')
    BY <1>4, <2>2
  <2>4. trivial' \/ inputs' = told' \o todo'
    BY <1>1, <1>3, <2>2
  <2> QED BY <1>1, <2>2, <2>3, <2>4 DEF CallsRight
<1> QED BY <1>5, <1>6, <1>7

(* It reduces to nothing: the tracer counts one input less than was told. *)
LEMMA SkipGeneratorKeeps ==
    ASSUME Laws, IInv, InsertGenerator, SkipGenerator(Head(todo))
    PROVE  IInv'
<1> USE DEF IInv
<1> DEFINE g == Head(todo)
<1>1. /\ todo # <<>> /\ told' = Append(told, g) /\ todo' = Tail(todo)
      /\ basis' = basis /\ open' = open /\ trivial' = trivial /\ deps' = deps /\ inputCount' = inputCount
      /\ config' = config /\ inputs' = inputs
    BY DEF InsertGenerator, SkipGenerator, basisVars, tracer
<1>2. told \in Seq(Polys) /\ g \in Polys
  <2>1. told \in Seq(Polys) /\ todo \in Seq(Polys)
    BY DEF LevelsRight, LevelRight, Typed
  <2> QED BY <1>1, <2>1, NextInput
<1> HIDE DEF g
<1>3. LevelRight(basis, open, told', trivial)
  <2>1. /\ Follows(basis, ToSet(told)) /\ Paired(open, basis) /\ (trivial => Sealed(basis))
    BY DEF LevelsRight, LevelRight
  <2>2. told' \in Seq(Polys) /\ ToSet(told') \in SUBSET Polys /\ ToSet(told) \in SUBSET ToSet(told')
    BY <1>1, <1>2, ToldAre
  <2>3. Follows(basis, ToSet(told'))
    BY <2>1, <2>2, FollowsMore
  <2> QED BY <2>1, <2>2, <2>3 DEF LevelRight
<1>4. DepsSound'
  <2>1. Tracking => DepsOf(basis', deps')
    BY <1>1 DEF DepsSound
  <2>2. Tracking => inputCount' # Len(told')
    <3>1. Len(told') = Len(told) + 1 /\ Len(told) \in Nat
        BY <1>1, <1>2, ToldAre
    <3>2. Tracking => inputCount \in 0 .. Len(told)
        BY DEF CallsRight, Tracking
    <3> QED BY <1>1, <3>1, <3>2
  <2> QED BY <1>1, <2>1, <2>2, DepsChanged
<1> QED BY <1>1, <1>3, <1>4, GeneratorConsumed DEF g

(* It gives an element: what the tracer records of it is right. *)
LEMMA GeneratorDepsSound ==
    ASSUME Laws, IInv, InsertGenerator, InitialDeps, Reduced(Head(todo)) # Zero,
           Longer(basis', basis, Monic(Reduced(Head(todo))))
    PROVE  DepsSound'
<1> USE DEF IInv
<1> DEFINE f == Reduced(Head(todo))
           E == GeneratorDeps
<1>1. /\ pc = "adding" /\ todo # <<>> /\ told' = Append(told, Head(todo))
      /\ config' = config /\ inputs' = inputs
    BY DEF InsertGenerator
<1>2. /\ f \in Polys /\ ~trivial
      /\ Tracking =>
            /\ E \in SUBSET DOMAIN inputs
            /\ inputCount = Len(told) => Member(f, InputsOf(E))
    BY <1>1, GeneratorReducesTo
<1>3. deps' = Append(deps, E) /\ inputCount' = inputCount + 1
    BY DEF InitialDeps, GeneratorDeps
<1>4. told \in Seq(Polys) /\ Follows(basis, ToSet(told)) /\ todo \in Seq(Polys) /\ inputs \in Seq(Polys)
    BY DEF LevelsRight, LevelRight, Typed
<1>5. Len(told') = Len(told) + 1 /\ Len(told) \in Nat
    BY <1>1, <1>4, NextInput, ToldAre
<1> HIDE DEF f, E
<1>6. ASSUME Tracking
      PROVE  DepsOf(basis', deps') /\ (inputCount' = Len(told') => DepsRight(basis', deps'))
  <2>1. DepsOf(basis, deps) /\ (inputCount = Len(told) => DepsRight(basis, deps)) /\ inputCount \in 0 .. Len(told)
    BY <1>6 DEF DepsSound, CallsRight, Tracking
  <2>2. E \in SUBSET DOMAIN inputs
    BY <1>2, <1>6
  <2>3. InputsOf(E) \in SUBSET Polys
    BY <1>4, <2>2, InputsAre
  <2>4. Member(f, InputsOf(E)) => Member(Monic(f), InputsOf(E))
    BY <1>2, <2>3, MonicIn DEF f
  <2>5. /\ DepsOf(basis', Append(deps, E))
        /\ DepsRight(basis, deps) /\ Member(Monic(f), InputsOf(E)) => DepsRight(basis', Append(deps, E))
    BY <1>4, <2>1, <2>2, DepsLonger DEF f
  <2>6. inputCount' = Len(told') => inputCount = Len(told)
    BY <1>3, <1>5, <2>1
  <2> QED BY <1>2, <1>3, <1>6, <2>1, <2>4, <2>5, <2>6
<1> QED BY <1>1, <1>6, DepsChanged

(* It gives a constant. *)
LEMMA UnitGeneratorKeeps ==
    ASSUME Laws, IInv, InsertGenerator, UnitGenerator(Head(todo))
    PROVE  IInv'
<1> USE DEF IInv
<1> DEFINE g == Head(todo)
           f == Reduced(g)
           c == Append(basis, Element(Monic(f), 0))
<1>1. /\ pc = "adding" /\ todo # <<>> /\ told' = Append(told, g) /\ todo' = <<>>
      /\ f # Zero /\ IsConstant(f) /\ basis' = c /\ trivial' = TRUE /\ open' = open /\ InitialDeps
      /\ inputCount' = inputCount + 1
    BY DEF InsertGenerator, UnitGenerator, InitialDeps
<1>2. told \in Seq(Polys) /\ todo \in Seq(Polys) /\ Follows(basis, ToSet(told)) /\ Paired(open, basis)
    BY DEF LevelsRight, LevelRight, Typed
<1>3. f \in Polys /\ Member(f, ToSet(Append(told, g)))
    BY <1>1, GeneratorReducesTo
<1>4. g \in Polys
    BY <1>1, <1>2, NextInput
<1> HIDE DEF g, f
<1>5. told' \in Seq(Polys) /\ Follows(basis, ToSet(told'))
    BY <1>1, <1>2, <1>4, ToldAre, FollowsMore
<1>6. LevelRight(c, open, told', TRUE) /\ Longer(c, basis, Monic(f))
    BY <1>1, <1>2, <1>3, <1>5, UnitLevel
<1> HIDE DEF c
<1>7. DepsSound'
    BY <1>1, <1>6, GeneratorDepsSound DEF f, g
<1> QED BY <1>1, <1>6, <1>7, GeneratorConsumed DEF g

(* It gives an element that is none. *)
LEMMA NewGeneratorKeeps ==
    ASSUME Laws, IInv, InsertGenerator, NewGenerator(Head(todo))
    PROVE  IInv'
<1> USE DEF IInv
<1> DEFINE g == Head(todo)
           f == Reduced(g)
           lt == Lead(Monic(f))
           c == BasisWith(Monic(f), Degree(lt))
           q == OpenWith(open, lt, Degree(lt))
<1>1. /\ pc = "adding" /\ todo # <<>> /\ told' = Append(told, g) /\ todo' = Tail(todo)
      /\ f # Zero /\ basis' = c /\ trivial' = trivial /\ open' = q /\ InitialDeps
      /\ inputCount' = inputCount + 1
    BY DEF InsertGenerator, NewGenerator, InitialDeps
<1>2. told \in Seq(Polys) /\ todo \in Seq(Polys) /\ Follows(basis, ToSet(told)) /\ Paired(open, basis)
    BY DEF LevelsRight, LevelRight, Typed
<1>3. f \in Polys /\ Member(f, ToSet(Append(told, g))) /\ ~trivial
    BY <1>1, GeneratorReducesTo
<1>4. g \in Polys
    BY <1>1, <1>2, NextInput
<1> HIDE DEF g, f, lt
<1>5. told' \in Seq(Polys) /\ Follows(basis, ToSet(told'))
    BY <1>1, <1>2, <1>4, ToldAre, FollowsMore
<1>6. LevelRight(c, q, told', FALSE) /\ Longer(c, basis, Monic(f))
    BY <1>1, <1>2, <1>3, <1>5, NewLevel
<1> HIDE DEF c, q
<1>7. LevelRight(c, q, told', trivial)
    BY <1>3, <1>6 DEF LevelRight
<1>8. DepsSound'
    BY <1>1, <1>6, GeneratorDepsSound DEF f, g
<1> QED BY <1>1, <1>7, <1>8, GeneratorConsumed DEF g

-------------------------------------------------------------------------------
(* The theorems. *)

(* A new engine holds nothing. *)
LEMMA InitRight ==
    ASSUME Laws, Init
    PROVE  IInv
<1>1. <<>> \in Seq(Polys) /\ DOMAIN <<>> = {} /\ Len(<<>>) = 0 /\ <<>> \o <<>> = <<>>
    OBVIOUS
<1>2. <<>> \in Seq(Range(<<>>))
    OBVIOUS
<1>3. Typed
    BY <1>1 DEF Init, Typed
<1>4. LevelsRight
    BY <1>1, <1>2 DEF Init, LevelsRight, LevelRight, Follows, Paired
<1>5. CallsRight
    BY <1>1 DEF Init, CallsRight
<1>6. DepsSound
  <2>1. deps \in [DOMAIN basis -> SUBSET DOMAIN inputs]
    BY <1>1 DEF Init
  <2> QED BY <1>1, <2>1 DEF Init, DepsSound, DepsOf, DepsRight
<1> QED BY <1>3, <1>4, <1>5, <1>6 DEF IInv

(* Every step keeps the invariant. *)
LEMMA NextKeeps ==
    ASSUME Laws, IInv, [Next]_vars
    PROVE  IInv'
<1>1. CASE AddCall
    BY <1>1, AddCallKeeps
<1>2. CASE RunOnly
    BY <1>2, RunOnlyKeeps
<1>3. CASE Cancel
    BY <1>3, CancelKeeps
<1>4. CASE DropGenerators
    BY <1>4, DropGeneratorsKeeps
<1>5. CASE InsertGenerator
  <2>1. \/ SkipGenerator(Head(todo)) \/ UnitGenerator(Head(todo)) \/ NewGenerator(Head(todo))
    BY <1>5 DEF InsertGenerator
  <2> QED BY <1>5, <2>1, SkipGeneratorKeeps, UnitGeneratorKeeps, NewGeneratorKeeps
<1>6. CASE StartRun
    BY <1>6, StartRunKeeps
<1>7. CASE LosePair
    BY <1>7, LosePairKeeps
<1>8. CASE ProcessPair
  <2>1. PICK p \in open : IF Older(p) THEN SkipPair(p) ELSE ReducePair(p)
    BY <1>8 DEF ProcessPair, NextPairs
  <2> DEFINE r == NormalForm(SPolynomial(basis[p.i].poly, basis[p.j].poly),
                             PolysAt(basis, ActiveIndices(basis)))
  <2>2. CASE SkipPair(p)
    BY <1>8, <2>2, DroppedPairKeeps DEF SkipPair
  <2>3. CASE UselessPair(p, r)
    BY <1>8, <2>3, DroppedPairKeeps DEF UselessPair
  <2>4. CASE UnitPair(p, ActiveIndices(basis), r)
    BY <1>8, <2>4, UnitPairKeeps
  <2>5. CASE NewPoly(p, ActiveIndices(basis), r)
    BY <1>8, <2>5, NewPolyKeeps
  <2> QED BY <2>1, <2>2, <2>3, <2>4, <2>5 DEF ReducePair
<1>9. CASE FinishRun
    BY <1>9, FinishRunKeeps
<1>10. CASE Push
    BY <1>10, PushKeeps
<1>11. CASE Pop
    BY <1>11, PopKeeps
<1>12. CASE UNCHANGED vars
  <2>1. Typed'
    BY <1>12 DEF IInv, Typed, vars
  <2>2. LevelsRight'
    BY <1>12, LevelsKept DEF IInv, vars, basisVars
  <2>3. CallsRight'
    BY <1>12 DEF IInv, CallsRight, vars, basisVars, tracer
  <2>4. DepsSound'
    BY <1>12, DepsKept DEF IInv, vars, basisVars, tracer
  <2> QED BY <2>1, <2>2, <2>3, <2>4 DEF IInv
<1> QED BY <1>1, <1>2, <1>3, <1>4, <1>5, <1>6, <1>7, <1>8, <1>9, <1>10, <1>11, <1>12
        DEF Next, Work, Done

(* At every level kept, what the engine holds follows from what that level   *)
(* was told, a trivial level holds an active constant, and an observed       *)
(* engine knows how many of its inputs have become elements.                 *)
THEOREM InvariantHolds ==
    ASSUME Laws
    PROVE  Spec => []IInv
<1>1. Init => IInv
    BY InitRight
<1>2. IInv /\ [Next]_vars => IInv'
    BY NextKeeps
<1> QED BY <1>1, <1>2, PTL DEF Spec

(* Nothing enters the basis that does not follow from the generators told at *)
(* the levels still open: not by reducing elements in place, by going back   *)
(* to a checkpoint, or by being cancelled and resumed in between.            *)
THEOREM BasisFollows ==
    ASSUME Laws
    PROVE  Spec => []BasisInIdeal
<1>1. IInv => BasisInIdeal
    BY DEF IInv, LevelsRight, LevelRight, Follows, BasisInIdeal
<1> QED BY <1>1, InvariantHolds, PTL

(* What the tracer says an element depends on entails it, through every      *)
(* reduction and inter-reduction, while every input has become an element.   *)
THEOREM DependenciesEntail ==
    ASSUME Laws
    PROVE  Spec => []DepsEntail
<1>1. IInv => DepsEntail
    BY DEF IInv, DepsSound, DepsRight, DepsEntail, Tracking
<1> QED BY <1>1, InvariantHolds, PTL

-------------------------------------------------------------------------------
(* Monomials. *)

(* Monomials of the same exponents are the same. *)
LEMMA SameMonomial ==
    ASSUME NEW a \in Monomial, NEW b \in Monomial, \A k \in 1 .. NV : a[k] = b[k]
    PROVE  a = b
<1>1. a = [k \in 1 .. NV |-> a[k]] /\ b = [k \in 1 .. NV |-> b[k]]
    BY DEF Monomial
<1> QED BY <1>1

(* Divisibility is an order. *)
LEMMA DividesIs ==
    ASSUME NEW a \in Monomial, NEW b \in Monomial, NEW c \in Monomial
    PROVE  /\ Divides(a, a)
           /\ Divides(a, b) /\ Divides(b, c) => Divides(a, c)
           /\ Divides(a, b) /\ Divides(b, a) => a = b
<1>1. NV \in Nat /\ \A k \in 1 .. NV : a[k] \in Nat /\ b[k] \in Nat /\ c[k] \in Nat
    BY VariablesAssumption DEF Monomial
<1>2. Divides(a, b) /\ Divides(b, a) => a = b
  <2>1. SUFFICES ASSUME Divides(a, b), Divides(b, a) PROVE a = b
    OBVIOUS
  <2>2. \A k \in 1 .. NV : a[k] = b[k]
    BY <1>1, <2>1 DEF Divides
  <2> QED BY <2>2, SameMonomial
<1>3. Divides(a, a)
    BY <1>1 DEF Divides
<1>4. Divides(a, b) /\ Divides(b, c) => Divides(a, c)
    BY <1>1 DEF Divides
<1> QED BY <1>2, <1>3, <1>4

(* The least common multiple is one. *)
LEMMA LcmIs ==
    ASSUME NEW a \in Monomial, NEW b \in Monomial
    PROVE  /\ Lcm(a, b) \in Monomial /\ Lcm(a, b) = Lcm(b, a)
           /\ Divides(a, Lcm(a, b)) /\ Divides(b, Lcm(a, b))
           /\ \A c \in Monomial : Divides(a, c) /\ Divides(b, c) => Divides(Lcm(a, b), c)
<1>1. NV \in Nat /\ \A k \in 1 .. NV : a[k] \in Nat /\ b[k] \in Nat
    BY VariablesAssumption DEF Monomial
<1>2. Lcm(a, b) \in Monomial
    BY <1>1 DEF Lcm, Monomial
<1>3. Lcm(a, b) = Lcm(b, a)
  <2>1. \A k \in 1 .. NV : (IF a[k] >= b[k] THEN a[k] ELSE b[k]) = (IF b[k] >= a[k] THEN b[k] ELSE a[k])
    BY <1>1
  <2> QED BY <2>1 DEF Lcm
<1>4. Divides(a, Lcm(a, b)) /\ Divides(b, Lcm(a, b))
    BY <1>1 DEF Lcm, Divides
<1>5. ASSUME NEW c \in Monomial, Divides(a, c), Divides(b, c) PROVE Divides(Lcm(a, b), c)
    BY <1>1, <1>5 DEF Lcm, Divides
<1> QED BY <1>2, <1>3, <1>4, <1>5

\* f is the recursion inside Degree.
Degrees(f, m) ==
    /\ f \in [0 .. NV -> Nat]
    /\ f[0] = 0 /\ Degree(m) = f[NV]
    /\ \A k \in 1 .. NV : f[k] = f[k - 1] + m[k]

(* The recursion inside Degree unrolls. *)
LEMMA DegreeUnrolls ==
    ASSUME NEW m \in Monomial
    PROVE  \E f : Degrees(f, m)
<1> DEFINE Eqn(f) == f = [k \in 0 .. NV |-> IF k = 0 THEN 0 ELSE f[k - 1] + m[k]]
           F == [q \in (1 .. NV) \X Nat |-> q[2] + m[q[1]]]
<1>1. NV \in Nat /\ \A k \in 1 .. NV : m[k] \in Nat
    BY VariablesAssumption DEF Monomial
<1>2. F \in Steps(NV, Nat)
  <2>1. \A q \in (1 .. NV) \X Nat : q[2] + m[q[1]] \in Nat
    BY <1>1
  <2> QED BY <2>1 DEF Steps
<1>3. PICK g : Unrolls(g, NV, Nat, 0, F)
  <2> HIDE DEF F
  <2> QED BY <1>1, <1>2, RecursionExists
<1>4. g \in [0 .. NV -> Nat] /\ g[0] = 0 /\ \A k \in 1 .. NV : g[k] = F[<<k, g[k - 1]>>]
    BY <1>3 DEF Unrolls
<1>5. ASSUME NEW k \in 1 .. NV PROVE g[k] = g[k - 1] + m[k]
  <2>1. k - 1 \in 0 .. NV
    BY <1>1
  <2>2. F[<<k, g[k - 1]>>] = g[k - 1] + m[k]
    BY <1>4, <2>1
  <2> QED BY <1>4, <2>2
<1>6. Eqn(g)
  <2>1. \A k \in 0 .. NV : g[k] = IF k = 0 THEN 0 ELSE g[k - 1] + m[k]
    <3>1. \A k \in 0 .. NV : k # 0 => k \in 1 .. NV
        BY <1>1
    <3> QED BY <1>4, <1>5, <3>1
  <2> HIDE DEF F
  <2> QED BY <1>4, <2>1
<1>7. Eqn(CHOOSE f : Eqn(f))
  <2> HIDE DEF Eqn
  <2> QED BY <1>6
<1> DEFINE h == CHOOSE f : Eqn(f)
<1>8. Degree(m) = h[NV]
    BY DEF Degree
<1>9. h[0] = 0 /\ \A k \in 1 .. NV : h[k] = h[k - 1] + m[k]
  <2>1. Eqn(h)
    BY <1>7
  <2>2. 0 \in 0 .. NV /\ \A k \in 1 .. NV : k \in 0 .. NV /\ k # 0
    BY <1>1
  <2> HIDE DEF h
  <2> QED BY <2>1, <2>2
<1>10. h = [k \in 0 .. NV |-> h[k]]
  <2>1. Eqn(h)
    BY <1>7
  <2> HIDE DEF h
  <2> QED BY <2>1
<1> HIDE DEF h
<1>11. \A k \in 0 .. NV : h[k] \in Nat
  <2>1. \A k \in 1 .. NV : h[k - 1] \in Nat => h[k] \in Nat
    BY <1>1, <1>9
  <2>2. h[0] \in Nat
    BY <1>9
  <2> QED BY <1>1, <2>1, <2>2, RecursionInvariant
<1>12. h \in [0 .. NV -> Nat]
    BY <1>10, <1>11
<1> QED BY <1>8, <1>9, <1>12 DEF Degrees

(* A divisor has a smaller degree, or is the monomial itself. *)
LEMMA DegreeIs ==
    ASSUME NEW a \in Monomial, NEW b \in Monomial
    PROVE  /\ Degree(a) \in Nat
           /\ Divides(a, b) => Degree(a) <= Degree(b) /\ (Degree(a) = Degree(b) => a = b)
<1>1. NV \in Nat /\ \A k \in 1 .. NV : a[k] \in Nat /\ b[k] \in Nat
    BY VariablesAssumption DEF Monomial
<1>2. PICK f : Degrees(f, a)
    BY DegreeUnrolls
<1>3. PICK g : Degrees(g, b)
    BY DegreeUnrolls
<1>4. /\ f \in [0 .. NV -> Nat] /\ f[0] = 0 /\ Degree(a) = f[NV]
      /\ \A k \in 1 .. NV : f[k] = f[k - 1] + a[k]
    BY <1>2 DEF Degrees
<1>5. /\ g \in [0 .. NV -> Nat] /\ g[0] = 0 /\ Degree(b) = g[NV]
      /\ \A k \in 1 .. NV : g[k] = g[k - 1] + b[k]
    BY <1>3 DEF Degrees
<1> DEFINE T == {k \in 0 .. NV : f[k] <= g[k] /\ (f[k] = g[k] => \A j \in 1 .. k : a[j] = b[j])}
<1>6. ASSUME Divides(a, b) PROVE NV \in T
  <2>1. 0 \in T
    BY <1>1, <1>4, <1>5
  <2>2. ASSUME NEW k \in 0 .. NV - 1, k \in T PROVE k + 1 \in T
    <3>1. k + 1 \in 1 .. NV /\ k \in 0 .. NV /\ k \in Nat /\ (k + 1) - 1 = k
        BY <1>1
    <3>2. f[k + 1] = f[k] + a[k + 1] /\ g[k + 1] = g[k] + b[k + 1]
        BY <1>4, <1>5, <3>1
    <3>3. a[k + 1] <= b[k + 1] /\ a[k + 1] \in Nat /\ b[k + 1] \in Nat
        BY <1>1, <1>6, <3>1 DEF Divides
    <3>4. f[k] \in Nat /\ g[k] \in Nat
        BY <1>4, <1>5, <3>1
    <3>5. f[k + 1] <= g[k + 1] /\ (f[k + 1] = g[k + 1] => f[k] = g[k] /\ a[k + 1] = b[k + 1])
        BY <2>2, <3>2, <3>3, <3>4
    <3>6. f[k + 1] = g[k + 1] => \A j \in 1 .. k + 1 : a[j] = b[j]
      <4>1. \A j \in 1 .. k + 1 : j \in 1 .. k \/ j = k + 1
        BY <3>1
      <4> QED BY <2>2, <3>5, <4>1
    <3>7. k + 1 \in 0 .. NV
        BY <3>1
    <3> QED BY <3>5, <3>6, <3>7
  <2> HIDE DEF T
  <2>3. 0 .. NV \subseteq T
    BY <1>1, <2>1, <2>2, IntervalInduction
  <2> QED BY <1>1, <2>3
<1>7. ASSUME Divides(a, b), Degree(a) = Degree(b) PROVE a = b
  <2>1. \A j \in 1 .. NV : a[j] = b[j]
    BY <1>4, <1>5, <1>6, <1>7
  <2> QED BY <2>1, SameMonomial
<1>8. Divides(a, b) => Degree(a) <= Degree(b)
    BY <1>4, <1>5, <1>6
<1>9. Degree(a) \in Nat
    BY <1>1, <1>4
<1> QED BY <1>7, <1>8, <1>9

(* Numbers of a set have a least one. *)
LEMMA LeastNumber ==
    ASSUME NEW S \in SUBSET Nat, S # {}
    PROVE  \E n \in S : \A k \in S : n <= k
<1> DEFINE T == {n \in Nat : \A k \in S : n <= k}
<1>1. SUFFICES ASSUME \A n \in S : n \notin T PROVE FALSE
    OBVIOUS
<1>2. 0 \in T
    OBVIOUS
<1>3. ASSUME NEW n \in Nat, n \in T PROVE n + 1 \in T
  <2>1. n \notin S
    BY <1>1, <1>3
  <2>2. \A k \in S : n <= k /\ n # k
    BY <1>3, <2>1
  <2> QED BY <2>2
<1> HIDE DEF T
<1>4. Nat \subseteq T
    BY <1>2, <1>3, NatSetInduction
<1> USE DEF T
<1>5. PICK k \in S : TRUE
    OBVIOUS
<1>6. k + 1 \in Nat
    OBVIOUS
<1>7. k + 1 \in T
    BY <1>4, <1>6
<1>8. k + 1 <= k
    BY <1>7
<1> QED BY <1>5, <1>8

-------------------------------------------------------------------------------
(* Critical pairs.  A pair of elements is accounted for when what the queue   *)
(* holds and what is settled already joins the two at their least common      *)
(* multiple t, through elements that divide t and over pairs that meet before *)
(* t.  Paths are not spoken of: the pair is in every equivalence of these     *)
(* elements that holds the pairs that are waiting, settled or meet earlier.   *)

\* R is an equivalence of N.
Equivalence(R, N) ==
    /\ R \subseteq N \X N
    /\ \A i \in N : <<i, i>> \in R
    /\ \A i, j \in N : <<i, j>> \in R => <<j, i>> \in R
    /\ \A i, j, k \in N : <<i, j>> \in R /\ <<j, k>> \in R => <<i, k>> \in R

\* Where the elements i and j meet, of the leading monomials lt.
Meet(lt, i, j) == Lcm(lt[i], lt[j])

\* The elements that divide t.
Below(lt, t) == {i \in DOMAIN lt : Divides(lt[i], t)}

\* R holds the pairs of E and those that meet before t.
Closes(R, lt, E, t) ==
    /\ Equivalence(R, Below(lt, t))
    /\ \A i, j \in Below(lt, t) : Meet(lt, i, j) # t \/ <<i, j>> \in E => <<i, j>> \in R

Accounted(lt, E) ==
    \A i, j \in DOMAIN lt : \A R : Closes(R, lt, E, Meet(lt, i, j)) => <<i, j>> \in R

\* Leading monomials of elements.
Leading(lt) == \A i \in DOMAIN lt : lt[i] \in Monomial

(* Elements divide the monomial at which they meet, and any that they divide  *)
(* is divided by it.                                                          *)
LEMMA MeetIs ==
    ASSUME NEW lt, Leading(lt), NEW i \in DOMAIN lt, NEW j \in DOMAIN lt
    PROVE  /\ Meet(lt, i, j) \in Monomial /\ Meet(lt, i, j) = Meet(lt, j, i)
           /\ i \in Below(lt, Meet(lt, i, j)) /\ j \in Below(lt, Meet(lt, i, j))
           /\ \A t \in Monomial : i \in Below(lt, t) /\ j \in Below(lt, t) => Divides(Meet(lt, i, j), t)
<1>1. lt[i] \in Monomial /\ lt[j] \in Monomial
    BY DEF Leading
<1> QED BY <1>1, LcmIs DEF Meet, Below

(* More pairs account for more. *)
LEMMA AccountedMore ==
    ASSUME NEW lt, NEW E, Accounted(lt, E), NEW F,
           \A i, j \in DOMAIN lt : <<i, j>> \in E => <<i, j>> \in F
    PROVE  Accounted(lt, F)
<1>1. ASSUME NEW i \in DOMAIN lt, NEW j \in DOMAIN lt, NEW R,
             Closes(R, lt, F, Meet(lt, i, j))
      PROVE  <<i, j>> \in R
  <2>1. Closes(R, lt, E, Meet(lt, i, j))
    BY <1>1 DEF Closes, Below
  <2> QED BY <2>1 DEF Accounted
<1> QED BY <1>1 DEF Accounted

\* u is lt with one element more, n.
Extends(u, lt, n) ==
    /\ DOMAIN u = DOMAIN lt \cup {n} /\ n \notin DOMAIN lt
    /\ \A i \in DOMAIN lt : u[i] = lt[i]

\* The pair meets where n does but neither of them meets n there: the chain criterion.
Bridged(u, i, j, n) ==
    /\ n \in Below(u, Meet(u, i, j))
    /\ Meet(u, i, n) # Meet(u, i, j) /\ Meet(u, j, n) # Meet(u, i, j)

(* What was in a relation before a new element stays there: a pair that the   *)
(* chain criterion drops is joined by way of the new element.                 *)
LEMMA OldAccounted ==
    ASSUME NEW lt, NEW u, NEW n, Leading(u), Extends(u, lt, n), NEW E, Accounted(lt, E), NEW F,
           \A i, j \in DOMAIN lt : <<i, j>> \in E => <<i, j>> \in F \/ Bridged(u, i, j, n),
           NEW i \in DOMAIN lt, NEW j \in DOMAIN lt,
           NEW R, Closes(R, u, F, Meet(u, i, j))
    PROVE  <<i, j>> \in R
<1> DEFINE t == Meet(u, i, j)
           N == Below(u, t)
           O == Below(lt, t)
           Q == {e \in O \X O : e \in R}
<1>1. /\ DOMAIN u = DOMAIN lt \cup {n} /\ n \notin DOMAIN lt
      /\ \A k \in DOMAIN lt : u[k] = lt[k]
    BY DEF Extends
<1>2. Meet(lt, i, j) = t /\ \A a, c \in DOMAIN lt : Meet(lt, a, c) = Meet(u, a, c)
    BY <1>1 DEF Meet
<1>3. O = N \cap DOMAIN lt /\ O \subseteq N
    BY <1>1 DEF Below
<1>4. /\ R \subseteq N \X N
      /\ \A a \in N : <<a, a>> \in R
      /\ \A a, c \in N : <<a, c>> \in R => <<c, a>> \in R
      /\ \A a, c, d \in N : <<a, c>> \in R /\ <<c, d>> \in R => <<a, d>> \in R
    BY DEF Closes, Equivalence
<1>5. \A a, c \in N : Meet(u, a, c) # t \/ <<a, c>> \in F => <<a, c>> \in R
    BY DEF Closes
<1> HIDE DEF t, N
<1>6. Equivalence(Q, O)
  <2>1. Q \subseteq O \X O
    OBVIOUS
  <2>2. \A a, c \in O : <<a, c>> \in Q <=> <<a, c>> \in R
    OBVIOUS
  <2> HIDE DEF Q, O
  <2>3. \A a \in O : <<a, a>> \in Q
    BY <1>3, <1>4, <2>2
  <2>4. \A a, c \in O : <<a, c>> \in Q => <<c, a>> \in Q
    BY <1>3, <1>4, <2>2
  <2>5. \A a, c, d \in O : <<a, c>> \in Q /\ <<c, d>> \in Q => <<a, d>> \in Q
    BY <1>3, <1>4, <2>2
  <2> QED BY <2>1, <2>3, <2>4, <2>5 DEF Equivalence
<1>7. ASSUME NEW a \in O, NEW c \in O, Meet(lt, a, c) # t \/ <<a, c>> \in E
      PROVE  <<a, c>> \in Q
  <2>0. a \in DOMAIN lt /\ c \in DOMAIN lt /\ a \in N /\ c \in N
    BY <1>3
  <2>1. CASE Meet(u, a, c) # t \/ <<a, c>> \in F
    BY <1>5, <2>0, <2>1
  <2>2. CASE Meet(u, a, c) = t /\ Bridged(u, a, c, n)
    <3>1. n \in N /\ Meet(u, a, n) # t /\ Meet(u, c, n) # t
        BY <2>2 DEF Bridged, N
    <3>2. <<a, n>> \in R /\ <<c, n>> \in R
        BY <1>5, <2>0, <3>1
    <3>3. <<a, c>> \in R
        BY <1>4, <2>0, <3>1, <3>2
    <3> QED BY <2>0, <3>3
  <2> QED BY <1>2, <1>7, <2>0, <2>1, <2>2
<1> HIDE DEF Q, O
<1>8. Closes(Q, lt, E, t)
    BY <1>6, <1>7 DEF Closes, O
<1>10. <<i, j>> \in Q
    BY <1>2, <1>8 DEF Accounted
<1> QED BY <1>10 DEF Q

(* A new element: the pairs before it are accounted for unless the chain      *)
(* criterion drops them, and those with it by way of one of them, if its      *)
(* least common multiple divides theirs and it waits or is settled.           *)
LEMMA AccountedLonger ==
    ASSUME NEW lt, NEW u, NEW n, Leading(u), Extends(u, lt, n), NEW E, Accounted(lt, E), NEW F,
           \A i, j \in DOMAIN lt : <<i, j>> \in E => <<i, j>> \in F \/ Bridged(u, i, j, n),
           NEW A \in SUBSET DOMAIN lt,
           \A i \in DOMAIN lt : \E s \in A : Divides(lt[s], lt[i]),
           \A k \in A : \E q \in A : <<q, n>> \in F /\ Divides(Meet(u, q, n), Meet(u, k, n))
    PROVE  Accounted(u, F)
<1>1. /\ DOMAIN u = DOMAIN lt \cup {n} /\ n \notin DOMAIN lt
      /\ \A k \in DOMAIN lt : u[k] = lt[k]
    BY DEF Extends
<1>2. ASSUME NEW i \in DOMAIN lt, NEW j \in DOMAIN lt,
             NEW R, Closes(R, u, F, Meet(u, i, j))
      PROVE  <<i, j>> \in R
    BY <1>2, OldAccounted
<1>3. ASSUME NEW k \in DOMAIN lt, NEW R,
             Closes(R, u, F, Meet(u, k, n))
      PROVE  <<k, n>> \in R /\ <<n, k>> \in R
  <2> DEFINE t == Meet(u, k, n)
             N == Below(u, t)
  <2>1. /\ \A a, c \in N : <<a, c>> \in R => <<c, a>> \in R
        /\ \A a, c, d \in N : <<a, c>> \in R /\ <<c, d>> \in R => <<a, d>> \in R
        /\ \A a, c \in N : Meet(u, a, c) # t \/ <<a, c>> \in F => <<a, c>> \in R
    BY <1>3 DEF Closes, Equivalence
  <2>2. k \in DOMAIN u /\ n \in DOMAIN u
    BY <1>1
  <2>3. t \in Monomial /\ k \in N /\ n \in N
    BY <2>2, MeetIs
  <2>4. \A a, c \in DOMAIN lt : Meet(u, a, c) = t => <<a, c>> \in R
    BY <1>2, <1>3
  <2> HIDE DEF t
  <2>5. ASSUME NEW a \in N \cap DOMAIN lt, NEW c \in N \cap DOMAIN lt PROVE <<a, c>> \in R
    BY <2>1, <2>4
  <2>6. ASSUME NEW s \in A, s \in N PROVE <<s, n>> \in R
    <3>1. PICK q \in A : <<q, n>> \in F /\ Divides(Meet(u, q, n), Meet(u, s, n))
        OBVIOUS
    <3>2. s \in DOMAIN u /\ q \in DOMAIN u /\ s \in DOMAIN lt /\ q \in DOMAIN lt
        BY <1>1
    <3>3. /\ Meet(u, q, n) \in Monomial /\ Meet(u, s, n) \in Monomial /\ Divides(Meet(u, s, n), t)
          /\ Divides(u[q], Meet(u, q, n)) /\ u[q] \in Monomial
      <4>1. Meet(u, q, n) \in Monomial /\ q \in Below(u, Meet(u, q, n))
        BY <2>2, <3>2, MeetIs
      <4>2. Meet(u, s, n) \in Monomial /\ Divides(Meet(u, s, n), t)
        BY <2>2, <2>3, <2>6, <3>2, MeetIs DEF N
      <4> QED BY <3>2, <4>1, <4>2 DEF Below, Leading
    <3>4. Divides(Meet(u, q, n), t)
        BY <2>3, <3>1, <3>3, DividesIs
    <3>5. Divides(u[q], t)
        BY <2>3, <3>3, <3>4, DividesIs
    <3>6. q \in N
        BY <3>2, <3>5 DEF N, Below
    <3>7. <<q, n>> \in R
        BY <2>1, <2>3, <3>1, <3>6
    <3>8. <<s, q>> \in R
        BY <2>5, <2>6, <3>2, <3>6
    <3> QED BY <2>1, <2>3, <2>6, <3>6, <3>7, <3>8
  <2>7. PICK s \in A : Divides(lt[s], lt[k])
    OBVIOUS
  <2>8. s \in N
    <3>1. s \in DOMAIN u /\ s \in DOMAIN lt /\ u[s] = lt[s] /\ u[k] = lt[k]
        BY <1>1
    <3>2. u[s] \in Monomial /\ u[k] \in Monomial /\ Divides(u[s], u[k]) /\ Divides(u[k], t)
        BY <2>2, <2>3, <2>7, <3>1 DEF Leading, N, Below
    <3>3. Divides(u[s], t)
        BY <2>3, <3>2, DividesIs
    <3> QED BY <3>1, <3>3 DEF N, Below
  <2>9. <<k, s>> \in R /\ <<s, n>> \in R
    BY <2>3, <2>5, <2>6, <2>8
  <2>10. <<k, n>> \in R
    BY <2>1, <2>3, <2>8, <2>9
  <2> QED BY <2>1, <2>3, <2>10
<1>4. ASSUME NEW R, Closes(R, u, F, Meet(u, n, n))
      PROVE  <<n, n>> \in R
  <2>1. n \in DOMAIN u
    BY <1>1
  <2>2. n \in Below(u, Meet(u, n, n))
    BY <2>1, MeetIs
  <2> QED BY <1>4, <2>2 DEF Closes, Equivalence
<1>5. ASSUME NEW i \in DOMAIN u, NEW j \in DOMAIN u, NEW R,
             Closes(R, u, F, Meet(u, i, j))
      PROVE  <<i, j>> \in R
  <2>1. CASE i \in DOMAIN lt /\ j \in DOMAIN lt
    BY <1>2, <1>5, <2>1
  <2>2. CASE i \in DOMAIN lt /\ j = n
    BY <1>3, <1>5, <2>2
  <2>3. CASE i = n /\ j \in DOMAIN lt
    <3>1. Meet(u, n, j) = Meet(u, j, n)
        BY <1>1, <2>3, MeetIs
    <3> QED BY <1>3, <1>5, <2>3, <3>1
  <2>4. CASE i = n /\ j = n
    BY <1>4, <1>5, <2>4
  <2> QED BY <1>1, <2>1, <2>2, <2>3, <2>4
<1> QED BY <1>5 DEF Accounted

\* K[t] relates elements that divide t, and what it relates stays related at multiples.
Relates(K, lt) ==
    /\ \A t \in Monomial : Equivalence(K[t], Below(lt, t))
    /\ \A s, t \in Monomial : Divides(s, t) => K[s] \subseteq K[t]

(* Where every pair of E is related at their least common multiple, every pair *)
(* that E accounts for is: one that meets first and is not would be related by *)
(* those that meet earlier.                                                    *)
LEMMA AllRelated ==
    ASSUME NEW lt, Leading(lt), NEW E, Accounted(lt, E), NEW K, Relates(K, lt),
           \A i, j \in DOMAIN lt : <<i, j>> \in E => <<i, j>> \in K[Meet(lt, i, j)]
    PROVE  \A i, j \in DOMAIN lt : <<i, j>> \in K[Meet(lt, i, j)]
<1> DEFINE Late(i, j, n) == <<i, j>> \notin K[Meet(lt, i, j)] /\ n = Degree(Meet(lt, i, j))
           S == {n \in Nat : \E i \in DOMAIN lt : \E j \in DOMAIN lt : Late(i, j, n)}
<1>1. SUFFICES ASSUME NEW i0 \in DOMAIN lt, NEW j0 \in DOMAIN lt, <<i0, j0>> \notin K[Meet(lt, i0, j0)]
               PROVE  FALSE
    OBVIOUS
<1>2. \A a, c \in DOMAIN lt : Meet(lt, a, c) \in Monomial /\ Degree(Meet(lt, a, c)) \in Nat
    BY MeetIs, DegreeIs
<1>3. Degree(Meet(lt, i0, j0)) \in S
    BY <1>1, <1>2
<1>4. S \in SUBSET Nat /\ S # {}
    BY <1>3
<1>5. PICK n \in S : \A k \in S : n <= k
    BY <1>4, LeastNumber
<1>6. PICK i \in DOMAIN lt : \E j \in DOMAIN lt : Late(i, j, n)
    OBVIOUS
<1>61. PICK j \in DOMAIN lt : Late(i, j, n)
    BY <1>6
<1> DEFINE t == Meet(lt, i, j)
<1>7. <<i, j>> \notin K[t] /\ n = Degree(t) /\ t \in Monomial /\ n \in Nat
    BY <1>2, <1>61
<1>71. ASSUME NEW a \in DOMAIN lt, NEW c \in DOMAIN lt, Degree(Meet(lt, a, c)) < n
      PROVE  <<a, c>> \in K[Meet(lt, a, c)]
  <2>1. SUFFICES ASSUME <<a, c>> \notin K[Meet(lt, a, c)] PROVE FALSE
    OBVIOUS
  <2>2. Degree(Meet(lt, a, c)) \in S
    BY <1>2, <2>1
  <2>3. n <= Degree(Meet(lt, a, c)) /\ Degree(Meet(lt, a, c)) \in Nat
    BY <1>2, <1>5, <2>2
  <2> QED BY <1>7, <1>71, <2>3
<1> HIDE DEF Late, S
<1>8. Equivalence(K[t], Below(lt, t)) /\ \A s \in Monomial : Divides(s, t) => K[s] \subseteq K[t]
    BY <1>7 DEF Relates
<1>9. ASSUME NEW a \in Below(lt, t), NEW c \in Below(lt, t), Meet(lt, a, c) # t \/ <<a, c>> \in E
      PROVE  <<a, c>> \in K[t]
  <2> DEFINE s == Meet(lt, a, c)
  <2>1. a \in DOMAIN lt /\ c \in DOMAIN lt
    BY DEF Below
  <2>2. s \in Monomial /\ Divides(s, t)
    BY <1>7, <2>1, MeetIs
  <2>3. <<a, c>> \in K[s]
    <3>1. CASE s # t
      <4>1. Degree(s) < n
        <5>1. Degree(s) <= Degree(t) /\ Degree(s) # Degree(t) /\ Degree(s) \in Nat
            BY <1>7, <2>2, <3>1, DegreeIs
        <5> QED BY <1>7, <5>1
      <4> QED BY <1>71, <2>1, <4>1
    <3>2. CASE s = t
        BY <1>9, <2>1, <3>2
    <3> QED BY <3>1, <3>2
  <2> QED BY <1>8, <2>2, <2>3
<1> HIDE DEF t
<1>10. Closes(K[t], lt, E, t)
    BY <1>8, <1>9 DEF Closes
<1>12. <<i, j>> \in K[t]
    BY <1>7, <1>10 DEF Accounted, t
<1> QED BY <1>7, <1>12

-------------------------------------------------------------------------------
(* What joins critical pairs. *)

\* Divisors, and lists of them.
Nonzero == Polys \ {Zero}

\* The laws of critical pairs.
PairLaws ==
    /\ Joining(Polys, Monomial, SUBSET Nonzero)
    /\ Criteria(Polys, Seq(Nonzero), SUBSET Nonzero)
    /\ Buchberger(Polys, Seq(Nonzero), SUBSET Nonzero)

\* Polynomials whose leading monomials divide t.
Under(t) == {f \in Nonzero : Divides(Lead(f), t)}

(* A polynomial joins itself, and what it is joined with. *)
LEMMA JoinedSame ==
    ASSUME PairLaws, NEW t \in Monomial, NEW p \in Under(t), NEW q \in Under(t), NEW D \in SUBSET Nonzero
    PROVE  Joined(p, p, t, D) /\ (Joined(p, q, t, D) => Joined(q, p, t, D))
BY DEF PairLaws, Joining, Under, Nonzero

(* Being joined goes on. *)
LEMMA JoinedOn ==
    ASSUME PairLaws, NEW t \in Monomial, NEW p \in Under(t), NEW q \in Under(t), NEW r \in Under(t),
           NEW D \in SUBSET Nonzero, Joined(p, q, t, D), Joined(q, r, t, D)
    PROVE  Joined(p, r, t, D)
BY DEF PairLaws, Joining, Under, Nonzero

(* And is kept at multiples. *)
LEMMA JoinedAbove ==
    ASSUME PairLaws, NEW t \in Monomial, NEW u \in Monomial, Divides(t, u), NEW p \in Under(t), NEW q \in Under(t),
           NEW D \in SUBSET Nonzero, Joined(p, q, t, D)
    PROVE  Joined(p, q, u, D)
BY DEF PairLaws, Joining, Under, Nonzero

\* Each of D gives way to one of E that is joined with it.
GivesWay(D, E) == \A d \in D : \E e \in E : Lead(e) = Lead(d) /\ Joined(d, e, Lead(d), E)

(* When the divisors give way to others. *)
LEMMA JoinedBy ==
    ASSUME PairLaws, NEW t \in Monomial, NEW p \in Under(t), NEW q \in Under(t),
           NEW D \in SUBSET Nonzero, NEW E \in SUBSET Nonzero, GivesWay(D, E), Joined(p, q, t, D)
    PROVE  Joined(p, q, t, E)
BY DEF PairLaws, Joining, Under, Nonzero, GivesWay

(* Leading monomials are monomials, of which the polynomial is a multiple. *)
LEMMA LeadIs ==
    ASSUME Laws, NEW p \in Nonzero
    PROVE  Lead(p) \in Monomial /\ p \in Under(Lead(p)) /\ Monic(p) \in Under(Lead(p)) /\ Lead(Monic(p)) = Lead(p)
<1>1. Lead(p) \in Monomial /\ Lead(Monic(p)) = Lead(p) /\ Monic(p) \in Nonzero
    BY DEF Laws, Dividing, Closed, Nonzero
<1>2. Divides(Lead(p), Lead(p))
    BY <1>1, DividesIs
<1> QED BY <1>1, <1>2 DEF Under

(* And when there are more. *)
LEMMA JoinedMore ==
    ASSUME Laws, PairLaws, NEW t \in Monomial, NEW p \in Under(t), NEW q \in Under(t),
           NEW E \in SUBSET Nonzero, NEW D \in SUBSET E, Joined(p, q, t, D)
    PROVE  Joined(p, q, t, E)
<1>1. ASSUME NEW d \in D PROVE Joined(d, d, Lead(d), E)
    BY LeadIs, JoinedSame
<1>2. GivesWay(D, E)
    BY <1>1 DEF GivesWay
<1> QED BY <1>2, JoinedBy

-------------------------------------------------------------------------------
(* Rewriting: polynomials give way to others that are joined with them. *)

\* Polynomials at indices.
PolysFrom(I) == [I -> Nonzero]

Rewrites(f, g) ==
    \A i \in DOMAIN f : Lead(g[i]) = Lead(f[i]) /\ Joined(f[i], g[i], Lead(f[i]), Range(g))

(* The values of a family of polynomials. *)
LEMMA RangeIs ==
    ASSUME NEW I, NEW f \in PolysFrom(I)
    PROVE  Range(f) \in SUBSET Nonzero /\ \A i \in I : f[i] \in Nonzero /\ f[i] \in Range(f)
BY DEF PolysFrom, Range

(* What gives way is under the same monomials. *)
LEMMA RewritesUnder ==
    ASSUME NEW I, NEW f \in PolysFrom(I), NEW g \in PolysFrom(I), Rewrites(f, g), NEW i \in I, NEW t
    PROVE  f[i] \in Under(t) <=> g[i] \in Under(t)
<1>1. Lead(g[i]) = Lead(f[i])
    BY DEF Rewrites, PolysFrom
<1> QED BY <1>1, RangeIs DEF Under

(* The divisors give way. *)
LEMMA RewritesGives ==
    ASSUME NEW I, NEW f \in PolysFrom(I), NEW g \in PolysFrom(I), Rewrites(f, g)
    PROVE  GivesWay(Range(f), Range(g))
<1>1. ASSUME NEW d \in Range(f)
      PROVE  \E e \in Range(g) : Lead(e) = Lead(d) /\ Joined(d, e, Lead(d), Range(g))
  <2>1. PICK i \in I : d = f[i]
    BY DEF Range, PolysFrom
  <2>2. g[i] \in Range(g) /\ Lead(g[i]) = Lead(d) /\ Joined(d, g[i], Lead(d), Range(g))
    BY <2>1, RangeIs DEF Rewrites, PolysFrom
  <2> QED BY <2>2
<1> QED BY <1>1 DEF GivesWay

(* What was joined stays joined. *)
LEMMA RewritesJoins ==
    ASSUME Laws, PairLaws, NEW I, NEW f \in PolysFrom(I), NEW g \in PolysFrom(I), Rewrites(f, g),
           NEW t \in Monomial, NEW i \in I, NEW j \in I, f[i] \in Under(t), f[j] \in Under(t),
           Joined(f[i], f[j], t, Range(f))
    PROVE  Joined(g[i], g[j], t, Range(g))
<1>1. /\ Range(f) \in SUBSET Nonzero /\ Range(g) \in SUBSET Nonzero
      /\ f[i] \in Nonzero /\ f[j] \in Nonzero
    BY RangeIs
<1>2. g[i] \in Under(t) /\ g[j] \in Under(t)
    BY RewritesUnder
<1>3. Joined(f[i], f[j], t, Range(g))
    BY <1>1, RewritesGives, JoinedBy
<1>4. ASSUME NEW k \in I, f[k] \in Under(t) PROVE Joined(f[k], g[k], t, Range(g)) /\ Joined(g[k], f[k], t, Range(g))
  <2>1. f[k] \in Nonzero /\ Lead(f[k]) \in Monomial /\ f[k] \in Under(Lead(f[k]))
    BY RangeIs, LeadIs
  <2>2. Divides(Lead(f[k]), t)
    BY <1>4 DEF Under
  <2>3. g[k] \in Under(Lead(f[k])) /\ g[k] \in Under(t)
    BY <1>4, <2>1, RewritesUnder
  <2>4. Joined(f[k], g[k], Lead(f[k]), Range(g))
    BY DEF Rewrites, PolysFrom
  <2>5. Joined(f[k], g[k], t, Range(g))
    BY <1>1, <2>1, <2>2, <2>3, <2>4, JoinedAbove
  <2> QED BY <1>1, <1>4, <2>3, <2>5, JoinedSame
<1>5. Joined(g[i], f[j], t, Range(g))
    BY <1>1, <1>2, <1>3, <1>4, JoinedOn
<1> QED BY <1>1, <1>2, <1>4, <1>5, JoinedOn

(* A family gives way to itself, and on to what that gives way to. *)
LEMMA RewritesSame ==
    ASSUME Laws, PairLaws, NEW I, NEW f \in PolysFrom(I)
    PROVE  Rewrites(f, f)
<1>1. ASSUME NEW i \in I PROVE Joined(f[i], f[i], Lead(f[i]), Range(f))
    BY RangeIs, LeadIs, JoinedSame
<1> QED BY <1>1 DEF Rewrites, PolysFrom

(* And on to what that gives way to. *)
LEMMA RewritesOn ==
    ASSUME Laws, PairLaws, NEW I, NEW f \in PolysFrom(I), NEW g \in PolysFrom(I), NEW h \in PolysFrom(I),
           Rewrites(f, g), Rewrites(g, h)
    PROVE  Rewrites(f, h)
<1>1. SUFFICES ASSUME NEW i \in I
               PROVE  Lead(h[i]) = Lead(f[i]) /\ Joined(f[i], h[i], Lead(f[i]), Range(h))
    BY DEF Rewrites, PolysFrom
<1>2. /\ Range(g) \in SUBSET Nonzero /\ Range(h) \in SUBSET Nonzero
      /\ f[i] \in Nonzero /\ g[i] \in Nonzero /\ h[i] \in Nonzero
    BY RangeIs
<1>3. /\ Lead(g[i]) = Lead(f[i]) /\ Lead(h[i]) = Lead(f[i])
      /\ Joined(f[i], g[i], Lead(f[i]), Range(g)) /\ Joined(g[i], h[i], Lead(f[i]), Range(h))
    BY DEF Rewrites, PolysFrom
<1>4. Lead(f[i]) \in Monomial /\ \A p \in {f[i], g[i], h[i]} : p \in Under(Lead(f[i]))
    BY <1>2, <1>3, LeadIs DEF Under
<1>5. Joined(f[i], g[i], Lead(f[i]), Range(h))
    BY <1>2, <1>3, <1>4, RewritesGives, JoinedBy
<1> QED BY <1>2, <1>3, <1>4, <1>5, JoinedOn

(* The ideal stays the same. *)
LEMMA RewritesIdeal ==
    ASSUME Laws, PairLaws, NEW I, NEW f \in PolysFrom(I), NEW g \in PolysFrom(I), Rewrites(f, g),
           NEW p \in Polys, Member(p, Range(f))
    PROVE  Member(p, Range(g))
<1>1. Range(f) \in SUBSET Nonzero /\ Range(g) \in SUBSET Nonzero
    BY RangeIs
<1>2. ASSUME NEW q \in Range(f) PROVE Member(q, Range(g))
  <2>1. PICK e \in Range(g) : Lead(e) = Lead(q) /\ Joined(q, e, Lead(q), Range(g))
    BY RewritesGives DEF GivesWay
  <2>2. q \in Polys \ {Zero} /\ e \in Polys \ {Zero} /\ Range(g) \in SUBSET Polys
    BY <1>1 DEF Nonzero
  <2>3. Member(e, Range(g))
    BY <2>2, GeneratorIn
  <2> QED BY <1>1, <2>1, <2>2, <2>3 DEF PairLaws, Criteria
<1>3. Range(f) \in SUBSET Polys /\ Range(g) \in SUBSET Polys
    BY <1>1 DEF Nonzero
<1> QED BY <1>2, <1>3 DEF Laws, Membership

(* An element divided by others none of which divides its leading monomial    *)
(* gives way to what is left of it.                                           *)
LEMMA DividedRewrites ==
    ASSUME Laws, PairLaws, NEW I, NEW f \in PolysFrom(I), NEW i \in I, NEW D \in Seq(Nonzero),
           \A k \in DOMAIN D : (\E j \in I : j # i /\ D[k] = f[j]) /\ ~Divides(Lead(D[k]), Lead(f[i]))
    PROVE  LET r == NormalForm(f[i], D).nf
               g == [f EXCEPT ![i] = r]
           IN  r # Zero /\ g \in PolysFrom(I) /\ Rewrites(f, g)
<1> DEFINE r == NormalForm(f[i], D).nf
           g == [f EXCEPT ![i] = r]
<1>1. f[i] \in Polys \ {Zero} /\ f[i] \in Polys /\ D \in Seq(Polys \ {Zero})
    BY RangeIs DEF Nonzero
<1>2. r \in Polys
    BY <1>1, NormalFormIn
<1>3. r # Zero /\ Lead(r) = Lead(f[i]) /\ Joined(f[i], r, Lead(f[i]), ToSet(D))
    BY <1>1 DEF PairLaws, Criteria, Nonzero
<1> HIDE DEF r
<1>4. f \in [I -> Nonzero] /\ r \in Nonzero
    BY <1>2, <1>3 DEF PolysFrom, Nonzero
<1>5. g \in PolysFrom(I) /\ g[i] = r /\ \A j \in I : j # i => g[j] = f[j]
    BY <1>4 DEF PolysFrom
<1> HIDE DEF g
<1>6. Range(g) \in SUBSET Nonzero /\ \A j \in I : g[j] \in Range(g)
    BY <1>5, RangeIs
<1>7. ToSet(D) \in SUBSET Range(g)
    BY <1>5, <1>6 DEF ToSet
<1>8. ASSUME NEW j \in I PROVE Lead(g[j]) = Lead(f[j]) /\ Joined(f[j], g[j], Lead(f[j]), Range(g))
  <2>1. f[j] \in Nonzero /\ Lead(f[j]) \in Monomial /\ f[j] \in Under(Lead(f[j]))
    BY RangeIs, LeadIs
  <2>2. CASE j # i
    BY <1>5, <1>6, <2>1, <2>2, JoinedSame
  <2>3. CASE j = i
    <3>1. r \in Under(Lead(f[i]))
        BY <1>3, <1>4, <2>1, <2>3 DEF Under
    <3>2. Joined(f[i], r, Lead(f[i]), Range(g))
        BY <1>3, <1>6, <1>7, <2>1, <2>3, <3>1, JoinedMore
    <3> QED BY <1>3, <1>5, <2>3, <3>2
  <2> QED BY <2>2, <2>3
<1>9. Rewrites(f, g)
    BY <1>8 DEF Rewrites, PolysFrom
<1> QED BY <1>3, <1>5, <1>9 DEF r, g

(* And so does each to a multiple of it. *)
LEMMA MonicRewrites ==
    ASSUME Laws, PairLaws, NEW I, NEW f \in PolysFrom(I), NEW g, g = [i \in I |-> g[i]],
           \A i \in I : g[i] = f[i] \/ g[i] = Monic(f[i])
    PROVE  g \in PolysFrom(I) /\ Rewrites(f, g)
<1>1. \A i \in I : f[i] \in Nonzero /\ Monic(f[i]) \in Nonzero
    BY RangeIs DEF Laws, Closed, Nonzero
<1>2. g \in PolysFrom(I)
    BY <1>1 DEF PolysFrom
<1>3. Range(g) \in SUBSET Nonzero /\ {} \in SUBSET Range(g)
    BY <1>2, RangeIs
<1>4. ASSUME NEW i \in I PROVE Lead(g[i]) = Lead(f[i]) /\ Joined(f[i], g[i], Lead(f[i]), Range(g))
  <2>1. /\ f[i] \in Nonzero /\ Lead(f[i]) \in Monomial /\ Lead(Monic(f[i])) = Lead(f[i])
        /\ f[i] \in Under(Lead(f[i])) /\ Monic(f[i]) \in Under(Lead(f[i]))
    BY <1>1, LeadIs
  <2>2. Joined(f[i], Monic(f[i]), Lead(f[i]), {})
    BY <2>1 DEF PairLaws, Criteria, Nonzero
  <2>3. Joined(f[i], Monic(f[i]), Lead(f[i]), Range(g))
    BY <1>3, <2>1, <2>2, JoinedMore
  <2>4. Joined(f[i], f[i], Lead(f[i]), Range(g))
    BY <1>3, <2>1, JoinedSame
  <2> QED BY <2>1, <2>3, <2>4
<1> QED BY <1>2, <1>4 DEF Rewrites, PolysFrom

(* Each active element is listed once. *)
LEMMA ActiveOnce ==
    ASSUME NEW b, b \in Seq(Range(b)), NEW j \in DOMAIN ActiveIndices(b), NEW k \in DOMAIN ActiveIndices(b),
           ActiveIndices(b)[j] = ActiveIndices(b)[k]
    PROVE  j = k
<1> DEFINE seq == [i \in DOMAIN b |-> i]
           S == {i \in DOMAIN b : b[i].active}
           n == Len(b)
           Once(s, m) ==
              /\ \A x, y \in 1 .. Len(s) : s[x] = s[y] => x = y
              /\ \A x \in 1 .. Len(s) : s[x] \in 1 .. m
<1>1. n \in Nat /\ DOMAIN b = 1 .. n
    OBVIOUS
<1>2. seq \in Seq(1 .. n) /\ Len(seq) = n /\ \A i \in 1 .. n : seq[i] = i
    BY <1>1
<1>3. ActiveIndices(b) = Selected(seq, S)
    BY DEF ActiveIndices
<1> HIDE DEF seq, S, n
<1>4. PICK f : Selects(f, seq, S, 1 .. n)
    BY <1>2, SelectedRecursion
<1>5. /\ \A m \in 0 .. n : f[m] \in Seq(1 .. n)
      /\ f[0] = <<>> /\ ActiveIndices(b) = f[n]
      /\ \A m \in 1 .. n : f[m] = IF m \in S THEN Append(f[m - 1], m) ELSE f[m - 1]
    BY <1>2, <1>3, <1>4 DEF Selects
<1> DEFINE Q == {m \in 0 .. n : Once(f[m], m)}
<1>6. 0 \in Q
  <2>1. Len(<<>>) = 0 /\ 1 .. 0 = {}
    OBVIOUS
  <2>2. Once(<<>>, 0)
    BY <2>1
  <2> HIDE DEF Once
  <2> QED BY <1>1, <1>5, <2>2
<1>7. ASSUME NEW m \in 0 .. n - 1, m \in Q PROVE m + 1 \in Q
  <2>1. m + 1 \in 1 .. n /\ (m + 1) - 1 = m /\ m + 1 \in 0 .. n /\ m \in 0 .. n /\ m \in Nat
    BY <1>1
  <2> DEFINE s == f[m]  t == f[m + 1]
  <2>2. s \in Seq(1 .. n) /\ t = IF m + 1 \in S THEN Append(s, m + 1) ELSE s
    BY <1>5, <2>1
  <2>3. Once(s, m)
    BY <1>7
  <2> HIDE DEF s, t
  <2>4. Once(s, m + 1)
    BY <2>1, <2>3
  <2>5. Once(Append(s, m + 1), m + 1)
    <3> DEFINE u == Append(s, m + 1)
    <3>1. /\ Len(s) \in Nat /\ Len(u) = Len(s) + 1 /\ u[Len(s) + 1] = m + 1
          /\ \A x \in 1 .. Len(s) : u[x] = s[x]
        BY <2>1, <2>2
    <3> HIDE DEF u
    <3>2. \A x \in 1 .. Len(u) : x \in 1 .. Len(s) \/ x = Len(s) + 1
        BY <3>1
    <3>3. \A x \in 1 .. Len(s) : u[x] \in 1 .. m
        BY <2>3, <3>1
    <3>4. ASSUME NEW x \in 1 .. Len(u), NEW y \in 1 .. Len(u), u[x] = u[y] PROVE x = y
      <4>1. CASE x \in 1 .. Len(s) /\ y \in 1 .. Len(s)
        BY <2>3, <3>1, <3>4, <4>1
      <4>2. CASE x \notin 1 .. Len(s) \/ y \notin 1 .. Len(s)
        BY <2>1, <3>1, <3>2, <3>3, <3>4, <4>2
      <4> QED BY <4>1, <4>2
    <3>5. \A x \in 1 .. Len(u) : u[x] \in 1 .. (m + 1)
        BY <2>1, <3>1, <3>2, <3>3
    <3> QED BY <3>4, <3>5 DEF u
  <2>6. Once(t, m + 1)
    BY <2>2, <2>4, <2>5
  <2> QED BY <2>1, <2>6 DEF t
<1>8. 0 .. n \subseteq Q
  <2> HIDE DEF Q
  <2> QED BY <1>1, <1>6, <1>7, IntervalInduction
<1>9. f[n] \in Seq(1 .. n) /\ Once(f[n], n)
  <2> HIDE DEF Once
  <2>1. n \in 0 .. n
    BY <1>1
  <2> QED BY <1>5, <1>8, <2>1
<1>10. j \in 1 .. Len(f[n]) /\ k \in 1 .. Len(f[n]) /\ f[n][j] = f[n][k]
    BY <1>5, <1>9
<1> QED BY <1>9, <1>10

-------------------------------------------------------------------------------
(* Inter-reduction rewrites. *)

\* The polynomials of a basis, and their leading monomials as it has them.
PolyOf(b) == [i \in DOMAIN b |-> b[i].poly]

LtsOf(b) == [i \in DOMAIN b |-> b[i].lt]

LeadsRight(b) == \A i \in DOMAIN b : b[i].lt = Lead(b[i].poly)

\* No active element divides another.
Apart(b) ==
    \A i, j \in DOMAIN b : b[i].active /\ b[j].active /\ Divides(b[i].lt, b[j].lt) => i = j

\* The basis in an inter-reduction.
Full(b, w) ==
    [i \in DOMAIN b |->
        IF b[i].active
        THEN w.polys[CHOOSE k \in DOMAIN ActiveIndices(b) : ActiveIndices(b)[k] = i]
        ELSE b[i].poly]

(* The polynomial of an active element is at its place in the inter-reduction. *)
LEMMA FullIs ==
    ASSUME NEW b, b \in Seq(Range(b)), NEW w
    PROVE  /\ \A k \in DOMAIN ActiveIndices(b) :
                 /\ ActiveIndices(b)[k] \in DOMAIN b /\ b[ActiveIndices(b)[k]].active
                 /\ Full(b, w)[ActiveIndices(b)[k]] = w.polys[k]
           /\ \A i \in DOMAIN b : b[i].active => \E k \in DOMAIN ActiveIndices(b) : ActiveIndices(b)[k] = i
           /\ \A i \in DOMAIN b : ~b[i].active => Full(b, w)[i] = b[i].poly
<1> DEFINE idx == ActiveIndices(b)
<1>1. Range(idx) = {i \in DOMAIN b : b[i].active} /\ idx \in Seq(DOMAIN b)
    BY ActiveAre
<1>2. \A j, k \in DOMAIN idx : idx[j] = idx[k] => j = k
    BY ActiveOnce
<1>3. /\ \A k \in DOMAIN idx : idx[k] \in {i \in DOMAIN b : b[i].active}
      /\ \A i \in {j \in DOMAIN b : b[j].active} : \E k \in DOMAIN idx : idx[k] = i
    BY <1>1 DEF Range
<1>4. ASSUME NEW k \in DOMAIN idx PROVE Full(b, w)[idx[k]] = w.polys[k]
  <2> DEFINE i == idx[k]
             c == CHOOSE j \in DOMAIN idx : idx[j] = i
  <2>1. i \in DOMAIN b /\ b[i].active
    BY <1>3
  <2>2. c \in DOMAIN idx /\ idx[c] = i
    OBVIOUS
  <2>3. c = k
    BY <1>2, <2>2
  <2>4. Full(b, w)[i] = w.polys[c]
    BY <2>1 DEF Full
  <2> QED BY <2>3, <2>4
<1> HIDE DEF idx
<1>5. \A i \in DOMAIN b : ~b[i].active => Full(b, w)[i] = b[i].poly
    BY DEF Full
<1> QED BY <1>3, <1>4, <1>5 DEF idx

\* What an inter-reduction has rewritten.
Rewritten(b, d, S) ==
    {w \in OnItsWay(b, ActiveIndices(b), d, S) :
        Full(b, w) \in PolysFrom(DOMAIN b) /\ Rewrites(PolyOf(b), Full(b, w))}

(* The polynomials of a basis are none of them zero. *)
LEMMA PolyOfIs ==
    ASSUME NEW b, \A i \in DOMAIN b : IsElement(b[i])
    PROVE  PolyOf(b) \in PolysFrom(DOMAIN b) /\ \A i \in DOMAIN b : PolyOf(b)[i] = b[i].poly
BY DEF PolyOf, PolysFrom, Nonzero, IsElement

(* It starts with the basis. *)
LEMMA StartRewritten ==
    ASSUME Laws, PairLaws, inputs \in Seq(Polys), NEW b, NEW S \in SUBSET Polys, Follows(b, S),
           NEW d, Tracking => DepsOf(b, d)
    PROVE  Start(b, ActiveIndices(b), d) \in Rewritten(b, d, S)
<1> DEFINE idx == ActiveIndices(b)
           w == Start(b, idx, d)
<1>1. b \in Seq(Range(b)) /\ \A i \in DOMAIN b : IsElement(b[i])
    BY DEF Follows
<1>2. idx \in Seq(DOMAIN b)
    BY <1>1, ActiveAre
<1>3. w.polys = PolysAt(b, idx)
    BY DEF Start
<1> HIDE DEF w
<1>4. \A k \in DOMAIN idx : w.polys[k] = b[idx[k]].poly
    BY <1>1, <1>2, <1>3, PolysAre
<1>5. Full(b, w) = PolyOf(b)
  <2>1. ASSUME NEW i \in DOMAIN b PROVE Full(b, w)[i] = b[i].poly
    <3>1. CASE b[i].active
      <4>1. PICK k \in DOMAIN idx : idx[k] = i
        BY <1>1, <3>1, FullIs
      <4>2. Full(b, w)[idx[k]] = w.polys[k]
        BY <1>1, FullIs
      <4> QED BY <1>4, <4>1, <4>2
    <3>2. CASE ~b[i].active
      BY <1>1, <3>2, FullIs
    <3> QED BY <3>1, <3>2
  <2>2. Full(b, w) = [i \in DOMAIN b |-> Full(b, w)[i]]
    BY DEF Full
  <2> QED BY <2>1, <2>2 DEF PolyOf
<1>6. w \in OnItsWay(b, ActiveIndices(b), d, S)
    BY StartOnItsWay DEF w
<1>7. Full(b, w) \in PolysFrom(DOMAIN b) /\ Rewrites(PolyOf(b), Full(b, w))
    BY <1>1, <1>5, PolyOfIs, RewritesSame
<1> QED BY <1>6, <1>7 DEF Rewritten, w

(* Dividing an element by the others rewrites: their leading monomials are    *)
(* those of the basis, and none divides that of the element.                  *)
LEMMA RewrittenKept ==
    ASSUME Laws, PairLaws, inputs \in Seq(Polys), NEW b, NEW S \in SUBSET Polys, Follows(b, S),
           NEW d, Tracking => DepsOf(b, d), LeadsRight(b), Apart(b),
           NEW k \in DOMAIN ActiveIndices(b), NEW w \in Rewritten(b, d, S)
    PROVE  ReduceAt(ActiveIndices(b), w, k) \in Rewritten(b, d, S)
<1> DEFINE idx == ActiveIndices(b)
           o == ReduceAt(idx, w, k)
           others == Others(idx, w, k)
           D == [m \in DOMAIN others |-> w.polys[others[m]]]
           r == NormalForm(w.polys[k], D).nf
           I == DOMAIN b
           f == Full(b, w)
           i == idx[k]
           g == [f EXCEPT ![i] = r]
<1>1. b \in Seq(Range(b)) /\ \A j \in DOMAIN b : IsElement(b[j])
    BY DEF Follows
<1>2. idx \in Seq(DOMAIN b) /\ k \in DOMAIN idx
    BY <1>1, ActiveAre
<1>3. Tracking => DOMAIN b \subseteq DOMAIN d
    BY DEF DepsOf
<1>4. /\ w \in OnItsWay(b, idx, d, S) /\ w \in Reducing(idx, d)
      /\ f \in PolysFrom(I) /\ Rewrites(PolyOf(b), f)
    BY DEF Rewritten, OnItsWay
<1>5. o.polys = [w.polys EXCEPT ![k] = r]
    BY DEF ReduceAt
<1>6. /\ \A m \in DOMAIN idx : idx[m] \in I /\ b[idx[m]].active /\ f[idx[m]] = w.polys[m]
      /\ \A j \in I : b[j].active => \E m \in DOMAIN idx : idx[m] = j
      /\ \A j \in I : ~b[j].active => f[j] = b[j].poly
    BY <1>1, FullIs
<1>7. \A m, n \in DOMAIN idx : idx[m] = idx[n] => m = n
    BY <1>1, ActiveOnce
<1>8. /\ \A m \in DOMAIN idx : Full(b, o)[idx[m]] = o.polys[m]
      /\ \A j \in I : ~b[j].active => Full(b, o)[j] = b[j].poly
      /\ Full(b, o) = [j \in I |-> Full(b, o)[j]]
  <2> HIDE DEF o
  <2>1. Full(b, o) = [j \in I |-> Full(b, o)[j]]
    BY DEF Full
  <2> QED BY <1>1, <2>1, FullIs
<1>9. w.polys \in [DOMAIN idx -> Polys]
    BY <1>4 DEF Reducing
<1>10. o \in OnItsWay(b, idx, d, S)
  <2> HIDE DEF idx
  <2> QED BY <1>2, <1>3, <1>4, ReduceAtKeeps
<1> HIDE DEF o, idx, f
<1>11. /\ D \in Seq(Polys \ {Zero})
       /\ \A m \in DOMAIN others : others[m] \in DOMAIN idx /\ others[m] # k
    BY <1>2, <1>4, OthersAre
<1>12. DOMAIN D = DOMAIN others /\ \A m \in DOMAIN others : D[m] = w.polys[others[m]]
    OBVIOUS
<1> HIDE DEF others, D, i
<1>13. i \in I /\ b[i].active /\ f[i] = w.polys[k]
    BY <1>2, <1>6 DEF i
<1>14. \A j \in I : Lead(f[j]) = b[j].lt
    BY <1>1, <1>4, PolyOfIs DEF Rewrites, PolyOf, LeadsRight
<1>15. \A m \in DOMAIN D : (\E j \in I : j # i /\ D[m] = f[j]) /\ ~Divides(Lead(D[m]), Lead(f[i]))
  <2> SUFFICES ASSUME NEW m \in DOMAIN D
               PROVE  (\E j \in I : j # i /\ D[m] = f[j]) /\ ~Divides(Lead(D[m]), Lead(f[i]))
    OBVIOUS
  <2> DEFINE j == idx[others[m]]
  <2>1. others[m] \in DOMAIN idx /\ others[m] # k /\ D[m] = w.polys[others[m]]
    BY <1>11, <1>12
  <2>2. j \in I /\ b[j].active /\ D[m] = f[j] /\ j # i
    BY <1>2, <1>6, <1>7, <2>1 DEF i
  <2> HIDE DEF j
  <2>3. ~Divides(b[j].lt, b[i].lt)
    BY <1>13, <2>2 DEF Apart
  <2> QED BY <1>13, <1>14, <2>2, <2>3
<1>16. r = NormalForm(f[i], D).nf
    BY <1>13
<1>17. D \in Seq(Nonzero)
    BY <1>11 DEF Nonzero
<1> HIDE DEF I, r
<1>18. r # Zero /\ g \in PolysFrom(I) /\ Rewrites(f, g)
    BY <1>4, <1>13, <1>15, <1>16, <1>17, DividedRewrites
<1>19. Full(b, o) = g
  <2>1. DOMAIN f = I /\ g = [j \in I |-> IF j = i THEN r ELSE f[j]]
    BY <1>4 DEF PolysFrom
  <2> HIDE DEF g
  <2>2. ASSUME NEW j \in I PROVE Full(b, o)[j] = IF j = i THEN r ELSE f[j]
    <3>1. CASE ~b[j].active
        BY <1>6, <1>8, <1>13, <3>1
    <3>2. CASE b[j].active
      <4>1. PICK m \in DOMAIN idx : idx[m] = j
        BY <1>6, <3>2
      <4>2. o.polys[m] = IF m = k THEN r ELSE w.polys[m]
        BY <1>5, <1>9
      <4>3. m = k <=> j = i
        BY <1>2, <1>7, <4>1 DEF i
      <4>4. Full(b, o)[j] = o.polys[m] /\ f[j] = w.polys[m]
        BY <1>6, <1>8, <4>1
      <4> QED BY <4>2, <4>3, <4>4
    <3> QED BY <3>1, <3>2
  <2> QED BY <1>8, <2>1, <2>2
<1> HIDE DEF g
<1>20. PolyOf(b) \in PolysFrom(I)
    BY <1>1, PolyOfIs DEF I
<1>21. Full(b, o) \in PolysFrom(I) /\ Rewrites(PolyOf(b), Full(b, o))
    BY <1>4, <1>18, <1>19, <1>20, RewritesOn
<1> QED BY <1>10, <1>21 DEF Rewritten, I, o, idx

\* c has the elements of b, with other polynomials.
Alike(b, c) ==
    /\ DOMAIN c = DOMAIN b
    /\ \A i \in DOMAIN b : c[i].lt = b[i].lt /\ c[i].active = b[i].active

(* What is written back: the leading monomials and the flags stay.            *)
LEMMA WrittenBackRewrites ==
    ASSUME Laws, PairLaws, NEW b, NEW S \in SUBSET Polys, Follows(b, S), NEW d, NEW w \in Rewritten(b, d, S)
    PROVE  LET c == WrittenBack(b, ActiveIndices(b), w)
           IN  Alike(b, c) /\ PolyOf(c) \in PolysFrom(DOMAIN b) /\ Rewrites(PolyOf(b), PolyOf(c))
<1> DEFINE idx == ActiveIndices(b)
           c == WrittenBack(b, idx, w)
           f == Full(b, w)
           slot(i) == CHOOSE k \in DOMAIN idx : idx[k] = i
<1>1. b \in Seq(Range(b)) /\ \A j \in DOMAIN b : IsElement(b[j])
    BY DEF Follows
<1>2. f \in PolysFrom(DOMAIN b) /\ Rewrites(PolyOf(b), f)
    BY DEF Rewritten
<1>3. DOMAIN c = DOMAIN b
    BY DEF WrittenBack
<1>4. ASSUME NEW i \in DOMAIN b
      PROVE  /\ c[i].lt = b[i].lt /\ c[i].active = b[i].active
             /\ c[i].poly = f[i] \/ c[i].poly = Monic(f[i])
  <2> DEFINE x == b[i]  p == Monic(w.polys[slot(i)])
  <2>1. x = [poly |-> x.poly, lt |-> x.lt, active |-> x.active, sugar |-> x.sugar]
    BY <1>1 DEF IsElement
  <2>2. CASE ~b[i].active
    <3>1. c[i] = b[i]
      BY <2>2 DEF WrittenBack
    <3>2. f[i] = b[i].poly
      BY <1>1, <2>2, FullIs
    <3> QED BY <3>1, <3>2
  <2>3. CASE b[i].active
    <3>1. f[i] = w.polys[slot(i)]
      BY <2>3 DEF Full
    <3>2. f[i] # Zero
      BY <1>2, RangeIs DEF Nonzero
    <3>3. c[i] = [x EXCEPT !.poly = p]
      BY <2>3, <3>1, <3>2 DEF WrittenBack
    <3>4. p = Monic(f[i])
      BY <3>1
    <3> HIDE DEF p, x, c
    <3>5. c[i].poly = p /\ c[i].lt = x.lt /\ c[i].active = x.active
      BY <2>1, <3>3
    <3> QED BY <3>4, <3>5 DEF x
  <2> QED BY <2>2, <2>3
<1> HIDE DEF c, f
<1>5. PolyOf(c) = [i \in DOMAIN b |-> PolyOf(c)[i]] /\ \A i \in DOMAIN b : PolyOf(c)[i] = c[i].poly
    BY <1>3 DEF PolyOf
<1>6. PolyOf(c) \in PolysFrom(DOMAIN b) /\ Rewrites(f, PolyOf(c))
  <2> DEFINE g == PolyOf(c)
  <2>1. g = [i \in DOMAIN b |-> g[i]]
    BY <1>5
  <2>2. \A i \in DOMAIN b : g[i] = f[i] \/ g[i] = Monic(f[i])
    BY <1>4, <1>5
  <2> HIDE DEF g
  <2>3. g \in PolysFrom(DOMAIN b) /\ Rewrites(f, g)
    BY <1>2, <2>1, <2>2, MonicRewrites
  <2> QED BY <2>3 DEF g
<1>7. Rewrites(PolyOf(b), PolyOf(c))
    BY <1>1, <1>2, <1>6, PolyOfIs, RewritesOn
<1>8. Alike(b, c)
    BY <1>3, <1>4 DEF Alike
<1> QED BY <1>6, <1>7, <1>8 DEF c

(* Inter-reduction, done or not, rewrites the polynomials and nothing else.   *)
LEMMA TailReducedRewrites ==
    ASSUME Laws, PairLaws, inputs \in Seq(Polys), NEW b, NEW S \in SUBSET Polys, Follows(b, S),
           NEW d, Tracking => DepsOf(b, d), LeadsRight(b), Apart(b)
    PROVE  LET c == TailReduced(b, d).basis
           IN  Alike(b, c) /\ PolyOf(c) \in PolysFrom(DOMAIN b) /\ Rewrites(PolyOf(b), PolyOf(c))
<1> DEFINE idx == ActiveIndices(b)
           W == Rewritten(b, d, S)
           r == TailReduced(b, d)
<1>1. b \in Seq(Range(b)) /\ \A j \in DOMAIN b : IsElement(b[j])
    BY DEF Follows
<1>2. idx \in Seq(DOMAIN b)
    BY <1>1, ActiveAre
<1>3. \A k \in DOMAIN idx : \A w \in W : ReduceAt(idx, w, k) \in W
    BY RewrittenKept
<1>4. Start(b, idx, d) \in W
    BY StartRewritten
<1> HIDE DEF W
<1>5. \/ r = [basis |-> b, deps |-> d]
      \/ \E w \in W : r = [basis |-> WrittenBack(b, idx, w), deps |-> w.deps]
    BY <1>2, <1>3, <1>4, TailReducedUnrolls
<1> HIDE DEF r
<1>6. CASE r.basis = b
  <2>1. Alike(b, b)
    BY DEF Alike
  <2>2. PolyOf(b) \in PolysFrom(DOMAIN b) /\ Rewrites(PolyOf(b), PolyOf(b))
    BY <1>1, PolyOfIs, RewritesSame
  <2> QED BY <1>6, <2>1, <2>2 DEF r
<1>7. ASSUME NEW w \in W, r.basis = WrittenBack(b, idx, w)
      PROVE  Alike(b, r.basis) /\ PolyOf(r.basis) \in PolysFrom(DOMAIN b) /\ Rewrites(PolyOf(b), PolyOf(r.basis))
  <2>1. w \in Rewritten(b, d, S)
    BY DEF W
  <2> QED BY <1>7, <2>1, WrittenBackRewrites
<1>8. r.basis = b \/ \E w \in W : r.basis = WrittenBack(b, idx, w)
    BY <1>5
<1> QED BY <1>6, <1>7, <1>8 DEF r

-------------------------------------------------------------------------------
(* A level that is complete: every pair of elements is accounted for. *)

\* The elements i and j are joined where they meet.
Joins(b, i, j) == Joined(b[i].poly, b[j].poly, Meet(LtsOf(b), i, j), Range(PolyOf(b)))

\* Or wait to be.
Handled(b, queue, i, j) == Joins(b, i, j) \/ \E p \in queue : p.i = i /\ p.j = j

Edges(b, queue) == {e \in (DOMAIN b) \X (DOMAIN b) : Handled(b, queue, e[1], e[2])}

\* Every element is a multiple of an active one.
Covered(b) ==
    \A i \in DOMAIN b : \E s \in DOMAIN b : b[s].active /\ Divides(b[s].lt, b[i].lt)

\* Pairs have the monomial at which they meet.
Meets(b, queue) == \A p \in queue : p.lcm = Meet(LtsOf(b), p.i, p.j)

Complete(b, queue) ==
    /\ LeadsRight(b) /\ Apart(b) /\ Covered(b) /\ Meets(b, queue)
    /\ Accounted(LtsOf(b), Edges(b, queue))

\* The basis generates t.
Generates(b, t) == \A k \in DOMAIN t : Member(t[k], Range(PolyOf(b)))

(* Edges are pairs that are handled. *)
LEMMA EdgeIs ==
    ASSUME NEW b, NEW queue, NEW i \in DOMAIN b, NEW j \in DOMAIN b
    PROVE  <<i, j>> \in Edges(b, queue) <=> Handled(b, queue, i, j)
<1> DEFINE I == DOMAIN b
           e == <<i, j>>
<1>1. Edges(b, queue) = {x \in I \X I : Handled(b, queue, x[1], x[2])} /\ i \in I /\ j \in I
    BY DEF Edges
<1> HIDE DEF I
<1>2. e \in I \X I /\ e[1] = i /\ e[2] = j
    BY <1>1
<1> HIDE DEF e
<1>3. e \in Edges(b, queue) <=> Handled(b, queue, e[1], e[2])
    BY <1>1, <1>2
<1> QED BY <1>2, <1>3 DEF e

(* The monomials of a basis are the leading ones of its polynomials. *)
LEMMA LtsAre ==
    ASSUME Laws, NEW b, \A i \in DOMAIN b : IsElement(b[i]), LeadsRight(b)
    PROVE  /\ Leading(LtsOf(b)) /\ DOMAIN LtsOf(b) = DOMAIN b
           /\ \A i \in DOMAIN b : LtsOf(b)[i] = b[i].lt /\ b[i].lt \in Monomial /\ b[i].lt = Lead(PolyOf(b)[i])
           /\ \A i, j \in DOMAIN b : Meet(LtsOf(b), i, j) \in Monomial
           /\ \A i, j \in DOMAIN b : \A t \in {Meet(LtsOf(b), i, j), Meet(LtsOf(b), j, i)} :
                 b[i].poly \in Under(t)
<1>1. DOMAIN LtsOf(b) = DOMAIN b /\ \A i \in DOMAIN b : LtsOf(b)[i] = b[i].lt
    BY DEF LtsOf
<1>2. \A i \in DOMAIN b : b[i].poly \in Nonzero /\ b[i].lt = Lead(b[i].poly) /\ b[i].lt = Lead(PolyOf(b)[i])
    BY DEF IsElement, Nonzero, LeadsRight, PolyOf
<1>3. \A i \in DOMAIN b : b[i].lt \in Monomial
    BY <1>2, LeadIs
<1>4. Leading(LtsOf(b))
    BY <1>1, <1>3 DEF Leading
<1>5. ASSUME NEW i \in DOMAIN b, NEW j \in DOMAIN b
      PROVE  /\ Meet(LtsOf(b), i, j) \in Monomial
             /\ \A t \in {Meet(LtsOf(b), i, j), Meet(LtsOf(b), j, i)} : b[i].poly \in Under(t)
  <2> DEFINE lt == LtsOf(b)
  <2>1. i \in DOMAIN lt /\ j \in DOMAIN lt /\ lt[i] = b[i].lt
    BY <1>1
  <2> HIDE DEF lt
  <2>2. Leading(lt)
    BY <1>4 DEF lt
  <2>3. /\ Meet(lt, i, j) \in Monomial /\ Meet(lt, i, j) = Meet(lt, j, i)
        /\ i \in Below(lt, Meet(lt, i, j))
    BY <2>1, <2>2, MeetIs
  <2>4. Divides(b[i].lt, Meet(lt, i, j))
    BY <2>1, <2>3 DEF Below
  <2>5. b[i].poly \in Under(Meet(lt, i, j))
    BY <1>2, <2>4 DEF Under
  <2> QED BY <2>3, <2>5 DEF lt
<1> QED BY <1>1, <1>2, <1>3, <1>4, <1>5

(* Pairs that are handled stay accounted for when their handling changes. *)
LEMMA HandledMore ==
    ASSUME NEW b, NEW queue, Accounted(LtsOf(b), Edges(b, queue)),
           NEW c, LtsOf(c) = LtsOf(b), DOMAIN c = DOMAIN b, NEW q,
           \A i, j \in DOMAIN b : Handled(b, queue, i, j) => Handled(c, q, i, j)
    PROVE  Accounted(LtsOf(c), Edges(c, q))
<1>1. DOMAIN LtsOf(b) = DOMAIN b
    BY DEF LtsOf
<1>2. \A i, j \in DOMAIN LtsOf(b) : <<i, j>> \in Edges(b, queue) => <<i, j>> \in Edges(c, q)
    BY <1>1, EdgeIs
<1> QED BY <1>2, AccountedMore

(* Inter-reduction keeps a level complete. *)
LEMMA CompleteRewritten ==
    ASSUME Laws, PairLaws, NEW b, \A i \in DOMAIN b : IsElement(b[i]),
           NEW c, Alike(b, c), PolyOf(c) \in PolysFrom(DOMAIN b), Rewrites(PolyOf(b), PolyOf(c)),
           NEW queue, Complete(b, queue)
    PROVE  Complete(c, queue) /\ \A t \in Seq(Polys) : Generates(b, t) => Generates(c, t)
<1> DEFINE f == PolyOf(b)  g == PolyOf(c)  I == DOMAIN b
<1>1. /\ LeadsRight(b) /\ Apart(b) /\ Covered(b) /\ Meets(b, queue)
      /\ Accounted(LtsOf(b), Edges(b, queue))
    BY DEF Complete
<1>2. DOMAIN c = I /\ \A i \in I : c[i].lt = b[i].lt /\ c[i].active = b[i].active
    BY DEF Alike
<1>3. LtsOf(c) = LtsOf(b)
    BY <1>2 DEF LtsOf
<1>4. /\ f \in PolysFrom(I) /\ g \in PolysFrom(I) /\ Rewrites(f, g)
      /\ \A i \in I : f[i] = b[i].poly /\ g[i] = c[i].poly
    BY <1>2, PolyOfIs DEF PolyOf
<1>5. LeadsRight(c)
    BY <1>1, <1>2, <1>4 DEF LeadsRight, Rewrites, PolysFrom
<1>6. Apart(c)
    BY <1>1, <1>2 DEF Apart
<1>7. Covered(c)
    BY <1>1, <1>2 DEF Covered
<1>8. Meets(c, queue)
    BY <1>1, <1>3 DEF Meets
<1> HIDE DEF f, g
<1>9. ASSUME NEW i \in I, NEW j \in I, Handled(b, queue, i, j) PROVE Handled(c, queue, i, j)
  <2>1. CASE Joins(b, i, j)
    <3> DEFINE t == Meet(LtsOf(b), i, j)
    <3>1. t \in Monomial /\ f[i] \in Under(t) /\ f[j] \in Under(t)
        BY <1>1, <1>4, LtsAre
    <3>2. Joined(f[i], f[j], t, Range(f))
        BY <1>4, <2>1 DEF Joins, f
    <3> HIDE DEF t
    <3>3. Joined(g[i], g[j], t, Range(g))
        BY <1>4, <3>1, <3>2, RewritesJoins
    <3>4. Joins(c, i, j)
        BY <1>3, <1>4, <3>3 DEF Joins, t, g
    <3> QED BY <3>4 DEF Handled
  <2>2. CASE ~Joins(b, i, j)
    BY <1>9, <2>2 DEF Handled
  <2> QED BY <2>1, <2>2
<1>10. Accounted(LtsOf(c), Edges(c, queue))
    BY <1>1, <1>2, <1>3, <1>9, HandledMore
<1>11. ASSUME NEW t \in Seq(Polys), Generates(b, t) PROVE Generates(c, t)
  <2>1. ASSUME NEW k \in DOMAIN t PROVE Member(t[k], Range(g))
    <3>1. t[k] \in Polys /\ Member(t[k], Range(f))
        BY <1>11 DEF Generates, f
    <3> QED BY <1>4, <3>1, RewritesIdeal
  <2> QED BY <2>1 DEF Generates, g
<1> QED BY <1>5, <1>6, <1>7, <1>8, <1>10, <1>11 DEF Complete

(* A pair that is joined may leave the queue. *)
LEMMA CompleteRest ==
    ASSUME NEW b, NEW queue, Complete(b, queue), NEW p \in queue, Joins(b, p.i, p.j)
    PROVE  Complete(b, queue \ {p})
<1>1. /\ LeadsRight(b) /\ Apart(b) /\ Covered(b) /\ Meets(b, queue)
      /\ Accounted(LtsOf(b), Edges(b, queue))
    BY DEF Complete
<1>2. Meets(b, queue \ {p})
    BY <1>1 DEF Meets
<1>3. \A i, j \in DOMAIN b : Handled(b, queue, i, j) => Handled(b, queue \ {p}, i, j)
    BY DEF Handled
<1>4. Accounted(LtsOf(b), Edges(b, queue \ {p}))
    BY <1>1, <1>3, HandledMore
<1> QED BY <1>1, <1>2, <1>4 DEF Complete

\* c has one element more than b, active and of the polynomial f; those that it divides are put aside.
Enlarged(c, b, f) ==
    /\ DOMAIN c = DOMAIN b \cup {Len(b) + 1} /\ Len(b) + 1 \notin DOMAIN b
    /\ \A i \in DOMAIN b : c[i].poly = b[i].poly /\ c[i].lt = b[i].lt
    /\ \A i \in DOMAIN b : c[i].active <=> b[i].active /\ ~Divides(Lead(f), b[i].lt)
    /\ c[Len(b) + 1].poly = f /\ c[Len(b) + 1].lt = Lead(f) /\ c[Len(b) + 1].active

(* The basis with a new element. *)
LEMMA BasisWithEnlarged ==
    ASSUME NEW S, Follows(basis, S), NEW f, NEW sugar
    PROVE  Enlarged(BasisWith(f, sugar), basis, f)
<1> DEFINE off(k) == basis[k].active /\ ~Divides(Lead(f), basis[k].lt)
           b == [k \in DOMAIN basis |-> [basis[k] EXCEPT !.active = off(k)]]
           e == Element(f, sugar)
<1>1. ASSUME NEW k \in DOMAIN basis
      PROVE  b[k].poly = basis[k].poly /\ b[k].lt = basis[k].lt /\ (b[k].active <=> off(k))
  <2>1. IsElement(basis[k])
    BY DEF Follows
  <2> DEFINE x == basis[k]
  <2>2. b[k] = [x EXCEPT !.active = off(k)]
    OBVIOUS
  <2>3. x = [poly |-> x.poly, lt |-> x.lt, active |-> x.active, sugar |-> x.sugar]
    BY <2>1 DEF IsElement
  <2> HIDE DEF off, x, b
  <2>4. b[k] = [poly |-> x.poly, lt |-> x.lt, active |-> off(k), sugar |-> x.sugar]
    BY <2>2, <2>3
  <2> QED BY <2>4 DEF x
<1>2. b = [k \in DOMAIN basis |-> b[k]]
    OBVIOUS
<1>3. BasisWith(f, sugar) = Append(b, e)
    BY DEF BasisWith
<1>4. e.poly = f /\ e.lt = Lead(f) /\ e.active
    BY DEF Element
<1> HIDE DEF b, e
<1>5. Len(basis) \in Nat /\ DOMAIN basis = 1 .. Len(basis)
    BY DEF Follows
<1>6. b \in Seq(Range(b)) /\ DOMAIN b = DOMAIN basis
  <2>1. b \in [1 .. Len(basis) -> Range(b)]
    BY <1>2, <1>5 DEF Range
  <2> QED BY <1>5, <2>1
<1>7. Len(b) = Len(basis)
  <2>1. Len(b) \in Nat /\ DOMAIN b = 1 .. Len(b)
    BY <1>6
  <2> QED BY <1>5, <1>6, <2>1, SameLength
<1>8. /\ DOMAIN Append(b, e) = DOMAIN b \cup {Len(b) + 1} /\ Append(b, e)[Len(b) + 1] = e
      /\ Len(b) + 1 \notin DOMAIN b /\ \A i \in DOMAIN b : Append(b, e)[i] = b[i]
    BY <1>6, OneMore
<1> DEFINE c == Append(b, e)
<1> HIDE DEF c
<1>9. Enlarged(c, basis, f)
  <2>1. /\ DOMAIN c = DOMAIN basis \cup {Len(basis) + 1} /\ c[Len(basis) + 1] = e
        /\ Len(basis) + 1 \notin DOMAIN basis /\ \A i \in DOMAIN basis : c[i] = b[i]
    BY <1>6, <1>7, <1>8 DEF c
  <2>2. \A i \in DOMAIN basis : c[i].poly = basis[i].poly /\ c[i].lt = basis[i].lt
    BY <1>1, <2>1
  <2>3. \A i \in DOMAIN basis : c[i].active <=> basis[i].active /\ ~Divides(Lead(f), basis[i].lt)
    BY <1>1, <2>1
  <2> QED BY <1>4, <2>1, <2>2, <2>3 DEF Enlarged
<1> QED BY <1>3, <1>9 DEF c

\* What is known of a basis before its new element, which no active element divides.
Growing(c, b, f) ==
    /\ \A i \in DOMAIN b : IsElement(b[i])
    /\ f \in Nonzero /\ Enlarged(c, b, f)
    /\ \A i \in DOMAIN b : b[i].active => ~Divides(b[i].lt, Lead(f))

(* The polynomials and monomials of the enlarged basis. *)
LEMMA EnlargedIs ==
    ASSUME Laws, NEW b, NEW c, NEW f, Growing(c, b, f), LeadsRight(b)
    PROVE  /\ LeadsRight(c) /\ Leading(LtsOf(c)) /\ Extends(LtsOf(c), LtsOf(b), Len(b) + 1)
           /\ DOMAIN LtsOf(b) = DOMAIN b /\ DOMAIN LtsOf(c) = DOMAIN c
           /\ \A i \in DOMAIN b : LtsOf(c)[i] = b[i].lt /\ b[i].lt \in Monomial
           /\ LtsOf(c)[Len(b) + 1] = Lead(f) /\ Lead(f) \in Monomial
           /\ Range(PolyOf(c)) \in SUBSET Nonzero /\ Range(PolyOf(b)) \in SUBSET Range(PolyOf(c))
           /\ f \in Range(PolyOf(c))
           /\ \A i \in DOMAIN b : b[i].poly \in Range(PolyOf(c))
           /\ \A i \in DOMAIN c : c[i].poly \in Nonzero
<1> DEFINE n == Len(b) + 1
<1>1. /\ DOMAIN c = DOMAIN b \cup {n} /\ n \notin DOMAIN b
      /\ \A i \in DOMAIN b : c[i].poly = b[i].poly /\ c[i].lt = b[i].lt
      /\ c[n].poly = f /\ c[n].lt = Lead(f) /\ f \in Nonzero
      /\ \A i \in DOMAIN b : b[i].poly \in Nonzero
    BY DEF Growing, Enlarged, IsElement, Nonzero
<1> HIDE DEF n
<1>2. /\ LtsOf(b) = [i \in DOMAIN b |-> b[i].lt] /\ LtsOf(c) = [i \in DOMAIN c |-> c[i].lt]
      /\ PolyOf(b) = [i \in DOMAIN b |-> b[i].poly] /\ PolyOf(c) = [i \in DOMAIN c |-> c[i].poly]
    BY DEF LtsOf, PolyOf
<1>3. LeadsRight(c)
    BY <1>1 DEF LeadsRight
<1>4. Extends(LtsOf(c), LtsOf(b), n)
    BY <1>1, <1>2 DEF Extends
<1>5. \A i \in DOMAIN c : c[i].poly \in Nonzero
    BY <1>1
<1>6. \A i \in DOMAIN c : c[i].lt \in Monomial
    BY <1>3, <1>5, LeadIs DEF LeadsRight
<1>7. Leading(LtsOf(c))
    BY <1>2, <1>6 DEF Leading
<1>8. /\ Range(PolyOf(c)) \in SUBSET Nonzero /\ f \in Range(PolyOf(c))
      /\ \A i \in DOMAIN b : b[i].poly \in Range(PolyOf(c))
  <2>1. PolyOf(c) \in PolysFrom(DOMAIN c) /\ \A i \in DOMAIN c : PolyOf(c)[i] = c[i].poly
    BY <1>2, <1>5 DEF PolysFrom
  <2>2. Range(PolyOf(c)) \in SUBSET Nonzero /\ \A i \in DOMAIN c : c[i].poly \in Range(PolyOf(c))
    BY <2>1, RangeIs
  <2> QED BY <1>1, <2>2
<1>9. Range(PolyOf(b)) \in SUBSET Range(PolyOf(c))
    BY <1>2, <1>8 DEF Range
<1>10. /\ DOMAIN LtsOf(b) = DOMAIN b /\ DOMAIN LtsOf(c) = DOMAIN c
       /\ \A i \in DOMAIN b : LtsOf(c)[i] = b[i].lt /\ b[i].lt \in Monomial
       /\ LtsOf(c)[n] = Lead(f) /\ Lead(f) \in Monomial
    BY <1>1, <1>2, <1>6
<1> QED BY <1>3, <1>4, <1>5, <1>7, <1>8, <1>9, <1>10 DEF n

(* No active element divides another, and each element is a multiple of one.  *)
LEMMA EnlargedSpread ==
    ASSUME Laws, NEW b, NEW c, NEW f, Growing(c, b, f), LeadsRight(b), Apart(b), Covered(b)
    PROVE  Apart(c) /\ Covered(c)
<1> DEFINE n == Len(b) + 1
<1>1. /\ DOMAIN c = DOMAIN b \cup {n}
      /\ \A i \in DOMAIN b : c[i].lt = b[i].lt
      /\ \A i \in DOMAIN b : c[i].active <=> b[i].active /\ ~Divides(Lead(f), b[i].lt)
      /\ c[n].lt = Lead(f) /\ c[n].active
      /\ \A i \in DOMAIN b : b[i].active => ~Divides(b[i].lt, Lead(f))
    BY DEF Growing, Enlarged
<1>2. Lead(f) \in Monomial /\ \A i \in DOMAIN b : b[i].lt \in Monomial
    BY EnlargedIs
<1> HIDE DEF n
<1>3. ASSUME NEW i \in DOMAIN c, NEW j \in DOMAIN c, c[i].active, c[j].active, Divides(c[i].lt, c[j].lt)
      PROVE  i = j
  <2>1. CASE i \in DOMAIN b /\ j \in DOMAIN b
    BY <1>1, <1>3, <2>1 DEF Apart
  <2>2. CASE i = n \/ j = n
    BY <1>1, <1>3, <2>2
  <2> QED BY <1>1, <2>1, <2>2
<1>4. Apart(c)
    BY <1>3 DEF Apart
<1>5. ASSUME NEW i \in DOMAIN c PROVE \E s \in DOMAIN c : c[s].active /\ Divides(c[s].lt, c[i].lt)
  <2>1. CASE i = n
    BY <1>1, <1>2, <2>1, DividesIs
  <2>2. CASE i \in DOMAIN b
    <3>1. PICK s \in DOMAIN b : b[s].active /\ Divides(b[s].lt, b[i].lt)
        BY <2>2 DEF Covered
    <3>2. CASE Divides(Lead(f), b[s].lt)
        BY <1>1, <1>2, <2>2, <3>1, <3>2, DividesIs
    <3>3. CASE ~Divides(Lead(f), b[s].lt)
        BY <1>1, <2>2, <3>1, <3>3
    <3> QED BY <3>2, <3>3
  <2> QED BY <1>1, <2>1, <2>2
<1>6. Covered(c)
    BY <1>5 DEF Covered
<1> QED BY <1>4, <1>6

(* The pairs of the enlarged basis have the monomials at which they meet.     *)
LEMMA EnlargedMeets ==
    ASSUME Laws, NEW c, NEW f, Growing(c, basis, f), LeadsRight(basis), NEW queue, Meets(basis, queue),
           Paired(queue, basis), NEW sugar
    PROVE  Meets(c, OpenWith(queue, Lead(f), sugar))
<1> DEFINE n == Len(basis) + 1  u == LtsOf(c)  lt == LtsOf(basis)
<1>1. /\ DOMAIN lt = DOMAIN basis /\ \A i \in DOMAIN basis : u[i] = basis[i].lt /\ basis[i].lt \in Monomial
      /\ u[n] = Lead(f) /\ Lead(f) \in Monomial /\ \A i \in DOMAIN basis : u[i] = lt[i]
  <2>1. /\ DOMAIN lt = DOMAIN basis /\ \A i \in DOMAIN basis : u[i] = basis[i].lt /\ basis[i].lt \in Monomial
        /\ u[n] = Lead(f) /\ Lead(f) \in Monomial
    BY EnlargedIs
  <2>2. \A i \in DOMAIN basis : lt[i] = basis[i].lt
    BY DEF LtsOf
  <2> HIDE DEF u, lt
  <2> QED BY <2>1, <2>2
<1> HIDE DEF u, lt, n
<1>2. SUFFICES ASSUME NEW p \in OpenWith(queue, Lead(f), sugar) PROVE p.lcm = Meet(u, p.i, p.j)
    BY DEF Meets, u
<1>3. CASE p \in queue
    BY <1>1, <1>3 DEF Meets, Paired, Meet, lt
<1>4. CASE p \notin queue
  <2>1. p \in {NewPair(k, Lead(f), sugar) : k \in Partners(Lead(f))}
    BY <1>2, <1>4 DEF OpenWith, Undominated
  <2>2. PICK k \in Partners(Lead(f)) : p = NewPair(k, Lead(f), sugar)
    BY <2>1
  <2>3. p.i = k /\ p.j = n /\ p.lcm = Lcm(Lead(f), basis[k].lt) /\ k \in DOMAIN basis
    BY <2>2 DEF NewPair, Partners, n
  <2>4. Meet(u, k, n) = Lcm(basis[k].lt, Lead(f))
    BY <1>1, <2>3 DEF Meet
  <2>5. Lcm(basis[k].lt, Lead(f)) = Lcm(Lead(f), basis[k].lt)
    BY <1>1, <2>3, LcmIs
  <2> QED BY <2>3, <2>4, <2>5
<1> QED BY <1>3, <1>4

(* Among the partners whose pair meets where that of k does or before, one    *)
(* stays: the first of the least degree.                                      *)
LEMMA PartnerStays ==
    ASSUME NEW l \in Monomial, \A i \in DOMAIN basis : basis[i].lt \in Monomial, DOMAIN basis \subseteq Nat,
           NEW sugar, NEW k \in Partners(l)
    PROVE  \E q \in Partners(l) :
              /\ Divides(Lcm(l, basis[q].lt), Lcm(l, basis[k].lt))
              /\ NewPair(q, l, sugar) \in Undominated({NewPair(m, l, sugar) : m \in Partners(l)})
<1> DEFINE P == Partners(l)
           at(q) == Lcm(l, basis[q].lt)
           Q == {q \in P : Divides(at(q), at(k))}
           Degs == {d \in Nat : \E q \in Q : Degree(at(q)) = d}
<1>1. \A q \in P : q \in DOMAIN basis /\ q \in Nat /\ at(q) \in Monomial
    BY LcmIs DEF Partners
<1>2. k \in P /\ Q \subseteq P
    OBVIOUS
<1> HIDE DEF P, at
<1>3. \A q \in P : Degree(at(q)) \in Nat
    BY <1>1, DegreeIs
<1>4. k \in Q
    BY <1>1, <1>2, DividesIs
<1>5. Degs \in SUBSET Nat /\ Degs # {}
    BY <1>3, <1>2, <1>4
<1>6. PICK d \in Degs : \A e \in Degs : d <= e
    BY <1>5, LeastNumber
<1> DEFINE R == {q \in Q : Degree(at(q)) = d}
<1>7. R \in SUBSET Nat /\ R # {}
    BY <1>1, <1>2, <1>6
<1>8. PICK q \in R : \A r \in R : q <= r
  <2> HIDE DEF R
  <2> QED BY <1>7, LeastNumber
<1>9. q \in P /\ q \in Q /\ Divides(at(q), at(k)) /\ Degree(at(q)) = d
    BY <1>2, <1>8
<1>10. ASSUME NEW r \in P, Divides(at(r), at(q)) PROVE at(r) = at(q) /\ q <= r
  <2>1. Divides(at(r), at(k))
    BY <1>1, <1>2, <1>9, <1>10, DividesIs
  <2>2. r \in Q /\ Degree(at(r)) \in Degs
    BY <1>3, <2>1
  <2>3. Degree(at(r)) <= Degree(at(q)) /\ (Degree(at(r)) = Degree(at(q)) => at(r) = at(q))
    BY <1>1, <1>9, <1>10, DegreeIs
  <2>4. d <= Degree(at(r)) /\ Degree(at(r)) \in Nat /\ d \in Nat
    BY <1>3, <1>6, <2>2
  <2>5. Degree(at(r)) = d
    BY <1>9, <2>3, <2>4
  <2> QED BY <1>8, <1>9, <2>2, <2>3, <2>5
<1>11. \A r \in P : NewPair(r, l, sugar).i = r /\ NewPair(r, l, sugar).lcm = at(r)
    BY DEF NewPair, at
<1>12. NewPair(q, l, sugar) \in Undominated({NewPair(m, l, sugar) : m \in P})
  <2> DEFINE all == {NewPair(m, l, sugar) : m \in P}
             x == NewPair(q, l, sugar)
  <2>1. x \in all
    BY <1>9
  <2>2. ASSUME NEW y \in all, Divides(y.lcm, x.lcm) PROVE y.lcm = x.lcm /\ x.i <= y.i
    <3>1. PICK r \in P : y = NewPair(r, l, sugar)
        OBVIOUS
    <3>2. y.i = r /\ y.lcm = at(r) /\ x.i = q /\ x.lcm = at(q)
        BY <1>9, <1>11, <3>1
    <3> QED BY <1>10, <2>2, <3>2
  <2> HIDE DEF all, x
  <2>3. x \in Undominated(all)
    BY <2>1, <2>2 DEF Undominated
  <2> QED BY <2>3 DEF all, x
<1> QED BY <1>9, <1>12 DEF P, at

(* What was handled before a new element still is, or the chain criterion     *)
(* dropped it.                                                                *)
LEMMA OldHandled ==
    ASSUME Laws, PairLaws, NEW c, NEW f, Growing(c, basis, f), LeadsRight(basis),
           Meets(basis, open), NEW queue \in SUBSET open, Paired(open, basis), NEW sugar,
           \A p \in open \ queue :
              Joined(basis[p.i].poly, basis[p.j].poly, Meet(LtsOf(basis), p.i, p.j), Range(PolyOf(c))),
           NEW i \in DOMAIN basis, NEW j \in DOMAIN basis, Handled(basis, open, i, j)
    PROVE  Handled(c, OpenWith(queue, Lead(f), sugar), i, j) \/ Bridged(LtsOf(c), i, j, Len(basis) + 1)
<1> DEFINE n == Len(basis) + 1  u == LtsOf(c)  lt == LtsOf(basis)  t == Meet(lt, i, j)
<1>1. /\ \A k \in DOMAIN basis : IsElement(basis[k])
      /\ c[i].poly = basis[i].poly /\ c[j].poly = basis[j].poly
      /\ DOMAIN c = DOMAIN basis \cup {n}
    BY DEF Growing, Enlarged
<1>2. /\ \A k \in DOMAIN basis : u[k] = basis[k].lt /\ basis[k].lt \in Monomial
      /\ u[n] = Lead(f) /\ Lead(f) \in Monomial /\ DOMAIN u = DOMAIN c
      /\ Range(PolyOf(c)) \in SUBSET Nonzero /\ Range(PolyOf(basis)) \in SUBSET Range(PolyOf(c))
    BY EnlargedIs
<1>3. \A k \in DOMAIN basis : lt[k] = basis[k].lt
    BY DEF LtsOf
<1>4. Meet(u, i, j) = t
    BY <1>2, <1>3 DEF Meet
<1>5. t \in Monomial /\ basis[i].poly \in Under(t) /\ basis[j].poly \in Under(t)
    BY <1>1, LtsAre
<1> HIDE DEF n, u, lt
<1>6. CASE Joins(basis, i, j)
  <2>1. Joined(basis[i].poly, basis[j].poly, t, Range(PolyOf(basis)))
    BY <1>6 DEF Joins, lt
  <2>2. Joined(basis[i].poly, basis[j].poly, t, Range(PolyOf(c)))
    BY <1>2, <1>5, <2>1, JoinedMore
  <2>3. Joins(c, i, j)
    BY <1>1, <1>4, <2>2 DEF Joins, u
  <2> QED BY <2>3 DEF Handled
<1>7. CASE ~Joins(basis, i, j)
  <2>1. PICK p \in open : p.i = i /\ p.j = j
    BY <1>7 DEF Handled
  <2>2. CASE p \notin queue
    <3>1. Joined(basis[i].poly, basis[j].poly, t, Range(PolyOf(c)))
        BY <2>1, <2>2 DEF lt
    <3>2. Joins(c, i, j)
        BY <1>1, <1>4, <3>1 DEF Joins, u
    <3> QED BY <3>2 DEF Handled
  <2>3. CASE p \in queue /\ ~Killed(p, Lead(f))
    BY <2>1, <2>3 DEF Handled, OpenWith
  <2>4. CASE Killed(p, Lead(f))
    <3>1. p.lcm = t
        BY <2>1 DEF Meets, lt
    <3>2. /\ Divides(Lead(f), t) /\ Lcm(basis[j].lt, Lead(f)) # t /\ Lcm(basis[i].lt, Lead(f)) # t
        BY <2>1, <2>4, <3>1 DEF Killed
    <3>3. n \in Below(u, Meet(u, i, j))
        BY <1>1, <1>2, <1>4, <3>2 DEF Below
    <3>4. Meet(u, i, n) # Meet(u, i, j) /\ Meet(u, j, n) # Meet(u, i, j)
        BY <1>2, <1>4, <3>2 DEF Meet
    <3>5. Bridged(u, i, j, n)
        BY <3>3, <3>4 DEF Bridged
    <3> QED BY <3>5 DEF u, n
  <2> QED BY <2>2, <2>3, <2>4
<1> QED BY <1>6, <1>7

(* An active element meets the new one where another does or after it that    *)
(* is coprime to it or waits with it.                                         *)
LEMMA NewHandled ==
    ASSUME Laws, PairLaws, NEW c, NEW f, Growing(c, basis, f), LeadsRight(basis), DOMAIN basis \subseteq Nat,
           NEW queue, NEW sugar, NEW k \in DOMAIN basis, basis[k].active
    PROVE  \E q \in DOMAIN basis :
              /\ basis[q].active /\ Handled(c, OpenWith(queue, Lead(f), sugar), q, Len(basis) + 1)
              /\ Divides(Meet(LtsOf(c), q, Len(basis) + 1), Meet(LtsOf(c), k, Len(basis) + 1))
<1> DEFINE n == Len(basis) + 1  u == LtsOf(c)  l == Lead(f)
<1>1. /\ \A i \in DOMAIN basis : IsElement(basis[i]) /\ c[i].poly = basis[i].poly
      /\ DOMAIN c = DOMAIN basis \cup {n} /\ c[n].poly = f /\ f \in Nonzero
    BY DEF Growing, Enlarged
<1>2. /\ \A i \in DOMAIN basis : u[i] = basis[i].lt /\ basis[i].lt \in Monomial
      /\ u[n] = l /\ l \in Monomial /\ DOMAIN u = DOMAIN c /\ Leading(u)
      /\ Range(PolyOf(c)) \in SUBSET Nonzero /\ f \in Range(PolyOf(c))
      /\ \A i \in DOMAIN basis : basis[i].poly \in Range(PolyOf(c))
    BY EnlargedIs
<1> HIDE DEF n, u, l
<1>3. \A i \in DOMAIN basis : Meet(u, i, n) = Lcm(l, basis[i].lt) /\ Meet(u, i, n) \in Monomial
  <2> SUFFICES ASSUME NEW i \in DOMAIN basis
               PROVE  Meet(u, i, n) = Lcm(l, basis[i].lt) /\ Meet(u, i, n) \in Monomial
    OBVIOUS
  <2>1. Meet(u, i, n) = Lcm(basis[i].lt, l)
    BY <1>2 DEF Meet
  <2> QED BY <1>2, <2>1, LcmIs
<1>4. CASE Coprime(l, basis[k].lt)
  <2> DEFINE p == basis[k].poly  t == Lcm(l, basis[k].lt)  D == {f, p}
  <2>1. p \in Nonzero /\ basis[k].lt = Lead(p)
    BY <1>1 DEF IsElement, Nonzero, LeadsRight
  <2>2. Joined(f, p, t, D)
    BY <1>1, <1>4, <2>1 DEF PairLaws, Criteria, Nonzero, l
  <2>3. t \in Monomial /\ Divides(l, t) /\ Divides(basis[k].lt, t)
    BY <1>2, LcmIs
  <2>4. f \in Under(t) /\ p \in Under(t)
    BY <1>1, <2>1, <2>3 DEF Under, l
  <2>5. D \in SUBSET Range(PolyOf(c))
    BY <1>2
  <2> HIDE DEF p, t, D
  <2>6. Joined(f, p, t, Range(PolyOf(c)))
    BY <1>2, <2>2, <2>3, <2>4, <2>5, JoinedMore
  <2>7. Joined(p, f, t, Range(PolyOf(c)))
    BY <1>2, <2>3, <2>4, <2>6, JoinedSame
  <2>8. Joins(c, k, n)
    BY <1>1, <1>3, <2>7 DEF Joins, u, p, t
  <2>9. Handled(c, OpenWith(queue, Lead(f), sugar), k, n)
    BY <2>8 DEF Handled
  <2>10. Divides(Meet(u, k, n), Meet(u, k, n))
    BY <1>3, DividesIs
  <2> QED BY <2>9, <2>10 DEF n, u
<1>5. CASE ~Coprime(l, basis[k].lt)
  <2>1. k \in Partners(l)
    BY <1>5 DEF Partners
  <2>2. PICK q \in Partners(l) :
           /\ Divides(Lcm(l, basis[q].lt), Lcm(l, basis[k].lt))
           /\ NewPair(q, l, sugar) \in Undominated({NewPair(m, l, sugar) : m \in Partners(l)})
    BY <1>2, <2>1, PartnerStays
  <2>3. q \in DOMAIN basis /\ basis[q].active
    BY DEF Partners
  <2>4. Divides(Meet(u, q, n), Meet(u, k, n))
    BY <1>3, <2>2, <2>3
  <2> DEFINE p == NewPair(q, l, sugar)
  <2>5. p.i = q /\ p.j = n
    BY DEF NewPair, n
  <2>6. p \in OpenWith(queue, Lead(f), sugar)
    BY <2>2 DEF OpenWith, l
  <2> HIDE DEF p
  <2>7. Handled(c, OpenWith(queue, Lead(f), sugar), q, n)
    BY <2>5, <2>6 DEF Handled
  <2> QED BY <2>3, <2>4, <2>7 DEF n, u
<1> QED BY <1>4, <1>5

(* A new element that no active one divides keeps a level complete, if what   *)
(* left the queue is joined with it.                                          *)
LEMMA CompleteLonger ==
    ASSUME Laws, PairLaws, NEW c, NEW f, Growing(c, basis, f), DOMAIN basis \subseteq Nat,
           Complete(basis, open), NEW queue \in SUBSET open, Paired(open, basis), NEW sugar,
           \A p \in open \ queue :
              Joined(basis[p.i].poly, basis[p.j].poly, Meet(LtsOf(basis), p.i, p.j), Range(PolyOf(c)))
    PROVE  Complete(c, OpenWith(queue, Lead(f), sugar))
<1> DEFINE n == Len(basis) + 1  u == LtsOf(c)  lt == LtsOf(basis)  more == OpenWith(queue, Lead(f), sugar)
           E == Edges(basis, open)  F == Edges(c, more)  A == {i \in DOMAIN basis : basis[i].active}
<1>1. /\ LeadsRight(basis) /\ Apart(basis) /\ Covered(basis) /\ Meets(basis, open)
      /\ Accounted(lt, E)
    BY DEF Complete
<1>2. LeadsRight(c) /\ Apart(c) /\ Covered(c)
    BY <1>1, EnlargedIs, EnlargedSpread
<1>3. Meets(basis, queue) /\ Paired(queue, basis)
    BY <1>1 DEF Meets, Paired
<1>4. Meets(c, more)
    BY <1>1, <1>3, EnlargedMeets
<1>5. /\ Leading(u) /\ Extends(u, lt, n) /\ DOMAIN lt = DOMAIN basis
      /\ \A i \in DOMAIN basis : lt[i] = basis[i].lt
    BY <1>1, EnlargedIs DEF LtsOf
<1>6. DOMAIN c = DOMAIN basis \cup {n}
    BY DEF Growing, Enlarged
<1> HIDE DEF u, lt, n, more
<1>7. \A i, j \in DOMAIN lt : <<i, j>> \in E => <<i, j>> \in F \/ Bridged(u, i, j, n)
  <2> SUFFICES ASSUME NEW i \in DOMAIN basis, NEW j \in DOMAIN basis, <<i, j>> \in E
               PROVE  <<i, j>> \in F \/ Bridged(u, i, j, n)
    BY <1>5
  <2>1. Handled(basis, open, i, j)
    BY EdgeIs
  <2>2. Handled(c, more, i, j) \/ Bridged(u, i, j, n)
    BY <1>1, <2>1, OldHandled DEF more, u, n
  <2> QED BY <1>6, <2>2, EdgeIs
<1>8. \A i \in DOMAIN lt : \E s \in A : Divides(lt[s], lt[i])
    BY <1>1, <1>5 DEF Covered
<1>9. \A k \in A : \E q \in A : <<q, n>> \in F /\ Divides(Meet(u, q, n), Meet(u, k, n))
  <2> SUFFICES ASSUME NEW k \in DOMAIN basis, basis[k].active
               PROVE  \E q \in A : <<q, n>> \in F /\ Divides(Meet(u, q, n), Meet(u, k, n))
    OBVIOUS
  <2>1. PICK q \in DOMAIN basis :
            basis[q].active /\ Handled(c, more, q, n) /\ Divides(Meet(u, q, n), Meet(u, k, n))
    BY <1>1, NewHandled DEF more, u, n
  <2>2. <<q, n>> \in F
    BY <1>6, <2>1, EdgeIs
  <2> QED BY <2>1, <2>2
<1>10. A \in SUBSET DOMAIN lt
    BY <1>5
<1> HIDE DEF E, F, A
<1>11. Accounted(u, F)
    BY <1>1, <1>5, <1>7, <1>8, <1>9, <1>10, AccountedLonger
<1> QED BY <1>2, <1>4, <1>11 DEF Complete, u, F, more

-------------------------------------------------------------------------------
(* A complete level with nothing in the queue. *)

\* The elements that divide t and are joined there.
JoinedAt(b, t) ==
    {e \in Below(LtsOf(b), t) \X Below(LtsOf(b), t) :
        Joined(b[e[1]].poly, b[e[2]].poly, t, Range(PolyOf(b)))}

(* Where elements are joined. *)
LEMMA JoinedAtIs ==
    ASSUME NEW b, NEW t, NEW i, NEW j
    PROVE  <<i, j>> \in JoinedAt(b, t) <=>
              /\ i \in Below(LtsOf(b), t) /\ j \in Below(LtsOf(b), t)
              /\ Joined(b[i].poly, b[j].poly, t, Range(PolyOf(b)))
<1> DEFINE e == <<i, j>>  B == Below(LtsOf(b), t)
<1>1. e \in B \X B <=> i \in B /\ j \in B
    OBVIOUS
<1>2. e[1] = i /\ e[2] = j
    OBVIOUS
<1> HIDE DEF e, B
<1>3. e \in JoinedAt(b, t) <=> e \in B \X B /\ Joined(b[e[1]].poly, b[e[2]].poly, t, Range(PolyOf(b)))
    BY DEF JoinedAt, B
<1> QED BY <1>1, <1>2, <1>3 DEF e, B

(* Being joined relates elements. *)
LEMMA JoinedRelates ==
    ASSUME Laws, PairLaws, NEW b, \A i \in DOMAIN b : IsElement(b[i]), LeadsRight(b)
    PROVE  Relates([t \in Monomial |-> JoinedAt(b, t)], LtsOf(b))
<1> DEFINE lt == LtsOf(b)  D == Range(PolyOf(b))  K == [t \in Monomial |-> JoinedAt(b, t)]
           p(i) == b[i].poly
<1>1. /\ DOMAIN lt = DOMAIN b /\ \A i \in DOMAIN b : lt[i] = Lead(p(i)) /\ p(i) \in Nonzero
      /\ \A i \in DOMAIN b : lt[i] \in Monomial
    BY LtsAre DEF LeadsRight, IsElement, Nonzero
<1>2. D \in SUBSET Nonzero
    BY PolyOfIs, RangeIs
<1> HIDE DEF lt, D, p
<1>3. \A t : \A i \in Below(lt, t) : p(i) \in Under(t)
    BY <1>1 DEF Below, Under
<1>4. \A t : \A i, j : <<i, j>> \in JoinedAt(b, t) <=>
          i \in Below(lt, t) /\ j \in Below(lt, t) /\ Joined(p(i), p(j), t, D)
    BY JoinedAtIs DEF lt, D, p
<1>5. ASSUME NEW t \in Monomial PROVE Equivalence(JoinedAt(b, t), Below(lt, t))
  <2> DEFINE N == Below(lt, t)  R == JoinedAt(b, t)
  <2>1. R \subseteq N \X N
    BY DEF JoinedAt, lt
  <2>2. \A i \in N : <<i, i>> \in R
    BY <1>2, <1>3, <1>4, JoinedSame
  <2>3. \A i, j \in N : <<i, j>> \in R => <<j, i>> \in R
    BY <1>2, <1>3, <1>4, JoinedSame
  <2>4. \A i, j, k \in N : <<i, j>> \in R /\ <<j, k>> \in R => <<i, k>> \in R
    BY <1>2, <1>3, <1>4, JoinedOn
  <2> HIDE DEF N, R
  <2>5. Equivalence(R, N)
    BY <2>1, <2>2, <2>3, <2>4 DEF Equivalence
  <2> QED BY <2>5 DEF N, R
<1>6. ASSUME NEW s \in Monomial, NEW t \in Monomial, Divides(s, t)
      PROVE  JoinedAt(b, s) \subseteq JoinedAt(b, t)
  <2>1. ASSUME NEW i, NEW j, <<i, j>> \in JoinedAt(b, s) PROVE <<i, j>> \in JoinedAt(b, t)
    <3>1. i \in Below(lt, s) /\ j \in Below(lt, s) /\ Joined(p(i), p(j), s, D)
        BY <1>4, <2>1
    <3>2. i \in Below(lt, t) /\ j \in Below(lt, t)
        BY <1>1, <1>6, <3>1, DividesIs DEF Below
    <3>3. Joined(p(i), p(j), t, D)
        BY <1>2, <1>3, <1>6, <3>1, JoinedAbove
    <3> QED BY <1>4, <3>2, <3>3
  <2>2. \A e \in JoinedAt(b, s) : e = <<e[1], e[2]>>
    BY DEF JoinedAt
  <2> QED BY <2>1, <2>2
<1>7. \A t \in Monomial : K[t] = JoinedAt(b, t)
    OBVIOUS
<1> HIDE DEF K
<1>8. \A t \in Monomial : Equivalence(K[t], Below(lt, t))
    BY <1>5, <1>7
<1>9. \A s, t \in Monomial : Divides(s, t) => K[s] \subseteq K[t]
    BY <1>6, <1>7
<1>10. Relates(K, lt)
    BY <1>8, <1>9 DEF Relates
<1> QED BY <1>10 DEF K, lt

(* Where nothing waits, all pairs are joined. *)
LEMMA AllJoined ==
    ASSUME Laws, PairLaws, NEW b, \A i \in DOMAIN b : IsElement(b[i]), Complete(b, {})
    PROVE  \A i, j \in DOMAIN b : Joins(b, i, j)
<1> DEFINE lt == LtsOf(b)  E == Edges(b, {})  K == [t \in Monomial |-> JoinedAt(b, t)]
<1>1. LeadsRight(b) /\ Accounted(lt, E)
    BY DEF Complete
<1>2. Leading(lt) /\ DOMAIN lt = DOMAIN b /\ \A i, j \in DOMAIN b : Meet(lt, i, j) \in Monomial
    BY <1>1, LtsAre
<1>3. Relates(K, lt)
    BY <1>1, JoinedRelates
<1>4. \A t \in Monomial : K[t] = JoinedAt(b, t)
    OBVIOUS
<1> HIDE DEF lt, E, K
<1>5. ASSUME NEW i \in DOMAIN b, NEW j \in DOMAIN b, Joins(b, i, j) PROVE <<i, j>> \in K[Meet(lt, i, j)]
  <2>1. i \in Below(lt, Meet(lt, i, j)) /\ j \in Below(lt, Meet(lt, i, j))
    BY <1>2, MeetIs
  <2>2. <<i, j>> \in JoinedAt(b, Meet(lt, i, j))
    BY <1>5, <2>1, JoinedAtIs DEF Joins, lt
  <2> QED BY <1>2, <1>4, <2>2
<1>6. \A i, j \in DOMAIN lt : <<i, j>> \in E => <<i, j>> \in K[Meet(lt, i, j)]
  <2> SUFFICES ASSUME NEW i \in DOMAIN b, NEW j \in DOMAIN b, <<i, j>> \in E
               PROVE  <<i, j>> \in K[Meet(lt, i, j)]
    BY <1>2
  <2>1. Handled(b, {}, i, j)
    BY EdgeIs DEF E
  <2> QED BY <1>5, <2>1 DEF Handled
<1>7. \A i, j \in DOMAIN lt : <<i, j>> \in K[Meet(lt, i, j)]
    BY <1>1, <1>2, <1>3, <1>6, AllRelated
<1> SUFFICES ASSUME NEW i \in DOMAIN b, NEW j \in DOMAIN b PROVE Joins(b, i, j)
    OBVIOUS
<1>8. <<i, j>> \in JoinedAt(b, Meet(lt, i, j))
    BY <1>2, <1>4, <1>7
<1> QED BY <1>8, JoinedAtIs DEF Joins, lt

(* Its active elements are a Groebner basis, which reduces what was told to   *)
(* nothing.                                                                   *)
LEMMA CompleteIsGroebner ==
    ASSUME Laws, PairLaws, NEW b, NEW S, Follows(b, S), Complete(b, {}), NEW t \in Seq(Polys), Generates(b, t)
    PROVE  LET D == PolysAt(b, ActiveIndices(b))
           IN  Groebner(D) /\ \A k \in DOMAIN t : NormalForm(t[k], D).nf = Zero
<1> DEFINE idx == ActiveIndices(b)  D == PolysAt(b, idx)  f == PolyOf(b)  G == Range(f)
<1>1. b \in Seq(Range(b)) /\ \A i \in DOMAIN b : IsElement(b[i])
    BY DEF Follows
<1>2. LeadsRight(b) /\ Covered(b) /\ \A i, j \in DOMAIN b : Joins(b, i, j)
    BY <1>1, AllJoined DEF Complete
<1>3. idx \in Seq(DOMAIN b) /\ Range(idx) = {i \in DOMAIN b : b[i].active}
    BY <1>1, ActiveAre
<1>4. D \in Seq(Polys \ {Zero}) /\ DOMAIN D = DOMAIN idx /\ \A k \in DOMAIN idx : D[k] = b[idx[k]].poly /\ idx[k] \in DOMAIN b
    BY <1>1, <1>3, PolysAre
<1>5. /\ f \in PolysFrom(DOMAIN b) /\ \A i \in DOMAIN b : f[i] = b[i].poly
      /\ G \in SUBSET Nonzero /\ \A i \in DOMAIN b : f[i] \in G
    BY <1>1, PolyOfIs, RangeIs
<1>6. \A p \in G : \E i \in DOMAIN b : p = b[i].poly
    BY <1>5 DEF Range, PolyOf
<1>7. \A i \in DOMAIN b : b[i].lt = Lead(b[i].poly)
    BY <1>2 DEF LeadsRight
<1> HIDE DEF D, idx, G, f
<1>8. \A p, q \in G : Joined(p, q, Lcm(Lead(p), Lead(q)), G)
  <2> SUFFICES ASSUME NEW p \in G, NEW q \in G PROVE Joined(p, q, Lcm(Lead(p), Lead(q)), G)
    OBVIOUS
  <2>1. PICK i \in DOMAIN b : p = b[i].poly
    BY <1>6
  <2>2. PICK j \in DOMAIN b : q = b[j].poly
    BY <1>6
  <2>3. Meet(LtsOf(b), i, j) = Lcm(Lead(p), Lead(q))
    BY <1>7, <2>1, <2>2 DEF Meet, LtsOf
  <2> QED BY <1>2, <2>1, <2>2, <2>3 DEF Joins, G, f
<1>9. ToSet(D) \subseteq G
    BY <1>4, <1>5 DEF ToSet
<1>10. \A p \in G : \E k \in DOMAIN D : Divides(Lead(D[k]), Lead(p))
  <2> SUFFICES ASSUME NEW p \in G PROVE \E k \in DOMAIN D : Divides(Lead(D[k]), Lead(p))
    OBVIOUS
  <2>1. PICK i \in DOMAIN b : p = b[i].poly
    BY <1>6
  <2>2. PICK s \in DOMAIN b : b[s].active /\ Divides(b[s].lt, b[i].lt)
    BY <1>2 DEF Covered
  <2>3. PICK k \in DOMAIN idx : idx[k] = s
    BY <1>3, <2>2 DEF Range
  <2> QED BY <1>4, <1>7, <2>1, <2>2, <2>3
<1>11. D \in Seq(Nonzero)
    BY <1>4 DEF Nonzero
<1>12. Groebner(D) /\ \A p \in Polys : Member(p, G) => NormalForm(p, D).nf = Zero
    BY <1>5, <1>8, <1>9, <1>10, <1>11 DEF PairLaws, Buchberger
<1>13. \A k \in DOMAIN t : t[k] \in Polys /\ Member(t[k], G)
    BY DEF Generates, G, f
<1> QED BY <1>12, <1>13 DEF D, idx

-------------------------------------------------------------------------------
(* The engine, unless a call may be cancelled. *)

\* A level that is not trivial accounts for its pairs and generates what it was told.
LevelGood(b, queue, t, tr, gen) ==
    ~tr => /\ Complete(b, queue) /\ Generates(b, t)
           /\ \A p \in queue : p.generation = gen

CheckpointGood(cp) ==
    /\ cp.generation \in Nat
    /\ ~cp.trivial => cp.open = {}
    /\ LevelGood(cp.basis, cp.open, cp.told, cp.trivial, cp.generation)

GInv ==
    ~config.cancels =>
        /\ ~cancelled /\ generation \in Nat
        /\ pc = "idle" /\ ~trivial => open = {}
        /\ LevelGood(basis, open, told, trivial, generation)
        /\ \A n \in DOMAIN trail : CheckpointGood(trail[n])

(* The checkpoints stay as they are. *)
LEMMA GoodKept ==
    ASSUME GInv, config' = config, generation' = generation, trail' = trail,
           ~config.cancels =>
              /\ ~cancelled'
              /\ pc' = "idle" /\ ~trivial' => open' = {}
              /\ LevelGood(basis', open', told', trivial', generation)
    PROVE  GInv'
BY DEF GInv

(* What a polynomial reduces to: a member with it of any ideal of the basis,  *)
(* of a leading monomial that no active element divides.                      *)
LEMMA ReducedApart ==
    ASSUME Laws, NEW b, NEW S, Follows(b, S), LeadsRight(b), NEW p \in Polys
    PROVE  LET D == PolysAt(b, ActiveIndices(b))
               r == NormalForm(p, D).nf
           IN  /\ r \in Polys /\ D \in Seq(Nonzero) /\ ToSet(D) \in SUBSET Range(PolyOf(b))
               /\ \A G \in SUBSET Polys :
                     Range(PolyOf(b)) \subseteq G => (Member(p, G) <=> Member(r, G))
               /\ r # Zero =>
                     /\ Monic(r) \in Nonzero /\ Lead(Monic(r)) = Lead(r)
                     /\ \A i \in DOMAIN b : b[i].active => ~Divides(b[i].lt, Lead(r))
<1> DEFINE idx == ActiveIndices(b)  D == PolysAt(b, idx)  r == NormalForm(p, D)
<1>1. b \in Seq(Range(b)) /\ \A i \in DOMAIN b : IsElement(b[i])
    BY DEF Follows
<1>2. idx \in Seq(DOMAIN b) /\ Range(idx) = {i \in DOMAIN b : b[i].active}
    BY <1>1, ActiveAre
<1>3. D \in Seq(Polys \ {Zero}) /\ DOMAIN D = DOMAIN idx /\ \A k \in DOMAIN idx : D[k] = b[idx[k]].poly /\ idx[k] \in DOMAIN b
    BY <1>1, <1>2, PolysAre
<1>4. \A i \in DOMAIN b : b[i].poly \in Range(PolyOf(b))
    BY <1>1, PolyOfIs, RangeIs
<1> HIDE DEF idx, D
<1>5. ToSet(D) \in SUBSET Range(PolyOf(b))
    BY <1>3, <1>4 DEF ToSet
<1>6. r.nf \in Polys /\ r.used \subseteq DOMAIN D
    BY <1>3, NormalFormIn
<1>7. ASSUME NEW G \in SUBSET Polys, Range(PolyOf(b)) \subseteq G PROVE Member(p, G) <=> Member(r.nf, G)
  <2>1. \A k \in r.used : D[k] \in G
    BY <1>3, <1>4, <1>6, <1>7
  <2>2. \A k \in r.used : Member(D[k], G)
    BY <2>1, GeneratorIn
  <2> QED BY <1>3, <2>2 DEF Laws, Membership
<1>8. ASSUME r.nf # Zero
      PROVE  /\ Monic(r.nf) \in Nonzero /\ Lead(Monic(r.nf)) = Lead(r.nf)
             /\ \A i \in DOMAIN b : b[i].active => ~Divides(b[i].lt, Lead(r.nf))
  <2>1. r.nf \in Polys \ {Zero}
    BY <1>6, <1>8
  <2>2. \A k \in DOMAIN D : ~Divides(Lead(D[k]), Lead(r.nf))
    BY <1>3, <1>8 DEF Laws, Dividing
  <2>3. ASSUME NEW i \in DOMAIN b, b[i].active PROVE ~Divides(b[i].lt, Lead(r.nf))
    <3>1. PICK k \in DOMAIN idx : idx[k] = i
        BY <1>2, <2>3 DEF Range
    <3>2. b[i].lt = Lead(D[k]) /\ k \in DOMAIN D
        BY <1>3, <3>1 DEF LeadsRight
    <3> QED BY <2>2, <3>2
  <2>4. Monic(r.nf) \in Nonzero
    BY <2>1, MonicIn DEF Nonzero
  <2>5. Lead(Monic(r.nf)) = Lead(r.nf)
    BY <2>1 DEF Laws, Dividing
  <2> QED BY <2>3, <2>4, <2>5
<1>9. D \in Seq(Nonzero)
    BY <1>3 DEF Nonzero
<1> HIDE DEF r
<1> QED BY <1>5, <1>6, <1>7, <1>8, <1>9 DEF r, D, idx

(* The pairs of a new element are of the generation there is. *)
LEMMA OpenWithGeneration ==
    ASSUME NEW queue, \A p \in queue : p.generation = generation, NEW lt, NEW sugar
    PROVE  \A p \in OpenWith(queue, lt, sugar) : p.generation = generation
<1> SUFFICES ASSUME NEW p \in OpenWith(queue, lt, sugar) PROVE p.generation = generation
    OBVIOUS
<1>1. CASE p \in queue
    BY <1>1
<1>2. CASE p \notin queue
  <2>1. p \in {NewPair(k, lt, sugar) : k \in Partners(lt)}
    BY <1>2 DEF OpenWith, Undominated
  <2>2. PICK k \in Partners(lt) : p = NewPair(k, lt, sugar)
    BY <2>1
  <2> QED BY <2>2 DEF NewPair
<1> QED BY <1>1, <1>2

(* A polynomial that no active element divides is added. *)
LEMMA Grows ==
    ASSUME NEW S, Follows(basis, S), NEW f \in Nonzero, NEW sugar,
           \A i \in DOMAIN basis : basis[i].active => ~Divides(basis[i].lt, Lead(f))
    PROVE  Growing(BasisWith(f, sugar), basis, f) /\ DOMAIN basis \subseteq Nat
<1>1. \A i \in DOMAIN basis : IsElement(basis[i])
    BY DEF Follows
<1>2. Enlarged(BasisWith(f, sugar), basis, f)
    BY BasisWithEnlarged
<1>3. DOMAIN basis = 1 .. Len(basis)
    BY DEF Follows
<1>4. 1 .. Len(basis) \subseteq Nat
    OBVIOUS
<1> QED BY <1>1, <1>2, <1>3, <1>4 DEF Growing

(* What was generated still is. *)
LEMMA GeneratesLonger ==
    ASSUME Laws, NEW b, NEW c, NEW t \in Seq(Polys), Generates(b, t),
           Range(PolyOf(c)) \in SUBSET Polys, Range(PolyOf(b)) \in SUBSET Range(PolyOf(c))
    PROVE  Generates(c, t)
<1>1. ASSUME NEW k \in DOMAIN t PROVE Member(t[k], Range(PolyOf(c)))
  <2>1. t[k] \in Polys /\ Member(t[k], Range(PolyOf(b)))
    BY DEF Generates
  <2> QED BY <2>1, MoreIn
<1> QED BY <1>1 DEF Generates

(* And a generator more. *)
LEMMA GeneratesOneMore ==
    ASSUME NEW b, NEW t \in Seq(Polys), Generates(b, t), NEW g, Member(g, Range(PolyOf(b)))
    PROVE  Generates(b, Append(t, g))
<1> DEFINE u == Append(t, g)
<1>1. \A k \in DOMAIN u : (k \in DOMAIN t /\ u[k] = t[k]) \/ u[k] = g
    OBVIOUS
<1> HIDE DEF u
<1> QED BY <1>1 DEF Generates, u

(* Steps that leave the level as it is. *)
LEMMA QuietGood ==
    ASSUME Laws, PairLaws, IInv, GInv, AddCall \/ RunOnly \/ Cancel \/ DropGenerators \/ StartRun \/ LosePair
    PROVE  GInv'
<1>1. CASE AddCall
  <2>1. /\ config' = config /\ generation' = generation /\ trail' = trail /\ cancelled' = FALSE /\ pc' = "adding"
        /\ basis' = basis /\ open' = open /\ told' = told /\ trivial' = trivial
    BY <1>1 DEF AddCall, Fresh, basisVars
  <2> QED BY <2>1, GoodKept DEF GInv
<1>2. CASE RunOnly
  <2>1. /\ config' = config /\ generation' = generation /\ trail' = trail /\ cancelled' = FALSE
        /\ pc = "idle" /\ pc' = (IF trivial THEN "idle" ELSE "running")
        /\ basis' = basis /\ open' = open /\ told' = told /\ trivial' = trivial
    BY <1>2 DEF RunOnly, Fresh, basisVars
  <2> QED BY <2>1, GoodKept DEF GInv
<1>3. CASE Cancel
  <2>1. config' = config /\ config.cancels
    BY <1>3 DEF Cancel
  <2> QED BY <2>1 DEF GInv
<1>4. CASE DropGenerators
  <2>1. config' = config /\ cancelled
    BY <1>4 DEF DropGenerators
  <2> QED BY <2>1 DEF GInv
<1>5. CASE StartRun
  <2>1. /\ config' = config /\ generation' = generation /\ trail' = trail /\ cancelled' = cancelled
        /\ pc' = (IF trivial THEN "idle" ELSE "running")
        /\ basis' = basis /\ open' = open /\ told' = told /\ trivial' = trivial
    BY <1>5 DEF StartRun, basisVars
  <2> QED BY <2>1, GoodKept DEF GInv
<1>6. CASE LosePair
  <2>1. config' = config /\ cancelled
    BY <1>6 DEF LosePair
  <2> QED BY <2>1 DEF GInv
<1> QED BY <1>1, <1>2, <1>3, <1>4, <1>5, <1>6

(* A level is kept as it is, and its pairs are of an earlier generation. *)
LEMMA PushGood ==
    ASSUME Laws, PairLaws, IInv, GInv, Push
    PROVE  GInv'
<1> SUFFICES ASSUME ~config.cancels PROVE GInv'
    BY DEF GInv, Push
<1> DEFINE cp == [basis |-> basis, open |-> open, age |-> age, generation |-> generation,
                  trivial |-> trivial, told |-> told]
<1>1. /\ config' = config /\ generation' = generation + 1 /\ cancelled' = cancelled /\ pc' = pc /\ pc = "idle"
      /\ basis' = basis /\ open' = open /\ told' = told /\ trivial' = trivial /\ trail' = Append(trail, cp)
    BY DEF Push, basisVars
<1>2. /\ ~cancelled /\ generation \in Nat /\ (~trivial => open = {})
      /\ LevelGood(basis, open, told, trivial, generation)
      /\ \A n \in DOMAIN trail : CheckpointGood(trail[n])
    BY <1>1 DEF GInv
<1>3. /\ cp.basis = basis /\ cp.open = open /\ cp.told = told /\ cp.trivial = trivial
      /\ cp.generation = generation
    OBVIOUS
<1> HIDE DEF cp
<1>4. CheckpointGood(cp)
    BY <1>2, <1>3 DEF CheckpointGood
<1>5. /\ DOMAIN trail' = DOMAIN trail \cup {Len(trail) + 1}
      /\ trail'[Len(trail) + 1] = cp /\ \A n \in DOMAIN trail : trail'[n] = trail[n]
    BY <1>1, OneMore DEF IInv, LevelsRight
<1>6. \A n \in DOMAIN trail' : CheckpointGood(trail'[n])
    BY <1>2, <1>4, <1>5
<1>7. LevelGood(basis, open, told, trivial, generation + 1)
    BY <1>2 DEF LevelGood
<1>8. generation + 1 \in Nat
    BY <1>2
<1> QED BY <1>1, <1>2, <1>6, <1>7, <1>8 DEF GInv

(* And gone back to, with its generation. *)
LEMMA PopGood ==
    ASSUME Laws, PairLaws, IInv, GInv, Pop
    PROVE  GInv'
<1> SUFFICES ASSUME ~config.cancels PROVE GInv'
    BY DEF GInv, Pop
<1> DEFINE n == Len(trail)  cp == trail[n]
<1>1. trail \in Seq(Range(trail)) /\ trail # <<>>
    BY DEF IInv, LevelsRight, Pop
<1>2. n \in Nat /\ n # 0 /\ DOMAIN trail = 1 .. n /\ n \in DOMAIN trail
    BY <1>1
<1>3. /\ config' = config /\ generation' = cp.generation /\ cancelled' = cancelled /\ pc' = pc
      /\ basis' = cp.basis /\ open' = cp.open /\ told' = cp.told /\ trivial' = cp.trivial
      /\ trail' = SubSeq(trail, 1, n - 1)
    BY DEF Pop, Last, Front, RestoredBasis, RestoredQueue
<1>4. \A k \in DOMAIN trail' : k \in DOMAIN trail /\ trail'[k] = trail[k]
  <2>1. DOMAIN trail' = 1 .. n - 1 /\ \A k \in 1 .. n - 1 : trail'[k] = trail[k]
    BY <1>1, <1>2, <1>3
  <2>2. 1 .. n - 1 \subseteq DOMAIN trail
    BY <1>2
  <2> QED BY <2>1, <2>2
<1>5. ~cancelled /\ \A k \in DOMAIN trail : CheckpointGood(trail[k])
    BY DEF GInv
<1>6. CheckpointGood(cp)
    BY <1>2, <1>5
<1>7. \A k \in DOMAIN trail' : CheckpointGood(trail'[k])
    BY <1>4, <1>5
<1> HIDE DEF cp, n
<1>8. /\ cp.generation \in Nat /\ (~cp.trivial => cp.open = {})
      /\ LevelGood(cp.basis, cp.open, cp.told, cp.trivial, cp.generation)
    BY <1>6 DEF CheckpointGood
<1> QED BY <1>3, <1>5, <1>7, <1>8 DEF GInv

(* What is known when there is something to do. *)
LEMMA LevelIs ==
    ASSUME IInv
    PROVE  /\ told \in Seq(Polys) /\ ToSet(told) \in SUBSET Polys /\ inputs \in Seq(Polys) /\ todo \in Seq(Polys)
           /\ Follows(basis, ToSet(told)) /\ Paired(open, basis)
           /\ \A i \in DOMAIN basis : IsElement(basis[i])
<1>1. told \in Seq(Polys) /\ Follows(basis, ToSet(told)) /\ Paired(open, basis)
    BY DEF IInv, LevelsRight, LevelRight
<1>2. inputs \in Seq(Polys) /\ todo \in Seq(Polys)
    BY DEF IInv, Typed
<1>3. ToSet(told) \in SUBSET Polys
    BY <1>1 DEF ToSet
<1>4. \A i \in DOMAIN basis : IsElement(basis[i])
    BY <1>1 DEF Follows
<1> QED BY <1>1, <1>2, <1>3, <1>4

(* The body is inter-reduced at the end. *)
LEMMA FinishRunGood ==
    ASSUME Laws, PairLaws, IInv, GInv, FinishRun
    PROVE  GInv'
<1>1. /\ config' = config /\ generation' = generation /\ trail' = trail /\ cancelled' = cancelled
      /\ open' = open /\ told' = told /\ trivial' = trivial /\ (open = {} \/ trivial)
      /\ basis' = IF trivial \/ config.traced THEN basis ELSE TailReduced(basis, deps).basis
    BY DEF FinishRun
<1> SUFFICES ASSUME ~config.cancels PROVE GInv'
    BY <1>1 DEF GInv
<1>2. ~cancelled /\ LevelGood(basis, open, told, trivial, generation)
    BY DEF GInv
<1>3. LevelGood(basis', open, told, trivial, generation)
  <2>1. CASE trivial \/ config.traced
    BY <1>1, <1>2, <2>1
  <2>2. CASE ~trivial /\ ~config.traced
    <3> DEFINE c == TailReduced(basis, deps).basis
    <3>1. Complete(basis, open) /\ Generates(basis, told) /\ \A p \in open : p.generation = generation
        BY <1>2, <2>2 DEF LevelGood
    <3>2. LeadsRight(basis) /\ Apart(basis)
        BY <3>1 DEF Complete
    <3>3. ~Tracking
        BY <2>2 DEF Tracking
    <3>4. /\ told \in Seq(Polys) /\ ToSet(told) \in SUBSET Polys /\ inputs \in Seq(Polys)
          /\ Follows(basis, ToSet(told)) /\ \A i \in DOMAIN basis : IsElement(basis[i])
        BY LevelIs
    <3>5. Alike(basis, c) /\ PolyOf(c) \in PolysFrom(DOMAIN basis) /\ Rewrites(PolyOf(basis), PolyOf(c))
        BY <3>2, <3>3, <3>4, TailReducedRewrites
    <3> HIDE DEF c
    <3>6. Complete(c, open) /\ Generates(c, told)
        BY <3>1, <3>4, <3>5, CompleteRewritten
    <3>7. LevelGood(c, open, told, trivial, generation)
        BY <3>1, <3>6 DEF LevelGood
    <3> QED BY <1>1, <2>2, <3>7 DEF c
  <2> QED BY <2>1, <2>2
<1> QED BY <1>1, <1>2, <1>3, GoodKept

(* A generator that reduces to nothing is generated.                          *)
LEMMA SkipGeneratorGood ==
    ASSUME Laws, PairLaws, IInv, GInv, InsertGenerator, SkipGenerator(Head(todo))
    PROVE  GInv'
<1> DEFINE g == Head(todo)
<1>1. /\ config' = config /\ generation' = generation /\ trail' = trail /\ cancelled' = cancelled
      /\ open' = open /\ told' = Append(told, g) /\ trivial' = trivial /\ basis' = basis
      /\ pc = "adding" /\ pc' = pc /\ todo # <<>> /\ Reduced(g) = Zero
    BY DEF InsertGenerator, SkipGenerator, basisVars
<1> SUFFICES ASSUME ~config.cancels PROVE GInv'
    BY <1>1 DEF GInv
<1>2. ~cancelled /\ LevelGood(basis, open, told, trivial, generation)
    BY DEF GInv
<1>3. ASSUME ~trivial PROVE Generates(basis, Append(told, g))
  <2>1. Complete(basis, open) /\ Generates(basis, told)
    BY <1>2, <1>3 DEF LevelGood
  <2>2. LeadsRight(basis)
    BY <2>1 DEF Complete
  <2>3. /\ told \in Seq(Polys) /\ Follows(basis, ToSet(told)) /\ todo \in Seq(Polys)
        /\ \A i \in DOMAIN basis : IsElement(basis[i])
    BY LevelIs
  <2>4. g \in Polys
    BY <1>1, <2>3, NextInput
  <2>5. Range(PolyOf(basis)) \in SUBSET Nonzero
    BY <2>3, PolyOfIs, RangeIs
  <2> DEFINE G == Range(PolyOf(basis))
  <2>6. G \in SUBSET Polys
    BY <2>5 DEF Nonzero
  <2> HIDE DEF g, G
  <2>7. NormalForm(g, PolysAt(basis, ActiveIndices(basis))).nf = Zero
    BY <1>1 DEF Reduced, Active
  <2>8. Member(g, G) <=> Member(Zero, G)
    BY <2>2, <2>3, <2>4, <2>6, <2>7, ReducedApart DEF G
  <2>9. Member(Zero, G)
    BY <2>6 DEF Laws, Membership
  <2> QED BY <2>1, <2>3, <2>8, <2>9, GeneratesOneMore DEF G
<1>4. LevelGood(basis, open, Append(told, g), trivial, generation)
    BY <1>2, <1>3 DEF LevelGood
<1> QED BY <1>1, <1>2, <1>4, GoodKept

(* A generator or a pair that gives a constant makes the level trivial.       *)
LEMMA UnitGood ==
    ASSUME GInv, config' = config, generation' = generation, trail' = trail, cancelled' = cancelled, trivial' = TRUE
    PROVE  GInv'
<1>1. LevelGood(basis', open', told', trivial', generation)
    BY DEF LevelGood
<1> QED BY <1>1, GoodKept DEF GInv

(* A generator that gives an element is generated by it with the others.      *)
LEMMA NewGeneratorGood ==
    ASSUME Laws, PairLaws, IInv, GInv, InsertGenerator, NewGenerator(Head(todo))
    PROVE  GInv'
<1> DEFINE g == Head(todo)
           r == Reduced(g)
           f == Monic(r)
           c == BasisWith(f, Degree(Lead(f)))
           q == OpenWith(open, Lead(f), Degree(Lead(f)))
           G == Range(PolyOf(c))
<1>1. /\ config' = config /\ generation' = generation /\ trail' = trail /\ cancelled' = cancelled
      /\ open' = q /\ told' = Append(told, g) /\ trivial' = trivial /\ basis' = c
      /\ pc = "adding" /\ pc' = pc /\ todo # <<>> /\ r # Zero
    BY DEF InsertGenerator, NewGenerator
<1> SUFFICES ASSUME ~config.cancels PROVE GInv'
    BY <1>1 DEF GInv
<1>2. ~cancelled /\ LevelGood(basis, open, told, trivial, generation)
    BY DEF GInv
<1>3. ~trivial
    BY <1>1, GeneratorReducesTo
<1>4. Complete(basis, open) /\ Generates(basis, told) /\ \A p \in open : p.generation = generation
    BY <1>2, <1>3 DEF LevelGood
<1>5. LeadsRight(basis)
    BY <1>4 DEF Complete
<1>6. /\ told \in Seq(Polys) /\ Follows(basis, ToSet(told)) /\ todo \in Seq(Polys) /\ Paired(open, basis)
      /\ \A i \in DOMAIN basis : IsElement(basis[i])
    BY LevelIs
<1>7. g \in Polys
    BY <1>1, <1>6, NextInput
<1>8. r = NormalForm(g, PolysAt(basis, ActiveIndices(basis))).nf
    BY DEF Reduced, Active
<1> HIDE DEF g, r
<1>9. /\ r \in Polys /\ f \in Nonzero
      /\ \A H \in SUBSET Polys : Range(PolyOf(basis)) \subseteq H => (Member(g, H) <=> Member(r, H))
      /\ \A i \in DOMAIN basis : basis[i].active => ~Divides(basis[i].lt, Lead(f))
    BY <1>1, <1>5, <1>6, <1>7, <1>8, ReducedApart
<1> HIDE DEF f
<1>10. Growing(c, basis, f) /\ DOMAIN basis \subseteq Nat
    BY <1>6, <1>9, Grows
<1> HIDE DEF c
<1>11. Complete(c, q)
  <2>1. open \in SUBSET open /\ open \ open = {}
    OBVIOUS
  <2> QED BY <1>4, <1>6, <1>10, <2>1, CompleteLonger
<1>12. G \in SUBSET Nonzero /\ Range(PolyOf(basis)) \in SUBSET G /\ f \in G
    BY <1>5, <1>10, EnlargedIs
<1>13. G \in SUBSET Polys
    BY <1>12 DEF Nonzero
<1> HIDE DEF G
<1>14. Member(g, G)
  <2>1. Member(f, G)
    BY <1>12, <1>13, GeneratorIn
  <2>2. Member(r, G)
    BY <1>1, <1>9, <1>13, <2>1 DEF Laws, Membership, f
  <2> QED BY <1>9, <1>12, <1>13, <2>2
<1>15. Generates(c, Append(told, g))
  <2>1. Generates(c, told)
    BY <1>4, <1>6, <1>12, <1>13, GeneratesLonger DEF G
  <2> QED BY <1>6, <1>14, <2>1, GeneratesOneMore DEF G
<1>16. \A p \in q : p.generation = generation
    BY <1>4, OpenWithGeneration
<1> HIDE DEF q
<1>17. LevelGood(c, q, Append(told, g), trivial, generation)
    BY <1>11, <1>15, <1>16 DEF LevelGood
<1> QED BY <1>1, <1>2, <1>17, GoodKept

(* A pair: its S-polynomial, and what that reduces to, joins its elements.    *)
LEMMA PairJoined ==
    ASSUME Laws, PairLaws, IInv, Complete(basis, open), NEW p \in open,
           NEW E \in SUBSET Nonzero, Range(PolyOf(basis)) \in SUBSET E
    PROVE  LET D == PolysAt(basis, ActiveIndices(basis))
               r == NormalForm(SPolynomial(basis[p.i].poly, basis[p.j].poly), D).nf
           IN  /\ r \in Polys
               /\ r # Zero => /\ Monic(r) \in Nonzero
                              /\ \A i \in DOMAIN basis : basis[i].active => ~Divides(basis[i].lt, Lead(Monic(r)))
               /\ (r # Zero => Monic(r) \in E) =>
                     Joined(basis[p.i].poly, basis[p.j].poly, Meet(LtsOf(basis), p.i, p.j), E)
<1> DEFINE D == PolysAt(basis, ActiveIndices(basis))
           x == basis[p.i].poly
           y == basis[p.j].poly
           s == SPolynomial(x, y)
           r == NormalForm(s, D).nf
           t == Meet(LtsOf(basis), p.i, p.j)
<1>1. /\ told \in Seq(Polys) /\ Follows(basis, ToSet(told)) /\ Paired(open, basis)
      /\ \A i \in DOMAIN basis : IsElement(basis[i])
    BY LevelIs
<1>2. LeadsRight(basis)
    BY DEF Complete
<1>3. p.i \in DOMAIN basis /\ p.j \in DOMAIN basis
    BY <1>1 DEF Paired
<1>4. t \in Monomial /\ x \in Under(t) /\ y \in Under(t)
    BY <1>1, <1>2, <1>3, LtsAre
<1>5. x \in Polys \ {Zero} /\ y \in Polys \ {Zero} /\ basis[p.i].lt = Lead(x) /\ basis[p.j].lt = Lead(y)
    BY <1>1, <1>2, <1>3 DEF IsElement, LeadsRight
<1>6. t = Lcm(Lead(x), Lead(y))
    BY <1>3, <1>5 DEF Meet, LtsOf
<1> HIDE DEF x, y, t
<1>7. s \in Polys
    BY <1>5, SPolynomialIn
<1> HIDE DEF s
<1>8. /\ r \in Polys /\ D \in Seq(Nonzero) /\ ToSet(D) \in SUBSET Range(PolyOf(basis))
      /\ r # Zero => /\ Monic(r) \in Nonzero /\ Lead(Monic(r)) = Lead(r)
                     /\ \A i \in DOMAIN basis : basis[i].active => ~Divides(basis[i].lt, Lead(r))
    BY <1>1, <1>2, <1>7, ReducedApart
<1>9. Joined(x, y, t, With(D, r))
    BY <1>5, <1>6, <1>8 DEF PairLaws, Criteria, Nonzero, s
<1> HIDE DEF D, r
<1>10. ASSUME r # Zero => Monic(r) \in E PROVE Joined(x, y, t, E)
  <2>1. With(D, r) \in SUBSET E
    BY <1>8, <1>10 DEF With
  <2> QED BY <1>4, <1>9, <2>1, JoinedMore
<1> QED BY <1>8, <1>10 DEF D, x, y, t, r, s

(* A useless pair is joined.                                                  *)
LEMMA UselessPairGood ==
    ASSUME Laws, PairLaws, IInv, GInv, ProcessPair, NEW p \in open,
           UselessPair(p, NormalForm(SPolynomial(basis[p.i].poly, basis[p.j].poly),
                                     PolysAt(basis, ActiveIndices(basis))))
    PROVE  GInv'
<1>1. /\ config' = config /\ generation' = generation /\ trail' = trail /\ cancelled' = cancelled
      /\ open' = open \ {p} /\ told' = told /\ trivial' = trivial /\ basis' = basis
      /\ pc = "running" /\ pc' = pc /\ ~trivial
      /\ NormalForm(SPolynomial(basis[p.i].poly, basis[p.j].poly),
                    PolysAt(basis, ActiveIndices(basis))).nf = Zero
    BY DEF ProcessPair, UselessPair, Rest
<1> SUFFICES ASSUME ~config.cancels PROVE GInv'
    BY <1>1 DEF GInv
<1>2. ~cancelled /\ LevelGood(basis, open, told, trivial, generation)
    BY DEF GInv
<1>3. Complete(basis, open) /\ Generates(basis, told) /\ \A e \in open : e.generation = generation
    BY <1>1, <1>2 DEF LevelGood
<1>4. \A i \in DOMAIN basis : IsElement(basis[i])
    BY LevelIs
<1> DEFINE G == Range(PolyOf(basis))
<1>5. G \in SUBSET Nonzero /\ G \in SUBSET G
    BY <1>4, PolyOfIs, RangeIs
<1>6. Joined(basis[p.i].poly, basis[p.j].poly, Meet(LtsOf(basis), p.i, p.j), G)
    BY <1>1, <1>3, <1>5, PairJoined
<1>7. Complete(basis, open \ {p})
    BY <1>3, <1>6, CompleteRest DEF Joins
<1>8. LevelGood(basis, open \ {p}, told, trivial, generation)
    BY <1>3, <1>7 DEF LevelGood
<1> QED BY <1>1, <1>2, <1>8, GoodKept

(* A pair that gives an element is joined with it; the inter-reduction that   *)
(* may follow rewrites.                                                       *)
LEMMA NewPolyGood ==
    ASSUME Laws, PairLaws, IInv, GInv, ProcessPair, NEW p \in open,
           NewPoly(p, ActiveIndices(basis),
                   NormalForm(SPolynomial(basis[p.i].poly, basis[p.j].poly),
                              PolysAt(basis, ActiveIndices(basis))))
    PROVE  GInv'
<1> DEFINE idx == ActiveIndices(basis)
           r == NormalForm(SPolynomial(basis[p.i].poly, basis[p.j].poly), PolysAt(basis, idx))
           f == Monic(r.nf)
           grown == BasisWith(f, p.sugar)
           d == PairDeps(p, idx, r)
           red == TailReduced(grown, d)
           q == OpenWith(open \ {p}, Lead(f), p.sugar)
           G == Range(PolyOf(grown))
<1>1. /\ config' = config /\ generation' = generation /\ trail' = trail /\ cancelled' = cancelled
      /\ open' = q /\ told' = told /\ trivial' = trivial /\ pc = "running" /\ pc' = pc /\ ~trivial
      /\ r.nf # Zero /\ (basis' = grown \/ basis' = red.basis)
    BY DEF ProcessPair, NewPoly, Rest
<1> SUFFICES ASSUME ~config.cancels PROVE GInv'
    BY <1>1 DEF GInv
<1>2. ~cancelled /\ LevelGood(basis, open, told, trivial, generation)
    BY DEF GInv
<1>3. Complete(basis, open) /\ Generates(basis, told) /\ \A e \in open : e.generation = generation
    BY <1>1, <1>2 DEF LevelGood
<1>4. LeadsRight(basis)
    BY <1>3 DEF Complete
<1>5. /\ told \in Seq(Polys) /\ ToSet(told) \in SUBSET Polys /\ inputs \in Seq(Polys)
      /\ Follows(basis, ToSet(told)) /\ Paired(open, basis)
      /\ \A i \in DOMAIN basis : IsElement(basis[i])
    BY LevelIs
<1>6. Range(PolyOf(basis)) \in SUBSET Nonzero
    BY <1>5, PolyOfIs, RangeIs
<1>7. /\ f \in Nonzero
      /\ \A i \in DOMAIN basis : basis[i].active => ~Divides(basis[i].lt, Lead(f))
  <2> DEFINE H == Range(PolyOf(basis))
  <2>1. H \in SUBSET H
    OBVIOUS
  <2> QED BY <1>1, <1>3, <1>6, <2>1, PairJoined
<1>8. /\ LevelRight(grown, OpenWith(Rest(p), Lead(f), p.sugar), told, FALSE)
      /\ Tracking => DepsOf(grown, d)
    BY <1>1, NewPolyIs
<1>9. Growing(grown, basis, f) /\ DOMAIN basis \subseteq Nat
    BY <1>5, <1>7, Grows
<1>10. G \in SUBSET Nonzero /\ Range(PolyOf(basis)) \in SUBSET G /\ f \in G
    BY <1>4, <1>9, EnlargedIs
<1>11. Joined(basis[p.i].poly, basis[p.j].poly, Meet(LtsOf(basis), p.i, p.j), G)
    BY <1>3, <1>10, PairJoined
<1>12. G \in SUBSET Polys
    BY <1>10 DEF Nonzero
<1>13. Follows(grown, ToSet(told)) /\ \A i \in DOMAIN grown : IsElement(grown[i])
    BY <1>8 DEF LevelRight, Follows
<1> HIDE DEF r, idx, f, grown, d
<1>14. Complete(grown, q)
  <2>1. open \ {p} \in SUBSET open /\ \A e \in open \ (open \ {p}) : e = p
    OBVIOUS
  <2>2. \A e \in open \ (open \ {p}) :
           Joined(basis[e.i].poly, basis[e.j].poly, Meet(LtsOf(basis), e.i, e.j), G)
    BY <1>11, <2>1
  <2> QED BY <1>3, <1>5, <1>9, <2>1, <2>2, CompleteLonger
<1>15. Generates(grown, told)
    BY <1>3, <1>5, <1>10, <1>12, GeneratesLonger
<1>16. \A e \in q : e.generation = generation
    BY <1>3, OpenWithGeneration
<1> HIDE DEF q, G
<1>17. Complete(red.basis, q) /\ Generates(red.basis, told)
  <2> DEFINE c == red.basis
  <2>1. LeadsRight(grown) /\ Apart(grown)
    BY <1>14 DEF Complete
  <2>2. Alike(grown, c) /\ PolyOf(c) \in PolysFrom(DOMAIN grown) /\ Rewrites(PolyOf(grown), PolyOf(c))
    BY <1>5, <1>8, <1>13, <2>1, TailReducedRewrites
  <2> HIDE DEF c
  <2>3. Complete(c, q) /\ Generates(c, told)
    BY <1>5, <1>13, <1>14, <1>15, <2>2, CompleteRewritten
  <2> QED BY <2>3 DEF c
<1> HIDE DEF red
<1>18. LevelGood(basis', q, told, trivial, generation)
    BY <1>1, <1>14, <1>15, <1>16, <1>17 DEF LevelGood
<1> QED BY <1>1, <1>2, <1>18, GoodKept

(* A new engine. *)
LEMMA InitGood ==
    ASSUME Init
    PROVE  GInv
<1>1. basis = <<>> /\ open = {} /\ told = <<>> /\ trail = <<>> /\ ~cancelled /\ generation = 0
    BY DEF Init
<1>2. DOMAIN basis = {} /\ DOMAIN told = {} /\ DOMAIN trail = {} /\ DOMAIN LtsOf(basis) = {}
    BY <1>1 DEF LtsOf
<1>3. Accounted(LtsOf(basis), Edges(basis, open))
    BY <1>2 DEF Accounted
<1>4. Complete(basis, open)
    BY <1>1, <1>2, <1>3 DEF Complete, LeadsRight, Apart, Covered, Meets
<1>5. LevelGood(basis, open, told, trivial, generation)
    BY <1>1, <1>2, <1>4 DEF LevelGood, Generates
<1> QED BY <1>1, <1>2, <1>5 DEF GInv

(* Every step keeps the levels good. *)
LEMMA NextGood ==
    ASSUME Laws, PairLaws, IInv, GInv, [Next]_vars
    PROVE  GInv'
<1>1. CASE AddCall \/ RunOnly \/ Cancel \/ DropGenerators \/ StartRun \/ LosePair
    BY <1>1, QuietGood
<1>2. CASE InsertGenerator
  <2>1. \/ SkipGenerator(Head(todo)) \/ UnitGenerator(Head(todo)) \/ NewGenerator(Head(todo))
    BY <1>2 DEF InsertGenerator
  <2>2. CASE UnitGenerator(Head(todo))
    <3>1. config' = config /\ generation' = generation /\ trail' = trail /\ cancelled' = cancelled /\ trivial' = TRUE
        BY <1>2, <2>2 DEF InsertGenerator, UnitGenerator
    <3> QED BY <3>1, UnitGood
  <2> QED BY <1>2, <2>1, <2>2, SkipGeneratorGood, NewGeneratorGood
<1>3. CASE ProcessPair
  <2>1. PICK p \in open : IF Older(p) THEN SkipPair(p) ELSE ReducePair(p)
    BY <1>3 DEF ProcessPair, NextPairs
  <2> DEFINE r == NormalForm(SPolynomial(basis[p.i].poly, basis[p.j].poly),
                             PolysAt(basis, ActiveIndices(basis)))
  <2>2. /\ config' = config /\ generation' = generation /\ trail' = trail /\ cancelled' = cancelled /\ ~trivial
    BY <1>3 DEF ProcessPair
  <2>3. CASE config.cancels
    BY <2>2, <2>3 DEF GInv
  <2>4. CASE ~config.cancels /\ Older(p)
    BY <2>2, <2>4 DEF GInv, LevelGood, Older
  <2>5. CASE UselessPair(p, r)
    BY <1>3, <2>5, UselessPairGood
  <2>6. CASE UnitPair(p, ActiveIndices(basis), r)
    <3>1. trivial' = TRUE
        BY <2>6 DEF UnitPair
    <3> QED BY <2>2, <3>1, UnitGood
  <2>7. CASE NewPoly(p, ActiveIndices(basis), r)
    BY <1>3, <2>7, NewPolyGood
  <2> QED BY <2>1, <2>3, <2>4, <2>5, <2>6, <2>7 DEF ReducePair
<1>4. CASE FinishRun
    BY <1>4, FinishRunGood
<1>5. CASE Push
    BY <1>5, PushGood
<1>6. CASE Pop
    BY <1>6, PopGood
<1>7. CASE UNCHANGED vars
  <2>1. /\ config' = config /\ generation' = generation /\ trail' = trail /\ cancelled' = cancelled /\ pc' = pc
        /\ basis' = basis /\ open' = open /\ told' = told /\ trivial' = trivial
    BY <1>7 DEF vars, basisVars
  <2> QED BY <2>1, GoodKept DEF GInv
<1> QED BY <1>1, <1>2, <1>3, <1>4, <1>5, <1>6, <1>7 DEF Next, Work, Done

(* An engine that is never cancelled, and holds no constant, holds a Groebner *)
(* basis of what it was told whenever it has no pair left: the product and    *)
(* the chain criterion, the first of the pairs that meet at one monomial, the *)
(* elements put aside, the inter-reductions and the levels gone back to lose  *)
(* no pair that was needed.                                                   *)
THEOREM EngineIsGroebner ==
    ASSUME Laws, PairLaws
    PROVE  Spec => []GroebnerUnlessCancelled
<1>1. Init => GInv
    BY InitGood
<1>2. IInv /\ GInv /\ [Next]_vars => GInv'
    BY NextGood
<1>3. IInv /\ GInv => GroebnerUnlessCancelled
  <2> SUFFICES ASSUME IInv, GInv, ~config.cancels, open = {}, ~trivial
               PROVE  Groebner(Active) /\ \A k \in DOMAIN told : Reduced(told[k]) = Zero
    BY DEF GroebnerUnlessCancelled, QuiescentIsGroebner
  <2>1. Complete(basis, {}) /\ Generates(basis, told)
    BY DEF GInv, LevelGood
  <2>2. Follows(basis, ToSet(told)) /\ told \in Seq(Polys)
    BY LevelIs
  <2>3. LET D == PolysAt(basis, ActiveIndices(basis))
        IN  Groebner(D) /\ \A k \in DOMAIN told : NormalForm(told[k], D).nf = Zero
    BY <2>1, <2>2, CompleteIsGroebner
  <2> QED BY <2>3 DEF Active, Reduced
<1>4. Spec => []IInv
    BY InvariantHolds
<1>5. Spec => []GInv
    BY <1>1, <1>2, <1>4, PTL DEF Spec
<1> QED BY <1>3, <1>4, <1>5, PTL

=============================================================================
