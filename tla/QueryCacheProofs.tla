-------------------------- MODULE QueryCacheProofs --------------------------
(***************************************************************************)
(* The cache never answers wrongly, for every field extension, constraint  *)
(* side, disequality and number of calls, wherever calls are cancelled or  *)
(* panic.  The inductive invariant says that whatever is kept, and what is *)
(* on its way into an engine, follows from the side it is kept for, and    *)
(* which of the base and the two places for a build are taken when.  A     *)
(* second one says that nothing of the side is missing from a build that   *)
(* no cancellation has cut into, and gives that its base is exact.         *)
(***************************************************************************)
EXTENDS QueryCache, TLAPS

Queries == [side : Sides, disequality : Disequalities]

TypeInv ==
    /\ cached \in Bases \cup {None}
    /\ partial \in Builds \cup {None} /\ resumed \in Builds \cup {None}
    /\ pc \in {"idle", "solve", "build", "query", "take", "engine", "answered"}
    /\ pc # "idle" => query \in Queries
    /\ turn \in 1 .. 4
    /\ pc = "engine" => turn \in Partitions
    /\ surviving \subseteq Facts

Control ==
    /\ resumed # None <=> pc \in {"take", "engine"}
    /\ pc \in {"take", "engine"} =>
          cached = None /\ partial = None /\ resumed.side = query.side
    /\ pc = "build" => cached = None /\ partial = None
    /\ partial # None => cached = None
    /\ pc = "query" => cached # None /\ cached.side = query.side

FollowFrom(side, F) == \A f \in F : Entails(FactsOf(side), f)

BaseFollows(c) == \A j \in Partitions : FollowFrom(c.side, c.bases[j])

BuildFollows(b) ==
    \A j \in Partitions : FollowFrom(b.side, b.engines[j].given \cup b.pending[j])

Following ==
    /\ cached # None => BaseFollows(cached)
    /\ partial # None => BuildFollows(partial)
    /\ resumed # None => BuildFollows(resumed)
    /\ pc = "engine" => FollowFrom(resumed.side, surviving)

RightAnswer(a, q) ==
    LET S == Solutions(q.side, q.disequality)
    IN  /\ a.kind = "unsat" => S = {}
        /\ a.kind = "sat" => a.point \in S

Answered == pc = "answered" => RightAnswer(answer, query)

IInv == TypeInv /\ Control /\ Following /\ Answered

-----------------------------------------------------------------------------
(* Consequences of consequences are consequences.                           *)
LEMMA EntailsTransitive ==
    ASSUME NEW F, NEW G, \A g \in G : Entails(F, g)
    PROVE  /\ Zeros(F) \subseteq Zeros(G)
           /\ \A f : Entails(G, f) => Entails(F, f)
BY DEF Entails, Zeros

(* What the partitions start from is the side: the constraints are in the   *)
(* second one, the bitsum definitions in the first.                         *)
LEMMA InitialGeneratorsOfSide ==
    ASSUME NEW s \in Sides
    PROVE  /\ InitialGenerators(s) \in [Partitions -> SUBSET Facts]
           /\ \A j \in Partitions : InitialGenerators(s)[j] \subseteq FactsOf(s)
           /\ InitialGenerators(s)[2] = s.constraints
           /\ FactsOf(s) \subseteq InitialGenerators(s)[1] \cup InitialGenerators(s)[2]
<1>1. FactsOf(s) \subseteq Facts
  BY CacheAssumption DEF CacheAssumption
<1> QED
  BY <1>1 DEF InitialGenerators, FactsOf, Partitions

(* All consequences of a side, in both partitions, are a closed pair above  *)
(* the generators: the fixpoint holds nothing else.                         *)
LEMMA FixpointFollows ==
    ASSUME NEW s \in Sides
    PROVE  /\ Fixpoints[s] \in [Partitions -> SUBSET Facts]
           /\ \A j \in Partitions : FollowFrom(s, Fixpoints[s][j])
<1> DEFINE all == {f \in Facts : Entails(FactsOf(s), f)}
           pair == [j \in Partitions |-> all]
           start == InitialGenerators(s)
<1>1. Fixpoints[s] = FixpointOf(start)
  BY DEF Fixpoints
<1>2. FactsOf(s) \subseteq Facts /\ BitFacts \subseteq Facts
  BY CacheAssumption DEF CacheAssumption
<1>3. \A f \in FactsOf(s) : Entails(FactsOf(s), f)
  BY DEF Entails, Zeros
<1>4. pair \in [Partitions -> SUBSET Facts] /\ \A j \in Partitions : start[j] \subseteq pair[j]
  BY <1>2, <1>3, InitialGeneratorsOfSide
<1>5. \A f : Entails(all, f) \/ Entails(all \cup all, f) => Entails(FactsOf(s), f)
  BY EntailsTransitive
<1>6. Closed(pair)
  <2> DEFINE shown == [j \in Partitions |-> {f \in Linear : Entails(pair[j], f)}]
  <2>1. ASSUME NEW f \in Offered(shown, pair[1] \cup pair[2])
        PROVE  f \in all
    <3>1. CASE f \in shown[1] \cup shown[2]
      <4>1. f \in Linear /\ Entails(all, f)
        BY <3>1 DEF Partitions
      <4> QED
        BY <4>1, <1>5 DEF Linear
    <3>2. CASE f \in BitFacts /\ Entails(pair[1] \cup pair[2], f)
      <4>1. pair[1] \cup pair[2] = all \cup all
        BY DEF Partitions
      <4> QED
        BY <3>2, <4>1, <1>2, <1>5
    <3> QED
      BY <2>1, <3>1, <3>2 DEF Offered
  <2> QED
    BY <2>1 DEF Closed
<1>7. \A j \in Partitions : FixpointOf(start)[j] \subseteq all
  BY <1>4, <1>6 DEF FixpointOf
<1>8. FixpointOf(start) \in [Partitions -> SUBSET Facts]
  BY DEF FixpointOf
<1> QED
  BY <1>1, <1>7, <1>8 DEF FollowFrom

(* The fallback is right by itself.                                         *)
LEMMA StatelessRight ==
    ASSUME NEW q, NEW a \in StatelessAnswers(q)
    PROVE  RightAnswer(a, q)
BY DEF StatelessAnswers, RightAnswer, Unknown, Unsat, Sat

(* An answer from a base is right as soon as the base follows from the      *)
(* side: fewer facts only leave more zeros, and a point is verified.        *)
LEMMA CachedRight ==
    ASSUME NEW q, NEW base, base.side = q.side, BaseFollows(base),
           NEW a \in CachedAnswers(base, q)
    PROVE  RightAnswer(a, q)
<1> DEFINE both == base.bases[1] \cup base.bases[2]
           differ == q.disequality.differ
<1>1. Zeros(FactsOf(q.side)) \subseteq Zeros(both)
  <2>1. \A f \in both : Entails(FactsOf(q.side), f)
    BY DEF BaseFollows, FollowFrom, Partitions
  <2> QED
    BY <2>1, EntailsTransitive
<1>2. Solutions(q.side, q.disequality) \subseteq Zeros(both) \cap differ \cap Rational
  BY <1>1 DEF Solutions
<1>3. CASE a = Unknown
  BY <1>3 DEF RightAnswer, Unknown
<1>4. CASE /\ a = Unsat
           /\ \/ (Zeros(both) \cap differ) \cap Rational = {}
              \/ Zeros(FactsOf(base.side)) \cap differ = {}
  <2>1. Solutions(q.side, q.disequality) = {}
    BY <1>2, <1>4 DEF Solutions
  <2> QED
    BY <1>4, <2>1 DEF RightAnswer, Unsat
<1>5. CASE \E p \in Verified(base, (Zeros(both) \cap differ) \cap Rational) : a = Sat(p)
  <2>1. PICK p \in Verified(base, (Zeros(both) \cap differ) \cap Rational) : a = Sat(p)
    BY <1>5
  <2>2. p \in Solutions(q.side, q.disequality)
    BY DEF Verified, Solutions
  <2> QED
    BY <2>1, <2>2 DEF RightAnswer, Sat
<1> QED
  BY <1>3, <1>4, <1>5 DEF CachedAnswers

(* What a round offers follows from the build it works on, unless an engine *)
(* holds a unit and recognises everything.                                  *)
LEMMA CandidatesFollow ==
    ASSUME resumed \in Builds, BuildFollows(resumed), ~AnyTrivial
    PROVE  Candidates \subseteq Facts /\ FollowFrom(resumed.side, Candidates)
<1> USE DEF Builds, Engines
<1>1. \A j \in Partitions : /\ Given[j] \subseteq Facts
                             /\ FollowFrom(resumed.side, Given[j])
  BY DEF Given, BuildFollows, FollowFrom
<1>2. ASSUME NEW j \in Partitions, NEW f \in Shown[j]
      PROVE  f \in Facts /\ Entails(FactsOf(resumed.side), f)
  <2>1. f \in Facts
    BY <1>2 DEF Shown, Linear
  <2>2. CASE f \in Given[j]
    BY <1>1, <2>1, <2>2 DEF FollowFrom
  <2>3. CASE Sees(resumed.engines[j], f)
    <3>1. ~resumed.engines[j].trivial
      BY DEF AnyTrivial
    <3>2. Entails(Given[j], f)
      BY <2>3, <3>1 DEF Sees, Given
    <3> QED
      BY <1>1, <2>1, <3>2, EntailsTransitive DEF FollowFrom
  <2> QED
    BY <1>2, <2>2, <2>3 DEF Shown
<1>3. ASSUME NEW f \in BitFacts, Entails(Given[1] \cup Given[2], f)
      PROVE  f \in Facts /\ Entails(FactsOf(resumed.side), f)
  <2> DEFINE given == Given[1] \cup Given[2]
  <2>1. \A g \in given : Entails(FactsOf(resumed.side), g)
    BY <1>1 DEF FollowFrom, Partitions
  <2>2. Entails(given, f) /\ f \in Facts
    BY <1>3, CacheAssumption DEF CacheAssumption
  <2> HIDE DEF given
  <2> QED
    BY <2>1, <2>2, EntailsTransitive
<1> QED
  BY <1>2, <1>3 DEF Candidates, Offered, FollowFrom, Partitions

(* A round over some of the candidates keeps the build a build of its side. *)
LEMMA ClassifiedFollows ==
    ASSUME resumed \in Builds, BuildFollows(resumed), ~AnyTrivial,
           NEW C \in SUBSET Candidates
    PROVE  /\ Classified(C) \in Builds
           /\ Classified(C).side = resumed.side
           /\ BuildFollows(Classified(C))
<1> DEFINE new(j) == {c[1] : c \in {d \in NewGenerators(C) : d[2] = j}}
           b == Classified(C)
<1>1. C \subseteq Facts /\ FollowFrom(resumed.side, C)
  BY CandidatesFollow DEF FollowFrom
<1>2. Fits(C) \subseteq C \X Partitions /\ NewGenerators(C) \subseteq C \X Partitions
  BY DEF Fits, NewGenerators
<1>3. \A j \in Partitions : new(j) \subseteq C
  BY <1>2
<1>4. Seeded \cup Fits(C) \subseteq Facts \X Partitions
  <2>1. \A j \in Partitions : Shown[j] \subseteq Facts
    BY DEF Shown, Linear
  <2>2. resumed.memo \subseteq Facts \X Partitions
    BY DEF Builds
  <2> QED
    BY <1>1, <1>2, <2>1, <2>2 DEF Seeded
<1>5. b = [resumed EXCEPT !.memo = Seeded \cup Fits(C),
                          !.pending = [j \in Partitions |-> resumed.pending[j] \cup new(j)]]
  BY DEF Classified, Builds
<1>6. b \in Builds /\ b.side = resumed.side /\ b.engines = resumed.engines
      /\ b.pending = [j \in Partitions |-> resumed.pending[j] \cup new(j)]
  <2>1. [j \in Partitions |-> resumed.pending[j] \cup new(j)] \in [Partitions -> SUBSET Facts]
    BY <1>1, <1>3 DEF Builds
  <2> HIDE DEF new
  <2> QED
    BY <1>4, <1>5, <2>1 DEF Builds
<1> QED
  BY <1>1, <1>3, <1>6 DEF BuildFollows, FollowFrom

-----------------------------------------------------------------------------
LEMMA InitInv == Init => IInv
<1> SUFFICES ASSUME Init PROVE IInv
  OBVIOUS
<1>1. TypeInv
  BY DEF Init, TypeInv
<1>2. Control /\ Following /\ Answered
  BY DEF Init, Control, Following, Answered
<1> QED
  BY <1>1, <1>2 DEF IInv

LEMMA CallInv == IInv /\ Call => IInv'
<1> SUFFICES ASSUME IInv, Call PROVE IInv'
  OBVIOUS
<1> USE DEF IInv, Call
<1>1. TypeInv'
  <2>1. query' \in Queries
    BY DEF Queries
  <2> QED
    BY <2>1 DEF TypeInv
<1>2. Control' /\ Following' /\ Answered'
  BY DEF TypeInv, Control, Following, Answered, BaseFollows, BuildFollows
<1> QED
  BY <1>1, <1>2

LEMMA CancelInv == IInv /\ Cancel => IInv'
BY DEF IInv, Cancel, TypeInv, Control, Following, Answered, BaseFollows, BuildFollows

LEMMA PanicInv == IInv /\ Panic => IInv'
<1> SUFFICES ASSUME IInv, Panic PROVE IInv'
  OBVIOUS
<1> USE DEF IInv, Panic, Return
<1>1. TypeInv'
  BY DEF TypeInv
<1>2. Control'
  BY DEF TypeInv, Control
<1>3. Following'
  BY DEF Following, BaseFollows, BuildFollows
<1>4. Answered'
  BY DEF Answered, RightAnswer, Unknown
<1> QED
  BY <1>1, <1>2, <1>3, <1>4

LEMMA FirstSightInv == IInv /\ FirstSight => IInv'
<1> SUFFICES ASSUME IInv, FirstSight PROVE IInv'
  OBVIOUS
<1> USE DEF IInv, FirstSight, Return
<1>1. TypeInv'
  BY DEF TypeInv
<1>2. Control'
  BY DEF TypeInv, Control
<1>3. Following'
  BY DEF Control, Following
<1>4. Answered'
  BY StatelessRight DEF Answered, RightAnswer
<1> QED
  BY <1>1, <1>2, <1>3, <1>4

LEMMA HitInv == IInv /\ Hit => IInv'
<1> SUFFICES ASSUME IInv, Hit PROVE IInv'
  OBVIOUS
<1> USE DEF IInv, Hit, CacheMatches
<1>1. TypeInv'
  BY DEF TypeInv
<1>2. Control'
  BY DEF TypeInv, Control
<1>3. Following' /\ Answered'
  BY DEF Following, Answered, BaseFollows, BuildFollows
<1> QED
  BY <1>1, <1>2, <1>3

LEMMA ResumeInv == IInv /\ Resume => IInv'
<1> SUFFICES ASSUME IInv, Resume PROVE IInv'
  OBVIOUS
<1> USE DEF IInv, Resume, PartialMatches
<1>1. TypeInv'
  BY DEF TypeInv
<1>2. Control'
  BY DEF TypeInv, Control
<1>3. Following' /\ Answered'
  BY DEF Control, Following, Answered, BaseFollows, BuildFollows
<1> QED
  BY <1>1, <1>2, <1>3

LEMMA RebuildInv == IInv /\ Rebuild => IInv'
<1> SUFFICES ASSUME IInv, Rebuild PROVE IInv'
  OBVIOUS
<1> USE DEF IInv, Rebuild, Return
<1>1. TypeInv'
  BY DEF TypeInv
<1>2. Control'
  BY DEF TypeInv, Control
<1>3. Following'
  BY DEF Control, Following
<1>4. Answered'
  BY StatelessRight DEF Answered, RightAnswer
<1> QED
  BY <1>1, <1>2, <1>3, <1>4

(* A build from nothing has the generators of its side before it.           *)
LEMMA NewPartialFollows ==
    ASSUME NEW q \in Queries
    PROVE  NewPartial(q) \in Builds /\ BuildFollows(NewPartial(q))
<1>1. q.side \in Sides
  BY DEF Queries
<1>2. NewEngine \in Engines
  BY DEF NewEngine, Engines
<1>3. q.side.vars \cup q.disequality.vars \in Rings
  BY DEF Queries, Rings
<1>4. /\ InitialGenerators(q.side) \in [Partitions -> SUBSET Facts]
      /\ \A j \in Partitions : InitialGenerators(q.side)[j] \subseteq FactsOf(q.side)
  BY <1>1, InitialGeneratorsOfSide
<1>5. NewPartial(q) \in Builds
  BY <1>1, <1>2, <1>3, <1>4 DEF NewPartial, Builds
<1>6. \A f \in FactsOf(q.side) : Entails(FactsOf(q.side), f)
  BY DEF Entails, Zeros
<1>7. BuildFollows(NewPartial(q))
  BY <1>4, <1>6 DEF BuildFollows, FollowFrom, NewPartial, NewEngine
<1> QED
  BY <1>5, <1>7

LEMMA BuildInv == IInv /\ Build => IInv'
<1> SUFFICES ASSUME IInv, Build PROVE IInv'
  OBVIOUS
<1> USE DEF IInv, Build
<1>1. query \in Queries /\ query.side \in Sides
  BY DEF TypeInv, Queries
<1>2. CASE cancelled
  <2>1. NewPartial(query) \in Builds /\ BuildFollows(NewPartial(query))
    BY <1>1, NewPartialFollows
  <2>2. TypeInv'
    BY <1>2, <2>1 DEF TypeInv, Return
  <2>3. Control'
    BY <1>2, <2>1 DEF TypeInv, Control, Return
  <2>4. Following' /\ Answered'
    BY <1>2, <2>1 DEF Control, Following, Answered, RightAnswer, Unknown, Return,
                      BuildFollows
  <2> QED
    BY <2>2, <2>3, <2>4
<1>3. CASE ~cancelled
  <2> DEFINE base == Base(query, Fixpoints[query.side])
  <2>1. base \in Bases
    <3>1. query.side.vars \cup query.disequality.vars \in Rings
      BY <1>1 DEF Queries, Rings
    <3> QED
      BY <1>1, <3>1, FixpointFollows DEF Base, Bases
  <2>2. base.side = query.side /\ BaseFollows(base)
    BY <1>1, FixpointFollows DEF Base, BaseFollows
  <2>3. cached' = base /\ pc' = "query" /\ UNCHANGED <<partial, answer>>
    BY <1>3
  <2> HIDE DEF base
  <2>4. TypeInv'
    BY <2>1, <2>3 DEF TypeInv
  <2>5. Control'
    BY <2>1, <2>2, <2>3, NoneAssumption DEF NoneAssumption, Control
  <2>6. Following' /\ Answered'
    BY <2>2, <2>3 DEF Control, Following, Answered, BaseFollows
  <2> QED
    BY <2>4, <2>5, <2>6
<1> QED
  BY <1>2, <1>3

LEMMA QueryInv == IInv /\ Query => IInv'
<1> SUFFICES ASSUME IInv, Query PROVE IInv'
  OBVIOUS
<1> USE DEF IInv, Query, Return
<1>1. TypeInv'
  BY DEF TypeInv
<1>2. Control'
  BY DEF Control
<1>3. Following'
  BY DEF Following, BaseFollows, BuildFollows
<1>4. RightAnswer(answer', query)
  <2>1. cached # None /\ cached.side = query.side /\ BaseFollows(cached)
    BY DEF Control, Following
  <2> QED
    BY <2>1, StatelessRight, CachedRight
<1>5. Answered'
  BY <1>4 DEF Answered, RightAnswer
<1> QED
  BY <1>1, <1>2, <1>3, <1>5

-----------------------------------------------------------------------------
(* A build put back for the next call.                                      *)
LEMMA StillPartialInv ==
    ASSUME IInv, pc \in {"take", "engine"},
           NEW b \in Builds, BuildFollows(b), StillPartial(b),
           UNCHANGED <<cached, query, turn, surviving>>
    PROVE  IInv'
<1> USE DEF IInv, StillPartial, Return
<1>1. TypeInv'
  BY DEF TypeInv
<1>2. Control'
  BY DEF Control
<1>3. Following' /\ Answered'
  BY DEF Control, Following, Answered, RightAnswer, Unknown, BuildFollows
<1> QED
  BY <1>1, <1>2, <1>3

(* The build at work.                                                       *)
LEMMA AtWork ==
    ASSUME IInv, pc \in {"take", "engine"}
    PROVE  /\ resumed \in Builds /\ resumed # None /\ BuildFollows(resumed)
           /\ cached = None /\ partial = None /\ resumed.side = query.side
BY DEF IInv, TypeInv, Control, Following

LEMMA TakeInv == IInv /\ Take => IInv'
<1> SUFFICES ASSUME IInv, Take PROVE IInv'
  OBVIOUS
<1> DEFINE e == resumed.engines[turn]
           left == {f \in resumed.pending[turn] : ~Sees(e, f)}
           taken == [resumed EXCEPT !.pending[turn] = {}]
<1>1. pc = "take" /\ turn \in Partitions /\ UNCHANGED <<cached, query>>
  BY DEF Take
<1>2. /\ resumed \in Builds /\ resumed # None /\ BuildFollows(resumed)
      /\ cached = None /\ partial = None /\ resumed.side = query.side
  BY <1>1, AtWork
<1>3. CASE cancelled
  BY <1>1, <1>2, <1>3, StillPartialInv DEF Take
<1>4. CASE ~cancelled /\ resumed.pending[turn] = {} /\ ~e.open
  <2>1. turn' = turn + 1 /\ UNCHANGED <<partial, resumed, work, surviving, pc, answer>>
    BY <1>4 DEF Take
  <2>2. turn' \in 1 .. 4
    BY <1>1, <2>1 DEF Partitions
  <2>3. TypeInv'
    BY <1>1, <2>1, <2>2 DEF IInv, TypeInv
  <2> QED
    BY <1>1, <1>2, <2>1, <2>3
       DEF IInv, Control, Following, Answered, BuildFollows
<1>5. CASE ~cancelled /\ ~(resumed.pending[turn] = {} /\ ~e.open)
  <2>1. /\ surviving' = left /\ resumed' = taken
        /\ work' = TRUE /\ pc' = "engine" /\ UNCHANGED <<partial, turn, answer>>
    BY <1>5 DEF Take
  <2>2. left \subseteq Facts /\ FollowFrom(resumed.side, left)
    BY <1>1, <1>2 DEF Builds, BuildFollows, FollowFrom
  <2>3. taken \in Builds /\ taken.side = resumed.side
    BY <1>1, <1>2 DEF Builds
  <2>4. BuildFollows(taken)
    BY <1>1, <1>2 DEF Builds, BuildFollows, FollowFrom
  <2> HIDE DEF left, taken
  <2>5. TypeInv'
    BY <1>1, <2>1, <2>2, <2>3 DEF IInv, TypeInv
  <2>6. Control'
    BY <1>1, <1>2, <2>1, <2>3, NoneAssumption DEF NoneAssumption, IInv, Control
  <2>7. Following' /\ Answered'
    BY <1>1, <1>2, <2>1, <2>2, <2>3, <2>4
       DEF IInv, Following, Answered, BuildFollows, FollowFrom
  <2> QED
    BY <2>5, <2>6, <2>7 DEF IInv
<1> QED
  BY <1>3, <1>4, <1>5

LEMMA EngineCancelledInv == IInv /\ EngineCancelled => IInv'
<1> SUFFICES ASSUME IInv, EngineCancelled PROVE IInv'
  OBVIOUS
<1>1. /\ pc = "engine" /\ turn \in Partitions /\ surviving \subseteq Facts
      /\ UNCHANGED <<cached, query, turn, surviving>>
  BY DEF EngineCancelled, IInv, TypeInv
<1>2. resumed \in Builds /\ BuildFollows(resumed)
  BY <1>1, AtWork
<1>3. FollowFrom(resumed.side, surviving)
  BY <1>1 DEF IInv, Following
<1>4. CASE StillPartial(WithSurviving)
  <2>1. WithSurviving \in Builds
    BY <1>1, <1>2 DEF WithSurviving, Builds
  <2>2. BuildFollows(WithSurviving)
    BY <1>1, <1>2, <1>3 DEF WithSurviving, Builds, BuildFollows, FollowFrom
  <2> QED
    BY <1>1, <1>4, <2>1, <2>2, StillPartialInv
<1>5. CASE \E e \in Interruptions(resumed.engines[turn], surviving) :
              StillPartial([resumed EXCEPT !.engines[turn] = e, !.interrupted = TRUE])
  <2>1. PICK e \in Interruptions(resumed.engines[turn], surviving) :
              StillPartial([resumed EXCEPT !.engines[turn] = e, !.interrupted = TRUE])
    BY <1>5
  <2> DEFINE b == [resumed EXCEPT !.engines[turn] = e, !.interrupted = TRUE]
  <2>2. resumed.engines[turn] \in Engines
    BY <1>1, <1>2 DEF Builds
  <2>3. e \in Engines /\ e.given \subseteq resumed.engines[turn].given \cup surviving
    <3> DEFINE old == resumed.engines[turn]
    <3>1. old.given \subseteq Facts /\ old.lost \in BOOLEAN /\ old.trivial \in BOOLEAN
      BY <2>2 DEF Engines
    <3>2. e \in [given : {old.given \cup inserted : inserted \in SUBSET surviving},
                 open : BOOLEAN, lost : {old.lost, TRUE}, trivial : {old.trivial}]
      BY <2>1 DEF Interruptions
    <3> HIDE DEF old
    <3>3. PICK inserted \in SUBSET surviving : e.given = old.given \cup inserted
      BY <3>2
    <3>4. /\ e = [given |-> e.given, open |-> e.open, lost |-> e.lost, trivial |-> e.trivial]
          /\ e.open \in BOOLEAN /\ e.lost \in {old.lost, TRUE} /\ e.trivial \in {old.trivial}
      BY <3>2
    <3>5. e.lost \in BOOLEAN /\ e.trivial \in BOOLEAN
      BY <3>1, <3>4
    <3>6. e.given \subseteq Facts
      BY <1>1, <3>1, <3>3
    <3>7. e \in Engines
      BY <3>4, <3>5, <3>6 DEF Engines
    <3> QED
      BY <3>3, <3>7 DEF old
  <2>4. b \in Builds
    BY <1>1, <1>2, <2>3 DEF Builds
  <2>5. BuildFollows(b)
    BY <1>1, <1>2, <1>3, <2>3 DEF Builds, BuildFollows, FollowFrom
  <2> QED
    BY <1>1, <2>1, <2>4, <2>5, StillPartialInv
<1> QED
  BY <1>4, <1>5 DEF EngineCancelled

LEMMA EngineReturnsInv == IInv /\ EngineReturns => IInv'
<1> SUFFICES ASSUME IInv, EngineReturns PROVE IInv'
  OBVIOUS
<1>1. /\ pc = "engine" /\ turn \in Partitions /\ surviving \subseteq Facts
      /\ pc' = "take" /\ turn' = turn + 1 /\ surviving' = {}
      /\ UNCHANGED <<cached, partial, query, answer>>
  BY DEF EngineReturns, IInv, TypeInv
<1>2. /\ resumed \in Builds /\ BuildFollows(resumed) /\ resumed.side = query.side
      /\ cached = None /\ partial = None
  BY <1>1, AtWork
<1>3. FollowFrom(resumed.side, surviving)
  BY <1>1 DEF IInv, Following
<1>4. PICK e \in Completions(resumed.engines[turn], surviving) :
          resumed' = [resumed EXCEPT !.engines[turn] = e]
  BY DEF EngineReturns
<1>5. resumed.engines[turn] \in Engines
  BY <1>1, <1>2 DEF Builds
<1>6. e \in Engines /\ e.given = resumed.engines[turn].given \cup surviving
  BY <1>1, <1>4, <1>5, ZenonT(30) DEF Completions, Engines
<1>7. resumed' \in Builds /\ resumed'.side = resumed.side
  BY <1>1, <1>2, <1>4, <1>6 DEF Builds
<1>8. BuildFollows(resumed')
  BY <1>1, <1>2, <1>3, <1>4, <1>6 DEF Builds, BuildFollows, FollowFrom
<1>9. TypeInv'
  <2>1. turn' \in 1 .. 4
    BY <1>1 DEF Partitions
  <2> QED
    BY <1>1, <1>2, <1>7, <2>1 DEF IInv, TypeInv
<1>10. Control'
  BY <1>1, <1>2, <1>7, NoneAssumption DEF NoneAssumption, IInv, Control
<1>11. Following' /\ Answered'
  BY <1>1, <1>2, <1>8 DEF Following, Answered, BuildFollows
<1> QED
  BY <1>9, <1>10, <1>11 DEF IInv

LEMMA PropagateInv == IInv /\ Propagate => IInv'
<1> SUFFICES ASSUME IInv, Propagate PROVE IInv'
  OBVIOUS
<1>1. /\ pc = "take" /\ ~AnyTrivial /\ resumed' = Classified(Candidates)
      /\ turn' \in 1 .. 4
      /\ UNCHANGED <<cached, partial, query, surviving, pc, answer>>
  BY DEF Propagate
<1>2. /\ resumed \in Builds /\ BuildFollows(resumed) /\ resumed.side = query.side
      /\ cached = None /\ partial = None
  BY <1>1, AtWork
<1>3. resumed' \in Builds /\ resumed'.side = query.side /\ BuildFollows(resumed')
  BY <1>1, <1>2, ClassifiedFollows
<1>4. TypeInv'
  BY <1>1, <1>2, <1>3 DEF IInv, TypeInv
<1>5. Control'
  BY <1>1, <1>2, <1>3, NoneAssumption DEF NoneAssumption, IInv, Control
<1>6. Following' /\ Answered'
  BY <1>1, <1>2, <1>3 DEF Following, Answered, BuildFollows
<1> QED
  BY <1>4, <1>5, <1>6 DEF IInv

LEMMA PropagateCancelledInv == IInv /\ PropagateCancelled => IInv'
<1> SUFFICES ASSUME IInv, PropagateCancelled PROVE IInv'
  OBVIOUS
<1>1. pc = "take" /\ UNCHANGED <<cached, query, turn, surviving>>
  BY DEF PropagateCancelled
<1>2. resumed \in Builds /\ BuildFollows(resumed)
  BY <1>1, AtWork
<1>3. CASE StillPartial(resumed)
  BY <1>1, <1>2, <1>3, StillPartialInv
<1>4. CASE ~AnyTrivial /\ \E C \in SUBSET Candidates : StillPartial(Classified(C))
  <2>1. PICK C \in SUBSET Candidates : StillPartial(Classified(C))
    BY <1>4
  <2>2. Classified(C) \in Builds /\ BuildFollows(Classified(C))
    BY <1>2, <1>4, ClassifiedFollows
  <2> QED
    BY <1>1, <2>1, <2>2, StillPartialInv
<1> QED
  BY <1>3, <1>4 DEF PropagateCancelled

LEMMA EndResumeInv == IInv /\ EndResume => IInv'
<1> SUFFICES ASSUME IInv, EndResume PROVE IInv'
  OBVIOUS
<1>1. pc = "take" /\ UNCHANGED <<query, turn, surviving>>
  BY DEF EndResume
<1>2. /\ resumed \in Builds /\ BuildFollows(resumed) /\ resumed.side = query.side
      /\ cached = None /\ partial = None
  BY <1>1, AtWork
<1>3. CASE ~Quiescent
  BY <1>1, <1>2, <1>3, StillPartialInv DEF EndResume
<1>4. CASE Quiescent
  <2> DEFINE c == [side |-> resumed.side, ring |-> resumed.ring,
                   bases |-> Given, interrupted |-> resumed.interrupted]
  <2>1. /\ cached' = c /\ resumed' = None /\ pc' = "query"
        /\ UNCHANGED <<partial, answer>>
    BY <1>4 DEF EndResume
  <2>2. Given \in [Partitions -> SUBSET Facts]
    BY <1>2 DEF Given, Builds, Engines
  <2>3. c \in Bases /\ c.side = query.side
    BY <1>2, <2>2 DEF Builds, Bases
  <2>4. BaseFollows(c)
    BY <1>2 DEF BaseFollows, BuildFollows, FollowFrom, Given
  <2> HIDE DEF c
  <2>5. TypeInv'
    BY <1>1, <1>2, <2>1, <2>3 DEF IInv, TypeInv
  <2>6. Control'
    BY <1>1, <1>2, <2>1, <2>3, NoneAssumption DEF NoneAssumption, IInv, Control
  <2>7. Following' /\ Answered'
    BY <1>2, <2>1, <2>4 DEF Following, Answered, BaseFollows
  <2> QED
    BY <2>5, <2>6, <2>7 DEF IInv
<1> QED
  BY <1>3, <1>4

LEMMA CollectInv == IInv /\ Collect => IInv'
<1> SUFFICES ASSUME IInv, Collect PROVE IInv'
  OBVIOUS
<1> USE DEF IInv, Collect
<1>1. TypeInv'
  BY DEF TypeInv
<1>2. Control' /\ Following' /\ Answered'
  BY DEF Control, Following, Answered, BaseFollows, BuildFollows
<1> QED
  BY <1>1, <1>2

LEMMA StutterInv == IInv /\ UNCHANGED vars => IInv'
BY DEF IInv, vars, TypeInv, Control, Following, Answered, RightAnswer, BaseFollows, BuildFollows

-----------------------------------------------------------------------------
LEMMA NextInv == IInv /\ [Next]_vars => IInv'
<1> SUFFICES ASSUME IInv, [Next]_vars PROVE IInv'
  OBVIOUS
<1>1. CASE Call
  BY <1>1, CallInv
<1>2. CASE Cancel
  BY <1>2, CancelInv
<1>3. CASE Panic
  BY <1>3, PanicInv
<1>4. CASE FirstSight \/ Hit \/ Resume \/ Rebuild \/ Build \/ Query
  BY <1>4, FirstSightInv, HitInv, ResumeInv, RebuildInv, BuildInv, QueryInv
<1>5. CASE Take \/ EngineCancelled \/ EngineReturns \/ Propagate \/ PropagateCancelled
  BY <1>5, TakeInv, EngineCancelledInv, EngineReturnsInv, PropagateInv,
     PropagateCancelledInv
<1>6. CASE EndResume \/ Collect
  BY <1>6, EndResumeInv, CollectInv
<1>7. CASE Done \/ UNCHANGED vars
  BY <1>7, StutterInv DEF Done
<1> QED
  BY <1>1, <1>2, <1>3, <1>4, <1>5, <1>6, <1>7 DEF Next, Work

(* The invariant holds in every reachable state of the cache                *)
(* (incremental_context.rs).                                                *)
THEOREM InvariantHolds == Spec => []IInv
<1>1. Init => IInv
  BY InitInv
<1>2. IInv /\ [Next]_vars => IInv'
  BY NextInv
<1> QED
  BY <1>1, <1>2, PTL DEF Spec

(* What is kept over calls follows from the side it is kept for, wherever   *)
(* they were cut short (IncrementalSolverContext, its three fields).        *)
THEOREM KeptFacts == Spec => []KeptFactsFollow
<1>1. IInv => KeptFactsFollow
  BY DEF IInv, TypeInv, Control, Following, BaseFollows, BuildFollows, FollowFrom,
         KeptFactsFollow
<1> QED
  BY <1>1, InvariantHolds, PTL

(* No call is answered wrongly, from a base, a resumed build or without     *)
(* either (solve and the comment on what a digest match is trusted for).    *)
THEOREM RightAnswers == Spec => []AnswersRight
<1>1. IInv => AnswersRight
  BY DEF IInv, Answered, RightAnswer, AnswersRight
<1> QED
  BY <1>1, InvariantHolds, PTL

-----------------------------------------------------------------------------
(* Exactness: a second invariant, over the first one.                       *)

(* What a fact given to a partition may still be on its way to: the engine,  *)
(* the queue, or, in the engine's turn, the generators that survived.       *)
Nothing == [j \in Partitions |-> {}]
OnTheWay == [j \in Partitions |-> IF pc = "engine" /\ j = turn THEN surviving ELSE {}]
Held(b, X, j) == b.engines[j].given \cup b.pending[j] \cup X[j]

SoundEngine(e) ==
    ~e.lost /\ (e.open => e.trivial) /\ (e.trivial => Zeros(e.given) = {})

(* No cancellation inside an engine: nothing a partition was to start from, *)
(* and nothing the memo answers for, is missing.                            *)
Complete(b, X) ==
    /\ \A j \in Partitions : SoundEngine(b.engines[j])
    /\ \A j \in Partitions : \A f \in InitialGenerators(b.side)[j] : Entails(Held(b, X, j), f)
    /\ \A m \in b.memo : Entails(Held(b, X, m[2]), m[1])

ExactBase(c) ==
    /\ Zeros(c.bases[2]) \subseteq Zeros(c.side.constraints)
    /\ Zeros(c.bases[1] \cup c.bases[2]) = Zeros(FactsOf(c.side))
    /\ Zeros(FactsOf(c.side)) # {} => Crossed(c.bases)

Rounds ==
    /\ pc = "engine" => resumed.pending[turn] = {}
    /\ pc \in {"take", "engine"} => \A j \in Partitions : j < turn => resumed.pending[j] = {}
    /\ pc = "take" /\ turn = 4 /\ ~resumed.interrupted => Crossed(Given)

Exact ==
    /\ cached # None /\ ~cached.interrupted => ExactBase(cached)
    /\ partial # None /\ ~partial.interrupted => Complete(partial, Nothing)
    /\ resumed # None /\ ~resumed.interrupted => Complete(resumed, OnTheWay)
    /\ Rounds

-----------------------------------------------------------------------------
(* A fact entails itself, and more facts entail more.                       *)
LEMMA EntailsMonotone ==
    ASSUME NEW F, NEW G, F \subseteq G
    PROVE  /\ \A f \in F : Entails(F, f)
           /\ \A f : Entails(F, f) => Entails(G, f)
           /\ Zeros(G) \subseteq Zeros(F)
BY DEF Entails, Zeros

LEMMA MoreEntail ==
    ASSUME NEW F, NEW G, F \subseteq G, NEW f, Entails(F, f)
    PROVE  Entails(G, f)
BY DEF Entails, Zeros

LEMMA MemberEntailed ==
    ASSUME NEW F, NEW f \in F
    PROVE  Entails(F, f)
BY DEF Entails, Zeros

(* A sound engine recognises exactly what it entails.                       *)
LEMMA SoundSees ==
    ASSUME NEW e, SoundEngine(e), NEW f
    PROVE  /\ Sees(e, f) => Entails(e.given, f)
           /\ Entails(e.given, f) /\ ~e.trivial => Sees(e, f)
BY DEF SoundEngine, Sees, Entails

(* A pair of bases that has all of what the partitions start from, and      *)
(* follows from the side, has the zeros of the side.                        *)
LEMMA PairExact ==
    ASSUME NEW s \in Sides, NEW B,
           \A j \in Partitions : \A f \in InitialGenerators(s)[j] : Entails(B[j], f),
           \A j \in Partitions : FollowFrom(s, B[j])
    PROVE  /\ Zeros(B[2]) \subseteq Zeros(s.constraints)
           /\ Zeros(B[1] \cup B[2]) = Zeros(FactsOf(s))
<1> DEFINE both == B[1] \cup B[2]
<1>1. Zeros(B[2]) \subseteq Zeros(s.constraints)
  <2>1. \A f \in s.constraints : Entails(B[2], f)
    BY InitialGeneratorsOfSide DEF Partitions
  <2> QED BY <2>1, EntailsTransitive
<1>2. Zeros(FactsOf(s)) \subseteq Zeros(both)
  <2>1. \A f \in both : Entails(FactsOf(s), f)
    BY DEF FollowFrom, Partitions
  <2> QED BY <2>1, EntailsTransitive
<1>3. Zeros(both) \subseteq Zeros(FactsOf(s))
  <2>1. ASSUME NEW f \in FactsOf(s) PROVE Entails(both, f)
    <3>1. PICK j \in Partitions : f \in InitialGenerators(s)[j]
      BY <2>1, InitialGeneratorsOfSide DEF Partitions
    <3>2. Entails(B[j], f)
      BY <3>1
    <3>3. B[j] \subseteq both
      BY <3>1 DEF Partitions
    <3> HIDE DEF both
    <3> QED BY <3>2, <3>3, MoreEntail
  <2> HIDE DEF both
  <2> QED BY <2>1, EntailsTransitive
<1> QED BY <1>1, <1>2, <1>3

(* The fixpoint of a build from the start is exact: it holds the generators *)
(* of the side, and the intersection of closed pairs is closed.             *)
LEMMA FixpointExact ==
    ASSUME NEW s \in Sides
    PROVE  /\ Zeros(Fixpoints[s][2]) \subseteq Zeros(s.constraints)
           /\ Zeros(Fixpoints[s][1] \cup Fixpoints[s][2]) = Zeros(FactsOf(s))
           /\ Crossed(Fixpoints[s])
<1> DEFINE start == InitialGenerators(s)
           above == {b \in [Partitions -> SUBSET Facts] :
                        Closed(b) /\ \A j \in Partitions : start[j] \subseteq b[j]}
           least == Fixpoints[s]
<1>1. least = [j \in Partitions |-> {f \in Facts : \A b \in above : f \in b[j]}]
  BY DEF Fixpoints, FixpointOf
<1>2. ASSUME NEW j \in Partitions, NEW f \in start[j] PROVE f \in least[j]
  <2>1. f \in Facts
    BY <1>2, InitialGeneratorsOfSide
  <2> QED BY <1>1, <1>2, <2>1
<1>3. ASSUME NEW j \in Partitions, NEW f \in start[j] PROVE Entails(least[j], f)
  <2>1. f \in least[j]
    BY <1>2, <1>3
  <2> HIDE DEF least
  <2> QED BY <2>1, MemberEntailed
<1>4. \A j \in Partitions : FollowFrom(s, least[j])
  BY FixpointFollows
<1>5. /\ Zeros(least[2]) \subseteq Zeros(s.constraints)
      /\ Zeros(least[1] \cup least[2]) = Zeros(FactsOf(s))
  <2> HIDE DEF least
  <2> QED BY <1>3, <1>4, PairExact
<1>6. ASSUME NEW f \in Linear, NEW i \in Partitions, NEW j \in Partitions,
             Entails(least[i], f), Admits(j, f)
      PROVE  f \in least[j]
  <2>1. ASSUME NEW b \in above PROVE f \in b[j]
    <3> DEFINE shown == [k \in Partitions |-> {g \in Linear : Entails(b[k], g)}]
    <3>1. least[i] \subseteq b[i]
      BY <1>1, <2>1
    <3>2. Entails(b[i], f)
      <4>1. Entails(least[i], f)
        BY <1>6
      <4> HIDE DEF least, above
      <4> QED BY <3>1, <4>1, MoreEntail
    <3>3. f \in shown[i]
      BY <3>2, <1>6
    <3>4. f \in Offered(shown, b[1] \cup b[2])
      BY <3>3 DEF Offered, Partitions
    <3> QED BY <3>4, <1>6, <2>1 DEF Closed
  <2> QED BY <1>1, <2>1, <1>6 DEF Linear
<1>7. Crossed(least)
  <2> HIDE DEF least
  <2>1. ASSUME NEW f \in Linear, NEW i \in Partitions, NEW j \in Partitions,
               Entails(least[i], f), Admits(j, f)
        PROVE  Entails(least[j], f)
    BY <2>1, <1>6, MemberEntailed
  <2> QED BY <2>1 DEF Crossed
<1> QED BY <1>5, <1>7

-----------------------------------------------------------------------------
(* A step that keeps the side and the memo, and under which every partition *)
(* still holds what entails what it held, keeps a build complete.           *)
LEMMA CompleteKept ==
    ASSUME NEW b \in Builds, NEW c, NEW X, NEW Y, Complete(b, X),
           c.side = b.side, c.memo = b.memo,
           \A j \in Partitions : SoundEngine(c.engines[j]),
           \A j \in Partitions : \A f \in Held(b, X, j) : Entails(Held(c, Y, j), f)
    PROVE  Complete(c, Y)
<1>1. \A j \in Partitions : \A f : Entails(Held(b, X, j), f) => Entails(Held(c, Y, j), f)
  BY EntailsTransitive
<1>2. \A m \in b.memo : m[2] \in Partitions
  BY DEF Builds
<1> QED BY <1>1, <1>2 DEF Complete

(* A new partial build is complete.                                         *)
LEMMA NewPartialComplete ==
    ASSUME NEW q \in Queries
    PROVE  Complete(NewPartial(q), Nothing)
<1> DEFINE b == NewPartial(q)
<1>1. /\ b.side = q.side /\ b.memo = {} /\ b.pending = InitialGenerators(q.side)
      /\ b.engines = [j \in Partitions |-> NewEngine]
  BY DEF NewPartial
<1>2. \A j \in Partitions : SoundEngine(b.engines[j])
  BY <1>1 DEF SoundEngine, NewEngine
<1>3. ASSUME NEW j \in Partitions, NEW f \in InitialGenerators(b.side)[j]
      PROVE  Entails(Held(b, Nothing, j), f)
  <2>1. f \in Held(b, Nothing, j)
    BY <1>1, <1>3 DEF Held
  <2> HIDE DEF b
  <2> QED BY <2>1, MemberEntailed
<1>4. \A m \in b.memo : Entails(Held(b, Nothing, m[2]), m[1])
  BY <1>1
<1>5. Complete(b, Nothing)
  <2> HIDE DEF b
  <2> QED BY <1>2, <1>3, <1>4 DEF Complete
<1> QED BY <1>5

-----------------------------------------------------------------------------
(* What the memo answers for is in the basis or pending.                    *)
LEMMA SeededEntailed ==
    ASSUME resumed \in Builds, Complete(resumed, Nothing), NEW m \in Seeded
    PROVE  Entails(Held(resumed, Nothing, m[2]), m[1]) /\ m \in Facts \X Partitions
<1>1. CASE m \in resumed.memo
  BY <1>1 DEF Complete, Builds
<1>2. CASE \E j \in Partitions : m \in Shown[j] \X {j}
  <2>1. PICK j \in Partitions : m \in Shown[j] \X {j}
    BY <1>2
  <2>2. m[2] = j /\ m[1] \in Shown[j] /\ m \in Facts \X Partitions
    BY <2>1 DEF Shown, Linear
  <2>3. SoundEngine(resumed.engines[j])
    BY DEF Complete
  <2>4. Entails(resumed.engines[j].given, m[1])
    BY <2>2, <2>3, SoundSees, MemberEntailed DEF Shown, Given
  <2>5. resumed.engines[j].given \subseteq Held(resumed, Nothing, j)
    BY DEF Held
  <2> QED BY <2>2, <2>4, <2>5, MoreEntail
<1> QED BY <1>1, <1>2 DEF Seeded

(* A candidate a partition admits is new to it, or entailed there already.  *)
LEMMA FitsEntailed ==
    ASSUME resumed \in Builds, Complete(resumed, Nothing), NEW C \in SUBSET Facts, NEW m \in Fits(C)
    PROVE  m \in NewGenerators(C) \/ Entails(Held(resumed, Nothing, m[2]), m[1])
<1>1. m[2] \in Partitions
  BY DEF Fits
<1>2. CASE m \in Seeded
  BY <1>2, SeededEntailed
<1>3. CASE Sees(resumed.engines[m[2]], m[1])
  <2>1. Entails(resumed.engines[m[2]].given, m[1])
    BY <1>1, <1>3, SoundSees DEF Complete
  <2>2. resumed.engines[m[2]].given \subseteq Held(resumed, Nothing, m[2])
    BY DEF Held
  <2> QED BY <2>1, <2>2, MoreEntail
<1> QED BY <1>2, <1>3 DEF NewGenerators

LEMMA ClassifiedParts ==
    ASSUME resumed \in Builds, NEW C
    PROVE  /\ Classified(C).side = resumed.side /\ Classified(C).engines = resumed.engines
           /\ Classified(C).memo = Seeded \cup Fits(C)
           /\ Classified(C).interrupted = resumed.interrupted
           /\ \A j \in Partitions : Classified(C).pending[j]
                 = resumed.pending[j] \cup {c[1] : c \in {d \in NewGenerators(C) : d[2] = j}}
BY DEF Classified, Builds

(* A round leaves the build complete.                                       *)
LEMMA ClassifiedComplete ==
    ASSUME resumed \in Builds, Complete(resumed, Nothing), NEW C \in SUBSET Facts
    PROVE  Complete(Classified(C), Nothing)
<1> DEFINE b == Classified(C)
<1>1. /\ b.side = resumed.side /\ b.engines = resumed.engines
      /\ b.memo = Seeded \cup Fits(C)
      /\ \A j \in Partitions : b.pending[j]
            = resumed.pending[j] \cup {c[1] : c \in {d \in NewGenerators(C) : d[2] = j}}
  BY ClassifiedParts
<1> HIDE DEF b
<1>2. \A j \in Partitions : Held(resumed, Nothing, j) \subseteq Held(b, Nothing, j)
  BY <1>1 DEF Held
<1>3. \A j \in Partitions : SoundEngine(b.engines[j])
  BY <1>1 DEF Complete
<1>4. ASSUME NEW j \in Partitions, NEW f \in InitialGenerators(b.side)[j]
      PROVE  Entails(Held(b, Nothing, j), f)
  <2>1. Entails(Held(resumed, Nothing, j), f)
    BY <1>1, <1>4 DEF Complete
  <2> QED BY <1>2, <2>1, MoreEntail
<1>5. ASSUME NEW m \in b.memo PROVE Entails(Held(b, Nothing, m[2]), m[1])
  <2>1. m[2] \in Partitions
    BY <1>1, <1>5, SeededEntailed DEF Fits
  <2>2. CASE Entails(Held(resumed, Nothing, m[2]), m[1])
    BY <1>2, <2>1, <2>2, MoreEntail
  <2>3. CASE m \in NewGenerators(C)
    <3>1. m[1] \in b.pending[m[2]]
      BY <1>1, <2>1, <2>3
    <3>2. m[1] \in Held(b, Nothing, m[2])
      BY <3>1 DEF Held
    <3> QED BY <3>2, MemberEntailed
  <2> QED BY <1>1, <1>5, <2>2, <2>3, SeededEntailed, FitsEntailed
<1>6. Complete(b, Nothing)
  BY <1>3, <1>4, <1>5 DEF Complete
<1> QED BY <1>6 DEF b

(* A round that finds nothing new over empty queues: what either basis      *)
(* shows and the other admits is in both.                                   *)
LEMMA QuietRoundCrossed ==
    ASSUME resumed \in Builds, Complete(resumed, Nothing), ~AnyTrivial,
           \A j \in Partitions : resumed.pending[j] = {}, NewGenerators(Candidates) = {},
           Candidates \subseteq Facts
    PROVE  Crossed(Given)
<1> SUFFICES ASSUME NEW f \in Linear, NEW i \in Partitions, NEW j \in Partitions,
                    Entails(Given[i], f), Admits(j, f)
             PROVE  Entails(Given[j], f)
  BY DEF Crossed
<1>1. SoundEngine(resumed.engines[i]) /\ ~resumed.engines[i].trivial
  BY DEF Complete, AnyTrivial
<1>2. Given[i] = resumed.engines[i].given
  BY DEF Given
<1>3. Sees(resumed.engines[i], f)
  BY <1>1, <1>2, SoundSees
<1>4. f \in Shown[i]
  BY <1>3 DEF Shown
<1>5. f \in Candidates
  BY <1>4 DEF Candidates, Offered, Partitions
<1> DEFINE m == <<f, j>>
<1>6. m \in Fits(Candidates) /\ m[1] = f /\ m[2] = j
  BY <1>5 DEF Fits
<1> HIDE DEF m
<1>7. Entails(Held(resumed, Nothing, j), f)
  BY <1>6, FitsEntailed
<1>8. Held(resumed, Nothing, j) = Given[j]
  BY DEF Held, Nothing, Given
<1> QED BY <1>7, <1>8

-----------------------------------------------------------------------------
(* Steps after which no build is at work, and what is kept is as it was or  *)
(* gone.                                                                    *)
LEMMA AwayExact ==
    ASSUME Exact, pc' \notin {"take", "engine"}, resumed' = None,
           cached' \in {cached, None}, partial' \in {partial, None}
    PROVE  Exact'
BY DEF Exact, Rounds, Complete, ExactBase, Held, Nothing

LEMMA StillPartialExact ==
    ASSUME Exact, UNCHANGED cached, NEW b, StillPartial(b),
           ~b.interrupted => Complete(b, Nothing)
    PROVE  Exact'
<1>1. partial' = b /\ resumed' = None /\ pc' = "answered" /\ cached' = cached
  BY DEF StillPartial, Return
<1>2. (ExactBase(cached))' <=> ExactBase(cached)
  BY <1>1 DEF ExactBase, Crossed
<1>3. (Complete(partial, Nothing))' <=> Complete(b, Nothing)
  BY <1>1 DEF Complete, Held, Nothing
<1>4. Rounds'
  BY <1>1 DEF Rounds
<1> QED BY <1>1, <1>2, <1>3, <1>4 DEF Exact

(* Nothing is on its way outside an engine's turn.                          *)
LEMMA NothingOnTheWay ==
    ASSUME pc # "engine"
    PROVE  OnTheWay = Nothing
BY DEF OnTheWay, Nothing

LEMMA ResumeExact == IInv /\ Exact /\ Resume => Exact'
<1> SUFFICES ASSUME IInv, Exact, Resume PROVE Exact'
  OBVIOUS
<1>1. /\ partial # None /\ resumed' = partial /\ partial' = None /\ turn' = 1
      /\ cached' = cached /\ pc' = "take" /\ surviving' = {}
  BY DEF Resume, PartialMatches
<1>2. cached = None
  BY <1>1 DEF IInv, Control
<1>3. (Complete(resumed, OnTheWay))' <=> Complete(partial, Nothing)
  BY <1>1 DEF Complete, Held, Nothing, OnTheWay
<1>4. Rounds'
  BY <1>1 DEF Rounds, Partitions
<1> QED BY <1>1, <1>2, <1>3, <1>4 DEF Exact

LEMMA BuildExact == IInv /\ Exact /\ Build => Exact'
<1> SUFFICES ASSUME IInv, Exact, Build PROVE Exact'
  OBVIOUS
<1>1. /\ query \in Queries /\ query.side \in Sides
      /\ cached = None /\ partial = None /\ resumed = None
      /\ resumed' = resumed /\ pc' \notin {"take", "engine"}
  BY DEF Build, Return, IInv, TypeInv, Control, Queries
<1>2. CASE cancelled
  <2>1. partial' = NewPartial(query) /\ cached' = cached
    BY <1>2 DEF Build
  <2>2. (Complete(partial, Nothing))' <=> Complete(NewPartial(query), Nothing)
    BY <2>1 DEF Complete, Held, Nothing
  <2>3. Rounds'
    BY <1>1 DEF Rounds
  <2> QED BY <1>1, <2>1, <2>2, <2>3, NewPartialComplete DEF Exact
<1>3. CASE ~cancelled
  <2>1. cached' = Base(query, Fixpoints[query.side]) /\ partial' = partial
    BY <1>3 DEF Build
  <2>2. cached'.bases = Fixpoints[query.side] /\ cached'.side = query.side
    BY <2>1 DEF Base
  <2>3. (ExactBase(cached))'
    BY <1>1, <2>2, FixpointExact DEF ExactBase, Crossed
  <2>4. Rounds'
    BY <1>1 DEF Rounds
  <2> QED BY <1>1, <2>1, <2>3, <2>4 DEF Exact
<1> QED BY <1>2, <1>3

LEMMA TakeExact == IInv /\ Exact /\ Take => Exact'
<1> SUFFICES ASSUME IInv, Exact, Take PROVE Exact'
  OBVIOUS
<1> DEFINE e == resumed.engines[turn]
           left == {f \in resumed.pending[turn] : ~Sees(e, f)}
           taken == [resumed EXCEPT !.pending[turn] = {}]
<1>1. pc = "take" /\ turn \in {1, 2} /\ cached' = cached
  BY DEF Take, Partitions
<1>2. resumed \in Builds /\ resumed # None /\ cached = None /\ partial = None
  BY <1>1, AtWork
<1>3. ~resumed.interrupted => Complete(resumed, Nothing)
  BY <1>1, <1>2, NothingOnTheWay DEF Exact
<1>4. \A j \in Partitions : j < turn => resumed.pending[j] = {}
  BY <1>1 DEF Exact, Rounds
<1>5. CASE cancelled
  BY <1>1, <1>3, <1>5, StillPartialExact DEF Take
<1>6. CASE ~cancelled /\ resumed.pending[turn] = {} /\ ~e.open
  <2>1. turn' = turn + 1 /\ UNCHANGED <<partial, resumed, surviving, pc>>
    BY <1>6 DEF Take
  <2>2. (Complete(resumed, OnTheWay))' <=> Complete(resumed, Nothing)
    BY <1>1, <2>1 DEF Complete, Held, Nothing, OnTheWay
  <2>3. turn' # 4 /\ \A j \in Partitions : j < turn' => resumed.pending[j] = {}
    BY <1>1, <1>4, <1>6, <2>1 DEF Partitions
  <2>4. Rounds'
    BY <1>1, <2>1, <2>3 DEF Rounds
  <2> QED BY <1>1, <1>2, <1>3, <2>1, <2>2, <2>4 DEF Exact
<1>7. CASE ~cancelled /\ ~(resumed.pending[turn] = {} /\ ~e.open)
  <2>1. /\ surviving' = left /\ resumed' = taken /\ pc' = "engine" /\ turn' = turn
        /\ partial' = partial
    BY <1>7 DEF Take
  <2>2. /\ taken.side = resumed.side /\ taken.memo = resumed.memo
        /\ taken.engines = resumed.engines /\ taken.interrupted = resumed.interrupted
        /\ taken.pending[turn] = {}
        /\ \A j \in Partitions \ {turn} : taken.pending[j] = resumed.pending[j]
    BY <1>1, <1>2 DEF Builds, Partitions
  <2> DEFINE way == [j \in Partitions |-> IF j = turn THEN left ELSE {}]
  <2>3. ASSUME ~resumed.interrupted PROVE Complete(taken, way)
    <3>1. \A j \in Partitions : SoundEngine(resumed.engines[j])
      BY <1>3, <2>3 DEF Complete
    <3>2. ASSUME NEW j \in Partitions, NEW f \in Held(resumed, Nothing, j)
          PROVE  Entails(Held(taken, way, j), f)
      <4>1. CASE f \in Held(taken, way, j)
        BY <4>1, MemberEntailed
      <4>2. CASE f \notin Held(taken, way, j)
        <5>1. j = turn /\ f \in resumed.pending[turn] /\ f \notin left
          BY <2>2, <3>2, <4>2 DEF Held, Nothing
        <5>2. Entails(resumed.engines[j].given, f)
          BY <3>1, <5>1, SoundSees
        <5>3. resumed.engines[j].given \subseteq Held(taken, way, j)
          BY <2>2 DEF Held
        <5> HIDE DEF taken, way
        <5> QED BY <5>2, <5>3, MoreEntail
      <4> QED BY <4>1, <4>2
    <3> HIDE DEF taken, way
    <3>3. Complete(resumed, Nothing)
      BY <1>3, <2>3
    <3> QED BY <1>2, <2>2, <3>1, <3>2, <3>3, CompleteKept
  <2>4. OnTheWay' = way
    BY <2>1 DEF OnTheWay
  <2>5. Rounds'
    BY <1>1, <1>4, <2>1, <2>2 DEF Rounds, Partitions
  <2>6. ~resumed'.interrupted => (Complete(resumed, OnTheWay))'
    <3>1. (Complete(resumed, OnTheWay))' <=> Complete(taken, way)
      <4> HIDE DEF way, taken
      <4> QED BY <2>1, <2>4 DEF Complete, Held
    <3> QED BY <2>1, <2>2, <2>3, <3>1
  <2> QED BY <1>1, <1>2, <2>1, <2>5, <2>6 DEF Exact
<1> QED BY <1>5, <1>6, <1>7

LEMMA EngineCancelledExact == IInv /\ Exact /\ EngineCancelled => Exact'
<1> SUFFICES ASSUME IInv, Exact, EngineCancelled PROVE Exact'
  OBVIOUS
<1>1. pc = "engine" /\ turn \in Partitions /\ UNCHANGED cached
  BY DEF EngineCancelled, IInv, TypeInv
<1>2. resumed \in Builds /\ resumed # None
  BY <1>1, AtWork
<1>3. resumed.pending[turn] = {}
  BY <1>1 DEF Exact, Rounds
<1>4. CASE StillPartial(WithSurviving)
  <2> DEFINE b == WithSurviving
  <2>1. /\ b.side = resumed.side /\ b.memo = resumed.memo /\ b.engines = resumed.engines
        /\ b.interrupted = resumed.interrupted /\ b.pending[turn] = surviving
        /\ \A j \in Partitions \ {turn} : b.pending[j] = resumed.pending[j]
    BY <1>1, <1>2 DEF WithSurviving, Builds
  <2> HIDE DEF b
  <2>2. ASSUME ~b.interrupted PROVE Complete(b, Nothing)
    <3>1. Complete(resumed, OnTheWay)
      BY <1>2, <2>1, <2>2 DEF Exact
    <3>2. \A j \in Partitions : Held(resumed, OnTheWay, j) \subseteq Held(b, Nothing, j)
      BY <1>1, <1>3, <2>1 DEF Held, OnTheWay
    <3>3. \A j \in Partitions : \A f \in Held(resumed, OnTheWay, j) : Entails(Held(b, Nothing, j), f)
      BY <3>2, MemberEntailed
    <3>4. \A j \in Partitions : SoundEngine(b.engines[j])
      BY <2>1, <3>1 DEF Complete
    <3> QED BY <1>2, <2>1, <3>1, <3>3, <3>4, CompleteKept
  <2> QED BY <1>1, <1>4, <2>2, StillPartialExact DEF b
<1>5. CASE \E e \in Interruptions(resumed.engines[turn], surviving) :
              StillPartial([resumed EXCEPT !.engines[turn] = e, !.interrupted = TRUE])
  <2>1. PICK e \in Interruptions(resumed.engines[turn], surviving) :
              StillPartial([resumed EXCEPT !.engines[turn] = e, !.interrupted = TRUE])
    BY <1>5
  <2>2. [resumed EXCEPT !.engines[turn] = e, !.interrupted = TRUE].interrupted
    BY <1>2 DEF Builds
  <2> QED BY <1>1, <2>1, <2>2, StillPartialExact
<1> QED BY <1>4, <1>5 DEF EngineCancelled

(* An engine that was sound and is not cancelled stays so.                  *)
LEMMA CompletionSound ==
    ASSUME NEW old \in Engines, SoundEngine(old), NEW new \in SUBSET Facts,
           NEW e \in Completions(old, new)
    PROVE  SoundEngine(e) /\ e.given = old.given \cup new
<1> DEFINE told == [old EXCEPT !.given = @ \cup new]
<1>1. /\ told.given = old.given \cup new /\ told.open = old.open /\ told.lost = old.lost
      /\ told.trivial = old.trivial /\ told \in Engines
  BY DEF Engines
<1>2. Zeros(old.given) = {} => Zeros(told.given) = {}
  BY <1>1 DEF Zeros
<1> HIDE DEF told
<1>3. CASE \E o \in BOOLEAN : e = [told EXCEPT !.trivial = TRUE, !.open = o]
                               /\ (old.trivial \/ Zeros(told.given) = {})
  <2>1. e.given = told.given /\ e.lost = told.lost /\ e.trivial = TRUE
    BY <1>1, <1>3 DEF Engines
  <2> QED BY <1>1, <1>2, <1>3, <2>1 DEF SoundEngine
<1>4. CASE e = [told EXCEPT !.open = FALSE]
  <2>1. e.given = told.given /\ e.lost = told.lost /\ e.trivial = told.trivial /\ e.open = FALSE
    BY <1>1, <1>4 DEF Engines
  <2> QED BY <1>1, <1>2, <2>1 DEF SoundEngine
<1> QED BY <1>3, <1>4 DEF Completions, told

LEMMA EngineReturnsExact == IInv /\ Exact /\ EngineReturns => Exact'
<1> SUFFICES ASSUME IInv, Exact, EngineReturns PROVE Exact'
  OBVIOUS
<1>1. /\ pc = "engine" /\ turn \in {1, 2} /\ surviving \in SUBSET Facts
      /\ pc' = "take" /\ turn' = turn + 1 /\ surviving' = {}
      /\ cached' = cached /\ partial' = partial
  BY DEF EngineReturns, IInv, TypeInv, Partitions
<1>2. resumed \in Builds /\ resumed # None /\ cached = None /\ partial = None
  BY <1>1, AtWork
<1>3. /\ resumed.pending[turn] = {}
      /\ \A j \in Partitions : j < turn => resumed.pending[j] = {}
  BY <1>1 DEF Exact, Rounds
<1>4. PICK e \in Completions(resumed.engines[turn], surviving) :
          resumed' = [resumed EXCEPT !.engines[turn] = e]
  BY DEF EngineReturns
<1> DEFINE b == [resumed EXCEPT !.engines[turn] = e]
<1>5. /\ b.side = resumed.side /\ b.memo = resumed.memo /\ b.pending = resumed.pending
      /\ b.interrupted = resumed.interrupted /\ b.engines[turn] = e
      /\ \A j \in Partitions \ {turn} : b.engines[j] = resumed.engines[j]
  BY <1>1, <1>2 DEF Builds, Partitions
<1>6. resumed' = b
  BY <1>4
<1> HIDE DEF b
<1>7. ASSUME ~resumed.interrupted PROVE Complete(b, Nothing)
  <2>1. Complete(resumed, OnTheWay)
    BY <1>2, <1>7 DEF Exact
  <2>2. resumed.engines[turn] \in Engines /\ SoundEngine(resumed.engines[turn])
    BY <1>1, <1>2, <2>1 DEF Complete, Builds, Partitions
  <2>3. SoundEngine(e) /\ e.given = resumed.engines[turn].given \cup surviving
    BY <1>1, <1>4, <2>2, CompletionSound
  <2>4. \A j \in Partitions : Held(resumed, OnTheWay, j) \subseteq Held(b, Nothing, j)
    BY <1>1, <1>5, <2>3 DEF Held, OnTheWay
  <2>5. \A j \in Partitions : \A f \in Held(resumed, OnTheWay, j) : Entails(Held(b, Nothing, j), f)
    BY <2>4, MemberEntailed
  <2>6. \A j \in Partitions : SoundEngine(b.engines[j])
    BY <1>5, <2>1, <2>3 DEF Complete
  <2> QED BY <1>2, <1>5, <2>1, <2>5, <2>6, CompleteKept
<1>8. (Complete(resumed, OnTheWay))' <=> Complete(b, Nothing)
  BY <1>1, <1>6 DEF Complete, Held, Nothing, OnTheWay
<1>9. Rounds'
  BY <1>1, <1>3, <1>5, <1>6 DEF Rounds, Partitions
<1> QED BY <1>1, <1>2, <1>5, <1>6, <1>7, <1>8, <1>9 DEF Exact

LEMMA PropagateExact == IInv /\ Exact /\ Propagate => Exact'
<1> SUFFICES ASSUME IInv, Exact, Propagate PROVE Exact'
  OBVIOUS
<1>1. /\ pc = "take" /\ turn = 3 /\ ~AnyTrivial /\ resumed' = Classified(Candidates)
      /\ turn' \in {1, 4} /\ (turn' = 4 => NewGenerators(Candidates) = {})
      /\ cached' = cached /\ partial' = partial /\ pc' = pc
  BY DEF Propagate
<1>2. /\ resumed \in Builds /\ BuildFollows(resumed) /\ resumed # None
      /\ cached = None /\ partial = None
  BY <1>1, AtWork
<1>3. Candidates \subseteq Facts
  BY <1>1, <1>2, CandidatesFollow
<1>4. \A j \in Partitions : resumed.pending[j] = {}
  BY <1>1 DEF Exact, Rounds, Partitions
<1>5. ~resumed.interrupted => Complete(resumed, Nothing)
  BY <1>1, <1>2, NothingOnTheWay DEF Exact
<1> DEFINE b == Classified(Candidates)
<1>6. ~resumed.interrupted => Complete(b, Nothing)
  BY <1>2, <1>3, <1>5, ClassifiedComplete
<1>7. /\ b.engines = resumed.engines /\ b.interrupted = resumed.interrupted
      /\ \A j \in Partitions : NewGenerators(Candidates) = {} => b.pending[j] = {}
  BY <1>2, <1>4, ClassifiedParts
<1>8. resumed' = b
  BY <1>1
<1> HIDE DEF b
<1>9. (Complete(resumed, OnTheWay))' <=> Complete(b, Nothing)
  BY <1>1, <1>8 DEF Complete, Held, Nothing, OnTheWay
<1>10. (Crossed(Given))' <=> Crossed(Given)
  BY <1>7, <1>8 DEF Crossed, Given
<1>11. Rounds'
  <2>1. CASE turn' = 1
    BY <1>1, <2>1 DEF Rounds, Partitions
  <2>2. CASE turn' = 4
    <3>1. ~resumed.interrupted => Crossed(Given)
      BY <1>1, <1>2, <1>3, <1>4, <1>5, <2>2, QuietRoundCrossed
    <3> QED BY <1>1, <1>7, <1>8, <1>10, <2>2, <3>1 DEF Rounds
  <2> QED BY <1>1, <2>1, <2>2
<1> QED BY <1>1, <1>2, <1>6, <1>7, <1>8, <1>9, <1>11 DEF Exact

LEMMA PropagateCancelledExact == IInv /\ Exact /\ PropagateCancelled => Exact'
<1> SUFFICES ASSUME IInv, Exact, PropagateCancelled PROVE Exact'
  OBVIOUS
<1>1. pc = "take" /\ UNCHANGED cached
  BY DEF PropagateCancelled
<1>2. resumed \in Builds /\ BuildFollows(resumed) /\ resumed # None
  BY <1>1, AtWork
<1>3. ~resumed.interrupted => Complete(resumed, Nothing)
  BY <1>1, <1>2, NothingOnTheWay DEF Exact
<1>4. CASE StillPartial(resumed)
  BY <1>1, <1>3, <1>4, StillPartialExact
<1>5. CASE ~AnyTrivial /\ \E C \in SUBSET Candidates : StillPartial(Classified(C))
  <2>1. PICK C \in SUBSET Candidates : StillPartial(Classified(C))
    BY <1>5
  <2>2. C \in SUBSET Facts
    BY <1>2, <1>5, CandidatesFollow
  <2>3. ~Classified(C).interrupted => Complete(Classified(C), Nothing)
    BY <1>2, <1>3, <2>2, ClassifiedComplete, ClassifiedParts
  <2> QED BY <1>1, <2>1, <2>3, StillPartialExact
<1> QED BY <1>4, <1>5 DEF PropagateCancelled

LEMMA EndResumeExact == IInv /\ Exact /\ EndResume => Exact'
<1> SUFFICES ASSUME IInv, Exact, EndResume PROVE Exact'
  OBVIOUS
<1>1. pc = "take" /\ (turn = 4 \/ AnyTrivial)
  BY DEF EndResume
<1>2. /\ resumed \in Builds /\ BuildFollows(resumed) /\ resumed # None
      /\ cached = None /\ partial = None
  BY <1>1, AtWork
<1>3. ~resumed.interrupted => Complete(resumed, Nothing)
  BY <1>1, <1>2, NothingOnTheWay DEF Exact
<1>4. CASE ~Quiescent
  BY <1>3, <1>4, StillPartialExact DEF EndResume
<1>5. CASE Quiescent
  <2> DEFINE c == [side |-> resumed.side, ring |-> resumed.ring,
                   bases |-> Given, interrupted |-> resumed.interrupted]
  <2>1. cached' = c /\ resumed' = None /\ pc' = "query" /\ partial' = partial
    BY <1>5 DEF EndResume
  <2>2. ASSUME ~resumed.interrupted PROVE ExactBase(c)
    <3>1. Complete(resumed, Nothing)
      BY <1>3, <2>2
    <3>2. \A j \in Partitions : Held(resumed, Nothing, j) = Given[j]
      BY <1>5 DEF Quiescent, Held, Nothing, Given
    <3>3. \A j \in Partitions : FollowFrom(resumed.side, Given[j])
      BY <1>2 DEF BuildFollows, FollowFrom, Given
    <3>4. \A j \in Partitions : Zeros(FactsOf(resumed.side)) \subseteq Zeros(Given[j])
      BY <3>3, EntailsTransitive DEF FollowFrom
    <3>5. \A j \in Partitions : \A f \in InitialGenerators(resumed.side)[j] : Entails(Given[j], f)
      BY <3>1, <3>2 DEF Complete
    <3>6. AnyTrivial => Zeros(FactsOf(resumed.side)) = {}
      <4>1. \A j \in Partitions : resumed.engines[j].trivial => Zeros(Given[j]) = {}
        BY <3>1 DEF Complete, SoundEngine, Given
      <4> QED BY <3>4, <4>1 DEF AnyTrivial
    <3>7. turn = 4 => Crossed(Given)
      BY <1>1, <2>2 DEF Exact, Rounds
    <3>8. /\ Zeros(Given[2]) \subseteq Zeros(resumed.side.constraints)
          /\ Zeros(Given[1] \cup Given[2]) = Zeros(FactsOf(resumed.side))
      <4>1. resumed.side \in Sides
        BY <1>2 DEF Builds
      <4> QED BY <3>3, <3>5, <4>1, PairExact
    <3> QED BY <1>1, <3>6, <3>7, <3>8 DEF ExactBase
  <2>3. (ExactBase(cached))' <=> ExactBase(c)
    <3> HIDE DEF c
    <3> QED BY <2>1 DEF ExactBase, Crossed
  <2>4. c.interrupted = resumed.interrupted
    OBVIOUS
  <2>5. Rounds'
    BY <2>1 DEF Rounds
  <2> QED BY <1>2, <2>1, <2>2, <2>3, <2>4, <2>5 DEF Exact
<1> QED BY <1>4, <1>5

LEMMA NextExact == IInv /\ Exact /\ [Next]_vars => Exact'
<1> SUFFICES ASSUME IInv, Exact, [Next]_vars PROVE Exact'
  OBVIOUS
<1>1. CASE Call \/ Panic \/ FirstSight \/ Hit \/ Rebuild \/ Query \/ Collect
  <2>1. pc' \notin {"take", "engine"} /\ cached' \in {cached, None} /\ partial' \in {partial, None}
    BY <1>1 DEF Call, Panic, FirstSight, Hit, Rebuild, Query, Collect, Return
  <2>2. resumed' = None
    BY <1>1 DEF Call, Panic, FirstSight, Hit, Rebuild, Query, Collect, IInv, Control
  <2> QED BY <2>1, <2>2, AwayExact
<1>2. CASE Cancel \/ Done \/ UNCHANGED vars
  <2>1. UNCHANGED <<cached, partial, resumed, turn, surviving, pc>>
    BY <1>2 DEF Cancel, Done, vars
  <2> QED BY <2>1 DEF Exact, Rounds, Complete, ExactBase, Crossed, Given, Held, Nothing, OnTheWay
<1>3. CASE Resume \/ Build \/ Take \/ EngineCancelled \/ EngineReturns
  BY <1>3, ResumeExact, BuildExact, TakeExact, EngineCancelledExact, EngineReturnsExact
<1>4. CASE Propagate \/ PropagateCancelled \/ EndResume
  BY <1>4, PropagateExact, PropagateCancelledExact, EndResumeExact
<1> QED BY <1>1, <1>2, <1>3, <1>4 DEF Next, Work

(* A base no cancellation has cut into is exact: its second partition has   *)
(* every consequence of the constraints, both together have the zeros of    *)
(* the side with its bitsum definitions, and unless these are none, what    *)
(* one basis shows and the other admits is in both, whichever calls built   *)
(* and resumed it (fixpoint.rs, continue_partial).                          *)
THEOREM BasesExact == Spec => []ExactUnlessInterrupted
<1>1. Init => Exact
  BY DEF Init, Exact, Rounds
<1>2. IInv /\ Exact /\ [Next]_vars => Exact'
  BY NextExact
<1>3. Exact => ExactUnlessInterrupted
  BY DEF Exact, ExactBase, ExactUnlessInterrupted
<1> QED BY <1>1, <1>2, <1>3, InvariantHolds, PTL DEF Spec
=============================================================================
