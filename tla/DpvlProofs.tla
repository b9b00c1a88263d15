----------------------------- MODULE DpvlProofs -----------------------------
(***************************************************************************)
(* The driver's guarantees, for every circuit, configuration and solver.   *)
(* The inductive invariant ties the four places that record what is known  *)
(* (ks, us, known_signals, the marker equalities) to each other and to the *)
(* meaning of "known", and accounts for the wires of a round: each open    *)
(* one is still in the pool or was asked with the present knowledge.       *)
(***************************************************************************)
EXTENDS Dpvl, TLAPS

KnownIsDetermined == \A w \in ks : Determined(sols, w)

Partition == Inputs \subseteq ks /\ ks \cap us = {} /\ ks \cup us = Wires

MarkersAreKnown ==
    /\ knownSignals \subseteq ks
    /\ \A w \in Wires : markers[w] = IF w \in knownSignals \ Inputs THEN 1 ELSE 0
    /\ pc \in {"check", "pick", "solve"} => knownSignals = ks

RoundAccounted ==
    /\ pc \in {"pick", "solve"} => uspool \subseteq us /\ uspool \cap asked = {}
    /\ pc \in {"pick", "solve"} => us \subseteq asked \cup uspool
    /\ pc = "decide" => progress
    /\ pc \in {"pick", "solve"} => ~progress
    /\ pc = "solve" => \E s \in us : target = {s}
    /\ pc \in {"propagate", "check", "decide"} => asked = {}

VerdictJustified ==
    /\ pc # "done" => verdict = "running"
    /\ pc = "done" => verdict # "running"
    /\ verdict = "safe" => Outputs \subseteq ks
    /\ UnsafeIsSound
    /\ UnknownOnlyWhenExhausted

(* A wire asked and still open had a model or no answer. *)
AskedInVain ==
    ~config.solverGivesUp =>
        /\ pc \in {"pick", "solve"} =>
              \A o \in Outputs \cap asked \cap us : pc = "solve" /\ o \in target
        /\ DecisiveSolverDecides

IInv ==
    /\ TypeOK
    /\ KnownIsDetermined
    /\ Partition
    /\ MarkersAreKnown
    /\ RoundAccounted
    /\ VerdictJustified
    /\ AskedInVain

-----------------------------------------------------------------------------
(* A wire forced by wires that are themselves determined is determined: the *)
(* step from a lemma's or the solver's local argument to uniqueness.        *)
LEMMA DeterminesTransitive ==
    ASSUME NEW S, NEW K, NEW w,
           \A k \in K : Determined(S, k),
           Determines(S, K, w)
    PROVE  Determined(S, w)
BY DEF Determined, Determines, Agree

(* When the marked wires are known, a refuted query makes its target        *)
(* determined.                                                              *)
LEMMA RefutedIsDetermined ==
    ASSUME KnownIsDetermined, Partition, MarkersAreKnown, NEW s, Refuted(s)
    PROVE  Determined(sols, s)
<1>1. Shared \subseteq ks
  BY DEF Shared, MarkersAreKnown, Partition
<1>2. Determines(sols, Shared, s)
  BY DEF Refuted, QuerySat, DiffersOn, Determines
<1>3. \A k \in Shared : Determined(sols, k)
  BY <1>1 DEF KnownIsDetermined
<1> QED
  BY <1>2, <1>3, DeterminesTransitive

(* Adding wires to ks and syncing them leaves one equality per known wire.  *)
LEMMA AddKnownWiresMarks ==
    ASSUME TypeOK, Partition, MarkersAreKnown,
           NEW W \in SUBSET Wires, AddKnownWires(W),
           ks' = knownSignals \cup W
    PROVE  /\ knownSignals' = ks'
           /\ knownSignals' \subseteq Wires
           /\ markers' \in [Wires -> Nat]
           /\ \A w \in Wires :
                 markers'[w] = IF w \in knownSignals' \ Inputs THEN 1 ELSE 0
<1>1. markers' \in [Wires -> Nat]
  BY DEF AddKnownWires, TypeOK
<1>2. ASSUME NEW w \in Wires
      PROVE  markers'[w] = IF w \in knownSignals' \ Inputs THEN 1 ELSE 0
  <2>1. markers[w] = IF w \in knownSignals \ Inputs THEN 1 ELSE 0
    BY DEF MarkersAreKnown
  <2>2. markers'[w] = IF w \in W \ (knownSignals \cup Inputs)
                      THEN markers[w] + 1 ELSE markers[w]
    BY DEF AddKnownWires
  <2> QED
    BY <2>1, <2>2 DEF AddKnownWires
<1> QED
  BY <1>1, <1>2 DEF AddKnownWires, TypeOK

-----------------------------------------------------------------------------
LEMMA InitInv == Init => IInv
<1> SUFFICES ASSUME Init PROVE IInv
  OBVIOUS
<1> USE CircuitAssumption, ConfigAssumption
        DEF CircuitAssumption, ConfigAssumption, Init
<1>1. TypeOK
  <2>1. sols \subseteq [Wires -> Value]
    OBVIOUS
  <2>2. markers \in [Wires -> Nat] /\ weights \in [Wires -> Int]
    OBVIOUS
  <2>3. progress \in BOOLEAN
    OBVIOUS
  <2> QED
    BY <2>1, <2>2, <2>3 DEF TypeOK
<1>2. KnownIsDetermined
  BY DEF KnownIsDetermined, Determined, Determines, Agree
<1>3. Partition /\ MarkersAreKnown
  BY DEF Partition, MarkersAreKnown
<1>4. RoundAccounted /\ VerdictJustified /\ AskedInVain
  BY DEF RoundAccounted, VerdictJustified, AskedInVain, UnsafeIsSound,
         UnknownOnlyWhenExhausted, DecisiveSolverDecides
<1> QED
  BY <1>1, <1>2, <1>3, <1>4 DEF IInv

LEMMA PropagateInv == IInv /\ Propagate => IInv'
<1> SUFFICES ASSUME IInv, Propagate PROVE IInv'
  OBVIOUS
<1> USE CircuitAssumption DEF CircuitAssumption, IInv
<1>1. PICK new \in SUBSET us :
          /\ \A w \in new : Determines(sols, ks, w)
          /\ ks' = ks \cup new
          /\ us' = us \ new
          /\ AddKnownWires(ks \cup new)
          /\ asked' = IF new = {} THEN asked ELSE {}
  BY DEF Propagate
<1>2. pc = "propagate" /\ pc' = "check" /\ asked' = {}
  BY <1>1 DEF Propagate, RoundAccounted
<1> USE <1>2
<1>3. Partition'
  BY <1>1 DEF Partition, TypeOK
<1>4. ks \cup new \in SUBSET Wires /\ ks' = knownSignals \cup (ks \cup new)
  BY <1>1 DEF TypeOK, MarkersAreKnown
<1>5. /\ knownSignals' = ks'
      /\ knownSignals' \subseteq Wires
      /\ markers' \in [Wires -> Nat]
      /\ \A w \in Wires :
            markers'[w] = IF w \in knownSignals' \ Inputs THEN 1 ELSE 0
  BY <1>1, <1>4, AddKnownWiresMarks
<1>6. MarkersAreKnown'
  BY <1>5 DEF MarkersAreKnown
<1>7. TypeOK'
  BY <1>1, <1>5 DEF TypeOK, Propagate
<1>8. KnownIsDetermined'
  <2>1. sols' = sols
    BY DEF Propagate
  <2>2. \A w \in new : Determined(sols, w)
    BY <1>1, DeterminesTransitive DEF KnownIsDetermined
  <2> QED
    BY <1>1, <2>1, <2>2 DEF KnownIsDetermined
<1>9. RoundAccounted' /\ AskedInVain'
  BY DEF RoundAccounted, AskedInVain, DecisiveSolverDecides, Propagate,
         VerdictJustified
<1>10. VerdictJustified'
  BY DEF VerdictJustified, UnsafeIsSound, UnknownOnlyWhenExhausted, Propagate
<1> QED
  BY <1>3, <1>6, <1>7, <1>8, <1>9, <1>10

LEMMA CheckInv == IInv /\ Check => IInv'
<1> SUFFICES ASSUME IInv, Check PROVE IInv'
  OBVIOUS
<1> USE CircuitAssumption DEF CircuitAssumption, IInv, Check, Answer, StartRound, RoundPool, irVars
<1>1. TypeOK'
  BY DEF TypeOK
<1>2. KnownIsDetermined' /\ Partition' /\ MarkersAreKnown'
  BY DEF KnownIsDetermined, Partition, MarkersAreKnown
<1>3. RoundAccounted'
  BY DEF RoundAccounted
<1>4. VerdictJustified'
  BY DEF VerdictJustified, UnsafeIsSound, UnknownOnlyWhenExhausted,
         AllTargetsKnown
<1>5. AskedInVain'
  BY DEF AskedInVain, DecisiveSolverDecides, RoundAccounted, VerdictJustified
<1> QED
  BY <1>1, <1>2, <1>3, <1>4, <1>5

LEMMA PickInv == IInv /\ Pick => IInv'
<1> SUFFICES ASSUME IInv, Pick PROVE IInv'
  OBVIOUS
<1> USE DEF IInv, Pick, PoolWithout
<1>1. TypeOK'
  BY DEF TypeOK
<1>2. KnownIsDetermined' /\ Partition' /\ MarkersAreKnown'
  BY DEF KnownIsDetermined, Partition, MarkersAreKnown
<1>3. RoundAccounted'
  BY DEF RoundAccounted
<1>4. VerdictJustified'
  BY DEF VerdictJustified, UnsafeIsSound, UnknownOnlyWhenExhausted
<1>5. AskedInVain'
  BY DEF AskedInVain, DecisiveSolverDecides, RoundAccounted
<1> QED
  BY <1>1, <1>2, <1>3, <1>4, <1>5

LEMMA VerifiedInv ==
    ASSUME IInv, pc = "solve", NEW s \in target, Verified(s),
           UNCHANGED <<sols, config, target, uspool>>
    PROVE  IInv'
<1> USE CircuitAssumption DEF CircuitAssumption, IInv
<1>1. s \in us /\ s \in Wires /\ ks' = ks \cup {s} /\ us' = us \ {s}
  BY DEF RoundAccounted, TypeOK, Verified, MoveToKnown
<1>2. pc' = "decide" /\ asked' = {} /\ progress' = TRUE /\ AddKnownWires({s})
  BY DEF Verified
<1>3. {s} \in SUBSET Wires /\ ks' = knownSignals \cup {s}
  BY <1>1 DEF MarkersAreKnown
<1>4. /\ knownSignals' = ks'
      /\ knownSignals' \subseteq Wires
      /\ markers' \in [Wires -> Nat]
      /\ \A w \in Wires :
            markers'[w] = IF w \in knownSignals' \ Inputs THEN 1 ELSE 0
  BY <1>2, <1>3, AddKnownWiresMarks
<1>5. TypeOK'
  BY <1>1, <1>2, <1>4 DEF TypeOK, Verified
<1>6. Determined(sols, s)
  BY RefutedIsDetermined DEF Verified
<1>7. KnownIsDetermined'
  BY <1>1, <1>6 DEF KnownIsDetermined
<1>8. Partition' /\ MarkersAreKnown'
  BY <1>1, <1>2, <1>4 DEF Partition, MarkersAreKnown
<1>9. RoundAccounted'
  BY <1>2 DEF RoundAccounted
<1>10. VerdictJustified' /\ AskedInVain'
  BY <1>1, <1>2 DEF VerdictJustified, AskedInVain, DecisiveSolverDecides,
         UnsafeIsSound, UnknownOnlyWhenExhausted, Verified
<1> QED
  BY <1>5, <1>7, <1>8, <1>9, <1>10

LEMMA SatOnTargetInv ==
    ASSUME IInv, pc = "solve", NEW s \in target, SatOnTarget(s),
           UNCHANGED <<sols, config, target, uspool>>
    PROVE  IInv'
<1> USE DEF IInv, SatOnTarget, Answer
<1>1. PICK a \in sols, b \in sols : DiffersOn(s, a, b) /\ witness' = <<a, b>>
  OBVIOUS
<1>2. s \in Outputs
  BY DEF IsTarget
<1>3. Agree(a, b, Inputs) /\ a[s] # b[s]
  BY <1>1 DEF DiffersOn, Agree, Shared
<1>4. UnsafeIsSound'
  BY <1>1, <1>2, <1>3 DEF UnsafeIsSound
<1>5. TypeOK'
  BY DEF TypeOK
<1>6. KnownIsDetermined' /\ Partition' /\ MarkersAreKnown' /\ RoundAccounted'
  BY DEF KnownIsDetermined, Partition, MarkersAreKnown, RoundAccounted
<1>7. VerdictJustified' /\ AskedInVain'
  BY <1>4 DEF VerdictJustified, AskedInVain, DecisiveSolverDecides,
         UnknownOnlyWhenExhausted
<1> QED
  BY <1>5, <1>6, <1>7

LEMMA SkipWireInv ==
    ASSUME IInv, pc = "solve", NEW s \in target, SkipWire(s), target = {s},
           UNCHANGED <<sols, config, target, uspool>>
    PROVE  IInv'
<1> USE DEF IInv
<1>1. s \in Wires
  BY DEF TypeOK
<1>2. weights' \in [Wires -> Int]
  BY <1>1 DEF SkipWire, FeedbackSkip, TypeOK
<1>3. TypeOK'
  BY <1>2 DEF TypeOK, SkipWire
<1>4. KnownIsDetermined' /\ Partition' /\ MarkersAreKnown' /\ RoundAccounted'
  BY DEF KnownIsDetermined, Partition, MarkersAreKnown, RoundAccounted, SkipWire
<1>5. VerdictJustified'
  BY DEF VerdictJustified, UnsafeIsSound, UnknownOnlyWhenExhausted, SkipWire
<1>6. AskedInVain'
  BY DEF AskedInVain, DecisiveSolverDecides, SkipWire, IsTarget
<1> QED
  BY <1>3, <1>4, <1>5, <1>6

LEMMA DecideInv == IInv /\ Decide => IInv'
<1> SUFFICES ASSUME IInv, Decide PROVE IInv'
  OBVIOUS
<1> USE CircuitAssumption
        DEF CircuitAssumption, IInv, Decide, Answer, irVars
<1>1. TypeOK'
  BY DEF TypeOK
<1>2. KnownIsDetermined' /\ Partition' /\ MarkersAreKnown'
  BY DEF KnownIsDetermined, Partition, MarkersAreKnown
<1>3. RoundAccounted'
  BY DEF RoundAccounted
<1>4. VerdictJustified'
  BY DEF VerdictJustified, UnsafeIsSound, UnknownOnlyWhenExhausted,
         AllTargetsKnown, RoundAccounted
<1>5. AskedInVain'
  <2> SUFFICES ASSUME ~config.solverGivesUp, config.backend, verdict' = "unknown",
                      pc # "done"
               PROVE  FALSE
    BY DEF AskedInVain, DecisiveSolverDecides, RoundAccounted
  <2>1. ~AllTargetsKnown /\ pc = "pick" /\ uspool = {}
    BY DEF RoundAccounted, VerdictJustified
  <2>2. PICK o \in Outputs : o \in us
    BY <2>1 DEF AllTargetsKnown, Partition
  <2>3. o \in asked
    BY <2>1, <2>2 DEF RoundAccounted
  <2> QED
    BY <2>1, <2>2, <2>3 DEF AskedInVain
<1> QED
  BY <1>1, <1>2, <1>3, <1>4, <1>5

LEMMA StutterInv == IInv /\ UNCHANGED vars => IInv'
BY DEF IInv, vars, TypeOK, KnownIsDetermined, Partition, MarkersAreKnown,
       RoundAccounted, VerdictJustified, UnsafeIsSound, AskedInVain,
       UnknownOnlyWhenExhausted, DecisiveSolverDecides

(* Every step of the driver preserves the invariant. *)
LEMMA NextInv == IInv /\ [Next]_vars => IInv'
<1> SUFFICES ASSUME IInv, [Next]_vars PROVE IInv'
  OBVIOUS
<1>1. CASE Propagate
  BY <1>1, PropagateInv
<1>2. CASE Check
  BY <1>2, CheckInv
<1>3. CASE Pick
  BY <1>3, PickInv
<1>4. CASE Solve
  <2>1. PICK s \in target : Verified(s) \/ SatOnTarget(s) \/ SkipWire(s)
    BY <1>4 DEF Solve
  <2>2. /\ pc = "solve" /\ target = {s}
        /\ UNCHANGED <<sols, config, target, uspool>>
    BY <1>4, <2>1 DEF Solve, IInv, RoundAccounted
  <2>3. CASE Verified(s)
    BY <2>2, <2>3, VerifiedInv
  <2>4. CASE SatOnTarget(s)
    BY <2>2, <2>4, SatOnTargetInv
  <2>5. CASE SkipWire(s)
    BY <2>2, <2>5, SkipWireInv
  <2> QED
    BY <2>1, <2>3, <2>4, <2>5
<1>5. CASE Decide
  BY <1>5, DecideInv
<1>6. CASE UNCHANGED vars
  BY <1>6, StutterInv
<1> QED
  BY <1>1, <1>2, <1>3, <1>4, <1>5, <1>6 DEF Next, Terminated

THEOREM InvariantHolds == Spec => []IInv
<1>1. Init => IInv
  BY InitInv
<1>2. IInv /\ [Next]_vars => IInv'
  BY NextInv
<1> QED
  BY <1>1, <1>2, PTL DEF Spec

-----------------------------------------------------------------------------
(* The driver's state stays well typed. *)
THEOREM TypeCorrect == Spec => []TypeOK
<1>1. IInv => TypeOK
  BY DEF IInv
<1> QED
  BY <1>1, InvariantHolds, PTL

(* A Safe verdict is true for every circuit (dpvl.rs, iterate). *)
THEOREM SafeVerdict == Spec => []SafeIsSound
<1>1. IInv => SafeIsSound
  BY CircuitAssumption DEF CircuitAssumption, IInv, SafeIsSound,
     VerdictJustified, KnownIsDetermined
<1> QED
  BY <1>1, InvariantHolds, PTL

(* An Unsafe verdict carries two solutions that refute uniqueness. *)
THEOREM UnsafeVerdict == Spec => []UnsafeIsSound
<1>1. IInv => UnsafeIsSound
  BY DEF IInv, VerdictJustified
<1> QED
  BY <1>1, InvariantHolds, PTL

(* Every query equates exactly the wires proved, and targets an open one. *)
THEOREM QueryCorrect == Spec => []QueryMatchesKnown
<1>1. IInv => QueryMatchesKnown
  BY DEF IInv, QueryMatchesKnown, MarkersAreKnown, Partition, RoundAccounted
<1> QED
  BY <1>1, InvariantHolds, PTL

(* Unknown means that every open wire was asked with all that is known. *)
THEOREM UnknownVerdict == Spec => []UnknownOnlyWhenExhausted
<1>1. IInv => UnknownOnlyWhenExhausted
  BY DEF IInv, VerdictJustified
<1> QED
  BY <1>1, InvariantHolds, PTL

(* A solver that answers every query yields a verdict. *)
THEOREM DecisiveVerdict == Spec => []DecisiveSolverDecides
<1>1. IInv => DecisiveSolverDecides
  BY DEF IInv, AskedInVain, DecisiveSolverDecides
<1> QED
  BY <1>1, InvariantHolds, PTL

(* No query is put to the solver twice. *)
THEOREM QueriesAreFresh == Spec => NoQueryRepeated
<1>1. IInv /\ [Next]_vars =>
        [pc = "pick" /\ pc' = "solve" => target' \cap asked = {}]_vars
  <2> SUFFICES ASSUME IInv, Next, pc = "pick", pc' = "solve"
               PROVE  target' \cap asked = {}
    OBVIOUS
  <2>1. Pick
    BY DEF Next, Propagate, Check, Solve, Decide, Terminated, Answer
  <2> QED
    BY <2>1 DEF Pick, IInv, RoundAccounted
<1> QED
  BY <1>1, InvariantHolds, PTL DEF Spec, NoQueryRepeated

-----------------------------------------------------------------------------
(* The driver implements the abstract promise: each step is a Learn, an     *)
(* Answer, or leaves known and verdict alone.                               *)
THEOREM Refinement == Spec => RefinesUniqueness
<1>1. Init => Abstract!Init
  BY DEF Init, Abstract!Init
<1>2. IInv /\ IInv' /\ [Next]_vars => [Abstract!Next]_(Abstract!vars)
  <2> SUFFICES ASSUME IInv, IInv', Next
               PROVE  Abstract!Next \/ UNCHANGED Abstract!vars
    BY DEF vars, Abstract!vars
  <2>1. ASSUME ks' # ks, verdict' = verdict, verdict = "running", sols' = sols,
               ks \subseteq ks'
        PROVE  Abstract!Learn
    <3>1. ks' \ ks \in SUBSET (Wires \ ks) /\ ks' \ ks # {}
      BY <2>1 DEF IInv, TypeOK
    <3>2. \A w \in ks' \ ks : Determined(sols, w)
      BY <2>1 DEF IInv, KnownIsDetermined
    <3>3. \A w \in ks' \ ks : Abstract!Determined(sols, w)
      BY <3>2 DEF Determined, Determines, Agree, Abstract!Determined,
                  Abstract!Determines, Abstract!Agree
    <3> QED
      BY <2>1, <3>1, <3>3 DEF Abstract!Learn
  <2>2. ASSUME ks' = ks, verdict' # verdict, verdict = "running", sols' = sols
        PROVE  \E v \in {"safe", "unsafe", "unknown"} : Abstract!Answer(v)
    <3>1. verdict' \in {"safe", "unsafe", "unknown"}
      BY <2>2 DEF IInv, TypeOK
    <3>2. verdict' = "safe" => \A o \in Outputs : Abstract!Determined(sols, o)
      BY <2>2, CircuitAssumption
         DEF CircuitAssumption, IInv, VerdictJustified, KnownIsDetermined,
             Determined, Determines, Agree, Abstract!Determined,
             Abstract!Determines, Abstract!Agree
    <3>3. verdict' = "unsafe" =>
             \E o \in Outputs : ~Abstract!Determined(sols, o)
      BY <2>2 DEF IInv, VerdictJustified, UnsafeIsSound, Agree,
                  Abstract!Determined, Abstract!Determines, Abstract!Agree
    <3> QED
      BY <2>2, <3>1, <3>2, <3>3 DEF Abstract!Answer
  <2>3. sols' = sols /\ ks \subseteq ks' /\ (ks' = ks \/ verdict' = verdict)
    BY DEF Next, Propagate, Check, Pick, Solve, Decide, Terminated, Verified,
           SatOnTarget, SkipWire, MoveToKnown, Answer, StartRound, vars
  <2>4. verdict # "running" => UNCHANGED <<sols, ks, verdict>>
    BY DEF Next, Propagate, Check, Pick, Solve, Decide, Terminated, vars,
           IInv, VerdictJustified
  <2> QED
    BY <2>1, <2>2, <2>3, <2>4 DEF Abstract!Next, Abstract!vars
<1> QED
  BY <1>1, <1>2, InvariantHolds, PTL DEF Spec, RefinesUniqueness, Abstract!Spec
=============================================================================
