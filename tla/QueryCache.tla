----------------------------- MODULE QueryCache -----------------------------
(***************************************************************************)
(* The query cache of the native backend: picus-solver/src/                *)
(* incremental_context.rs, with the partitions and the propagation         *)
(* fixpoint it shares with split_gb/, the fallbacks of core.rs, and the    *)
(* panic guard of picus-smt/src/backends/native_ff.rs.                     *)
(*                                                                         *)
(* A polynomial is abstract: a fact is its set of zeros, over the points   *)
(* of an extension of the field, and the shape the partitions ask for.     *)
(* Only rational points are solutions.  An ideal is the set of facts it    *)
(* was generated from; an engine whose queue is open or that has lost an   *)
(* S-pair that mattered still shows these and recognises none, the         *)
(* strictest reading (IncrementalGb.tla has the engine).                   *)
(***************************************************************************)
EXTENDS Integers, FiniteSets

CONSTANTS
    None,           \* no base, no build, no query
    Points, Rational,
    Facts,          \* [zeros : SUBSET Points, shape]
    BitFacts,       \* what BitProp can derive, when it is entailed
    Sides,          \* constraint sides: [constraints, bitsums, vars]
    Disequalities,  \* [differ : SUBSET Points, vars]
    MaxCalls,
    MayCancel, MayPanic

(* constraint_polys and bitsum_polys: a side rewritten over auxiliary       *)
(* variables, and the linear definitions of these.                         *)
FactsOf(side) == side.constraints \cup side.bitsums

ASSUME CacheAssumption ==
    /\ Rational \subseteq Points /\ BitFacts \subseteq Facts
    /\ Facts \subseteq [zeros : SUBSET Points,
                        shape : {"short", "linear", "nonlinear"}]
    /\ \A s \in Sides : /\ FactsOf(s) \subseteq Facts
                        /\ \A f \in s.bitsums : f.shape # "nonlinear"

Partitions == {1, 2}    \* the linear one, the other

Rings == {s.vars \cup d.vars : s \in Sides, d \in Disequalities}

Engines == [given : SUBSET Facts, open : BOOLEAN, lost : BOOLEAN, trivial : BOOLEAN]

(* CachedBase; interrupted is history: a cancellation hit an engine. *)
Bases ==
    [side : Sides, ring : Rings, bases : [Partitions -> SUBSET Facts],
     interrupted : BOOLEAN]

(* PartialBuild *)
Builds ==
    [side : Sides, ring : Rings, engines : [Partitions -> Engines],
     pending : [Partitions -> SUBSET Facts], memo : SUBSET (Facts \X Partitions),
     interrupted : BOOLEAN]

ASSUME NoneAssumption == None \notin Bases /\ None \notin Builds

VARIABLES
    cached,     \* cached_base
    last,       \* last_digest; a digest is the side itself
    partial,    \* partial_build
    query,      \* of the current call: [side, disequality]
    resumed,    \* the partial build continue_partial works on, taken out
    turn, work, \* continue_partial: partition whose turn it is, any_extend_work
    surviving,  \* pending generators on their way into the engine
    cancelled, pc, answer,
    calls       \* history: calls made

vars == <<cached, last, partial, query, resumed, turn, work, surviving,
          cancelled, pc, answer, calls>>

Unknown == [kind |-> "unknown"]

Init ==
    /\ cached = None /\ last = None /\ partial = None
    /\ query = None /\ resumed = None
    /\ turn = 1 /\ work = FALSE /\ surviving = {}
    /\ cancelled = FALSE /\ pc = "idle" /\ answer = None
    /\ calls = 0

-----------------------------------------------------------------------------
(* Facts and partitions.                                                   *)

Zeros(F) == {p \in Points : \A f \in F : p \in f.zeros}

Entails(F, f) == Zeros(F) \subseteq f.zeros

(* admit *)
Admits(j, f) == f.shape = "short" \/ (f.shape = "linear" /\ j = 1)

(* build_partitions: the bitsum definitions go to the linear partition only. *)
InitialGenerators(side) ==
    [j \in Partitions |->
        IF j = 1 THEN side.bitsums \cup {f \in side.constraints : Admits(1, f)}
                 ELSE side.constraints]

(* A basis for a degree order shows the linear facts it sees; an iteration  *)
(* offers these and what BitProp derives from both.                        *)
Offered(shown, both) == shown[1] \cup shown[2] \cup {f \in BitFacts : Entails(both, f)}

Linear == {f \in Facts : Admits(1, f)}

(* run_fixpoint, uninterrupted: facts cross until none is new, which gives  *)
(* the least pair of bases above the start that is closed under crossing.   *)
Closed(b) ==
    LET shown == [j \in Partitions |-> {f \in Linear : Entails(b[j], f)}]
    IN  \A f \in Offered(shown, b[1] \cup b[2]), j \in Partitions :
            Admits(j, f) => f \in b[j]

FixpointOf(start) ==
    LET above == {b \in [Partitions -> SUBSET Facts] :
                     Closed(b) /\ \A j \in Partitions : start[j] \subseteq b[j]}
    IN  [j \in Partitions |-> {f \in Facts : \A b \in above : f \in b[j]}]

Fixpoints == [s \in Sides |-> FixpointOf(InitialGenerators(s))]

-----------------------------------------------------------------------------
(* The engine of a partition.                                              *)

NewEngine == [given |-> {}, open |-> FALSE, lost |-> FALSE, trivial |-> FALSE]

(* What reduces to zero by the elements of the basis. *)
Sees(e, f) == e.trivial \/ (Entails(e.given, f) /\ ~e.open /\ ~e.lost)

(* add_generators or run_only to the end: a unit is found unless a pair    *)
(* that led to it is gone, and then the queue is left as it is.            *)
Completions(e, new) ==
    LET told == [e EXCEPT !.given = @ \cup new]
    IN  IF e.trivial \/ (Zeros(told.given) = {} /\ ~e.lost)
        THEN {[told EXCEPT !.trivial = TRUE, !.open = o] : o \in BOOLEAN}
        ELSE {[told EXCEPT !.open = FALSE]}

(* The same, cancelled: generators not reached are dropped, and the pair   *)
(* popped last is; it may have mattered.                                   *)
Interruptions(e, new) ==
    [given : {e.given \cup inserted : inserted \in SUBSET new},
     open : BOOLEAN, lost : {e.lost, TRUE}, trivial : {e.trivial}]

NewPartial(q) ==
    [side |-> q.side, ring |-> q.side.vars \cup q.disequality.vars,
     engines |-> [j \in Partitions |-> NewEngine],
     pending |-> InitialGenerators(q.side),
     memo |-> {}, interrupted |-> FALSE]

Base(q, bases) ==
    [side |-> q.side, ring |-> q.side.vars \cup q.disequality.vars,
     bases |-> bases, interrupted |-> FALSE]

-----------------------------------------------------------------------------
(* Answers.                                                                *)

Solutions(side, disequality) ==
    Zeros(FactsOf(side)) \cap disequality.differ \cap Rational

Sat(p) == [kind |-> "sat", point |-> p]
Unsat == [kind |-> "unsat"]

(* stateless_solve: right or Unknown, as in core.rs. *)
StatelessAnswers(q) ==
    LET S == Solutions(q.side, q.disequality)
    IN  {Unknown} \cup (IF S = {} THEN {Unsat} ELSE {Sat(p) : p \in S})

(* Mutant: the model is not verified. *)
VerifiedUnchecked(base, points) == points

(* model::verify_model, against the constraints the base was built from     *)
(* and the bitsum definitions.                                             *)
Verified(base, points) == points \cap Zeros(FactsOf(base.side))

(* solve_with_cached: a basis that becomes the whole ring, a difference in *)
(* the ideal, a combined system without zeros or an exhausted search is    *)
(* Unsat; a point of the search is verified.                               *)
CachedAnswers(base, q) ==
    LET differ == q.disequality.differ
        zeros == Zeros(base.bases[1] \cup base.bases[2]) \cap differ
    IN  {Unknown}
          \cup (IF zeros \cap Rational = {} \/ Zeros(FactsOf(base.side)) \cap differ = {}
                THEN {Unsat} ELSE {})
          \cup {Sat(p) : p \in Verified(base, zeros \cap Rational)}

(* encode_query_disequalities needs both wires in the cached ring. *)
Encodes(base, q) == q.disequality.vars \subseteq base.ring

Return(a) == answer' = a /\ pc' = "answered"

-----------------------------------------------------------------------------
(* solve                                                                   *)

(* Mutant: any base will do. *)
AnyBase(q) == cached # None

CacheMatches(q) == cached # None /\ cached.side = q.side
PartialMatches(q) == partial # None /\ partial.side = q.side

Call ==
    /\ pc = "idle" /\ calls < MaxCalls
    /\ \E s \in Sides, d \in Disequalities : query' = [side |-> s, disequality |-> d]
    /\ calls' = calls + 1
    /\ cancelled' = FALSE
    /\ answer' = None
    /\ pc' = "solve"
    /\ UNCHANGED <<cached, last, partial, resumed, turn, work, surviving>>

(* A timeout or a signal; the token is seen wherever it is looked at. *)
Cancel ==
    /\ MayCancel /\ ~cancelled /\ pc \notin {"idle", "answered"}
    /\ cancelled' = TRUE
    /\ UNCHANGED <<cached, last, partial, query, resumed, turn, work, surviving,
                   pc, answer, calls>>

(* native_ff.rs catches it: Unknown, and the partial build at work is gone. *)
Panic ==
    /\ MayPanic /\ pc \in {"build", "take", "engine", "query"}
    /\ resumed' = None
    /\ Return(Unknown)
    /\ UNCHANGED <<cached, last, partial, query, turn, work, surviving,
                   cancelled, calls>>

(* A side not seen in the last call: nothing is built for it. *)
FirstSight ==
    /\ pc = "solve" /\ ~CacheMatches(query) /\ ~PartialMatches(query)
    /\ last # query.side
    /\ cached' = None /\ partial' = None
    /\ last' = query.side
    /\ \E a \in StatelessAnswers(query) : Return(a)
    /\ UNCHANGED <<query, resumed, turn, work, surviving, cancelled, calls>>

Hit ==
    /\ pc = "solve" /\ CacheMatches(query)
    /\ last' = query.side
    /\ pc' = "query"
    /\ UNCHANGED <<cached, partial, query, resumed, turn, work, surviving,
                   cancelled, answer, calls>>

Resume ==
    /\ pc = "solve" /\ ~CacheMatches(query) /\ PartialMatches(query)
    /\ last' = query.side
    /\ resumed' = partial /\ partial' = None
    /\ turn' = 1 /\ work' = FALSE /\ surviving' = {}
    /\ pc' = "take"
    /\ UNCHANGED <<cached, query, cancelled, answer, calls>>

(* rebuild_base up to the encoding. *)
Rebuild ==
    /\ pc = "solve" /\ ~CacheMatches(query) /\ ~PartialMatches(query)
    /\ last = query.side
    /\ cached' = None /\ partial' = None
    /\ IF cancelled
       THEN \E a \in StatelessAnswers(query) : Return(a)
       ELSE pc' = "build" /\ UNCHANGED answer
    /\ UNCHANGED <<last, query, resumed, turn, work, surviving, cancelled, calls>>

(* split_gb_cancel: the base, or, cut short, a partial build from nothing. *)
Build ==
    /\ pc = "build"
    /\ IF cancelled
       THEN /\ partial' = NewPartial(query)
            /\ Return(Unknown)
            /\ UNCHANGED cached
       ELSE /\ cached' = Base(query, Fixpoints[query.side])
            /\ pc' = "query"
            /\ UNCHANGED <<partial, answer>>
    /\ UNCHANGED <<last, query, resumed, turn, work, surviving, cancelled, calls>>

Query ==
    /\ pc = "query"
    /\ \E a \in IF cached = None THEN {}
                ELSE IF Encodes(cached, query)
                THEN CachedAnswers(cached, query) ELSE StatelessAnswers(query) :
          Return(a)
    /\ UNCHANGED <<cached, last, partial, query, resumed, turn, work, surviving,
                   cancelled, calls>>

-----------------------------------------------------------------------------
(* continue_partial                                                        *)

StillPartial(build) ==
    /\ partial' = build /\ resumed' = None
    /\ Return(Unknown)

(* The generators pending for a partition, less those its basis reduces to *)
(* zero.                                                                   *)
Take ==
    /\ pc = "take" /\ turn \in Partitions
    /\ LET e == resumed.engines[turn]
           left == {f \in resumed.pending[turn] : ~Sees(e, f)}
       IN  IF cancelled
           THEN /\ StillPartial(resumed)
                /\ UNCHANGED <<turn, work, surviving>>
           ELSE IF resumed.pending[turn] = {} /\ ~e.open
           THEN /\ turn' = turn + 1
                /\ UNCHANGED <<partial, resumed, work, surviving, pc, answer>>
           ELSE /\ surviving' = left
                /\ resumed' = [resumed EXCEPT !.pending[turn] = {}]
                /\ work' = TRUE
                /\ pc' = "engine"
                /\ UNCHANGED <<partial, turn, answer>>
    /\ UNCHANGED <<cached, last, query, cancelled, calls>>

(* Mutant: generators on their way are dropped by a cancellation. *)
SurvivingDropped == resumed

WithSurviving == [resumed EXCEPT !.pending[turn] = surviving]

(* Cancelled while they were reduced: they go back.  Later: the engine has *)
(* some of them, and nobody the others.                                    *)
EngineCancelled ==
    /\ pc = "engine" /\ cancelled
    /\ \/ StillPartial(WithSurviving)
       \/ \E e \in Interruptions(resumed.engines[turn], surviving) :
             StillPartial([resumed EXCEPT !.engines[turn] = e, !.interrupted = TRUE])
    /\ UNCHANGED <<cached, last, query, turn, work, surviving, cancelled, calls>>

EngineReturns ==
    /\ pc = "engine" /\ ~cancelled
    /\ \E e \in Completions(resumed.engines[turn], surviving) :
          resumed' = [resumed EXCEPT !.engines[turn] = e]
    /\ turn' = turn + 1
    /\ surviving' = {}
    /\ pc' = "take"
    /\ UNCHANGED <<cached, last, partial, query, work, cancelled, answer, calls>>

Given == [j \in Partitions |-> resumed.engines[j].given]

Shown ==
    [j \in Partitions |-> {f \in Linear : f \in Given[j] \/ Sees(resumed.engines[j], f)}]

Candidates == Offered(Shown, Given[1] \cup Given[2])

AnyTrivial == \E j \in Partitions : resumed.engines[j].trivial

(* seed_self_membership *)
Seeded == resumed.memo \cup UNION {Shown[j] \X {j} : j \in Partitions}

Fits(C) == {c \in C \X Partitions : Admits(c[2], c[1])}

NewGenerators(C) ==
    {c \in Fits(C) \ Seeded : ~Sees(resumed.engines[c[2]], c[1])}

(* One round over the candidates C.  The memo records what is found in the  *)
(* basis and what is about to be added.                                     *)
Classified(C) ==
    [resumed EXCEPT
        !.memo = Seeded \cup Fits(C),
        !.pending = [j \in Partitions |-> @[j] \cup {c[1] : c \in {d \in NewGenerators(C) : d[2] = j}}]]

(* Mutant: the flag survives its round. *)
WorkKept == work

(* any_extend_work at the start of a round. *)
WorkAtStart == FALSE

Propagate ==
    /\ pc = "take" /\ turn = 3 /\ ~cancelled /\ ~AnyTrivial
    /\ resumed' = Classified(Candidates)
    /\ turn' = IF NewGenerators(Candidates) # {} \/ work THEN 1 ELSE 4
    /\ work' = WorkAtStart
    /\ UNCHANGED <<cached, last, partial, query, surviving, cancelled, pc,
                   answer, calls>>

(* Cancelled before, or after any number of the candidates. *)
PropagateCancelled ==
    /\ pc = "take" /\ turn = 3 /\ cancelled
    /\ \/ StillPartial(resumed)
       \/ ~AnyTrivial /\ \E C \in SUBSET Candidates : StillPartial(Classified(C))
    /\ UNCHANGED <<cached, last, query, turn, work, surviving, cancelled, calls>>

Quiescent ==
    \A j \in Partitions : ~resumed.engines[j].open /\ resumed.pending[j] = {}

(* finalize_partial, or back to waiting. *)
EndResume ==
    /\ pc = "take" /\ (turn = 4 \/ (turn = 3 /\ AnyTrivial /\ ~cancelled))
    /\ IF Quiescent
       THEN /\ cached' = [side |-> resumed.side, ring |-> resumed.ring,
                          bases |-> Given, interrupted |-> resumed.interrupted]
            /\ resumed' = None
            /\ pc' = "query"
            /\ UNCHANGED <<partial, answer>>
       ELSE StillPartial(resumed) /\ UNCHANGED cached
    /\ UNCHANGED <<last, query, turn, work, surviving, cancelled, calls>>

Collect ==
    /\ pc = "answered"
    /\ query' = None /\ resumed' = None /\ surviving' = {}
    /\ turn' = 1 /\ work' = FALSE /\ cancelled' = FALSE
    /\ pc' = "idle"
    /\ UNCHANGED <<cached, last, partial, answer, calls>>

Done == pc = "idle" /\ calls = MaxCalls /\ UNCHANGED vars

Work ==
    \/ FirstSight \/ Hit \/ Resume \/ Rebuild \/ Build \/ Query
    \/ Take \/ EngineCancelled \/ EngineReturns \/ Propagate \/ PropagateCancelled
    \/ EndResume \/ Collect

Next == Call \/ Cancel \/ Panic \/ Work \/ Done

(* A call runs on its caller's thread until it returns. *)
Spec == Init /\ [][Next]_vars /\ WF_vars(Work)
-----------------------------------------------------------------------------
(* Properties                                                              *)

(* An answer is true of the constraint side and the disequality asked,      *)
(* whichever base, resumed build or fallback it came from                   *)
(* (digest_constraint_side, the comment on what a digest match is trusted   *)
(* for).                                                                    *)
AnswersRight ==
    pc = "answered" =>
        LET S == Solutions(query.side, query.disequality)
        IN  /\ answer.kind = "unsat" => S = {}
            /\ answer.kind = "sat" => answer.point \in S

(* What is kept follows from the constraint side it is kept for, there is   *)
(* never a base and a partial build at once, and the base is there and of   *)
(* the right side when solve expects it.                                    *)
KeptFactsFollow ==
    /\ cached # None =>
          \A j \in Partitions : \A f \in cached.bases[j] : Entails(FactsOf(cached.side), f)
    /\ \A b \in {partial, resumed} \ {None} : \A j \in Partitions :
          \A f \in b.engines[j].given \cup b.pending[j] : Entails(FactsOf(b.side), f)
    /\ cached = None \/ (partial = None /\ resumed = None)
    /\ pc = "query" => cached # None /\ cached.side = query.side

(* A base whose build no cancellation cut short inside an engine has lost   *)
(* nothing: the second partition, which is never given the bitsum           *)
(* definitions, has every consequence of the constraints, both together     *)
(* have exactly the zeros of the whole side, and what either shows and the  *)
(* other admits is in both (fixpoint.rs, continue_partial).                 *)
Crossed(bases) ==
    \A f \in Linear : \A i, j \in Partitions :
        Entails(bases[i], f) /\ Admits(j, f) => Entails(bases[j], f)

ExactUnlessInterrupted ==
    cached # None /\ ~cached.interrupted =>
        /\ Zeros(cached.bases[2]) \subseteq Zeros(cached.side.constraints)
        /\ Zeros(cached.bases[1] \cup cached.bases[2]) = Zeros(FactsOf(cached.side))
        /\ Zeros(FactsOf(cached.side)) # {} => Crossed(cached.bases)

(* Every call returns: the rounds over two engines that feed each other     *)
(* end, also when one lost a pair and no longer recognises what it was told *)
(* (the loop of continue_partial, its any_new and any_extend_work).         *)
CallsReturn == pc # "idle" ~> pc = "idle"
=============================================================================
