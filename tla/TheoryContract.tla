---------------------------- MODULE TheoryContract ----------------------------
(***************************************************************************)
(* What CDCL(T) asks of a theory (picus-solver/src/cdclt/theory.rs): a      *)
(* record of the asserted literals, level by level, whose answers are true  *)
(* of exactly these literals.  `world` gives each literal the points it     *)
(* holds at.  Each theory of the code implements this module (Theories);    *)
(* CdclT relies on it.                                                      *)
(***************************************************************************)
EXTENDS Integers, Sequences, FiniteSets

VARIABLES world, asserted, reply

contract == <<world, asserted, reply>>

Literals == DOMAIN world
Points == UNION {world[l] : l \in Literals}

Levels == DOMAIN asserted
LiteralsAt(k) == {asserted[k][i] : i \in DOMAIN asserted[k]}
Asserted == UNION {LiteralsAt(k) : k \in Levels}

(* The points at which all of ls hold. *)
Common(ls) == {x \in Points : \A l \in ls : x \in world[l]}

NoReply == [kind |-> "none"]
GivenUp == [kind |-> "unknown"]

Init ==
    /\ asserted = << <<>> >>
    /\ reply = NoReply

NotifyFact(l) ==
    /\ \A k \in Asserted : k # l /\ k # -l
    /\ asserted' = [asserted EXCEPT ![Len(asserted)] = Append(@, l)]
    /\ reply' = NoReply

Push ==
    /\ asserted' = Append(asserted, <<>>)
    /\ reply' = NoReply

Pop ==
    /\ Len(asserted) > 1
    /\ asserted' = SubSeq(asserted, 1, Len(asserted) - 1)
    /\ reply' = NoReply

(* A model fixes some variables: the points that agree with it all satisfy *)
(* what is asserted.                                                       *)
AnswerSat ==
    /\ reply'.kind = "sat"
    /\ reply'.points # {} /\ reply'.points \subseteq Common(Asserted)

(* A core is asserted, and cannot hold together. *)
AnswerUnsat ==
    /\ reply'.kind = "unsat"
    /\ reply'.core \subseteq Asserted /\ Common(reply'.core) = {}

AnswerUnknown == reply' = GivenUp

PostCheck ==
    /\ AnswerSat \/ AnswerUnsat \/ AnswerUnknown
    /\ UNCHANGED asserted

(* Each derived literal comes with a reason that is asserted and entails it. *)
Propagate ==
    /\ reply'.kind = "derived"
    /\ \A d \in reply'.facts :
          /\ d.reason # {} /\ d.reason \subseteq Asserted
          /\ d.lit \in Literals /\ Common(d.reason) \subseteq world[d.lit]
    /\ UNCHANGED asserted

Next ==
    /\ \/ \E l \in Literals : NotifyFact(l)
       \/ Push \/ Pop \/ PostCheck \/ Propagate
    /\ UNCHANGED world

Spec == Init /\ [][Next]_contract
===============================================================================
