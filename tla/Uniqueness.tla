----------------------------- MODULE Uniqueness -----------------------------
(***************************************************************************)
(* What the analysis promises, whatever lemmas, selector or solver it      *)
(* runs: the set of wires it believes unique grows only by wires that      *)
(* really are, and it stops with "safe" only when every output is          *)
(* determined, with "unsafe" only when some output is not.  "unknown" is   *)
(* always allowed.                                                         *)
(***************************************************************************)
EXTENDS Circuits

VARIABLES
    sols,       \* solution set of the circuit analysed; never changes
    known,      \* wires believed unique
    verdict     \* "running" until the answer is given

vars == <<sols, known, verdict>>

Init ==
    /\ sols \in SolutionSets
    /\ known = Inputs
    /\ verdict = "running"

(* Any number of wires that are determined may be learned in one step. *)
Learn ==
    /\ verdict = "running"
    /\ \E new \in SUBSET (Wires \ known) :
          /\ new # {}
          /\ \A w \in new : Determined(sols, w)
          /\ known' = known \cup new
    /\ UNCHANGED <<sols, verdict>>

Answer(v) ==
    /\ verdict = "running"
    /\ v = "safe" => \A o \in Outputs : Determined(sols, o)
    /\ v = "unsafe" => \E o \in Outputs : ~Determined(sols, o)
    /\ verdict' = v
    /\ UNCHANGED <<sols, known>>

Next == Learn \/ \E v \in {"safe", "unsafe", "unknown"} : Answer(v)

Spec == Init /\ [][Next]_vars
=============================================================================
