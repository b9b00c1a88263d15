------------------------------ MODULE Selection ------------------------------
(***************************************************************************)
(* Selecting from a sequence by membership in a set.  SelectSeq does it by  *)
(* a test, but its definition is built in and cannot be reasoned about.     *)
(***************************************************************************)
EXTENDS Integers, Sequences

\* The elements of seq that are in S, in their order.
Selected(seq, S) ==
    LET upTo[k \in 0 .. Len(seq)] ==
            IF k = 0 THEN <<>>
            ELSE IF seq[k] \in S THEN Append(upTo[k - 1], seq[k]) ELSE upTo[k - 1]
    IN  upTo[Len(seq)]
==============================================================================
