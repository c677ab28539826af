------------------------------- MODULE Orders -------------------------------
(***************************************************************************)
(* What a loop over the places of a sequence collects.                     *)
(***************************************************************************)
EXTENDS Integers, Sequences

(* The places at which a sequence of truth values holds, from the first.   *)
Places(holds) ==
    LET upTo[i \in 0..Len(holds)] ==
            IF i = 0 THEN << >>
            ELSE IF holds[i] THEN Append(upTo[i - 1], i) ELSE upTo[i - 1]
    IN  upTo[Len(holds)]
=============================================================================
