----------------------------- MODULE MCSession -----------------------------
(***************************************************************************)
(* Two files in two ledgers, however they are spread; a file may have no   *)
(* error, a syntax error, or an error the check reports on the other file. *)
(***************************************************************************)
EXTENDS Session, TLC

MCLayouts == [Files -> Ledgers]
MCDisks   == {[f \in Files |-> "good"]}
MCBlame   == [f \in Files |-> CHOOSE g \in Files : g # f]

(* Swapping the two files, or the two ledgers, maps behaviours to behaviours. *)
MCSymmetry == Permutations(Files) \cup Permutations(Ledgers)
=============================================================================
