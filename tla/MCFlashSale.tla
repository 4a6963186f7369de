------------------------------ MODULE MCFlashSale ------------------------------
(***************************************************************************)
(* One order that may be paid twice, as two pre-pay calls allow, and two   *)
(* handlers, enough for any two of them to race.                           *)
(***************************************************************************)
EXTENDS FlashSale, TLC

Symmetry == Permutations(Handlers)
=============================================================================
