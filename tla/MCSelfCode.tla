------------------------------ MODULE MCSelfCode ------------------------------
(* SelfCode over interchangeable stems.                                         *)
EXTENDS SelfCode, TLC

StemPermutations == Permutations(Stems)
===============================================================================
