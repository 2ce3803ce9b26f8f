------------------------------ MODULE MCTipJar ------------------------------
(***************************************************************************)
(* The tip jar for model checking: tokens are interchangeable, and so are  *)
(* the creators, who are also the signers.                                 *)
(***************************************************************************)
EXTENDS TipJar, TLC

JarSymmetry == Permutations(Token) \cup Permutations(Creator)
=============================================================================
