------------------------------ MODULE MCTrivia ------------------------------
(* Small instances of Trivia for TLC. *)
EXTENDS Trivia, TLC
=============================================================================
