------------------------------ MODULE MCWindow ------------------------------
(* A small instance of SlidingWindow for TLC. *)
EXTENDS SlidingWindow, TLC
=============================================================================
