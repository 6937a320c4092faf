----------------------------- MODULE MCChatLog -----------------------------
(* Small instances of ChatLog for TLC. *)
EXTENDS ChatLog, TLC

Symmetry == Permutations(Conns) \cup Permutations(Versions)
=============================================================================
