------------------------------ MODULE MCChatLog ------------------------------
(* Small instances of ChatLog for TLC. *)
EXTENDS ChatLog, TLC

CONSTANTS ann, bob, q1, q2, q3

Symmetry == Permutations({ann, bob}) \cup Permutations({q1, q2, q3})
==============================================================================
