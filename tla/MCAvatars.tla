------------------------------ MODULE MCAvatars ------------------------------
(* Small instances of Avatars for TLC. *)
EXTENDS Avatars, TLC

CONSTANTS q1, q2, q3

Symmetry == Permutations({q1, q2, q3})
==============================================================================
