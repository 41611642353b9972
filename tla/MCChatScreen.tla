----------------------------- MODULE MCChatScreen -----------------------------
(* Small instances of ChatScreen for TLC. *)
EXTENDS ChatScreen, TLC

CONSTANTS peer, q1, q2

CallSymmetry == Permutations({q1, q2})
==============================================================================
