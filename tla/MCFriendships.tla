---------------------------- MODULE MCFriendships ----------------------------
(* Small instances of Friendships for TLC. *)
EXTENDS Friendships, TLC

CONSTANTS ann, bob, k1, k2, k3, c1, c2, q1, q2, q3

Symmetry == Permutations({ann, bob}) \cup Permutations({k1, k2, k3})
            \cup Permutations({c1, c2}) \cup Permutations({q1, q2, q3})
==============================================================================
