----------------------------- MODULE MCAppSession -----------------------------
(* Small instances of AppSession for TLC. *)
EXTENDS AppSession, TLC

CONSTANTS r1, r2, c1, sock, spl

Symmetry == Permutations(Request)
==============================================================================
