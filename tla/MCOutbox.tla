------------------------------- MODULE MCOutbox -------------------------------
(* Small instances of Outbox for TLC. *)
EXTENDS Outbox, TLC

CONSTANTS i1, i2, e1, e2

Backoff1 == <<1>>
Backoff13 == <<1, 3>>

Symmetry == Permutations({i1, i2}) \cup Permutations({e1, e2})
EventSymmetry == Permutations({e1, e2})
==============================================================================
