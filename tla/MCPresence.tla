------------------------------ MODULE MCPresence ------------------------------
(* Small instances of Presence for TLC. *)
EXTENDS Presence, TLC

CONSTANTS ann, bob, a1, b1, b2, i1, i2

OwnerOf == [s \in Socket |-> IF s = a1 THEN ann ELSE bob]
HomeOf == [s \in Socket |-> IF s = b2 THEN i2 ELSE i1]
AllFriends == [u \in {ann, bob} |-> {ann, bob} \ {u}]

\* Either three devices connect once each, through two faults; or one device of
\* each user, without a fault, and each connects twice, or one of them does and a
\* snapshot is asked for.
Bound ==
    \/ asks = 0 /\ \A s \in Socket : visits[s] <= 1
    \/ faults = 0 /\ visits[b2] = 0 /\ (asks = 0 \/ \E s \in {a1, b1} : visits[s] <= 1)
==============================================================================
