------------------------------- MODULE Handoff -------------------------------
(****************************************************************************)
(* What each station that a mail passes on its way promises, whatever it is *)
(* made of: it takes an item over, it hands copies of it on, and it lays    *)
(* the item down only when a copy was handed on, or openly as dropped.      *)
(* Between taking it over and laying it down the item is owed; there is no  *)
(* state in which it is simply gone.  The outbox table (Outbox) and the     *)
(* queues of the mail service (MailQueue) both implement it.                *)
(*                                                                          *)
(* The items are independent of each other and a step of a station (a crash,*)
(* a poll) may concern many of them, so a step of Handoff lets every item   *)
(* take a step of its own or stay as it is.                                 *)
(****************************************************************************)
EXTENDS Integers

CONSTANTS
    Item,  \* what is handed from station to station
    Redo   \* whether an item that was laid down may be taken up again

VARIABLES
    duty,  \* how the station stands to each item
    out    \* copies of each item it has handed on

Duty == {"none", "owed", "done", "dropped"}

Init == duty = [i \in Item |-> "none"] /\ out = [i \in Item |-> 0]

Becomes(i, d) == duty'[i] = d

Take(i) == duty[i] = "none" /\ Becomes(i, "owed")

\* An item that was laid down comes back: it is submitted or redriven again.
TakeAgain(i) == Redo /\ duty[i] \in {"done", "dropped"} /\ Becomes(i, "owed")

\* The item is reported delivered, and it was.
Discharge(i) ==
    /\ duty[i] = "owed" \/ (Redo /\ duty[i] = "dropped")
    /\ out[i] > 0
    /\ Becomes(i, "done")

\* The station gives the item up, in doubt even one it has reported delivered.
Drop(i) == duty[i] \in {"owed", "done"} /\ Becomes(i, "dropped")

\* A copy, or several at once, of an item the station knows is handed on.
HandOn(i) == out'[i] = out[i] \/ (duty[i] # "none" /\ out'[i] > out[i])

ItemStep(i) ==
    /\ HandOn(i)
    /\ \/ Becomes(i, duty[i])
       \/ Take(i) \/ TakeAgain(i) \/ Discharge(i) \/ Drop(i)

Next ==
    /\ DOMAIN duty' = Item /\ DOMAIN out' = Item
    /\ \A i \in Item : ItemStep(i)

Spec == Init /\ [][Next]_<<duty, out>>
==============================================================================
