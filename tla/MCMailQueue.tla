----------------------------- MODULE MCMailQueue -----------------------------
(* Small instances of MailQueue for TLC. *)
EXTENDS MailQueue

CONSTANTS c1, c2, c3, v, bad

==============================================================================
