----------------------------- MODULE MCProcess -----------------------------
(* Process on a table of five slots, three of which can be alive besides   *)
(* the idle process.                                                       *)
EXTENDS Process
=============================================================================
