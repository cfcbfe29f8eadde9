------------------------------- MODULE MCPlay -------------------------------
(* Boxes with a key for each, and Enter; one line of two boxes.            *)
EXTENDS Play
OneLine == {{0, 1}}
=============================================================================
