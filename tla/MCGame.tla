------------------------------- MODULE MCGame -------------------------------
(* The board of the program.                                               *)
EXTENDS Game

\* The eight lines of winp_check and winc_check.
AllLines ==
  {{0, 1, 2}, {3, 4, 5}, {6, 7, 8}, {0, 4, 8}, {2, 4, 6},
   {0, 3, 6}, {1, 4, 7}, {2, 5, 8}}
=============================================================================
