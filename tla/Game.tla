-------------------------------- MODULE Game --------------------------------
(***************************************************************************)
(* The tic-tac-toe program: game/src/game.c and game/src/effect.c.  Its    *)
(* main loop takes a move of the player and answers it, saves the board to *)
(* game_load.txt one character at a time, and, when the time has come,     *)
(* redraws the screen and saves again.  The machine may be switched off at *)
(* any time; after the next start the board is loaded from the file.       *)
(*                                                                         *)
(* torn is a history variable: the machine went off while the file held    *)
(* part of an old board and part of a new one.                             *)
(***************************************************************************)
EXTENDS Integers, FiniteSets

CONSTANTS
  NBoxes,   \* boxes of the board: 9
  Centre,   \* the box the computer starts in: 4
  Lines     \* the sets of boxes that win

ASSUME GameAssumption ==
  /\ NBoxes \in Nat /\ NBoxes % 2 = 1
  /\ Centre \in 0 .. (NBoxes - 1)
  /\ Lines \subseteq SUBSET (0 .. (NBoxes - 1))

Boxes == 0 .. (NBoxes - 1)
Empty == "empty"

VARIABLES
  box,     \* text of each box
  winner,  \* 0 nobody, 1 the player, 2 the computer
  file,    \* the board in game_load.txt
  pc,      \* poll, save, redraw, resave; hung in update_keypress's while(1)
  i,       \* loop counter of the save
  torn

vars == <<box, winner, file, pc, i, torn>>

Board == [Boxes -> {Empty, "O", "X"}]

TypeOK ==
  /\ box \in Board
  /\ winner \in 0 .. 2
  /\ file \in Board
  /\ pc \in {"poll", "save", "redraw", "resave", "hung"}
  /\ i \in Boxes
  /\ torn \in BOOLEAN

\* mutant: reset_game forgets the computer's first move.
FreshEmpty == [b \in Boxes |-> Empty]

\* The board of reset_game, which is also that of the file on a new disk.
Fresh == [b \in Boxes |-> IF b = Centre THEN "X" ELSE Empty]

\* initial_game, and the loading of the board at the head of main_loop.
Init ==
  /\ box = Fresh
  /\ winner = 0
  /\ file = Fresh
  /\ pc = "poll"
  /\ i = 0
  /\ torn = FALSE

Free(b) == {k \in Boxes : b[k] = Empty}

(***************************************************************************)
(* update_keypress with a key of a free box j pressed: an O for the player *)
(* and an X in a box that rand() finds.  Without one it looks forever.     *)
(***************************************************************************)
Move ==
  /\ pc = "poll"
  /\ \E j \in Free(box) :
       LET played == [box EXCEPT ![j] = "O"]
       IN  \/ \E k \in Free(played) :
                /\ box' = [played EXCEPT ![k] = "X"]
                /\ pc' = "save"
           \/ /\ Free(played) = {}
              /\ box' = played
              /\ pc' = "hung"
  /\ UNCHANGED <<winner, file, i, torn>>

\* mutant: reset_game leaves the winner.
ResetKeepsWinner ==
  /\ pc = "poll"
  /\ box' = Fresh
  /\ pc' = "save"
  /\ UNCHANGED <<winner, file, i, torn>>

\* update_keypress with the enter key pressed: whatever was played before,
\* reset_game starts a new game.
Reset ==
  /\ pc = "poll"
  /\ box' = Fresh
  /\ winner' = 0
  /\ pc' = "save"
  /\ UNCHANGED <<file, i, torn>>

\* No key, or that of a box that is not free.
NoMove ==
  /\ pc = "poll"
  /\ pc' = "save"
  /\ UNCHANGED <<box, winner, file, i, torn>>

\* mutant: the loop runs one too short.
AfterBoxShort(b) == (b + 1) % (NBoxes - 1)

\* The loop over the boxes, which starts again at 0.
AfterBox(b) == (b + 1) % NBoxes

\* One write(fd, &charac, 1) after the lseek to the start of the file.  After
\* the last one it is time to redraw, or not.
Save ==
  /\ pc \in {"save", "resave"}
  /\ file' = [file EXCEPT ![i] = box[i]]
  /\ i' = AfterBox(i)
  /\ \/ i' # 0 /\ pc' = pc
     \/ i' = 0 /\ pc' = "poll"
     \/ i' = 0 /\ pc = "save" /\ pc' = "redraw"
  /\ UNCHANGED <<box, winner, torn>>

winp_check == \E l \in Lines : \A b \in l : box[b] = "O"
winc_check == \E l \in Lines : \A b \in l : box[b] = "X"

\* redraw_screen announces a winner, the player if both have a line.
Redraw ==
  /\ pc = "redraw"
  /\ winner' = IF winp_check /\ winner # 2 THEN 1
               ELSE IF winc_check /\ winner # 1 THEN 2 ELSE winner
  /\ pc' = "resave"
  /\ UNCHANGED <<box, file, i, torn>>

\* The machine is switched off and on again.
Quit ==
  /\ box' = file
  /\ winner' = 0
  /\ pc' = "poll"
  /\ i' = 0
  /\ torn' = (torn \/ (i # 0 /\ file # box))
  /\ UNCHANGED file

Next == Move \/ Reset \/ NoMove \/ Save \/ Redraw \/ Quit

Spec == Init /\ [][Next]_vars
-----------------------------------------------------------------------------
(***************************************************************************)
(* The computer is one move ahead whenever the player is asked, after any  *)
(* number of games, saves and restarts, so an even number of boxes is free *)
(* and update_keypress always finds one for the computer: its while(1) has *)
(* no other way out.  A half-written board that is loaded spoils this.     *)
(***************************************************************************)
FairPlay ==
  ~torn =>
    /\ pc # "hung"
    /\ pc = "poll" =>
         Cardinality({b \in Boxes : box[b] = "X"}) =
           Cardinality({b \in Boxes : box[b] = "O"}) + 1

\* When the player is asked for a move, the file holds the board: leaving at
\* that point loses nothing.
BoardSaved == pc = "poll" => file = box

\* An announced winner has a line on the board, and a new game has no winner.
WinnerStands ==
  /\ winner = 1 => winp_check
  /\ winner = 2 => winc_check
=============================================================================
