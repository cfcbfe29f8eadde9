-------------------------------- MODULE Play --------------------------------
(***************************************************************************)
(* The game at the keyboard: the main loop of game/src/game.c, whose moves *)
(* come from the flags that process_keys keeps, while keys go down and up  *)
(* and interrupts arrive between any two of its steps.  Key j < NBoxes is  *)
(* that of box j, the last key is Enter.  The board, the file and the      *)
(* redrawing are Game's; what is added is where a move comes from, and     *)
(* which flags the game clears of its own accord.                          *)
(***************************************************************************)
EXTENDS Keyboard

CONSTANTS NBoxes, Centre, Lines   \* as in Game

Enter == NBoxes

ASSUME PlayAssumption ==
  /\ NBoxes \in Nat /\ NBoxes % 2 = 1
  /\ NR_KEYS = NBoxes + 1

VARIABLES
  box, winner, file, pc, i, torn,   \* as in Game; nobody switches the machine off
  polling                           \* in the loop around process_keys

G == INSTANCE Game

gameVars == <<box, winner, file, pc, i, torn>>
playVars == <<keyVars, gameVars, polling>>

PlayTypeOK ==
  /\ KeyTypeOK
  /\ G!TypeOK
  /\ polling \in BOOLEAN

PlayInit ==
  /\ KeyInit
  /\ G!Init
  /\ polling = TRUE

\* The user, and the interrupts: at any time.
Type ==
  /\ \/ \E k \in Keys \cup {NoKey} : Press(k) \/ Release(k)
     \/ Keyboard_event
     \/ Interrupt
  /\ UNCHANGED <<gameVars, polling>>

\* get_kbd returns 0xff.
LeaveLoop ==
  /\ cpu = "user" /\ eax = Nothing
  /\ Reportable = {}
  /\ polling' = FALSE
  /\ UNCHANGED keyVars

\* while (process_keys()): get_kbd until it returns 0xff.
Poll ==
  /\ pc = "poll"
  /\ polling
  /\ \/ (handle_keys \/ Return \/ process_keys) /\ UNCHANGED polling
     \/ LeaveLoop
  /\ UNCHANGED gameVars

\* Keys 1 to 9 have the scan codes 2 to 10.
letter_code(k) == k + 2

\* The keys whose flags release_key clears for the scan codes given; Enter's
\* is larger than any the game passes.
Released(scan_codes) == {k \in 0 .. (NBoxes - 1) : letter_code(k) \in scan_codes}

ClearFlags(ks) ==
  letter_pressed' = [k \in Keys |-> letter_pressed[k] /\ k \notin ks]

\* The boxes that update_keypress may give to the player.
Wanted == {j \in G!Free(box) : letter_pressed[j]}

\* mutant: the last box wanted is played, not the first.
IsLast(j, s) == \A k \in s : k <= j

\* The one that its loop comes to first.
IsFirst(j, s) == \A k \in s : j <= k

\* mutant: the computer takes any box that is not its own.
AnswersAnywhere(played) ==
  {[played EXCEPT ![k] = "X"] : k \in {k \in 0 .. (NBoxes - 1) : played[k] # "X"}}

\* The boards after the player's move: the computer has answered, or looks
\* for a free box for ever.
Answers(played) ==
  IF G!Free(played) = {} THEN {played}
  ELSE {[played EXCEPT ![k] = "X"] : k \in G!Free(played)}

(***************************************************************************)
(* update_keypress.  A move, if a box is wanted; then a new game, if Enter *)
(* is pressed; otherwise, unless the box was the last, release_key with    *)
(* the number of the box, where a scan code is expected.                   *)
(***************************************************************************)
update_keypress ==
  LET first == {j \in Wanted : IsFirst(j, Wanted)}
      hung  == Wanted # {} /\ Cardinality(G!Free(box)) = 1
      reset == letter_pressed[Enter] /\ ~hung
  IN  /\ pc = "poll"
      /\ ~polling
      /\ pc' = IF hung THEN "hung" ELSE "save"
      /\ IF reset THEN box' = G!Fresh
         ELSE IF first = {} THEN UNCHANGED box
         ELSE \E j \in first : box' \in Answers([box EXCEPT ![j] = "O"])
      /\ winner' = IF reset THEN 0 ELSE winner
      /\ ClearFlags(IF hung THEN {}
                    ELSE IF reset THEN Released(0 .. NBoxes)
                    ELSE Released(first \ {NBoxes - 1}))
      /\ polling' = TRUE
      /\ UNCHANGED <<down, codes, key_state, eax, cpu, presses, file, i, torn>>

\* The board is saved and the screen redrawn.
Rest ==
  /\ G!Save \/ G!Redraw
  /\ UNCHANGED <<keyVars, polling>>

PlayNext == Type \/ Poll \/ update_keypress \/ Rest

(***************************************************************************)
(* Interrupts are open in user mode, so the codes get through, and the     *)
(* scheduler lets the game's loop go on, up to an interrupt that hits the  *)
(* way out of KEYCODE: no step of the loop is enabled from then on, and    *)
(* the machine may even stop (Semaphore's StaleFrame), so that nothing is  *)
(* assumed of the codes either.  The user stops typing in the end: a key   *)
(* that is hammered without pause would keep handle_keys from ever looking *)
(* at the keys behind it, and the loop from ending.                        *)
(***************************************************************************)
PlaySpec ==
  /\ PlayInit /\ [][PlayNext]_playVars
  /\ WF_playVars(cpu # "lost" /\ Keyboard_event /\ UNCHANGED <<gameVars, polling>>)
  /\ WF_playVars(Poll \/ update_keypress \/ Rest)
-----------------------------------------------------------------------------
(***************************************************************************)
(* When the user has stopped typing the game catches up: the driver has    *)
(* nothing left to report and knows which keys are down, the game believes *)
(* no other key to be pressed, and every move asked for by a key that is   *)
(* still held has been made (unless Enter is held, which starts a new game *)
(* each time).  The one way to keep it from that is an interrupt between   *)
(* the sti of handle_keys and the reload of %esp.                          *)
(***************************************************************************)
CaughtUp ==
  /\ codes = <<>>
  /\ \A k \in Keys :
       /\ key_state[k] = IF k \in down THEN WAIT_RELEASE ELSE EMPTY
       /\ letter_pressed[k] => k \in down
  /\ letter_pressed[Enter] \/ Wanted = {}

CatchesUp == <>[](cpu = "lost" \/ CaughtUp)

(***************************************************************************)
(* release_key(box[j].index) clears the flag of another key than the one   *)
(* just played, but never one whose box is still free: no move that was    *)
(* asked for is dropped without a new game or the key's release.           *)
(***************************************************************************)
MoveKept ==
  [][update_keypress /\ ~letter_pressed[Enter] =>
       \A j \in 0 .. (NBoxes - 1) :
         letter_pressed[j] /\ box'[j] = G!Empty => letter_pressed'[j]]_playVars

\* What the player sees is the game: whatever happens at the keyboard, the
\* board, the file and the winner change as Game says.
ImplementsGame == G!Spec
=============================================================================
