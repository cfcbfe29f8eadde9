------------------------------ MODULE Keyboard ------------------------------
(***************************************************************************)
(* A key from the finger to the game: the interrupt handler Keyboard_event *)
(* and the system call handle_keys of kernel/src/device/keyboard.c, which  *)
(* share key_state, and the flags letter_pressed that the game's           *)
(* process_keys keeps.  The game polls; what it misses in between is       *)
(* merged into one state per key.  Play puts these steps together with the *)
(* game's.                                                                 *)
(*                                                                         *)
(* handle_keys executes sti when it has a key to report, and asm_do_irq    *)
(* loads %esp from current->tf only after that.  An interrupt in between   *)
(* stores its own frame in current->tf; the way out of the call then loads *)
(* that frame again and again, and the game is never heard of any more.    *)
(***************************************************************************)
EXTENDS Integers, Sequences, FiniteSets

CONSTANTS
  NR_KEYS,   \* keys the driver knows: 10
  MaxCodes,  \* scan codes the controller holds back while interrupts are off
  Presses    \* bound on how often keys are pressed

ASSUME KeyAssumption ==
  /\ NR_KEYS \in Nat \ {0}
  /\ MaxCodes \in Nat \ {0}
  /\ Presses \in Nat

Keys == 0 .. (NR_KEYS - 1)
NoKey == NR_KEYS       \* a key that is not in keycode_array

EMPTY        == "EMPTY"
WAIT_RELEASE == "WAIT_RELEASE"
RELEASE      == "RELEASE"
PRESS        == "PRESS"

\* Where the game is: in user code, or in the kernel with interrupts closed
\* until iret; on the way out of KEYCODE with interrupts open; or there for ever.
Place == {"user", "tail", "lost"}

VARIABLES
  down,            \* the keys held down
  codes,           \* scan codes on their way to Keyboard_event, in order
  key_state,       \* the driver's state of each key
  letter_pressed,  \* the game's flags
  eax,             \* what KEYCODE has reported and the game not yet looked at
  cpu,             \* where the game is
  presses          \* presses so far

keyVars == <<down, codes, key_state, letter_pressed, eax, cpu, presses>>

Code == [key : Keys \cup {NoKey}, up : BOOLEAN]

\* 0xff: no key, and no key's release either.
Nothing == [key |-> NoKey, up |-> TRUE]

KeyTypeOK ==
  /\ down \subseteq Keys \cup {NoKey}
  /\ codes \in Seq(Code) /\ Len(codes) <= MaxCodes
  /\ key_state \in [Keys -> {EMPTY, WAIT_RELEASE, RELEASE, PRESS}]
  /\ letter_pressed \in [Keys -> BOOLEAN]
  /\ eax \in [key : Keys, up : BOOLEAN] \cup {Nothing}
  /\ cpu \in Place
  /\ presses \in 0 .. Presses

KeyInit ==
  /\ down = {}
  /\ codes = <<>>
  /\ key_state = [k \in Keys |-> EMPTY]
  /\ letter_pressed = [k \in Keys |-> FALSE]
  /\ eax = Nothing
  /\ cpu = "user"
  /\ presses = 0

\* The user presses a key, or holds it until its code is repeated.
Press(k) ==
  /\ Len(codes) < MaxCodes
  /\ presses < Presses
  /\ presses' = presses + 1
  /\ down' = down \cup {k}
  /\ codes' = Append(codes, [key |-> k, up |-> FALSE])
  /\ UNCHANGED <<key_state, letter_pressed, eax, cpu>>

Release(k) ==
  /\ k \in down
  /\ Len(codes) < MaxCodes
  /\ down' = down \ {k}
  /\ codes' = Append(codes, [key |-> k, up |-> TRUE])
  /\ UNCHANGED <<key_state, letter_pressed, eax, cpu, presses>>

\* An interrupt is let in where interrupts are open.
AfterInterrupt == IF cpu = "user" THEN "user" ELSE "lost"

\* The timer's and the disk's interrupt.
Interrupt ==
  /\ cpu' = AfterInterrupt
  /\ UNCHANGED <<down, codes, key_state, letter_pressed, eax, presses>>

\* mutant: a release does not take back a press that was not reported.
AfterEventKeepsPress(s, up) ==
  IF up THEN (IF s = PRESS THEN PRESS ELSE RELEASE)
  ELSE IF s = WAIT_RELEASE THEN WAIT_RELEASE ELSE PRESS

\* The state Keyboard_event gives a key in state s.
AfterEvent(s, up) ==
  IF up THEN RELEASE
  ELSE IF s = WAIT_RELEASE THEN WAIT_RELEASE ELSE PRESS

Keyboard_event ==
  /\ codes # <<>>
  /\ codes' = Tail(codes)
  /\ LET c == Head(codes)
     IN  key_state' = [k \in Keys |-> IF k = c.key
                                      THEN AfterEvent(key_state[k], c.up)
                                      ELSE key_state[k]]
  /\ cpu' = AfterInterrupt
  /\ UNCHANGED <<down, letter_pressed, eax, presses>>

\* mutant: handle_keys does not report releases.
ReportablePresses == {k \in Keys : key_state[k] = PRESS}

\* The keys handle_keys has something to report of.
Reportable == {k \in Keys : key_state[k] \in {PRESS, RELEASE}}

\* mutant: a reported press is forgotten.
AfterReportEmpty(s) == EMPTY

\* The state handle_keys leaves a key in that it reports.
AfterReport(s) == IF s = PRESS THEN WAIT_RELEASE ELSE EMPTY

(***************************************************************************)
(* process_keys calls get_kbd, which handle_keys answers: the lowest key   *)
(* that has something to report.  With nothing to report it returns 0xff,  *)
(* and leaves interrupts closed.                                           *)
(***************************************************************************)
handle_keys ==
  /\ cpu = "user"
  /\ eax = Nothing
  /\ \E k \in Reportable :
       /\ \A j \in Reportable : k <= j
       /\ eax' = [key |-> k, up |-> key_state[k] = RELEASE]
       /\ key_state' = [key_state EXCEPT ![k] = AfterReport(@)]
  /\ cpu' = "tail"
  /\ UNCHANGED <<down, codes, letter_pressed, presses>>

\* The end of asm_do_irq: %esp is loaded from current->tf, and iret follows.
Return ==
  /\ cpu = "tail"
  /\ cpu' = "user"
  /\ UNCHANGED <<down, codes, key_state, letter_pressed, eax, presses>>

\* process_keys goes on: press_key or release_key sets or clears the flag.
process_keys ==
  /\ cpu = "user"
  /\ eax # Nothing
  /\ letter_pressed' = [letter_pressed EXCEPT ![eax.key] = ~eax.up]
  /\ eax' = Nothing
  /\ UNCHANGED <<down, codes, key_state, cpu, presses>>

-----------------------------------------------------------------------------
\* The last code on its way for key k says that it is up; without one, s.
LastWord(k, s) ==
  LET mine == {i \in DOMAIN codes : codes[i].key = k}
  IN  IF mine = {} THEN s
      ELSE codes[CHOOSE i \in mine : \A j \in mine : j <= i].up

(***************************************************************************)
(* The driver never loses track of a key: once the codes on their way are  *)
(* taken into account, PRESS and WAIT_RELEASE mean that it is down,        *)
(* RELEASE and EMPTY that it is up, however presses, releases, interrupts  *)
(* and polls interleave.                                                   *)
(***************************************************************************)
DriverKnows ==
  \A k \in Keys :
    (k \in down) <=> ~LastWord(k, key_state[k] \in {RELEASE, EMPTY})

(***************************************************************************)
(* No stuck key: while the game believes a key to be pressed, or is just   *)
(* being told so, the driver has not finished with the key, or its release *)
(* is on the way from the driver to the game.                              *)
(***************************************************************************)
NoStuckKey ==
  \A k \in Keys :
    letter_pressed[k] \/ eax = [key |-> k, up |-> FALSE] =>
      key_state[k] # EMPTY \/ eax = [key |-> k, up |-> TRUE]
=============================================================================
