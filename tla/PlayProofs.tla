----------------------------- MODULE PlayProofs -----------------------------
(***************************************************************************)
(* Proofs about the keyboard and the game's main loop, for every number of *)
(* keys, of presses and of scan codes on their way: the driver never loses *)
(* track of a key, no key sticks, no move is dropped, and what the player  *)
(* sees is Game.                                                           *)
(***************************************************************************)
EXTENDS Play, TLAPS, FiniteSetTheorems, SequenceTheorems, NaturalsInduction,
        WellFoundedInduction

\* The positions of key k in a queue q of scan codes.
Mine(q, k) == {n \in DOMAIN q : q[n].key = k}
IsLastOf(m, S) == m \in S /\ \A n \in S : n <= m

(***************************************************************************)
(* DriverKnows without CHOOSE: the last code on its way for a key says     *)
(* whether it is down; if there is none, the driver's state does.          *)
(***************************************************************************)
Known ==
  \A k \in Keys :
    /\ Mine(codes, k) = {} => (k \in down <=> key_state[k] \in {PRESS, WAIT_RELEASE})
    /\ \A m : IsLastOf(m, Mine(codes, k)) => (k \in down <=> codes[m].up = FALSE)

Inv == PlayTypeOK /\ Known /\ NoStuckKey

\* A non-empty set of numbers has a least one: update_keypress's loop comes to
\* some box first if a box is wanted.
LEMMA FirstExists ==
  ASSUME NEW S \in SUBSET Nat, S # {}
  PROVE  \E x \in S : \A y \in S : x <= y
<1> DEFINE R == OpToRel(<, Nat)
<1>1. IsWellFoundedOn(R, Nat)
  BY NatLessThanWellFounded
<1>2. PICK x \in S : \A y \in S : ~(<<y, x>> \in R)
  <2> HIDE DEF R
  <2> QED
    BY <1>1, WFMin
<1>3. ASSUME NEW y \in S PROVE x <= y
  <2>1. x \in Nat /\ y \in Nat
    OBVIOUS
  <2>2. ~(y < x)
    BY <1>2, <2>1 DEF OpToRel
  <2> QED
    BY <2>1, <2>2
<1> QED
  BY <1>2, <1>3

\* A non-empty set of positions has a last one.
LEMMA LastExists ==
  ASSUME NEW n \in Nat, NEW S \in SUBSET (1 .. n), S # {}
  PROVE  \E m \in S : \A j \in S : j <= m
<1> DEFINE T == {n - j : j \in S}
<1>1. T \in SUBSET Nat /\ T # {}
  <2>1. \A j \in S : n - j \in Nat
    OBVIOUS
  <2>2. PICK j \in S : TRUE
    OBVIOUS
  <2>3. n - j \in T
    BY <2>2
  <2> QED
    BY <2>1, <2>3
<1>2. PICK x \in T : \A y \in T : x <= y
  <2> HIDE DEF T
  <2> QED
    BY <1>1, FirstExists
<1>3. PICK m \in S : x = n - m
  BY <1>2
<1>4. ASSUME NEW j \in S PROVE j <= m
  <2>1. n - j \in T /\ j \in Nat /\ m \in Nat
    OBVIOUS
  <2>2. n - m <= n - j
    BY <1>2, <1>3, <2>1
  <2> QED
    BY <2>1, <2>2
<1> QED
  BY <1>3, <1>4

\* What DriverKnows says, from the invariant.
LEMMA KnownIsEnough == PlayTypeOK /\ Known => DriverKnows
<1> SUFFICES ASSUME PlayTypeOK, Known, NEW k \in Keys
             PROVE  (k \in down) <=> ~LastWord(k, key_state[k] \in {RELEASE, EMPTY})
  BY DEF DriverKnows
<1> DEFINE mine == {n \in DOMAIN codes : codes[n].key = k}
<1>0. /\ codes \in Seq(Code) /\ mine = Mine(codes, k)
      /\ key_state[k] \in {EMPTY, WAIT_RELEASE, RELEASE, PRESS}
  BY DEF PlayTypeOK, KeyTypeOK, Mine
<1>1. CASE mine = {}
  <2>1. LastWord(k, key_state[k] \in {RELEASE, EMPTY}) <=> key_state[k] \in {RELEASE, EMPTY}
    BY <1>1 DEF LastWord
  <2> QED
    BY <1>0, <1>1, <2>1 DEF Known, EMPTY, WAIT_RELEASE, RELEASE, PRESS
<1>2. CASE mine # {}
  <2> DEFINE m == CHOOSE n \in mine : \A j \in mine : j <= n
  <2>1. mine \in SUBSET (1 .. Len(codes)) /\ Len(codes) \in Nat
    BY <1>0
  <2>2. m \in mine /\ \A j \in mine : j <= m
    BY <1>2, <2>1, LastExists
  <2>3. LastWord(k, key_state[k] \in {RELEASE, EMPTY}) = codes[m].up
    BY <1>2 DEF LastWord
  <2>4. codes[m].up \in BOOLEAN
    <3>1. codes[m] \in Code
      BY <1>0, <2>1, <2>2
    <3> QED
      BY <3>1 DEF Code
  <2>5. k \in down <=> codes[m].up = FALSE
    BY <1>0, <2>2 DEF Known, IsLastOf
  <2> QED
    BY <2>3, <2>4, <2>5
<1> QED
  BY <1>1, <1>2

\* The first start.
LEMMA InitInv == PlayInit => Inv
<1> SUFFICES ASSUME PlayInit PROVE Inv
  OBVIOUS
<1>1. KeyTypeOK
  BY KeyAssumption DEF PlayInit, KeyInit, KeyTypeOK, EMPTY, Place
<1>2. G!TypeOK
  <2>1. G!Fresh \in G!Board
    BY DEF G!Fresh, G!Board
  <2>2. 0 \in G!Boxes
    BY PlayAssumption DEF G!Boxes
  <2>3. box \in G!Board /\ file \in G!Board /\ i \in G!Boxes /\ winner \in 0 .. 2
    BY <2>1, <2>2 DEF PlayInit, G!Init
  <2>4. pc \in {"poll", "save", "redraw", "resave", "hung"} /\ torn \in BOOLEAN
    BY DEF PlayInit, G!Init
  <2> QED
    BY <2>3, <2>4 DEF G!TypeOK
<1>3. polling \in BOOLEAN
  BY DEF PlayInit
<1>4. Known
  BY DEF PlayInit, KeyInit, Known, Mine, IsLastOf, EMPTY, PRESS, WAIT_RELEASE
<1>5. NoStuckKey
  BY DEF PlayInit, KeyInit, NoStuckKey, Nothing
<1> QED
  BY <1>1, <1>2, <1>3, <1>4, <1>5 DEF Inv, PlayTypeOK

(***************************************************************************)
(* A code is put into the queue: it is the last word on its key, and the   *)
(* last word on the others stays.                                          *)
(***************************************************************************)
LEMMA Queued ==
  ASSUME NEW q \in Seq(Code), NEW c \in Code, NEW k
  PROVE  LET r == Append(q, c)
         IN  /\ k = c.key => /\ Mine(r, k) # {}
                             /\ \A m : IsLastOf(m, Mine(r, k)) => r[m] = c
             /\ k # c.key => /\ Mine(r, k) = Mine(q, k)
                             /\ \A m \in Mine(q, k) : r[m] = q[m]
<1> DEFINE r == Append(q, c)
           n == Len(q) + 1
<1>1. /\ r \in Seq(Code) /\ Len(r) = n /\ DOMAIN r = 1 .. n /\ n \in Nat
      /\ r[n] = c /\ \A m \in 1 .. Len(q) : r[m] = q[m]
      /\ DOMAIN q = 1 .. Len(q)
  OBVIOUS
<1>2. ASSUME k = c.key
      PROVE  Mine(r, k) # {} /\ \A m : IsLastOf(m, Mine(r, k)) => r[m] = c
  <2>1. n \in Mine(r, k)
    BY <1>1, <1>2 DEF Mine
  <2>2. \A m : IsLastOf(m, Mine(r, k)) => m = n
    BY <1>1, <2>1 DEF IsLastOf, Mine
  <2> QED
    BY <1>1, <2>1, <2>2
<1>3. ASSUME k # c.key
      PROVE  Mine(r, k) = Mine(q, k) /\ \A m \in Mine(q, k) : r[m] = q[m]
  BY <1>1, <1>3 DEF Mine
<1> QED
  BY <1>1, <1>2, <1>3

(***************************************************************************)
(* A code is taken from the queue: what is the last word on a key in the   *)
(* rest was the last word before, one position further; and without one,   *)
(* the last word was the code taken, if it was the key's.                  *)
(***************************************************************************)
LEMMA Dequeued ==
  ASSUME NEW q \in Seq(Code), q # <<>>, NEW k
  PROVE  /\ Tail(q) \in Seq(Code) /\ Head(q) \in Code
         /\ \A m : IsLastOf(m, Mine(Tail(q), k)) =>
              IsLastOf(m + 1, Mine(q, k)) /\ Tail(q)[m] = q[m + 1]
         /\ Mine(Tail(q), k) = {} =>
              IF Head(q).key = k THEN IsLastOf(1, Mine(q, k)) /\ q[1] = Head(q)
                                 ELSE Mine(q, k) = {}
<1> DEFINE t == Tail(q)
<1>1. /\ t \in Seq(Code) /\ Head(q) \in Code /\ Head(q) = q[1]
      /\ Len(q) \in Nat \ {0} /\ DOMAIN q = 1 .. Len(q)
      /\ DOMAIN t = 1 .. (Len(q) - 1)
      /\ \A m \in 1 .. (Len(q) - 1) : t[m] = q[m + 1]
  OBVIOUS
<1>2. ASSUME NEW m, IsLastOf(m, Mine(t, k))
      PROVE  IsLastOf(m + 1, Mine(q, k)) /\ t[m] = q[m + 1]
  <2>1. m \in 1 .. (Len(q) - 1) /\ t[m].key = k
    BY <1>1, <1>2 DEF IsLastOf, Mine
  <2>2. m + 1 \in Mine(q, k) /\ t[m] = q[m + 1]
    BY <1>1, <2>1 DEF Mine
  <2>3. ASSUME NEW n \in Mine(q, k) PROVE n <= m + 1
    <3>1. n \in 1 .. Len(q) /\ q[n].key = k
      BY <1>1 DEF Mine
    <3>2. CASE n = 1
      BY <2>1, <3>2
    <3>3. CASE n # 1
      <4>1. n - 1 \in 1 .. (Len(q) - 1) /\ t[n - 1] = q[n]
        BY <1>1, <3>1, <3>3
      <4>2. n - 1 \in Mine(t, k)
        BY <1>1, <3>1, <4>1 DEF Mine
      <4> QED
        BY <1>2, <2>1, <3>1, <4>2 DEF IsLastOf
    <3> QED
      BY <3>2, <3>3
  <2> QED
    BY <2>2, <2>3 DEF IsLastOf
<1>3. ASSUME Mine(t, k) = {}
      PROVE  IF Head(q).key = k THEN IsLastOf(1, Mine(q, k)) /\ q[1] = Head(q)
                                ELSE Mine(q, k) = {}
  <2>1. ASSUME NEW n \in Mine(q, k) PROVE n = 1
    <3>1. n \in 1 .. Len(q) /\ q[n].key = k
      BY <1>1, <2>1 DEF Mine
    <3> SUFFICES ASSUME n # 1 PROVE FALSE
      OBVIOUS
    <3>2. n - 1 \in 1 .. (Len(q) - 1) /\ t[n - 1] = q[n]
      BY <1>1, <3>1
    <3>3. n - 1 \in Mine(t, k)
      BY <1>1, <3>1, <3>2 DEF Mine
    <3> QED
      BY <1>3, <3>3
  <2>2. 1 \in Mine(q, k) <=> Head(q).key = k
    BY <1>1 DEF Mine
  <2> QED
    BY <1>1, <2>1, <2>2 DEF IsLastOf
<1> QED
  BY <1>1, <1>2, <1>3

(***************************************************************************)
(* The game's part                                                         *)
(***************************************************************************)

\* The steps of Game keep the types of its variables.
LEMMA GameType == G!TypeOK /\ [G!Next]_(G!vars) => G!TypeOK'
<1> SUFFICES ASSUME G!TypeOK, [G!Next]_(G!vars) PROVE G!TypeOK'
  OBVIOUS
<1>0. /\ box \in G!Board /\ winner \in 0 .. 2 /\ file \in G!Board
      /\ pc \in {"poll", "save", "redraw", "resave", "hung"}
      /\ i \in G!Boxes /\ torn \in BOOLEAN
      /\ NBoxes \in Nat \ {0} /\ G!Fresh \in G!Board
  BY PlayAssumption DEF G!TypeOK, G!Fresh, G!Board
<1>1. CASE G!Move
  <2>1. PICK j \in G!Free(box) :
          LET played == [box EXCEPT ![j] = "O"]
          IN  \/ \E k \in G!Free(played) :
                   /\ box' = [played EXCEPT ![k] = "X"]
                   /\ pc' = "save"
              \/ /\ G!Free(played) = {}
                 /\ box' = played
                 /\ pc' = "hung"
    BY <1>1 DEF G!Move
  <2>2. box' \in G!Board
    BY <1>0, <2>1 DEF G!Board, G!Free
  <2> QED
    BY <1>0, <1>1, <2>1, <2>2 DEF G!Move, G!TypeOK
<1>2. CASE G!Reset
  BY <1>0, <1>2 DEF G!Reset, G!TypeOK
<1>3. CASE G!NoMove
  BY <1>0, <1>3 DEF G!NoMove, G!TypeOK
<1>4. CASE G!Save
  <2>1. file' \in G!Board
    BY <1>0, <1>4 DEF G!Save, G!Board
  <2>2. i' \in G!Boxes
    BY <1>0, <1>4 DEF G!Save, G!Boxes, G!AfterBox
  <2> QED
    BY <1>0, <1>4, <2>1, <2>2 DEF G!Save, G!TypeOK
<1>5. CASE G!Redraw
  BY <1>0, <1>5 DEF G!Redraw, G!TypeOK
<1>6. CASE G!Quit
  <2>1. torn' \in BOOLEAN
    BY <1>6 DEF G!Quit
  <2>2. 0 \in G!Boxes
    BY <1>0 DEF G!Boxes
  <2> QED
    BY <1>0, <1>6, <2>1, <2>2 DEF G!Quit, G!TypeOK
<1>7. CASE UNCHANGED G!vars
  BY <1>0, <1>7 DEF G!vars, G!TypeOK
<1> QED
  BY <1>1, <1>2, <1>3, <1>4, <1>5, <1>6, <1>7 DEF G!Next

(***************************************************************************)
(* update_keypress is a move with its answer, a reset, or neither.  It     *)
(* tells by the number of free boxes whether the computer has an answer.   *)
(***************************************************************************)
LEMMA KeypressIsAMove ==
  ASSUME PlayTypeOK, update_keypress
  PROVE  G!Move \/ G!Reset \/ G!NoMove
<1> DEFINE first == {j \in Wanted : IsFirst(j, Wanted)}
           hung  == Wanted # {} /\ Cardinality(G!Free(box)) = 1
           reset == letter_pressed[Enter] /\ ~hung
<1>0. /\ box \in G!Board /\ IsFiniteSet(G!Free(box)) /\ pc = "poll"
      /\ UNCHANGED <<file, i, torn>>
  <2>1. IsFiniteSet(G!Boxes)
    BY PlayAssumption, FS_Interval DEF G!Boxes
  <2>2. G!Free(box) \in SUBSET G!Boxes
    BY DEF G!Free
  <2> QED
    BY <2>1, <2>2, FS_Subset DEF PlayTypeOK, G!TypeOK, update_keypress
<1>1. /\ pc' = IF hung THEN "hung" ELSE "save"
      /\ IF reset THEN box' = G!Fresh
         ELSE IF first = {} THEN UNCHANGED box
         ELSE \E j \in first : box' \in Answers([box EXCEPT ![j] = "O"])
      /\ winner' = IF reset THEN 0 ELSE winner
  BY DEF update_keypress
<1>2. CASE reset
  BY <1>0, <1>1, <1>2 DEF G!Reset
<1>3. CASE ~reset /\ first = {} /\ ~hung
  BY <1>0, <1>1, <1>3 DEF G!NoMove
<1>4. CASE ~reset /\ first # {}
  <2>1. PICK j \in first : box' \in Answers([box EXCEPT ![j] = "O"])
    BY <1>1, <1>4
  <2> DEFINE played == [box EXCEPT ![j] = "O"]
  <2>2. j \in G!Free(box) /\ j \in Wanted
    BY DEF Wanted
  <2>3. G!Free(played) = G!Free(box) \ {j}
    BY <1>0, <2>2 DEF G!Free, G!Board, G!Empty
  <2>4. G!Free(played) = {} <=> Cardinality(G!Free(box)) = 1
    <3>1. G!Free(played) = {} => G!Free(box) = {j}
      BY <2>2, <2>3
    <3>2. (\E x : G!Free(box) = {x}) => G!Free(played) = {}
      BY <2>2, <2>3
    <3> QED
      BY <1>0, <3>1, <3>2, FS_Singleton
  <2>5. CASE G!Free(played) = {}
    <3>1. hung /\ box' = played
      BY <2>1, <2>2, <2>4, <2>5 DEF Answers
    <3> QED
      BY <1>0, <1>1, <1>4, <2>2, <2>5, <3>1 DEF G!Move
  <2>6. CASE G!Free(played) # {}
    <3>1. ~hung /\ \E k \in G!Free(played) : box' = [played EXCEPT ![k] = "X"]
      BY <2>1, <2>4, <2>6 DEF Answers
    <3> QED
      BY <1>0, <1>1, <1>4, <2>2, <3>1 DEF G!Move
  <2> QED
    BY <2>5, <2>6
<1>5. first = {} => Wanted = {}
  <2> SUFFICES ASSUME Wanted # {} PROVE first # {}
    OBVIOUS
  <2>1. Wanted \subseteq Nat
    BY PlayAssumption DEF Wanted, G!Free, G!Boxes
  <2> QED
    BY <2>1, FirstExists DEF IsFirst
<1> QED
  BY <1>2, <1>3, <1>4, <1>5

\* Every step at the keyboard and in the loop is a step of Game or leaves its
\* variables alone.
LEMMA StepsAreGame == PlayTypeOK /\ [PlayNext]_playVars => [G!Next]_(G!vars)
<1> SUFFICES ASSUME PlayTypeOK, [PlayNext]_playVars PROVE [G!Next]_(G!vars)
  OBVIOUS
<1>1. CASE Type
  BY <1>1 DEF Type, gameVars, G!vars
<1>2. CASE Poll
  BY <1>2 DEF Poll, gameVars, G!vars
<1>3. CASE update_keypress
  BY <1>3, KeypressIsAMove DEF G!Next
<1>4. CASE Rest
  BY <1>4 DEF Rest, G!Next
<1>5. CASE UNCHANGED playVars
  BY <1>5 DEF playVars, gameVars, G!vars
<1> QED
  BY <1>1, <1>2, <1>3, <1>4, <1>5 DEF PlayNext

(***************************************************************************)
(* The keyboard's part                                                     *)
(***************************************************************************)

\* A scan code enters the queue together with what the finger does.
LEMMA CodeQueued ==
  ASSUME KeyTypeOK, Known, NEW c \in Code, Len(codes) < MaxCodes,
         codes' = Append(codes, c),
         down' = IF c.up THEN down \ {c.key} ELSE down \cup {c.key},
         UNCHANGED key_state
  PROVE  /\ codes' \in Seq(Code) /\ Len(codes') <= MaxCodes
         /\ down' \subseteq Keys \cup {NoKey}
         /\ Known'
<1>0. c.up \in BOOLEAN /\ c.key \in Keys \cup {NoKey} /\ codes \in Seq(Code)
  BY DEF Code, KeyTypeOK
<1>1. codes' \in Seq(Code) /\ Len(codes') = Len(codes) + 1 /\ Len(codes) \in Nat
  BY <1>0
<1>2. down' \subseteq Keys \cup {NoKey}
  BY <1>0 DEF KeyTypeOK
<1>3. ASSUME NEW k \in Keys, Mine(codes', k) = {}
      PROVE  k \in down' <=> key_state'[k] \in {PRESS, WAIT_RELEASE}
  <2>1. k # c.key /\ Mine(codes, k) = {}
    BY <1>0, <1>3, Queued
  <2>2. k \in down' <=> k \in down
    BY <1>0, <2>1
  <2> QED
    BY <2>1, <2>2 DEF Known
<1>4. ASSUME NEW k \in Keys, NEW m, IsLastOf(m, Mine(codes', k))
      PROVE  k \in down' <=> codes'[m].up = FALSE
  <2>1. CASE k = c.key
    <3> DEFINE r == Append(codes, c)
    <3>1. Mine(r, k) # {} /\ \A n : IsLastOf(n, Mine(r, k)) => r[n] = c
      <4>1. k = c.key => /\ Mine(r, k) # {}
                         /\ \A n : IsLastOf(n, Mine(r, k)) => r[n] = c
        BY <1>0, Queued
      <4> QED
        BY <2>1, <4>1
    <3>2. codes'[m] = c
      BY <1>4, <3>1
    <3> QED
      BY <1>0, <2>1, <3>2
  <2>2. CASE k # c.key
    <3>1. Mine(codes', k) = Mine(codes, k) /\ \A n \in Mine(codes, k) : codes'[n] = codes[n]
      BY <1>0, <2>2, Queued
    <3>2. IsLastOf(m, Mine(codes, k)) /\ codes'[m] = codes[m]
      BY <1>4, <3>1 DEF IsLastOf
    <3>3. k \in down' <=> k \in down
      BY <1>0, <2>2
    <3> QED
      BY <3>2, <3>3 DEF Known
  <2> QED
    BY <2>1, <2>2
<1>5. Known'
  BY <1>3, <1>4 DEF Known
<1>6. Len(codes') <= MaxCodes
  BY <1>1, KeyAssumption
<1> QED
  BY <1>1, <1>2, <1>5, <1>6

\* Presses, releases and interrupts.
LEMMA TypeKeepsInv == ASSUME Inv, Type PROVE KeyTypeOK' /\ Known' /\ NoStuckKey'
<1>0. KeyTypeOK /\ Known /\ NoStuckKey
  BY DEF Inv, PlayTypeOK
<1>1. ASSUME NEW k \in Keys \cup {NoKey}, Press(k)
      PROVE  KeyTypeOK' /\ Known' /\ NoStuckKey'
  <2> DEFINE c == [key |-> k, up |-> FALSE]
  <2>1. c \in Code /\ c.key = k /\ c.up = FALSE
    BY DEF Code
  <2>2. /\ codes' = Append(codes, c) /\ down' = down \cup {k}
        /\ Len(codes) < MaxCodes /\ UNCHANGED <<key_state, letter_pressed, eax, cpu>>
        /\ presses' = presses + 1 /\ presses < Presses
    BY <1>1 DEF Press
  <2>3. /\ codes' \in Seq(Code) /\ Len(codes') <= MaxCodes
        /\ down' \subseteq Keys \cup {NoKey} /\ Known'
    <3> HIDE DEF c
    <3> QED
      BY <1>0, <2>1, <2>2, CodeQueued
  <2>4. presses' \in 0 .. Presses
    BY <1>0, <2>2, KeyAssumption DEF KeyTypeOK
  <2> QED
    BY <1>0, <2>2, <2>3, <2>4 DEF KeyTypeOK, NoStuckKey
<1>2. ASSUME NEW k \in Keys \cup {NoKey}, Release(k)
      PROVE  KeyTypeOK' /\ Known' /\ NoStuckKey'
  <2> DEFINE c == [key |-> k, up |-> TRUE]
  <2>1. c \in Code /\ c.key = k /\ c.up = TRUE
    BY DEF Code
  <2>2. /\ codes' = Append(codes, c) /\ down' = down \ {k}
        /\ Len(codes) < MaxCodes
        /\ UNCHANGED <<key_state, letter_pressed, eax, cpu, presses>>
    BY <1>2 DEF Release
  <2>3. /\ codes' \in Seq(Code) /\ Len(codes') <= MaxCodes
        /\ down' \subseteq Keys \cup {NoKey} /\ Known'
    <3> HIDE DEF c
    <3> QED
      BY <1>0, <2>1, <2>2, CodeQueued
  <2> QED
    BY <1>0, <2>2, <2>3 DEF KeyTypeOK, NoStuckKey
<1>3. ASSUME Keyboard_event PROVE KeyTypeOK' /\ Known' /\ NoStuckKey'
  <2> DEFINE c == Head(codes)
  <2>1. /\ codes # <<>> /\ codes' = Tail(codes)
        /\ key_state' = [k \in Keys |-> IF k = c.key THEN AfterEvent(key_state[k], c.up)
                                                     ELSE key_state[k]]
        /\ UNCHANGED <<down, letter_pressed, eax, presses>>
        /\ codes \in Seq(Code) /\ cpu' \in Place
    BY <1>0, <1>3 DEF Keyboard_event, KeyTypeOK, AfterInterrupt, Place
  <2>2. /\ c \in Code /\ codes' \in Seq(Code) /\ Len(codes') <= MaxCodes
        /\ c.up \in BOOLEAN
    <3>1. c \in Code /\ codes' \in Seq(Code)
      BY <2>1
    <3>2. Len(codes') = Len(codes) - 1 /\ Len(codes) \in Nat /\ Len(codes) <= MaxCodes
      BY <1>0, <2>1 DEF KeyTypeOK
    <3> QED
      BY <3>1, <3>2, KeyAssumption DEF Code
  <2>3. \A st, up : AfterEvent(st, up) \in {WAIT_RELEASE, RELEASE, PRESS}
    BY DEF AfterEvent
  <2>4. key_state' \in [Keys -> {EMPTY, WAIT_RELEASE, RELEASE, PRESS}]
    BY <1>0, <2>1, <2>3 DEF KeyTypeOK
  <2>5. KeyTypeOK'
    BY <1>0, <2>1, <2>2, <2>4 DEF KeyTypeOK
  <2>6. NoStuckKey'
    BY <1>0, <2>1, <2>3 DEF NoStuckKey, EMPTY, WAIT_RELEASE, RELEASE, PRESS
  <2>7. ASSUME NEW k \in Keys, Mine(codes', k) = {}
        PROVE  k \in down' <=> key_state'[k] \in {PRESS, WAIT_RELEASE}
    <3>1. CASE c.key = k
      <4>1. IsLastOf(1, Mine(codes, k)) /\ codes[1] = c
        BY <2>1, <2>7, <3>1, Dequeued
      <4>2. k \in down <=> c.up = FALSE
        BY <1>0, <4>1 DEF Known
      <4>3. key_state'[k] = AfterEvent(key_state[k], c.up)
        BY <2>1, <3>1
      <4>4. key_state'[k] \in {PRESS, WAIT_RELEASE} <=> c.up = FALSE
        BY <2>2, <4>3 DEF AfterEvent, WAIT_RELEASE, RELEASE, PRESS
      <4> QED
        BY <2>1, <4>2, <4>4
    <3>2. CASE c.key # k
      <4>1. Mine(codes, k) = {}
        BY <2>1, <2>7, <3>2, Dequeued
      <4> QED
        BY <1>0, <2>1, <3>2, <4>1 DEF Known
    <3> QED
      BY <3>1, <3>2
  <2>8. ASSUME NEW k \in Keys, NEW m, IsLastOf(m, Mine(codes', k))
        PROVE  k \in down' <=> codes'[m].up = FALSE
    <3>1. IsLastOf(m + 1, Mine(codes, k)) /\ codes'[m] = codes[m + 1]
      BY <2>1, <2>8, Dequeued
    <3> QED
      BY <1>0, <2>1, <3>1 DEF Known
  <2>9. Known'
    BY <2>7, <2>8 DEF Known
  <2> QED
    BY <2>5, <2>6, <2>9
<1>4. ASSUME Interrupt PROVE KeyTypeOK' /\ Known' /\ NoStuckKey'
  <2>1. cpu' \in Place /\ UNCHANGED <<down, codes, key_state, letter_pressed, eax, presses>>
    BY <1>4 DEF Interrupt, AfterInterrupt, Place
  <2>2. KeyTypeOK'
    BY <1>0, <2>1 DEF KeyTypeOK
  <2> QED
    BY <1>0, <2>1, <2>2 DEF Known, NoStuckKey, Mine, IsLastOf
<1> QED
  BY <1>1, <1>2, <1>3, <1>4 DEF Type

\* A poll, update_keypress, and the steps that leave the keyboard alone.
LEMMA LoopKeepsInv ==
  ASSUME Inv, Poll \/ update_keypress \/ Rest \/ UNCHANGED playVars
  PROVE  KeyTypeOK' /\ Known' /\ NoStuckKey'
<1>0. KeyTypeOK /\ Known /\ NoStuckKey
  BY DEF Inv, PlayTypeOK
<1>1. CASE UNCHANGED keyVars
  BY <1>0, <1>1 DEF keyVars, KeyTypeOK, Known, NoStuckKey, Mine, IsLastOf
<1>2. CASE handle_keys
  <2>1. PICK k \in Reportable :
          /\ eax' = [key |-> k, up |-> key_state[k] = RELEASE]
          /\ key_state' = [key_state EXCEPT ![k] = AfterReport(@)]
          /\ cpu' = "tail" /\ UNCHANGED <<down, codes, letter_pressed, presses>>
          /\ eax = Nothing
    BY <1>2 DEF handle_keys
  <2>2. k \in Keys /\ key_state[k] \in {PRESS, RELEASE}
    BY DEF Reportable
  <2>3. /\ key_state'[k] = IF key_state[k] = PRESS THEN WAIT_RELEASE ELSE EMPTY
        /\ key_state' \in [Keys -> {EMPTY, WAIT_RELEASE, RELEASE, PRESS}]
        /\ \A j \in Keys : j # k => key_state'[j] = key_state[j]
    BY <1>0, <2>1, <2>2 DEF KeyTypeOK, AfterReport
  <2>4. eax' = [key |-> k, up |-> key_state[k] = RELEASE] /\ eax'.key = k
    BY <2>1
  <2>5. KeyTypeOK'
    BY <1>0, <2>1, <2>2, <2>3 DEF KeyTypeOK, Place
  <2>6. NoStuckKey'
    <3> SUFFICES ASSUME NEW j \in Keys,
                        letter_pressed'[j] \/ eax' = [key |-> j, up |-> FALSE]
                 PROVE  key_state'[j] # EMPTY \/ eax' = [key |-> j, up |-> TRUE]
      BY DEF NoStuckKey
    <3>1. CASE j = k /\ key_state[k] = PRESS
      BY <2>3, <3>1 DEF EMPTY, WAIT_RELEASE
    <3>2. CASE j = k /\ key_state[k] = RELEASE
      BY <2>4, <3>2
    <3>3. CASE j # k
      <4>1. letter_pressed[j]
        BY <2>1, <2>4, <3>3
      <4>2. eax # [key |-> j, up |-> TRUE]
        <5>1. j # NoKey
          BY KeyAssumption DEF Keys, NoKey
        <5> QED
          BY <2>1, <5>1 DEF Nothing
      <4> QED
        BY <1>0, <2>3, <3>3, <4>1, <4>2 DEF NoStuckKey
    <3> QED
      BY <2>2, <3>1, <3>2, <3>3
  <2>7. \A j \in Keys : key_state'[j] \in {PRESS, WAIT_RELEASE} <=>
                        key_state[j] \in {PRESS, WAIT_RELEASE}
    BY <2>2, <2>3 DEF EMPTY, WAIT_RELEASE, RELEASE, PRESS
  <2>8. Known'
    BY <1>0, <2>1, <2>7 DEF Known, Mine, IsLastOf
  <2> QED
    BY <2>5, <2>6, <2>8
<1>3. CASE update_keypress
  <2>1. /\ UNCHANGED <<down, codes, key_state, eax, cpu, presses>>
        /\ \E ks : letter_pressed' = [k \in Keys |-> letter_pressed[k] /\ k \notin ks]
    BY <1>3 DEF update_keypress, ClearFlags
  <2>2. PICK ks : letter_pressed' = [k \in Keys |-> letter_pressed[k] /\ k \notin ks]
    BY <2>1
  <2>3. letter_pressed' \in [Keys -> BOOLEAN]
    BY <2>2
  <2>4. \A k \in Keys : letter_pressed'[k] => letter_pressed[k]
    BY <2>2
  <2>5. KeyTypeOK'
    BY <1>0, <2>1, <2>3 DEF KeyTypeOK
  <2>6. NoStuckKey'
    BY <1>0, <2>1, <2>4 DEF NoStuckKey
  <2>7. Known'
    BY <1>0, <2>1 DEF Known, Mine, IsLastOf
  <2> QED
    BY <2>5, <2>6, <2>7
<1>4. CASE Return
  <2>1. cpu' \in Place /\ UNCHANGED <<down, codes, key_state, letter_pressed, eax, presses>>
    BY <1>4 DEF Return, Place
  <2>2. KeyTypeOK'
    BY <1>0, <2>1 DEF KeyTypeOK
  <2> QED
    BY <1>0, <2>1, <2>2 DEF Known, NoStuckKey, Mine, IsLastOf
<1>5. CASE process_keys
  <2>1. /\ letter_pressed' = [letter_pressed EXCEPT ![eax.key] = ~eax.up]
        /\ eax' = Nothing /\ eax # Nothing
        /\ UNCHANGED <<down, codes, key_state, cpu, presses>>
    BY <1>5 DEF process_keys
  <2>2. PICK k \in Keys, up \in BOOLEAN : eax = [key |-> k, up |-> up]
    BY <1>0, <2>1 DEF KeyTypeOK
  <2>3. /\ letter_pressed' \in [Keys -> BOOLEAN] /\ letter_pressed'[k] = ~up
        /\ \A j \in Keys : j # k => letter_pressed'[j] = letter_pressed[j]
    BY <1>0, <2>1, <2>2 DEF KeyTypeOK
  <2>4. KeyTypeOK'
    BY <1>0, <2>1, <2>3 DEF KeyTypeOK
  <2>5. Known'
    BY <1>0, <2>1 DEF Known, Mine, IsLastOf
  <2>6. NoStuckKey'
    <3> SUFFICES ASSUME NEW j \in Keys,
                        letter_pressed'[j] \/ eax' = [key |-> j, up |-> FALSE]
                 PROVE  key_state[j] # EMPTY
      BY <2>1 DEF NoStuckKey
    <3>1. letter_pressed'[j]
      BY <2>1 DEF Nothing
    <3>2. CASE j = k
      <4>1. eax = [key |-> j, up |-> FALSE]
        BY <2>2, <2>3, <3>1, <3>2
      <4> QED
        BY <1>0, <4>1 DEF NoStuckKey
    <3>3. CASE j # k
      <4>1. letter_pressed[j] /\ eax # [key |-> j, up |-> TRUE]
        BY <2>2, <2>3, <3>1, <3>3
      <4> QED
        BY <1>0, <4>1 DEF NoStuckKey
    <3> QED
      BY <3>2, <3>3
  <2> QED
    BY <2>4, <2>5, <2>6
<1> QED
  BY <1>1, <1>2, <1>3, <1>4, <1>5 DEF Poll, LeaveLoop, Rest, playVars

LEMMA NextInv == Inv /\ [PlayNext]_playVars => Inv'
<1> SUFFICES ASSUME Inv, [PlayNext]_playVars PROVE Inv'
  OBVIOUS
<1>1. KeyTypeOK' /\ Known' /\ NoStuckKey'
  BY TypeKeepsInv, LoopKeepsInv DEF PlayNext
<1>2. G!TypeOK'
  BY StepsAreGame, GameType DEF Inv, PlayTypeOK
<1>3. polling' \in BOOLEAN
  <2>1. CASE polling' = polling
    BY <2>1 DEF Inv, PlayTypeOK
  <2>2. polling' = polling \/ polling' = TRUE \/ polling' = FALSE
    BY DEF PlayNext, Type, Poll, LeaveLoop, update_keypress, Rest, playVars
  <2> QED
    BY <2>1, <2>2
<1> QED
  BY <1>1, <1>2, <1>3 DEF Inv, PlayTypeOK

\* The invariant holds of every behaviour, fair or not.
LEMMA SpecInv == PlaySpec => []Inv
  BY InitInv, NextInv, PTL DEF PlaySpec

(***************************************************************************)
(* However presses, releases, interrupts and polls interleave, key_state   *)
(* and the scan codes on their way say which keys are down.                *)
(***************************************************************************)
THEOREM DriverKeepsTrack == PlaySpec => []DriverKnows
<1>1. Inv => DriverKnows
  BY KnownIsEnough DEF Inv
<1> QED
  BY <1>1, SpecInv, PTL

\* The game never believes a key to be pressed that the driver is done with,
\* unless the news of its release is on the way to the game.
THEOREM NoKeySticks == PlaySpec => []NoStuckKey
<1>1. Inv => NoStuckKey
  BY DEF Inv
<1> QED
  BY <1>1, SpecInv, PTL

(***************************************************************************)
(* release_key, given the number of a box for a scan code, clears the flag *)
(* of the key two below the one played.  Had that box been wanted, the     *)
(* loop of update_keypress would have come to it first.                    *)
(***************************************************************************)
THEOREM NoMoveIsDropped == PlaySpec => MoveKept
<1> DEFINE Kept == update_keypress /\ ~letter_pressed[Enter] =>
                     \A j \in 0 .. (NBoxes - 1) :
                       letter_pressed[j] /\ box'[j] = G!Empty => letter_pressed'[j]
<1>1. Inv /\ [PlayNext]_playVars => [Kept]_playVars
  <2> SUFFICES ASSUME Inv, update_keypress, ~letter_pressed[Enter],
                      NEW j \in 0 .. (NBoxes - 1), letter_pressed[j], box'[j] = G!Empty
               PROVE  letter_pressed'[j]
    OBVIOUS
  <2> DEFINE first == {b \in Wanted : IsFirst(b, Wanted)}
             hung  == Wanted # {} /\ Cardinality(G!Free(box)) = 1
  <2>0. /\ box \in G!Board /\ j \in G!Boxes /\ j \in Keys /\ NBoxes \in Nat
        /\ letter_pressed \in [Keys -> BOOLEAN]
    BY PlayAssumption DEF Inv, PlayTypeOK, KeyTypeOK, G!TypeOK, G!Boxes, Keys
  <2>1. /\ ClearFlags(IF hung THEN {} ELSE Released(first \ {NBoxes - 1}))
        /\ IF first = {} THEN UNCHANGED box
           ELSE \E b \in first : box' \in Answers([box EXCEPT ![b] = "O"])
    BY DEF update_keypress
  <2>2. box[j] = G!Empty
    <3>1. CASE first = {}
      BY <2>1, <3>1
    <3>2. CASE first # {}
      <4>1. PICK b \in first : box' \in Answers([box EXCEPT ![b] = "O"])
        BY <2>1, <3>2
      <4>2. b \in G!Boxes
        BY DEF Wanted, G!Free
      <4>3. CASE box' = [box EXCEPT ![b] = "O"]
        BY <2>0, <4>2, <4>3 DEF G!Board, G!Empty
      <4>4. CASE \E k \in G!Free([box EXCEPT ![b] = "O"]) :
                   box' = [[box EXCEPT ![b] = "O"] EXCEPT ![k] = "X"]
        BY <2>0, <4>2, <4>4 DEF G!Board, G!Empty, G!Free
      <4> QED
        BY <4>1, <4>3, <4>4 DEF Answers
    <3> QED
      BY <3>1, <3>2
  <2>3. j \in Wanted
    BY <2>0, <2>2 DEF Wanted, G!Free
  <2>4. j \notin Released(first \ {NBoxes - 1})
    <3> SUFFICES ASSUME j \in Released(first) PROVE FALSE
      BY DEF Released
    <3>1. j + 2 \in first
      BY DEF Released, letter_code
    <3>2. j + 2 <= j
      BY <2>3, <3>1 DEF IsFirst
    <3> QED
      BY <2>0, <3>2 DEF G!Boxes
  <2> QED
    BY <2>0, <2>1, <2>4 DEF ClearFlags
<1> QED
  BY <1>1, SpecInv, PTL DEF PlaySpec, MoveKept

(***************************************************************************)
(* The main loop at the keyboard implements Game: a behaviour of PlaySpec, *)
(* seen through the board, the winner, the file and the loop's place, is   *)
(* one of Game.                                                            *)
(***************************************************************************)
THEOREM LoopImplementsGame == PlaySpec => ImplementsGame
<1>1. PlayInit => G!Init
  BY DEF PlayInit
<1>2. Inv /\ [PlayNext]_playVars => [G!Next]_(G!vars)
  BY StepsAreGame DEF Inv
<1> QED
  BY <1>1, <1>2, SpecInv, PTL DEF PlaySpec, ImplementsGame, G!Spec
=============================================================================
