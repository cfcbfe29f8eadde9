----------------------------- MODULE GameProofs -----------------------------
(***************************************************************************)
(* Proofs about Game for every odd number of boxes and every set of lines: *)
(* what the player leaves is what is found again, the computer always has  *)
(* a box to answer in, and an announced winner has a line.                 *)
(***************************************************************************)
EXTENDS Game, TLAPS, FiniteSetTheorems

Xs(b) == {k \in Boxes : b[k] = "X"}
Os(b) == {k \in Boxes : b[k] = "O"}

\* The computer is one move ahead.
Balanced(b) == Cardinality(Xs(b)) = Cardinality(Os(b)) + 1

(***************************************************************************)
(* How far the save has come.  BoardSaved is not inductive alone: the file *)
(* is the board at the end of the loop because it agrees with it in the    *)
(* boxes written so far, and nothing moves on the board in the meantime.   *)
(***************************************************************************)
SavedSoFar ==
  /\ pc \in {"poll", "redraw", "hung"} => i = 0
  /\ pc \in {"poll", "redraw", "resave"} => file = box
  /\ pc = "save" => \A k \in Boxes : k < i => file[k] = box[k]

(***************************************************************************)
(* Both boards have the computer one move ahead, the one on the screen     *)
(* always, the one in the file whenever no save is half done: that is the  *)
(* one found after the machine has been switched off.                      *)
(***************************************************************************)
BothBalanced ==
  ~torn => /\ pc # "hung"
           /\ Balanced(box)
           /\ i = 0 => Balanced(file)

Inv == TypeOK /\ SavedSoFar /\ BothBalanced /\ WinnerStands

LEMMA BoxesFinite == IsFiniteSet(Boxes) /\ Cardinality(Boxes) = NBoxes
<1>1. NBoxes \in Nat \ {0}
  BY GameAssumption
<1> QED
  BY <1>1, FS_Interval DEF Boxes

\* The sets of boxes of a board are finite.
LEMMA PartsFinite ==
  ASSUME NEW b
  PROVE  /\ IsFiniteSet(Xs(b)) /\ Cardinality(Xs(b)) \in Nat
         /\ IsFiniteSet(Os(b)) /\ Cardinality(Os(b)) \in Nat
         /\ IsFiniteSet(Free(b)) /\ Cardinality(Free(b)) \in Nat
<1>1. Xs(b) \in SUBSET Boxes /\ Os(b) \in SUBSET Boxes /\ Free(b) \in SUBSET Boxes
  BY DEF Xs, Os, Free
<1>2. IsFiniteSet(Xs(b)) /\ IsFiniteSet(Os(b)) /\ IsFiniteSet(Free(b))
  BY <1>1, BoxesFinite, FS_Subset
<1> QED
  BY <1>2, FS_CardinalityType

\* The board of reset_game: one X, no O.
LEMMA FreshBalanced == Fresh \in Board /\ Balanced(Fresh)
<1>1. Centre \in Boxes
  BY GameAssumption DEF Boxes
<1>2. Fresh \in Board
  BY DEF Fresh, Board
<1>3. Xs(Fresh) = {Centre} /\ Os(Fresh) = {}
  BY <1>1 DEF Xs, Os, Fresh, Empty
<1>4. Cardinality({Centre}) = 1 /\ Cardinality({}) = 0
  BY FS_Singleton, FS_EmptySet
<1> QED
  BY <1>2, <1>3, <1>4 DEF Balanced

(***************************************************************************)
(* A board with an odd number of boxes on which the computer is one ahead  *)
(* does not have exactly one free box: update_keypress finds one for the   *)
(* computer after every move of the player.                                *)
(***************************************************************************)
LEMMA AnswerExists ==
  ASSUME NEW b \in Board, Balanced(b), NEW j \in Free(b)
  PROVE  Free([b EXCEPT ![j] = "O"]) # {}
<1> DEFINE played == [b EXCEPT ![j] = "O"]
<1> SUFFICES ASSUME Free(played) = {} PROVE FALSE
  OBVIOUS
<1>1. Free(b) = {j}
  BY DEF Free, Board
<1>2. Cardinality(Free(b)) = 1
  BY <1>1, FS_Singleton
<1>3. /\ Boxes = (Xs(b) \cup Os(b)) \cup Free(b)
      /\ Xs(b) \cap Os(b) = {} /\ (Xs(b) \cup Os(b)) \cap Free(b) = {}
  BY DEF Xs, Os, Free, Board, Empty
<1>4. Cardinality({}) = 0
  BY FS_EmptySet
<1>5. /\ IsFiniteSet(Xs(b) \cup Os(b))
      /\ Cardinality(Xs(b) \cup Os(b)) = Cardinality(Xs(b)) + Cardinality(Os(b)) - 0
  BY <1>3, <1>4, PartsFinite, FS_Union
<1> DEFINE taken == Xs(b) \cup Os(b)
<1>6. Cardinality(Boxes) = Cardinality(taken) + Cardinality(Free(b)) - 0
  <2>1. Cardinality(taken \cup Free(b)) =
          Cardinality(taken) + Cardinality(Free(b)) - Cardinality(taken \cap Free(b))
    <3> HIDE DEF taken
    <3> QED
      BY <1>5, PartsFinite, FS_Union DEF taken
  <2> QED
    BY <1>3, <1>4, <2>1
<1>7. NBoxes = 2 * Cardinality(Os(b)) + 2
  BY <1>2, <1>5, <1>6, PartsFinite, BoxesFinite DEF Balanced
<1> QED
  BY <1>7, PartsFinite, GameAssumption

\* A move and its answer keep the computer one ahead.
LEMMA MoveBalanced ==
  ASSUME NEW b \in Board, Balanced(b), NEW j \in Free(b),
         NEW k \in Free([b EXCEPT ![j] = "O"])
  PROVE  LET after == [[b EXCEPT ![j] = "O"] EXCEPT ![k] = "X"]
         IN  after \in Board /\ Balanced(after)
<1> DEFINE after == [[b EXCEPT ![j] = "O"] EXCEPT ![k] = "X"]
<1>1. j \in Boxes /\ k \in Boxes /\ j # k /\ b[j] = Empty /\ b[k] = Empty
  BY DEF Free, Board, Empty
<1>2. after \in Board
  BY <1>1 DEF Board
<1>3. Xs(after) = Xs(b) \cup {k} /\ k \notin Xs(b)
  BY <1>1 DEF Xs, Board, Empty
<1>4. Os(after) = Os(b) \cup {j} /\ j \notin Os(b)
  BY <1>1 DEF Os, Board, Empty
<1>5. /\ Cardinality(Xs(after)) = Cardinality(Xs(b)) + 1
      /\ Cardinality(Os(after)) = Cardinality(Os(b)) + 1
  BY <1>3, <1>4, PartsFinite, FS_AddElement
<1>6. Balanced(after)
  BY <1>5, PartsFinite DEF Balanced
<1> QED
  BY <1>2, <1>6

\* The first start, with the file of a new disk.
LEMMA InitInv == Init => Inv
<1>1. 0 \in Boxes
  BY GameAssumption DEF Boxes
<1> SUFFICES ASSUME Init PROVE Inv
  OBVIOUS
<1>2. TypeOK
  <2>1. box \in Board /\ file \in Board
    BY FreshBalanced DEF Init
  <2>2. winner \in 0 .. 2 /\ i \in Boxes
    BY <1>1 DEF Init
  <2>3. pc \in {"poll", "save", "redraw", "resave", "hung"} /\ torn \in BOOLEAN
    BY DEF Init
  <2> QED
    BY <2>1, <2>2, <2>3 DEF TypeOK
<1>3. SavedSoFar /\ WinnerStands
  BY DEF Init, SavedSoFar, WinnerStands
<1>4. BothBalanced
  BY FreshBalanced DEF Init, BothBalanced
<1> QED
  BY <1>2, <1>3, <1>4 DEF Inv

\* Every step of the main loop, and switching off between any two of them,
\* preserves the invariant.
LEMMA NextInv == Inv /\ [Next]_vars => Inv'
<1> SUFFICES ASSUME Inv, [Next]_vars PROVE Inv'
  OBVIOUS
<1>0. /\ NBoxes \in Nat \ {0} /\ 0 \in Boxes /\ Boxes = 0 .. (NBoxes - 1)
      /\ TypeOK /\ SavedSoFar /\ BothBalanced /\ WinnerStands
  BY GameAssumption DEF Boxes, Inv
<1>1. CASE Move
  <2>1. PICK j \in Free(box) :
          LET played == [box EXCEPT ![j] = "O"]
          IN  \/ \E k \in Free(played) :
                   /\ box' = [played EXCEPT ![k] = "X"]
                   /\ pc' = "save"
              \/ /\ Free(played) = {}
                 /\ box' = played
                 /\ pc' = "hung"
    BY <1>1 DEF Move
  <2> DEFINE played == [box EXCEPT ![j] = "O"]
  <2>2. /\ box \in Board /\ pc = "poll" /\ i = 0 /\ file = box
        /\ j \in Boxes /\ box[j] = Empty
        /\ UNCHANGED <<winner, file, i, torn>>
    BY <1>0, <1>1 DEF Move, TypeOK, SavedSoFar, Free
  <2>3. CASE \E k \in Free(played) : box' = [played EXCEPT ![k] = "X"] /\ pc' = "save"
    <3>1. PICK k \in Free(played) : box' = [played EXCEPT ![k] = "X"] /\ pc' = "save"
      BY <2>3
    <3>2. k \in Boxes /\ k # j /\ box[k] = Empty
      BY <2>2, <3>1 DEF Free, Board, Empty
    <3>3. box' \in Board
      BY <2>2, <3>1, <3>2 DEF Board
    <3>4. TypeOK'
      BY <1>0, <2>2, <3>1, <3>3 DEF TypeOK
    <3>5. SavedSoFar'
      BY <1>0, <2>2, <3>1 DEF SavedSoFar
    <3>6. BothBalanced'
      <4> SUFFICES ASSUME ~torn PROVE Balanced(box') /\ Balanced(file)
        BY <2>2, <3>1 DEF BothBalanced, Balanced
      <4>1. Balanced(box)
        BY <1>0 DEF BothBalanced
      <4> QED
        BY <2>2, <3>1, <4>1, MoveBalanced
    <3>7. \A b \in Boxes : box[b] # Empty => box'[b] = box[b]
      BY <2>2, <3>1, <3>2 DEF Board
    <3>8. WinnerStands'
      <4>1. \A l \in Lines : l \subseteq Boxes
        BY GameAssumption DEF Boxes
      <4> QED
        BY <1>0, <2>2, <3>7, <4>1 DEF WinnerStands, winp_check, winc_check, Empty
    <3> QED
      BY <3>4, <3>5, <3>6, <3>8 DEF Inv
  <2>4. CASE Free(played) = {} /\ box' = played /\ pc' = "hung"
    <3>1. torn
      BY <1>0, <2>2, <2>4, AnswerExists DEF BothBalanced
    <3>2. TypeOK'
      BY <1>0, <2>2, <2>4 DEF TypeOK, Board
    <3>3. SavedSoFar' /\ BothBalanced'
      BY <2>2, <2>4, <3>1 DEF SavedSoFar, BothBalanced
    <3>4. WinnerStands'
      <4>1. \A l \in Lines : l \subseteq Boxes
        BY GameAssumption DEF Boxes
      <4>2. \A b \in Boxes : box[b] # Empty => box'[b] = box[b]
        BY <2>2, <2>4 DEF Board
      <4> QED
        BY <1>0, <2>2, <4>1, <4>2 DEF WinnerStands, winp_check, winc_check, Empty
    <3> QED
      BY <3>2, <3>3, <3>4 DEF Inv
  <2> QED
    BY <2>1, <2>3, <2>4
<1>2. CASE Reset
  <2>1. /\ pc = "poll" /\ i = 0 /\ file = box /\ box' = Fresh /\ winner' = 0
        /\ pc' = "save" /\ UNCHANGED <<file, i, torn>>
    BY <1>0, <1>2 DEF Reset, SavedSoFar
  <2>2. TypeOK' /\ SavedSoFar' /\ WinnerStands'
    BY <1>0, <2>1, FreshBalanced DEF TypeOK, SavedSoFar, WinnerStands
  <2>3. BothBalanced'
    BY <1>0, <2>1, FreshBalanced DEF BothBalanced, Balanced
  <2> QED
    BY <2>2, <2>3 DEF Inv
<1>3. CASE NoMove
  <2>1. /\ pc = "poll" /\ i = 0 /\ file = box /\ pc' = "save"
        /\ UNCHANGED <<box, winner, file, i, torn>>
    BY <1>0, <1>3 DEF NoMove, SavedSoFar
  <2>2. TypeOK' /\ SavedSoFar' /\ WinnerStands'
    BY <1>0, <2>1 DEF TypeOK, SavedSoFar, WinnerStands, winp_check, winc_check
  <2>3. BothBalanced'
    BY <1>0, <2>1 DEF BothBalanced, Balanced
  <2> QED
    BY <2>2, <2>3 DEF Inv
<1>4. CASE Save
  <2>1. /\ pc \in {"save", "resave"} /\ UNCHANGED <<box, winner, torn>>
        /\ file' = [file EXCEPT ![i] = box[i]]
        /\ \/ i' # 0 /\ pc' = pc
           \/ i' = 0 /\ pc' = "poll"
           \/ i' = 0 /\ pc = "save" /\ pc' = "redraw"
        /\ box \in Board /\ file \in Board /\ i \in Boxes
    BY <1>0, <1>4 DEF Save, TypeOK
  <2>2. i' = IF i + 1 = NBoxes THEN 0 ELSE i + 1
    BY <1>0, <1>4, <2>1 DEF Save, AfterBox
  <2>3. TypeOK'
    BY <1>0, <2>1, <2>2 DEF TypeOK, Board
  <2>4. \A k \in Boxes : k <= i => file'[k] = box[k]
    BY <1>0, <2>1 DEF SavedSoFar, Board
  <2>5. i' = 0 => file' = box
    BY <1>0, <2>1, <2>2, <2>4 DEF Board
  <2>6. pc = "resave" => file' = box
    BY <1>0, <2>1 DEF SavedSoFar, Board
  <2>7. SavedSoFar'
    BY <1>0, <2>1, <2>2, <2>4, <2>5, <2>6 DEF SavedSoFar
  <2>8. BothBalanced'
    BY <1>0, <2>1, <2>5 DEF BothBalanced, Balanced
  <2>9. WinnerStands'
    BY <1>0, <2>1 DEF WinnerStands, winp_check, winc_check
  <2> QED
    BY <2>3, <2>7, <2>8, <2>9 DEF Inv
<1>5. CASE Redraw
  <2>1. /\ pc = "redraw" /\ i = 0 /\ file = box /\ pc' = "resave"
        /\ UNCHANGED <<box, file, i, torn>>
    BY <1>0, <1>5 DEF Redraw, SavedSoFar
  <2>2. TypeOK' /\ SavedSoFar'
    BY <1>0, <1>5, <2>1 DEF Redraw, TypeOK, SavedSoFar
  <2>3. BothBalanced'
    BY <1>0, <2>1 DEF BothBalanced, Balanced
  <2>4. WinnerStands'
    BY <1>0, <1>5, <2>1 DEF Redraw, WinnerStands, winp_check, winc_check
  <2> QED
    BY <2>2, <2>3, <2>4 DEF Inv
<1>6. CASE Quit
  <2>1. /\ box' = file /\ file' = file /\ winner' = 0 /\ pc' = "poll" /\ i' = 0
        /\ torn' = (torn \/ (i # 0 /\ file # box))
    BY <1>6 DEF Quit
  <2>2. TypeOK' /\ SavedSoFar' /\ WinnerStands'
    BY <1>0, <2>1 DEF TypeOK, SavedSoFar, WinnerStands
  <2>3. ~torn' => Balanced(file)
    BY <1>0, <2>1 DEF BothBalanced
  <2>4. BothBalanced'
    BY <2>1, <2>3 DEF BothBalanced, Balanced
  <2> QED
    BY <2>2, <2>4 DEF Inv
<1>7. CASE UNCHANGED vars
  BY <1>7 DEF vars, Inv, TypeOK, SavedSoFar, BothBalanced, WinnerStands,
              Balanced, winp_check, winc_check
<1> QED
  BY <1>1, <1>2, <1>3, <1>4, <1>5, <1>6, <1>7 DEF Next

\* The invariant holds from the first start on, through every later one.
LEMMA SpecInv == Spec => []Inv
  BY InitInv, NextInv, PTL DEF Spec

\* Whatever is played, saved and switched off, the variables keep their types;
\* in particular the loop over the boxes stays on the board.
THEOREM TypeCorrect == Spec => []TypeOK
<1>1. Inv => TypeOK
  BY DEF Inv
<1> QED
  BY <1>1, SpecInv, PTL

(***************************************************************************)
(* update_keypress never looks for a box in vain, and the computer is one  *)
(* move ahead whenever the player is asked, for every odd board, unless    *)
(* the machine went off in the middle of writing a changed board.          *)
(***************************************************************************)
THEOREM ComputerHasAnAnswer == Spec => []FairPlay
<1>1. Inv => FairPlay
  BY DEF Inv, BothBalanced, FairPlay, Balanced, Xs, Os
<1> QED
  BY <1>1, SpecInv, PTL

\* game_load.txt is the board on the screen whenever the player is asked.
THEOREM NothingIsLost == Spec => []BoardSaved
<1>1. Inv => BoardSaved
  BY DEF Inv, SavedSoFar, BoardSaved
<1> QED
  BY <1>1, SpecInv, PTL

\* redraw_screen's winner keeps a complete line until the next game.
THEOREM WinnerHasALine == Spec => []WinnerStands
<1>1. Inv => WinnerStands
  BY DEF Inv
<1> QED
  BY <1>1, SpecInv, PTL
=============================================================================
