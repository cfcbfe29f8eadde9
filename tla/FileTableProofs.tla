-------------------------- MODULE FileTableProofs --------------------------
(***************************************************************************)
(* Proofs about FileTable for every number of descriptors, processes,      *)
(* files and modes: no descriptor outlives its FCB, a descriptor goes on   *)
(* naming the file it was returned for, and no file is loaded twice.       *)
(***************************************************************************)
EXTENDS FileTable, TLAPS, FiniteSetTheorems

(***************************************************************************)
(* NoDangling, said of the FCBs, and strengthened: a free FCB has no       *)
(* descriptor, an open one has a count that covers its descriptors and is  *)
(* not 0 even when it has none.  Without that the next open of the file    *)
(* could give it a descriptor that its count does not cover.               *)
(***************************************************************************)
Covered(states, counts, table) ==
  \A i \in Index :
    IF states[i] = s_close THEN Refs(table, i) = {}
    ELSE counts[i] >= 1 /\ Cardinality(Refs(table, i)) <= counts[i]

CountsCover == "fork" \notin upset => Covered(f_state, count, fcb)

\* What the history says of PCBs that are not in use, and after the first
\* unforeseen event: nothing.  A PCB taken up again starts without grants.
HistoryKept ==
  /\ upset # {} => granted = Nothing
  /\ \A p \in Procs, d \in Index : p \notin live => granted[p][d] = <<>>

Inv ==
  /\ TypeOK
  /\ OneFcbPerFile
  /\ CountsCover
  /\ HistoryKept
  /\ DescriptorNamesFile

\* There are finitely many descriptors.
LEMMA RefsFinite ==
  ASSUME NEW table, NEW i
  PROVE  IsFiniteSet(Refs(table, i)) /\ Cardinality(Refs(table, i)) \in Nat
<1>1. IsFiniteSet(Index)
  BY FileAssumption, FS_Interval DEF Index
<1>2. IsFiniteSet(Procs \X Index)
  BY <1>1, FileAssumption, FS_Product
<1>3. Refs(table, i) \in SUBSET (Procs \X Index)
  BY DEF Refs
<1>4. IsFiniteSet(Refs(table, i))
  BY <1>2, <1>3, FS_Subset
<1> QED
  BY <1>4, FS_CardinalityType

\* A descriptor that points to FCB i is one of its references.
LEMMA RefsMember ==
  ASSUME NEW table, NEW p \in Procs, NEW d \in Index
  PROVE  /\ <<p, d>> \in Refs(table, table[p][d])
         /\ Refs(table, table[p][d]) # {}
<1>1. <<p, d>> \in Refs(table, table[p][d])
  BY DEF Refs
<1> QED
  BY <1>1

LEMMA CoversAll == TypeOK /\ CountsCover => NoDangling
<1> SUFFICES ASSUME TypeOK, CountsCover, "fork" \notin upset,
                    NEW p \in Procs, NEW d \in Index, fcb[p][d] # None
             PROVE  /\ f_state[fcb[p][d]] # s_close
                    /\ Cardinality(Refs(fcb, fcb[p][d])) <= count[fcb[p][d]]
  BY DEF NoDangling
<1>1. fcb[p][d] \in Index
  BY DEF TypeOK
<1>2. Refs(fcb, fcb[p][d]) # {}
  BY RefsMember
<1> QED
  BY <1>1, <1>2 DEF CountsCover, Covered

(***************************************************************************)
(* Descriptor d of p, so far free, is given to FCB i: i has one reference  *)
(* more, and the other FCBs have the ones they had.                        *)
(***************************************************************************)
LEMMA DescriptorTaken ==
  ASSUME NEW table,
         NEW p \in Procs, NEW d \in Index, NEW i \in Index, table[p][d] = None,
         NEW after,
         \A q \in Procs, e \in Index :
           after[q][e] = IF q = p /\ e = d THEN i ELSE table[q][e]
  PROVE  /\ Cardinality(Refs(after, i)) = Cardinality(Refs(table, i)) + 1
         /\ \A j \in Index \ {i} : Refs(after, j) = Refs(table, j)
<1>2. None \notin Index
  BY FileAssumption DEF None, Index
<1>4. Refs(after, i) = Refs(table, i) \cup {<<p, d>>} /\ <<p, d>> \notin Refs(table, i)
  BY <1>2 DEF Refs
<1>5. \A j \in Index \ {i} : Refs(after, j) = Refs(table, j)
  BY <1>2 DEF Refs
<1>6. Cardinality(Refs(after, i)) = Cardinality(Refs(table, i)) + 1
  BY <1>4, RefsFinite, FS_AddElement
<1> QED
  BY <1>5, <1>6

\* Descriptor d of p is closed: its FCB has one reference less.
LEMMA DescriptorClosed ==
  ASSUME NEW table,
         NEW p \in Procs, NEW d \in Index, NEW i \in Index, table[p][d] = i,
         NEW after,
         \A q \in Procs, e \in Index :
           after[q][e] = IF q = p /\ e = d THEN None ELSE table[q][e]
  PROVE  /\ Cardinality(Refs(after, i)) = Cardinality(Refs(table, i)) - 1
         /\ \A j \in Index \ {i} : Refs(after, j) = Refs(table, j)
<1>2. None \notin Index
  BY FileAssumption DEF None, Index
<1>4. Refs(after, i) = Refs(table, i) \ {<<p, d>>} /\ <<p, d>> \in Refs(table, i)
  BY <1>2 DEF Refs
<1>5. \A j \in Index \ {i} : Refs(after, j) = Refs(table, j)
  BY <1>2 DEF Refs
<1>6. Cardinality(Refs(after, i)) = Cardinality(Refs(table, i)) - 1
  BY <1>4, RefsFinite, FS_RemoveElement
<1> QED
  BY <1>5, <1>6

\* file_init and pcb_init leave nothing open.
LEMMA InitInv == Init => Inv
<1> SUFFICES ASSUME Init PROVE Inv
  OBVIOUS
<1>1. TypeOK
  BY FileAssumption DEF Init, TypeOK, Nothing, Handle, Upset
<1>2. OneFcbPerFile /\ HistoryKept /\ DescriptorNamesFile
  BY FileAssumption DEF Init, OneFcbPerFile, HistoryKept, DescriptorNamesFile, Nothing
<1>3. None \notin Index
  BY FileAssumption DEF None, Index
<1>4. CountsCover
  BY <1>3 DEF Init, CountsCover, Covered, Refs
<1> QED
  BY <1>1, <1>2, <1>3, <1>4 DEF Inv

\* An FCB without a descriptor has 0 of them.
LEMMA EmptyCount ==
  ASSUME NEW S, S = {}
  PROVE  Cardinality(S) = 0
<1>1. Cardinality({}) = 0
  BY FS_EmptySet
<1> QED
  BY <1>1

\* After an unforeseen event the history says nothing any more.
LEMMA NothingType ==
  /\ Nothing \in [Procs -> [Index -> Handle]]
  /\ \A p \in Procs, d \in Index : Nothing[p][d] = <<>>
  BY DEF Nothing, Handle

(***************************************************************************)
(* The second half of open, for an FCB that was just loaded or that was in *)
(* memory already.                                                         *)
(***************************************************************************)
LEMMA TakeKeepsInv ==
  ASSUME Inv, NEW p \in live, NEW f \in Files, NEW m \in Modes, NEW i \in Index,
         NEW cnt \in Int,
         f_state' = [f_state EXCEPT ![i] = m], inode' = [inode EXCEPT ![i] = f],
         \/ f_state[i] = s_close /\ cnt = 1
         \/ f_state[i] = m /\ inode[i] = f /\ cnt = count[i],
         TakeDescriptor(p, f, m, i, cnt), live' = live
  PROVE  TypeOK' /\ CountsCover' /\ HistoryKept' /\ DescriptorNamesFile'
<1>0. /\ TypeOK /\ CountsCover /\ HistoryKept /\ DescriptorNamesFile
      /\ p \in Procs /\ None \notin Index /\ m # s_close
  BY FileAssumption DEF Inv, TypeOK, None, Index
<1> DEFINE unused == {d \in Index : fcb[p][d] = None}
<1>1. /\ f_state' \in [Index -> Modes \cup {s_close}]
      /\ inode' \in [Index -> Files \cup {NoFile}]
      /\ f_state'[i] = m /\ inode'[i] = f
      /\ \A j \in Index : j # i => f_state'[j] = f_state[j] /\ inode'[j] = inode[j]
  BY <1>0 DEF TypeOK
<1>2. CASE unused = {}
  <2>1. /\ count' = [count EXCEPT ![i] = cnt] /\ upset' = upset \cup {"full"}
        /\ Record([granted EXCEPT ![p][FILE_OPEN] = <<f, m>>]) /\ fcb' = fcb
    BY <1>2 DEF TakeDescriptor, Grant
  <2>2. upset' # {} /\ granted' = Nothing /\ upset' \subseteq Upset
    BY <1>0, <2>1 DEF Record, TypeOK, Upset
  <2>3. TypeOK'
    BY <1>0, <1>1, <2>1, <2>2, NothingType DEF TypeOK
  <2>4. HistoryKept' /\ DescriptorNamesFile'
    BY <2>2, NothingType DEF HistoryKept, DescriptorNamesFile, TypeOK
  <2>5. ASSUME "fork" \notin upset', NEW j \in Index
        PROVE  IF f_state'[j] = s_close THEN Refs(fcb', j) = {}
               ELSE count'[j] >= 1 /\ Cardinality(Refs(fcb', j)) <= count'[j]
    <3>1. IF f_state[j] = s_close THEN Refs(fcb, j) = {}
          ELSE count[j] >= 1 /\ Cardinality(Refs(fcb, j)) <= count[j]
      BY <1>0, <2>1, <2>5 DEF CountsCover, Covered
    <3>2. CASE j = i /\ f_state[i] = s_close
      <4>1. Cardinality(Refs(fcb', j)) = 0
        BY <2>1, <3>1, <3>2, EmptyCount
      <4>2. count'[j] = 1 /\ f_state'[j] # s_close
        BY <1>0, <1>1, <2>1, <3>2 DEF TypeOK
      <4> QED
        BY <4>1, <4>2
    <3>3. CASE j = i /\ f_state[i] # s_close
      BY <1>0, <1>1, <2>1, <3>1, <3>3 DEF TypeOK
    <3>4. CASE j # i
      BY <1>0, <1>1, <2>1, <3>1, <3>4 DEF TypeOK
    <3> QED
      BY <3>2, <3>3, <3>4
  <2>6. CountsCover'
    BY <2>5 DEF CountsCover, Covered
  <2> QED
    BY <2>3, <2>4, <2>6
<1>3. CASE unused # {}
  <2>1. PICK d \in unused :
          /\ fcb' = [fcb EXCEPT ![p][d] = i]
          /\ count' = [count EXCEPT ![i] = cnt + 1]
          /\ upset' = upset
          /\ Record([granted EXCEPT ![p][d] = <<f, m>>])
    BY <1>3 DEF TakeDescriptor, Grant
  <2>2. d \in Index /\ fcb[p][d] = None
    OBVIOUS
  <2>3. /\ fcb \in [Procs -> [Index -> Index \cup {None}]]
        /\ fcb' \in [Procs -> [Index -> Index \cup {None}]]
    BY <1>0, <2>1, <2>2 DEF TypeOK
  <2>4. \A q \in Procs, e \in Index :
          fcb'[q][e] = IF q = p /\ e = d THEN i ELSE fcb[q][e]
    BY <1>0, <2>1, <2>2 DEF TypeOK
  <2>12. /\ Cardinality(Refs(fcb', i)) = Cardinality(Refs(fcb, i)) + 1
         /\ \A j \in Index \ {i} : Refs(fcb', j) = Refs(fcb, j)
    BY <1>0, <2>2, <2>3, <2>4, DescriptorTaken, SMTT(30)
  <2>5. <<f, m>> \in Handle /\ <<f, m>> # <<>>
    BY DEF Handle
  <2>6. granted' \in [Procs -> [Index -> Handle]]
    <3>1. granted \in [Procs -> [Index -> Handle]]
      BY <1>0 DEF TypeOK
    <3>2. [granted EXCEPT ![p][d] = <<f, m>>] \in [Procs -> [Index -> Handle]]
      BY <1>0, <2>2, <2>5, <3>1
    <3> QED
      BY <2>1, <3>2, NothingType DEF Record
  <2>7. TypeOK'
    BY <1>0, <1>1, <2>1, <2>3, <2>6 DEF TypeOK
  <2>8. ASSUME "fork" \notin upset', NEW j \in Index
        PROVE  IF f_state'[j] = s_close THEN Refs(fcb', j) = {}
               ELSE count'[j] >= 1 /\ Cardinality(Refs(fcb', j)) <= count'[j]
    <3>1. IF f_state[j] = s_close THEN Refs(fcb, j) = {}
          ELSE count[j] >= 1 /\ Cardinality(Refs(fcb, j)) <= count[j]
      BY <1>0, <2>1, <2>8 DEF CountsCover, Covered
    <3>2. CASE j = i /\ f_state[i] = s_close
      <4>1. Cardinality(Refs(fcb', i)) = 1
        BY <2>12, <3>1, <3>2, EmptyCount
      <4>2. count'[i] = 2 /\ f_state'[i] # s_close
        BY <1>0, <1>1, <2>1, <3>2 DEF TypeOK
      <4> QED
        BY <3>2, <4>1, <4>2
    <3>3. CASE j = i /\ f_state[i] # s_close
      <4>1. count'[i] = count[i] + 1 /\ f_state'[i] # s_close /\ count[i] \in Int
        BY <1>0, <1>1, <2>1, <3>3 DEF TypeOK
      <4> QED
        BY <2>12, <3>1, <3>3, <4>1, RefsFinite
    <3>4. CASE j # i
      BY <1>0, <1>1, <2>1, <2>12, <3>1, <3>4 DEF TypeOK
    <3> QED
      BY <3>2, <3>3, <3>4
  <2>9. CountsCover'
    BY <2>8 DEF CountsCover, Covered
  <2>10. CASE upset' = {}
    <3>0. upset = {} /\ granted' = [granted EXCEPT ![p][d] = <<f, m>>]
      BY <2>1, <2>10 DEF Record
    <3>1. \A q \in Procs, e \in Index :
            granted'[q][e] = IF q = p /\ e = d THEN <<f, m>> ELSE granted[q][e]
      BY <1>0, <2>2, <3>0 DEF TypeOK
    <3>2. HistoryKept'
      BY <1>0, <2>10, <3>1 DEF HistoryKept
    <3>3. ASSUME NEW q \in live, NEW e \in Index, granted'[q][e] # <<>>
          PROVE  /\ fcb'[q][e] # None
                 /\ granted'[q][e] = <<inode'[fcb'[q][e]], f_state'[fcb'[q][e]]>>
      <4>0. q \in Procs
        BY <1>0 DEF TypeOK
      <4>1. CASE q = p /\ e = d
        BY <1>0, <1>1, <2>4, <3>1, <4>0, <4>1
      <4>2. CASE ~(q = p /\ e = d)
        <5>1. /\ granted[q][e] # <<>> /\ fcb'[q][e] = fcb[q][e]
              /\ granted'[q][e] = granted[q][e]
          BY <2>4, <3>1, <3>3, <4>0, <4>2
        <5>2. /\ fcb[q][e] # None
              /\ granted[q][e] = <<inode[fcb[q][e]], f_state[fcb[q][e]]>>
          BY <1>0, <3>0, <5>1 DEF DescriptorNamesFile
        <5>3. fcb[q][e] \in Index
          BY <1>0, <4>0, <5>2 DEF TypeOK
        <5>6. Refs(fcb, fcb[q][e]) # {}
          BY <4>0, RefsMember
        <5>4. f_state[fcb[q][e]] # s_close
          BY <1>0, <3>0, <5>3, <5>6 DEF CountsCover, Covered
        <5>5. inode'[fcb[q][e]] = inode[fcb[q][e]] /\ f_state'[fcb[q][e]] = f_state[fcb[q][e]]
          BY <1>1, <5>3, <5>4
        <5> QED
          BY <5>1, <5>2, <5>5
      <4> QED
        BY <4>1, <4>2
    <3>4. DescriptorNamesFile'
      BY <3>3 DEF DescriptorNamesFile
    <3> QED
      BY <2>7, <2>9, <3>2, <3>4
  <2>11. CASE upset' # {}
    <3>1. granted' = Nothing
      BY <2>1, <2>11 DEF Record
    <3>2. HistoryKept' /\ DescriptorNamesFile'
      BY <2>11, <3>1, NothingType DEF HistoryKept, DescriptorNamesFile
    <3> QED
      BY <2>7, <2>9, <3>2
  <2> QED
    BY <2>10, <2>11
<1> QED
  BY <1>2, <1>3

(***************************************************************************)
(* A call that leaves the FCBs and the descriptors alone: all it can       *)
(* disturb is the history.                                                 *)
(***************************************************************************)
LEMMA SameFiles ==
  ASSUME Inv, UNCHANGED <<f_state, inode, count, fcb>>,
         upset \subseteq upset', upset' \subseteq Upset
  PROVE  OneFcbPerFile' /\ CountsCover'
  BY DEF Inv, OneFcbPerFile, CountsCover, Covered, Refs

\* open finds no free FCB.
LEMMA OpenFullInv ==
  ASSUME Inv, NEW p \in live, NEW f \in Files, NEW m \in Modes,
         OpenFull(p, f, m), live' = live
  PROVE  Inv'
<1>1. /\ upset' = upset \cup {"full"} /\ upset' # {}
      /\ UNCHANGED <<f_state, inode, count, fcb>>
  BY DEF OpenFull
<1>2. granted' = Nothing
  BY <1>1 DEF OpenFull, Grant, Record
<1>3. upset' \subseteq Upset
  BY <1>1 DEF Inv, TypeOK, Upset
<1>4. OneFcbPerFile' /\ CountsCover'
  BY <1>1, <1>3, SameFiles
<1>5. TypeOK'
  BY <1>1, <1>2, <1>3, NothingType DEF Inv, TypeOK
<1>6. HistoryKept' /\ DescriptorNamesFile'
  BY <1>1, <1>2, NothingType DEF HistoryKept, DescriptorNamesFile
<1> QED
  BY <1>4, <1>5, <1>6 DEF Inv

\* open of a file that this process has open in this mode.
LEMMA OpenAgainInv ==
  ASSUME Inv, NEW p \in live, NEW f \in Files, NEW m \in Modes,
         OpenAgain(p, f, m), live' = live
  PROVE  Inv'
<1>0. TypeOK /\ HistoryKept /\ DescriptorNamesFile /\ p \in Procs /\ None \notin Index
  BY FileAssumption DEF Inv, TypeOK, None, Index
<1>1. PICK i \in Index :
        /\ f_state[i] = m /\ inode[i] = f
        /\ upset' = IF fcb[p][i] = i THEN upset ELSE upset \cup {"again"}
        /\ Record([granted EXCEPT ![p][i] = <<f, m>>])
  BY DEF OpenAgain, Lowest, Loaded, Grant
<1>2. UNCHANGED <<f_state, inode, count, fcb>> /\ upset \subseteq upset' /\ upset' \subseteq Upset
  BY <1>0, <1>1 DEF OpenAgain, TypeOK, Upset
<1>3. OneFcbPerFile' /\ CountsCover'
  BY <1>2, SameFiles
<1>4. CASE upset' # {}
  <2>1. granted' = Nothing
    BY <1>1, <1>4 DEF Record
  <2>2. TypeOK'
    BY <1>0, <1>2, <2>1, NothingType DEF TypeOK
  <2>3. HistoryKept' /\ DescriptorNamesFile'
    BY <1>4, <2>1, NothingType DEF HistoryKept, DescriptorNamesFile
  <2> QED
    BY <1>3, <2>2, <2>3 DEF Inv
<1>5. CASE upset' = {}
  <2>1. granted' = [granted EXCEPT ![p][i] = <<f, m>>] /\ upset = {} /\ fcb[p][i] = i
    BY <1>1, <1>5 DEF Record
  <2>2. <<f, m>> \in Handle
    BY DEF Handle
  <2>3. granted' \in [Procs -> [Index -> Handle]]
    BY <1>0, <2>1, <2>2 DEF TypeOK
  <2>4. \A q \in Procs, e \in Index :
          granted'[q][e] = IF q = p /\ e = i THEN <<f, m>> ELSE granted[q][e]
    BY <1>0, <2>1 DEF TypeOK
  <2>5. TypeOK'
    BY <1>0, <1>2, <2>3 DEF TypeOK
  <2>6. HistoryKept'
    BY <1>0, <1>5, <2>4 DEF HistoryKept
  <2>7. live \subseteq Procs
    BY <1>0 DEF TypeOK
  <2>8. DescriptorNamesFile'
    BY <1>0, <1>1, <1>2, <2>1, <2>4, <2>7 DEF DescriptorNamesFile
  <2> QED
    BY <1>3, <2>5, <2>6, <2>8 DEF Inv
<1> QED
  BY <1>4, <1>5

(***************************************************************************)
(* open loads a file: no FCB has it in this mode, so it is still loaded    *)
(* once.                                                                   *)
(***************************************************************************)
LEMMA OpenNewInv ==
  ASSUME Inv, NEW p \in live, NEW f \in Files, NEW m \in Modes,
         OpenNew(p, f, m), live' = live
  PROVE  Inv'
<1>1. PICK i \in Index :
        /\ f_state[i] = s_close
        /\ f_state' = [f_state EXCEPT ![i] = m]
        /\ inode' = [inode EXCEPT ![i] = f]
        /\ TakeDescriptor(p, f, m, i, 1)
  BY DEF OpenNew, Lowest
<1>2. TypeOK' /\ CountsCover' /\ HistoryKept' /\ DescriptorNamesFile'
  <2>1. PICK cnt \in Int : cnt = 1
    OBVIOUS
  <2>2. TakeDescriptor(p, f, m, i, cnt)
    BY <1>1, <2>1
  <2> QED
    BY <1>1, <2>1, <2>2, TakeKeepsInv
<1>3. \A j \in Index : ~(f_state[j] = m /\ inode[j] = f)
  BY DEF OpenNew, Loaded
<1>4. OneFcbPerFile'
  BY <1>1, <1>3 DEF OneFcbPerFile, Inv, TypeOK
<1> QED
  BY <1>2, <1>4 DEF Inv

\* open of a file that another process has open in this mode.
LEMMA OpenLoadedInv ==
  ASSUME Inv, NEW p \in live, NEW f \in Files, NEW m \in Modes,
         OpenLoaded(p, f, m), live' = live
  PROVE  Inv'
<1>1. PICK i \in Index :
        /\ f_state[i] = m /\ inode[i] = f
        /\ TakeDescriptor(p, f, m, i, count[i])
  BY DEF OpenLoaded, Lowest, Loaded
<1>2. f_state' = f_state /\ inode' = inode
  BY DEF OpenLoaded
<1>3. f_state' = [f_state EXCEPT ![i] = m] /\ inode' = [inode EXCEPT ![i] = f]
  BY <1>1, <1>2 DEF Inv, TypeOK
<1>4. count[i] \in Int
  BY DEF Inv, TypeOK
<1>5. TypeOK' /\ CountsCover' /\ HistoryKept' /\ DescriptorNamesFile'
  BY <1>1, <1>3, <1>4, TakeKeepsInv
<1>6. OneFcbPerFile'
  BY <1>2 DEF OneFcbPerFile, Inv
<1> QED
  BY <1>5, <1>6 DEF Inv

(***************************************************************************)
(* close: the FCB goes when its count reaches 0, and then it has no        *)
(* descriptor left.                                                        *)
(***************************************************************************)
LEMMA CloseInv ==
  ASSUME Inv, NEW p \in Procs, NEW d \in Index, Close(p, d)
  PROVE  Inv'
<1>0. /\ TypeOK /\ OneFcbPerFile /\ CountsCover /\ HistoryKept /\ DescriptorNamesFile
      /\ None \notin Index
  BY FileAssumption DEF Inv, None, Index
<1> DEFINE i == fcb[p][d]
<1>1. /\ i \in Index /\ p \in live
      /\ fcb' = [fcb EXCEPT ![p][d] = None]
      /\ count' = [count EXCEPT ![i] = @ - 1]
      /\ f_state' = IF count'[i] = 0 THEN [f_state EXCEPT ![i] = s_close] ELSE f_state
      /\ inode' = inode /\ live' = live /\ upset' = upset
      /\ Record([granted EXCEPT ![p][d] = <<>>])
  BY <1>0 DEF Close, TypeOK
<1> HIDE DEF i
<1>2. /\ fcb' \in [Procs -> [Index -> Index \cup {None}]]
      /\ \A q \in Procs, e \in Index :
           fcb'[q][e] = IF q = p /\ e = d THEN None ELSE fcb[q][e]
  BY <1>0, <1>1 DEF TypeOK
<1>3. /\ count' \in [Index -> Int] /\ count[i] \in Int /\ count'[i] = count[i] - 1
      /\ \A j \in Index : j # i => count'[j] = count[j]
  BY <1>0, <1>1 DEF TypeOK
<1>4. /\ f_state' \in [Index -> Modes \cup {s_close}]
      /\ f_state'[i] = IF count'[i] = 0 THEN s_close ELSE f_state[i]
      /\ \A j \in Index : j # i => f_state'[j] = f_state[j]
  BY <1>0, <1>1 DEF TypeOK
<1>5. <<>> \in Handle
  BY DEF Handle
<1>6. [granted EXCEPT ![p][d] = <<>>] \in [Procs -> [Index -> Handle]]
  BY <1>0, <1>5 DEF TypeOK
<1>7. granted' \in [Procs -> [Index -> Handle]]
  BY <1>1, <1>6, NothingType DEF Record
<1>8. TypeOK'
  BY <1>0, <1>1, <1>2, <1>3, <1>4, <1>7 DEF TypeOK
<1>9. OneFcbPerFile'
  BY <1>0, <1>1, <1>4 DEF OneFcbPerFile
<1>10. /\ Cardinality(Refs(fcb', i)) = Cardinality(Refs(fcb, i)) - 1
       /\ \A j \in Index \ {i} : Refs(fcb', j) = Refs(fcb, j)
  <2>1. fcb[p][d] = i /\ i \in Index
    BY <1>1 DEF i
  <2>2. \A q \in Procs, e \in Index :
          fcb'[q][e] = IF q = p /\ e = d THEN None ELSE fcb[q][e]
    BY <1>2
  <2> QED
    BY <2>1, <2>2, DescriptorClosed
<1>11. ASSUME "fork" \notin upset, NEW j \in Index
       PROVE  IF f_state'[j] = s_close THEN Refs(fcb', j) = {}
              ELSE count'[j] >= 1 /\ Cardinality(Refs(fcb', j)) <= count'[j]
  <2>1. IF f_state[j] = s_close THEN Refs(fcb, j) = {}
        ELSE count[j] >= 1 /\ Cardinality(Refs(fcb, j)) <= count[j]
    BY <1>0, <1>11 DEF CountsCover, Covered
  <2>2. CASE j # i
    BY <1>3, <1>4, <1>10, <2>1, <2>2
  <2>3. CASE j = i
    <3>1. Refs(fcb, i) # {}
      BY RefsMember DEF i
    <3>2. /\ f_state[i] # s_close /\ count[i] >= 1
          /\ Cardinality(Refs(fcb, i)) <= count[i]
      BY <2>1, <2>3, <3>1
    <3>3. IsFiniteSet(Refs(fcb', i)) /\ Cardinality(Refs(fcb', i)) \in Nat
          /\ Cardinality(Refs(fcb, i)) \in Nat
      BY RefsFinite
    <3>4. CASE count'[i] = 0
      <4>1. Cardinality(Refs(fcb', i)) = 0
        BY <1>3, <1>10, <3>2, <3>3, <3>4
      <4>2. Refs(fcb', i) = {}
        BY <3>3, <4>1, FS_EmptySet
      <4> QED
        BY <1>4, <2>3, <3>4, <4>2
    <3>5. CASE count'[i] # 0
      BY <1>3, <1>4, <1>10, <2>3, <3>2, <3>3, <3>5
    <3> QED
      BY <3>4, <3>5
  <2> QED
    BY <2>2, <2>3
<1>12. CountsCover'
  BY <1>1, <1>11 DEF CountsCover, Covered
<1>13. CASE upset' # {}
  <2>1. granted' = Nothing
    BY <1>1, <1>13 DEF Record
  <2>2. HistoryKept' /\ DescriptorNamesFile'
    BY <1>13, <2>1, NothingType DEF HistoryKept, DescriptorNamesFile
  <2> QED
    BY <1>8, <1>9, <1>12, <2>2 DEF Inv
<1>14. CASE upset' = {}
  <2>1. granted' = [granted EXCEPT ![p][d] = <<>>] /\ upset = {}
    BY <1>1, <1>14 DEF Record
  <2>2. \A q \in Procs, e \in Index :
          granted'[q][e] = IF q = p /\ e = d THEN <<>> ELSE granted[q][e]
    BY <1>0, <2>1 DEF TypeOK
  <2>3. HistoryKept'
    BY <1>0, <1>1, <1>14, <2>2 DEF HistoryKept
  <2>4. ASSUME NEW q \in live, NEW e \in Index, granted'[q][e] # <<>>
        PROVE  /\ fcb'[q][e] # None
               /\ granted'[q][e] = <<inode'[fcb'[q][e]], f_state'[fcb'[q][e]]>>
    <3>1. q \in Procs
      BY <1>0 DEF TypeOK
    <3>2. ~(q = p /\ e = d) /\ granted'[q][e] = granted[q][e] /\ granted[q][e] # <<>>
      BY <2>2, <2>4, <3>1
    <3>3. fcb'[q][e] = fcb[q][e]
      BY <1>2, <3>1, <3>2
    <3>4. fcb[q][e] # None /\ granted[q][e] = <<inode[fcb[q][e]], f_state[fcb[q][e]]>>
      BY <1>0, <2>1, <3>2 DEF DescriptorNamesFile
    <3>5. fcb[q][e] \in Index
      BY <1>0, <3>1, <3>4 DEF TypeOK
    <3>6. Refs(fcb', fcb'[q][e]) # {}
      BY <3>1, RefsMember
    <3>7. f_state'[fcb[q][e]] # s_close
      BY <1>11, <2>1, <3>3, <3>5, <3>6
    <3>8. f_state'[fcb[q][e]] = f_state[fcb[q][e]]
      BY <1>4, <3>5, <3>7
    <3> QED
      BY <1>1, <3>2, <3>3, <3>4, <3>8
  <2>5. DescriptorNamesFile'
    BY <1>1, <2>4 DEF DescriptorNamesFile
  <2> QED
    BY <1>8, <1>9, <1>12, <2>3, <2>5 DEF Inv
<1> QED
  BY <1>13, <1>14

(***************************************************************************)
(* fork: a free FCB has no descriptor to copy, and as long as the event is *)
(* not noticed every count still covers the copies.                        *)
(***************************************************************************)
LEMMA ForkInv ==
  ASSUME Inv, NEW p \in Procs, Fork(p)
  PROVE  Inv'
<1>0. /\ TypeOK /\ OneFcbPerFile /\ CountsCover /\ HistoryKept /\ DescriptorNamesFile
      /\ p \in live /\ UNCHANGED <<f_state, inode, count>> /\ None \notin Index
  BY FileAssumption DEF Inv, Fork, None, Index
<1>1. PICK c \in Procs :
        /\ c \notin live /\ live' = live \cup {c}
        /\ fcb' = [fcb EXCEPT ![c] = fcb[p]]
        /\ upset' = IF \E i \in Index : Cardinality(Refs(fcb', i)) > count[i]
                    THEN upset \cup {"fork"} ELSE upset
        /\ Record([granted EXCEPT ![c] = granted[p]])
  BY DEF Fork, Lowest
<1>2. /\ fcb' \in [Procs -> [Index -> Index \cup {None}]]
      /\ \A q \in Procs, e \in Index :
           fcb'[q][e] = IF q = c THEN fcb[p][e] ELSE fcb[q][e]
  BY <1>0, <1>1 DEF TypeOK
<1>3. [granted EXCEPT ![c] = granted[p]] \in [Procs -> [Index -> Handle]]
  BY <1>0, <1>1 DEF TypeOK
<1>4. granted' \in [Procs -> [Index -> Handle]]
  BY <1>1, <1>3, NothingType DEF Record
<1>5. live' \subseteq Procs /\ upset' \subseteq Upset /\ upset \subseteq upset'
  BY <1>0, <1>1 DEF TypeOK, Upset
<1>6. TypeOK'
  BY <1>0, <1>2, <1>4, <1>5 DEF TypeOK
<1>7. OneFcbPerFile'
  BY <1>0 DEF OneFcbPerFile
<1>8. ASSUME "fork" \notin upset', NEW j \in Index
      PROVE  IF f_state'[j] = s_close THEN Refs(fcb', j) = {}
             ELSE count'[j] >= 1 /\ Cardinality(Refs(fcb', j)) <= count'[j]
  <2>1. IF f_state[j] = s_close THEN Refs(fcb, j) = {}
        ELSE count[j] >= 1 /\ Cardinality(Refs(fcb, j)) <= count[j]
    BY <1>0, <1>5, <1>8 DEF CountsCover, Covered
  <2>2. ~(Cardinality(Refs(fcb', j)) > count[j])
    BY <1>1, <1>8
  <2>3. count[j] \in Int /\ Cardinality(Refs(fcb', j)) \in Nat
    BY <1>0, RefsFinite DEF TypeOK
  <2>4. CASE f_state[j] = s_close
    <3>1. \A q \in Procs, e \in Index : fcb[q][e] # j
      BY <2>1, <2>4, RefsMember
    <3>2. \A q \in Procs, e \in Index : fcb'[q][e] # j
      BY <1>2, <3>1
    <3>3. Refs(fcb', j) = {}
      BY <3>2 DEF Refs
    <3> QED
      BY <1>0, <2>4, <3>3
  <2>5. CASE f_state[j] # s_close
    BY <1>0, <2>1, <2>2, <2>3, <2>5
  <2> QED
    BY <2>4, <2>5
<1>9. CountsCover'
  BY <1>8 DEF CountsCover, Covered
<1>10. CASE upset' # {}
  <2>1. granted' = Nothing
    BY <1>1, <1>10 DEF Record
  <2>2. HistoryKept' /\ DescriptorNamesFile'
    BY <1>5, <1>10, <2>1, NothingType DEF HistoryKept, DescriptorNamesFile
  <2> QED
    BY <1>6, <1>7, <1>9, <2>2 DEF Inv
<1>11. CASE upset' = {}
  <2>1. granted' = [granted EXCEPT ![c] = granted[p]] /\ upset = {}
    BY <1>1, <1>5, <1>11 DEF Record
  <2>2. \A q \in Procs, e \in Index :
          granted'[q][e] = IF q = c THEN granted[p][e] ELSE granted[q][e]
    BY <1>0, <2>1 DEF TypeOK
  <2>3. HistoryKept'
    BY <1>0, <1>1, <1>11, <2>2 DEF HistoryKept
  <2>4. \A q \in live, e \in Index : granted[q][e] # <<>> =>
          /\ fcb[q][e] # None
          /\ granted[q][e] = <<inode[fcb[q][e]], f_state[fcb[q][e]]>>
    BY <1>0, <2>1 DEF DescriptorNamesFile
  <2>5. ASSUME NEW q \in live', NEW e \in Index, granted'[q][e] # <<>>
        PROVE  /\ fcb'[q][e] # None
               /\ granted'[q][e] = <<inode'[fcb'[q][e]], f_state'[fcb'[q][e]]>>
    <3>1. q \in Procs
      BY <1>5
    <3>2. CASE q = c
      BY <1>0, <1>2, <2>2, <2>4, <2>5, <3>1, <3>2
    <3>3. CASE q # c
      BY <1>0, <1>1, <1>2, <2>2, <2>4, <2>5, <3>1, <3>3
    <3> QED
      BY <3>2, <3>3
  <2>6. DescriptorNamesFile'
    BY <2>5 DEF DescriptorNamesFile
  <2> QED
    BY <1>6, <1>7, <1>9, <2>3, <2>6 DEF Inv
<1> QED
  BY <1>10, <1>11

\* create_thread: the new owner of old descriptors was given none of them.
LEMMA CreateThreadInv ==
  ASSUME Inv, NEW p \in Procs, CreateThread(p)
  PROVE  Inv'
<1>0. /\ TypeOK /\ HistoryKept /\ DescriptorNamesFile
      /\ UNCHANGED <<f_state, inode, count, fcb, granted, upset>>
  BY DEF Inv, CreateThread
<1>1. PICK c \in Procs : c \notin live /\ live' = live \cup {c}
  BY DEF CreateThread, Lowest
<1>2. TypeOK'
  BY <1>0, <1>1 DEF TypeOK
<1>3. OneFcbPerFile' /\ CountsCover'
  BY <1>0, SameFiles DEF TypeOK
<1>4. HistoryKept'
  BY <1>0, <1>1 DEF HistoryKept
<1>5. DescriptorNamesFile'
  BY <1>0, <1>1 DEF HistoryKept, DescriptorNamesFile
<1> QED
  BY <1>2, <1>3, <1>4, <1>5 DEF Inv

\* exit takes the program and its grants away, not the descriptors.
LEMMA ExitInv ==
  ASSUME Inv, NEW p \in Procs, Exit(p)
  PROVE  Inv'
<1>0. /\ TypeOK /\ HistoryKept /\ DescriptorNamesFile /\ live' = live \ {p}
      /\ UNCHANGED <<f_state, inode, count, fcb, upset>>
  BY DEF Inv, Exit
<1>1. OneFcbPerFile' /\ CountsCover'
  BY <1>0, SameFiles DEF TypeOK
<1> DEFINE history == [granted EXCEPT ![p] = [d \in Index |-> <<>>]]
<1>2. Record(history)
  BY DEF Exit
<1>3. <<>> \in Handle
  BY DEF Handle
<1>4. /\ history \in [Procs -> [Index -> Handle]]
      /\ \A q \in Procs, e \in Index :
           history[q][e] = IF q = p THEN <<>> ELSE granted[q][e]
  BY <1>0, <1>3 DEF TypeOK
<1> HIDE DEF history
<1>5. granted' \in [Procs -> [Index -> Handle]]
  BY <1>2, <1>4, NothingType DEF Record
<1>6. TypeOK'
  BY <1>0, <1>5 DEF TypeOK
<1>7. CASE upset' # {}
  <2>1. granted' = Nothing
    BY <1>2, <1>7 DEF Record
  <2>2. HistoryKept' /\ DescriptorNamesFile'
    BY <1>7, <2>1, NothingType DEF HistoryKept, DescriptorNamesFile
  <2> QED
    BY <1>1, <1>6, <2>2 DEF Inv
<1>8. CASE upset' = {}
  <2>1. granted' = history /\ upset = {}
    BY <1>0, <1>2, <1>8 DEF Record
  <2>2. HistoryKept'
    BY <1>0, <1>4, <1>8, <2>1 DEF HistoryKept
  <2>3. live' \subseteq live /\ live \subseteq Procs
    BY <1>0 DEF TypeOK
  <2>4. DescriptorNamesFile'
    BY <1>0, <1>4, <2>1, <2>3 DEF DescriptorNamesFile
  <2> QED
    BY <1>1, <1>6, <2>2, <2>4 DEF Inv
<1> QED
  BY <1>7, <1>8

LEMMA StutterInv == Inv /\ UNCHANGED vars => Inv'
<1> SUFFICES ASSUME Inv, UNCHANGED vars PROVE Inv'
  OBVIOUS
<1>1. TypeOK'
  BY DEF Inv, TypeOK, vars
<1>2. OneFcbPerFile' /\ CountsCover'
  BY SameFiles DEF Inv, TypeOK, vars
<1>3. HistoryKept' /\ DescriptorNamesFile'
  BY DEF Inv, HistoryKept, DescriptorNamesFile, vars
<1> QED
  BY <1>1, <1>2, <1>3 DEF Inv

\* Every system call keeps the invariant.
LEMMA NextInv == Inv /\ [Next]_vars => Inv'
<1> SUFFICES ASSUME Inv, [Next]_vars PROVE Inv'
  OBVIOUS
<1>1. ASSUME NEW p \in Procs, NEW f \in Files \cup {Absent}, NEW m \in Modes, Open(p, f, m)
      PROVE  Inv'
  <2>1. p \in live /\ live' = live
    BY <1>1 DEF Open
  <2>2. CASE f = Absent /\ UNCHANGED <<f_state, inode, count, fcb, granted, upset>>
    BY <2>1, <2>2, StutterInv DEF vars
  <2>3. CASE f \in Files /\ OpenNew(p, f, m)
    BY <2>1, <2>3, OpenNewInv
  <2>4. CASE f \in Files /\ OpenFull(p, f, m)
    BY <2>1, <2>4, OpenFullInv
  <2>5. CASE f \in Files /\ OpenLoaded(p, f, m)
    BY <2>1, <2>5, OpenLoadedInv
  <2>6. CASE f \in Files /\ OpenAgain(p, f, m)
    BY <2>1, <2>6, OpenAgainInv
  <2> QED
    BY <1>1, <2>2, <2>3, <2>4, <2>5, <2>6 DEF Open
<1>2. ASSUME NEW p \in Procs, NEW d \in Index, Close(p, d)
      PROVE  Inv'
  BY <1>2, CloseInv
<1>3. ASSUME NEW p \in Procs, NEW d \in Index, CloseFails(p, d)
      PROVE  Inv'
  BY <1>3, StutterInv DEF CloseFails
<1>4. ASSUME NEW p \in Procs, Fork(p)
      PROVE  Inv'
  BY <1>4, ForkInv
<1>5. ASSUME NEW p \in Procs, CreateThread(p)
      PROVE  Inv'
  BY <1>5, CreateThreadInv
<1>6. ASSUME NEW p \in Procs, Exit(p)
      PROVE  Inv'
  BY <1>6, ExitInv
<1>7. CASE Quiet
  BY <1>7, StutterInv DEF Quiet
<1>8. CASE UNCHANGED vars
  BY <1>8, StutterInv
<1> QED
  BY <1>1, <1>2, <1>3, <1>4, <1>5, <1>6, <1>7, <1>8 DEF Next

LEMMA SpecInv == Spec => []Inv
  BY InitInv, NextInv, PTL DEF Spec

(***************************************************************************)
(* No descriptor points to a free FCB, and no FCB has more descriptors     *)
(* than it counts: close (fs.c) frees an FCB only after its last user, for *)
(* any number of processes, until a fork copies descriptors uncounted.     *)
(***************************************************************************)
THEOREM NoDescriptorDangles == Spec => []NoDangling
<1>1. Inv => NoDangling
  BY CoversAll DEF Inv
<1> QED
  BY <1>1, SpecInv, PTL

(***************************************************************************)
(* A descriptor that open (fs.c) returned names its file and mode until    *)
(* its owner closes it.                                                    *)
(***************************************************************************)
THEOREM DescriptorsKeepTheirFile == Spec => []DescriptorNamesFile
<1>1. Inv => DescriptorNamesFile
  BY DEF Inv
<1> QED
  BY <1>1, SpecInv, PTL

\* open (fs.c) never has a file in memory twice in the same mode.
THEOREM FilesAreShared == Spec => []OneFcbPerFile
<1>1. Inv => OneFcbPerFile
  BY DEF Inv
<1> QED
  BY <1>1, SpecInv, PTL
=============================================================================
