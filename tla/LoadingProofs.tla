--------------------------- MODULE LoadingProofs ---------------------------
(***************************************************************************)
(* What the disk image promises, for every size of disk, directory and     *)
(* inode: a file of the directory is complete whatever runs of copy2myfs   *)
(* come or are cut short, and the loaders find the programs in it.         *)
(***************************************************************************)
EXTENDS Loading, NaturalsInduction, WellFoundedInduction, TLAPS

Run == [at : {"next", "copy", "bitmap", "direct"}, bitmap : SUBSET Block,
        direct : Seq(Entry), inode : Seq(Block), inode_num : Nat, n : Nat]

\* Until an inode is spilled the blocks in use are two runs: the directory and
\* the inodes up to block m, and the data up to block t.
Used(m, t) == (0 .. m) \cup (FirstData .. t)

Low(m)  == m \in 0 .. (FirstData - 1)
High(t) == t \in (FirstData - 1) .. (NBlocks - 1)

(***************************************************************************)
(* Blocks of a file follow one another on the disk from block s on, which  *)
(* the loaders rely on, and its inodes list them one after the other.      *)
(* Entry j of inode q is for block q * NR_INODE_ENTRY + j of the file.     *)
(***************************************************************************)
Complete(e, s, B) ==
  \A q \in 0 .. e.size, j \in 0 .. (NR_INODE_ENTRY - 1) :
    LET n == q * NR_INODE_ENTRY + j
    IN  n < e.size =>
          /\ e.inode_offset + q \in B /\ Listed(e.inode_offset + q, j) = s + n
          /\ s + n \in B /\ sector[s + n] = <<"data", e.file, n>>
Intact(e, B) == \E s \in Block : Complete(e, s, B)

\* How far the file being copied is: its data from block s on, full inodes on
\* the disk, the last one in memory, and everything else as it was before.
Partial(s) ==
  LET first == LastEntry.inode_offset
      k     == mem.inode_num
  IN  /\ first > 0 /\ Low(InodeSector) /\ High(s + mem.n - 1)
      /\ mem.bitmap = Used(InodeSector, s + mem.n - 1)
      /\ bitmap \subseteq Used(first - 1, s - 1)
      /\ mem.n = k * NR_INODE_ENTRY + Len(mem.inode)
      /\ Len(mem.inode) <= NR_INODE_ENTRY /\ mem.n <= LastEntry.size
      /\ \A j \in 1 .. Len(mem.inode) : mem.inode[j] = s + k * NR_INODE_ENTRY + j - 1
      /\ \A q \in 0 .. (k - 1), j \in 0 .. (NR_INODE_ENTRY - 1) :
           Listed(first + q, j) = s + q * NR_INODE_ENTRY + j
      /\ \A n \in 0 .. (mem.n - 1) : sector[s + n] = <<"data", LastEntry.file, n>>
      /\ \A d \in 1 .. (Len(mem.direct) - 1) :
           Intact(mem.direct[d], Used(first - 1, s - 1))

Copying ==
  mem.at = "copy" =>
    Len(mem.direct) > 0 /\ \E s \in FirstData .. NBlocks : Partial(s)

Between ==
  mem.at \in {"next", "bitmap", "direct"} =>
    /\ \E m, t \in Block \cup {FirstData - 1} : Low(m) /\ High(t) /\ mem.bitmap = Used(m, t)
    /\ bitmap \subseteq mem.bitmap
    /\ \A d \in DOMAIN mem.direct : Intact(mem.direct[d], mem.bitmap)
    /\ mem.at = "direct" => bitmap = mem.bitmap

OnDisk ==
  /\ \E m, t \in Block \cup {FirstData - 1} : Low(m) /\ High(t) /\ bitmap = Used(m, t)
  /\ \A d \in DOMAIN direct : Intact(direct[d], bitmap)

Inv ==
  /\ TypeOK
  /\ mem = Ended \/ mem \in Run
  /\ ~spilled => OnDisk /\ Between /\ Copying
-----------------------------------------------------------------------------
LEMMA Sizing ==
  /\ NR_INODE_ENTRY \in Nat \ {0} /\ NBlocks \in Nat
  /\ FirstData \in Nat \ {0} /\ FirstData < NBlocks
  /\ Block = 0 .. (NBlocks - 1)
  BY DiskAssumption DEF FirstData, Block

LEMMA UsedBlocks ==
  ASSUME NEW m, NEW t, Low(m), High(t)
  PROVE  Used(m, t) \in SUBSET Block
  BY Sizing DEF Used, Low, High

\* bit_alloc takes the block behind one of the two runs.
LEMMA InodeIsNext ==
  ASSUME NEW m, NEW t, Low(m), High(t), mem.bitmap = Used(m, t),
         NEW b \in Block, AllocInode(b), b < FirstData
  PROVE  b = m + 1
<1>1. b \notin Used(m, t) /\ \A c \in 0 .. (b - 1) : c \in Used(m, t)
  BY DEF AllocInode, BitAlloc, DirBlock
<1>2. m \in Nat /\ b \in Nat /\ b > m
  BY <1>1, Sizing DEF Used, Low
<1>3. m + 1 \notin Used(m, t) \/ m + 1 >= FirstData
  BY <1>2, Sizing DEF Used
<1> QED
  BY <1>1, <1>2, <1>3, Sizing

LEMMA DataIsNext ==
  ASSUME NEW m, NEW t, Low(m), High(t), mem.bitmap = Used(m, t),
         NEW b \in Block, AllocData(b)
  PROVE  b = t + 1
<1>1. /\ b >= FirstData /\ b \notin Used(m, t)
      /\ \A c \in FirstData .. (b - 1) : c \in Used(m, t)
  BY DEF AllocData, BitAlloc
<1>2. t \in Int /\ t >= FirstData - 1 /\ b \in Nat /\ b > t
  BY <1>1, Sizing DEF Used, High
<1>3. t + 1 \notin Used(m, t)
  BY <1>2, Sizing DEF Used, Low
<1> QED
  BY <1>1, <1>2, <1>3, Sizing

\* Files are not disturbed by what is written elsewhere.
LEMMA IntactKept ==
  ASSUME NEW e, NEW B, NEW C, B \subseteq C, \A b \in B : sector'[b] = sector[b],
         Intact(e, B)
  PROVE  Intact(e, C)'
<1>1. PICK s \in Block : Complete(e, s, B)
  BY DEF Intact
<1>2. \A b \in B, j \in 0 .. (NR_INODE_ENTRY - 1) : Listed(b, j)' = Listed(b, j)
  BY DEF Listed
<1>3. Complete(e, s, C)'
  BY <1>1, <1>2 DEF Complete
<1> QED
  BY <1>1, <1>3 DEF Intact

LEMMA InitInv == Init => Inv
<1> SUFFICES ASSUME Init PROVE Inv
  OBVIOUS
<1>1. TypeOK
  BY DiskAssumption, Sizing DEF Init, TypeOK, DirBlock
<1>2. mem = Ended /\ mem.at = "ended" /\ direct = <<>> /\ bitmap = {0}
  BY DEF Init, Ended, DirBlock
<1>3. OnDisk
  <2>1. 0 \in Block /\ Low(0) /\ High(FirstData - 1) /\ {0} = Used(0, FirstData - 1)
    BY Sizing DEF Low, High, Used
  <2> QED
    BY <1>2, <2>1 DEF OnDisk
<1> QED
  BY <1>1, <1>2, <1>3 DEF Inv, Between, Copying

\* The parts of the invariant, and of the state in it, under one name.
LEMMA Parts ==
  ASSUME Inv
  PROVE  /\ TypeOK /\ (mem = Ended \/ mem \in Run) /\ Ended.at = "ended"
         /\ bitmap \in SUBSET Block /\ direct \in Seq(Entry) /\ Len(direct) <= NR_DIR_ENTRY
         /\ DOMAIN sector = Block /\ files \in 0 .. MaxFiles /\ spilled \in BOOLEAN
         /\ mem # Ended => Len(mem.direct) <= NR_DIR_ENTRY
                           /\ Len(mem.inode) <= NR_INODE_ENTRY
  BY DEF Inv, TypeOK, Ended

\* What the disk holds in files is not disturbed if its blocks are not.
LEMMA DiskKept ==
  ASSUME Inv, ~spilled, bitmap' = bitmap, direct' = direct,
         \A b \in bitmap : sector'[b] = sector[b]
  PROVE  OnDisk'
<1>1. OnDisk
  BY DEF Inv
<1>2. ASSUME NEW d \in DOMAIN direct PROVE Intact(direct[d], bitmap)'
  <2>1. Intact(direct[d], bitmap)
    BY <1>1 DEF OnDisk
  <2>2. PICK e, B : e = direct[d] /\ B = bitmap
    OBVIOUS
  <2>3. Intact(e, B)'
    BY <2>1, <2>2, IntactKept
  <2> QED
    BY <2>2, <2>3 DEF Intact, Complete, Listed
<1> QED
  BY <1>1, <1>2 DEF OnDisk

LEMMA StartInv ==
  ASSUME Inv, Start
  PROVE  Inv'
<1>1. /\ mem' = [at |-> "next", bitmap |-> bitmap, direct |-> direct,
                 inode |-> <<>>, inode_num |-> 0, n |-> 0]
      /\ UNCHANGED <<bitmap, direct, sector, files, spilled>>
  BY DEF Start
<1>2. mem' \in Run /\ mem' # Ended /\ mem'.at = "next" /\ mem'.bitmap = bitmap
      /\ mem'.direct = direct /\ mem'.inode = <<>>
  BY <1>1, Parts DEF Run, Ended
<1>3. TypeOK'
  BY <1>1, <1>2, Parts, Sizing DEF TypeOK, Run
<1>4. ASSUME ~spilled PROVE OnDisk' /\ Between'
  <2>1. OnDisk'
    BY <1>1, <1>4, DiskKept
  <2> QED
    BY <1>1, <1>2, <2>1 DEF OnDisk, Between
<1> QED
  BY <1>1, <1>2, <1>3, <1>4 DEF Inv, Copying

\* The end of a run, whether the directory was written or not.
LEMMA EndInv ==
  ASSUME Inv, WriteDirect \/ Abort
  PROVE  Inv'
<1>1. /\ mem' = Ended /\ mem'.at = "ended" /\ mem \in Run
      /\ UNCHANGED <<bitmap, sector, files, spilled>>
      /\ direct' = direct \/ (direct' = mem.direct /\ mem.at = "direct")
  BY Parts DEF WriteDirect, Abort
<1>2. TypeOK'
  BY <1>1, Parts DEF TypeOK, Run
<1>3. ASSUME ~spilled PROVE OnDisk'
  <2>1. CASE direct' = direct
    BY <1>1, <1>3, <2>1, DiskKept
  <2>2. CASE direct' = mem.direct /\ mem.at = "direct"
    <3>1. OnDisk /\ Between /\ bitmap = mem.bitmap
      BY <1>3, <2>2 DEF Inv, Between
    <3>2. ASSUME NEW d \in DOMAIN direct' PROVE Intact(direct[d], bitmap)'
      <4>1. PICK e, B : e = mem.direct[d] /\ B = bitmap
        OBVIOUS
      <4>2. Intact(e, B)
        BY <2>2, <3>1, <3>2, <4>1 DEF Between
      <4>3. Intact(e, B)'
        BY <1>1, <4>2, IntactKept
      <4>4. direct'[d] = e /\ bitmap' = B
        BY <1>1, <2>2, <4>1
      <4> QED
        BY <4>3, <4>4 DEF Intact, Complete, Listed
    <3> QED
      BY <1>1, <3>1, <3>2 DEF OnDisk
  <2> QED
    BY <1>1, <2>1, <2>2
<1> QED
  BY <1>1, <1>2, <1>3 DEF Inv, Between, Copying

LEMMA NoMoreFilesInv ==
  ASSUME Inv, NoMoreFiles
  PROVE  Inv'
<1>1. /\ mem \in Run /\ mem.at = "next" /\ mem' = [mem EXCEPT !.at = "bitmap"]
      /\ UNCHANGED <<bitmap, direct, sector, files, spilled>>
  BY Parts DEF NoMoreFiles
<1>2. /\ mem' \in Run /\ mem' # Ended /\ mem'.at = "bitmap" /\ mem'.bitmap = mem.bitmap
      /\ mem'.direct = mem.direct /\ mem'.inode = mem.inode
  BY <1>1 DEF Run, Ended
<1>3. TypeOK'
  BY <1>1, <1>2, Parts DEF TypeOK, Run
<1>4. ASSUME ~spilled PROVE OnDisk' /\ Between'
  <2>1. OnDisk' /\ Between
    BY <1>1, <1>4, DiskKept DEF Inv
  <2>2. ASSUME NEW d \in DOMAIN mem.direct PROVE Intact(mem.direct[d], mem.bitmap)'
    <3>1. PICK e, B : e = mem.direct[d] /\ B = mem.bitmap
      OBVIOUS
    <3>2. Intact(e, B)
      BY <1>1, <2>1, <2>2, <3>1 DEF Between
    <3>3. Intact(e, B)'
      BY <1>1, <3>2, IntactKept
    <3>4. mem'.direct[d] = e /\ mem'.bitmap = B
      BY <1>2, <3>1
    <3> QED
      BY <3>3, <3>4 DEF Intact, Complete, Listed
  <2> QED
    BY <1>1, <1>2, <2>1, <2>2 DEF Between
<1> QED
  BY <1>1, <1>2, <1>3, <1>4 DEF Inv, Copying

LEMMA WriteBitmapInv ==
  ASSUME Inv, WriteBitmap
  PROVE  Inv'
<1>1. /\ mem \in Run /\ mem.at = "bitmap" /\ mem' = [mem EXCEPT !.at = "direct"]
      /\ bitmap' = mem.bitmap /\ UNCHANGED <<direct, sector, files, spilled>>
  BY Parts DEF WriteBitmap
<1>2. /\ mem' \in Run /\ mem' # Ended /\ mem'.at = "direct" /\ mem'.bitmap = mem.bitmap
      /\ mem'.direct = mem.direct /\ mem'.inode = mem.inode
  BY <1>1 DEF Run, Ended
<1>3. TypeOK'
  BY <1>1, <1>2, Parts DEF TypeOK, Run
<1>4. ASSUME ~spilled PROVE OnDisk' /\ Between'
  <2>1. OnDisk /\ Between /\ bitmap \subseteq mem.bitmap
    BY <1>1, <1>4 DEF Inv, Between
  <2>2. ASSUME NEW d \in DOMAIN mem.direct PROVE Intact(mem.direct[d], mem.bitmap)'
    <3>1. PICK e, B : e = mem.direct[d] /\ B = mem.bitmap
      OBVIOUS
    <3>2. Intact(e, B)
      BY <1>1, <2>1, <2>2, <3>1 DEF Between
    <3>3. Intact(e, B)'
      BY <1>1, <3>2, IntactKept
    <3>4. mem'.direct[d] = e /\ mem'.bitmap = B
      BY <1>2, <3>1
    <3> QED
      BY <3>3, <3>4 DEF Intact, Complete, Listed
  <2>3. ASSUME NEW d \in DOMAIN direct PROVE Intact(direct[d], bitmap)'
    <3>1. PICK e, B, C : e = direct[d] /\ B = bitmap /\ C = mem.bitmap
      OBVIOUS
    <3>2. Intact(e, B) /\ B \subseteq C
      BY <2>1, <2>3, <3>1 DEF OnDisk
    <3>3. Intact(e, C)'
      BY <1>1, <3>2, IntactKept
    <3>4. direct'[d] = e /\ bitmap' = C
      BY <1>1, <3>1
    <3> QED
      BY <3>3, <3>4 DEF Intact, Complete, Listed
  <2>4. \E m, t \in Block \cup {FirstData - 1} : Low(m) /\ High(t) /\ mem.bitmap = Used(m, t)
    BY <1>1, <2>1 DEF Between
  <2> QED
    BY <1>1, <1>2, <2>2, <2>3, <2>4 DEF Between, OnDisk
<1> QED
  BY <1>1, <1>2, <1>3, <1>4 DEF Inv, Copying

LEMMA NextFileInv ==
  ASSUME Inv, NEW size \in Sizes, NextFile(size)
  PROVE  Inv'
<1>1. /\ mem \in Run /\ mem.at = "next" /\ files < MaxFiles
      /\ Len(mem.direct) < NR_DIR_ENTRY
      /\ files' = files + 1 /\ UNCHANGED <<bitmap, direct, sector>>
  BY Parts DEF NextFile
<1>2. PICK b \in Block :
        /\ AllocInode(b)
        /\ mem' = [mem EXCEPT !.at = "copy", !.bitmap = @ \cup {b},
                     !.direct = Append(@, [file |-> files + 1, size |-> size,
                                           inode_offset |-> b]),
                     !.inode = <<>>, !.inode_num = 0, !.n = 0]
        /\ spilled' = (spilled \/ b >= FirstData)
  BY DEF NextFile
<1>3. PICK e : e = [file |-> files + 1, size |-> size, inode_offset |-> b]
  OBVIOUS
<1>4. e \in Entry /\ e.file = files + 1 /\ e.size = size /\ e.inode_offset = b /\ size \in Nat
  BY <1>1, <1>3, Parts, DiskAssumption DEF Entry
<1>5. /\ mem' \in Run /\ mem' # Ended /\ mem'.at = "copy" /\ mem'.bitmap = mem.bitmap \cup {b}
      /\ mem'.direct = Append(mem.direct, e)
      /\ mem'.inode = <<>> /\ mem'.inode_num = 0 /\ mem'.n = 0
  <2>1. /\ mem.direct \in Seq(Entry) /\ Append(mem.direct, e) \in Seq(Entry)
        /\ mem.bitmap \cup {b} \in SUBSET Block /\ <<>> \in Seq(Block)
    BY <1>1, <1>4 DEF Run
  <2> QED
    BY <1>1, <1>2, <1>3, <2>1 DEF Run, Ended
<1>6. /\ Len(mem'.direct) = Len(mem.direct) + 1 /\ Len(mem.direct) \in Nat
      /\ mem'.direct[Len(mem'.direct)] = e
      /\ \A d \in DOMAIN mem.direct : mem'.direct[d] = mem.direct[d]
      /\ DOMAIN mem.direct = 1 .. Len(mem.direct)
  BY <1>1, <1>4, <1>5 DEF Run
<1>7. TypeOK'
  <2>1. spilled' \in BOOLEAN
    BY <1>2
  <2>2. files' \in 0 .. MaxFiles
    BY <1>1, Parts, DiskAssumption
  <2> QED
    <3>1. /\ bitmap' \subseteq Block /\ direct' \in Seq(Entry)
          /\ Len(direct') <= NR_DIR_ENTRY /\ DOMAIN sector' = Block
      BY <1>1, Parts
    <3>2. Len(mem'.direct) <= NR_DIR_ENTRY
      BY <1>1, <1>6, DiskAssumption
    <3>3. Len(mem'.inode) <= NR_INODE_ENTRY
      BY <1>5, Sizing
    <3> QED
      BY <1>5, <2>1, <2>2, <3>1, <3>2, <3>3 DEF TypeOK, Run
<1>8. ASSUME ~spilled' PROVE OnDisk' /\ Copying'
  <2>0. ~spilled /\ ~(b >= FirstData)
    BY <1>2, <1>8, Zenon
  <2>1. ~spilled /\ b < FirstData /\ Between
    BY <2>0, Sizing DEF Inv
  <2>2. OnDisk'
    BY <1>1, <2>1, DiskKept
  <2>3. PICK m, t : Low(m) /\ High(t) /\ mem.bitmap = Used(m, t)
    BY <1>1, <2>1 DEF Between
  <2>4. b = m + 1 /\ m \in Nat
    BY <1>2, <2>1, <2>3, InodeIsNext DEF Low
  <2>5. PICK s : s = t + 1
    OBVIOUS
  <2>6. s \in FirstData .. NBlocks /\ s - 1 = t /\ s + 0 - 1 = t /\ t \in Int
    BY <2>3, <2>5, Sizing DEF High
  <2>7. LastEntry' = e /\ InodeSector' = b
    BY <1>4, <1>5, <1>6, Sizing DEF LastEntry, InodeSector
  <2>8. /\ b > 0 /\ Low(b) /\ b - 1 = m /\ mem.bitmap \cup {b} = Used(b, t)
        /\ bitmap \subseteq Used(m, t)
    <3>1. Low(b) /\ b > 0 /\ b - 1 = m
      BY <2>1, <2>4, Sizing DEF Low
    <3>2. bitmap \subseteq mem.bitmap
      BY <1>1, <2>1 DEF Between
    <3> QED
      BY <2>3, <2>4, <3>1, <3>2 DEF Used
  <2>9. ASSUME NEW d \in DOMAIN mem.direct PROVE Intact(mem.direct[d], Used(b - 1, s - 1))'
    <3>1. PICK f, B : f = mem.direct[d] /\ B = mem.bitmap
      OBVIOUS
    <3>2. Intact(f, B)
      BY <1>1, <2>1, <2>9, <3>1 DEF Between
    <3>3. Intact(f, B)'
      BY <1>1, <3>2, IntactKept
    <3>4. mem'.direct[d] = f /\ B = Used(b - 1, s - 1)
      BY <1>6, <2>3, <2>6, <2>8, <2>9, <3>1
    <3> QED
      BY <3>3, <3>4
  <2>10. Partial(s)'
    <3>1. /\ (LastEntry').inode_offset = b /\ InodeSector' = b /\ mem'.inode_num = 0
          /\ mem'.n = 0 /\ Len(mem'.inode) = 0 /\ (LastEntry').size = size
      BY <1>4, <1>5, <2>7
    <3>2. 0 = 0 * NR_INODE_ENTRY + 0 /\ 0 <= NR_INODE_ENTRY /\ 0 <= size
      BY <1>4, Sizing
    <3>3. mem'.bitmap = Used(b, s + 0 - 1) /\ bitmap' \subseteq Used(b - 1, s - 1)
          /\ High(s + 0 - 1)
      BY <1>1, <1>5, <2>3, <2>6, <2>8
    <3>4. \A d \in 1 .. (Len(mem'.direct) - 1) :
            Intact(mem.direct[d], Used(b - 1, s - 1))'
      BY <1>6, <2>9
    <3>5. b > 0 /\ Low(b)
      BY <2>8
    <3> QED
      BY <3>1, <3>2, <3>3, <3>4, <3>5 DEF Partial
  <2> QED
    BY <1>6, <2>2, <2>6, <2>10 DEF Copying
<1> QED
  BY <1>5, <1>7, <1>8 DEF Inv, Between

\* The file being copied: what Partial says, in constants.
Copies(s, f, k, n) ==
  /\ Partial(s) /\ s \in FirstData .. NBlocks
  /\ f = LastEntry.inode_offset /\ k = mem.inode_num /\ n = mem.n
  /\ InodeSector = f + k /\ mem.bitmap = Used(f + k, s + n - 1)
  /\ Low(f + k) /\ High(s + n - 1) /\ bitmap \subseteq Used(f - 1, s - 1)

LEMMA EntryTypes ==
  ASSUME NEW e \in Entry
  PROVE  e.inode_offset \in Nat /\ e.size \in Nat \ {0} /\ e.inode_offset \in Block
<1>1. e.inode_offset \in Block /\ e.size \in Sizes
  BY DEF Entry
<1>2. Sizes \subseteq Nat \ {0}
  BY DiskAssumption
<1>3. e.inode_offset \in Nat
  BY <1>1, Sizing
<1> QED
  BY <1>1, <1>2, <1>3

LEMMA CopyState ==
  ASSUME Inv, ~spilled, mem.at = "copy"
  PROVE  \E s, f, k, n \in Nat : Copies(s, f, k, n)
<1>1. PICK s \in FirstData .. NBlocks : Partial(s) /\ Len(mem.direct) > 0
  BY DEF Inv, Copying
<1>2. mem \in Run /\ mem # Ended
  BY Parts
<1>3. LastEntry.inode_offset \in Nat
  <2>1. Len(mem.direct) \in DOMAIN mem.direct /\ mem.direct \in Seq(Entry)
    BY <1>1, <1>2 DEF Run
  <2>2. LastEntry \in Entry
    BY <2>1 DEF LastEntry
  <2> QED
    BY <2>2, EntryTypes
<1>4. mem.inode_num \in Nat /\ mem.n \in Nat /\ s \in Nat
  BY <1>2, Sizing DEF Run
<1>5. Copies(s, LastEntry.inode_offset, mem.inode_num, mem.n)
  BY <1>1 DEF Partial, Copies, InodeSector
<1> QED
  BY <1>3, <1>4, <1>5

LEMMA CopyNumbers ==
  ASSUME Inv, ~spilled, mem.at = "copy", NEW s \in Nat, NEW f \in Nat, NEW k \in Nat,
         NEW n \in Nat, Copies(s, f, k, n)
  PROVE  /\ f > 0 /\ f + k < FirstData /\ FirstData <= s /\ s + n <= NBlocks
         /\ LastEntry \in Entry /\ LastEntry.size \in Nat /\ n <= LastEntry.size
         /\ k * NR_INODE_ENTRY \in Nat /\ n = k * NR_INODE_ENTRY + Len(mem.inode)
         /\ Len(mem.inode) \in 0 .. NR_INODE_ENTRY /\ mem.inode \in Seq(Block)
         /\ Len(mem.direct) \in Nat \ {0}
<1>1. Len(mem.direct) > 0 /\ mem \in Run
  BY Parts DEF Inv, Copying
<1>2. LastEntry \in Entry /\ LastEntry.size \in Nat /\ Len(mem.direct) \in Nat \ {0}
  <2>1. Len(mem.direct) \in DOMAIN mem.direct /\ mem.direct \in Seq(Entry)
    BY <1>1 DEF Run
  <2>2. LastEntry \in Entry
    BY <2>1 DEF LastEntry
  <2> QED
    BY <1>1, <2>1, <2>2, EntryTypes
<1>3. mem.inode \in Seq(Block) /\ Len(mem.inode) \in 0 .. NR_INODE_ENTRY
  BY <1>1, Sizing DEF Run, Copies, Partial
<1>4. /\ f > 0 /\ n <= LastEntry.size /\ k * NR_INODE_ENTRY \in Nat
      /\ n = k * NR_INODE_ENTRY + Len(mem.inode)
  <2>1. k * NR_INODE_ENTRY \in Nat
    BY Sizing
  <2> QED
    BY <2>1 DEF Copies, Partial
<1>5. f + k < FirstData /\ s + n <= NBlocks /\ FirstData <= s
  <2>1. Low(f + k) /\ High(s + n - 1) /\ s \in FirstData .. NBlocks
    BY DEF Copies
  <2> QED
    BY <2>1, Sizing DEF Low, High
<1> QED
  BY <1>1, <1>2, <1>3, <1>4, <1>5

\* The other files, when only blocks of this one are written.
LEMMA OthersKept ==
  ASSUME Inv, ~spilled, mem.at = "copy", NEW s, Partial(s), NEW f,
         f = LastEntry.inode_offset,
         UNCHANGED <<bitmap, direct>>, mem'.direct = mem.direct,
         \A x \in Used(f - 1, s - 1) : sector'[x] = sector[x]
  PROVE  /\ OnDisk'
         /\ \A d \in 1 .. (Len(mem.direct) - 1) :
              Intact(mem.direct[d], Used(f - 1, s - 1))'
<1>1. bitmap \subseteq Used(f - 1, s - 1)
  BY DEF Partial
<1>2. OnDisk'
  BY <1>1, DiskKept
<1>3. ASSUME NEW d \in 1 .. (Len(mem.direct) - 1)
      PROVE  Intact(mem.direct[d], Used(f - 1, s - 1))'
  <2>1. PICK e, B : e = mem.direct[d] /\ B = Used(f - 1, s - 1)
    OBVIOUS
  <2>2. Intact(e, B)
    BY <2>1 DEF Partial
  <2>3. Intact(e, B)'
    BY <2>1, <2>2, IntactKept
  <2>4. mem'.direct[d] = e
    BY <2>1
  <2> QED
    BY <2>1, <2>3, <2>4
<1> QED
  BY <1>2, <1>3

LEMMA CopyBlockInv ==
  ASSUME Inv, CopyBlock
  PROVE  Inv'
<1>1. /\ mem \in Run /\ mem.at = "copy" /\ mem.n < LastEntry.size
      /\ Len(mem.inode) < NR_INODE_ENTRY
      /\ UNCHANGED <<bitmap, direct, files, spilled>>
  BY Parts DEF CopyBlock, InodeHasRoom
<1>2. PICK b \in Block :
        /\ AllocData(b)
        /\ sector' = [sector EXCEPT ![b] = <<"data", LastEntry.file, mem.n>>]
        /\ mem' = [mem EXCEPT !.bitmap = @ \cup {b}, !.inode = Append(@, b), !.n = @ + 1]
  BY DEF CopyBlock
<1>3. /\ mem' \in Run /\ mem' # Ended /\ mem'.at = "copy" /\ mem'.bitmap = mem.bitmap \cup {b}
      /\ mem'.direct = mem.direct /\ mem'.inode = Append(mem.inode, b)
      /\ mem'.inode_num = mem.inode_num /\ mem'.n = mem.n + 1
  <2>1. Append(mem.inode, b) \in Seq(Block) /\ mem.n + 1 \in Nat
        /\ mem.bitmap \cup {b} \in SUBSET Block
    BY <1>1 DEF Run
  <2> QED
    BY <1>1, <1>2, <2>1 DEF Run, Ended
<1>4. /\ Len(mem'.inode) = Len(mem.inode) + 1 /\ Len(mem.inode) \in Nat
      /\ mem'.inode[Len(mem.inode) + 1] = b
      /\ \A j \in 1 .. Len(mem.inode) : mem'.inode[j] = mem.inode[j]
  BY <1>1, <1>3 DEF Run
<1>5. TypeOK'
  <2>1. Len(mem'.inode) <= NR_INODE_ENTRY
    BY <1>1, <1>4, Sizing
  <2>2. DOMAIN sector' = Block
    BY <1>2, Parts
  <2> QED
    BY <1>1, <1>3, <2>1, <2>2, Parts DEF TypeOK, Run
<1>6. LastEntry' = LastEntry /\ InodeSector' = InodeSector
  BY <1>3 DEF LastEntry, InodeSector
<1>7. ASSUME ~spilled PROVE OnDisk' /\ Copying'
  <2>1. PICK s, f, k, n \in Nat : Copies(s, f, k, n)
    BY <1>1, <1>7, CopyState
  <2>2. /\ Partial(s) /\ f = LastEntry.inode_offset /\ k = mem.inode_num /\ n = mem.n
        /\ InodeSector = f + k /\ mem.bitmap = Used(f + k, s + n - 1)
        /\ Low(f + k) /\ High(s + n - 1) /\ bitmap \subseteq Used(f - 1, s - 1)
    BY <2>1 DEF Copies
  <2>0. /\ f > 0 /\ f + k < FirstData /\ FirstData <= s /\ s + n <= NBlocks
    BY <1>1, <1>7, <2>1, CopyNumbers
  <2>a. /\ LastEntry.size \in Nat /\ n <= LastEntry.size
        /\ k * NR_INODE_ENTRY \in Nat /\ n = k * NR_INODE_ENTRY + Len(mem.inode)
    BY <1>1, <1>7, <2>1, CopyNumbers
  <2>3. b = s + n
    <3>1. b = (s + n - 1) + 1
      BY <1>2, <2>2, DataIsNext
    <3> QED
      BY <3>1, Sizing
  <2>4. \A x \in Block : x # b => sector'[x] = sector[x]
    BY <1>2, Parts
  <2>5. sector'[b] = <<"data", LastEntry.file, n>>
    BY <1>2, <2>2, Parts
  <2>6. \A x \in Used(f - 1, s - 1) : sector'[x] = sector[x]
    <3>1. Used(f - 1, s - 1) \subseteq Block /\ b \notin Used(f - 1, s - 1)
      BY <2>0, <2>3, Sizing DEF Used
    <3> QED
      BY <2>4, <3>1
  <2>7. /\ OnDisk'
        /\ \A d \in 1 .. (Len(mem.direct) - 1) : Intact(mem.direct[d], Used(f - 1, s - 1))'
    BY <1>1, <1>3, <1>7, <2>2, <2>6, OthersKept
  <2>8. /\ s + (n + 1) - 1 = b /\ High(b) /\ mem.bitmap \cup {b} = Used(f + k, b)
    <3>1. s + (n + 1) - 1 = b /\ High(b)
      BY <2>0, <2>3, Sizing DEF High
    <3>2. s + n - 1 = b - 1 /\ b >= FirstData /\ b \in Nat
      BY <2>0, <2>3, Sizing
    <3>3. (FirstData .. (b - 1)) \cup {b} = FirstData .. b
      BY <3>2, Sizing
    <3>4. Used(f + k, b - 1) \cup {b} = Used(f + k, b)
      BY <3>3 DEF Used
    <3> QED
      BY <2>2, <3>1, <3>2, <3>4
  <2>9. ASSUME NEW j \in 1 .. Len(mem'.inode)
        PROVE  mem'.inode[j] = s + k * NR_INODE_ENTRY + j - 1
    <3>1. CASE j = Len(mem.inode) + 1
      BY <1>4, <2>0, <2>3, <2>a, <3>1
    <3>2. CASE j # Len(mem.inode) + 1
      <4>1. j \in 1 .. Len(mem.inode)
        BY <1>4, <3>2
      <4> QED
        BY <1>4, <2>2, <4>1 DEF Partial
    <3> QED
      BY <3>1, <3>2
  <2>10. ASSUME NEW q \in 0 .. (k - 1), NEW j \in 0 .. (NR_INODE_ENTRY - 1)
         PROVE  Listed(f + q, j)' = s + q * NR_INODE_ENTRY + j
    <3>1. f + q \in Block /\ f + q # b
      BY <2>0, <2>3, Sizing
    <3>2. Listed(f + q, j)' = Listed(f + q, j)
      BY <2>4, <3>1 DEF Listed
    <3>3. Listed(f + q, j) = s + q * NR_INODE_ENTRY + j
      BY <2>2 DEF Partial
    <3> QED
      BY <3>2, <3>3
  <2>11. ASSUME NEW i \in 0 .. n PROVE sector'[s + i] = <<"data", LastEntry.file, i>>
    <3>1. CASE i = n
      BY <2>3, <2>5, <3>1
    <3>2. CASE i # n
      <4>1. i \in 0 .. (n - 1) /\ s + i \in Block /\ s + i # b
        BY <2>0, <2>3, <3>2, Sizing
      <4> QED
        BY <2>2, <2>4, <4>1 DEF Partial
    <3> QED
      BY <3>1, <3>2
  <2>12. Partial(s)'
    <3>1. /\ (LastEntry').inode_offset = f /\ InodeSector' = f + k /\ mem'.inode_num = k
          /\ mem'.n = n + 1 /\ (LastEntry').size = LastEntry.size
          /\ (LastEntry').file = LastEntry.file
      BY <1>3, <1>6, <2>2
    <3>2. /\ n + 1 = k * NR_INODE_ENTRY + Len(mem'.inode)
          /\ Len(mem'.inode) <= NR_INODE_ENTRY /\ n + 1 <= LastEntry.size
      <4>1. n < LastEntry.size
        BY <1>1, <2>2
      <4>2. PICK z \in Nat : z = k * NR_INODE_ENTRY
        BY <2>a
      <4>3. n + 1 = z + Len(mem'.inode)
        BY <1>4, <2>a, <4>2
      <4>4. Len(mem'.inode) <= NR_INODE_ENTRY
        BY <1>1, <1>4, Sizing
      <4>5. n + 1 <= LastEntry.size
        BY <2>a, <4>1
      <4> QED
        BY <4>2, <4>3, <4>4, <4>5
    <3>3. /\ f > 0 /\ Low(f + k) /\ High(s + (n + 1) - 1)
          /\ mem'.bitmap = Used(f + k, s + (n + 1) - 1)
          /\ bitmap' \subseteq Used(f - 1, s - 1)
      BY <1>1, <1>3, <2>0, <2>2, <2>8
    <3>4. \A i \in 0 .. ((n + 1) - 1) : sector'[s + i] = <<"data", LastEntry.file, i>>
      BY <2>11
    <3>5. \A d \in 1 .. (Len(mem'.direct) - 1) : Intact(mem.direct[d], Used(f - 1, s - 1))'
      BY <1>3, <2>7
    <3> QED
      BY <2>9, <2>10, <3>1, <3>2, <3>3, <3>4, <3>5 DEF Partial
  <2>13. Len(mem'.direct) > 0
    BY <1>1, <1>3, <1>7 DEF Inv, Copying
  <2>14. s \in FirstData .. NBlocks
    BY <2>0, Sizing
  <2> QED
    BY <2>7, <2>12, <2>13, <2>14 DEF Copying
<1> QED
  BY <1>1, <1>3, <1>5, <1>7 DEF Inv, Between

LEMMA NewInodeInv ==
  ASSUME Inv, NewInode
  PROVE  Inv'
<1>1. /\ mem \in Run /\ mem.at = "copy" /\ mem.n < LastEntry.size
      /\ Len(mem.inode) = NR_INODE_ENTRY /\ UNCHANGED <<bitmap, direct, files>>
  <2>1. mem \in Run /\ mem.at = "copy" /\ mem.n < LastEntry.size
        /\ ~(Len(mem.inode) < NR_INODE_ENTRY) /\ UNCHANGED <<bitmap, direct, files>>
    BY Parts DEF NewInode, InodeHasRoom
  <2>2. Len(mem.inode) \in Nat /\ Len(mem.inode) <= NR_INODE_ENTRY
    BY <2>1, Parts DEF Run, Ended
  <2> QED
    BY <2>1, <2>2, Sizing
<1>2. PICK b, c \in Block :
        /\ AllocData(b)
        /\ c # b /\ c \notin mem.bitmap
        /\ \A x \in DirBlock .. (c - 1) : x \in mem.bitmap \cup {b}
        /\ sector' = [sector EXCEPT ![InodeSector] = <<"inode", mem.inode>>,
                                    ![b] = <<"data", LastEntry.file, mem.n>>]
        /\ mem' = [mem EXCEPT !.bitmap = @ \cup {b, c}, !.inode = <<b>>,
                              !.inode_num = @ + 1, !.n = @ + 1]
        /\ spilled' = (spilled \/ c >= FirstData)
  BY DEF NewInode
<1>3. /\ mem' \in Run /\ mem' # Ended /\ mem'.at = "copy"
      /\ mem'.bitmap = mem.bitmap \cup {b, c} /\ mem'.direct = mem.direct
      /\ mem'.inode = <<b>> /\ mem'.inode_num = mem.inode_num + 1 /\ mem'.n = mem.n + 1
  <2>1. /\ <<b>> \in Seq(Block) /\ mem.n + 1 \in Nat /\ mem.inode_num + 1 \in Nat
        /\ mem.bitmap \cup {b, c} \in SUBSET Block
    BY <1>1 DEF Run
  <2> QED
    BY <1>1, <1>2, <2>1 DEF Run, Ended
<1>4. TypeOK'
  <2>1. Len(mem'.inode) <= NR_INODE_ENTRY
    BY <1>3, Sizing
  <2>2. DOMAIN sector' = Block
    BY <1>2, Parts
  <2>3. spilled' \in BOOLEAN
    BY <1>2
  <2> QED
    BY <1>1, <1>3, <2>1, <2>2, <2>3, Parts DEF TypeOK, Run
<1>5. LastEntry' = LastEntry
  BY <1>3 DEF LastEntry
<1>6. ASSUME ~spilled' PROVE OnDisk' /\ Copying'
  <2>1. ~spilled /\ ~(c >= FirstData)
    BY <1>2, <1>6, Zenon
  <2>2. PICK s, f, k, n \in Nat : Copies(s, f, k, n)
    BY <1>1, <2>1, CopyState
  <2>3. /\ Partial(s) /\ f = LastEntry.inode_offset /\ k = mem.inode_num /\ n = mem.n
        /\ InodeSector = f + k /\ mem.bitmap = Used(f + k, s + n - 1)
        /\ Low(f + k) /\ High(s + n - 1) /\ bitmap \subseteq Used(f - 1, s - 1)
    BY <2>2 DEF Copies
  <2>4. /\ f > 0 /\ f + k < FirstData /\ FirstData <= s /\ s + n <= NBlocks
    BY <1>1, <2>1, <2>2, CopyNumbers
  <2>5. /\ LastEntry.size \in Nat /\ n <= LastEntry.size /\ Len(mem.direct) \in Nat \ {0}
        /\ k * NR_INODE_ENTRY \in Nat /\ n = k * NR_INODE_ENTRY + Len(mem.inode)
    BY <1>1, <2>1, <2>2, CopyNumbers
  <2>6. b = s + n
    <3>1. b = (s + n - 1) + 1
      BY <1>2, <2>3, DataIsNext
    <3> QED
      BY <3>1, Sizing
  <2>7. c = f + k + 1 /\ f + k + 1 < FirstData
    <3>1. /\ c \in Nat /\ c < FirstData /\ c \notin Used(f + k, s + n - 1)
          /\ \A x \in 0 .. (c - 1) : x \in Used(f + k, s + n - 1) \cup {b}
      BY <1>2, <2>1, <2>3, Sizing DEF DirBlock
    <3>2. c > f + k
      BY <3>1, Sizing DEF Used
    <3>3. f + k + 1 \notin Used(f + k, s + n - 1) \cup {b} \/ f + k + 1 >= FirstData
      BY <2>4, <2>6, Sizing DEF Used
    <3> QED
      BY <3>1, <3>2, <3>3, Sizing
  <2>8. /\ \A x \in Block : x # b /\ x # f + k => sector'[x] = sector[x]
        /\ sector'[f + k] = <<"inode", mem.inode>>
        /\ sector'[b] = <<"data", LastEntry.file, n>>
        /\ f + k \in Block /\ f + k # b
    <3>1. f + k \in Block /\ f + k # b
      BY <2>4, <2>6, Sizing
    <3>2. sector' = [sector EXCEPT ![f + k] = <<"inode", mem.inode>>,
                                   ![b] = <<"data", LastEntry.file, n>>]
      BY <1>2, <2>3
    <3> QED
      BY <3>1, <3>2, Parts
  <2>9. \A x \in Used(f - 1, s - 1) : sector'[x] = sector[x]
    <3>1. /\ Used(f - 1, s - 1) \subseteq Block /\ b \notin Used(f - 1, s - 1)
          /\ f + k \notin Used(f - 1, s - 1)
      BY <2>4, <2>6, Sizing DEF Used
    <3> QED
      BY <2>8, <3>1
  <2>10. /\ OnDisk'
         /\ \A d \in 1 .. (Len(mem.direct) - 1) : Intact(mem.direct[d], Used(f - 1, s - 1))'
    BY <1>1, <1>3, <2>1, <2>3, <2>9, OthersKept
  <2>11. /\ s + (n + 1) - 1 = b /\ High(b) /\ Low(c)
         /\ mem.bitmap \cup {b, c} = Used(c, b)
    <3>1. s + (n + 1) - 1 = b /\ High(b) /\ Low(c)
      BY <2>4, <2>6, <2>7, Sizing DEF High, Low
    <3>2. s + n - 1 = b - 1 /\ b >= FirstData /\ b \in Nat
      BY <2>4, <2>6, Sizing
    <3>3. (FirstData .. (b - 1)) \cup {b} = FirstData .. b
      BY <3>2, Sizing
    <3>4. (0 .. (f + k)) \cup {c} = 0 .. c
      BY <2>7
    <3>5. Used(f + k, b - 1) \cup {b, c} = Used(c, b)
      BY <3>3, <3>4 DEF Used
    <3> QED
      BY <2>3, <3>1, <3>2, <3>5
  <2>12. n = (k + 1) * NR_INODE_ENTRY
    <3>1. n = k * NR_INODE_ENTRY + NR_INODE_ENTRY
      BY <1>1, <2>5
    <3>2. (k + 1) * NR_INODE_ENTRY = k * NR_INODE_ENTRY + NR_INODE_ENTRY
      BY Sizing
    <3> QED
      BY <3>1, <3>2
  <2>13. ASSUME NEW q \in 0 .. k, NEW j \in 0 .. (NR_INODE_ENTRY - 1)
         PROVE  Listed(f + q, j)' = s + q * NR_INODE_ENTRY + j
    <3>1. CASE q = k
      <4>1. j + 1 \in 1 .. Len(mem.inode) /\ j < Len(mem.inode)
        BY <1>1, Sizing
      <4>2. Listed(f + k, j)' = mem.inode[j + 1]
        BY <2>8, <4>1 DEF Listed
      <4>3. mem.inode[j + 1] = s + k * NR_INODE_ENTRY + (j + 1) - 1
        BY <2>3, <4>1 DEF Partial
      <4> QED
        BY <2>5, <3>1, <4>2, <4>3
    <3>2. CASE q # k
      <4>1. f + q \in Block /\ f + q # b /\ f + q # f + k /\ q \in 0 .. (k - 1)
        BY <2>4, <2>6, <3>2, Sizing
      <4>2. Listed(f + q, j)' = Listed(f + q, j)
        BY <2>8, <4>1 DEF Listed
      <4>3. Listed(f + q, j) = s + q * NR_INODE_ENTRY + j
        BY <2>3, <4>1 DEF Partial
      <4> QED
        BY <4>2, <4>3
    <3> QED
      BY <3>1, <3>2
  <2>14. ASSUME NEW i \in 0 .. n PROVE sector'[s + i] = <<"data", LastEntry.file, i>>
    <3>1. CASE i = n
      BY <2>6, <2>8, <3>1
    <3>2. CASE i # n
      <4>1. i \in 0 .. (n - 1) /\ s + i \in Block /\ s + i # b /\ s + i # f + k
        BY <2>4, <2>6, <3>2, Sizing
      <4> QED
        BY <2>3, <2>8, <4>1 DEF Partial
    <3> QED
      BY <3>1, <3>2
  <2>15. Partial(s)'
    <3>1. /\ (LastEntry').inode_offset = f /\ mem'.inode_num = k + 1 /\ mem'.n = n + 1
          /\ InodeSector' = c /\ (LastEntry').size = LastEntry.size
          /\ (LastEntry').file = LastEntry.file
      <4>1. f + (k + 1) = c
        BY <2>7
      <4>2. (LastEntry').inode_offset = f /\ mem'.inode_num = k + 1 /\ mem'.n = n + 1
        BY <1>3, <1>5, <2>3
      <4> QED
        BY <1>5, <4>1, <4>2 DEF InodeSector
    <3>2. /\ n + 1 = (k + 1) * NR_INODE_ENTRY + Len(mem'.inode)
          /\ Len(mem'.inode) = 1 /\ Len(mem'.inode) <= NR_INODE_ENTRY
          /\ n + 1 <= LastEntry.size
      <4>1. n < LastEntry.size
        BY <1>1, <2>3
      <4>2. Len(mem'.inode) = 1 /\ Len(mem'.inode) <= NR_INODE_ENTRY
        BY <1>3, Sizing
      <4>3. n + 1 <= LastEntry.size
        BY <2>5, <4>1
      <4> QED
        BY <2>12, <4>2, <4>3
    <3>3. /\ f > 0 /\ Low(c) /\ High(s + (n + 1) - 1)
          /\ mem'.bitmap = Used(c, s + (n + 1) - 1)
          /\ bitmap' \subseteq Used(f - 1, s - 1)
      BY <1>1, <1>3, <2>3, <2>4, <2>11
    <3>4. \A i \in 0 .. ((n + 1) - 1) : sector'[s + i] = <<"data", LastEntry.file, i>>
      BY <2>14
    <3>5. \A d \in 1 .. (Len(mem'.direct) - 1) : Intact(mem.direct[d], Used(f - 1, s - 1))'
      BY <1>3, <2>10
    <3>6. ASSUME NEW j \in 1 .. Len(mem'.inode)
          PROVE  mem'.inode[j] = s + (k + 1) * NR_INODE_ENTRY + j - 1
      <4>1. j = 1 /\ mem'.inode[1] = b
        BY <1>3, <3>2
      <4>2. s + n + 1 - 1 = b
        BY <2>6
      <4> QED
        BY <2>12, <4>1, <4>2
    <3>7. \A q \in 0 .. ((k + 1) - 1), j \in 0 .. (NR_INODE_ENTRY - 1) :
            Listed(f + q, j)' = s + q * NR_INODE_ENTRY + j
      <4>1. (k + 1) - 1 = k
        OBVIOUS
      <4> QED
        BY <2>13, <4>1
    <3> QED
      BY <3>1, <3>2, <3>3, <3>4, <3>5, <3>6, <3>7 DEF Partial
  <2>16. Len(mem'.direct) > 0 /\ s \in FirstData .. NBlocks
    <3>1. Len(mem.direct) > 0
      BY <2>5
    <3>2. s \in FirstData .. NBlocks
      BY <2>2 DEF Copies
    <3> QED
      BY <1>3, <3>1, <3>2
  <2> QED
    BY <2>10, <2>15, <2>16 DEF Copying
<1> QED
  BY <1>3, <1>4, <1>6 DEF Inv, Between

LEMMA LaterInode ==
  ASSUME NEW q \in Nat, NEW k \in Nat, NEW w \in Nat, q > k
  PROVE  q * w >= k * w + w
<1>1. PICK r \in Nat : q = k + 1 + r
  <2>1. q - k - 1 \in Nat /\ q = k + 1 + (q - k - 1)
    OBVIOUS
  <2> QED
    BY <2>1
<1>2. q * w = k * w + w + r * w /\ r * w \in Nat /\ k * w \in Nat
  BY <1>1
<1> QED
  BY <1>2

LEMMA EndFileInv ==
  ASSUME Inv, EndFile
  PROVE  Inv'
<1>1. /\ mem \in Run /\ mem.at = "copy" /\ mem.n = LastEntry.size
      /\ sector' = [sector EXCEPT ![InodeSector] = <<"inode", mem.inode>>]
      /\ mem' = [mem EXCEPT !.at = "next"] /\ UNCHANGED <<bitmap, direct, files, spilled>>
  BY Parts DEF EndFile
<1>2. /\ mem' \in Run /\ mem' # Ended /\ mem'.at = "next" /\ mem'.bitmap = mem.bitmap
      /\ mem'.direct = mem.direct /\ mem'.inode = mem.inode
  BY <1>1 DEF Run, Ended
<1>3. TypeOK'
  <2>1. DOMAIN sector' = Block
    BY <1>1, Parts
  <2> QED
    BY <1>1, <1>2, <2>1, Parts DEF TypeOK, Run
<1>4. ASSUME ~spilled PROVE OnDisk' /\ Between'
  <2>1. PICK s, f, k, n \in Nat : Copies(s, f, k, n)
    BY <1>1, <1>4, CopyState
  <2>2. /\ Partial(s) /\ f = LastEntry.inode_offset /\ k = mem.inode_num /\ n = mem.n
        /\ InodeSector = f + k /\ mem.bitmap = Used(f + k, s + n - 1)
        /\ Low(f + k) /\ High(s + n - 1) /\ bitmap \subseteq Used(f - 1, s - 1)
    BY <2>1 DEF Copies
  <2>3. /\ f > 0 /\ f + k < FirstData /\ FirstData <= s /\ s + n <= NBlocks
    BY <1>1, <1>4, <2>1, CopyNumbers
  <2>4. /\ LastEntry \in Entry /\ Len(mem.direct) \in Nat \ {0}
        /\ k * NR_INODE_ENTRY \in Nat /\ n = k * NR_INODE_ENTRY + Len(mem.inode)
        /\ Len(mem.inode) \in 0 .. NR_INODE_ENTRY
    BY <1>1, <1>4, <2>1, CopyNumbers
  <2>5. /\ \A x \in Block : x # f + k => sector'[x] = sector[x]
        /\ sector'[f + k] = <<"inode", mem.inode>> /\ f + k \in Block
    <3>1. f + k \in Block
      BY <2>3, Sizing
    <3>2. sector' = [sector EXCEPT ![f + k] = <<"inode", mem.inode>>]
      BY <1>1, <2>2
    <3> QED
      BY <3>1, <3>2, Parts
  <2>6. \A x \in Used(f - 1, s - 1) : sector'[x] = sector[x]
    <3>1. Used(f - 1, s - 1) \subseteq Block /\ f + k \notin Used(f - 1, s - 1)
      BY <2>3, Sizing DEF Used
    <3> QED
      BY <2>5, <3>1
  <2>7. /\ OnDisk'
        /\ \A d \in 1 .. (Len(mem.direct) - 1) : Intact(mem.direct[d], Used(f - 1, s - 1))'
    BY <1>1, <1>2, <1>4, <2>2, <2>6, OthersKept
  <2>8. Used(f - 1, s - 1) \subseteq Used(f + k, s + n - 1)
    BY <2>3, Sizing DEF Used
  <2>9. PICK e, B : e = LastEntry /\ B = Used(f + k, s + n - 1)
    OBVIOUS
  <2>10. e.inode_offset = f /\ e.size = n /\ n > 0
    <3>1. e \in Entry /\ e.inode_offset = f /\ e.size = n
      BY <1>1, <2>2, <2>4, <2>9
    <3>2. e.size \in Nat \ {0}
      BY <3>1, EntryTypes
    <3> QED
      BY <3>1, <3>2
  <2>11. ASSUME NEW q \in Nat, NEW j \in 0 .. (NR_INODE_ENTRY - 1),
                NEW i, i = q * NR_INODE_ENTRY + j, i < n
         PROVE  /\ f + q \in B /\ Listed(f + q, j)' = s + i
                /\ s + i \in B /\ sector'[s + i] = <<"data", e.file, i>>
    <3>1. i \in Nat /\ q * NR_INODE_ENTRY \in Nat
      BY <2>11, Sizing
    <3>2. q <= k
      <4>1. q > k => q * NR_INODE_ENTRY >= k * NR_INODE_ENTRY + NR_INODE_ENTRY
        BY LaterInode, Sizing
      <4>2. PICK y, z \in Nat : y = q * NR_INODE_ENTRY /\ z = k * NR_INODE_ENTRY
        BY <2>4, <3>1
      <4>3. i = y + j /\ n <= z + NR_INODE_ENTRY /\ i < n
        <5>1. i = y + j /\ i < n
          BY <2>11, <4>2
        <5>2. n = z + Len(mem.inode)
          BY <2>4, <4>2
        <5>3. Len(mem.inode) \in 0 .. NR_INODE_ENTRY
          BY <2>4
        <5> QED
          BY <5>1, <5>2, <5>3, Sizing
      <4>4. q > k => y >= z + NR_INODE_ENTRY
        BY <4>1, <4>2
      <4> QED
        BY <4>2, <4>3, <4>4, <3>1, Sizing
    <3>3. f + q \in B /\ s + i \in B
      BY <2>3, <2>9, <2>11, <3>1, <3>2, Sizing DEF Used
    <3>4. sector'[s + i] = <<"data", e.file, i>>
      <4>1. i \in 0 .. (n - 1) /\ s + i \in Block /\ s + i # f + k
        BY <2>3, <2>11, <3>1, Sizing
      <4> QED
        BY <2>2, <2>5, <2>9, <4>1 DEF Partial
    <3>5. Listed(f + q, j)' = s + i
      <4>1. CASE q = k
        <5>1. j < Len(mem.inode) /\ j + 1 \in 1 .. Len(mem.inode)
          <6>1. PICK z \in Nat : z = k * NR_INODE_ENTRY
            BY <2>4
          <6>2. i = z + j /\ n = z + Len(mem.inode)
            BY <2>4, <2>11, <4>1, <6>1
          <6>3. i < n
            BY <2>11
          <6>4. Len(mem.inode) \in 0 .. NR_INODE_ENTRY
            BY <2>4
          <6> QED
            BY <6>2, <6>3, <6>4, Sizing
        <5>2. Listed(f + k, j)' = mem.inode[j + 1]
          BY <2>5, <5>1 DEF Listed
        <5>3. mem.inode[j + 1] = s + k * NR_INODE_ENTRY + (j + 1) - 1
          BY <2>2, <5>1 DEF Partial
        <5> QED
          BY <2>4, <2>11, <4>1, <5>2, <5>3
      <4>2. CASE q # k
        <5>1. f + q \in Block /\ f + q # f + k /\ q \in 0 .. (k - 1)
          BY <2>3, <3>2, <4>2, Sizing
        <5>2. Listed(f + q, j)' = Listed(f + q, j)
          BY <2>5, <5>1 DEF Listed
        <5>3. Listed(f + q, j) = s + q * NR_INODE_ENTRY + j
          BY <2>2, <5>1 DEF Partial
        <5> QED
          BY <2>11, <3>1, <5>2, <5>3
      <4> QED
        BY <4>1, <4>2
    <3> QED
      BY <3>3, <3>4, <3>5
  <2>12. Intact(e, B)'
    <3>1. Complete(e, s, B)'
      BY <2>10, <2>11 DEF Complete
    <3>2. s \in Block
      BY <2>3, <2>10, Sizing
    <3> QED
      BY <3>1, <3>2 DEF Intact
  <2>13. ASSUME NEW d \in DOMAIN mem.direct PROVE Intact(mem.direct[d], mem.bitmap)'
    <3>1. PICK a : a = mem.direct[d]
      OBVIOUS
    <3>2. Intact(a, B)'
      <4>1. CASE d = Len(mem.direct)
        BY <2>9, <2>12, <3>1, <4>1 DEF LastEntry
      <4>2. CASE d # Len(mem.direct)
        <5>1. d \in 1 .. (Len(mem.direct) - 1) /\ mem'.direct[d] = a
          <6>1. mem.direct \in Seq(Entry)
            BY <1>1 DEF Run
          <6> QED
            BY <1>2, <2>4, <3>1, <4>2, <6>1
        <5>2. PICK C : C = Used(f - 1, s - 1)
          OBVIOUS
        <5>3. Intact(a, C)'
          BY <2>7, <5>1, <5>2
        <5>4. C \subseteq B
          BY <2>8, <2>9, <5>2
        <5> QED
          BY <5>3, <5>4 DEF Intact, Complete
      <4> QED
        BY <4>1, <4>2
    <3>3. mem'.direct[d] = a /\ mem'.bitmap = B
      BY <1>2, <2>2, <2>9, <3>1
    <3> QED
      BY <3>2, <3>3 DEF Intact, Complete, Listed
  <2>14. \E m, t \in Block \cup {FirstData - 1} : Low(m) /\ High(t) /\ mem.bitmap = Used(m, t)
    <3>1. f + k \in Block /\ s + n - 1 \in Block \cup {FirstData - 1}
      BY <2>3, Sizing
    <3> QED
      BY <2>2, <3>1
  <2>15. bitmap' \subseteq mem'.bitmap
    BY <1>1, <1>2, <2>2, <2>8
  <2> QED
    BY <1>2, <2>7, <2>13, <2>14, <2>15 DEF Between
<1> QED
  BY <1>1, <1>2, <1>3, <1>4 DEF Inv, Copying

LEMMA StutterInv ==
  ASSUME Inv, UNCHANGED vars
  PROVE  Inv'
<1>1. UNCHANGED <<bitmap, direct, sector, mem, files, spilled>>
  BY DEF vars
<1>2. TypeOK'
  BY <1>1, Parts DEF TypeOK
<1>4. ASSUME ~spilled PROVE OnDisk' /\ Between' /\ Copying'
  <2>1. OnDisk /\ Between /\ Copying
    BY <1>4 DEF Inv
  <2>2. OnDisk'
    BY <1>1, <1>4, DiskKept
  <2>3. Between'
    <3>1. ASSUME mem.at \in {"next", "bitmap", "direct"}, NEW d \in DOMAIN mem.direct
          PROVE  Intact(mem.direct[d], mem.bitmap)'
      <4>1. PICK e, B : e = mem.direct[d] /\ B = mem.bitmap
        OBVIOUS
      <4>2. Intact(e, B)
        BY <2>1, <3>1, <4>1 DEF Between
      <4>3. Intact(e, B)'
        BY <1>1, <4>2, IntactKept
      <4>4. mem'.direct[d] = e /\ mem'.bitmap = B
        BY <1>1, <4>1
      <4> QED
        BY <4>3, <4>4 DEF Intact, Complete, Listed
    <3> QED
      BY <1>1, <2>1, <3>1 DEF Between
  <2>4. Copying'
    <3>1. ASSUME mem.at = "copy", NEW s, Partial(s) PROVE Partial(s)'
      <4>1. PICK f : f = LastEntry.inode_offset
        OBVIOUS
      <4>2. \A d \in 1 .. (Len(mem.direct) - 1) : Intact(mem.direct[d], Used(f - 1, s - 1))'
        BY <1>1, <1>4, <3>1, <4>1, OthersKept
      <4>3. LastEntry' = LastEntry /\ InodeSector' = InodeSector
        BY <1>1 DEF LastEntry, InodeSector
      <4>4. (LastEntry').inode_offset = f
        BY <4>1, <4>3
      <4> QED
        BY <1>1, <3>1, <4>1, <4>2, <4>3, <4>4 DEF Partial, Listed
    <3> QED
      BY <1>1, <2>1, <3>1 DEF Copying
  <2> QED
    BY <2>2, <2>3, <2>4
<1> QED
  BY <1>1, <1>2, <1>4 DEF Inv

LEMMA InvHolds == Spec => []Inv
<1>1. Inv /\ [Next]_vars => Inv'
  <2> SUFFICES ASSUME Inv, [Next]_vars PROVE Inv'
    OBVIOUS
  <2>1. CASE Start
    BY <2>1, StartInv
  <2>2. CASE \E size \in Sizes : NextFile(size)
    BY <2>2, NextFileInv
  <2>3. CASE CopyBlock
    BY <2>3, CopyBlockInv
  <2>4. CASE NewInode
    BY <2>4, NewInodeInv
  <2>5. CASE EndFile
    BY <2>5, EndFileInv
  <2>6. CASE NoMoreFiles
    BY <2>6, NoMoreFilesInv
  <2>7. CASE WriteBitmap
    BY <2>7, WriteBitmapInv
  <2>8. CASE WriteDirect \/ Abort
    BY <2>8, EndInv
  <2>9. CASE UNCHANGED vars
    BY <2>9, StutterInv
  <2> QED
    BY <2>1, <2>2, <2>3, <2>4, <2>5, <2>6, <2>7, <2>8, <2>9 DEF Next, Rest
<1> QED
  BY <1>1, InitInv, PTL DEF Spec

\* Block n of a file has entry n % NR_INODE_ENTRY of one inode of the file.
LEMMA BlockParts ==
  ASSUME NEW w \in Nat \ {0}, NEW n \in Nat
  PROVE  /\ n \div w \in 0 .. n /\ n % w \in 0 .. (w - 1)
         /\ n = (n \div w) * w + (n % w)
<1>1. PICK q : q = n \div w
  OBVIOUS
<1>2. PICK r : r = n % w
  OBVIOUS
<1>3. q \in Int /\ r \in 0 .. (w - 1)
  BY <1>1, <1>2
<1>4. r = n - w * q
  BY <1>1, <1>2, Z3
<1>5. q >= 0
  <2>1. ASSUME NEW x \in Int, x <= -1 PROVE w * x <= -w
    BY <2>1
  <2> QED
    BY <1>3, <1>4, <2>1
<1>6. q <= n
  <2>1. w * q >= q
    BY <1>3, <1>5
  <2> QED
    BY <1>3, <1>4, <2>1
<1>7. n = q * w + r
  BY <1>3, <1>4
<1> QED
  BY <1>1, <1>2, <1>3, <1>5, <1>6, <1>7

LEMMA Parted ==
  ASSUME NEW w \in Nat \ {0}, NEW n \in Nat
  PROVE  \E q, r \in Nat :
           q = n \div w /\ r = n % w /\ r < w /\ n = q * w + r
<1>1. PICK q, r : q = n \div w /\ r = n % w
  OBVIOUS
<1>2. q \in 0 .. n /\ r \in 0 .. (w - 1) /\ n = q * w + r
  BY <1>1, BlockParts, Zenon
<1>3. q \in Nat /\ r \in Nat /\ r < w
  BY <1>2
<1> QED
  BY <1>1, <1>2, <1>3, Zenon

LEMMA FirstInode ==
  ASSUME NEW w \in Nat \ {0}, NEW n \in Nat, n < w
  PROVE  n \div w = 0
<1>1. PICK q : q = n \div w
  OBVIOUS
<1>2. q \in Nat /\ n % w \in Nat /\ n = q * w + (n % w)
  BY <1>1, BlockParts
<1>3. q > 0 => q * w >= 0 * w + w
  BY <1>2, LaterInode
<1>4. PICK y \in Nat : y = q * w
  BY <1>2
<1> QED
  BY <1>1, <1>2, <1>3, <1>4

LEMMA InvIntact == Inv => RecordedFilesIntact
<1> SUFFICES ASSUME Inv, ~spilled, NEW e \in Recorded, NEW n \in 0 .. (NBlocks - 1),
                    n < e.size
             PROVE  /\ Holds(Place(e, n), e, n)
                    /\ e.size <= NR_INODE_ENTRY => Holds(ReadMyfs(e, n), e, n)
  BY DEF RecordedFilesIntact
<1>1. PICK s \in Block : Complete(e, s, bitmap)
  <2>1. PICK d \in DOMAIN direct : e = direct[d]
    BY DEF Recorded
  <2>2. Intact(direct[d], bitmap)
    BY DEF Inv, OnDisk
  <2> QED
    BY <2>1, <2>2 DEF Intact
<1>2. e \in Entry
  BY Parts DEF Recorded
<1>3. e.size \in Nat /\ e.inode_offset \in Nat /\ n \in Nat
  BY <1>2, EntryTypes, Sizing
<1>4. PICK q, j : q = n \div NR_INODE_ENTRY /\ j = n % NR_INODE_ENTRY
  OBVIOUS
<1>5. q \in 0 .. n /\ j \in 0 .. (NR_INODE_ENTRY - 1) /\ n = q * NR_INODE_ENTRY + j
  BY <1>3, <1>4, BlockParts, Sizing
<1>6. q \in 0 .. e.size
  BY <1>3, <1>5
<1>7. /\ Listed(e.inode_offset + q, j) = s + n /\ s + n \in bitmap
      /\ sector[s + n] = <<"data", e.file, n>>
  BY <1>1, <1>5, <1>6 DEF Complete
<1>8. Holds(s + n, e, n)
  BY <1>7, Parts DEF Holds
<1>9. Place(e, n) = s + n
  BY <1>4, <1>7 DEF Place
<1>10. ASSUME e.size <= NR_INODE_ENTRY PROVE ReadMyfs(e, n) = s + n
  <2>1. n < NR_INODE_ENTRY
    BY <1>3, <1>10, Sizing
  <2>2. q = 0
    BY <1>3, <1>4, <2>1, FirstInode, Sizing
  <2> QED
    BY <1>4, <1>7, <2>2 DEF ReadMyfs
<1> QED
  BY <1>8, <1>9, <1>10

(***************************************************************************)
(* Whatever the sizes of the disk, the directory and the inodes, and       *)
(* whichever runs of copy2myfs come, end or are cut short: every file of   *)
(* the directory on the disk is complete, as long as no inode was spilled  *)
(* among the data, and read_myfs brings back the files of one inode.       *)
(***************************************************************************)
THEOREM FilesIntact == Spec => []RecordedFilesIntact
  BY InvHolds, InvIntact, PTL
-----------------------------------------------------------------------------
LEMMA LeastExists ==
  ASSUME NEW S \in SUBSET Nat, S # {}
  PROVE  \E x \in S : \A y \in S : x <= y
<1> DEFINE R == OpToRel(<, Nat)
<1>1. IsWellFoundedOn(R, Nat)
  BY NatLessThanWellFounded
<1>2. PICK x \in S : \A y \in S : ~(<<y, x>> \in R)
  <2> HIDE DEF R
  <2> QED
    BY <1>1, WFMin
<1>3. ASSUME NEW y \in S PROVE x <= y
  <2>1. x \in Nat /\ y \in Nat
    OBVIOUS
  <2>2. ~(y < x)
    BY <1>2, <2>1 DEF OpToRel
  <2> QED
    BY <2>1, <2>2
<1> QED
  BY <1>2, <1>3

\* One segment of directory entry d: of the kernel or of the game.
Put(d, memory, ph) == IF d = 1 THEN BootSegment(memory, ph) ELSE GameSegment(memory, ph)

\* f is memory after each of the first n segments.
Steps(f, d, layout, memory, n) ==
  f = [k \in 0 .. n |-> IF k = 0 THEN memory ELSE Put(d, f[k - 1], layout[k])]

\* The recursion of the two loaders has a solution.
LEMMA StepsExist ==
  ASSUME NEW d, NEW layout, NEW memory, NEW n \in Nat
  PROVE  \E f : Steps(f, d, layout, memory, n)
<1> DEFINE Bad == {k \in Nat : ~\E f : Steps(f, d, layout, memory, k)}
<1>1. SUFFICES ASSUME Bad # {} PROVE FALSE
  OBVIOUS
<1>2. PICK m \in Bad : \A k \in Bad : m <= k
  <2>1. Bad \subseteq Nat
    OBVIOUS
  <2> HIDE DEF Bad
  <2> QED
    BY <1>1, <2>1, LeastExists
<1>3. m # 0
  <2>1. Steps([k \in 0 .. 0 |-> memory], d, layout, memory, 0)
    BY DEF Steps
  <2> QED
    BY <2>1
<1>4. m - 1 \in Nat /\ m - 1 \notin Bad
  BY <1>2, <1>3
<1>5. PICK f : Steps(f, d, layout, memory, m - 1)
  BY <1>4
<1>6. PICK v : v = Put(d, f[m - 1], layout[m])
  OBVIOUS
<1>7. PICK g : g = [k \in 0 .. m |-> IF k = m THEN v ELSE f[k]]
  OBVIOUS
<1>8. ASSUME NEW k \in 0 .. m
      PROVE  g[k] = IF k = 0 THEN memory ELSE Put(d, g[k - 1], layout[k])
  <2>1. CASE k = m
    <3>1. g[k] = v /\ k # 0 /\ g[k - 1] = f[m - 1]
      BY <1>3, <1>7, <2>1
    <3> QED
      BY <1>6, <2>1, <3>1
  <2>2. CASE k # m
    <3>1. k \in 0 .. (m - 1) /\ g[k] = f[k]
      BY <1>7, <2>2
    <3>2. f[k] = IF k = 0 THEN memory ELSE Put(d, f[k - 1], layout[k])
      BY <1>5, <3>1 DEF Steps
    <3>3. k # 0 => g[k - 1] = f[k - 1]
      BY <1>7, <3>1
    <3> QED
      BY <3>1, <3>2, <3>3
  <2> QED
    BY <2>1, <2>2
<1>9. Steps(g, d, layout, memory, m)
  <2>1. g = [k \in 0 .. m |-> g[k]]
    BY <1>7
  <2> QED
    BY <1>8, <2>1 DEF Steps
<1> QED
  BY <1>9

LEMMA LoadedKernel ==
  ASSUME NEW layout, NEW memory, Len(layout) \in Nat
  PROVE  \E f : /\ Steps(f, 1, layout, memory, Len(layout))
                /\ LoadKernel(layout, memory) = f[Len(layout)]
<1> DEFINE Is(f) == f = [k \in 0 .. Len(layout) |->
                          IF k = 0 THEN memory ELSE BootSegment(f[k - 1], layout[k])]
<1>1. \A f : Steps(f, 1, layout, memory, Len(layout)) <=> Is(f)
  BY DEF Steps, Put
<1>2. \E f : Is(f)
  BY <1>1, StepsExist
<1>3. PICK f : f = CHOOSE g : Is(g)
  OBVIOUS
<1>4. Is(f)
  <2> HIDE DEF Is
  <2> QED
    BY <1>2, <1>3, Zenon
<1>5. LoadKernel(layout, memory) = f[Len(layout)]
  BY <1>3, Zenon DEF LoadKernel
<1> QED
  BY <1>1, <1>4, <1>5

LEMMA LoadedGame ==
  ASSUME NEW layout, NEW memory, Len(layout) \in Nat
  PROVE  \E f : /\ Steps(f, 2, layout, memory, Len(layout))
                /\ LoadGame(layout, memory) = f[Len(layout)]
<1> DEFINE Is(f) == f = [k \in 0 .. Len(layout) |->
                          IF k = 0 THEN memory ELSE GameSegment(f[k - 1], layout[k])]
<1>1. \A f : Steps(f, 2, layout, memory, Len(layout)) <=> Is(f)
  BY DEF Steps, Put
<1>2. \E f : Is(f)
  BY <1>1, StepsExist
<1>3. PICK f : f = CHOOSE g : Is(g)
  OBVIOUS
<1>4. Is(f)
  <2> HIDE DEF Is
  <2> QED
    BY <1>2, <1>3, Zenon
<1>5. LoadGame(layout, memory) = f[Len(layout)]
  BY <1>3, Zenon DEF LoadGame
<1> QED
  BY <1>1, <1>4, <1>5
-----------------------------------------------------------------------------
\* Sectors and pages: what it takes of division.
LEMMA NotLater ==
  ASSUME NEW w \in Nat \ {0}, NEW A \in Nat, NEW B \in Nat, A * w < B * w + w
  PROVE  A <= B /\ A * w <= B * w
<1>1. PICK x, y \in Nat : x = A * w /\ y = B * w
  OBVIOUS
<1>2. A > B => x >= y + w
  BY <1>1, LaterInode
<1>3. B > A => y >= x + w
  BY <1>1, LaterInode
<1>4. A = B => x = y
  BY <1>1
<1>5. x < y + w
  BY <1>1
<1>6. A <= B
  BY <1>2, <1>5
<1>7. x <= y
  BY <1>3, <1>4, <1>6
<1> QED
  BY <1>1, <1>6, <1>7

LEMMA Divided ==
  ASSUME NEW w \in Nat \ {0}, NEW q \in Nat, NEW r \in 0 .. (w - 1), NEW n \in Nat,
         n = q * w + r
  PROVE  n \div w = q /\ n % w = r
<1>1. PICK p, t \in Nat : p = n \div w /\ t = n % w /\ t < w /\ n = p * w + t
  BY Parted
<1>2. t < w /\ n = p * w + t
  BY <1>1
<1>3. PICK x, y \in Nat : x = q * w /\ y = p * w
  BY <1>2
<1>4. n = x + r /\ n = y + t
  BY <1>2, <1>3
<1>5. x < y + w /\ y < x + w
  BY <1>2, <1>4
<1>6. q <= p /\ p <= q
  BY <1>2, <1>3, <1>5, NotLater
<1>7. p = q
  BY <1>2, <1>6
<1>8. x = y
  BY <1>3, <1>7
<1> QED
  BY <1>1, <1>2, <1>4, <1>7, <1>8

LEMMA Rounding ==
  ASSUME NEW w \in Nat \ {0}, NEW c \in Nat, NEW K, K = (c + w - 1) \div w
  PROVE  K \in Nat /\ K * w \in Nat /\ c <= K * w /\ K * w < c + w
<1>1. PICK n \in Nat : n = c + w - 1
  <2>1. c + w - 1 \in Nat
    OBVIOUS
  <2> QED
    BY <2>1
<1>2. PICK q, r \in Nat : q = n \div w /\ r = n % w /\ r < w /\ n = q * w + r
  BY Parted
<1>a. K = q
  BY <1>1, <1>2
<1>3. K \in Nat /\ r \in 0 .. (w - 1) /\ n = K * w + r
  BY <1>2, <1>a
<1>4. PICK x \in Nat : x = K * w
  BY <1>3
<1>5. n = x + r
  BY <1>3, <1>4
<1>6. c <= x /\ x < c + w
  BY <1>1, <1>3, <1>5
<1> QED
  BY <1>3, <1>4, <1>6

LEMMA LoadSizes ==
  /\ SECTSIZE \in Nat \ {0} /\ PGSIZE \in Nat \ {0} /\ MemSize \in Nat
  /\ \E M \in Nat \ {0} : PGSIZE = M * SECTSIZE
<1>1. SECTSIZE \in Nat \ {0} /\ PGSIZE \in Nat \ {0} /\ MemSize \in Nat
      /\ PGSIZE % SECTSIZE = 0
  BY LoadingAssumption
<1>2. PICK M : M = PGSIZE \div SECTSIZE
  OBVIOUS
<1>3. M \in Nat /\ PGSIZE = M * SECTSIZE + 0
  BY <1>1, <1>2, BlockParts
<1>4. PGSIZE = M * SECTSIZE
  BY <1>1, <1>3
<1>5. M # 0
  BY <1>1, <1>4
<1> QED
  BY <1>1, <1>3, <1>4, <1>5

\* The same place in a page is the same place in a sector.
LEMMA SameOffset ==
  ASSUME NEW x \in Nat, NEW y \in Nat, x % PGSIZE = y % PGSIZE
  PROVE  x % SECTSIZE = y % SECTSIZE
<1>1. PICK M \in Nat \ {0} : PGSIZE = M * SECTSIZE
  BY LoadSizes
<1>2. PICK u, r \in Nat : u = x \div PGSIZE /\ r = x % PGSIZE /\ r < PGSIZE
                         /\ x = u * PGSIZE + r
  BY Parted, LoadSizes
<1>a. PICK v, s \in Nat : v = y \div PGSIZE /\ s = y % PGSIZE /\ s < PGSIZE
                         /\ y = v * PGSIZE + s
  BY Parted, LoadSizes
<1>3. x = u * PGSIZE + r /\ y = v * PGSIZE + r
  BY <1>2, <1>a
<1>4. PICK t, o \in Nat : t = r \div SECTSIZE /\ o = r % SECTSIZE /\ o < SECTSIZE
                         /\ r = t * SECTSIZE + o
  BY Parted, LoadSizes
<1>5. o \in 0 .. (SECTSIZE - 1) /\ r = t * SECTSIZE + o
  BY <1>4, LoadSizes
<1>6. x = (u * M + t) * SECTSIZE + o /\ y = (v * M + t) * SECTSIZE + o
  BY <1>1, <1>3, <1>5, LoadSizes
<1>7. u * M + t \in Nat /\ v * M + t \in Nat
  BY <1>3, <1>5
<1>8. SECTSIZE \in Nat \ {0}
  BY LoadSizes
<1>b. PICK m, n \in Nat : m = u * M + t /\ n = v * M + t
  BY <1>7
<1>c. x = m * SECTSIZE + o /\ y = n * SECTSIZE + o
  BY <1>6, <1>b
<1>d. x \in Nat /\ y \in Nat /\ m \in Nat /\ n \in Nat /\ o \in 0 .. (SECTSIZE - 1)
  BY <1>5
<1>9. x % SECTSIZE = o
  BY ONLY <1>8, <1>c, <1>d, Divided
<1>10. y % SECTSIZE = o
  BY ONLY <1>8, <1>c, <1>d, Divided
<1> QED
  BY <1>9, <1>10

\* readseg writes the sectors of memory from L up to H, in step with the disk's.
Sectors(L, H, memory, pa, count, fb, off) ==
  /\ L * SECTSIZE <= pa /\ pa < L * SECTSIZE + SECTSIZE
  /\ pa + count <= H * SECTSIZE /\ H * SECTSIZE < pa + count + SECTSIZE
  /\ readseg(memory, pa, count, fb + off) =
       [a \in DOMAIN memory |->
          IF a \in (L * SECTSIZE) .. (H * SECTSIZE - 1)
          THEN readsect(fb + off + (a - pa)) ELSE memory[a]]

LEMMA SegmentRead ==
  ASSUME NEW memory, DOMAIN memory \subseteq Int, NEW pa \in Nat, NEW count \in Nat,
         NEW off \in Nat, off % SECTSIZE = pa % SECTSIZE,
         NEW fb, \E x \in Nat : fb = x * SECTSIZE
  PROVE  \E L, H \in Nat : Sectors(L, H, memory, pa, count, fb, off)
<1>0. SECTSIZE \in Nat \ {0}
  BY LoadSizes
<1>a. PICK x \in Nat : fb = x * SECTSIZE
  OBVIOUS
<1>1. PICK L, o \in Nat : L = pa \div SECTSIZE /\ o = pa % SECTSIZE /\ o < SECTSIZE
                         /\ pa = L * SECTSIZE + o
  BY <1>0, Parted
<1>2. o \in 0 .. (SECTSIZE - 1) /\ pa = L * SECTSIZE + o
  BY <1>0, <1>1
<1>3. (fb + off) % SECTSIZE = o /\ fb + off \in Nat
  <2>1. PICK m, p \in Nat : m = off \div SECTSIZE /\ p = off % SECTSIZE /\ p < SECTSIZE
                           /\ off = m * SECTSIZE + p
    BY <1>0, Parted
  <2>2. off = m * SECTSIZE + o
    BY <1>1, <2>1
  <2>3. fb + off = (x + m) * SECTSIZE + o
    BY <1>0, <1>a, <2>2
  <2>4. fb \in Nat
    BY <1>0, <1>a
  <2>5. x + m \in Nat /\ fb + off \in Nat
    BY <2>4
  <2>6. (fb + off) % SECTSIZE = o
    <3>1. PICK N, X : N = fb + off /\ X = x + m
      OBVIOUS
    <3>2. N \in Nat /\ X \in Nat /\ N = X * SECTSIZE + o
      BY <2>3, <2>5, <3>1
    <3>3. N % SECTSIZE = o
      BY ONLY <1>0, <1>2, <3>2, Divided
    <3> QED
      BY <3>1, <3>3
  <2> QED
    BY <2>5, <2>6
<1>4. PICK K : K = (count + o + SECTSIZE - 1) \div SECTSIZE
  OBVIOUS
<1>5. /\ K \in Nat /\ K * SECTSIZE \in Nat /\ count + o <= K * SECTSIZE
      /\ K * SECTSIZE < count + o + SECTSIZE
  <2>1. count + o \in Nat
    BY <1>2
  <2> QED
    BY <1>0, <1>4, <2>1, Rounding
<1>6. (L + K) * SECTSIZE = L * SECTSIZE + K * SECTSIZE /\ L * SECTSIZE \in Nat /\ L + K \in Nat
  BY <1>0, <1>2, <1>5
<1>7. PICK l, k, h \in Nat :
        l = L * SECTSIZE /\ k = K * SECTSIZE /\ h = (L + K) * SECTSIZE
  BY <1>5, <1>6
<1>8. pa = l + o /\ h = l + k /\ count + o <= k /\ k < count + o + SECTSIZE
  BY <1>2, <1>5, <1>6, <1>7
<1>9. /\ l <= pa /\ pa < l + SECTSIZE /\ pa + count <= h /\ h < pa + count + SECTSIZE
      /\ pa - o = l /\ l + k = h
  BY <1>0, <1>2, <1>8
<1>10. readseg(memory, pa, count, fb + off) =
         [a \in DOMAIN memory |->
            IF a \in l .. (h - 1) THEN readsect(fb + off + (a - pa)) ELSE memory[a]]
  <2>1. readseg(memory, pa, count, fb + off) =
          [a \in DOMAIN memory |->
             IF a \in l .. (l + k - 1)
             THEN readsect((fb + off) - o + (a - l)) ELSE memory[a]]
    BY <1>3, <1>4, <1>7, <1>9 DEF readseg
  <2>2. \A a \in Int : (fb + off) - o + (a - l) = fb + off + (a - pa)
    BY <1>2, <1>3, <1>8
  <2>3. l + k - 1 = h - 1
    BY <1>9
  <2> QED
    BY <2>1, <2>2, <2>3
<1>11. /\ L * SECTSIZE <= pa /\ pa < L * SECTSIZE + SECTSIZE
       /\ pa + count <= (L + K) * SECTSIZE /\ (L + K) * SECTSIZE < pa + count + SECTSIZE
  BY <1>7, <1>9
<1>12. readseg(memory, pa, count, fb + off) =
         [a \in DOMAIN memory |->
            IF a \in (L * SECTSIZE) .. ((L + K) * SECTSIZE - 1)
            THEN readsect(fb + off + (a - pa)) ELSE memory[a]]
  BY <1>7, <1>10
<1>13. PICK H \in Nat : H = L + K
  BY <1>6
<1> QED
  BY <1>11, <1>12, <1>13 DEF Sectors

\* A segment read into its pages stays in them: they begin and end with sectors.
LEMMA WithinPages ==
  ASSUME NEW pa \in Nat, NEW end \in Nat, NEW L \in Nat, NEW H \in Nat,
         L * SECTSIZE <= pa, pa < L * SECTSIZE + SECTSIZE,
         end <= H * SECTSIZE, H * SECTSIZE < end + SECTSIZE
  PROVE  /\ \A y \in Nat : y * PGSIZE <= pa => y * PGSIZE <= L * SECTSIZE
         /\ \A z \in Nat : end <= z * PGSIZE => H * SECTSIZE <= z * PGSIZE
<1>1. PICK M \in Nat \ {0} : PGSIZE = M * SECTSIZE
  BY LoadSizes
<1>2. SECTSIZE \in Nat \ {0}
  BY LoadSizes
<1>3. ASSUME NEW y \in Nat PROVE y * PGSIZE = (y * M) * SECTSIZE /\ y * M \in Nat
  BY <1>1, <1>2
<1>4. ASSUME NEW y \in Nat, y * PGSIZE <= pa PROVE y * PGSIZE <= L * SECTSIZE
  <2>1. PICK N \in Nat : N = y * M
    BY <1>3
  <2>2. y * PGSIZE = N * SECTSIZE
    BY <1>3, <2>1
  <2>3. N * SECTSIZE \in Nat /\ L * SECTSIZE \in Nat
    BY <1>2
  <2>4. N * SECTSIZE < L * SECTSIZE + SECTSIZE
    BY <1>2, <1>4, <2>2, <2>3
  <2>5. N * SECTSIZE <= L * SECTSIZE
    BY <1>2, <2>4, NotLater
  <2> QED
    BY <2>2, <2>5
<1>5. ASSUME NEW z \in Nat, end <= z * PGSIZE PROVE H * SECTSIZE <= z * PGSIZE
  <2>1. PICK N \in Nat : N = z * M
    BY <1>3
  <2>2. z * PGSIZE = N * SECTSIZE
    BY <1>3, <2>1
  <2>3. N * SECTSIZE \in Nat /\ H * SECTSIZE \in Nat
    BY <1>2
  <2>4. H * SECTSIZE < N * SECTSIZE + SECTSIZE
    BY <1>2, <1>5, <2>2, <2>3
  <2>5. H * SECTSIZE <= N * SECTSIZE
    BY <1>2, <2>4, NotLater
  <2> QED
    BY <2>2, <2>5
<1> QED
  BY <1>4, <1>5

\* A file is found by counting on from its first block.
LEMMA DiskByte ==
  ASSUME Inv, ~spilled, NEW d \in DOMAIN direct, NEW e, e = direct[d]
  PROVE  \E s \in Nat :
           /\ FirstByte(d) = s * SECTSIZE /\ s * SECTSIZE \in Nat
           /\ \A x \in Nat : x < e.size * SECTSIZE =>
                readsect(s * SECTSIZE + x) = <<e.file, x>>
<1>0. SECTSIZE \in Nat \ {0} /\ NR_INODE_ENTRY \in Nat \ {0}
  BY LoadSizes, Sizing
<1>1. e \in Entry
  BY Parts
<1>2. e.size \in Nat \ {0} /\ e.inode_offset \in Nat
  BY <1>1, EntryTypes
<1>3. PICK s \in Block : Complete(e, s, bitmap)
  BY DEF Inv, OnDisk, Intact
<1>4. s \in Nat
  BY Sizing
<1>5. ASSUME NEW n \in Nat, n < e.size PROVE sector[s + n] = <<"data", e.file, n>>
  <2>1. PICK q, j \in Nat : q = n \div NR_INODE_ENTRY /\ j = n % NR_INODE_ENTRY
                            /\ j < NR_INODE_ENTRY /\ n = q * NR_INODE_ENTRY + j
    BY <1>0, Parted
  <2>2. q <= n
    BY <1>0, <2>1
  <2>3. q \in 0 .. e.size /\ j \in 0 .. (NR_INODE_ENTRY - 1)
    BY <1>0, <1>2, <1>5, <2>1, <2>2
  <2> QED
    BY <1>3, <1>5, <2>1, <2>3 DEF Complete
<1>6. FirstByte(d) = s * SECTSIZE
  <2>1. 0 \in 0 .. e.size /\ 0 \in 0 .. (NR_INODE_ENTRY - 1)
        /\ 0 * NR_INODE_ENTRY + 0 = 0 /\ 0 < e.size
    BY <1>0, <1>2
  <2>2. Listed(e.inode_offset + 0, 0) = s + 0
    BY <1>3, <2>1 DEF Complete
  <2>3. Listed(e.inode_offset, 0) = s
    BY <1>2, <1>4, <2>2
  <2> QED
    BY <2>3 DEF FirstByte
<1>7. ASSUME NEW x \in Nat, x < e.size * SECTSIZE
      PROVE  readsect(s * SECTSIZE + x) = <<e.file, x>>
  <2>1. PICK q, r \in Nat : q = x \div SECTSIZE /\ r = x % SECTSIZE /\ r < SECTSIZE
                            /\ x = q * SECTSIZE + r
    BY <1>0, Parted
  <2>2. q < e.size
    <3>1. PICK z \in Nat : z = e.size
      BY <1>2
    <3>2. PICK a, b \in Nat : a = q * SECTSIZE /\ b = z * SECTSIZE
      BY <1>0
    <3>3. a + r < b
      BY <1>7, <2>1, <3>1, <3>2
    <3>4. q > z => a >= b + SECTSIZE
      BY <1>0, <3>2, LaterInode
    <3>5. q = z => a = b
      BY <3>2
    <3> QED
      BY <1>0, <3>1, <3>3, <3>4, <3>5
  <2>3. PICK N, X : N = s * SECTSIZE + x /\ X = s + q
    OBVIOUS
  <2>4. N \in Nat /\ X \in Nat /\ N = X * SECTSIZE + r
    <3>1. s * SECTSIZE \in Nat /\ q * SECTSIZE \in Nat
      BY <1>0, <1>4
    <3>2. (s + q) * SECTSIZE = s * SECTSIZE + q * SECTSIZE
      BY <1>0, <1>4
    <3>3. PICK a, b \in Nat : a = s * SECTSIZE /\ b = q * SECTSIZE
      BY <3>1
    <3>4. N = a + x /\ x = b + r /\ X * SECTSIZE = a + b
      BY <2>1, <2>3, <3>2, <3>3
    <3>5. N \in Nat /\ N = (a + b) + r
      BY <3>4
    <3> QED
      BY <1>4, <2>3, <3>4, <3>5
  <2>5. r \in 0 .. (SECTSIZE - 1)
    BY <1>0, <2>1
  <2>6. N \div SECTSIZE = X /\ N % SECTSIZE = r
    BY ONLY <1>0, <2>4, <2>5, Divided
  <2>7. sector[X] = <<"data", e.file, q>>
    BY <1>5, <2>2, <2>3
  <2>8. readsect(N) = <<e.file, q * SECTSIZE + r>>
    BY <2>6, <2>7 DEF readsect
  <2> QED
    BY <2>1, <2>3, <2>8
<1>8. s * SECTSIZE \in Nat
  BY <1>0, <1>4
<1> QED
  BY <1>4, <1>6, <1>7, <1>8

\* A segment as the linker made it, of the file of entry d.
Segment(d, ph) ==
  /\ ph \in Header /\ ph.off % PGSIZE = ph.addr % PGSIZE /\ ph.filesz <= ph.memsz
  /\ ph.off + ph.filesz <= direct[d].size * SECTSIZE

First(ph) == (ph.addr \div PGSIZE) * PGSIZE

LEMMA BootBytes ==
  ASSUME Inv, ~spilled, 1 \in DOMAIN direct, NEW ph, Segment(1, ph),
         NEW memory, DOMAIN memory = Addresses
  PROVE  /\ DOMAIN BootSegment(memory, ph) = Addresses
         /\ \A a \in Addresses : a < First(ph) => BootSegment(memory, ph)[a] = memory[a]
         /\ \A i \in 0 .. (ph.memsz - 1) : ph.addr + i \in Addresses =>
              BootSegment(memory, ph)[ph.addr + i] = Byte(direct[1], ph, i)
<1>0. SECTSIZE \in Nat \ {0} /\ PGSIZE \in Nat \ {0} /\ MemSize \in Nat
  BY LoadSizes
<1>1. /\ ph.off \in Nat /\ ph.addr \in Nat /\ ph.filesz \in Nat /\ ph.memsz \in Nat
      /\ ph.filesz <= ph.memsz /\ ph.off % PGSIZE = ph.addr % PGSIZE
      /\ ph.off + ph.filesz <= direct[1].size * SECTSIZE
  BY DEF Segment, Header
<1>2. PICK e : e = direct[1]
  OBVIOUS
<1>3. PICK s \in Nat :
        /\ FirstByte(1) = s * SECTSIZE /\ s * SECTSIZE \in Nat
        /\ \A x \in Nat : x < e.size * SECTSIZE =>
             readsect(s * SECTSIZE + x) = <<e.file, x>>
  BY <1>2, DiskByte
<1>4. PICK fb \in Nat : fb = s * SECTSIZE
  BY <1>3
<1>5. e.size * SECTSIZE \in Nat
  BY <1>0, <1>2, Parts, EntryTypes
<1>6. DOMAIN memory \subseteq Int
  BY <1>0 DEF Addresses
<1>7. ph.off % SECTSIZE = ph.addr % SECTSIZE
  BY <1>1, SameOffset
<1>a. PICK L, H \in Nat : Sectors(L, H, memory, ph.addr, ph.filesz, fb, ph.off)
  BY <1>1, <1>4, <1>6, <1>7, SegmentRead
<1>8. /\ L * SECTSIZE <= ph.addr /\ ph.addr < L * SECTSIZE + SECTSIZE
      /\ ph.addr + ph.filesz <= H * SECTSIZE
      /\ H * SECTSIZE < ph.addr + ph.filesz + SECTSIZE
      /\ readseg(memory, ph.addr, ph.filesz, fb + ph.off) =
           [a \in DOMAIN memory |->
              IF a \in (L * SECTSIZE) .. (H * SECTSIZE - 1)
              THEN readsect(fb + ph.off + (a - ph.addr)) ELSE memory[a]]
  BY <1>a DEF Sectors
<1>9. PICK l, h \in Nat : l = L * SECTSIZE /\ h = H * SECTSIZE
  BY <1>0
<1>10. BootSegment(memory, ph) =
         [a \in Addresses |->
            IF a \in (ph.addr + ph.filesz) .. (ph.addr + ph.memsz - 1) THEN Zero
            ELSE IF a \in l .. (h - 1) THEN readsect(fb + ph.off + (a - ph.addr))
                 ELSE memory[a]]
  <2>1. FirstByte(1) + ph.off = fb + ph.off
    BY <1>3, <1>4
  <2>2. readseg(memory, ph.addr, ph.filesz, FirstByte(1) + ph.off) =
          [a \in Addresses |->
             IF a \in l .. (h - 1) THEN readsect(fb + ph.off + (a - ph.addr)) ELSE memory[a]]
    BY <1>8, <1>9, <2>1
  <2> QED
    BY <2>2 DEF BootSegment
<1>11. First(ph) \in Nat /\ First(ph) <= l /\ First(ph) <= ph.addr
  <2>1. PICK q, r \in Nat : q = ph.addr \div PGSIZE /\ r = ph.addr % PGSIZE /\ r < PGSIZE
                            /\ ph.addr = q * PGSIZE + r
    BY <1>0, <1>1, Parted
  <2>2. q * PGSIZE \in Nat
    BY <1>0
  <2>3. q * PGSIZE <= ph.addr
    BY <2>1, <2>2
  <2>4. q * PGSIZE <= L * SECTSIZE
    <3>1. PICK end \in Nat : end = ph.addr + ph.filesz
      BY <1>1
    <3>2. end <= H * SECTSIZE /\ H * SECTSIZE < end + SECTSIZE
      BY <1>8, <3>1
    <3> QED
      BY <1>1, <1>8, <2>3, <3>2, WithinPages
  <2> QED
    BY <1>9, <2>1, <2>2, <2>3, <2>4 DEF First
<1>12. ASSUME NEW a \in Addresses, a < First(ph) PROVE BootSegment(memory, ph)[a] = memory[a]
  <2>1. a \in Int
    BY <1>0 DEF Addresses
  <2>2. ~(a >= ph.addr) /\ ~(a >= l)
    BY <1>1, <1>11, <1>12, <2>1
  <2>3. a \notin (ph.addr + ph.filesz) .. (ph.addr + ph.memsz - 1) /\ a \notin l .. (h - 1)
    BY <1>1, <2>1, <2>2
  <2> QED
    BY <1>10, <2>3
<1>13. ASSUME NEW i \in 0 .. (ph.memsz - 1), ph.addr + i \in Addresses
       PROVE  BootSegment(memory, ph)[ph.addr + i] = Byte(e, ph, i)
  <2>1. CASE i < ph.filesz
    <3>1. /\ ph.addr + i \notin (ph.addr + ph.filesz) .. (ph.addr + ph.memsz - 1)
          /\ ph.addr + i \in l .. (h - 1)
      <4>1. l <= ph.addr /\ ph.addr + ph.filesz <= h
        BY <1>8, <1>9
      <4> QED
        BY <1>1, <2>1, <4>1
    <3>2. fb + ph.off + ((ph.addr + i) - ph.addr) = fb + (ph.off + i)
      BY <1>1
    <3>3. ph.off + i \in Nat /\ ph.off + i < e.size * SECTSIZE
      <4>1. PICK z \in Nat : z = e.size * SECTSIZE
        BY <1>5
      <4>2. ph.off + ph.filesz <= z
        BY <1>1, <1>2, <4>1
      <4>3. ph.off + i \in Nat /\ ph.off + i < z
        BY <1>1, <2>1, <4>2
      <4> QED
        BY <4>1, <4>3
    <3>4. readsect(fb + (ph.off + i)) = <<e.file, ph.off + i>>
      BY <1>3, <1>4, <3>3
    <3> QED
      BY <1>10, <1>13, <2>1, <3>1, <3>2, <3>4 DEF Byte
  <2>2. CASE ~(i < ph.filesz)
    <3>1. ph.addr + i \in (ph.addr + ph.filesz) .. (ph.addr + ph.memsz - 1)
      BY <1>1, <2>2
    <3> QED
      BY <1>10, <1>13, <2>2, <3>1 DEF Byte
  <2> QED
    BY <2>1, <2>2
<1> QED
  BY <1>2, <1>10, <1>12, <1>13

\* Where a page of a segment begins in the page, and in the segment.
LEMMA PageOfSegment ==
  ASSUME NEW ph \in Header, NEW p \in Nat,
         NEW r0, r0 = ph.addr % PGSIZE, NEW off, off = (IF p = 0 THEN r0 ELSE 0),
         NEW num, num = Loaded(ph, p)
  PROVE  /\ r0 \in 0 .. (PGSIZE - 1) /\ off \in 0 .. (PGSIZE - 1)
         /\ num \in 0 .. ph.filesz /\ num + r0 <= p * PGSIZE + off
         /\ num < ph.filesz => num + r0 = p * PGSIZE + off
<1>0. PGSIZE \in Nat \ {0} /\ ph.addr \in Nat /\ ph.filesz \in Nat
  BY LoadSizes DEF Header
<1>1. PICK q, r \in Nat : q = ph.addr \div PGSIZE /\ r = ph.addr % PGSIZE /\ r < PGSIZE
                          /\ ph.addr = q * PGSIZE + r
  BY <1>0, Parted
<1>2. r0 \in 0 .. (PGSIZE - 1) /\ off \in 0 .. (PGSIZE - 1)
  <2>1. r0 = r /\ r < PGSIZE
    BY <1>1
  <2>2. r0 \in 0 .. (PGSIZE - 1)
    BY ONLY <1>0, <2>1, r \in Nat
  <2>3. off = r0 \/ off = 0
    OBVIOUS
  <2>4. off \in 0 .. (PGSIZE - 1)
    BY ONLY <1>0, <2>2, <2>3
  <2> QED
    BY <2>2, <2>4
<1>3. PICK x \in Nat : x = p * PGSIZE
  BY <1>0
<1>4. p # 0 => x >= PGSIZE
  <2>1. p > 0 => p * PGSIZE >= 0 * PGSIZE + PGSIZE
    BY <1>0, LaterInode
  <2> QED
    BY <1>0, <1>3, <2>1
<1>5. p = 0 => x = 0
  BY <1>0, <1>3
<1>6. PICK y : y = x - (IF p = 0 THEN 0 ELSE r0)
  OBVIOUS
<1>7. y \in Nat /\ y + r0 = x + off
  BY <1>0, <1>2, <1>4, <1>5, <1>6
<1>8. num = IF y < ph.filesz THEN y ELSE ph.filesz
  BY <1>3, <1>6 DEF Loaded
<1>9. /\ num \in 0 .. ph.filesz /\ num + r0 <= x + off
      /\ num < ph.filesz => num + r0 = x + off
  BY <1>0, <1>2, <1>7, <1>8
<1> QED
  BY <1>2, <1>3, <1>9

\* sec_buf for page p of a segment of the game: nothing outside of it is written,
\* and the bytes of the file are where the segment has them.
LEMMA Buffer ==
  ASSUME Inv, ~spilled, 2 \in DOMAIN direct, NEW ph, Segment(2, ph), NEW p \in Nat,
         NEW e, e = direct[2], NEW r0, r0 = ph.addr % PGSIZE
  PROVE  /\ DOMAIN SecBuf(ph, p) = (-SECTSIZE) .. (PGSIZE + SECTSIZE)
         /\ \A i \in (-SECTSIZE) .. (PGSIZE + SECTSIZE) :
              i \notin 0 .. (PGSIZE - 1) => SecBuf(ph, p)[i] = Junk
         /\ \A i \in Nat, r \in 0 .. (PGSIZE - 1) : r0 + i = p * PGSIZE + r =>
              SecBuf(ph, p)[r] = Byte(e, ph, i) \/ InLastSector(ph, i)
<1>0. SECTSIZE \in Nat \ {0} /\ PGSIZE \in Nat \ {0} /\ MemSize \in Nat
  BY LoadSizes
<1>1. /\ ph.off \in Nat /\ ph.addr \in Nat /\ ph.filesz \in Nat /\ ph.memsz \in Nat
      /\ ph.off % PGSIZE = r0 /\ ph \in Header
      /\ ph.off + ph.filesz <= e.size * SECTSIZE
  BY DEF Segment, Header
<1>2. PICK off, num : off = (IF p = 0 THEN r0 ELSE 0) /\ num = Loaded(ph, p)
  OBVIOUS
<1>3. /\ r0 \in 0 .. (PGSIZE - 1) /\ off \in 0 .. (PGSIZE - 1) /\ num \in 0 .. ph.filesz
      /\ num + r0 <= p * PGSIZE + off
      /\ num < ph.filesz => num + r0 = p * PGSIZE + off
  BY <1>1, <1>2, PageOfSegment
<1>4. PICK x \in Nat : x = p * PGSIZE
  BY <1>0
<1>a. /\ num + r0 <= x + off
      /\ num < ph.filesz => num + r0 = x + off
      /\ r0 \in Nat /\ off \in Nat /\ num \in Nat
  BY <1>3, <1>4
<1>5. PICK rest : rest = IF ph.filesz - num < PGSIZE - off THEN ph.filesz - num ELSE PGSIZE - off
  OBVIOUS
<1>6. /\ rest \in Nat /\ rest <= ph.filesz - num /\ off + rest <= PGSIZE
      /\ rest = 0 => num = ph.filesz
      /\ rest = ph.filesz - num \/ off + rest = PGSIZE
  BY <1>0, <1>1, <1>3, <1>5
<1>7. PICK cleared : cleared = [i \in (-SECTSIZE) .. (PGSIZE + SECTSIZE) |->
                                  IF i \in 0 .. (PGSIZE - 1) THEN Zero ELSE Junk]
  OBVIOUS
<1>8. SecBuf(ph, p) = IF rest = 0 THEN cleared
                      ELSE readseg(cleared, off, rest, FirstByte(2) + ph.off + num)
  BY <1>1, <1>2, <1>5, <1>7 DEF SecBuf
<1>9. CASE rest = 0
  <2>1. SecBuf(ph, p) = cleared
    BY <1>8, <1>9
  <2>2. ASSUME NEW i \in Nat, NEW r \in 0 .. (PGSIZE - 1), r0 + i = p * PGSIZE + r
        PROVE  SecBuf(ph, p)[r] = Byte(e, ph, i)
    <3>1. num = ph.filesz /\ num + r0 <= x + off /\ r0 + i = x + r
      BY <1>4, <1>6, <1>9, <1>a, <2>2
    <3>2. r >= off
      <4>1. p = 0 => x = 0
        BY <1>0, <1>4
      <4> QED
        BY <1>0, <1>2, <1>3, <3>1, <4>1
    <3>3. ~(i < ph.filesz)
      BY <1>1, <1>3, <3>1, <3>2
    <3>4. r \in (-SECTSIZE) .. (PGSIZE + SECTSIZE)
      BY <1>0
    <3> QED
      BY <1>7, <2>1, <3>3, <3>4 DEF Byte
  <2> QED
    BY <1>7, <2>1, <2>2
<1>10. CASE rest # 0
  <2>1. num < ph.filesz /\ num + r0 = x + off /\ num \in Nat
    <3>1. num < ph.filesz
      BY ONLY <1>1, <1>6, <1>10, <1>a
    <3> QED
      BY <1>a, <3>1
  <2>2. PICK s \in Nat :
          /\ FirstByte(2) = s * SECTSIZE /\ s * SECTSIZE \in Nat
          /\ \A y \in Nat : y < e.size * SECTSIZE =>
               readsect(s * SECTSIZE + y) = <<e.file, y>>
    BY DiskByte
  <2>3. PICK fb \in Nat : fb = s * SECTSIZE
    BY <2>2
  \* The page begins in the file where a page of the file begins.
  <2>4. PICK u \in Nat : ph.off + num = u * PGSIZE + off
    <3>1. PICK v, t \in Nat : v = ph.off \div PGSIZE /\ t = ph.off % PGSIZE /\ t < PGSIZE
                              /\ ph.off = v * PGSIZE + t
      BY <1>0, <1>1, Parted
    <3>2. ph.off = v * PGSIZE + r0
      BY <1>1, <3>1
    <3>3. (v + p) * PGSIZE = v * PGSIZE + p * PGSIZE
      BY <1>0
    <3>4. PICK y, z \in Nat : y = v * PGSIZE /\ z = (v + p) * PGSIZE
      BY <1>0
    <3>5. ph.off = y + r0 /\ z = y + x
      BY <1>4, <3>2, <3>3, <3>4
    <3>6. ph.off + num = z + off
      BY ONLY <1>a, <2>1, <3>5, x \in Nat, y \in Nat, z \in Nat
    <3> QED
      BY <3>4, <3>6
  <2>5. PICK pos \in Nat : pos = ph.off + num
    BY <1>1, <2>1
  <2>6. pos % SECTSIZE = off % SECTSIZE
    <3>1. pos = u * PGSIZE + off
      BY <2>4, <2>5
    <3>2. pos % PGSIZE = off
      BY ONLY <1>0, <1>3, <3>1, pos \in Nat, u \in Nat, Divided
    <3>3. 0 \in Nat /\ off = 0 * PGSIZE + off /\ off \in Nat
      BY <1>0, <1>3
    <3>4. off % PGSIZE = off
      BY ONLY <1>0, <1>3, <3>3, Divided
    <3> QED
      BY <1>3, <3>2, <3>4, <3>3, SameOffset
  <2>7. PICK L, H \in Nat : Sectors(L, H, cleared, off, rest, fb, pos)
    <3>1. DOMAIN cleared \subseteq Int /\ off \in Nat
      BY <1>3, <1>7
    <3> QED
      BY <1>6, <2>3, <2>6, <3>1, SegmentRead
  <2>8. PICK l, h \in Nat : l = L * SECTSIZE /\ h = H * SECTSIZE
    BY <1>0
  <2>9. /\ l <= off /\ off < l + SECTSIZE /\ off + rest <= h /\ h < off + rest + SECTSIZE
        /\ readseg(cleared, off, rest, fb + pos) =
             [a \in DOMAIN cleared |->
                IF a \in l .. (h - 1) THEN readsect(fb + pos + (a - off)) ELSE cleared[a]]
    BY <2>7, <2>8 DEF Sectors
  <2>10. h <= PGSIZE
    <3>1. PICK end \in Nat : end = off + rest
      BY <1>3, <1>6
    <3>2. /\ L * SECTSIZE <= off /\ off < L * SECTSIZE + SECTSIZE
          /\ end <= H * SECTSIZE /\ H * SECTSIZE < end + SECTSIZE /\ end <= 1 * PGSIZE
      BY <1>0, <1>6, <2>8, <2>9, <3>1
    <3>3. H * SECTSIZE <= 1 * PGSIZE
      BY <1>3, <3>2, WithinPages
    <3> QED
      BY <1>0, <2>8, <3>3
  <2>11. SecBuf(ph, p) =
           [a \in (-SECTSIZE) .. (PGSIZE + SECTSIZE) |->
              IF a \in l .. (h - 1) THEN readsect(fb + pos + (a - off))
              ELSE IF a \in 0 .. (PGSIZE - 1) THEN Zero ELSE Junk]
    <3>1. FirstByte(2) + ph.off + num = fb + pos
      BY <1>1, <2>1, <2>2, <2>3, <2>5
    <3> QED
      BY <1>7, <1>8, <1>10, <2>9, <3>1
  <2>12. ASSUME NEW i \in (-SECTSIZE) .. (PGSIZE + SECTSIZE), i \notin 0 .. (PGSIZE - 1)
         PROVE  SecBuf(ph, p)[i] = Junk
    <3>1. i \notin l .. (h - 1)
      BY <1>0, <2>10, <2>12
    <3> QED
      BY <2>11, <2>12, <3>1
  <2>13. ASSUME NEW i \in Nat, NEW r \in 0 .. (PGSIZE - 1), r0 + i = p * PGSIZE + r
         PROVE  SecBuf(ph, p)[r] = Byte(e, ph, i) \/ InLastSector(ph, i)
    <3>1. r0 + i = x + r /\ i + off = num + r
      BY <1>3, <1>4, <2>1, <2>13
    <3>2. r >= off
      <4>1. p = 0 => x = 0
        BY <1>0, <1>4
      <4> QED
        BY <1>0, <1>2, <1>3, <3>1, <4>1
    <3>3. /\ r \in (-SECTSIZE) .. (PGSIZE + SECTSIZE)
          /\ fb + pos + (r - off) = fb + (ph.off + i)
      <4>1. pos + (r - off) = ph.off + i
        BY <1>1, <1>3, <2>1, <2>5, <3>1
      <4>2. fb + pos + (r - off) = fb + (pos + (r - off))
        BY <1>a
      <4>3. r \in (-SECTSIZE) .. (PGSIZE + SECTSIZE)
        BY <1>0
      <4> QED
        BY <4>1, <4>2, <4>3
    <3>4. CASE i < ph.filesz
      <4>1. r < off + rest
        BY <1>0, <1>1, <1>3, <1>6, <2>1, <3>1, <3>4
      <4>2. r \in l .. (h - 1)
        BY <1>3, <1>6, <2>9, <3>2, <4>1
      <4>3. ph.off + i \in Nat /\ ph.off + i < e.size * SECTSIZE
        <5>1. e.size * SECTSIZE \in Nat
          BY <1>0, Parts, EntryTypes
        <5>2. PICK z \in Nat : z = e.size * SECTSIZE
          BY <5>1
        <5>3. ph.off + ph.filesz <= z
          BY <1>1, <5>2
        <5>4. ph.off + i \in Nat /\ ph.off + i < z
          BY <1>1, <3>4, <5>3
        <5> QED
          BY <5>2, <5>4
      <4>4. readsect(fb + (ph.off + i)) = <<e.file, ph.off + i>>
        BY <2>2, <2>3, <4>3
      <4> QED
        BY <2>11, <3>3, <3>4, <4>2, <4>4 DEF Byte
    <3>5. CASE ~(i < ph.filesz) /\ r \notin l .. (h - 1)
      BY <2>11, <3>3, <3>5 DEF Byte
    <3>6. CASE ~(i < ph.filesz) /\ r \in l .. (h - 1)
      <4>1. rest = ph.filesz - num /\ off + rest <= r /\ r < h
        BY <1>0, <1>1, <1>3, <1>6, <2>1, <3>1, <3>6
      <4>2. PICK W \in Nat : u * PGSIZE = W * SECTSIZE
        <5>1. PICK M \in Nat \ {0} : PGSIZE = M * SECTSIZE
          BY LoadSizes
        <5>2. u * PGSIZE = (u * M) * SECTSIZE /\ u * M \in Nat
          BY <1>0, <5>1
        <5> QED
          BY <5>2
      <4>3. PICK w \in Nat : w = W * SECTSIZE
        BY <1>0
      <4>4. pos = w + off
        BY <2>4, <2>5, <4>2, <4>3
      <4>5. H # 0 /\ h = (H - 1) * SECTSIZE + SECTSIZE /\ H - 1 \in Nat
        <5>1. h # 0
          BY <1>3, <1>6, <4>1
        <5>2. H # 0
          BY <1>0, <2>8, <5>1
        <5> QED
          BY <1>0, <2>8, <5>2
      <4>6. PICK X \in Nat : X = W + (H - 1)
        BY <4>5
      <4>7. X * SECTSIZE = w + h - SECTSIZE
        <5>1. X * SECTSIZE = W * SECTSIZE + (H - 1) * SECTSIZE
          BY <1>0, <4>5, <4>6
        <5>2. PICK g \in Nat : g = (H - 1) * SECTSIZE
          BY <1>0, <4>5
        <5>3. X * SECTSIZE = w + g /\ h = g + SECTSIZE
          BY <4>3, <4>5, <5>1, <5>2
        <5> QED
          BY <1>0, <5>3
      <4>8. PICK a, b, c \in Nat : a = ph.off + i /\ b = ph.off + ph.filesz - 1
                                   /\ c = X * SECTSIZE
        BY <1>0, <1>1, <2>1
      <4>9. c = w + h - SECTSIZE
        BY <4>7, <4>8
      <4>10. a = w + r /\ b = w + off + rest - 1
        <5>1. a = ph.off + i /\ b = ph.off + ph.filesz - 1
          BY <4>8
        <5>2. a = w + r
          BY ONLY <1>1, <1>a, <2>5, <3>1, <4>4, <5>1, w \in Nat, i \in Nat, r \in 0 .. (PGSIZE - 1)
        <5>3. b = w + off + rest - 1
          BY ONLY <1>1, <1>6, <1>a, <2>5, <4>1, <4>4, <5>1, w \in Nat
        <5> QED
          BY <5>2, <5>3
      <4>11. /\ a - c \in 0 .. (SECTSIZE - 1) /\ b - c \in 0 .. (SECTSIZE - 1)
        BY <1>0, <1>3, <1>6, <2>9, <4>1, <4>9, <4>10
      <4>12. PICK y, z : y = a - c /\ z = b - c
        OBVIOUS
      <4>13. /\ y \in 0 .. (SECTSIZE - 1) /\ z \in 0 .. (SECTSIZE - 1)
             /\ a = c + y /\ b = c + z
        BY <4>11, <4>12
      <4>14. a = X * SECTSIZE + y /\ b = X * SECTSIZE + z /\ a \in Nat /\ b \in Nat /\ X \in Nat
        BY <4>8, <4>13
      <4>15. a \div SECTSIZE = X
        BY ONLY <1>0, <4>13, <4>14, Divided
      <4>16. b \div SECTSIZE = X
        BY ONLY <1>0, <4>13, <4>14, Divided
      <4>17. i >= ph.filesz /\ ph.filesz > 0
        BY <1>1, <2>1, <3>6
      <4> QED
        BY <4>8, <4>15, <4>16, <4>17 DEF InLastSector
    <3> QED
      BY <3>4, <3>5, <3>6
  <2> QED
    BY <2>11, <2>12, <2>13
<1> QED
  BY <1>9, <1>10

LEMMA GameBytes ==
  ASSUME Inv, ~spilled, 2 \in DOMAIN direct, NEW ph, Segment(2, ph),
         NEW memory, DOMAIN memory = Addresses
  PROVE  /\ DOMAIN GameSegment(memory, ph) = Addresses
         /\ \A a \in Addresses : a < First(ph) => GameSegment(memory, ph)[a] = memory[a]
         /\ \A i \in 0 .. (ph.memsz - 1) : ph.addr + i \in Addresses =>
              \/ GameSegment(memory, ph)[ph.addr + i] = Byte(direct[2], ph, i)
              \/ InLastSector(ph, i)
<1>0. SECTSIZE \in Nat \ {0} /\ PGSIZE \in Nat \ {0} /\ MemSize \in Nat
  BY LoadSizes
<1>1. ph.addr \in Nat /\ ph.memsz \in Nat
  BY DEF Segment, Header
<1>2. PICK v, r0 \in Nat : v = ph.addr \div PGSIZE /\ r0 = ph.addr % PGSIZE /\ r0 < PGSIZE
                           /\ ph.addr = v * PGSIZE + r0
  BY <1>0, <1>1, Parted
<1>3. PICK first \in Nat : first = v * PGSIZE
  BY <1>0
<1>4. ph.addr = first + r0 /\ First(ph) = first /\ ph.addr - (ph.addr % PGSIZE) = first
  <2>1. ph.addr = first + r0
    BY <1>2, <1>3
  <2>2. ph.addr - r0 = first
    BY <2>1
  <2> QED
    BY <1>2, <1>3, <2>1, <2>2 DEF First
<1>5. GameSegment(memory, ph) =
        [a \in Addresses |->
           IF a >= first /\ (a - first) \div PGSIZE \in GamePages(ph)
           THEN SecBuf(ph, (a - first) \div PGSIZE)[(a - first) % PGSIZE] ELSE memory[a]]
  BY <1>4 DEF GameSegment
<1>6. ASSUME NEW a \in Addresses, a < First(ph) PROVE GameSegment(memory, ph)[a] = memory[a]
  <2>1. ~(a >= first)
    BY <1>0, <1>4, <1>6 DEF Addresses
  <2> QED
    BY <1>5, <2>1
<1>7. ASSUME NEW i \in 0 .. (ph.memsz - 1), ph.addr + i \in Addresses
      PROVE  \/ GameSegment(memory, ph)[ph.addr + i] = Byte(direct[2], ph, i)
             \/ InLastSector(ph, i)
  <2>1. PICK a \in Addresses : a = ph.addr + i
    BY <1>7
  <2>2. PICK b \in Nat : b = r0 + i
    BY <1>1
  <2>3. a - first = b /\ a >= first
    BY <1>1, <1>4, <2>1, <2>2
  <2>4. PICK p, r \in Nat : p = b \div PGSIZE /\ r = b % PGSIZE /\ r < PGSIZE
                            /\ b = p * PGSIZE + r
    BY <1>0, Parted
  <2>5. p \in GamePages(ph)
    <3>1. ph.memsz # 0 /\ ph.addr + ph.memsz - 1 \in Nat
      BY <1>1
    <3>2. PICK n \in Nat : n = ph.addr + ph.memsz - 1
      BY <3>1
    <3>3. PICK z, t \in Nat : z = n \div PGSIZE /\ t = n % PGSIZE /\ t < PGSIZE
                              /\ n = z * PGSIZE + t
      BY <1>0, Parted
    <3>4. (p + v) * PGSIZE = p * PGSIZE + v * PGSIZE
      BY <1>0
    <3>5. PICK x, y \in Nat : x = p * PGSIZE /\ y = z * PGSIZE
      BY <1>0
    <3>6. b = x + r /\ n = y + t /\ t < PGSIZE
      BY <2>4, <3>3, <3>5
    <3>7. x + first < y + PGSIZE
      <4>1. ph.addr = first + r0 /\ i <= ph.memsz - 1
        BY <1>1, <1>4
      <4>2. first + b <= n
        BY ONLY <1>1, <2>2, <3>2, <4>1, first \in Nat, r0 \in Nat, i \in 0 .. (ph.memsz - 1)
      <4> QED
        BY ONLY <1>0, <3>6, <4>2, first \in Nat, r \in Nat, t \in Nat, x \in Nat, y \in Nat
    <3>8. (p + v) * PGSIZE < z * PGSIZE + PGSIZE
      BY <1>3, <3>4, <3>5, <3>7
    <3>9. p + v \in Nat
      OBVIOUS
    <3>10. p + v <= z
      BY <1>0, <3>8, <3>9, NotLater
    <3>11. p \in 0 .. (z - v)
      BY <3>10
    <3> QED
      BY <1>2, <3>1, <3>2, <3>3, <3>11 DEF GamePages
  <2>6. GameSegment(memory, ph)[a] = SecBuf(ph, p)[r]
    BY <1>5, <2>3, <2>4, <2>5
  <2>7. r0 + i = p * PGSIZE + r /\ i \in Nat /\ r \in 0 .. (PGSIZE - 1)
    <3>1. r < PGSIZE /\ r0 + i = p * PGSIZE + r
      BY <2>2, <2>4
    <3>2. r \in 0 .. (PGSIZE - 1)
      BY <1>0, <3>1
    <3> QED
      BY <1>1, <3>1, <3>2
  <2>8. SecBuf(ph, p)[r] = Byte(direct[2], ph, i) \/ InLastSector(ph, i)
    <3>1. PICK e : e = direct[2]
      OBVIOUS
    <3>2. r0 = ph.addr % PGSIZE
      BY <1>2
    <3>3. \A k \in Nat, t \in 0 .. (PGSIZE - 1) : r0 + k = p * PGSIZE + t =>
            SecBuf(ph, p)[t] = Byte(e, ph, k) \/ InLastSector(ph, k)
      BY <3>1, <3>2, Buffer
    <3> QED
      BY <2>7, <3>1, <3>3, Zenon
  <2> QED
    BY <2>1, <2>6, <2>8
<1> QED
  BY <1>5, <1>6, <1>7

\* The segments of a layout lie on pages of their own, in this order.
LEMMA PagesApart ==
  ASSUME NEW layout \in Seq(Header), Linked(layout),
         NEW j \in DOMAIN layout, NEW m \in DOMAIN layout, j < m,
         NEW a \in Nat, a < layout[j].addr + layout[j].memsz
  PROVE  a < First(layout[m])
<1>0. PGSIZE \in Nat \ {0} /\ DOMAIN layout = 1 .. Len(layout) /\ Len(layout) \in Nat
  BY LoadSizes
<1> DEFINE End(k) == layout[k].addr + layout[k].memsz
           Bad == {k \in Nat : k \in DOMAIN layout /\ j < k /\ ~(a < First(layout[k]))}
<1>1. SUFFICES ASSUME Bad # {} PROVE FALSE
  BY <1>0
<1>2. PICK k \in Bad : \A c \in Bad : k <= c
  <2>1. Bad \subseteq Nat
    OBVIOUS
  <2> HIDE DEF Bad
  <2> QED
    BY <1>1, <2>1, LeastExists
<1>3. k \in DOMAIN layout /\ k > 1 /\ j < k /\ k - 1 \in DOMAIN layout
  BY <1>0, <1>2
<1>4. /\ layout[k].addr \in Nat /\ layout[k - 1].addr \in Nat /\ layout[k - 1].memsz \in Nat
      /\ (End(k - 1) - 1) \div PGSIZE < layout[k].addr \div PGSIZE
  <2>1. layout[k] \in Header /\ layout[k - 1] \in Header
    BY <1>3
  <2>2. /\ layout[k].addr \in Nat /\ layout[k - 1].addr \in Nat
        /\ layout[k - 1].memsz \in Nat
    BY <2>1 DEF Header
  <2>3. (layout[k - 1].addr + layout[k - 1].memsz - 1) \div PGSIZE
          < layout[k].addr \div PGSIZE
    BY <1>3 DEF Linked
  <2>4. layout[k - 1].addr + layout[k - 1].memsz - 1 = End(k - 1) - 1
    <3>1. ASSUME NEW x \in Nat, NEW y \in Nat PROVE x + y - 1 = (x + y) - 1
      OBVIOUS
    <3> QED
      BY <2>2, <3>1, Zenon
  <2> QED
    BY <2>2, <2>3, <2>4
\* A byte before the end of the segment before is on an earlier page.
<1>5. ASSUME NEW b \in Nat, b < End(k - 1) PROVE b < First(layout[k])
  <2>1. PICK n \in Nat : n = End(k - 1) - 1
    <3>1. End(k - 1) \in Nat
      <4>1. layout[k - 1].addr \in Nat /\ layout[k - 1].memsz \in Nat
        BY <1>4
      <4>2. \A x, y \in Nat : x + y \in Nat
        OBVIOUS
      <4> QED
        BY <4>1, <4>2, Zenon
    <3> HIDE DEF End
    <3> QED
      BY <1>5, <3>1
  <2>2. b <= n
    <3>1. End(k - 1) \in Nat
      <4>1. layout[k - 1].addr \in Nat /\ layout[k - 1].memsz \in Nat
        BY <1>4
      <4>2. \A x, y \in Nat : x + y \in Nat
        OBVIOUS
      <4> QED
        BY <4>1, <4>2, Zenon
    <3> HIDE DEF End
    <3> QED
      BY <1>5, <2>1, <3>1
  <2>3. PICK q, t \in Nat : q = n \div PGSIZE /\ t = n % PGSIZE /\ t < PGSIZE
                            /\ n = q * PGSIZE + t
    BY <1>0, Parted
  <2>4. PICK z, s \in Nat : z = layout[k].addr \div PGSIZE /\ s = layout[k].addr % PGSIZE
                            /\ s < PGSIZE /\ layout[k].addr = z * PGSIZE + s
    BY <1>0, <1>4, Parted
  <2>5. q < z
    BY <1>4, <2>1, <2>3, <2>4
  <2>6. z * PGSIZE >= q * PGSIZE + PGSIZE
    BY <1>0, <2>5, LaterInode
  <2>7. PICK x, y \in Nat : x = q * PGSIZE /\ y = z * PGSIZE
    BY <1>0
  <2>8. n = x + t /\ t < PGSIZE /\ y >= x + PGSIZE
    BY <2>3, <2>6, <2>7
  <2>9. b < y
    BY <1>0, <2>2, <2>8
  <2> QED
    BY <2>4, <2>7, <2>9 DEF First
<1>6. a < First(layout[k])
  <2>1. CASE k - 1 = j
    <3>1. a < End(k - 1)
      BY <2>1
    <3> QED
      BY <1>5, <3>1
  <2>2. CASE k - 1 # j
    <3>1. k - 1 \notin Bad
      BY <1>2, <1>3
    <3>2. a < First(layout[k - 1])
      BY <1>0, <1>3, <2>2, <3>1
    <3>3. PICK z, s \in Nat : z = layout[k - 1].addr \div PGSIZE
                              /\ s = layout[k - 1].addr % PGSIZE
                              /\ s < PGSIZE /\ layout[k - 1].addr = z * PGSIZE + s
      BY <1>0, <1>4, Parted
    <3>4. PICK y \in Nat : y = z * PGSIZE
      BY <1>0
    <3>5. a < y /\ layout[k - 1].addr = y + s
      BY <3>2, <3>3, <3>4 DEF First
    <3>6. a < End(k - 1)
      BY <1>4, <3>5
    <3> QED
      BY <1>5, <3>6
  <2> QED
    BY <2>1, <2>2
<1> QED
  BY <1>2, <1>6

\* Memory after the segments of a program, for either loader.
LEMMA BytesLoaded ==
  ASSUME Inv, ~spilled, NEW d \in {1, 2}, d \in DOMAIN direct,
         NEW layout \in Layouts, Fits(layout, direct[d]),
         NEW f, NEW blank, DOMAIN blank = Addresses, Steps(f, d, layout, blank, Len(layout)),
         NEW j \in DOMAIN layout, NEW i \in 0 .. (layout[j].memsz - 1)
  PROVE  \/ f[Len(layout)][layout[j].addr + i] = Byte(direct[d], layout[j], i)
         \/ d = 2 /\ InLastSector(layout[j], i)
<1>0. /\ layout \in Seq(Header) /\ Linked(layout) /\ DOMAIN layout = 1 .. Len(layout)
      /\ Len(layout) \in Nat /\ MemSize \in Nat
  BY LoadingAssumption
<1>1. ASSUME NEW k \in DOMAIN layout PROVE Segment(d, layout[k]) /\ k \in Nat /\ k - 1 \in Nat
  <2>1. layout[k] \in Header
    BY <1>0
  <2> QED
    BY <1>0, <2>1 DEF Segment, Linked, Fits
<1>2. ASSUME NEW k \in DOMAIN layout, DOMAIN f[k - 1] = Addresses
      PROVE  /\ f[k] = Put(d, f[k - 1], layout[k]) /\ DOMAIN f[k] = Addresses
             /\ \A a \in Addresses : a < First(layout[k]) => f[k][a] = f[k - 1][a]
             /\ \A n \in 0 .. (layout[k].memsz - 1) : layout[k].addr + n \in Addresses =>
                  \/ f[k][layout[k].addr + n] = Byte(direct[d], layout[k], n)
                  \/ d = 2 /\ InLastSector(layout[k], n)
  <2>1. f[k] = Put(d, f[k - 1], layout[k])
    BY <1>0 DEF Steps
  <2>2. PICK memory, ph : memory = f[k - 1] /\ ph = layout[k]
    OBVIOUS
  <2>3. Segment(d, ph) /\ DOMAIN memory = Addresses /\ f[k] = Put(d, memory, ph)
    BY <1>1, <1>2, <2>1, <2>2
  <2>4. CASE d = 1
    <3>1. f[k] = BootSegment(memory, ph)
      BY <2>3, <2>4 DEF Put
    <3> QED
      BY <2>1, <2>2, <2>3, <2>4, <3>1, BootBytes
  <2>5. CASE d = 2
    <3>1. f[k] = GameSegment(memory, ph)
      BY <2>3, <2>5 DEF Put
    <3> QED
      BY <2>1, <2>2, <2>3, <2>5, <3>1, GameBytes
  <2> QED
    BY <2>4, <2>5
<1>3. \A k \in 0 .. Len(layout) : DOMAIN f[k] = Addresses
  <2> DEFINE Bad == {k \in Nat : k <= Len(layout) /\ DOMAIN f[k] # Addresses}
  <2>1. SUFFICES ASSUME Bad # {} PROVE FALSE
    BY <1>0
  <2>2. PICK k \in Bad : \A c \in Bad : k <= c
    <3>1. Bad \subseteq Nat
      OBVIOUS
    <3> HIDE DEF Bad
    <3> QED
      BY <2>1, <3>1, LeastExists
  <2>3. f[0] = blank
    BY <1>0 DEF Steps
  <2>4. k # 0
    BY <2>2, <2>3
  <2>5. k \in DOMAIN layout /\ k - 1 \in Nat /\ k - 1 \notin Bad
    BY <1>0, <2>2, <2>4
  <2>6. DOMAIN f[k - 1] = Addresses
    BY <1>0, <2>2, <2>5
  <2> QED
    BY <1>2, <2>2, <2>5, <2>6
<1>4. PICK a : a = layout[j].addr + i
  OBVIOUS
<1>5. a \in Addresses /\ a \in Nat /\ a < layout[j].addr + layout[j].memsz
  <2>1. /\ layout[j].addr \in Nat /\ layout[j].memsz \in Nat
        /\ layout[j].addr + layout[j].memsz <= MemSize
    <3>1. layout[j] \in Header
      BY <1>0
    <3> QED
      BY <1>0, <3>1 DEF Linked, Header
  <2>2. PICK x, y, z \in Nat : x = layout[j].addr /\ y = layout[j].memsz /\ z = MemSize
    BY <1>0, <2>1
  <2>3. a = x + i /\ x + y <= z /\ i \in Nat /\ i < y
    BY <1>4, <2>1, <2>2
  <2>4. a \in Nat /\ a < x + y /\ a \in 0 .. (z - 1)
    BY <2>3
  <2> QED
    BY <2>2, <2>4 DEF Addresses
<1>6. \A k \in j .. Len(layout) : f[k][a] = f[j][a]
  <2> DEFINE Bad == {k \in Nat : k \in j .. Len(layout) /\ f[k][a] # f[j][a]}
  <2>1. SUFFICES ASSUME Bad # {} PROVE FALSE
    BY <1>0
  <2>2. PICK k \in Bad : \A c \in Bad : k <= c
    <3>1. Bad \subseteq Nat
      OBVIOUS
    <3> HIDE DEF Bad
    <3> QED
      BY <2>1, <3>1, LeastExists
  <2>3. k # j /\ k \in j .. Len(layout) /\ f[k][a] # f[j][a]
    BY <2>2
  <2>4. /\ k \in DOMAIN layout /\ j < k /\ k - 1 \in Nat /\ k - 1 \notin Bad
        /\ k - 1 \in j .. Len(layout) /\ k - 1 \in 0 .. Len(layout)
    BY <1>0, <2>2, <2>3
  <2>5. f[k - 1][a] = f[j][a]
    BY <2>4
  <2>6. a < First(layout[k])
    BY <1>0, <1>5, <2>4, PagesApart
  <2>7. f[k][a] = f[k - 1][a]
    BY <1>2, <1>3, <1>5, <2>4, <2>6
  <2> QED
    BY <2>3, <2>5, <2>7
<1>7. f[Len(layout)][a] = f[j][a]
  BY <1>0, <1>6
<1>8. \/ f[j][a] = Byte(direct[d], layout[j], i)
      \/ d = 2 /\ InLastSector(layout[j], i)
  <2>1. j - 1 \in 0 .. Len(layout)
    BY <1>0
  <2>2. DOMAIN f[j - 1] = Addresses
    BY <1>3, <2>1
  <2> QED
    BY <1>2, <1>4, <1>5, <2>2
<1> QED
  BY <1>4, <1>7, <1>8

LEMMA InvLoaded == Inv => ProgramsLoaded
<1> SUFFICES ASSUME Inv, ~spilled, NEW d \in DOMAIN direct \cap {1, 2},
                    NEW layout \in Layouts, Fits(layout, direct[d]),
                    NEW blank, blank = [a \in Addresses |-> Junk], NEW image,
                    image = (IF d = 1 THEN LoadKernel(layout, blank)
                             ELSE LoadGame(layout, blank)),
                    NEW j \in DOMAIN layout
             PROVE  /\ \A i \in 0 .. (layout[j].memsz - 1) :
                         \/ image[layout[j].addr + i] = Byte(direct[d], layout[j], i)
                         \/ d = 2 /\ InLastSector(layout[j], i)
                    /\ \A p \in GamePages(layout[j]) : d = 2 =>
                         \A i \in DOMAIN SecBuf(layout[j], p) : i \notin 0 .. (PGSIZE - 1) =>
                            SecBuf(layout[j], p)[i] = Junk
  BY DEF ProgramsLoaded
<1>1. layout \in Seq(Header) /\ Linked(layout) /\ Len(layout) \in Nat
  BY LoadingAssumption
<1>2. PICK f : Steps(f, d, layout, blank, Len(layout)) /\ image = f[Len(layout)]
  <2>1. CASE d = 1
    BY <1>1, <2>1, LoadedKernel
  <2>2. CASE d = 2
    BY <1>1, <2>2, LoadedGame
  <2> QED
    BY <2>1, <2>2
<1>3. ASSUME NEW i \in 0 .. (layout[j].memsz - 1)
      PROVE  \/ image[layout[j].addr + i] = Byte(direct[d], layout[j], i)
             \/ d = 2 /\ InLastSector(layout[j], i)
  BY <1>2, BytesLoaded
<1>4. ASSUME NEW p \in GamePages(layout[j]), d = 2, NEW i \in DOMAIN SecBuf(layout[j], p),
             i \notin 0 .. (PGSIZE - 1)
      PROVE  SecBuf(layout[j], p)[i] = Junk
  <2>1. layout[j] \in Header
    BY <1>1
  <2>2. Segment(2, layout[j])
    BY <1>1, <1>4, <2>1 DEF Segment, Linked, Fits
  <2>3. p \in Nat
    BY DEF GamePages
  <2>4. PICK ph, e, r0 : ph = layout[j] /\ e = direct[2] /\ r0 = ph.addr % PGSIZE
    OBVIOUS
  <2>5. /\ DOMAIN SecBuf(ph, p) = (-SECTSIZE) .. (PGSIZE + SECTSIZE)
        /\ \A n \in (-SECTSIZE) .. (PGSIZE + SECTSIZE) :
             n \notin 0 .. (PGSIZE - 1) => SecBuf(ph, p)[n] = Junk
    BY <1>4, <2>2, <2>3, <2>4, Buffer
  <2> QED
    BY <1>4, <2>4, <2>5
<1> QED
  BY <1>3, <1>4

(***************************************************************************)
(* Whatever the sizes of sectors and pages, the program and the runs of    *)
(* copy2myfs before: the loaders put the bytes of the kernel and of the    *)
(* game where they belong, and sec_buf is not overrun.                     *)
(***************************************************************************)
THEOREM Loads == Spec => []ProgramsLoaded
  BY InvHolds, InvLoaded, PTL
=============================================================================
