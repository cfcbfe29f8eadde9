----------------------------- MODULE DiskImage -----------------------------
(***************************************************************************)
(* The host programs that build the disk: formatter.c lays out bitmap,     *)
(* directory and inodes, each run of copy2myfs.c adds files, read_myfs.c   *)
(* reads one back.  copy2myfs works on copies of the bitmap and of the     *)
(* directory and writes them back at its end, so a run that is cut short   *)
(* (a file that cannot be opened, exit(1)) leaves data and inodes behind   *)
(* that nothing refers to.                                                 *)
(*                                                                         *)
(* Blocks are counted from the directory's, bit 256 of the bitmap.  mem is *)
(* what a run keeps in memory, the other variables are what the disk holds.*)
(***************************************************************************)
EXTENDS Integers, Sequences, FiniteSets

CONSTANTS
  NR_DIR_ENTRY,    \* entries of the directory: 16
  NR_INODE_ENTRY,  \* blocks an inode lists: 128
  NInodes,         \* inodes formatter lays out: 32
  NBlocks,         \* blocks of the disk after the bitmap
  Sizes,           \* lengths of files, in blocks
  MaxFiles         \* bound on how many files are copied

ASSUME DiskAssumption ==
  /\ NR_DIR_ENTRY \in Nat /\ NR_INODE_ENTRY \in Nat \ {0}
  /\ NInodes \in Nat \ {0} /\ NBlocks \in Nat /\ NInodes < NBlocks
  /\ Sizes \subseteq Nat \ {0}
  /\ MaxFiles \in Nat

Block     == 0 .. (NBlocks - 1)
DirBlock  == 0
FirstData == NInodes      \* bit_alloc looks for data from byte 32 + 4 on,
                          \* the bit of the last inode

VARIABLES
  bitmap,  \* the bitmap on the disk: the blocks in use
  direct,  \* the directory on the disk: a sequence of entries
  sector,  \* contents of the blocks: <<"data", file, n>>, <<"inode", blocks>>
  mem,     \* a run of copy2myfs, or Ended
  files,   \* how many files have been copied or begun
  spilled  \* history: an inode was allocated behind the inodes

vars == <<bitmap, direct, sector, mem, files, spilled>>

Entry == [file : 1 .. MaxFiles, size : Sizes, inode_offset : Block]
Ended == [at |-> "ended"]

TypeOK ==
  /\ bitmap \subseteq Block
  /\ direct \in Seq(Entry) /\ Len(direct) <= NR_DIR_ENTRY
  /\ DOMAIN sector = Block
  /\ mem # Ended =>
       /\ mem.at \in {"next", "copy", "bitmap", "direct"}
       /\ mem.bitmap \subseteq Block
       /\ mem.direct \in Seq(Entry) /\ Len(mem.direct) <= NR_DIR_ENTRY
       /\ Len(mem.inode) <= NR_INODE_ENTRY
  /\ files \in 0 .. MaxFiles
  /\ spilled \in BOOLEAN

\* What formatter writes.
Init ==
  /\ bitmap = {DirBlock}
  /\ direct = <<>>
  /\ sector = [b \in Block |-> <<"blank">>]
  /\ mem = Ended
  /\ files = 0
  /\ spilled = FALSE

\* bit_alloc: b is the first free bit from base on.
BitAlloc(base, b) ==
  /\ b \in Block /\ b >= base /\ b \notin mem.bitmap
  /\ \A c \in base .. (b - 1) : c \in mem.bitmap

AllocInode(b) == BitAlloc(DirBlock, b)

AllocData(b)  == BitAlloc(FirstData, b)

\* A run begins and reads bitmap and directory.
Start ==
  /\ mem = Ended
  /\ files < MaxFiles
  /\ mem' = [at |-> "next", bitmap |-> bitmap, direct |-> direct,
             inode |-> <<>>, inode_num |-> 0, n |-> 0]
  /\ UNCHANGED <<bitmap, direct, sector, files, spilled>>

\* The next argument: an inode and a directory entry for a file.
NextFile(size) ==
  /\ mem.at = "next"
  /\ files < MaxFiles
  /\ Len(mem.direct) < NR_DIR_ENTRY
  /\ \E b \in Block :
       /\ AllocInode(b)
       /\ mem' = [mem EXCEPT !.at = "copy", !.bitmap = @ \cup {b},
                    !.direct = Append(@, [file |-> files + 1, size |-> size,
                                          inode_offset |-> b]),
                    !.inode = <<>>, !.inode_num = 0, !.n = 0]
       /\ spilled' = (spilled \/ b >= FirstData)
  /\ files' = files + 1
  /\ UNCHANGED <<bitmap, direct, sector>>

LastEntry == mem.direct[Len(mem.direct)]

\* Where the current inode is written: behind the file's first one.
InodeSector == LastEntry.inode_offset + mem.inode_num

InodeHasRoom == Len(mem.inode) < NR_INODE_ENTRY

\* One block of data, with an entry left in the current inode.
CopyBlock ==
  /\ mem.at = "copy" /\ mem.n < LastEntry.size
  /\ InodeHasRoom
  /\ \E b \in Block :
       /\ AllocData(b)
       /\ sector' = [sector EXCEPT ![b] = <<"data", LastEntry.file, mem.n>>]
       /\ mem' = [mem EXCEPT !.bitmap = @ \cup {b}, !.inode = Append(@, b),
                             !.n = @ + 1]
  /\ UNCHANGED <<bitmap, direct, files, spilled>>

\* One block of data when the current inode is full: it is written, and the
\* block goes into a new one.
NewInode ==
  /\ mem.at = "copy" /\ mem.n < LastEntry.size
  /\ ~InodeHasRoom
  /\ \E b, c \in Block :
       /\ AllocData(b)
       /\ c # b /\ c \notin mem.bitmap
       /\ \A x \in DirBlock .. (c - 1) : x \in mem.bitmap \cup {b}
       /\ sector' = [sector EXCEPT ![InodeSector] = <<"inode", mem.inode>>,
                                   ![b] = <<"data", LastEntry.file, mem.n>>]
       /\ mem' = [mem EXCEPT !.bitmap = @ \cup {b, c}, !.inode = <<b>>,
                             !.inode_num = @ + 1, !.n = @ + 1]
       /\ spilled' = (spilled \/ c >= FirstData)
  /\ UNCHANGED <<bitmap, direct, files>>

\* The file is done: its last inode is written.
EndFile ==
  /\ mem.at = "copy" /\ mem.n = LastEntry.size
  /\ sector' = [sector EXCEPT ![InodeSector] = <<"inode", mem.inode>>]
  /\ mem' = [mem EXCEPT !.at = "next"]
  /\ UNCHANGED <<bitmap, direct, files, spilled>>

\* All arguments done: the bitmap is written, then the directory.
NoMoreFiles ==
  /\ mem.at = "next"
  /\ mem' = [mem EXCEPT !.at = "bitmap"]
  /\ UNCHANGED <<bitmap, direct, sector, files, spilled>>

\* mutant: the bitmap is not written.
WriteBitmapForgotten ==
  /\ mem.at = "bitmap"
  /\ mem' = [mem EXCEPT !.at = "direct"]
  /\ UNCHANGED <<bitmap, direct, sector, files, spilled>>

WriteBitmap ==
  /\ mem.at = "bitmap"
  /\ bitmap' = mem.bitmap
  /\ mem' = [mem EXCEPT !.at = "direct"]
  /\ UNCHANGED <<direct, sector, files, spilled>>

WriteDirect ==
  /\ mem.at = "direct"
  /\ direct' = mem.direct
  /\ mem' = Ended
  /\ UNCHANGED <<bitmap, sector, files, spilled>>

\* The run is cut short.
Abort ==
  /\ mem # Ended
  /\ mem' = Ended
  /\ UNCHANGED <<bitmap, direct, sector, files, spilled>>

\* Nobody runs copy2myfs again.
Rest == mem = Ended /\ UNCHANGED vars

Next ==
  \/ Start
  \/ \E size \in Sizes : NextFile(size)
  \/ CopyBlock \/ NewInode \/ EndFile
  \/ NoMoreFiles \/ WriteBitmap \/ WriteDirect
  \/ Abort \/ Rest

Spec == Init /\ [][Next]_vars
-----------------------------------------------------------------------------
\* Entry j of the inode in block b of the disk; blank blocks list nothing.
Listed(b, j) ==
  IF b \in Block /\ sector[b][1] = "inode" /\ j < Len(sector[b][2])
  THEN sector[b][2][j + 1] ELSE -1

\* The block that holds block n of the file of entry e.
Place(e, n) ==
  Listed(e.inode_offset + (n \div NR_INODE_ENTRY), n % NR_INODE_ENTRY)

(***************************************************************************)
(* The block read_myfs takes for block n: at the end of an inode it reads  *)
(* the inode number inode_num of the file and only then increments         *)
(* inode_num, which starts at 0.                                           *)
(***************************************************************************)
ReadMyfs(e, n) ==
  LET refills == n \div NR_INODE_ENTRY
      inode   == IF refills = 0 THEN 0 ELSE refills - 1
  IN  Listed(e.inode_offset + inode, n % NR_INODE_ENTRY)

Recorded == {direct[k] : k \in DOMAIN direct}
Holds(b, e, n) == b \in Block /\ sector[b] = <<"data", e.file, n>>

(***************************************************************************)
(* Every file of the directory on the disk is complete, at every moment:   *)
(* while a run allocates and writes, after one that was cut short, and     *)
(* after the one that comes next and takes the same blocks again.          *)
(* read_myfs brings back the blocks of a file that one inode can list.     *)
(***************************************************************************)
RecordedFilesIntact ==
  ~spilled => \A e \in Recorded, n \in 0 .. (NBlocks - 1) :
    n < e.size =>
      /\ Holds(Place(e, n), e, n)
      /\ e.size <= NR_INODE_ENTRY => Holds(ReadMyfs(e, n), e, n)
=============================================================================
