------------------------------- MODULE FileIO -------------------------------
(***************************************************************************)
(* read, write and lseek of kernel/src/file_system/fs.c on one open file,  *)
(* down to the sectors of the disk.  The system calls copy blocks to and   *)
(* from a temporary buffer with strncpy and strcpy, and take the end of    *)
(* the text for the end of the file.                                       *)
(***************************************************************************)
EXTENDS Strings, FiniteSets

CONSTANTS
  BLOCK,     \* bytes of a block and of a sector: 512
  NBlocks,   \* blocks of the file; the entries of its inode after them are -1
  Chars,     \* the bytes other than '\0'
  MaxCount,  \* longest read or write
  Junk       \* what strlen may run on for behind a full block

ASSUME IOAssumption ==
  /\ BLOCK \in Nat \ {0}
  /\ NBlocks \in Nat \ {0}
  /\ Chars \subseteq 1 .. 255
  /\ MaxCount \in Nat
  /\ Junk \subseteq Nat

Byte     == Chars \cup {NUL}
FileSize == NBlocks * BLOCK
Bufs     == UNION {[1 .. n -> Byte] : n \in 1 .. MaxCount}

VARIABLES
  disk,    \* sector 0, the boot sector, and sector i + 1 for block i
  f_state, \* FCB.f_state; s_nonexist for a descriptor that names no FCB (-1)
  offset   \* FCB.offset

vars == <<disk, f_state, offset>>

s_nonexist == -1
s_r        == 0
s_w        == 1
s_rw       == 2

TypeOK ==
  /\ disk \in [0 .. NBlocks -> [0 .. (BLOCK - 1) -> Byte]]
  /\ f_state \in {s_nonexist, s_r, s_w, s_rw}
  /\ offset \in 0 .. (FileSize + MaxCount)

\* A file with any contents, opened in any mode.
Init ==
  /\ disk \in [0 .. NBlocks -> [0 .. (BLOCK - 1) -> Byte]]
  /\ f_state \in {s_nonexist, s_r, s_w, s_rw}
  /\ offset = 0

\* readseg and writeseg: data_block_offset[i] * 512 is in the sector after
\* that block's number, and for the entry -1 that is the boot sector.
Sector(i) == IF i < NBlocks THEN i + 1 ELSE 0

\* mutant: strlen never finds a full block.
TextLengthShort(b) == strnlen(b, 0, BLOCK - 1)

\* strlen of block b, which is followed by '\0' in a buffer that was cleared.
TextLength(b) == strnlen(b, 0, BLOCK)

(***************************************************************************)
(* The pieces of a transfer of n bytes at offset off: the block, the first *)
(* byte in it, the first byte of the user's buffer and the length.  The    *)
(* last piece may be empty.                                                *)
(***************************************************************************)
Pieces(off, n) ==
  LET nr    == off \div BLOCK
      start == off % BLOCK
      rest  == BLOCK - start
      num   == (off + n) \div BLOCK
      end   == (off + n) % BLOCK
  IN  IF num = nr
      THEN <<[blk |-> nr, at |-> start, from |-> 0, len |-> n]>>
      ELSE [i \in 1 .. (num - nr + 1) |->
             [blk  |-> nr + i - 1,
              at   |-> IF i = 1 THEN start ELSE 0,
              from |-> IF i = 1 THEN 0 ELSE rest + (i - 2) * BLOCK,
              len  |-> IF i = 1 THEN rest ELSE IF i = num - nr + 1 THEN end
                                                                  ELSE BLOCK]]

\* mutant: a piece is always copied to the start of its block.
WritePieceAtStart(d, p, buf) ==
  [d EXCEPT ![Sector(p.blk)] =
     [k \in 0 .. (BLOCK - 1) |->
        IF k \in 0 .. (p.len - 1) THEN StrncpyByte(buf, p.from + 1, k) ELSE @[k]]]

\* One piece of a write: read the block, strncpy into it, write it back.
WritePiece(d, p, buf) ==
  [d EXCEPT ![Sector(p.blk)] =
     [k \in 0 .. (BLOCK - 1) |->
        IF k \in p.at .. (p.at + p.len - 1)
        THEN StrncpyByte(buf, p.from + 1, k - p.at) ELSE @[k]]]

\* The disk after write(fd, buf, Len(buf)).
Written(d, off, buf) ==
  LET ps == Pieces(off, Len(buf))
      after[i \in 0 .. Len(ps)] ==
        IF i = 0 THEN d
                 ELSE LET before == after[i - 1]
                      IN  WritePiece(before, ps[i], buf)
  IN  after[Len(ps)]

(***************************************************************************)
(* Byte q (from 0) of the user's buffer after read(fd, buf, n), "kept" if  *)
(* read has not touched it.  The first and the last piece are strncpy'd; a *)
(* piece between them is strcpy'd, up to its '\0' and no further; and the  *)
(* '\0' after a full one lands on the byte behind it, where the next piece *)
(* goes, if there is anything in it.                                       *)
(***************************************************************************)
ReadByte(d, off, n, q) ==
  LET ps == Pieces(off, n)
      In(i) == q \in ps[i].from .. (ps[i].from + ps[i].len - 1)
      Strcpied(i) == i > 1 /\ i < Len(ps)
      Value(i) ==
        LET b == d[Sector(ps[i].blk)]
            k == q - ps[i].from
        IN  IF ~Strcpied(i) THEN StrncpyByte(b, ps[i].at, k)
            ELSE IF k < TextLength(b) THEN b[k]
            ELSE IF k = TextLength(b) THEN NUL ELSE "kept"
  IN  IF \E i \in DOMAIN ps : In(i)
      THEN Value(CHOOSE i \in DOMAIN ps : In(i))
      ELSE IF \E i \in DOMAIN ps :
                /\ Strcpied(i)
                /\ q = ps[i].from + BLOCK
                /\ TextLength(d[Sector(ps[i].blk)]) = BLOCK
      THEN NUL ELSE "kept"

\* mutant: the last block is counted in full.
EndsAfterLast(d, x) ==
  LET last == d[NBlocks] IN {FileSize + TextLength(last) + x}

\* lseek(fd, x, SEEK_END); buf[514] is not cleared, so that behind a full
\* block strlen goes on over what the stack holds.
Ends(d, x) ==
  LET last == d[NBlocks]
  IN  {FileSize - BLOCK + TextLength(last) + j + x :
         j \in IF TextLength(last) = BLOCK THEN Junk ELSE {0}}

InRange(x) == x \in 0 .. FileSize

\* Offsets are kept where the transfer begins inside the file or at its end.
Write(buf) ==
  /\ f_state \in {s_w, s_rw}
  /\ InRange(offset)
  /\ disk' = Written(disk, offset, buf)
  /\ offset' = offset + Len(buf)
  /\ UNCHANGED f_state

Read(n) ==
  /\ f_state \in {s_r, s_rw}
  /\ InRange(offset)
  /\ offset' = offset + n
  /\ UNCHANGED <<disk, f_state>>

\* read or write in the wrong mode, or any call on a descriptor without FCB,
\* returns -1.
Refused == f_state # s_rw /\ UNCHANGED vars

Lseek(whence) ==
  /\ f_state # s_nonexist
  /\ offset' \in whence
  /\ UNCHANGED <<disk, f_state>>

LseekSet(x) == Lseek({x})
LseekCur(x) == InRange(offset + x) /\ Lseek({offset + x})
LseekEnd(x) == Lseek({e \in Ends(disk, x) : InRange(e)})

Next ==
  \/ \E buf \in Bufs : Write(buf)
  \/ \E n \in 1 .. MaxCount : Read(n)
  \/ \E x \in 0 .. FileSize : LseekSet(x)
  \/ \E x \in {-1, 1} : LseekCur(x)
  \/ \E x \in {-1, 0} : LseekEnd(x)
  \/ Refused

Spec == Init /\ [][Next]_vars
-----------------------------------------------------------------------------
\* Byte q of the file.
FileByte(d, q) == d[(q \div BLOCK) + 1][q % BLOCK]

\* The file's text ends at e, in its last block, which has room left.
EndOfText(d, e) ==
  /\ \A q \in 0 .. (FileSize - 1) : (FileByte(d, q) # NUL) <=> q < e
  /\ FileSize - BLOCK <= e /\ e < FileSize

\* The bytes are text: there is nothing behind a '\0'.
IsText(buf) == \A k \in 1 .. (Len(buf) - 1) : buf[k] # NUL

(***************************************************************************)
(* A write of text that fits in the file's blocks changes exactly the      *)
(* bytes it was asked to, across any number of blocks; the other bytes of  *)
(* those blocks and the boot sector, to which the entries -1 of the inode  *)
(* lead, stay as they are.                                                 *)
(***************************************************************************)
WriteCorrect ==
  \A buf \in Bufs : IsText(buf) /\ offset + Len(buf) <= FileSize =>
    LET d == Written(disk, offset, buf)
    IN  /\ \A q \in 0 .. (FileSize - 1) :
             FileByte(d, q) = IF q \in offset .. (offset + Len(buf) - 1)
                              THEN buf[q - offset + 1] ELSE FileByte(disk, q)
        /\ d[0] = disk[0]

(***************************************************************************)
(* A read of text inside the file returns the bytes that are there, and    *)
(* touches nothing behind the buffer unless it ends on a block boundary    *)
(* (it may then store a '\0' behind the buffer).                           *)
(***************************************************************************)
ReadCorrect ==
  \A n \in 1 .. MaxCount :
    /\ offset + n <= FileSize
    /\ \A q \in 0 .. (n - 2) : FileByte(disk, offset + q) # NUL
    => /\ \A q \in 0 .. (n - 1) :
            ReadByte(disk, offset, n, q) = FileByte(disk, offset + q)
       /\ (offset + n) % BLOCK # 0 => ReadByte(disk, offset, n, n) = "kept"

(***************************************************************************)
(* When the file's blocks hold text that leaves room in the last one,      *)
(* lseek(fd, 0, SEEK_END) finds the end of the text, and after appending   *)
(* there it finds the new end.                                             *)
(***************************************************************************)
SeekEndCorrect ==
  \A e \in 0 .. FileSize : EndOfText(disk, e) =>
    /\ Ends(disk, 0) = {e}
    /\ \A buf \in Bufs : NUL \notin {buf[k] : k \in DOMAIN buf} /\ e + Len(buf) < FileSize =>
         Ends(Written(disk, e, buf), 0) = {e + Len(buf)}
=============================================================================
