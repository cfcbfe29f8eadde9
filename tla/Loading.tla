------------------------------ MODULE Loading ------------------------------
(***************************************************************************)
(* How the two programs come off the disk that DiskImage writes: bootmain  *)
(* loads the kernel, the file of directory entry 0, and loader() the game, *)
(* entry 1.  Both take the first block from the inode and count on from    *)
(* there, in whole sectors.                                                *)
(*                                                                         *)
(* A byte of a file is <<file, offset>>.  The ELF header, which says where *)
(* the segments are, is a layout: a sequence of program headers.           *)
(***************************************************************************)
EXTENDS DiskImage

CONSTANTS
  SECTSIZE,   \* bytes of a sector: 512
  PGSIZE,     \* bytes of a page: 4096
  MemSize,    \* bytes of memory
  Layouts     \* what the headers of a program may say

Zero == <<0>>    \* a cleared byte
Junk == <<-1>>   \* what memory held before

Header == [off : Nat, addr : Nat, filesz : Nat, memsz : Nat]

\* The linker puts a segment into memory at the offset in a page that it has in
\* the file, no two segments on one page, and the addresses in ascending order.
Linked(layout) ==
  \A k \in DOMAIN layout :
    /\ layout[k].off % PGSIZE = layout[k].addr % PGSIZE
    /\ layout[k].filesz <= layout[k].memsz
    /\ layout[k].addr + layout[k].memsz <= MemSize
    /\ k > 1 => (layout[k-1].addr + layout[k-1].memsz - 1) \div PGSIZE
                  < layout[k].addr \div PGSIZE

ASSUME LoadingAssumption ==
  /\ SECTSIZE \in Nat \ {0} /\ PGSIZE \in Nat \ {0} /\ PGSIZE % SECTSIZE = 0
  /\ MemSize \in Nat
  /\ \A layout \in Layouts : layout \in Seq(Header) /\ Linked(layout)

\* readsect: a byte at this distance from the start of the blocks.
readsect(offset) ==
  LET s == sector[offset \div SECTSIZE]
  IN  IF s[1] = "data" THEN <<s[2], s[3] * SECTSIZE + (offset % SECTSIZE)>> ELSE Junk

\* mutant: the address is not moved back to where the sector begins.
readseg_unaligned(memory, pa, count, offset) ==
  LET sectors == (count + SECTSIZE - 1) \div SECTSIZE
      start   == offset - (offset % SECTSIZE)
  IN  [a \in DOMAIN memory |->
         IF a \in pa .. (pa + sectors * SECTSIZE - 1) THEN readsect(start + (a - pa))
         ELSE memory[a]]

\* readseg: whole sectors, so that bytes before pa and behind pa + count are
\* written too.
readseg(memory, pa, count, offset) ==
  LET from    == pa - (offset % SECTSIZE)
      sectors == (count + (offset % SECTSIZE) + SECTSIZE - 1) \div SECTSIZE
      start   == offset - (offset % SECTSIZE)
  IN  [a \in DOMAIN memory |->
         IF a \in from .. (from + sectors * SECTSIZE - 1) THEN readsect(start + (a - from))
         ELSE memory[a]]

\* data_block_offset[0] of the inode of directory entry k, in bytes.
FirstByte(k) == Listed(direct[k].inode_offset, 0) * SECTSIZE

\* bootmain, one program header: the segment is read, then the rest cleared.
BootSegment(memory, ph) ==
  LET read == readseg(memory, ph.addr, ph.filesz, FirstByte(1) + ph.off)
  IN  [a \in DOMAIN memory |->
         IF a \in (ph.addr + ph.filesz) .. (ph.addr + ph.memsz - 1) THEN Zero ELSE read[a]]

LoadKernel(layout, memory) ==
  LET after[k \in 0 .. Len(layout)] ==
        IF k = 0 THEN memory ELSE BootSegment(after[k - 1], layout[k])
  IN  after[Len(layout)]

\* The bytes of ph in the pages before its page k.
Loaded(ph, k) ==
  LET num == k * PGSIZE - (IF k = 0 THEN 0 ELSE ph.addr % PGSIZE)
  IN  IF num < ph.filesz THEN num ELSE ph.filesz

(***************************************************************************)
(* loader, page k of a segment: sec_buf is cleared, the bytes that the     *)
(* file has for the page are read into it, and all of it is copied.  The   *)
(* buffer is given with what lies around it on the stack.                  *)
(***************************************************************************)
SecBuf(ph, k) ==
  LET off     == IF k = 0 THEN ph.addr % PGSIZE ELSE 0
      num     == Loaded(ph, k)
      rest    == IF ph.filesz - num < PGSIZE - off THEN ph.filesz - num ELSE PGSIZE - off
      cleared == [i \in (-SECTSIZE) .. (PGSIZE + SECTSIZE) |->
                    IF i \in 0 .. (PGSIZE - 1) THEN Zero ELSE Junk]
  IN  IF rest = 0 THEN cleared
      ELSE readseg(cleared, off, rest, FirstByte(2) + ph.off + num)

GamePages(ph) ==
  IF ph.memsz = 0 THEN {}
  ELSE 0 .. (((ph.addr + ph.memsz - 1) \div PGSIZE) - (ph.addr \div PGSIZE))

\* All pages of one segment; the pages mm_malloc returns are cleared.
GameSegment(memory, ph) ==
  LET first == ph.addr - (ph.addr % PGSIZE)
      page(a) == (a - first) \div PGSIZE
  IN  [a \in DOMAIN memory |->
         IF a >= first /\ page(a) \in GamePages(ph)
         THEN SecBuf(ph, page(a))[(a - first) % PGSIZE] ELSE memory[a]]

LoadGame(layout, memory) ==
  LET after[k \in 0 .. Len(layout)] ==
        IF k = 0 THEN memory ELSE GameSegment(after[k - 1], layout[k])
  IN  after[Len(layout)]
-----------------------------------------------------------------------------
Addresses == 0 .. (MemSize - 1)
Fits(layout, e) ==
  \A k \in DOMAIN layout : layout[k].off + layout[k].filesz <= e.size * SECTSIZE

\* Byte i of a segment is the file's; behind the file's bytes it is zero.
Byte(e, ph, i) == IF i < ph.filesz THEN <<e.file, ph.off + i>> ELSE Zero

\* Byte i of ph lies behind the file's bytes in the last sector read.
InLastSector(ph, i) ==
  /\ i >= ph.filesz /\ ph.filesz > 0
  /\ (ph.off + i) \div SECTSIZE = (ph.off + ph.filesz - 1) \div SECTSIZE

(***************************************************************************)
(* The programs in memory are the ones that were copied onto the disk.     *)
(* Whatever runs of copy2myfs came before, bootmain finds every byte of    *)
(* the kernel's segments, and zeros behind them, although it never looks   *)
(* at the second entry of the inode and reads over both ends of a segment. *)
(* So does loader(), except that the game's variables without a value that *)
(* share the last sector with those that have one start out as whatever    *)
(* the file has there; and readseg never writes outside sec_buf.           *)
(***************************************************************************)
ProgramsLoaded ==
  ~spilled => \A k \in DOMAIN direct \cap {1, 2} : \A layout \in Layouts :
    Fits(layout, direct[k]) =>
      LET blank == [a \in Addresses |-> Junk]
          image == IF k = 1 THEN LoadKernel(layout, blank) ELSE LoadGame(layout, blank)
      IN  \A j \in DOMAIN layout : LET ph == layout[j] IN
            /\ \A i \in 0 .. (ph.memsz - 1) :
                 \/ image[ph.addr + i] = Byte(direct[k], ph, i)
                 \/ k = 2 /\ InLastSector(ph, i)
            /\ \A p \in GamePages(ph) : LET buf == SecBuf(ph, p) IN
                 k = 2 => \A i \in DOMAIN buf : i \notin 0 .. (PGSIZE - 1) => buf[i] = Junk
=============================================================================
