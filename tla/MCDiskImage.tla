---------------------------- MODULE MCDiskImage ----------------------------
(* Up to four files of one to four sectors of two bytes, with inodes of two *)
(* entries; programs of one or two segments that a linker could lay out on  *)
(* pages of four bytes.                                                     *)
EXTENDS Loading

Segments ==
  [off : {0, 1, 3, 4}, addr : {0, 1, 3}, filesz : 0 .. 5, memsz : {1, 5, 7}]

Programs ==
  {l \in {<<s>> : s \in Segments}
         \cup {<<s, [off |-> s.off + 4, addr |-> s.addr + 8, filesz |-> f, memsz |-> 3]>> :
                 s \in Segments, f \in 0 .. 3} : Linked(l)}
=============================================================================
