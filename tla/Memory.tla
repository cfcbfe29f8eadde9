------------------------------- MODULE Memory -------------------------------
(***************************************************************************)
(* Physical pages and address spaces: the free list of                     *)
(* kernel/src/memory/pmap.c and what fork (copy), create_thread            *)
(* (thread_copy) and exit (release) do to it, one page at a time.          *)
(* Interrupts are closed while they run, so no two of them interleave.     *)
(*                                                                         *)
(* Page directories and page tables are pages; ent[g] are the entries of   *)
(* page g.  A directory has three entries, the ones the programs have: the *)
(* video memory, the text and the user stack; the entries above 0xC0000000 *)
(* are the kernel's and the same everywhere.  The contents of user pages   *)
(* are left out, and so is pp_ref, which no reachable code reads.          *)
(***************************************************************************)
EXTENDS Integers, FiniteSets

CONSTANTS
  NPages,      \* pages page_init puts on the free list: 31743
  NR_PTE,      \* entries of a page table: 1024
  Procs        \* PCBs of user processes, a set 1 .. n

ASSUME MemAssumption ==
  /\ NR_PTE \in Nat \ {0}
  /\ NPages \in Nat /\ NPages >= NR_PTE + 3
  /\ Procs \subseteq Nat /\ 1 \in Procs

NULL     == 0
Ram      == 1 .. NPages
updir    == NPages + 1     \* static pages of the kernel and of the display,
vdtable  == NPages + 2     \* among the first 1025 pages, which page_init
VMEM     == NPages + 3     \* keeps off the list
Reserved == {updir, vdtable, VMEM}
Pages    == Ram \cup Reserved

VideoDir == 0
TextDir  == 1
StackDir == 2
\* The entries of a page: a table's, and at least a directory's three.
Index    == 0 .. (IF NR_PTE > 3 THEN NR_PTE - 1 ELSE 2)
Zeroed   == [i \in Index |-> NULL]

VARIABLES
  page_free_list,  \* the first free page
  pp_link,         \* PageInfo.pp_link: the next one
  ent,             \* the entries of every page, as directory or table
  cr3,             \* page directory of each process, NULL for a free PCB
  team,            \* the process whose threads each process belongs to
  op,              \* the kernel function in progress and where it is
  halted,          \* a page fault has stopped the machine
  torn             \* history: a process has exited that shared its tables

vars == <<page_free_list, pp_link, ent, cr3, team, op, halted, torn>>

\* from: the directory read; dir: the one being built; proc: its PCB;
\* i, j: indices of the loops, j = -1 before the table is dealt with.
Idle == [do |-> "idle", proc |-> 1, from |-> NULL, dir |-> NULL, i |-> 0, j |-> -1]

TypeOK ==
  /\ page_free_list \in Pages \cup {NULL}
  /\ pp_link \in [Pages -> Pages \cup {NULL}]
  /\ ent \in [Pages -> [Index -> Pages \cup {NULL}]]
  /\ cr3 \in [Procs -> Pages \cup {NULL}]
  /\ team \in [Procs -> Procs]
  /\ op \in [do : {"boot", "idle", "copy", "thread", "release"}, proc : Procs,
             from : Pages \cup {NULL}, dir : Pages \cup {NULL},
             i : 0 .. 3, j : -1 .. NR_PTE]
  /\ halted \in BOOLEAN
  /\ torn \in BOOLEAN

(***************************************************************************)
(* page_init links the pages in ascending order, so the highest comes off  *)
(* first.  The loader then walks: a table and a page for the text, a table *)
(* and a full set of pages for the stack; and maps the display.            *)
(***************************************************************************)
StackTable == NPages - 2
Init ==
  /\ page_free_list = NPages - 3 - NR_PTE
  /\ pp_link = [g \in Pages |-> IF g <= page_free_list THEN g - 1 ELSE NULL]
  /\ ent = [[g \in Pages |-> Zeroed] EXCEPT
              ![updir] = [i \in Index |-> CASE i = VideoDir -> vdtable
                                            [] i = TextDir  -> NPages
                                            [] i = StackDir -> StackTable
                                            [] OTHER        -> NULL],
              ![vdtable][0] = VMEM,
              ![NPages][0] = NPages - 1,
              ![StackTable] = [i \in Index |-> IF i < NR_PTE
                                               THEN StackTable - 1 - i ELSE NULL]]
  /\ cr3 = [p \in Procs |-> IF p = 1 THEN updir ELSE NULL]
  /\ team = [p \in Procs |-> p]
  /\ op = Idle
  /\ halted = FALSE
  /\ torn = FALSE

Live == {p \in Procs : cr3[p] # NULL}

\* get_pcb(): the lowest free PCB.
FirstFree(c) == cr3[c] = NULL /\ \A q \in Procs : q < c => cr3[q] # NULL

Shares(p) == \E q \in Live \ {p} : team[q] = team[p]

\* mutant: the allocated page stays at the head of the list.
page_alloc_keeps(contents, g, k) ==
  /\ page_free_list # NULL
  /\ UNCHANGED <<page_free_list, pp_link>>
  /\ ent' = [h \in Pages |->
       IF h = g THEN [ent[h] EXCEPT ![k] = page_free_list]
       ELSE IF h = page_free_list THEN contents ELSE ent[h]]

(***************************************************************************)
(* page_alloc(ALLOC_ZERO), its page then filled with `contents' and        *)
(* written into entry k of page g (g = NULL: nowhere).                     *)
(***************************************************************************)
page_alloc(contents, g, k) ==
  /\ page_free_list # NULL
  /\ page_free_list' = pp_link[page_free_list]
  /\ pp_link' = [pp_link EXCEPT ![page_free_list] = NULL]
  /\ ent' = [h \in Pages |->
       IF h = g /\ h = page_free_list
       THEN [contents EXCEPT ![k] = page_free_list]
       ELSE IF h = g THEN [ent[h] EXCEPT ![k] = page_free_list]
       ELSE IF h = page_free_list THEN contents
       ELSE ent[h]]

page_free(g) ==
  /\ pp_link' = [pp_link EXCEPT ![g] = page_free_list]
  /\ page_free_list' = g
  /\ UNCHANGED ent

Busy(do) == ~halted /\ op.do = do

\* The next system call.  After `torn' what the remaining threads find in
\* their memory is undefined, and the model goes no further.
Calls(p) == Busy("idle") /\ ~torn /\ p \in Live

\* The indices the loops over a page table visit.
PteLoop == 0 .. (NR_PTE - 1)

\* page_alloc returns NULL, and the caller dereferences it.
NeedsPage ==
  \/ Busy("thread")
  \/ /\ Busy("copy") /\ op.i < 3
     /\ ent[op.from][op.i] # NULL
     /\ op.j >= 0 =>
          op.j < NR_PTE /\ ent[ent[op.from][op.i]][op.j] # NULL

OutOfMemory ==
  /\ page_free_list = NULL
  /\ NeedsPage \/ \E p, c \in Procs : Calls(p) /\ FirstFree(c)
  /\ halted' = TRUE
  /\ UNCHANGED <<page_free_list, pp_link, ent, cr3, team, op, torn>>

(***************************************************************************)
(* fork: copy() allocates a directory; a table for every table of the      *)
(* father; a page, with the father's contents, for every page of it.       *)
(***************************************************************************)
Fork(p, c) ==
  /\ Calls(p) /\ FirstFree(c)
  /\ page_alloc(Zeroed, NULL, 0)
  /\ cr3' = [cr3 EXCEPT ![c] = page_free_list]
  /\ team' = [team EXCEPT ![c] = c]
  /\ op' = [do |-> "copy", proc |-> c, from |-> cr3[p], dir |-> page_free_list,
            i |-> 0, j |-> -1]
  /\ UNCHANGED <<halted, torn>>

CopyTable ==
  /\ Busy("copy") /\ op.i < 3 /\ op.j = -1
  /\ ent[op.from][op.i] # NULL
  /\ page_alloc(Zeroed, op.dir, op.i)
  /\ op' = [op EXCEPT !.j = 0]
  /\ UNCHANGED <<cr3, team, halted, torn>>

CopyPage ==
  /\ Busy("copy") /\ op.i < 3 /\ op.j \in PteLoop
  /\ LET father_t == ent[op.from][op.i]
         child_t  == ent[op.dir][op.i]
     IN  \/ /\ ent[father_t][op.j] # NULL
            /\ page_alloc(ent[ent[father_t][op.j]], child_t, op.j)
         \/ /\ ent[father_t][op.j] = NULL
            /\ UNCHANGED <<page_free_list, pp_link, ent>>
  /\ op' = [op EXCEPT !.j = @ + 1]
  /\ UNCHANGED <<cr3, team, halted, torn>>

\* The next directory entry: the table is done, or there is none.
CopyNext ==
  /\ Busy("copy") /\ op.i < 3
  /\ op.j = NR_PTE \/ ent[op.from][op.i] = NULL
  /\ op' = [op EXCEPT !.i = @ + 1, !.j = -1]
  /\ UNCHANGED <<page_free_list, pp_link, ent, cr3, team, halted, torn>>

CopyDone ==
  /\ Busy("copy") /\ op.i = 3
  /\ op' = Idle
  /\ UNCHANGED <<page_free_list, pp_link, ent, cr3, team, halted, torn>>

(***************************************************************************)
(* create_thread: thread_copy() allocates a directory with the father's    *)
(* entries, so that the tables are shared, and a stack of its own.         *)
(***************************************************************************)
CreateThread(p, c) ==
  /\ Calls(p) /\ FirstFree(c)
  /\ page_alloc(ent[cr3[p]], NULL, 0)
  /\ cr3' = [cr3 EXCEPT ![c] = page_free_list]
  /\ team' = [team EXCEPT ![c] = team[p]]
  /\ op' = [do |-> "thread", proc |-> c, from |-> cr3[p],
            dir |-> page_free_list, i |-> StackDir, j |-> -1]
  /\ UNCHANGED <<halted, torn>>

\* mutant: the thread keeps its father's stack.
ThreadTableShared ==
  /\ Busy("thread") /\ op.j = -1
  /\ op' = Idle
  /\ UNCHANGED <<page_free_list, pp_link, ent, cr3, team, halted, torn>>

ThreadTable ==
  /\ Busy("thread") /\ op.j = -1
  /\ page_alloc(Zeroed, op.dir, StackDir)
  /\ op' = [op EXCEPT !.j = 0]
  /\ UNCHANGED <<cr3, team, halted, torn>>

ThreadPage ==
  /\ Busy("thread") /\ op.j >= 0
  /\ page_alloc(Zeroed, ent[op.dir][StackDir], op.j)
  /\ op' = IF op.j + 1 = NR_PTE THEN Idle ELSE [op EXCEPT !.j = @ + 1]
  /\ UNCHANGED <<cr3, team, halted, torn>>

(***************************************************************************)
(* exit: release() frees every page of every table, then the table, and at *)
(* the end the directory, whether or not another process uses them.        *)
(***************************************************************************)
Exit(p) ==
  /\ Calls(p)
  /\ op' = [do |-> "release", proc |-> p, from |-> cr3[p], dir |-> NULL,
            i |-> 0, j |-> 0]
  /\ torn' = (torn \/ Shares(p))
  /\ UNCHANGED <<page_free_list, pp_link, ent, cr3, team, halted>>

ReleasePage ==
  /\ Busy("release") /\ op.i < 3 /\ op.j \in PteLoop
  /\ ent[op.from][op.i] # NULL
  /\ LET pte == ent[ent[op.from][op.i]][op.j]
     IN  IF pte = NULL THEN UNCHANGED <<page_free_list, pp_link, ent>>
                       ELSE page_free(pte)
  /\ op' = [op EXCEPT !.j = @ + 1]
  /\ UNCHANGED <<cr3, team, halted, torn>>

ReleaseTable ==
  /\ Busy("release") /\ op.i < 3
  /\ \/ ent[op.from][op.i] = NULL /\ UNCHANGED <<page_free_list, pp_link, ent>>
     \/ ent[op.from][op.i] # NULL /\ op.j = NR_PTE /\ page_free(ent[op.from][op.i])
  /\ op' = [op EXCEPT !.i = @ + 1, !.j = 0]
  /\ UNCHANGED <<cr3, team, halted, torn>>

\* mutant: the directory is not freed.
ReleaseDirKept ==
  /\ Busy("release") /\ op.i = 3
  /\ cr3' = [cr3 EXCEPT ![op.proc] = NULL]
  /\ op' = Idle
  /\ UNCHANGED <<page_free_list, pp_link, ent, team, halted, torn>>

ReleaseDir ==
  /\ Busy("release") /\ op.i = 3
  /\ page_free(op.from)
  /\ cr3' = [cr3 EXCEPT ![op.proc] = NULL]
  /\ op' = Idle
  /\ UNCHANGED <<team, halted, torn>>

\* No system call is made, or the machine has stopped.  An operation that
\* has begun, on the other hand, can always go on.
NoCall == (halted \/ op.do = "idle") /\ UNCHANGED vars

Next ==
  \/ \E p, c \in Procs : Fork(p, c) \/ CreateThread(p, c)
  \/ \E p \in Procs : Exit(p)
  \/ CopyTable \/ CopyPage \/ CopyNext \/ CopyDone
  \/ ThreadTable \/ ThreadPage
  \/ ReleasePage \/ ReleaseTable \/ ReleaseDir
  \/ OutOfMemory
  \/ NoCall

Spec == Init /\ [][Next]_vars
-----------------------------------------------------------------------------
\* The k-th page of the free list, NULL after its end.
Chain[k \in 0 .. Cardinality(Pages)] ==
  IF k = 0 THEN page_free_list
  ELSE LET g == Chain[k - 1] IN IF g = NULL THEN NULL ELSE pp_link[g]

FreePages == {Chain[k] : k \in 0 .. Cardinality(Pages)} \ {NULL}

Entries(g) == {ent[g][i] : i \in Index} \ {NULL}
Tables(p)  == Entries(cr3[p])
Used(p)    == {cr3[p]} \cup Tables(p) \cup UNION {Entries(t) : t \in Tables(p)}
StackOf(p) == {ent[cr3[p]][StackDir]} \cup Entries(ent[cr3[p]][StackDir])

\* Between two operations, with the machine still running.
Quiet == op.do = "idle" /\ ~halted

(***************************************************************************)
(* The free list ends (page_free never puts a page on it twice, not even   *)
(* half-way through an operation), and between operations no page of a     *)
(* living process is on it, unless a thread has exited.                    *)
(***************************************************************************)
FreeListSound ==
  /\ Chain[Cardinality(Pages)] = NULL
  /\ Quiet /\ ~torn => \A p \in Live : Used(p) \cap FreePages = {}

(***************************************************************************)
(* Processes that are not threads of one another have no page in common,   *)
(* and threads do not share their stacks.                                  *)
(***************************************************************************)
Isolation ==
  Quiet => \A p, q \in Live : p # q =>
    /\ team[p] # team[q] => Used(p) \cap Used(q) = {}
    /\ StackOf(p) \cap Used(q) = {}

\* No page is lost: whatever page_init handed out is free or in use.
NoLeak == Quiet => Ram \subseteq FreePages \cup UNION {Used(p) : p \in Live}
=============================================================================
