-------------------------------- MODULE Boot --------------------------------
(***************************************************************************)
(* From the boot sector to the first interrupt: boot/start.S, bootmain,    *)
(* the kernel's init() and init_cond(), with the set-up of paging          *)
(* (kvm.c, mm.c), segments and gates, the interrupt controller, the        *)
(* process table and the loader.  Then Memory takes over.                  *)
(*                                                                         *)
(* The kernel is linked at KOFFSET and starts out at its physical address, *)
(* so at every step the question is which half of the address space the    *)
(* processor can reach: code, stack, and whatever the step dereferences.   *)
(***************************************************************************)
EXTENDS Memory

CONSTANTS
  NFrames,     \* page frames of the machine, PHY_MEM / PAGE_SIZE: 32768
  KOFFSET,     \* the page at which the kernel is linked: 0xC0000000
  MAX_PCB, MaxProcs, SLICE, Sleeptime, INT_MAX   \* as in Pcb

ASSUME BootAssumption ==
  /\ NFrames \in Nat \ {0} /\ NFrames % NR_PTE = 0
  /\ KOFFSET \in Nat /\ KOFFSET % NR_PTE = 0 /\ KOFFSET >= NFrames
  /\ MAX_PCB \in Nat

Frames == 0 .. (NFrames - 1)
NR_PDE == (KOFFSET + NFrames) \div NR_PTE
PDEs   == 0 .. (NR_PDE - 1)
None   == -1

VARIABLES
  step,      \* what is executed next
  cpu,       \* the processor's registers
  kpdir,     \* the kernel's page directory: the table in each entry
  kptable,   \* its tables, one after the other: the frame in each entry
  upper,     \* the entries of updir that Memory leaves out, for the kernel
  pic,       \* vectors of the two controllers' first lines
  walked,    \* pages of the user stack so far
  status, time_count, sleep_time, current   \* as in Pcb

bootVars == <<step, cpu, kpdir, kptable, upper, pic, walked,
              status, time_count, sleep_time, current>>

Pcb == INSTANCE Pcb WITH cr3 <- current

Low  == "low"    \* a physical address as it stands
High == "high"   \* the same address above KOFFSET
Nowhere == "nowhere"
NoTables == [d \in PDEs |-> None]

\* The frame that page v is mapped to by directory dir.
Translate(dir, v) ==
  IF dir[v \div NR_PTE] = None THEN None
  ELSE kptable[dir[v \div NR_PTE] * NR_PTE + (v % NR_PTE)]

Maps(dir, half) ==
  \A f \in Frames : Translate(dir, IF half = High THEN f + KOFFSET ELSE f) = f

\* Memory can be used at its addresses in this half.
Reach(half) == IF cpu.pg THEN Maps(kpdir, half) ELSE half = Low

\* The BIOS has loaded the boot sector; memory holds anything.
BootInit ==
  /\ step = "start"
  /\ cpu = [pe |-> FALSE, pg |-> FALSE, eip |-> Low, esp |-> Nowhere,
            gdt |-> Nowhere, idt |-> Nowhere, tr |-> FALSE, df |-> FALSE, intr |-> TRUE]
  /\ kpdir = NoTables
  /\ kptable = [f \in Frames |-> None]
  /\ upper = NoTables
  /\ pic = [master |-> 8, slave |-> 112]
  /\ walked = 0
  /\ status \in {[p \in Pcb!Slots |-> s] : s \in {Pcb!New, Pcb!Ready}}
  /\ time_count = [p \in Pcb!Slots |-> 0]
  /\ sleep_time = [p \in Pcb!Slots |-> 0]
  /\ current = 0
  /\ page_free_list \in {NULL, VMEM}
  /\ pp_link = [g \in Pages |-> NULL]
  /\ ent = [g \in Pages |-> Zeroed]
  /\ cr3 = [p \in Procs |-> NULL]
  /\ team = [p \in Procs |-> p]
  /\ op = [Idle EXCEPT !.do = "boot"]
  /\ halted = FALSE
  /\ torn = FALSE

At(here, next) == step = here /\ step' = next

pcbVars    == <<status, time_count, sleep_time, current>>
pagingVars == <<kpdir, kptable, upper>>

\* start.S: interrupts off, protected mode with a flat GDT in the boot sector,
\* a stack below 0x8000.
Start ==
  /\ At("start", "bootmain")
  /\ cpu' = [cpu EXCEPT !.intr = FALSE, !.pe = TRUE, !.gdt = Low, !.esp = Low]
  /\ UNCHANGED <<vars, pagingVars, pcbVars, pic, walked>>

\* mutant: bootmain does not clear what lies behind the file's bytes.
BssKept == UNCHANGED <<page_free_list, status>>

\* The loop behind readseg: the kernel's .bss is zero, which is New in a PCB.
Bss ==
  /\ page_free_list' = NULL
  /\ status' = [p \in Pcb!Slots |-> Pcb!New]

\* bootmain: the kernel's segments are in memory; a jump to the entry point
\* less 0xC0000000, from where a relative jump leads to init.
bootmain ==
  /\ At("bootmain", "fill")
  /\ Bss
  /\ UNCHANGED <<pp_link, ent, cr3, team, op, halted, torn, cpu, pagingVars,
                 pic, walked, time_count, sleep_time, current>>

\* mutant: the loop begins one entry too low.
FillPtesShort == [f \in Frames |-> f + 1]

\* std, stosl: from the last entry and the last frame downwards, to frame 0.
FillPtes == [f \in Frames |-> f]

\* init_page, as far as the tables: every table appears twice.  The direction
\* flag stays set behind the loop.
FillTables ==
  /\ At("fill", "paging")
  /\ LET tables == NFrames \div NR_PTE
     IN  kpdir' = [d \in PDEs |->
           IF d < tables THEN d
           ELSE IF d >= KOFFSET \div NR_PTE THEN d - KOFFSET \div NR_PTE ELSE None]
  /\ kptable' = FillPtes
  /\ cpu' = [cpu EXCEPT !.df = TRUE]
  /\ UNCHANGED <<vars, upper, pcbVars, pic, walked>>

\* init_page: CR3 and CR0.PG.  The next instruction is still at its physical
\* address; it stores kcr3, which is not.
SetPaging ==
  /\ At("paging", "kcr3")
  /\ cpu' = [cpu EXCEPT !.pg = TRUE]
  /\ UNCHANGED <<vars, pagingVars, pcbVars, pic, walked>>

SetKcr3 ==
  /\ At("kcr3", "jump")
  /\ UNCHANGED <<vars, cpu, pagingVars, pcbVars, pic, walked>>

\* init: addl KOFFSET, %esp and the jump to init_cond.
Jump ==
  /\ At("jump", "segment")
  /\ cpu' = [cpu EXCEPT !.esp = High, !.eip = High]
  /\ UNCHANGED <<vars, pagingVars, pcbVars, pic, walked>>

\* init_segment: a GDT that every address space can reach, and the TSS.  The
\* memset clears the direction flag.
init_segment ==
  /\ At("segment", "idt")
  /\ cpu' = [cpu EXCEPT !.gdt = High, !.tr = TRUE, !.df = FALSE]
  /\ UNCHANGED <<vars, pagingVars, pcbVars, pic, walked>>

(***************************************************************************)
(* The gate that init_idt leaves at vector v: the handler, whether it      *)
(* closes interrupts, and whether user mode may use it.                    *)
(***************************************************************************)
Gate(v) ==
  [handler |-> CASE v \in 0 .. 14 -> "vec" [] v = 128 -> "vecsys"
                 [] v = 32 -> "irq0" [] v = 33 -> "irq1" [] v = 46 -> "irq14"
                 [] OTHER -> "irq_empty",
   closes  |-> v \in {32, 33, 46},
   user    |-> v = 128]

init_idt ==
  /\ At("idt", "intr")
  /\ cpu' = [cpu EXCEPT !.idt = High]
  /\ UNCHANGED <<vars, pagingVars, pcbVars, pic, walked>>

\* init_intr and init_timer: the 8259s' vectors behind the exceptions.
IRQ_OFFSET == 32
init_intr ==
  /\ At("intr", "mm")
  /\ pic' = [master |-> IRQ_OFFSET, slave |-> IRQ_OFFSET + 8]
  /\ UNCHANGED <<vars, cpu, pagingVars, pcbVars, walked>>

\* init_mm: updir has the kernel's half and no other.
init_mm ==
  /\ At("mm", "pcb")
  /\ upper' = [d \in PDEs |-> IF d >= KOFFSET \div NR_PTE THEN kpdir[d] ELSE None]
  /\ UNCHANGED <<vars, cpu, kpdir, kptable, pcbVars, pic, walked>>

\* pcb_init: every PCB is free.
pcb_init ==
  /\ At("pcb", "idle")
  /\ status' = [p \in Pcb!Slots |-> Pcb!Free]
  /\ UNCHANGED <<vars, cpu, pagingVars, time_count, sleep_time, current, pic, walked>>

\* get_pcb and pcb_new.
NewPcb(p) ==
  /\ status[p] = Pcb!Free /\ \A q \in Pcb!Slots : q < p => status[q] # Pcb!Free
  /\ status' = [status EXCEPT ![p] = Pcb!New]
  /\ time_count' = [time_count EXCEPT ![p] = 0]
  /\ sleep_time' = [sleep_time EXCEPT ![p] = Sleeptime]

\* The idle process, which init_cond is from now on.
NewIdle ==
  /\ At("idle", "load")
  /\ \E p \in Pcb!Slots : NewPcb(p) /\ current' = p
  /\ UNCHANGED <<vars, cpu, pagingVars, pic, walked>>

\* loader: a PCB; the directory, the inode and the ELF header are read; the
\* free list is built.
LoaderStarts ==
  /\ At("load", "text")
  /\ \E p \in Pcb!Slots : NewPcb(p)
  /\ pp_link' = [g \in Pages |-> IF g = 1 THEN page_free_list
                                 ELSE IF g \in Ram THEN g - 1 ELSE NULL]
  /\ page_free_list' = NPages
  /\ UNCHANGED <<ent, cr3, team, op, halted, torn, cpu, pagingVars, current, pic, walked>>

(***************************************************************************)
(* mm_malloc, that is pgdir_walk, for page k of entry d of updir: the      *)
(* table first, if there is none, then the page.  done holds when the page *)
(* is there.                                                               *)
(***************************************************************************)
mm_malloc(d, k, done) ==
  /\ IF ent[updir][d] = NULL
     THEN ~done /\ page_alloc(Zeroed, updir, d)
     ELSE done /\ ent[ent[updir][d]][k] = NULL /\ page_alloc(Zeroed, ent[updir][d], k)
  /\ UNCHANGED <<cr3, team, op, halted, torn, cpu, pagingVars, pcbVars, pic>>

LoadText ==
  /\ step = "text"
  /\ \E done \in BOOLEAN :
       /\ mm_malloc(TextDir, 0, done)
       /\ step' = IF done THEN "stack" ELSE "text"
  /\ UNCHANGED walked

LoadStack ==
  /\ step = "stack"
  /\ \E done \in BOOLEAN :
       /\ mm_malloc(StackDir, walked, done)
       /\ walked' = IF done THEN walked + 1 ELSE walked
       /\ step' = IF walked' = NR_PTE THEN "video" ELSE "stack"

create_video_mapping ==
  /\ At("video", "ready")
  /\ ent' = [ent EXCEPT ![updir][VideoDir] = vdtable, ![vdtable][0] = VMEM]
  /\ UNCHANGED <<page_free_list, pp_link, cr3, team, op, halted, torn, cpu,
                 pagingVars, pcbVars, pic, walked>>

\* pcb_cr3write, the trap frame, process_ready.
GameReady ==
  /\ At("ready", "sti")
  /\ cr3' = [cr3 EXCEPT ![1] = updir]
  /\ status' = [status EXCEPT ![1] = Pcb!Ready]
  /\ UNCHANGED <<page_free_list, pp_link, ent, team, op, halted, torn, cpu,
                 pagingVars, time_count, sleep_time, current, pic, walked>>

enable_interrupt ==
  /\ At("sti", "open")
  /\ cpu' = [cpu EXCEPT !.intr = TRUE]
  /\ op' = Idle
  /\ UNCHANGED <<page_free_list, pp_link, ent, cr3, team, halted, torn,
                 pagingVars, pcbVars, pic, walked>>

\* From here on Memory says what happens to the pages.
Run ==
  /\ step \in {"open", "running"}
  /\ Next
  /\ step' = "running"
  /\ UNCHANGED <<cpu, pagingVars, pcbVars, pic, walked>>

BootNext ==
  \/ Start \/ bootmain \/ FillTables \/ SetPaging \/ SetKcr3 \/ Jump
  \/ init_segment \/ init_idt \/ init_intr \/ init_mm \/ pcb_init \/ NewIdle
  \/ LoaderStarts \/ LoadText \/ LoadStack \/ create_video_mapping \/ GameReady
  \/ enable_interrupt \/ Run

BootSpec == BootInit /\ [][BootNext]_<<vars, bootVars>>
-----------------------------------------------------------------------------
\* The halves that the code of a step dereferences.  pgdir_walk takes the
\* physical address of a table for a pointer, and the loader that of a page.
Touches(s) ==
  CASE s \in {"start", "bootmain", "fill", "paging"} -> {Low}
    [] s \in {"text", "stack"} -> {Low, High}
    [] s = "jump" -> {}
    [] OTHER -> {High}

(***************************************************************************)
(* Nothing is used at an address where it is not: at every step from the   *)
(* boot sector to sti, the code, the stack and the tables that CR3, GDTR   *)
(* and IDTR point to, and whatever the step dereferences, are mapped to    *)
(* the frames they are in.  (There is no handler for a page fault then.)   *)
(***************************************************************************)
AddressesReached ==
  step # "running" =>
    \A half \in ({cpu.eip, cpu.esp, cpu.idt, cpu.gdt} \cup Touches(step)) \ {Nowhere} :
      Reach(half)

\* The vector of line n.
Vector(n) == IF n < 8 THEN pic.master + n ELSE pic.slave + n - 8

(***************************************************************************)
(* Until interrupts are opened they stay closed, and then everything they  *)
(* need is there: each line of the controllers leads to its handler, which *)
(* runs closed, user mode can call nothing but the system call, the TSS    *)
(* and the kernel's tables are reachable from the game's directory too,    *)
(* current is the idle process, and pages and PCBs are in the initial      *)
(* states of Memory and Pcb, whatever memory held before.                  *)
(***************************************************************************)
HandsOver ==
  /\ cpu.intr => step \in {"start", "open", "running"}
  /\ step = "open" =>
       /\ Init
       /\ Pcb!PcbInit
       /\ cpu.tr /\ ~cpu.df /\ cpu.gdt = High /\ cpu.idt = High
       /\ Maps(upper, High) /\ ~Maps(upper, Low)
       /\ \A n \in {0, 1, 14} : LET g == Gate(Vector(n))
            IN  g.closes /\ g.handler = IF n = 0 THEN "irq0" ELSE IF n = 1 THEN "irq1" ELSE "irq14"
       /\ \A v \in 0 .. 255 : Gate(v).user <=> Gate(v).handler = "vecsys"
=============================================================================
