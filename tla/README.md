# A TLA+ model of the njuoslab5 kernel, its game and its disk tools

njuoslab5 is a teaching operating system for one i386 processor: a boot loader,
a kernel (processes and threads, paging, semaphores, a file system, keyboard and
timer), a tic-tac-toe game with a producer/consumer demo, and host programs that
build the disk image.  This directory holds TLA+ modules that model it, TLC
configurations that check them on small instances, and TLAPS proofs.
`PROJECT.json` lists the runs, the lines of code behind every definition, and
the hazards the properties are for.

    tlc -workers 2 -config MCProcess.cfg MCProcess      # a run
    tlapm ProcessProofs.tla                             # the proofs of a module

## The system

| part | state | operations | interacts with |
|---|---|---|---|
| process table, scheduler (`kernel/src/process/pcb.c`) | `pcb_table`: status, `time_count`, `sleep_time`, frame `tf`, `block_sem_index`, descriptors; `current`; CR3 and `tss.esp0` | `get_pcb`, `pcb_new`, `process_ready`, `schedule`, `wakeup`, `process_sleep`, `process_fork`, `create_thread`, `process_exit` | called by the system calls and the timer |
| interrupt entry (`irq/do_irq.S`, `irq_handle.c`, `idt.c`, `syscall.c`) | `current->tf`, `%esp` | store the frame, dispatch, reload `%esp` from `current->tf`, `iret` | everything; `asm_do_irq` closes interrupts (`cli`; 0x80 is a trap gate, which leaves them open until then), some calls open them again |
| semaphores (`semaphore/semaphore.c`) | `sem_t` (value, `block_proc_num`, `mutex`, `sem_index`) in user memory | `sem_init`, `sem_wait`, `sem_post`, `sem_trywait`, `sem_destroy` | block and release PCBs, call `schedule` |
| producer and consumer (`game/producer_consumer`) | ring `items`, `in`, `out`, three semaphores | two endless loops | semaphores, timer |
| physical pages, address spaces (`memory/pmap.c`, `vmem.c`, `mm.c`) | free list, page directories and tables | `page_alloc`, `page_free`, `copy`, `thread_copy`, `release` | fork, thread, exit; the loader |
| file table (`file_system/fs.c`) | `fcb_table` (state, inode, offset, count), `PCB.fcb` | `open`, `close`; fork, thread and exit | processes |
| file contents (`fs.c`, `elf.c`) | sectors of the disk, offset of an FCB | `read`, `write`, `lseek` | file table, disk |
| keyboard (`device/keyboard.c`, `game/src/lib/keyboard.c`) | `key_state`, `letter_pressed` | the interrupt `Keyboard_event`, the call `handle_keys`, the game's `process_keys` | game |
| game (`game/src/game.c`, `effect.c`, `draw.c`) | board, winner, `game_load.txt` | moves, reset, save, redraw, load | keyboard, files |
| disk image tools (`formatter.c`, `copy2myfs.c`, `read_myfs.c`) | bitmap, directory, inodes, data | format, copy files in, read one back | the boot loader and `loader()` read what they wrote |
| boot loader (`boot/`) and loader (`kernel/src/elf/elf.c`) | memory, sectors of the disk | `readseg`, the loops over program headers | disk image, pages |
| kernel start (`kernel/main.c`, `memory/kvm.c`, `mm.c`, `irq/idt.c`, `i8259.c`) | CR0, CR3, `kpdir`, `updir`, GDT, IDT, TSS, controllers | `init`, `init_cond` and what they call | hands over to pages, process table and interrupts |
| library (`lib/string.c`, `printfmt.c`, `printk`, `printf`) | none | strings, conversions, formatted output | the file system copies blocks with it |
| video, font, serial line | ports, frame buffer | output | not modelled |

What is hard here: preemption between any two instructions of user code; the
places in the kernel where interrupts are open although it does not expect it;
one count-down, `sleep_time`, for sleepers and for semaphore waiters;
reference counts that are kept by some operations and not by others; operations
of several steps that fail in the middle (memory runs out, `copy2myfs` exits,
the machine is switched off during a save); and the ends of tables.

What makes each part correct: the scheduler always runs one process in its own
address space and starves nobody; a semaphore neither loses nor makes permits;
the ring is neither overrun nor underrun; a page belongs to one process or to
the free list; a descriptor goes on naming the file it was opened for; reads
and writes act on exactly the bytes asked for; no key sticks; the saved board is
the board; a recorded file is complete and in one piece, and a program comes
into memory byte by byte as it was linked; nothing is used before it is mapped,
and no interrupt is let in before everything it needs is there; a formatted
number reads back as the number.

## Modules

* **Pcb**: the process table and the functions on it: `IsFirstFree` is
  `get_pcb`, `Created`/`NewCounters` are `pcb_new` and `process_ready`,
  `Schedule` is `schedule` with its scan from `pcb_index + 1` and its fallback on
  slot 0, `Countdown`/`Awoken` are `wakeup`, `TimerTable` is the whole timer
  branch of `irq_handle`.  Integers wrap at `INT_MAX`, as `sleep_time` does.
  `cr3` names the PCB whose directory and kernel stack are loaded.  pid and ppid
  are left out: only `getpid` reads them.
* **Process** (extends Pcb): one action per handler that keeps interrupts
  closed: `Fork`, `CreateThread`, `Exit`, `Sleep`, `Timer`, `Exception`.
  `Exception` covers faults of user code and the dereference of `page_alloc`'s
  `NULL`.  A process whose page tables are shared (`shared`) does not exit
  here; see Memory for what happens when it does.
* **Semaphore** (extends Pcb): the five operations.  They, and `KEYCODE`, call
  `enable_interrupt()` before they return, so the processor may be interrupted
  inside the kernel: `cpu` and `tf` say where, "presched" in `sem_wait` before
  `schedule()`, "tail" before `asm_do_irq` reloads `%esp`.  `StaleFrame` is the
  undefined outcome of resuming a frame that lies on a stack in use: it may work
  or end in `irq_handle`'s `while(1)`.  `upset` is a history variable that
  collects what the code does not allow for (an interrupt in a window, a waiter
  woken by `wakeup`, a failed `sem_trywait`, a `sem_destroy` with waiters, the exit
  of a thread); each property says which of them it survives.  After `Exit` no
  thread is created any more: the exit released the tables that the threads share
  (see Memory), and a new PCB in the same slot would hide the stale one that
  `release_sem` may still find.  `PreSched` is one step: an interrupt that hits
  `schedule()` itself, which `sem_wait` runs with interrupts open, counts as one
  before or behind it.  `schedule()` touches no semaphore, so `CountMatchesValue`
  and `MutexHandover` do not depend on that; the other properties except windows
  altogether.
* **DijkstraSemaphore**: the abstract semaphore: permits, sets of waiters, and
  nobody waiting while a permit is free.
* **ProducerConsumer** (extends Semaphore): the two loops and `pc_main`, cut
  where the shared data change.  Interrupts in the windows are left to Semaphore.
* **Memory**: the free list as a linked list, and `copy`, `thread_copy` and
  `release` page by page.  A page has `Index` entries, `NR_PTE` or at least
  three; a directory uses those that programs use (display, text, stack).  The state of the loop is `op`.  `release` frees
  whatever it finds, the static directory and the display's page of the game
  included, and the model does so too.  After the exit of a process that shares
  its tables (`torn`) memory is undefined for the others, and the model stops
  making calls.  `pp_ref` is left out: no reachable code reads it.
* **Boot** (extends Memory): the straight line from the boot sector to
  `enable_interrupt`, one action per stretch after which the processor can reach
  other addresses or an interrupt would find other tables; then Memory's actions.
  `cpu` holds where code, stack, GDT and IDT are (low: at their physical
  addresses; high: above `KOFFSET`), the paging and direction flags and whether
  interrupts are open.  The tables of the kernel are those `init_page` fills.
  Memory starts out as anything: what lies in the kernel's .bss is right only
  because `bootmain` clears it.
* **FileTable**: `open` in its four cases (new, table full, loaded, opened
  before by this process), `close`, and what fork, thread and exit do to
  descriptors.  `granted` records what a program was told its descriptors are;
  `upset` as above.
* **Strings**: `lib/string.c` as operators on a memory, a function from addresses
  to bytes.  **Printfmt**: `vprintfmt` as a fold over the format's characters,
  with `vsnprintf`, `printk`, `printf`, `itoa` and `strtol`; widths of integers
  are constants.
* **FileIO** (extends Strings): `read`, `write`, `lseek` over sectors, in every
  mode, with the copies through `strncpy`, `strcpy` and `strlen`, and with what
  lies behind a full block (`Junk`).
* **Library** (extends FileIO, Printfmt): no state of its own.  It states what the
  library's routines compute, on every contents that the file comes to have.
* **Keyboard**: keys, scan codes on their way, `Keyboard_event`, and a poll in
  three steps: `handle_keys` takes the key from the driver, `Return` is the way out of the
  call with interrupts open, `process_keys` sets or clears the flag.  An
  interrupt on that way leaves `cpu` "lost": the tail loads the interrupt's own frame for
  ever (see Semaphore's `GetKey`, `Return` and `Interrupt`).  One program polls.
* **Play** (extends Keyboard, instantiates Game): the main loop with its keys:
  the loop around `process_keys`, then `update_keypress` on the flags it left, the
  save and the redraw, while keys go down and up at any time.  Its board, file and
  winner are Game's variables: Play implements Game (`ImplementsGame`).
* **Game**: the main loop on the real board of nine boxes; a save is nine
  one-character writes, and `Quit` (power off) may come between any two.  The
  computer's box is any free one: `rand()` is a full-period congruence, so its
  loop reaches every box.
* **DiskImage**: what `formatter` writes, runs of `copy2myfs` that may be cut
  short at any step, and the block `read_myfs` takes.  `spilled` is the history
  of an inode allocated beyond the inodes.
* **Loading** (extends DiskImage): `bootmain`'s and `loader()`'s loops over the
  program headers, on the sectors that DiskImage wrote.  A byte is named by its
  file and offset, so that memory shows where each byte came from.

* **ProcessProofs**, **SemaphoreProofs**, **MemoryProofs**, **FileTableProofs**,
  **GameProofs**, **PlayProofs**, **LoadingProofs**, **LibraryProofs**: the
  theorems about the modules they are named after, each with its inductive
  invariant.  The second half of SemaphoreProofs is about ProducerConsumer, that of
  MemoryProofs about Boot; LoadingProofs is about DiskImage and Loading,
  LibraryProofs about FileIO, Strings and Library.

Every module with state has a type invariant.  The one of Process is also checked
by a run; those of the modules with proofs are conjuncts of their inductive
invariants.

The definitions marked "mutant" in comments are deliberate mistakes: with one
of them in place of the definition after it, TLC finds the property named in
`PROJECT.json` violated.  No specification uses them.

## Runs

| run | configuration | states | what it shows |
|---|---|---|---|
| process | 5 PCBs, at most 4 in use, slice 1, `INT_MAX` 2 | 47 000 | `OneRunning`, `AddressSpaceLoaded`, `SlotsBelowLimit`; with a fair timer `ReadyRuns` (no starvation) and `SleeperWakes` (also for `sleep(0)`, whose count-down wraps) |
| semaphore_windows | 1 semaphore; idle, the game and a thread; every interrupt, every exit | 2 433 000 | `SchedulingSound`, `CountMatchesValue`, `MutexHandover`: what survives each unforeseen event |
| semaphore_calm | 2 semaphores; idle, the game and two threads | 583 000 | without such events the semaphores implement DijkstraSemaphore, and `WaitersAccounted` |
| producer_consumer | ring of 2, no time-outs | 10 300 | mutual exclusion, no item overwritten or taken twice, no deadlock |
| memory | the boot on 4 frames; 20 pages, tables of 2 entries, 3 processes | 296 000 | `AddressesReached` and `HandsOver` up to the first interrupt; then the free list stays a list, processes are apart, no page is lost, also when memory runs out |
| file_table | 2 processes, tables of 2, 3 files | 79 000 | when a descriptor stays good, no dangling descriptor, one FCB per file and mode |
| file_io | 3 blocks of 2 bytes, transfers up to 5; words of 2 bytes, integers of 6 and 8 bits | 9 300 | `read`, `write`, `lseek` against the file as an array of bytes; the library's moves, texts, numbers and formats on every contents of the file |
| play | 5 boxes, their keys, Enter and an unknown one, 3 presses, 2 codes on their way | 1 210 000 | `DriverKnows`, `NoStuckKey`; `CatchesUp`, unless an interrupt hits the way out of `KEYCODE`; no move asked for is dropped (`MoveKept`); the loop implements Game |
| game | the real board | 556 000 | the computer always finds a box, the file holds the board, a winner has a line |
| disk_image | 4 files of up to 4 sectors of 2 bytes, inodes of 2 entries; pages of 4 bytes | 45 000 | recorded files are complete, also after runs cut short, and both loaders bring every segment into memory (`ProgramsLoaded`) |
| producer_overwrites | as producer_consumer, with slice 10 and `Sleeptime` 5 | violation | see below |
| semaphore_atomic | as semaphore_windows | violation | see below |

**Bounds.**  The tables have at least one entry more than a process needs to
interfere with two others, and are small enough to fill up: all PCBs but one in
use, all FCBs and all descriptors taken, the free list empty, inodes full.
`INT_MAX` is small so that the wrap-round happens.  Three blocks give a
transfer a first, a middle and a last block; five bytes span all three.  Six
bytes of file hold every pair of overlapping ranges at every alignment to words of
two (moves and texts are tried in every length that memory holds), and, read as
bits, every 6-bit integer, so the smallest one too.  Four
frames and tables of two give the kernel two tables in each half.  `Layouts`
are all programs of one or two segments with sizes around a sector and a page
that a linker could produce in `MemSize` = 14 bytes, three pages and a half.  The
game needs no bound; with the keyboard it has
five boxes, enough for `release_key` to clear the flag of another box's key
(number and scan code differ by two) before a line is complete.  `MaxValue`
(semaphores), `MaxCount` (FCB counts), `Presses`, `MaxCodes` and `MaxFiles` cap what the code leaves unbounded, by guards that name
them.  `MaxProcs < MAX_PCB` is true of the machine: 128 MB of memory hold about
30 address spaces with their stacks, and the table has 100 slots.

**Fairness.**  `Process!FairSpec` assumes the timer only: the 8253 is programmed
to 100 Hz and interrupts are open in user mode and in the idle loop.
`Play!PlaySpec` assumes that a scan code is delivered (the same reason) and
that the game's endless main loop goes on, as long as no interrupt hits the way
out of `KEYCODE`.  Up to then Process describes the game and idle, the only
processes there are while the game is played: `KEYCODE` is the one call of the main
loop that opens interrupts, and without an interrupt there it changes no PCB; so
`ReadyRuns` holds of the game.  After such an interrupt (`cpu` is "lost") nothing is assumed, neither of
the game, which never leaves the kernel, nor of the codes, as the machine may
stop.  The user stops typing in the end (`Presses`): a key hammered without a
pause would keep `handle_keys`, which starts at the lowest key, from the others.  No process is
assumed to make a system call.

**Deadlock** is checked everywhere.  Where a system may come to rest (the
machine has stopped, everybody has exited, nobody presses a key) an explicit
stuttering action says so.

## Where code and comments disagree

Two runs show a promise of a comment broken.

* *producer_overwrites*: `wakeup()` (pcb.c:108) counts down every Blocked PCB,
  also one blocked in `sem_wait`.  A producer that waits for room comes back
  after five ticks without a permit and overwrites an item, against
  producer_consumer.c:11, "if the items is full, 'empty' blocks producer".
* *semaphore_atomic*: `sem_wait` opens interrupts before it calls `schedule()`
  (semaphore.c:58).  A timer interrupt there schedules; the interrupted call
  schedules again later and leaves a process Running that is not current, against
  semaphore.c:21, "these operations are atom operations".

Others are modelled as they are, and the properties exclude them by name:

* `block_proc_num` ("how many processes are blocked", semaphore_struct.h:11)
  still counts a waiter that `wakeup()` has readied (`WaitersAccounted` requires
  `upset = {}`).
* `release()` frees tables a thread shares with its creator (pmap.c:312), although
  page_free "should only be called when pp->pp_ref reaches 0" (`torn`); it also
  frees the game's static directory and the display's pages, which then serve
  as ordinary memory.
* `copy()` gives a forked child a private copy of the display's pages, so it no
  longer draws on the screen.
* The first `open` of a file counts it twice (fs.c:87 and 110): closing its only
  descriptor leaves the FCB, with its offset, in the table.
* The player "can quit at any time" (game/main.c:58), but a power cut in the
  middle of a save may leave a board with an odd number of free boxes, on
  which `update_keypress` looks for a box for ever (`FairPlay` requires `~torn`).
* `loader()` clears `sec_buf` before it reads whole sectors into it, not after, so
  the game's variables behind .data in the last sector start out as the file's
  next bytes (elf.c:83); `ProgramsLoaded` excepts them (`InLastSector`).
* The main loop is said to go on after an interrupt where it was (game.c:86, in
  Chinese), but `handle_keys` executes `sti` (keyboard.c:44, 48) before `asm_do_irq`
  loads `%esp` from `current->tf` (do_irq.S:54): an interrupt in between overwrites
  `current->tf`, and the game stays in the kernel for ever.  `CatchesUp` excepts
  it (`cpu = "lost"`); without the exception TLC finds it violated.
* A field width is "supported for the numeric formats only" (printfmt.c:11), but
  `%s` is padded too, on the side that `-` names (printfmt.c:192 to 205; `String`).
  `FormatsPrinted` says what a width does to numbers and nothing about texts.
* `update_keypress` calls `release_key(box[j].index)` with the number of a box
  where a scan code is expected (effect.c:76): the flag of another key is
  cleared.  `MoveKept` shows that no move asked for is lost by it.
* `release_sem` finds a PCB by `block_sem_index` alone, so one that timed out and
  exited comes back to life (`SchedulingSound` excepts "timeout").
* `printf` sends as many bytes as the text would have had, from behind its buffer
  when that is longer (`FormatsPrinted` speaks of texts that fit).
* `read_myfs` reads the first inode twice, so a file of more than one inode comes
  back wrong (`RecordedFilesIntact` speaks of `read_myfs` for one inode only).

## Proofs

Each theorem holds for every value of the constants that the named assumptions
allow.  They are the ones the code justifies, and the machine's own constants
satisfy them: a table with a slot more than memory holds processes
(`PcbAssumption`), sleeps that are C integers (`SleepAssumption`), names that
differ (`SemAssumption`, `FileAssumption`), a ring with room (`ProdConsAssumption`),
page tables of any size and pages enough for the game (`MemAssumption`: 1024 and
31743 on the real machine), a kernel half that begins at a directory entry above
the physical memory (`BootAssumption`), an odd number of boxes
(`GameAssumption`), one key per box and Enter (`PlayAssumption`), inodes and
data that fit on the disk and files that are not empty (`DiskAssumption`), pages of
whole sectors and program headers as the linker makes them (`LoadingAssumption`), and
characters that are bytes, which `strcmp` compares unsigned (`IOAssumption`).
TLC has checked every inductive invariant below on the instance of its run (that
of Play with `DriverKnows` in place of `Known`).

**ProcessProofs.**  `TypeCorrect`; `OneRunningHolds`: whoever is Running is
`current`, and `current`, unless idle, is Running; `AddressSpaceIsLoaded`: CR3 and
esp0 are those of `current`, which is not free; `TableNeverFull`: no slot at or
above `MaxProcs` is ever handed out.  None of the last three is inductive alone.
`schedule()`'s fallback picks slot 0 without loading its address space or marking
it Running, so `AddressSpaceLoaded` holds only if the fallback is never taken from
another process; that needs idle to be Ready whenever somebody else is `current`
(`IdleRunnable`), and the scan to reach slot 0, which it does unless `current` is
the last slot (`SlotsBelowLimit`).  That in turn needs the type of the table, and
one Running process for the handlers that overwrite `current`'s status:

    Inv == TypeOK /\ OneRunning /\ IdleRunnable /\ AddressSpaceLoaded /\ SlotsBelowLimit

`FirstFreeIsLow` counts: if all slots below `MaxProcs` were in use, there would be
`MaxProcs` live PCBs.  `ScheduleStep` says what `schedule()` does when idle is Ready.
`NextInv` then has one step per action.

**SemaphoreProofs.**  `SchedulingIsSound`, `CountsAgree` and `MutexIsHandedOver`
hold of every behaviour of Semaphore, with all windows, time-outs and exits;
`WaitersAreCounted` and `SemaphoresAreDijkstra` (the five operations implement
DijkstraSemaphore) of the calm ones, `CalmSpec`.

    Inv == TypeOK /\ SchedulerOK /\ QueueOK /\ CountsOK /\ QueuesCounted

`SchedulerOK` is Process's invariant with the saved frames and the place before
`schedule()`, until an interrupt falls into a window.  `QueueOK` says that the PCBs
`release_sem` can find are Blocked, until one is woken by `wakeup`, `CountsOK` relates value and
`block_proc_num`, and `QueuesCounted` makes `block_proc_num` the size of the queue.
`sem_post` lowers `block_proc_num` by one and takes one PCB out of the queue:
only with the count is a waiter sure to be found when `block_proc_num` is
positive, which the refinement needs.  The abstract waiters are the PCBs with that
`block_sem`, the abstract permits the value where it is positive.

**SemaphoreProofs, producer and consumer.**  `CriticalSectionsExclude`, `ProducerOverwritesNothing`,
`ConsumerFindsAnItem` and `ThreadsNeverDeadlock`, for every ring size, without
time-outs (with them the run producer_overwrites shows an item overwritten).

    PCInv == Calm /\ ThreadsOK /\ KindsOK /\ MutexSum /\ RoomSum /\ RingOK

`Calm` is the invariant of the semaphores with what it implies in calm behaviours.
`MutexSum` and `RoomSum` are the two sums that no step changes: the value of
`mutex` and the threads inside, and the values of `empty` and `full` with the
threads between a wait and its post.  `RingOK` says that the items in the ring are
the `Count` ones from `out` on, modulo its size.  Deadlock is excluded because
two blocked threads would leave one of the sums short.

**MemoryProofs.**  `FreeListStaysAList`, `ProcessesAreApart`, `NoPageIsLost`.

    Inv == /\ TypeOK /\ op.do # "boot"
           /\ Apart(cr3, Tab, Leaf, team, Unstacked) /\ Listed /\ ShapeOK
           /\ TeamsOK /\ CopyOK /\ ThreadOK /\ ReleaseOK

Pages are named by their places: the directory of p, its i-th table `Tab[p][i]`,
the j-th page in that `Leaf[p][i][j]`.  `Apart` says that a page has one place,
except for what threads share.  `Listed` says that the free list is a stack of
distinct pages, that these are the pages without a place, and how far
`release` has got where one is under way.  Neither is inductive without the
other: `page_free` puts a page on the list that must not be there yet, which is
so because it has one place and `release` has not been there; `page_alloc` gives a
page a place that must not have one, which is so because it was on the list.
The other conjuncts say where the loops of `copy`, `thread_copy` and `release` are.
`ListPop` and `ListPush` are the two facts about linked lists that everything
rests on.

**MemoryProofs, the boot.**  `NothingUnmappedIsUsed`, `KernelHandsOver`, and
`PagesSoundFromBoot`: the three properties of Memory from the boot sector on.

    BootInv == CpuOK /\ TablesOK /\ PcbOK /\ PagesOK

Each conjunct lists, by step, what the processor, the kernel's tables, the PCBs and
the pages hold.  That `init_page`'s loops map every frame twice is division
with remainder (`DivMod`, `PageNumbers`, `Directories`).  `PagesOK` describes the
pages after the loader has taken a of them, `Taken(a, v)`; `TakeNext` is one step of
`mm_malloc`, and `LoaderDone` shows that the end of it is Memory's `Init`.  From
there on it is the invariant of Memory.

**FileTableProofs.**  `NoDescriptorDangles`, `DescriptorsKeepTheirFile`,
`FilesAreShared`.

    Inv == TypeOK /\ OneFcbPerFile /\ CountsCover /\ HistoryKept /\ DescriptorNamesFile

`CountsCover` (an FCB counts at least the descriptors that refer to it) keeps
`close` from freeing an FCB that somebody uses; it needs the cardinality of a set
of descriptors to change by one (`DescriptorTaken` and its counterparts).
`HistoryKept` says that `granted` is empty where it promises nothing.

**GameProofs.**  `ComputerHasAnAnswer`, `NothingIsLost`, `WinnerHasALine`.

    Inv == TypeOK /\ SavedSoFar /\ BothBalanced /\ WinnerStands

`BoardSaved` speaks of the end of the save; `SavedSoFar` of each of its nine
writes.  The board has one more of the computer's marks than of the player's
(`BothBalanced`), and so has the file, which is the board after a restart; with an
odd number of boxes some box is then free after the player's move (`AnswerExists`).

**PlayProofs.**  `DriverKeepsTrack`, `NoKeySticks`, the action property
`NoMoveIsDropped`, and `LoopImplementsGame`.

    Inv == PlayTypeOK /\ Known /\ NoStuckKey

`Known` is `DriverKnows` with its `CHOOSE` replaced by a quantifier: the last code
on its way tells whether a key is down, and without one the driver's state does.
`NoStuckKey` also speaks of the key that `handle_keys` has just reported: a press
that the game has not heard of yet is one the driver has not finished with, which makes
it inductive over the three steps of a poll.
`StepsAreGame` has one step per action of Play, a step of Game or a stutter.

**LoadingProofs.**  `FilesIntact`: a file of the directory is complete at every
moment, whatever runs of `copy2myfs` come or are cut short; `Loads`: `bootmain` and
`loader()` then bring the linked segments into memory.

    Inv == /\ TypeOK /\ (mem = Ended \/ mem \in Run)
           /\ ~spilled => OnDisk /\ Between /\ Copying

`RecordedFilesIntact` is far from inductive: it says nothing of the file that is
being copied, nor of the order in which bitmap and directory reach the disk.
As long as no inode spills, the blocks in use are two runs, the inodes up to
one block and the data up to another (`Used`).  So `bit_alloc` takes the block behind one of the runs
(`InodeIsNext`, `DataIsNext`), a file's blocks follow one another (`Complete`),
which is what the loaders count on without looking at the inode's other entries,
and what a run overwrites is behind everything that the directory on the disk
names (`OnDisk`, `IntactKept`).  `Partial` follows `copy2myfs` through a file: the full
inodes are on the disk, the last one is in memory, the data end where the next block
will be.  Entry and inode of a block are quotient and remainder (`BlockParts`).

For `Loads`, `SegmentRead`, `BootBytes`, `Buffer` and `GameBytes` show what one
segment leaves in memory, with `readseg`'s rounding to sectors at both ends;
`PagesApart` shows that linked segments have no page in common, so that a later
one does not spoil an earlier one (`BytesLoaded`).  That last lemma is the only induction
over the program headers, and it is by least counterexample: a non-empty set of numbers has
a least one (`LeastExists`).

**LibraryProofs.**  `WritesCorrect`, `ReadsCorrect`, `SeeksEnd` for every block size,
file, offset and count; `MovesAreCorrect`, `TextsAreHandled` for every memory and word
size.  The state plays little part: the inductive invariant is FileIO's `TypeOK`
(`FileTyped`, which needs that no piece of a transfer leaves its block), and
each property is then a fact about what a loop computes.

* A transfer: `PiecesAre` gives the pieces in closed form (`Piece`: block, first byte
  in it, place in the buffer, length), `SomePiece` that every byte asked for is in one.
  A write is a chain of disks, one per piece.  `StageOfWrite` says how far each has
  got (`Stage`), by least counterexample, and `WritesText` reads off the last.
* `memmove`: `Moved` says that the units between two bounds are in place and the rest is as
  before.  `OneUnit` is the step: the next unit of the source has not been overwritten
  yet, which is the choice of the direction.  `MovesUp` and `MovesDown` go through the
  units, `UnitDivides` shows that words are used only where they come out even.
* Texts: `TextAt` says what text lies at an address without `CHOOSE`, `Reads` ties the
  sequence to the bytes, `OrderAt` reduces the order of two texts to the first
  place where they differ, which is where `strcmp` and `strncmp` stop
  (`ComparesTexts`).

Only model-checked:

* `ReadyRuns`, `SleeperWakes` and `CatchesUp`: liveness, the prover does not reason
  about fairness or `ENABLED`;
* `NumbersReadBack` and `FormatsPrinted` (Library): they are about two recursions
  against each other, `vprintfmt`'s fold over the format with its digits and
  `strtol`'s over the text.  The library's induction theorems take an operator, which the
  installed provers cannot instantiate; least counterexamples replace them where a
  loop has an invariant over a range of numbers, as above, but here each step of the
  fold is the whole automaton of `vprintfmt`.

## Not modelled

* Video, font and serial line: output only; the text is Printfmt's.  `WRITE`,
  `TIME`, `GETPID` and `VMEMORY` change nothing that is modelled.
* Port programming of the timer, of the controllers beyond their vectors, and the
  polling of the disk's status; the BIOS calls of `start.S`; register and
  descriptor layouts in `x86.h` and `mmu.h`.
* `ide/`: not linked into the kernel.  `test.c` prints fields of the image.
  `process_run`, `Refresh_Kbdbuf`, `page_lookup`, `page_remove`, `page_decref`:
  never called.
* Descriptors out of range (`read(-1, ...)` after a failed `open`), which index
  `PCB.fcb` unchecked: what lies beside it is a matter of layout.  Likewise the memory
  before `fcb_table` and behind the directory array of `copy2myfs`, and an inode
  that spills among the data.
* Semaphores in a program that forks (two copies of a `sem_t`, one `sem_index`):
  no program does, and a second copy multiplies Semaphore's states.
* Two programs that poll the keyboard: each would get part of a key's events, and
  what they then do is not the game's main loop.

## Plan

The order of the work, most important behaviour first; all of it is done.

1. Pcb, Process and the proofs of its safety.
2. Semaphore, DijkstraSemaphore, ProducerConsumer.
3. Memory.  4. FileTable, FileIO.  5. Keyboard, Game, DiskImage.
6. Boot before Memory; Loading on DiskImage; Play, Game at the Keyboard; Strings,
   Printfmt and Library on FileIO; exit in Semaphore; modes in FileIO.
7. The proofs about Semaphore, ProducerConsumer, Memory, Boot, FileTable, Game and
   Play.
8. The proofs about DiskImage, Loading, FileIO and Strings.

What would come next: what `vprintfmt` prints, for every format.
