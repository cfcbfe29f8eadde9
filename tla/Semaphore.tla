----------------------------- MODULE Semaphore -----------------------------
(***************************************************************************)
(* The semaphores of kernel/src/semaphore/semaphore.c, used by the threads *)
(* of one address space.  Unlike the other system calls, the semaphore     *)
(* operations (and KEYCODE) execute sti before they return, so interrupts  *)
(* are open in two places inside the kernel: in sem_wait before            *)
(* schedule() has run, and in the tail of the call, up to the point where  *)
(* asm_do_irq reloads %esp from current->tf.  Every interrupt first stores *)
(* the frame it finds in current->tf.                                      *)
(*                                                                         *)
(* `upset' is a history variable: it collects the events that the          *)
(* semaphore code does not allow for, so that each property can say which  *)
(* of them it survives.                                                    *)
(***************************************************************************)
EXTENDS Pcb

CONSTANTS
  Sems,         \* the sem_t objects of the program (sem_index names each)
  NoSem,        \* the block_sem_index -1
  InitValues,   \* initial values of counting semaphores
  SleepArgs,    \* arguments of sleep()
  MaxValue      \* bound on |value| and on |block_proc_num|

ASSUME SemAssumption ==
  /\ NoSem \notin Sems
  /\ SleepArgs \subseteq CInt
  /\ MaxValue \in Nat \ {0}
  /\ InitValues \subseteq 0 .. MaxValue

VARIABLES
  cpu,             \* where the processor is (see Place)
  tf,              \* PCB.tf: the place at which the saved frame resumes
  block_sem,       \* PCB.block_sem_index
  kind,            \* sem_t.mutex, or "none" before sem_init
  value,           \* sem_t.value
  block_proc_num,  \* sem_t.block_proc_num
  upset,           \* history: the unforeseen events so far
  halted           \* an exception has stopped the machine

semVars == <<block_sem, kind, value, block_proc_num>>
vars == <<status, time_count, sleep_time, current, cr3, cpu, tf, block_sem,
          kind, value, block_proc_num, upset, halted>>

\* user: in user code, or in the kernel with interrupts closed until iret;
\* presched: in sem_wait, after sti and before schedule() has picked anyone;
\* tail: on the way out of a system call, interrupts open, current->tf not
\* yet loaded into %esp.
Place == {"user", "presched", "tail"}
Kind  == {"none", "counting", "mutex"}
Upset == {"window", "timeout", "trywait", "destroy", "exit"}

TypeOK ==
  /\ PcbTypeOK
  /\ cpu \in Place
  /\ tf \in [Slots -> Place]
  /\ block_sem \in [Slots -> Sems \cup {NoSem}]
  /\ kind \in [Sems -> Kind]
  /\ value \in [Sems -> Int]
  /\ block_proc_num \in [Sems -> Int]
  /\ upset \subseteq Upset
  /\ halted \in BOOLEAN

Init ==
  /\ PcbInit
  /\ cpu = "user"
  /\ tf = [p \in Slots |-> "user"]
  /\ block_sem = [p \in Slots |-> NoSem]
  /\ kind = [s \in Sems |-> "none"]
  /\ value = [s \in Sems |-> 0]
  /\ block_proc_num = [s \in Sems |-> 0]
  /\ upset = {}
  /\ halted = FALSE

\* User code runs and executes int $0x80; irq_handle stores its frame.
Syscall ==
  /\ ~halted
  /\ cpu = "user"
  /\ current # Idle
  /\ tf' = [tf EXCEPT ![current] = "user"]
  /\ halted' = halted

\* The call returns to user code through its tail, with interrupts open.
ToTail ==
  /\ cpu' = "tail"
  /\ UNCHANGED <<status, time_count, sleep_time, current, cr3>>

\* Interrupts stay closed up to the iret to whatever current->tf points at.
ToFrame == cpu' = tf'[current']

Waiters(s) == {p \in Slots : block_sem[p] = s}

\* mutant: release_sem() leaves block_sem_index as it is.
ReleaseSemForgets(s) ==
  \/ /\ Waiters(s) = {}
     /\ UNCHANGED <<status, time_count, block_sem>>
  \/ \E p \in Waiters(s) :
       /\ \A q \in Waiters(s) : p <= q
       /\ status' = [status EXCEPT ![p] = Ready]
       /\ time_count' = [time_count EXCEPT ![p] = 0]
       /\ UNCHANGED block_sem

(***************************************************************************)
(* release_sem(): the waiter in the lowest slot, whatever its status,      *)
(* becomes Ready.                                                          *)
(***************************************************************************)
ReleaseSem(s) ==
  \/ /\ Waiters(s) = {}
     /\ UNCHANGED <<status, time_count, block_sem>>
  \/ \E p \in Waiters(s) :
       /\ \A q \in Waiters(s) : p <= q
       /\ status' = [status EXCEPT ![p] = Ready]
       /\ time_count' = [time_count EXCEPT ![p] = 0]
       /\ block_sem' = [block_sem EXCEPT ![p] = NoSem]

\* sem_init: every sem_t is initialised once, before it is used.
SemInit(s, v, mutex) ==
  /\ Syscall
  /\ kind[s] = "none"
  /\ kind' = [kind EXCEPT ![s] = IF mutex THEN "mutex" ELSE "counting"]
  /\ value' = [value EXCEPT ![s] = IF mutex THEN 1 ELSE v]
  /\ block_proc_num' = [block_proc_num EXCEPT ![s] = 0]
  /\ ToTail
  /\ UNCHANGED <<block_sem, upset>>

\* mutant: one permit too many.
AvailableLoose(s) == value[s] >= 0

\* sem_wait and sem_trywait find a permit.
Available(s) == IF kind[s] = "mutex" THEN value[s] = 1 ELSE value[s] > 0

\* sem_wait that gets the permit: on to the tail.
SemWaitPass(s) ==
  /\ Syscall
  /\ kind[s] # "none"
  /\ Available(s)
  /\ value' = [value EXCEPT ![s] = @ - 1]
  /\ ToTail
  /\ UNCHANGED <<block_sem, kind, block_proc_num, upset>>

(***************************************************************************)
(* sem_wait that blocks: the process is marked Blocked on the semaphore,   *)
(* its sleep_time is left as it was, and interrupts are opened before      *)
(* schedule() is called.                                                   *)
(***************************************************************************)
SemWaitBlock(s) ==
  /\ Syscall
  /\ kind[s] # "none"
  /\ ~Available(s)
  /\ -MaxValue < value[s] /\ block_proc_num[s] < MaxValue
  /\ value' = IF kind[s] = "mutex" THEN value
                                   ELSE [value EXCEPT ![s] = @ - 1]
  /\ status' = [status EXCEPT ![current] = Blocked]
  /\ block_sem' = [block_sem EXCEPT ![current] = s]
  /\ block_proc_num' = [block_proc_num EXCEPT ![s] = @ + 1]
  /\ cpu' = "presched"
  /\ UNCHANGED <<time_count, sleep_time, current, cr3, kind, upset>>

(***************************************************************************)
(* sem_wait goes on: schedule() runs, and its caller's tail follows.  As   *)
(* interrupts are open, one may also hit schedule() itself; here it comes  *)
(* before or behind it.                                                    *)
(***************************************************************************)
PreSched ==
  /\ ~halted
  /\ cpu = "presched"
  /\ Schedule(status)
  /\ cpu' = "tail"
  /\ UNCHANGED <<time_count, sleep_time, tf, block_sem, kind, value,
                 block_proc_num, upset, halted>>

\* The end of asm_do_irq: %esp is loaded from current->tf, iret follows.
Return ==
  /\ ~halted
  /\ cpu = "tail"
  /\ cpu' = tf[current]
  /\ UNCHANGED <<status, time_count, sleep_time, current, cr3, tf, block_sem,
                 kind, value, block_proc_num, upset, halted>>

\* mutant: the last waiter is not released.
ReleasesLate(s) ==
  IF kind[s] = "mutex" THEN block_proc_num[s] # 0 ELSE value[s] + 1 < 0

\* sem_post finds that somebody is waiting.
Releases(s) ==
  IF kind[s] = "mutex" THEN block_proc_num[s] # 0 ELSE value[s] + 1 <= 0

\* mutant: a mutex that is handed over is also freed.
PostedFrees(s) == IF kind[s] = "mutex" THEN 1 ELSE value[s] + 1

\* The value sem_post leaves.
Posted(s) ==
  CASE kind[s] = "counting" -> value[s] + 1
    [] kind[s] = "mutex"    -> IF Releases(s) THEN value[s] ELSE 1

SemPost(s) ==
  /\ Syscall
  /\ kind[s] # "none"
  /\ -MaxValue < block_proc_num[s] /\ value[s] < MaxValue
  /\ value' = [value EXCEPT ![s] = Posted(s)]
  /\ \/ /\ Releases(s)
        /\ block_proc_num' = [block_proc_num EXCEPT ![s] = @ - 1]
        /\ ReleaseSem(s)
     \/ /\ ~Releases(s)
        /\ UNCHANGED <<status, time_count, block_sem, block_proc_num>>
  /\ cpu' = "tail"
  /\ UNCHANGED <<sleep_time, current, cr3, kind, upset>>

\* sem_destroy releases one waiter and leaves the sem_t as it is.
SemDestroy(s) ==
  /\ Syscall
  /\ kind[s] # "none"
  /\ ReleaseSem(s)
  /\ upset' = IF Waiters(s) = {} THEN upset ELSE upset \cup {"destroy"}
  /\ cpu' = "tail"
  /\ UNCHANGED <<sleep_time, current, cr3, kind, value, block_proc_num>>

(***************************************************************************)
(* sem_trywait: a counting semaphore is decremented even when the call     *)
(* fails.                                                                  *)
(***************************************************************************)
SemTrywait(s) ==
  /\ Syscall
  /\ kind[s] # "none"
  /\ -MaxValue < value[s]
  /\ value' = IF kind[s] = "mutex" /\ ~Available(s)
              THEN value ELSE [value EXCEPT ![s] = @ - 1]
  /\ upset' = IF kind[s] = "counting" /\ ~Available(s)
              THEN upset \cup {"trywait"} ELSE upset
  /\ ToTail
  /\ UNCHANGED <<block_sem, kind, block_proc_num>>

\* KEYCODE: handle_keys() executes sti when it has a key to report.
GetKey ==
  /\ Syscall
  /\ ToTail
  /\ UNCHANGED <<block_sem, kind, value, block_proc_num, upset>>

(***************************************************************************)
(* process_exit: release() frees the pages of the caller, which it shares  *)
(* with the other threads; block_sem_index stays.  Freed pages keep their  *)
(* contents until somebody allocates them, so the others go on; what they  *)
(* find in their semaphores after the next create_thread is undefined, and *)
(* the model does not go that far.                                         *)
(***************************************************************************)
Exit ==
  /\ Syscall
  /\ Schedule([status EXCEPT ![current] = Free])
  /\ ToFrame
  /\ upset' = IF Live \subseteq {Idle, current} THEN upset ELSE upset \cup {"exit"}
  /\ UNCHANGED <<time_count, sleep_time, block_sem, kind, value, block_proc_num>>

CreateThread ==
  /\ Syscall
  /\ "exit" \notin upset
  /\ Cardinality(Live) < MaxProcs
  /\ \E i \in Slots :
       /\ IsFirstFree(i)
       /\ NewCounters(i)
       /\ status' = Created(status, i)
  /\ UNCHANGED <<current, cr3, cpu, block_sem, kind, value, block_proc_num,
                 upset>>

Sleep(t) ==
  /\ Syscall
  /\ SleepTable(t)
  /\ ToFrame
  /\ UNCHANGED <<block_sem, kind, value, block_proc_num, upset>>

\* An interrupt is taken wherever interrupts are open; its frame is stored.
Interrupt ==
  /\ ~halted
  /\ tf' = [tf EXCEPT ![current] = cpu]
  /\ ToFrame
  /\ UNCHANGED <<block_sem, kind, value, block_proc_num, halted>>

InWindow == IF cpu = "user" THEN {} ELSE {"window"}

Timer ==
  /\ TimerTable
  /\ Interrupt
  /\ upset' = upset \cup InWindow \cup
       (IF \E p \in Awoken : block_sem[p] # NoSem THEN {"timeout"} ELSE {})

\* The keyboard's and the disk's interrupt change no PCB but for tf.
DeviceIRQ ==
  /\ UNCHANGED <<status, time_count, sleep_time, current, cr3>>
  /\ Interrupt
  /\ upset' = upset \cup InWindow

(***************************************************************************)
(* A frame stored in a window lies below the stack pointer of the code it  *)
(* interrupts, which goes on to use that stack.  Once such a frame exists, *)
(* resuming in the kernel may pop garbage and end in irq_handle's          *)
(* while(1).                                                               *)
(***************************************************************************)
StaleFrame ==
  /\ ~halted
  /\ cpu # "user"
  /\ "window" \in upset
  /\ halted' = TRUE
  /\ UNCHANGED <<status, time_count, sleep_time, current, cr3, cpu, tf,
                 block_sem, kind, value, block_proc_num, upset>>

Halt == halted /\ UNCHANGED vars

Next ==
  \/ \E s \in Sems :
       \/ \E v \in InitValues, mutex \in BOOLEAN : SemInit(s, v, mutex)
       \/ SemWaitPass(s)
       \/ SemWaitBlock(s)
       \/ SemPost(s)
       \/ SemDestroy(s)
       \/ SemTrywait(s)
  \/ PreSched
  \/ Return
  \/ GetKey
  \/ CreateThread
  \/ Exit
  \/ \E t \in SleepArgs : Sleep(t)
  \/ Timer
  \/ DeviceIRQ
  \/ StaleFrame
  \/ Halt

Spec == Init /\ [][Next]_vars
-----------------------------------------------------------------------------
(***************************************************************************)
(* Unless an interrupt hits a window, the semaphore calls leave the        *)
(* scheduler's state sound: nobody but `current' is Running, it is         *)
(* executed in its own address space, and every saved frame resumes in     *)
(* user code.  Unless a waiter has timed out (which leaves it queued, so   *)
(* that a sem_post of its own may find it), `current' is itself Running,   *)
(* and nobody who has exited is queued, so that release_sem() brings no    *)
(* freed PCB back to life.                                                 *)
(***************************************************************************)
SchedulingSound ==
  "window" \notin upset =>
    /\ \A p \in Slots : status[p] = Running => p = current
    /\ cr3 = current
    /\ \A p \in Slots : tf[p] = "user"
    /\ "timeout" \notin upset =>
         /\ current # Idle /\ cpu # "presched" => status[current] = Running
         /\ \A p \in Slots : status[p] = Free => block_sem[p] = NoSem

(***************************************************************************)
(* Unless a sem_trywait has failed, a counting semaphore's value and its   *)
(* block_proc_num say the same thing: they agree through timed-out         *)
(* waiters, interrupts in the windows and sem_destroy.                     *)
(***************************************************************************)
CountMatchesValue ==
  "trywait" \notin upset =>
    \A s \in Sems : kind[s] = "counting" =>
      block_proc_num[s] = IF value[s] < 0 THEN -value[s] ELSE 0

\* A mutex is 0 or 1, and never free while somebody is blocked on it: the
\* post that finds a waiter hands the mutex over instead of freeing it.
MutexHandover ==
  \A s \in Sems : kind[s] = "mutex" =>
    /\ value[s] \in {0, 1}
    /\ block_proc_num[s] >= 0
    /\ block_proc_num[s] > 0 => value[s] = 0

(***************************************************************************)
(* As long as nothing unforeseen happens, block_proc_num is the number of  *)
(* PCBs waiting for the semaphore, each of them is Blocked, and a process  *)
(* that executes user code waits for nothing.                              *)
(***************************************************************************)
WaitersAccounted ==
  upset = {} =>
    /\ \A s \in Sems :
         /\ block_proc_num[s] = Cardinality(Waiters(s))
         /\ \A p \in Waiters(s) : status[p] = Blocked
    /\ cpu = "user" => block_sem[current] = NoSem
-----------------------------------------------------------------------------
(***************************************************************************)
(* The behaviours in which nothing unforeseen happens implement the        *)
(* abstract semaphore: permits and waiters change only by its steps, no    *)
(* sem_post misses a waiter, and nobody waits while a permit is free.      *)
(***************************************************************************)
CalmSpec == Init /\ [][Next /\ upset' = {}]_vars

Dijkstra == INSTANCE DijkstraSemaphore WITH
  Procs   <- Slots,
  permits <- [s \in Sems |-> IF value[s] > 0 THEN value[s] ELSE 0],
  waiting <- [s \in Sems |-> Waiters(s)]

ImplementsDijkstra == Dijkstra!Spec
-----------------------------------------------------------------------------
\* What semaphore.c:21 promises, "these operations are atom operations": no
\* interrupt gets into the middle of one and leaves the table with a process
\* that is Running and not current.
AtomicOperations == \A p \in Slots : status[p] = Running => p = current
=============================================================================
