------------------------------ MODULE Process ------------------------------
(***************************************************************************)
(* Processes under the timer: the system calls that run with interrupts    *)
(* closed from asm_do_irq's cli to its iret (fork, exit, sleep, thread),   *)
(* the timer interrupt, and the exceptions, which stop the machine.  Each  *)
(* handler is one action.  The system calls that execute sti before they   *)
(* return (the semaphores and KEYCODE) are in Semaphore.                   *)
(***************************************************************************)
EXTENDS Pcb

CONSTANT SleepArgs     \* arguments programs pass to sleep()
ASSUME SleepAssumption == SleepArgs \subseteq CInt

VARIABLES
  shared,      \* PCBs whose page tables another PCB's directory also points to
  halted       \* irq_handle spins in its while(1), interrupts closed

vars == <<status, time_count, sleep_time, current, cr3, shared, halted>>

TypeOK ==
  /\ PcbTypeOK
  /\ shared \subseteq Slots
  /\ halted \in BOOLEAN

Init ==
  /\ PcbInit
  /\ shared = {}
  /\ halted = FALSE

\* User code runs: the idle process makes no system call and does not fault.
UserRuns == ~halted /\ current # Idle

(***************************************************************************)
(* fork: the caller becomes Ready, a child is created Ready with a copy of *)
(* its memory, and schedule() picks somebody.                              *)
(***************************************************************************)
Fork ==
  /\ UserRuns
  /\ Cardinality(Live) < MaxProcs
  /\ \E i \in Slots :
       /\ IsFirstFree(i)
       /\ NewCounters(i)
       /\ Schedule(Created([status EXCEPT ![current] = Ready], i))
  /\ UNCHANGED <<shared, halted>>

(***************************************************************************)
(* create_thread: a new Ready PCB whose directory points to the page       *)
(* tables of the caller's; the caller keeps the processor.                 *)
(***************************************************************************)
CreateThread ==
  /\ UserRuns
  /\ Cardinality(Live) < MaxProcs
  /\ \E i \in Slots :
       /\ IsFirstFree(i)
       /\ NewCounters(i)
       /\ status' = Created(status, i)
       /\ shared' = shared \cup {current, i}
  /\ UNCHANGED <<current, cr3, halted>>

(***************************************************************************)
(* exit: the PCB and the address space are freed, somebody else is picked. *)
(* release() also frees the page tables a thread shares, which the others  *)
(* go on using; what follows is not the business of this module, so a      *)
(* process that shares its memory does not exit here (those of the         *)
(* repository's programs never do).                                        *)
(***************************************************************************)
Exit ==
  /\ UserRuns
  /\ current \notin shared
  /\ Schedule([status EXCEPT ![current] = Free])
  /\ UNCHANGED <<time_count, sleep_time, shared, halted>>

Sleep(t) ==
  /\ UserRuns
  /\ SleepTable(t)
  /\ UNCHANGED <<shared, halted>>

Timer ==
  /\ ~halted
  /\ TimerTable
  /\ UNCHANGED <<shared, halted>>

(***************************************************************************)
(* A processor exception is reported and stops the machine: one in user    *)
(* code, or the page fault of fork and create_thread when page_alloc finds *)
(* no page and copy() or thread_copy() dereferences its NULL.              *)
(***************************************************************************)
Exception ==
  /\ UserRuns
  /\ halted' = TRUE
  /\ UNCHANGED <<status, time_count, sleep_time, current, cr3, shared>>

Halt == halted /\ UNCHANGED vars

Next ==
  \/ Fork
  \/ CreateThread
  \/ Exit
  \/ \E t \in SleepArgs : Sleep(t)
  \/ Timer
  \/ Exception
  \/ Halt

\* The 8253 interrupts 100 times a second and interrupts are open in user
\* mode (eflags 0x202) and in the idle loop, so a tick is always to come.
Spec == Init /\ [][Next]_vars
FairSpec == Spec /\ WF_vars(Timer)
-----------------------------------------------------------------------------
(***************************************************************************)
(* One processor, one running process: whoever is marked Running is        *)
(* current, and a current process other than idle is marked Running.       *)
(* Every handler leaves `current' Ready, Blocked or free before it calls   *)
(* schedule(); a process left Running would never be picked again.         *)
(***************************************************************************)
OneRunning ==
  /\ \A p \in Slots : status[p] = Running => p = current
  /\ current # Idle => status[current] = Running

(***************************************************************************)
(* The processor always runs in the address space and on the kernel stack  *)
(* of `current', and that process has not been freed.  The fallback of     *)
(* schedule() does not load CR3 or esp0, so this rests on the idle process *)
(* being Ready whenever another one is current.                            *)
(***************************************************************************)
AddressSpaceLoaded ==
  /\ cr3 = current
  /\ status[current] # Free

(***************************************************************************)
(* get_pcb() never hands out a slot at or above MaxProcs, so memory runs   *)
(* out before the table does: get_pcb() never falls through its loop, and  *)
(* schedule() never starts its scan past the end of the table.             *)
(***************************************************************************)
SlotsBelowLimit == \A p \in Live : p < MaxProcs

\* The idle process can always be fallen back on.
IdleRunnable ==
  /\ status[Idle] \in {New, Ready, Running}
  /\ current # Idle => status[Idle] = Ready

\* No starvation: a Ready process gets the processor, however often the
\* others fork, sleep and exit.
ReadyRuns ==
  \A p \in Slots : status[p] = Ready ~> (current = p \/ halted)

\* A sleeper is woken, whatever the argument of sleep() was: the count-down
\* of a sleep(0) or of a negative argument wraps round and reaches 0 too.
SleeperWakes ==
  \A p \in Slots : status[p] = Blocked ~> (status[p] # Blocked \/ halted)
=============================================================================
