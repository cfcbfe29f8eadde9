-------------------------------- MODULE Pcb --------------------------------
(***************************************************************************)
(* The process table of kernel/src/process/pcb.c and the functions every   *)
(* interrupt handler builds on: get_pcb, pcb_new, process_ready, wakeup    *)
(* and the round-robin schedule().                                         *)
(*                                                                         *)
(* A PCB is known by its index in pcb_table.  Slot 0 is the idle process   *)
(* (the hlt loop at the end of init_cond), slot 1 the game the loader      *)
(* starts.  pid and ppid are left out: no code branches on them.           *)
(***************************************************************************)
EXTENDS Integers, FiniteSets

CONSTANTS
  MAX_PCB,    \* number of PCBs in pcb_table: 100
  MaxProcs,   \* how many address spaces fit in physical memory: about 30
  SLICE,      \* time_count at which the timer preempts: 10
  Sleeptime,  \* sleep_time that pcb_new gives a PCB: 5
  INT_MAX     \* largest C int: 2^31 - 1

ASSUME PcbAssumption ==
  /\ MAX_PCB \in Nat
  /\ MaxProcs \in Nat
  /\ 2 <= MaxProcs
  /\ MaxProcs < MAX_PCB
  /\ SLICE \in Nat
  /\ INT_MAX \in Nat
  /\ Sleeptime \in 1 .. INT_MAX

Slots == 0 .. (MAX_PCB - 1)
Idle  == 0
Game  == 1

\* The values of PCB.status; Free is the -1 of an unused PCB.
Free    == "Free"
New     == "New"
Ready   == "Ready"
Running == "Running"
Blocked == "Blocked"
Status  == {Free, New, Ready, Running, Blocked}

CInt == (-INT_MAX - 1) .. INT_MAX

VARIABLES
  status,      \* PCB.status
  time_count,  \* PCB.time_count: timer interrupts taken in this slice
  sleep_time,  \* PCB.sleep_time: the sleep count-down
  current,     \* the PCB the kernel believes is executing
  cr3          \* the PCB whose page directory and kernel stack are loaded
               \* (CR3 and tss.esp0, which schedule() sets together)

pcbVars == <<status, time_count, sleep_time, current, cr3>>

PcbTypeOK ==
  /\ status \in [Slots -> Status]
  /\ time_count \in [Slots -> 0 .. SLICE]
  /\ sleep_time \in [Slots -> CInt]
  /\ current \in Slots
  /\ cr3 \in Slots

(***************************************************************************)
(* The state in which init_cond enables interrupts: pcb_init has freed the *)
(* table, the idle process has been created (and never made Ready), the    *)
(* loader has created the game and made it Ready.                          *)
(***************************************************************************)
PcbInit ==
  /\ status = [p \in Slots |-> CASE p = Idle -> New [] p = Game -> Ready
                                 [] OTHER -> Free]
  /\ time_count = [p \in Slots |-> 0]
  /\ sleep_time = [p \in Slots |-> IF p \in {Idle, Game} THEN Sleeptime ELSE 0]
  /\ current = Idle
  /\ cr3 = Idle

Live == {p \in Slots : status[p] # Free}

\* mutant: get_pcb() goes on to the end of the table.
IsAnyFree(i) == status[i] = Free

\* get_pcb() may return i: the lowest free slot.
IsFirstFree(i) ==
  /\ status[i] = Free
  /\ \A j \in 0 .. (i - 1) : status[j] # Free

\* mutant: the count-down stops at the smallest int.
DecSaturating(x) == IF x = -INT_MAX - 1 THEN x ELSE x - 1

\* C's int decrement, which wraps on this target.
Dec(x) == IF x = -INT_MAX - 1 THEN INT_MAX ELSE x - 1

(***************************************************************************)
(* wakeup(): every Blocked PCB, whatever it is blocked on, has its         *)
(* sleep_time decremented and becomes Ready when that reaches 0.           *)
(***************************************************************************)
Countdown ==
  [p \in Slots |-> IF status[p] = Blocked THEN Dec(sleep_time[p])
                                          ELSE sleep_time[p]]

Awoken == {p \in Slots : status[p] = Blocked /\ Countdown[p] = 0}

MadeReady(S) == [p \in Slots |-> IF p \in S THEN Ready ELSE status[p]]

(***************************************************************************)
(* The slots the for loop of schedule() visits, starting after `current'.  *)
(* From the last slot the loop starts at index MAX_PCB, reads past the     *)
(* table (zero padding in this build, which is not Ready), and goes on at  *)
(* slot 1: slot 0 is never looked at.                                      *)
(***************************************************************************)
Scanned ==
  IF current = MAX_PCB - 1 THEN 1 .. (MAX_PCB - 2) ELSE Slots \ {current}

\* mutant: every scan starts at slot 0.
DistanceFromZero(i) == i

Distance(i) == (i - current) % MAX_PCB

\* mutant: write_cr3() is missing.
ScheduleKeepsCr3(st) ==
  LET ready == {i \in Scanned : st[i] = Ready}
  IN  /\ \/ ready = {} /\ current' = Idle /\ status' = st
         \/ \E i \in ready :
              /\ \A j \in ready : Distance(i) <= Distance(j)
              /\ current' = i
              /\ status' = [st EXCEPT ![i] = Running]
      /\ cr3' = cr3

(***************************************************************************)
(* schedule(), called with the table's status column already updated to    *)
(* st: the first Ready slot after current becomes current and Running and  *)
(* its kernel stack and page directory are loaded.  When there is none,    *)
(* current becomes slot 0, and neither its status nor CR3 is touched.      *)
(***************************************************************************)
Schedule(st) ==
  LET ready == {i \in Scanned : st[i] = Ready}
  IN  \/ /\ ready = {}
         /\ current' = Idle
         /\ status' = st
         /\ cr3' = cr3
      \/ \E i \in ready :
           /\ \A j \in ready : Distance(i) <= Distance(j)
           /\ current' = i
           /\ status' = [st EXCEPT ![i] = Running]
           /\ cr3' = i

\* mutant: the slice is compared with the wrong bound.
TimerTableLate ==
  /\ sleep_time' = Countdown
  /\ \/ /\ time_count[current] = SLICE + 1
        /\ time_count' = [time_count EXCEPT ![current] = 0]
        /\ Schedule(MadeReady(Awoken \cup {current}))
     \/ /\ time_count[current] # SLICE + 1
        /\ time_count' = [time_count EXCEPT ![current] = @ + 1]
        /\ status' = MadeReady(Awoken)
        /\ UNCHANGED <<current, cr3>>

(***************************************************************************)
(* What the timer interrupt does to the table: wakeup(), then either the   *)
(* slice of the current process goes on, or process_ready() and            *)
(* schedule().                                                             *)
(***************************************************************************)
TimerTable ==
  /\ sleep_time' = Countdown
  /\ \/ /\ time_count[current] = SLICE
        /\ time_count' = [time_count EXCEPT ![current] = 0]
        /\ Schedule(MadeReady(Awoken \cup {current}))
     \/ /\ time_count[current] # SLICE
        /\ time_count' = [time_count EXCEPT ![current] = @ + 1]
        /\ status' = MadeReady(Awoken)
        /\ UNCHANGED <<current, cr3>>

\* mutant: process_sleep() does not block its caller.
SleepTableRunning(t) ==
  /\ sleep_time' = [sleep_time EXCEPT ![current] = t]
  /\ Schedule(status)
  /\ UNCHANGED time_count

\* process_sleep(t)
SleepTable(t) ==
  /\ sleep_time' = [sleep_time EXCEPT ![current] = t]
  /\ Schedule([status EXCEPT ![current] = Blocked])
  /\ UNCHANGED time_count

\* pcb_new() and process_ready() of slot i, in a status column st.
Created(st, i) == [st EXCEPT ![i] = Ready]
NewCounters(i) ==
  /\ time_count' = [time_count EXCEPT ![i] = 0]
  /\ sleep_time' = [sleep_time EXCEPT ![i] = Sleeptime]
=============================================================================
