-------------------------- MODULE SemaphoreProofs ---------------------------
(***************************************************************************)
(* Proofs about Semaphore, for every size of the process table, number of  *)
(* semaphores and bound on their values, and about ProducerConsumer, for   *)
(* every size of the ring and of the slice.                                *)
(***************************************************************************)
EXTENDS ProducerConsumer, TLAPS, FiniteSetTheorems

(***************************************************************************)
(* The inductive invariant, in four parts.  SchedulerOK adds to            *)
(* SchedulingSound what schedule() needs to find a process whose address   *)
(* space is loaded: idle is Ready whenever somebody else is current, and   *)
(* no slot in use or queued is the last one.                               *)
(***************************************************************************)
SchedulerOK ==
  "window" \notin upset =>
    /\ \A p \in Slots : status[p] = Running => p = current
    /\ cr3 = current
    /\ current < MaxProcs
    /\ \A p \in Slots : tf[p] = "user"
    /\ current # Idle => status[Idle] = Ready
    /\ \A p \in Slots : status[p] # Free \/ block_sem[p] # NoSem => p < MaxProcs
    /\ cpu = "presched" => current # Idle /\ status[current] = Blocked

\* Without a timeout the queued processes are Blocked, so that neither
\* current nor a free PCB is among them.
QueueOK ==
  /\ block_sem[Idle] = NoSem
  /\ "window" \notin upset /\ "timeout" \notin upset =>
       /\ current # Idle /\ cpu # "presched" => status[current] = Running
       /\ \A p \in Slots : block_sem[p] # NoSem => status[p] = Blocked

\* The numbers of a sem_t agree, and are 0 before sem_init.
CountsOK ==
  /\ CountMatchesValue
  /\ MutexHandover
  /\ \A s \in Sems : kind[s] = "none" => value[s] = 0 /\ block_proc_num[s] = 0

\* block_proc_num counts the queue.
QueuesCounted ==
  upset = {} => \A s \in Sems : block_proc_num[s] = Cardinality(Waiters(s))

Inv ==
  /\ TypeOK
  /\ SchedulerOK
  /\ QueueOK
  /\ CountsOK
  /\ QueuesCounted

-----------------------------------------------------------------------------
\* get_pcb(): with fewer than MaxProcs PCBs in use the first free one is
\* below MaxProcs, by the pigeonhole principle.
LEMMA FirstFreeIsLow ==
  ASSUME PcbTypeOK, NEW i \in Slots, IsFirstFree(i), Cardinality(Live) < MaxProcs
  PROVE  i < MaxProcs
<1> USE PcbAssumption
<1> SUFFICES ASSUME ~(i < MaxProcs) PROVE FALSE
  OBVIOUS
<1> DEFINE low == 0 .. (MaxProcs - 1)
<1>1. low \subseteq Live
  BY DEF low, Live, IsFirstFree, Slots, PcbTypeOK
<1>2. IsFiniteSet(Slots)
  BY FS_Interval DEF Slots
<1>3. IsFiniteSet(Live)
  BY <1>2, FS_Subset DEF Live
<1>4. Cardinality(low) = MaxProcs
  BY FS_Interval DEF low
<1>5. Cardinality(low) <= Cardinality(Live)
  BY <1>1, <1>3, FS_Subset
<1>6. Cardinality(Live) \in Nat
  BY <1>3, FS_CardinalityType
<1> QED
  BY <1>4, <1>5, <1>6

\* Whatever the table is like, schedule() leaves it a table.
LEMMA ScheduleType ==
  ASSUME NEW st \in [Slots -> Status], cr3 \in Slots, Schedule(st)
  PROVE  status' \in [Slots -> Status] /\ current' \in Slots /\ cr3' \in Slots
<1>1. Scanned \subseteq Slots /\ Idle \in Slots
  BY PcbAssumption DEF Scanned, Slots, Idle
<1> QED
  BY <1>1 DEF Schedule, Status

(***************************************************************************)
(* What schedule() establishes from a table in which nobody is Running,    *)
(* idle is Ready and every PCB in use is below MaxProcs.                   *)
(***************************************************************************)
LEMMA ScheduleStep ==
  ASSUME NEW st \in [Slots -> Status],
         current \in Slots, current < MaxProcs, cr3 = current,
         st[Idle] = Ready,
         \A p \in Slots : st[p] # Running,
         \A p \in Slots : st[p] # Free => p < MaxProcs,
         Schedule(st)
  PROVE  /\ current' \in Slots /\ current' < MaxProcs /\ cr3' = current'
         /\ \A p \in Slots : status'[p] = Running => p = current'
         /\ current' # Idle => status'[Idle] = Ready /\ status'[current'] = Running
         /\ \A p \in Slots : st[p] # Ready => status'[p] = st[p]
         /\ \A p \in Slots : status'[p] # Free => p < MaxProcs
<1> USE PcbAssumption DEF Status, Free, New, Ready, Running, Blocked
<1> DEFINE ready == {i \in Scanned : st[i] = Ready}
<1>1. Idle \in Slots /\ Scanned = Slots \ {current}
  BY DEF Scanned, Slots, Idle
<1>2. CASE ready = {} /\ current' = Idle /\ status' = st /\ cr3' = cr3
  <2>1. current = Idle
    BY <1>1, <1>2
  <2> QED
    BY <1>1, <1>2, <2>1
<1>3. CASE \E i \in ready : /\ current' = i
                            /\ status' = [st EXCEPT ![i] = Running]
                            /\ cr3' = i
  <2>1. PICK i \in ready : /\ current' = i
                           /\ status' = [st EXCEPT ![i] = Running]
                           /\ cr3' = i
    BY <1>3
  <2>2. i \in Slots /\ st[i] = Ready /\ i < MaxProcs
    BY <1>1, <2>1
  <2> QED
    BY <1>1, <2>1, <2>2
<1> QED
  BY <1>2, <1>3 DEF Schedule

\* The C decrement stays a C int.
LEMMA CountdownType ==
  ASSUME PcbTypeOK
  PROVE  Countdown \in [Slots -> CInt]
<1>1. \A x \in CInt : Dec(x) \in CInt
  BY PcbAssumption DEF Dec, CInt
<1> QED
  BY <1>1 DEF Countdown, PcbTypeOK

LEMMA InitInv == Init => Inv
<1> USE PcbAssumption DEF Status, Free, New, Ready, Running, Blocked, Idle, Game
<1> SUFFICES ASSUME Init PROVE Inv
  OBVIOUS
<1>1. Idle \in Slots /\ Game \in Slots /\ 0 \in CInt /\ Sleeptime \in CInt
  BY DEF Slots, CInt
<1>2. PcbTypeOK
  <2>1. status \in [Slots -> Status]
    BY DEF Init, PcbInit
  <2>2. time_count \in [Slots -> 0 .. SLICE]
    BY DEF Init, PcbInit
  <2>3. sleep_time \in [Slots -> CInt]
    BY <1>1 DEF Init, PcbInit
  <2>4. current \in Slots /\ cr3 \in Slots
    BY <1>1 DEF Init, PcbInit
  <2> QED
    BY <2>1, <2>2, <2>3, <2>4 DEF PcbTypeOK
<1>3. TypeOK
  <2>1. cpu \in Place /\ tf \in [Slots -> Place] /\ kind \in [Sems -> Kind]
    BY DEF Init, Place, Kind
  <2>2. halted \in BOOLEAN /\ upset \subseteq Upset
    BY DEF Init
  <2> QED
    BY <1>2, <2>1, <2>2 DEF Init, TypeOK
<1>4. SchedulerOK /\ QueueOK
  BY <1>1 DEF Init, PcbInit, SchedulerOK, QueueOK
<1>5. CountsOK
  BY DEF Init, CountsOK, CountMatchesValue, MutexHandover
<1>6. QueuesCounted
  <2>1. \A s \in Sems : Waiters(s) = {}
    BY SemAssumption DEF Init, Waiters
  <2>2. Cardinality({}) = 0
    BY FS_EmptySet
  <2>3. \A s \in Sems : Cardinality(Waiters(s)) = 0
    BY <2>1, <2>2
  <2> QED
    BY <2>3 DEF Init, QueuesCounted
<1> QED
  BY <1>3, <1>4, <1>5, <1>6 DEF Inv
-----------------------------------------------------------------------------
(***************************************************************************)
(* The queues.                                                             *)
(***************************************************************************)
LEMMA WaitersFinite ==
  ASSUME NEW s
  PROVE  IsFiniteSet(Waiters(s)) /\ Cardinality(Waiters(s)) \in Nat
<1>1. IsFiniteSet(Slots)
  BY PcbAssumption, FS_Interval DEF Slots
<1>2. IsFiniteSet(Waiters(s))
  BY <1>1, FS_Subset DEF Waiters
<1> QED
  BY <1>2, FS_CardinalityType

\* sem_wait: p, in no queue so far, joins that of s.
LEMMA Enqueued ==
  ASSUME TypeOK, NEW s \in Sems, NEW p \in Slots, block_sem[p] = NoSem,
         block_sem' = [block_sem EXCEPT ![p] = s]
  PROVE  /\ Waiters(s)' = Waiters(s) \cup {p} /\ p \notin Waiters(s)
         /\ Cardinality(Waiters(s)') = Cardinality(Waiters(s)) + 1
         /\ \A t \in Sems \ {s} : Waiters(t)' = Waiters(t)
<1>1. Waiters(s)' = Waiters(s) \cup {p} /\ p \notin Waiters(s)
  BY SemAssumption DEF TypeOK, Waiters
<1>2. \A t \in Sems \ {s} : Waiters(t)' = Waiters(t)
  BY SemAssumption DEF TypeOK, Waiters
<1>3. Cardinality(Waiters(s)') = Cardinality(Waiters(s)) + 1
  BY <1>1, WaitersFinite, FS_AddElement
<1> QED
  BY <1>1, <1>2, <1>3

\* release_sem(): p leaves the queue of s.
LEMMA Dequeued ==
  ASSUME TypeOK, NEW s \in Sems, NEW p \in Waiters(s),
         block_sem' = [block_sem EXCEPT ![p] = NoSem]
  PROVE  /\ Waiters(s)' = Waiters(s) \ {p}
         /\ Cardinality(Waiters(s)') = Cardinality(Waiters(s)) - 1
         /\ \A t \in Sems \ {s} : Waiters(t)' = Waiters(t)
<1>1. Waiters(s)' = Waiters(s) \ {p}
  BY SemAssumption DEF TypeOK, Waiters
<1>2. \A t \in Sems \ {s} : Waiters(t)' = Waiters(t)
  BY SemAssumption DEF TypeOK, Waiters
<1>3. Cardinality(Waiters(s)') = Cardinality(Waiters(s)) - 1
  BY <1>1, WaitersFinite, FS_RemoveElement
<1> QED
  BY <1>1, <1>2, <1>3

LEMMA NoWaiters ==
  ASSUME NEW s \in Sems
  PROVE  Cardinality(Waiters(s)) = 0 <=> Waiters(s) = {}
  BY WaitersFinite, FS_EmptySet

-----------------------------------------------------------------------------
(***************************************************************************)
(* What a call that runs to its tail leaves of the process table and of    *)
(* the saved frames.                                                       *)
(***************************************************************************)
Machine == PcbTypeOK /\ cpu \in Place /\ tf \in [Slots -> Place] /\
           block_sem \in [Slots -> Sems \cup {NoSem}] /\ halted \in BOOLEAN

LEMMA SyscallFrames ==
  ASSUME Inv, Syscall
  PROVE  /\ tf' \in [Slots -> Place] /\ halted' \in BOOLEAN
         /\ \A p \in Slots : tf[p] = "user" => tf'[p] = "user"
         /\ current \in Slots /\ Idle \in Slots /\ "tail" \in Place
<1>1. tf' \in [Slots -> Place] /\ current \in Slots /\ Idle \in Slots
  BY PcbAssumption DEF Inv, TypeOK, PcbTypeOK, Syscall, Place, Idle, Slots
<1>2. \A p \in Slots : tf[p] = "user" => tf'[p] = "user"
  BY DEF Inv, TypeOK, Syscall
<1>3. halted' \in BOOLEAN
  BY DEF Inv, TypeOK, Syscall
<1> QED
  BY <1>1, <1>2, <1>3 DEF Place

LEMMA TailCall ==
  ASSUME Inv, Syscall, ToTail, block_sem' = block_sem, upset \subseteq upset'
  PROVE  Machine' /\ SchedulerOK' /\ QueueOK'
<1>1. Machine'
  BY SyscallFrames DEF ToTail, Machine, Inv, TypeOK, PcbTypeOK
<1>2. SchedulerOK'
  BY SyscallFrames DEF ToTail, Inv, SchedulerOK
<1>3. QueueOK'
  BY DEF Syscall, ToTail, Inv, QueueOK
<1> QED
  BY <1>1, <1>2, <1>3

\* release_sem() makes at most one queued process Ready.
LEMMA ReleaseCall ==
  ASSUME Inv, Syscall, NEW s \in Sems, ReleaseSem(s), cpu' = "tail",
         UNCHANGED <<sleep_time, current, cr3>>, upset \subseteq upset'
  PROVE  Machine' /\ SchedulerOK' /\ QueueOK'
<1> USE DEF Status, Free, New, Ready, Running, Blocked
<1>1. CASE Waiters(s) = {} /\ UNCHANGED <<status, time_count, block_sem>>
  BY <1>1, TailCall DEF ToTail
<1>2. CASE \E p \in Waiters(s) : /\ status' = [status EXCEPT ![p] = Ready]
                                 /\ time_count' = [time_count EXCEPT ![p] = 0]
                                 /\ block_sem' = [block_sem EXCEPT ![p] = NoSem]
  <2>1. PICK p \in Waiters(s) : /\ status' = [status EXCEPT ![p] = Ready]
                                /\ time_count' = [time_count EXCEPT ![p] = 0]
                                /\ block_sem' = [block_sem EXCEPT ![p] = NoSem]
    BY <1>2
  <2>2. p \in Slots /\ block_sem[p] # NoSem
    BY SemAssumption DEF Waiters
  <2>3. 0 \in 0 .. SLICE
    BY PcbAssumption
  <2>4. PcbTypeOK'
    BY <2>1, <2>2, <2>3 DEF Inv, TypeOK, PcbTypeOK
  <2>5. Machine'
    BY <2>1, <2>2, <2>4, SyscallFrames DEF Machine, Inv, TypeOK
  <2>6. \A q \in Slots : /\ status'[q] = IF q = p THEN Ready ELSE status[q]
                         /\ block_sem'[q] = IF q = p THEN NoSem ELSE block_sem[q]
    BY <2>1, <2>2 DEF Inv, TypeOK, PcbTypeOK
  <2>7. SchedulerOK'
    BY <2>2, <2>6, SyscallFrames DEF Inv, SchedulerOK
  <2>8. QueueOK'
    BY <2>2, <2>6, SyscallFrames DEF Inv, QueueOK, Syscall
  <2> QED
    BY <2>5, <2>7, <2>8
<1> QED
  BY <1>1, <1>2 DEF ReleaseSem
-----------------------------------------------------------------------------
(***************************************************************************)
(* One lemma per operation.                                                *)
(***************************************************************************)
LEMMA SemInitInv ==
  ASSUME Inv, NEW s \in Sems, NEW v \in Nat, NEW mx \in BOOLEAN,
         SemInit(s, v, mx)
  PROVE  Inv'
<1>1. Machine' /\ SchedulerOK' /\ QueueOK'
  BY TailCall DEF SemInit
<1> DEFINE k == IF mx THEN "mutex" ELSE "counting"
           w == IF mx THEN 1 ELSE v
<1>2. /\ kind[s] = "none" /\ upset' = upset /\ block_sem' = block_sem
      /\ kind' = [kind EXCEPT ![s] = k] /\ value' = [value EXCEPT ![s] = w]
      /\ block_proc_num' = [block_proc_num EXCEPT ![s] = 0]
  BY DEF SemInit
<1>3. k \in {"mutex", "counting"} /\ w \in Nat /\ (k = "mutex" => w = 1)
  OBVIOUS
<1> HIDE DEF k, w
<1>4. TypeOK'
  BY <1>1, <1>2, <1>3 DEF Machine, Inv, TypeOK, Kind
<1>5. CountsOK'
  BY <1>2, <1>3 DEF Inv, TypeOK, CountsOK, CountMatchesValue, MutexHandover
<1>6. QueuesCounted'
  <2>1. block_proc_num' = block_proc_num
    BY <1>2 DEF Inv, TypeOK, CountsOK
  <2> QED
    BY <1>2, <2>1 DEF Inv, QueuesCounted, Waiters
<1> QED
  BY <1>1, <1>4, <1>5, <1>6 DEF Inv

LEMMA SemWaitPassInv ==
  ASSUME Inv, NEW s \in Sems, SemWaitPass(s)
  PROVE  Inv'
<1>1. Machine' /\ SchedulerOK' /\ QueueOK'
  BY TailCall DEF SemWaitPass
<1>2. /\ kind[s] # "none" /\ Available(s)
      /\ value' = [value EXCEPT ![s] = @ - 1]
      /\ UNCHANGED <<block_sem, kind, block_proc_num, upset>>
  BY DEF SemWaitPass
<1>3. TypeOK'
  BY <1>1, <1>2 DEF Machine, Inv, TypeOK
<1>4. CountsOK'
  BY <1>2 DEF Inv, TypeOK, CountsOK, CountMatchesValue, MutexHandover, Available
<1>5. QueuesCounted'
  BY <1>2 DEF Inv, QueuesCounted, Waiters
<1> QED
  BY <1>1, <1>3, <1>4, <1>5 DEF Inv

LEMMA SemWaitBlockInv ==
  ASSUME Inv, NEW s \in Sems, SemWaitBlock(s)
  PROVE  Inv'
<1> USE DEF Status, Free, New, Ready, Running, Blocked
<1>1. /\ Syscall /\ kind[s] # "none" /\ ~Available(s)
      /\ value' = IF kind[s] = "mutex" THEN value ELSE [value EXCEPT ![s] = @ - 1]
      /\ status' = [status EXCEPT ![current] = Blocked]
      /\ block_sem' = [block_sem EXCEPT ![current] = s]
      /\ block_proc_num' = [block_proc_num EXCEPT ![s] = @ + 1]
      /\ cpu' = "presched"
      /\ UNCHANGED <<time_count, sleep_time, current, cr3, kind, upset>>
  BY DEF SemWaitBlock
<1>2. current \in Slots /\ current # Idle /\ cpu = "user" /\ Idle \in Slots
  BY <1>1, SyscallFrames DEF Syscall
<1>3. PcbTypeOK'
  BY <1>1, <1>2 DEF Inv, TypeOK, PcbTypeOK
<1>4. TypeOK'
  <2>1. /\ value' \in [Sems -> Int] /\ block_proc_num' \in [Sems -> Int]
        /\ block_sem' \in [Slots -> Sems \cup {NoSem}]
    BY <1>1, <1>2 DEF Inv, TypeOK
  <2> QED
    BY <1>1, <1>3, <2>1, SyscallFrames DEF Inv, TypeOK, Place
<1>5. \A q \in Slots : /\ status'[q] = IF q = current THEN Blocked ELSE status[q]
                       /\ block_sem'[q] = IF q = current THEN s ELSE block_sem[q]
  BY <1>1, <1>2 DEF Inv, TypeOK, PcbTypeOK
<1>6. SchedulerOK'
  BY <1>1, <1>2, <1>5, SyscallFrames DEF Inv, SchedulerOK
<1>7. QueueOK'
  BY <1>1, <1>2, <1>5 DEF Inv, QueueOK
<1>8. CountsOK'
  BY <1>1 DEF Inv, TypeOK, CountsOK, CountMatchesValue, MutexHandover, Available
<1>9. ASSUME upset' = {}
      PROVE  \A t \in Sems : block_proc_num'[t] = Cardinality(Waiters(t)')
  <2>1. block_sem[current] = NoSem
    BY <1>1, <1>2, <1>9 DEF Inv, QueueOK
  <2>2. /\ Cardinality(Waiters(s)') = Cardinality(Waiters(s)) + 1
        /\ \A t \in Sems \ {s} : Waiters(t)' = Waiters(t)
    BY <1>1, <1>2, <2>1, Enqueued DEF Inv
  <2>3. \A t \in Sems : block_proc_num[t] = Cardinality(Waiters(t))
    BY <1>1, <1>9 DEF Inv, QueuesCounted
  <2> QED
    BY <1>1, <2>2, <2>3 DEF Inv, TypeOK
<1>10. QueuesCounted'
  BY <1>9 DEF QueuesCounted
<1> QED
  BY <1>4, <1>6, <1>7, <1>8, <1>10 DEF Inv

\* Whom sem_post releases is in the queue, unless something went wrong.
LEMMA ReleasedWaits ==
  ASSUME Inv, upset = {}, NEW s \in Sems, kind[s] # "none"
  PROVE  Releases(s) <=> Waiters(s) # {}
<1>1. block_proc_num[s] = Cardinality(Waiters(s))
  BY DEF Inv, QueuesCounted
<1>2. block_proc_num[s] = 0 <=> Waiters(s) = {}
  BY <1>1, NoWaiters
<1>3. kind[s] \in {"counting", "mutex"} /\ value[s] \in Int
  BY DEF Inv, TypeOK, Kind
<1> QED
  BY <1>2, <1>3 DEF Inv, CountsOK, CountMatchesValue, MutexHandover, Releases

LEMMA SemPostInv ==
  ASSUME Inv, NEW s \in Sems, SemPost(s)
  PROVE  Inv'
<1>1. /\ Syscall /\ kind[s] # "none" /\ cpu' = "tail"
      /\ value' = [value EXCEPT ![s] = Posted(s)]
      /\ UNCHANGED <<sleep_time, current, cr3, kind, upset>>
  BY DEF SemPost
<1>0. kind[s] \in {"counting", "mutex"} /\ value[s] \in Int
  BY <1>1 DEF Inv, TypeOK, Kind
<1>2. Posted(s) \in Int /\ value' \in [Sems -> Int]
  BY <1>0, <1>1 DEF Posted, Inv, TypeOK
<1>3. CASE /\ Releases(s) /\ ReleaseSem(s)
           /\ block_proc_num' = [block_proc_num EXCEPT ![s] = @ - 1]
  <2>1. Machine' /\ SchedulerOK' /\ QueueOK'
    BY <1>1, <1>3, ReleaseCall
  <2>2. TypeOK'
    BY <1>1, <1>2, <1>3, <2>1 DEF Machine, Inv, TypeOK
  <2>3. CountsOK'
    BY <1>0, <1>1, <1>3
    DEF Inv, TypeOK, CountsOK, CountMatchesValue, MutexHandover, Releases, Posted
  <2>4. ASSUME upset' = {}
        PROVE  \A t \in Sems : block_proc_num'[t] = Cardinality(Waiters(t)')
    <3>1. Waiters(s) # {}
      BY <1>1, <1>3, <2>4, ReleasedWaits
    <3>2. PICK p \in Waiters(s) : block_sem' = [block_sem EXCEPT ![p] = NoSem]
      BY <1>3, <3>1 DEF ReleaseSem
    <3>3. /\ Cardinality(Waiters(s)') = Cardinality(Waiters(s)) - 1
          /\ \A t \in Sems \ {s} : Waiters(t)' = Waiters(t)
      BY <3>2, Dequeued DEF Inv
    <3>4. \A t \in Sems : block_proc_num[t] = Cardinality(Waiters(t))
      BY <1>1, <2>4 DEF Inv, QueuesCounted
    <3> QED
      BY <1>3, <3>3, <3>4 DEF Inv, TypeOK
  <2>5. QueuesCounted'
    BY <2>4 DEF QueuesCounted
  <2> QED
    BY <2>1, <2>2, <2>3, <2>5 DEF Inv
<1>4. CASE ~Releases(s) /\ UNCHANGED <<status, time_count, block_sem, block_proc_num>>
  <2>1. Machine' /\ SchedulerOK' /\ QueueOK'
    BY <1>1, <1>4, TailCall DEF ToTail
  <2>2. TypeOK'
    BY <1>1, <1>2, <1>4, <2>1 DEF Machine, Inv, TypeOK
  <2>3. CountsOK'
    BY <1>0, <1>1, <1>4
    DEF Inv, TypeOK, CountsOK, CountMatchesValue, MutexHandover, Releases, Posted
  <2>4. QueuesCounted'
    BY <1>1, <1>4 DEF Inv, QueuesCounted, Waiters
  <2> QED
    BY <2>1, <2>2, <2>3, <2>4 DEF Inv
<1> QED
  BY <1>3, <1>4 DEF SemPost

LEMMA SemDestroyInv ==
  ASSUME Inv, NEW s \in Sems, SemDestroy(s)
  PROVE  Inv'
<1>1. /\ Syscall /\ ReleaseSem(s) /\ cpu' = "tail"
      /\ upset' = IF Waiters(s) = {} THEN upset ELSE upset \cup {"destroy"}
      /\ UNCHANGED <<sleep_time, current, cr3, kind, value, block_proc_num>>
  BY DEF SemDestroy
<1>2. upset \subseteq upset' /\ upset' \subseteq Upset
  BY <1>1 DEF Inv, TypeOK, Upset
<1>3. Machine' /\ SchedulerOK' /\ QueueOK'
  BY <1>1, <1>2, ReleaseCall
<1>4. TypeOK'
  BY <1>1, <1>2, <1>3 DEF Machine, Inv, TypeOK
<1>5. CountsOK'
  BY <1>1, <1>2 DEF Inv, CountsOK, CountMatchesValue, MutexHandover
<1>6. QueuesCounted'
  BY <1>1 DEF Inv, QueuesCounted, ReleaseSem, Waiters
<1> QED
  BY <1>3, <1>4, <1>5, <1>6 DEF Inv

LEMMA SemTrywaitInv ==
  ASSUME Inv, NEW s \in Sems, SemTrywait(s)
  PROVE  Inv'
<1>1. /\ Syscall /\ ToTail /\ kind[s] # "none"
      /\ value' = IF kind[s] = "mutex" /\ ~Available(s)
                  THEN value ELSE [value EXCEPT ![s] = @ - 1]
      /\ upset' = IF kind[s] = "counting" /\ ~Available(s)
                  THEN upset \cup {"trywait"} ELSE upset
      /\ UNCHANGED <<block_sem, kind, block_proc_num>>
  BY DEF SemTrywait
<1>2. upset \subseteq upset' /\ upset' \subseteq Upset
  BY <1>1 DEF Inv, TypeOK, Upset
<1>3. Machine' /\ SchedulerOK' /\ QueueOK'
  BY <1>1, <1>2, TailCall
<1>4. value' \in [Sems -> Int]
  BY <1>1 DEF Inv, TypeOK
<1>5. TypeOK'
  BY <1>1, <1>2, <1>3, <1>4 DEF Machine, Inv, TypeOK
<1>6. CountsOK'
  BY <1>1, <1>2 DEF Inv, TypeOK, CountsOK, CountMatchesValue, MutexHandover, Available
<1>7. QueuesCounted'
  BY <1>1, <1>2 DEF Inv, QueuesCounted, Waiters
<1> QED
  BY <1>3, <1>5, <1>6, <1>7 DEF Inv

\* The rest of the kernel leaves the semaphores alone.
LEMMA SameSems ==
  ASSUME Inv, UNCHANGED <<block_sem, kind, value, block_proc_num>>,
         upset \subseteq upset', upset' \subseteq Upset,
         Machine', SchedulerOK', QueueOK'
  PROVE  Inv'
<1>1. TypeOK'
  BY DEF Machine, Inv, TypeOK
<1>2. CountsOK'
  BY DEF Inv, CountsOK, CountMatchesValue, MutexHandover
<1>3. QueuesCounted'
  BY DEF Inv, QueuesCounted, Waiters
<1> QED
  BY <1>1, <1>2, <1>3 DEF Inv

LEMMA GetKeyInv ==
  ASSUME Inv, GetKey
  PROVE  Inv'
<1>1. Machine' /\ SchedulerOK' /\ QueueOK'
  BY TailCall DEF GetKey
<1> QED
  BY <1>1, SameSems DEF GetKey, Inv, TypeOK

LEMMA PreSchedInv ==
  ASSUME Inv, PreSched
  PROVE  Inv'
<1> USE DEF Status, Free, New, Ready, Running, Blocked
<1>1. /\ cpu = "presched" /\ cpu' = "tail" /\ Schedule(status)
      /\ UNCHANGED <<time_count, sleep_time, tf, block_sem, kind, value,
                     block_proc_num, upset, halted>>
  BY DEF PreSched
<1>2. status' \in [Slots -> Status] /\ current' \in Slots /\ cr3' \in Slots
  BY <1>1, ScheduleType DEF Inv, TypeOK, PcbTypeOK
<1>3. Machine'
  BY <1>1, <1>2 DEF Machine, Inv, TypeOK, PcbTypeOK, Place
<1>4. CASE "window" \notin upset
  <2>1. /\ current \in Slots /\ current < MaxProcs /\ cr3 = current
        /\ status \in [Slots -> Status] /\ status[Idle] = Ready
        /\ \A p \in Slots : status[p] # Running
        /\ \A p \in Slots : status[p] # Free => p < MaxProcs
    BY <1>1, <1>4 DEF Inv, SchedulerOK, TypeOK, PcbTypeOK
  <2>2. /\ current' \in Slots /\ current' < MaxProcs /\ cr3' = current'
        /\ \A p \in Slots : status'[p] = Running => p = current'
        /\ current' # Idle => status'[Idle] = Ready /\ status'[current'] = Running
        /\ \A p \in Slots : status[p] # Ready => status'[p] = status[p]
        /\ \A p \in Slots : status'[p] # Free => p < MaxProcs
    BY <1>1, <2>1, ScheduleStep
  <2>3. SchedulerOK'
    BY <1>1, <1>4, <2>2 DEF Inv, SchedulerOK
  <2>4. QueueOK'
    BY <1>1, <1>4, <2>2 DEF Inv, QueueOK
  <2> QED
    BY <1>1, <1>3, <2>3, <2>4, SameSems DEF Inv, TypeOK
<1>5. CASE "window" \in upset
  <2>1. SchedulerOK' /\ QueueOK'
    BY <1>1, <1>5 DEF Inv, SchedulerOK, QueueOK
  <2> QED
    BY <1>1, <1>3, <2>1, SameSems DEF Inv, TypeOK
<1> QED
  BY <1>4, <1>5

LEMMA ReturnInv ==
  ASSUME Inv, Return
  PROVE  Inv'
<1>1. /\ cpu = "tail" /\ cpu' = tf[current]
      /\ UNCHANGED <<status, time_count, sleep_time, current, cr3, tf, block_sem,
                     kind, value, block_proc_num, upset, halted>>
  BY DEF Return
<1>2. Machine'
  BY <1>1 DEF Machine, Inv, TypeOK, PcbTypeOK
<1>3. "window" \notin upset => cpu' = "user"
  BY <1>1 DEF Inv, SchedulerOK, TypeOK, PcbTypeOK
<1>4. SchedulerOK' /\ QueueOK'
  BY <1>1, <1>3 DEF Inv, SchedulerOK, QueueOK
<1> QED
  BY <1>1, <1>2, <1>4, SameSems DEF Inv, TypeOK

(***************************************************************************)
(* Outside the windows, a process in user code gives up the processor      *)
(* (exit, sleep, the end of its slice): its status changes, so that nobody *)
(* is Running any more, and schedule() runs.                               *)
(***************************************************************************)
LEMMA GiveUp ==
  ASSUME Inv, NEW st \in [Slots -> Status], Schedule(st), cpu = "user",
         PcbTypeOK', tf' = [tf EXCEPT ![current] = "user"], ToFrame,
         halted' = halted, block_sem' = block_sem, upset \subseteq upset',
         current # Idle \/ st[Idle] = Ready,
         st[current] # Running,
         \A p \in Slots \ {current} :
           st[p] = status[p] \/ (status[p] = Blocked /\ st[p] = Ready),
         "window" \notin upset' /\ "timeout" \notin upset' =>
           \A p \in Slots : block_sem[p] # NoSem => st[p] = status[p]
  PROVE  Machine' /\ SchedulerOK' /\ QueueOK'
<1> USE DEF Status, Free, New, Ready, Running, Blocked
<1>0. current \in Slots /\ Idle \in Slots /\ current' \in Slots
  BY PcbAssumption DEF Inv, TypeOK, PcbTypeOK, Idle, Slots
<1>1. tf' \in [Slots -> Place] /\ \A p \in Slots : tf[p] = "user" => tf'[p] = "user"
  BY DEF Inv, TypeOK, Place
<1>2. Machine'
  BY <1>0, <1>1 DEF Machine, ToFrame, Inv, TypeOK
<1>3. CASE "window" \notin upset'
  <2>0. /\ \A p \in Slots : status[p] = Running => p = current
        /\ cr3 = current /\ current < MaxProcs
        /\ \A p \in Slots : tf[p] = "user"
        /\ current # Idle => status[Idle] = Ready
        /\ \A p \in Slots : status[p] # Free \/ block_sem[p] # NoSem => p < MaxProcs
    BY <1>3 DEF Inv, SchedulerOK
  <2>1. /\ st[Idle] = Ready
        /\ \A p \in Slots : st[p] # Running
        /\ \A p \in Slots : st[p] # Free => p < MaxProcs
    BY <1>0, <2>0
  <2>2. /\ current' \in Slots /\ current' < MaxProcs /\ cr3' = current'
        /\ \A p \in Slots : status'[p] = Running => p = current'
        /\ current' # Idle => status'[Idle] = Ready /\ status'[current'] = Running
        /\ \A p \in Slots : st[p] # Ready => status'[p] = st[p]
        /\ \A p \in Slots : status'[p] # Free => p < MaxProcs
    BY <1>0, <2>0, <2>1, ScheduleStep
  <2>3. cpu' = "user" /\ \A p \in Slots : tf'[p] = "user"
    BY <1>0, <1>1, <2>0 DEF ToFrame
  <2>4. SchedulerOK'
    BY <2>0, <2>2, <2>3 DEF SchedulerOK
  <2>5. QueueOK'
    BY <1>3, <2>2, <2>3 DEF Inv, QueueOK
  <2> QED
    BY <1>2, <2>4, <2>5
<1>4. CASE "window" \in upset'
  BY <1>2, <1>4 DEF Inv, SchedulerOK, QueueOK
<1> QED
  BY <1>3, <1>4

LEMMA ExitInv ==
  ASSUME Inv, Exit
  PROVE  Inv'
<1> USE DEF Status, Free, New, Ready, Running, Blocked
<1> DEFINE st == [status EXCEPT ![current] = Free]
<1>0. current \in Slots /\ Idle \in Slots /\ status \in [Slots -> Status]
  BY PcbAssumption DEF Inv, TypeOK, PcbTypeOK, Idle, Slots
<1>1. /\ Syscall /\ ToFrame /\ Schedule(st)
      /\ upset' = IF Live \subseteq {Idle, current} THEN upset ELSE upset \cup {"exit"}
      /\ UNCHANGED <<time_count, sleep_time, block_sem, kind, value, block_proc_num>>
  BY DEF Exit
<1>2. upset \subseteq upset' /\ upset' \subseteq Upset
  BY <1>1 DEF Inv, TypeOK, Upset
<1>3. /\ st \in [Slots -> Status] /\ st[current] = Free
      /\ \A p \in Slots \ {current} : st[p] = status[p]
  BY <1>0
<1>4. /\ cpu = "user" /\ current # Idle /\ halted' = halted
      /\ tf' = [tf EXCEPT ![current] = "user"]
  BY <1>1 DEF Syscall
<1> HIDE DEF st
<1>5. PcbTypeOK'
  BY <1>1, <1>3, ScheduleType DEF Inv, TypeOK, PcbTypeOK
<1>6. "window" \notin upset' /\ "timeout" \notin upset' =>
        \A p \in Slots : block_sem[p] # NoSem => st[p] = status[p]
  BY <1>2, <1>3, <1>4 DEF Inv, QueueOK
<1>7. Machine' /\ SchedulerOK' /\ QueueOK'
  BY <1>1, <1>2, <1>3, <1>4, <1>5, <1>6, GiveUp
<1> QED
  BY <1>1, <1>2, <1>7, SameSems

LEMMA SleepInv ==
  ASSUME Inv, NEW t \in SleepArgs, Sleep(t)
  PROVE  Inv'
<1> USE DEF Status, Free, New, Ready, Running, Blocked
<1> DEFINE st == [status EXCEPT ![current] = Blocked]
<1>0. current \in Slots /\ Idle \in Slots /\ status \in [Slots -> Status]
  BY PcbAssumption DEF Inv, TypeOK, PcbTypeOK, Idle, Slots
<1>1. /\ Syscall /\ ToFrame /\ Schedule(st)
      /\ sleep_time' = [sleep_time EXCEPT ![current] = t]
      /\ UNCHANGED <<time_count, block_sem, kind, value, block_proc_num, upset>>
  BY DEF Sleep, SleepTable
<1>2. upset \subseteq upset' /\ upset' \subseteq Upset
  BY <1>1 DEF Inv, TypeOK, Upset
<1>3. /\ st \in [Slots -> Status] /\ st[current] = Blocked
      /\ \A p \in Slots \ {current} : st[p] = status[p]
  BY <1>0
<1>4. /\ cpu = "user" /\ current # Idle /\ halted' = halted
      /\ tf' = [tf EXCEPT ![current] = "user"]
  BY <1>1 DEF Syscall
<1> HIDE DEF st
<1>5. PcbTypeOK'
  <2>1. sleep_time' \in [Slots -> CInt]
    BY <1>0, <1>1, SemAssumption DEF Inv, TypeOK, PcbTypeOK
  <2> QED
    BY <1>1, <1>3, <2>1, ScheduleType DEF Inv, TypeOK, PcbTypeOK
<1>6. "window" \notin upset' /\ "timeout" \notin upset' =>
        \A p \in Slots : block_sem[p] # NoSem => st[p] = status[p]
  BY <1>2, <1>3, <1>4 DEF Inv, QueueOK
<1>7. Machine' /\ SchedulerOK' /\ QueueOK'
  BY <1>1, <1>2, <1>3, <1>4, <1>5, <1>6, GiveUp
<1> QED
  BY <1>1, <1>2, <1>7, SameSems

\* The new thread's PCB is free, so it is neither current, nor idle, nor
\* queued.
LEMMA CreateThreadInv ==
  ASSUME Inv, CreateThread
  PROVE  Inv'
<1> USE DEF Status, Free, New, Ready, Running, Blocked
<1>1. PICK i \in Slots :
        IsFirstFree(i) /\ NewCounters(i) /\ status' = [status EXCEPT ![i] = Ready]
  BY DEF CreateThread, Created
<1>2. /\ Syscall /\ Cardinality(Live) < MaxProcs
      /\ UNCHANGED <<current, cr3, cpu, block_sem, kind, value, block_proc_num, upset>>
  BY DEF CreateThread
<1>3. status[i] = Free /\ i < MaxProcs
  BY <1>1, <1>2, FirstFreeIsLow DEF IsFirstFree, Inv, TypeOK
<1>4. time_count' \in [Slots -> 0 .. SLICE] /\ sleep_time' \in [Slots -> CInt]
  <2>1. 0 \in 0 .. SLICE /\ Sleeptime \in CInt
    BY PcbAssumption DEF CInt
  <2> QED
    BY <1>1, <2>1 DEF Inv, TypeOK, PcbTypeOK, NewCounters
<1>5. PcbTypeOK'
  BY <1>1, <1>2, <1>4 DEF Inv, TypeOK, PcbTypeOK
<1>6. Machine'
  BY <1>2, <1>5, SyscallFrames DEF Machine, Inv, TypeOK
<1>7. \A p \in Slots : status'[p] = IF p = i THEN Ready ELSE status[p]
  BY <1>1 DEF Inv, TypeOK, PcbTypeOK
<1>8. SchedulerOK'
  BY <1>2, <1>3, <1>7, SyscallFrames DEF Inv, SchedulerOK, Syscall
<1>9. QueueOK'
  BY <1>2, <1>3, <1>7, SyscallFrames DEF Inv, QueueOK, Syscall
<1> QED
  BY <1>2, <1>6, <1>8, <1>9, SameSems DEF Inv, TypeOK

\* An interrupt stores the frame it finds.
LEMMA InterruptFrames ==
  ASSUME Inv, Interrupt, PcbTypeOK', upset \cup InWindow \subseteq upset'
  PROVE  /\ Machine'
         /\ "window" \notin upset' =>
              /\ cpu = "user" /\ cpu' = "user"
              /\ \A p \in Slots : tf'[p] = "user"
<1>0. current \in Slots /\ current' \in Slots /\ cpu \in Place
  BY DEF Inv, TypeOK, PcbTypeOK
<1>1. tf' \in [Slots -> Place]
  BY <1>0 DEF Interrupt, Inv, TypeOK
<1>2. halted' \in BOOLEAN
  BY DEF Interrupt, Inv, TypeOK
<1>3. Machine'
  BY <1>0, <1>1, <1>2 DEF Interrupt, ToFrame, Machine, Inv, TypeOK
<1>4. "window" \notin upset' => cpu = "user"
  BY DEF InWindow
<1>5. "window" \notin upset' => \A p \in Slots : tf'[p] = "user"
  BY <1>4 DEF Interrupt, Inv, SchedulerOK, TypeOK
<1>6. "window" \notin upset' => cpu' = "user"
  BY <1>0, <1>5 DEF Interrupt, ToFrame
<1> QED
  BY <1>3, <1>4, <1>5, <1>6

LEMMA TimerInv ==
  ASSUME Inv, Timer
  PROVE  Inv'
<1> USE DEF Status, Free, New, Ready, Running, Blocked
<1>0. /\ current \in Slots /\ Idle \in Slots /\ status \in [Slots -> Status]
      /\ cr3 \in Slots /\ time_count \in [Slots -> 0 .. SLICE]
  BY PcbAssumption DEF Inv, TypeOK, PcbTypeOK, Idle, Slots
<1>1. /\ Interrupt /\ sleep_time' = Countdown
      /\ upset' = upset \cup InWindow \cup
           (IF \E p \in Awoken : block_sem[p] # NoSem THEN {"timeout"} ELSE {})
      /\ UNCHANGED <<block_sem, kind, value, block_proc_num, halted>>
  BY DEF Timer, TimerTable, Interrupt
<1>2. /\ upset \subseteq upset' /\ upset' \subseteq Upset
      /\ upset \cup InWindow \subseteq upset'
  BY <1>1 DEF Inv, TypeOK, Upset, InWindow
<1>3. sleep_time' \in [Slots -> CInt]
  BY <1>1, CountdownType DEF Inv, TypeOK
<1>4. "timeout" \notin upset' => \A p \in Awoken : block_sem[p] = NoSem
  BY <1>1
<1>5. CASE time_count[current] = SLICE
  <2> DEFINE st == MadeReady(Awoken \cup {current})
  <2>1. Schedule(st) /\ time_count' = [time_count EXCEPT ![current] = 0]
    BY <1>5 DEF Timer, TimerTable
  <2>2. /\ st \in [Slots -> Status] /\ st[current] = Ready
        /\ \A p \in Slots \ {current} :
             st[p] = status[p] \/ (status[p] = Blocked /\ st[p] = Ready)
        /\ \A p \in Slots : p \notin Awoken /\ p # current => st[p] = status[p]
    BY <1>0 DEF MadeReady, Awoken
  <2> HIDE DEF st
  <2>3. PcbTypeOK'
    <3>1. time_count' \in [Slots -> 0 .. SLICE]
      BY <1>0, <2>1, PcbAssumption
    <3> QED
      BY <1>0, <1>3, <2>1, <2>2, <3>1, ScheduleType DEF PcbTypeOK
  <2>4. CASE cpu = "user"
    <3>1. /\ tf' = [tf EXCEPT ![current] = "user"] /\ ToFrame
          /\ halted' = halted /\ block_sem' = block_sem
      BY <1>1, <2>4 DEF Interrupt
    <3>2. current # Idle \/ st[Idle] = Ready
      BY <2>2
    <3>3. "window" \notin upset' /\ "timeout" \notin upset' =>
            \A p \in Slots : block_sem[p] # NoSem => st[p] = status[p]
      <4>1. "window" \notin upset' /\ "timeout" \notin upset' => block_sem[current] = NoSem
        BY <1>0, <1>2, <2>4 DEF Inv, QueueOK
      <4> QED
        BY <1>4, <2>2, <4>1
    <3>4. Machine' /\ SchedulerOK' /\ QueueOK'
      BY <1>2, <2>1, <2>2, <2>3, <2>4, <3>1, <3>2, <3>3, GiveUp
    <3> QED
      BY <1>1, <1>2, <3>4, SameSems
  <2>5. CASE cpu # "user"
    <3>1. Machine' /\ "window" \in upset'
      BY <1>1, <1>2, <2>3, <2>5, InterruptFrames
    <3>2. SchedulerOK' /\ QueueOK'
      BY <1>1, <3>1 DEF Inv, SchedulerOK, QueueOK
    <3> QED
      BY <1>1, <1>2, <3>1, <3>2, SameSems
  <2> QED
    BY <2>4, <2>5
<1>6. CASE time_count[current] # SLICE
  <2>1. /\ status' = MadeReady(Awoken) /\ current' = current /\ cr3' = cr3
        /\ time_count' = [time_count EXCEPT ![current] = @ + 1]
    BY <1>6 DEF Timer, TimerTable
  <2>2. /\ status' \in [Slots -> Status]
        /\ \A p \in Slots :
             status'[p] = status[p] \/ (status[p] = Blocked /\ status'[p] = Ready)
        /\ \A p \in Slots : p \notin Awoken => status'[p] = status[p]
    BY <1>0, <2>1 DEF MadeReady, Awoken
  <2>3. PcbTypeOK'
    <3>1. time_count' \in [Slots -> 0 .. SLICE]
      BY <1>0, <1>6, <2>1, PcbAssumption
    <3> QED
      BY <1>0, <1>3, <2>1, <2>2, <3>1 DEF PcbTypeOK
  <2>4. /\ Machine'
        /\ "window" \notin upset' =>
             /\ cpu = "user" /\ cpu' = "user"
             /\ \A p \in Slots : tf'[p] = "user"
    BY <1>1, <1>2, <2>3, InterruptFrames
  <2>5. SchedulerOK'
    BY <1>0, <1>1, <1>2, <2>1, <2>2, <2>4 DEF Inv, SchedulerOK
  <2>6. QueueOK'
    BY <1>0, <1>1, <1>2, <1>4, <2>1, <2>2, <2>4 DEF Inv, QueueOK
  <2> QED
    BY <1>1, <1>2, <2>4, <2>5, <2>6, SameSems
<1> QED
  BY <1>5, <1>6

LEMMA DeviceIRQInv ==
  ASSUME Inv, DeviceIRQ
  PROVE  Inv'
<1>1. /\ Interrupt /\ upset' = upset \cup InWindow
      /\ UNCHANGED <<status, time_count, sleep_time, current, cr3>>
      /\ UNCHANGED <<block_sem, kind, value, block_proc_num>>
  BY DEF DeviceIRQ, Interrupt
<1>2. upset \subseteq upset' /\ upset' \subseteq Upset
  BY <1>1 DEF Inv, TypeOK, Upset, InWindow
<1>3. PcbTypeOK'
  BY <1>1 DEF Inv, TypeOK, PcbTypeOK
<1>4. /\ Machine'
      /\ "window" \notin upset' =>
           /\ cpu = "user" /\ cpu' = "user"
           /\ \A p \in Slots : tf'[p] = "user"
  BY <1>1, <1>2, <1>3, InterruptFrames
<1>5. SchedulerOK' /\ QueueOK'
  BY <1>1, <1>2, <1>4 DEF Inv, SchedulerOK, QueueOK
<1> QED
  BY <1>1, <1>2, <1>4, <1>5, SameSems

LEMMA StutterInv == Inv /\ UNCHANGED vars => Inv'
  BY DEF vars, Inv, TypeOK, PcbTypeOK, SchedulerOK, QueueOK, CountsOK,
         CountMatchesValue, MutexHandover, QueuesCounted, Waiters

\* Every call, interrupt and step of the kernel keeps the invariant.
LEMMA NextInv == Inv /\ [Next]_vars => Inv'
<1> SUFFICES ASSUME Inv, [Next]_vars PROVE Inv'
  OBVIOUS
<1>1. ASSUME NEW s \in Sems, NEW v \in InitValues, NEW mx \in BOOLEAN,
             SemInit(s, v, mx)
      PROVE  Inv'
  BY <1>1, SemAssumption, SemInitInv
<1>2. ASSUME NEW s \in Sems, SemWaitPass(s) PROVE Inv'
  BY <1>2, SemWaitPassInv
<1>3. ASSUME NEW s \in Sems, SemWaitBlock(s) PROVE Inv'
  BY <1>3, SemWaitBlockInv
<1>4. ASSUME NEW s \in Sems, SemPost(s) PROVE Inv'
  BY <1>4, SemPostInv
<1>5. ASSUME NEW s \in Sems, SemDestroy(s) PROVE Inv'
  BY <1>5, SemDestroyInv
<1>6. ASSUME NEW s \in Sems, SemTrywait(s) PROVE Inv'
  BY <1>6, SemTrywaitInv
<1>7. CASE PreSched
  BY <1>7, PreSchedInv
<1>8. CASE Return
  BY <1>8, ReturnInv
<1>9. CASE GetKey
  BY <1>9, GetKeyInv
<1>10. CASE CreateThread
  BY <1>10, CreateThreadInv
<1>11. CASE Exit
  BY <1>11, ExitInv
<1>12. ASSUME NEW t \in SleepArgs, Sleep(t) PROVE Inv'
  BY <1>12, SleepInv
<1>13. CASE Timer
  BY <1>13, TimerInv
<1>14. CASE DeviceIRQ
  BY <1>14, DeviceIRQInv
<1>15. CASE StaleFrame
  <2>1. /\ UNCHANGED <<status, time_count, sleep_time, current, cr3, cpu, tf,
                       block_sem, kind, value, block_proc_num, upset>>
        /\ halted' \in BOOLEAN
    BY <1>15 DEF StaleFrame
  <2>2. Machine' /\ SchedulerOK' /\ QueueOK'
    BY <2>1 DEF Machine, Inv, TypeOK, PcbTypeOK, SchedulerOK, QueueOK
  <2> QED
    BY <2>1, <2>2, SameSems DEF Inv, TypeOK
<1>16. CASE Halt \/ UNCHANGED vars
  BY <1>16, StutterInv DEF Halt
<1> QED
  BY <1>1, <1>2, <1>3, <1>4, <1>5, <1>6, <1>7, <1>8, <1>9, <1>10, <1>11,
     <1>12, <1>13, <1>14, <1>15, <1>16 DEF Next

LEMMA SpecInv == Spec => []Inv
  BY InitInv, NextInv, PTL DEF Spec

(***************************************************************************)
(* Outside the windows that sem_wait, sem_post and handle_keys open by     *)
(* executing sti early, schedule() leaves one Running process, in its own  *)
(* address space, and release_sem() wakes no free PCB.                     *)
(***************************************************************************)
THEOREM SchedulingIsSound == Spec => []SchedulingSound
<1>1. Inv => SchedulingSound
  BY DEF Inv, SchedulerOK, QueueOK, SchedulingSound, Free, Blocked
<1> QED
  BY <1>1, SpecInv, PTL

\* value and block_proc_num of a counting sem_t agree, windows, timeouts and
\* sem_destroy notwithstanding, until a sem_trywait has failed.
THEOREM CountsAgree == Spec => []CountMatchesValue
<1>1. Inv => CountMatchesValue
  BY DEF Inv, CountsOK
<1> QED
  BY <1>1, SpecInv, PTL

\* No sem_post frees a mutex on which somebody is blocked, in any behaviour.
THEOREM MutexIsHandedOver == Spec => []MutexHandover
<1>1. Inv => MutexHandover
  BY DEF Inv, CountsOK
<1> QED
  BY <1>1, SpecInv, PTL

(***************************************************************************)
(* The calm behaviours: nothing unforeseen has happened in any state.      *)
(***************************************************************************)
Calm == Inv /\ upset = {}

LEMMA CalmInv == CalmSpec => []Calm
<1>1. Init => Calm
  BY InitInv DEF Calm, Init
<1>2. Calm /\ [Next /\ upset' = {}]_vars => Calm'
  BY NextInv DEF Calm, vars
<1> QED
  BY <1>1, <1>2, PTL DEF CalmSpec

LEMMA CalmWaiters == Calm => WaitersAccounted
<1> SUFFICES ASSUME Calm PROVE WaitersAccounted
  OBVIOUS
<1>1. \A p \in Slots : block_sem[p] # NoSem => status[p] = Blocked
  BY DEF Calm, Inv, QueueOK
<1>2. \A s \in Sems : \A p \in Waiters(s) : status[p] = Blocked
  BY <1>1, SemAssumption DEF Waiters
<1>3. cpu = "user" => block_sem[current] = NoSem
  <2>1. current \in Slots /\ Running # Blocked
    BY DEF Calm, Inv, TypeOK, PcbTypeOK, Running, Blocked
  <2> QED
    BY <1>1, <2>1 DEF Calm, Inv, QueueOK
<1> QED
  BY <1>2, <1>3 DEF WaitersAccounted, Calm, Inv, QueuesCounted

\* block_proc_num is the length of the queue that release_sem() searches, and
\* everybody in it is Blocked.
THEOREM WaitersAreCounted == CalmSpec => []WaitersAccounted
  BY CalmWaiters, CalmInv, PTL

-----------------------------------------------------------------------------
(***************************************************************************)
(* The refinement of DijkstraSemaphore.  A call is a step of its semaphore *)
(* (Create, Take, Queue, Give or HandOver) or no step; nothing else the    *)
(* kernel does is visible.                                                 *)
(***************************************************************************)
Permits == [s \in Sems |-> IF value[s] > 0 THEN value[s] ELSE 0]
Waiting == [s \in Sems |-> Waiters(s)]

\* Without a change of the queues or the numbers Dijkstra's view is the same.
LEMMA SameView ==
  ASSUME UNCHANGED <<kind, value, block_sem>>
  PROVE  UNCHANGED Dijkstra!vars
  BY DEF Dijkstra!vars, Waiters

\* The permits after the value of s has become n.
LEMMA PermitsStep ==
  ASSUME NEW s \in Sems, NEW n \in Nat,
         \A t \in Sems : value'[t] = IF t = s THEN n ELSE value[t]
  PROVE  Permits' = [Permits EXCEPT ![s] = n]
<1>2. \A t \in Sems :
        (IF value'[t] > 0 THEN value'[t] ELSE 0) = IF t = s THEN n ELSE Permits[t]
  BY DEF Permits
<1>3. Permits' = [t \in Sems |-> IF t = s THEN n ELSE Permits[t]]
  BY <1>2 DEF Permits
<1>4. DOMAIN Permits = Sems
  BY DEF Permits
<1> QED
  BY <1>3, <1>4

\* A call that hands out a permit.
LEMMA TakesPermit ==
  ASSUME Calm, NEW s \in Sems, kind[s] # "none", Available(s),
         value' = [value EXCEPT ![s] = @ - 1],
         UNCHANGED <<kind, block_sem>>
  PROVE  Dijkstra!Take(s)
<1>1. value \in [Sems -> Int] /\ value[s] > 0
  BY DEF Calm, Inv, TypeOK, Available
<1>2. PICK n \in Nat : n = value[s] - 1
  BY <1>1
<1>3. Permits' = [Permits EXCEPT ![s] = n]
  <2>1. \A t \in Sems : value'[t] = IF t = s THEN n ELSE value[t]
    BY <1>1, <1>2
  <2> QED
    BY <2>1, PermitsStep
<1>4. Permits[s] > 0 /\ Permits[s] - 1 = n
  BY <1>1, <1>2 DEF Permits
<1>5. Permits' = [Permits EXCEPT ![s] = @ - 1]
  BY <1>3, <1>4
<1>6. Waiting' = Waiting
  BY DEF Waiting, Waiters
<1> QED
  BY <1>4, <1>5, <1>6 DEF Dijkstra!Take, Permits, Waiting

LEMMA CreatesSem ==
  ASSUME Calm, NEW s \in Sems, NEW v \in Nat, NEW mx \in BOOLEAN,
         SemInit(s, v, mx)
  PROVE  Dijkstra!Create(s)
<1>1. /\ kind[s] = "none" /\ block_sem' = block_sem
      /\ kind' = [kind EXCEPT ![s] = IF mx THEN "mutex" ELSE "counting"]
      /\ value' = [value EXCEPT ![s] = IF mx THEN 1 ELSE v]
  BY DEF SemInit
<1>2. value \in [Sems -> Int]
  BY DEF Calm, Inv, TypeOK
<1>3. Waiting' = Waiting
  BY <1>1 DEF Waiting, Waiters
<1>4. CASE mx
  <2>1. value' = [value EXCEPT ![s] = 1] /\ kind' = [kind EXCEPT ![s] = "mutex"]
    BY <1>1, <1>4
  <2>2. PICK n \in Nat : n = 1
    OBVIOUS
  <2>3. Permits' = [Permits EXCEPT ![s] = n]
    <3>1. \A t \in Sems : value'[t] = IF t = s THEN n ELSE value[t]
      BY <1>2, <2>1, <2>2
    <3> QED
      BY <3>1, PermitsStep
  <2> QED
    BY <1>1, <1>3, <2>1, <2>2, <2>3 DEF Dijkstra!Create, Permits, Waiting
<1>5. CASE ~mx
  <2>1. value' = [value EXCEPT ![s] = v] /\ kind' = [kind EXCEPT ![s] = "counting"]
    BY <1>1, <1>5
  <2>2. Permits' = [Permits EXCEPT ![s] = v]
    <3>1. \A t \in Sems : value'[t] = IF t = s THEN v ELSE value[t]
      BY <1>2, <2>1
    <3> QED
      BY <3>1, PermitsStep
  <2>3. DOMAIN Permits = Sems
    BY DEF Permits
  <2>4. Permits'[s] = v
    BY <2>2, <2>3
  <2> QED
    BY <1>1, <1>3, <2>1, <2>2, <2>4 DEF Dijkstra!Create, Permits, Waiting
<1> QED
  BY <1>4, <1>5

LEMMA QueuesCaller ==
  ASSUME Calm, NEW s \in Sems, SemWaitBlock(s)
  PROVE  Dijkstra!Queue(s, current) /\ current \in Slots
<1>1. /\ Syscall /\ kind[s] # "none" /\ ~Available(s) /\ kind' = kind
      /\ value' = IF kind[s] = "mutex" THEN value ELSE [value EXCEPT ![s] = @ - 1]
      /\ block_sem' = [block_sem EXCEPT ![current] = s]
  BY DEF SemWaitBlock
<1>2. /\ value \in [Sems -> Int] /\ current \in Slots
      /\ kind[s] \in {"counting", "mutex"}
  BY <1>1 DEF Calm, Inv, TypeOK, PcbTypeOK, Kind
<1>3. block_sem[current] = NoSem
  BY <1>1, <1>2 DEF Calm, Inv, QueueOK, Syscall, Running, Blocked
<1>4. value[s] <= 0
  BY <1>1, <1>2 DEF Available, Calm, Inv, CountsOK, MutexHandover
<1>5. Permits[s] = 0 /\ Permits' = Permits
  BY <1>1, <1>2, <1>4 DEF Permits
<1>6. \A t \in Sems : current \notin Waiters(t)
  BY <1>3, SemAssumption DEF Waiters
<1>7. /\ Waiters(s)' = Waiters(s) \cup {current}
      /\ \A t \in Sems \ {s} : Waiters(t)' = Waiters(t)
  BY <1>1, <1>2, <1>3, Enqueued DEF Calm, Inv
<1>8. Waiting' = [Waiting EXCEPT ![s] = @ \cup {current}]
  BY <1>7 DEF Waiting
<1>9. \A t \in Sems : current \notin Waiting[t]
  BY <1>6 DEF Waiting
<1> QED
  BY <1>1, <1>2, <1>5, <1>8, <1>9 DEF Dijkstra!Queue, Permits, Waiting

LEMMA PostsPermit ==
  ASSUME Calm, NEW s \in Sems, SemPost(s)
  PROVE  Dijkstra!Give(s) \/ \E p \in Slots : Dijkstra!HandOver(s, p)
<1>1. /\ kind[s] # "none" /\ kind' = kind
      /\ value' = [value EXCEPT ![s] = Posted(s)]
  BY DEF SemPost
<1>2. value \in [Sems -> Int] /\ kind[s] \in {"counting", "mutex"}
  BY <1>1 DEF Calm, Inv, TypeOK, Kind
<1>3. Releases(s) <=> Waiters(s) # {}
  BY <1>1, ReleasedWaits DEF Calm
<1>4. CASE Releases(s)
  <2>1. PICK p \in Waiters(s) : block_sem' = [block_sem EXCEPT ![p] = NoSem]
    BY <1>3, <1>4 DEF SemPost, ReleaseSem
  <2>2. /\ Waiters(s)' = Waiters(s) \ {p}
        /\ \A t \in Sems \ {s} : Waiters(t)' = Waiters(t)
    BY <2>1, Dequeued DEF Calm, Inv
  <2>3. Waiting' = [Waiting EXCEPT ![s] = @ \ {p}] /\ p \in Waiting[s] /\ p \in Slots
    <3>1. p \in Slots
      BY DEF Waiters
    <3> QED
      BY <2>1, <2>2, <3>1 DEF Waiting
  <2>4. Posted(s) \in Int /\ Posted(s) <= 0 /\ value[s] <= 0
    BY <1>2, <1>4 DEF Posted, Releases, Calm, Inv, TypeOK, CountsOK, MutexHandover
  <2>5. Permits' = Permits
    BY <1>1, <1>2, <2>4 DEF Permits
  <2> QED
    BY <1>1, <2>3, <2>5 DEF Dijkstra!HandOver, Permits, Waiting
<1>5. CASE ~Releases(s)
  <2>1. block_sem' = block_sem
    BY <1>5 DEF SemPost
  <2>2. Waiting' = Waiting /\ Waiting[s] = {}
    BY <1>3, <1>5, <2>1 DEF Waiting, Waiters
  <2>3. /\ Posted(s) = IF kind[s] = "mutex" THEN 1 ELSE value[s] + 1
        /\ kind[s] # "mutex" => value[s] >= 0
    BY <1>2, <1>5 DEF Posted, Releases
  <2>4. Permits' = [Permits EXCEPT ![s] = IF kind[s] = "mutex" THEN 1 ELSE @ + 1]
    <3>1. PICK n \in Nat : n = Posted(s)
      BY <1>2, <2>3
    <3>2. Permits' = [Permits EXCEPT ![s] = n]
      <4>1. \A t \in Sems : value'[t] = IF t = s THEN n ELSE value[t]
        BY <1>1, <1>2, <3>1
      <4> QED
        BY <4>1, PermitsStep
    <3>3. n = IF kind[s] = "mutex" THEN 1 ELSE Permits[s] + 1
      BY <1>2, <2>3, <3>1 DEF Permits
    <3> QED
      BY <3>2, <3>3
  <2> QED
    BY <1>1, <2>2, <2>4 DEF Dijkstra!Give, Permits, Waiting
<1> QED
  BY <1>4, <1>5

LEMMA TriesPermit ==
  ASSUME Calm, NEW s \in Sems, SemTrywait(s), upset' = {}
  PROVE  Dijkstra!Take(s) \/ UNCHANGED Dijkstra!vars
<1>1. /\ kind[s] # "none"
      /\ value' = IF kind[s] = "mutex" /\ ~Available(s)
                  THEN value ELSE [value EXCEPT ![s] = @ - 1]
      /\ upset' = IF kind[s] = "counting" /\ ~Available(s)
                  THEN upset \cup {"trywait"} ELSE upset
      /\ UNCHANGED <<block_sem, kind, block_proc_num>>
  BY DEF SemTrywait
<1>2. kind[s] \in {"counting", "mutex"}
  BY <1>1 DEF Calm, Inv, TypeOK, Kind
<1>3. CASE Available(s)
  BY <1>1, <1>3, TakesPermit
<1>4. CASE ~Available(s)
  <2>1. kind[s] = "mutex"
    BY <1>1, <1>2, <1>4
  <2> QED
    BY <1>1, <1>4, <2>1, SameView
<1> QED
  BY <1>3, <1>4

LEMMA StepsAreDijkstra ==
  ASSUME Calm, [Next /\ upset' = {}]_vars
  PROVE  [Dijkstra!Next]_(Dijkstra!vars)
<1>1. ASSUME NEW s \in Sems, NEW v \in InitValues, NEW mx \in BOOLEAN,
             SemInit(s, v, mx)
      PROVE  Dijkstra!Next
  BY <1>1, SemAssumption, CreatesSem DEF Dijkstra!Next
<1>2. ASSUME NEW s \in Sems, SemWaitPass(s)
      PROVE  Dijkstra!Next
  <2>1. Dijkstra!Take(s)
    BY <1>2, TakesPermit DEF SemWaitPass
  <2> QED
    BY <2>1 DEF Dijkstra!Next
<1>3. ASSUME NEW s \in Sems, SemWaitBlock(s)
      PROVE  Dijkstra!Next
  BY <1>3, QueuesCaller DEF Dijkstra!Next
<1>4. ASSUME NEW s \in Sems, SemPost(s)
      PROVE  Dijkstra!Next
  BY <1>4, PostsPermit DEF Dijkstra!Next
<1>5. ASSUME NEW s \in Sems, SemDestroy(s), upset' = {}
      PROVE  UNCHANGED Dijkstra!vars
  <2>1. Waiters(s) = {} /\ UNCHANGED <<kind, value>>
    BY <1>5 DEF SemDestroy
  <2>2. block_sem' = block_sem
    BY <1>5, <2>1 DEF SemDestroy, ReleaseSem
  <2> QED
    BY <2>1, <2>2, SameView
<1>6. ASSUME NEW s \in Sems, SemTrywait(s), upset' = {}
      PROVE  Dijkstra!Next \/ UNCHANGED Dijkstra!vars
  BY <1>6, TriesPermit DEF Dijkstra!Next
<1>7. CASE \/ PreSched \/ Return \/ GetKey \/ CreateThread \/ Exit
           \/ Timer \/ DeviceIRQ \/ StaleFrame \/ Halt \/ UNCHANGED vars
  <2>1. UNCHANGED <<kind, value, block_sem>>
    BY <1>7 DEF PreSched, Return, GetKey, CreateThread, Exit, Timer, DeviceIRQ,
                Interrupt, StaleFrame, Halt, vars
  <2> QED
    BY <2>1, SameView
<1>8. ASSUME NEW t \in SleepArgs, Sleep(t)
      PROVE  UNCHANGED Dijkstra!vars
  <2>1. UNCHANGED <<kind, value, block_sem>>
    BY <1>8 DEF Sleep
  <2> QED
    BY <2>1, SameView
<1> QED
  BY <1>1, <1>2, <1>3, <1>4, <1>5, <1>6, <1>7, <1>8 DEF Next

(***************************************************************************)
(* As long as nothing unforeseen happens the sem_t of semaphore.c are      *)
(* Dijkstra's semaphores: no permit is lost or made, no sem_post misses a  *)
(* waiter, and nobody waits while a permit is free.                        *)
(***************************************************************************)
THEOREM SemaphoresAreDijkstra == CalmSpec => ImplementsDijkstra
<1>1. Init => Dijkstra!Init
  BY SemAssumption DEF Init, Dijkstra!Init, Waiters
<1>2. Calm /\ [Next /\ upset' = {}]_vars => [Dijkstra!Next]_(Dijkstra!vars)
  BY StepsAreDijkstra
<1> QED
  BY <1>1, <1>2, CalmInv, PTL DEF CalmSpec, ImplementsDijkstra, Dijkstra!Spec
-----------------------------------------------------------------------------
(***************************************************************************)
(* The producer and the consumer: as long as the semaphores behave         *)
(* (CalmPCSpec), the program never has both threads in the critical        *)
(* section, never overwrites an item, never takes one that is not there,   *)
(* and never has both threads waiting.                                     *)
(***************************************************************************)

N == item_num

ProducerPlace == {"wait_empty", "lock", "put", "advance", "unlock", "post_full"}
ConsumerPlace == {"wait_full", "lock", "take", "advance", "unlock", "post_empty"}
MainPlace     == {"init_mutex", "init_empty", "init_full", "thread_1", "thread_2",
                  "spin"}

(***************************************************************************)
(* The inductive invariant, on top of Calm.  First, where each thread can  *)
(* be and what it can be waiting for there.                                *)
(***************************************************************************)
PlacesOK ==
  /\ pc \in [{Game, Producer, Consumer} -> ProducerPlace \cup ConsumerPlace \cup MainPlace]
  /\ pc[Game] \in MainPlace
  /\ pc[Producer] \in ProducerPlace
  /\ pc[Consumer] \in ConsumerPlace

ThreadsOK ==
  /\ PlacesOK
  /\ \A p \in Slots : block_sem[p] # NoSem =>
       \/ p = Producer /\ block_sem[p] = empty /\ pc[p] = "lock"
       \/ p = Producer /\ block_sem[p] = mutex /\ pc[p] = "put"
       \/ p = Consumer /\ block_sem[p] = full /\ pc[p] = "lock"
       \/ p = Consumer /\ block_sem[p] = mutex /\ pc[p] = "take"

\* The order in which main initialises the semaphores.
KindsOK ==
  /\ kind[mutex] \in {"none", "mutex"}
  /\ kind[empty] \in {"none", "counting"}
  /\ kind[full] \in {"none", "counting"}
  /\ pc[Game] \in {"init_mutex", "init_empty"} <=> kind[empty] = "none"
  /\ kind[empty] = "none" => kind[full] = "none"

One(condition) == IF condition THEN 1 ELSE 0

\* The permit of the mutex is in value or with the thread inside.
MutexSum ==
  IF kind[mutex] = "none"
  THEN pc[Producer] \in {"wait_empty", "lock"} /\ pc[Consumer] \in {"wait_full", "lock"}
  ELSE value[mutex] + One(Inside(Producer)) + One(Inside(Consumer)) = 1

\* The places of the ring: free, holding an item, or claimed by a thread.
RoomSum ==
  IF kind[empty] = "none"
  THEN pc[Producer] = "wait_empty" /\ pc[Consumer] = "wait_full"
  ELSE value[empty] + value[full] + One(pc[Producer] # "wait_empty")
                                  + One(pc[Consumer] # "wait_full") = N

\* The items in the ring: those `full' counts, the one put and not posted
\* yet, and the one the consumer has been granted and has not taken yet.
Count ==
  value[full] + One(pc[Producer] \in {"advance", "unlock", "post_full"})
              + One(pc[Consumer] \in {"lock", "take"})

Wrap(i)      == IF i >= N THEN i - N ELSE i
NextIn       == IF pc[Producer] = "advance" THEN Wrap(in + 1) ELSE Wrap(in)
NextOut      == IF pc[Consumer] = "advance" THEN Wrap(out + 1) ELSE Wrap(out)
Offset(o, k) == IF k >= o THEN k - o ELSE k + N - o

\* The items lie one after the other, from the next to be taken to the last
\* one put.
RingOK ==
  /\ in \in 0 .. N /\ (pc[Producer] = "advance" => in < N)
  /\ out \in 0 .. N /\ (pc[Consumer] = "advance" => out < N)
  /\ items \in [0 .. (N - 1) -> Int]
  /\ NextIn = Wrap(NextOut + Count)
  /\ \A k \in 0 .. (N - 1) : items[k] = One(Offset(NextOut, k) < Count)

PCInv == Calm /\ ThreadsOK /\ KindsOK /\ MutexSum /\ RoomSum /\ RingOK
-----------------------------------------------------------------------------
LEMMA Names ==
  /\ mutex \in Sems /\ empty \in Sems /\ full \in Sems
  /\ mutex # empty /\ empty # full /\ mutex # full
  /\ mutex # NoSem /\ empty # NoSem /\ full # NoSem
  /\ Game \in Slots /\ Producer \in Slots /\ Consumer \in Slots /\ Idle \in Slots
  /\ Game # Producer /\ Game # Consumer /\ Producer # Consumer
  /\ N \in Nat \ {0}
  BY PcbAssumption, SemAssumption, ProdConsAssumption
  DEF Slots, Game, Producer, Consumer, Idle, N

\* A thread in user code is not waiting.
LEMMA CallerFree == Calm /\ cpu = "user" => block_sem[current] = NoSem
  BY CalmWaiters DEF WaitersAccounted, Calm

\* A counting semaphore for which only p ever waits is negative while it does.
LEMMA OneWaiter ==
  ASSUME Calm, NEW s \in Sems, kind[s] = "counting", NEW p \in Slots,
         Waiters(s) \subseteq {p}
  PROVE  /\ value[s] \in Int /\ value[s] >= -1
         /\ value[s] < 0 <=> block_sem[p] = s
<1>1. value[s] \in Int /\ block_proc_num[s] = IF value[s] < 0 THEN -value[s] ELSE 0
  BY DEF Calm, Inv, TypeOK, CountsOK, CountMatchesValue
<1>2. block_proc_num[s] = Cardinality(Waiters(s))
  BY DEF Calm, Inv, QueuesCounted
<1>3. CASE block_sem[p] = s
  <2>1. Waiters(s) = {p}
    BY <1>3 DEF Waiters
  <2>2. Cardinality({p}) = 1
    BY FS_Singleton
  <2> QED
    BY <1>1, <1>2, <1>3, <2>1, <2>2
<1>4. CASE block_sem[p] # s
  <2>1. Waiters(s) = {}
    BY <1>4 DEF Waiters
  <2>2. Cardinality(Waiters(s)) = 0
    BY <2>1, NoWaiters
  <2> QED
    BY <1>1, <1>2, <1>4, <2>2
<1> QED
  BY <1>3, <1>4

\* sem_wait on a counting semaphore takes 1, whether it passes or blocks.
LEMMA WaitCounting ==
  ASSUME Calm, NEW s \in Sems, kind[s] = "counting", SemWait(s)
  PROVE  /\ Inv' /\ upset' = upset /\ kind' = kind /\ cpu = "user"
         /\ \A t \in Sems : value'[t] = IF t = s THEN value[t] - 1 ELSE value[t]
         /\ \A p \in Slots : block_sem'[p] # block_sem[p] =>
              p = current /\ block_sem'[p] = s
<1>1. Inv'
  BY SemWaitPassInv, SemWaitBlockInv DEF Calm, SemWait
<1>2. value \in [Sems -> Int] /\ block_sem \in [Slots -> Sems \cup {NoSem}]
  BY DEF Calm, Inv, TypeOK
<1>3. CASE SemWaitPass(s)
  BY <1>1, <1>2, <1>3 DEF SemWaitPass, Syscall
<1>4. CASE SemWaitBlock(s)
  BY <1>1, <1>2, <1>4 DEF SemWaitBlock, Syscall
<1> QED
  BY <1>3, <1>4 DEF SemWait

\* sem_wait on a mutex takes it or queues the caller.
LEMMA WaitMutex ==
  ASSUME Calm, NEW s \in Sems, kind[s] = "mutex", SemWait(s)
  PROVE  /\ Inv' /\ upset' = upset /\ kind' = kind /\ cpu = "user"
         /\ \A t \in Sems \ {s} : value'[t] = value[t]
         /\ \A p \in Slots \ {current} : block_sem'[p] = block_sem[p]
         /\ \/ value[s] = 1 /\ value'[s] = 0 /\ block_sem'[current] = block_sem[current]
            \/ value[s] = 0 /\ value'[s] = 0 /\ block_sem'[current] = s
<1>1. Inv'
  BY SemWaitPassInv, SemWaitBlockInv DEF Calm, SemWait
<1>2. /\ value \in [Sems -> Int] /\ block_sem \in [Slots -> Sems \cup {NoSem}]
      /\ value[s] \in {0, 1} /\ current \in Slots
  BY DEF Calm, Inv, TypeOK, PcbTypeOK, CountsOK, MutexHandover
<1>3. CASE SemWaitPass(s)
  BY <1>1, <1>2, <1>3 DEF SemWaitPass, Syscall, Available
<1>4. CASE SemWaitBlock(s)
  BY <1>1, <1>2, <1>4 DEF SemWaitBlock, Syscall, Available
<1> QED
  BY <1>3, <1>4 DEF SemWait

\* sem_post on a counting semaphore gives 1 back; it may take a thread out of
\* the queue.
LEMMA PostCounting ==
  ASSUME Calm, NEW s \in Sems, kind[s] = "counting", SemPost(s)
  PROVE  /\ Inv' /\ upset' = upset /\ kind' = kind /\ cpu = "user"
         /\ \A t \in Sems : value'[t] = IF t = s THEN value[t] + 1 ELSE value[t]
         /\ \A p \in Slots : block_sem'[p] # block_sem[p] =>
              block_sem[p] = s /\ block_sem'[p] = NoSem
<1>1. Inv'
  BY SemPostInv DEF Calm
<1>2. value \in [Sems -> Int] /\ block_sem \in [Slots -> Sems \cup {NoSem}]
  BY DEF Calm, Inv, TypeOK
<1>3. /\ upset' = upset /\ kind' = kind /\ cpu = "user"
      /\ value' = [value EXCEPT ![s] = value[s] + 1]
  BY DEF SemPost, Syscall, Posted
<1>4. \A p \in Slots : block_sem'[p] # block_sem[p] =>
        block_sem[p] = s /\ block_sem'[p] = NoSem
  BY <1>2 DEF SemPost, ReleaseSem, Waiters
<1> QED
  BY <1>1, <1>2, <1>3, <1>4

\* sem_post on a mutex frees it, or hands it over to one of those queued.
LEMMA PostMutex ==
  ASSUME Calm, NEW s \in Sems, kind[s] = "mutex", SemPost(s)
  PROVE  /\ Inv' /\ upset' = upset /\ kind' = kind /\ cpu = "user"
         /\ \A t \in Sems \ {s} : value'[t] = value[t]
         /\ \/ /\ value'[s] = 1 /\ block_sem' = block_sem
            \/ /\ value'[s] = value[s]
               /\ \E p \in Slots : /\ block_sem[p] = s /\ block_sem'[p] = NoSem
                                   /\ \A q \in Slots \ {p} : block_sem'[q] = block_sem[q]
<1>1. Inv'
  BY SemPostInv DEF Calm
<1>2. value \in [Sems -> Int] /\ block_sem \in [Slots -> Sems \cup {NoSem}]
  BY DEF Calm, Inv, TypeOK
<1>3. /\ upset' = upset /\ kind' = kind /\ cpu = "user"
      /\ value' = [value EXCEPT ![s] = IF Releases(s) THEN value[s] ELSE 1]
  BY DEF SemPost, Syscall, Posted
<1>4. CASE Releases(s)
  <2>1. Waiters(s) # {}
    BY <1>4, ReleasedWaits DEF Calm
  <2>2. PICK p \in Waiters(s) : block_sem' = [block_sem EXCEPT ![p] = NoSem]
    BY <1>4, <2>1 DEF SemPost, ReleaseSem
  <2>3. p \in Slots /\ block_sem[p] = s
    BY DEF Waiters
  <2>4. value'[s] = value[s] /\ \A t \in Sems \ {s} : value'[t] = value[t]
    BY <1>2, <1>3, <1>4
  <2>5. block_sem'[p] = NoSem /\ \A q \in Slots \ {p} : block_sem'[q] = block_sem[q]
    BY <1>2, <2>2, <2>3
  <2> QED
    BY <1>1, <1>3, <2>3, <2>4, <2>5
<1>5. CASE ~Releases(s)
  <2>1. value'[s] = 1 /\ \A t \in Sems \ {s} : value'[t] = value[t]
    BY <1>2, <1>3, <1>5
  <2>2. block_sem' = block_sem
    BY <1>5 DEF SemPost
  <2> QED
    BY <1>1, <1>3, <2>1, <2>2
<1> QED
  BY <1>4, <1>5

-----------------------------------------------------------------------------
(***************************************************************************)
(* The ring.  Offset(o, k) is how far slot k lies behind slot o.           *)
(***************************************************************************)
LEMMA WrapIsMod ==
  ASSUME NEW i \in 0 .. N
  PROVE  i % N = Wrap(i) /\ Wrap(i) \in 0 .. (N - 1)
  BY Names DEF Wrap

\* Behind n items there is room for one more.
LEMMA RingPut ==
  ASSUME NEW o \in 0 .. (N - 1), NEW n \in 0 .. (N - 1), NEW j, j = Wrap(o + n)
  PROVE  /\ j \in 0 .. (N - 1) /\ Wrap(j + 1) = Wrap(o + (n + 1))
         /\ ~(Offset(o, j) < n)
         /\ \A k \in 0 .. (N - 1) : Offset(o, k) < n + 1 <=> k = j \/ Offset(o, k) < n
  BY Names DEF Wrap, Offset

\* The first of n items is taken away.
LEMMA RingTake ==
  ASSUME NEW o \in 0 .. (N - 1), NEW n \in 1 .. N
  PROVE  /\ Wrap(o + 1) \in 0 .. (N - 1) /\ Wrap(Wrap(o + 1) + (n - 1)) = Wrap(o + n)
         /\ Offset(o, o) < n
         /\ \A k \in 0 .. (N - 1) :
              Offset(Wrap(o + 1), k) < n - 1 <=> k # o /\ Offset(o, k) < n
  BY Names DEF Wrap, Offset

\* How many items there can be.
LEMMA CountBounds ==
  ASSUME PCInv
  PROVE  /\ Count \in 0 .. N
         /\ pc[Producer] = "put" /\ block_sem[Producer] = NoSem => Count < N
         /\ pc[Consumer] = "take" /\ block_sem[Consumer] = NoSem => Count > 0
<1>1. /\ Waiters(empty) \subseteq {Producer} /\ Waiters(full) \subseteq {Consumer}
      /\ block_sem[Producer] = empty => pc[Producer] = "lock"
      /\ block_sem[Consumer] = full => pc[Consumer] = "lock"
  BY Names DEF PCInv, ThreadsOK, Waiters
<1>2. CASE kind[empty] = "none"
  <2>1. value[full] = 0 /\ pc[Producer] = "wait_empty" /\ pc[Consumer] = "wait_full"
    BY <1>2, Names DEF PCInv, KindsOK, RoomSum, Calm, Inv, CountsOK
  <2>2. Count = 0
    BY <2>1 DEF Count, One
  <2> QED
    BY <2>1, <2>2, Names
<1>3. CASE kind[empty] # "none"
  <2>1. value[empty] \in Int /\ value[empty] >= -1
        /\ (value[empty] < 0 <=> block_sem[Producer] = empty)
    BY <1>1, <1>3, Names, OneWaiter DEF PCInv, KindsOK
  <2>2. value[full] \in Int /\ value[full] >= -1
        /\ (value[full] < 0 => block_sem[Consumer] = full)
    <3>1. CASE kind[full] = "none"
      BY <3>1, Names DEF PCInv, Calm, Inv, CountsOK
    <3>2. CASE kind[full] = "counting"
      BY <1>1, <3>2, Names, OneWaiter DEF PCInv
    <3> QED
      BY <3>1, <3>2 DEF PCInv, KindsOK
  <2>3. value[empty] + value[full] + One(pc[Producer] # "wait_empty")
                                   + One(pc[Consumer] # "wait_full") = N
    BY <1>3 DEF PCInv, RoomSum
  <2>4. pc[Producer] \in ProducerPlace /\ pc[Consumer] \in ConsumerPlace
    BY DEF PCInv, ThreadsOK, PlacesOK
  <2> QED
    BY <1>1, <2>1, <2>2, <2>3, <2>4, Names
    DEF Count, One, ProducerPlace, ConsumerPlace
<1> QED
  BY <1>2, <1>3

(***************************************************************************)
(* A step that leaves the ring and its indices alone, and the count.       *)
(***************************************************************************)
LEMMA SameRing ==
  ASSUME RingOK, UNCHANGED <<in, out, items>>, Count' = Count,
         pc'[Producer] = "advance" <=> pc[Producer] = "advance",
         pc'[Consumer] = "advance" <=> pc[Consumer] = "advance"
  PROVE  RingOK'
<1>1. NextIn' = NextIn /\ NextOut' = NextOut
  BY DEF NextIn, NextOut, Wrap
<1> QED
  BY <1>1 DEF RingOK, Offset, One

\* A step of the kernel that leaves program and semaphores alone.
LEMMA SameProgram ==
  ASSUME PCInv, Calm', UNCHANGED <<kind, value, block_sem>>, UNCHANGED progVars
  PROVE  PCInv'
<1>1. ThreadsOK' /\ KindsOK' /\ MutexSum' /\ RoomSum'
  BY DEF PCInv, progVars, ThreadsOK, PlacesOK, KindsOK, MutexSum, RoomSum, Inside, One
<1>2. RingOK'
  BY SameRing DEF PCInv, progVars, Count, One
<1> QED
  BY <1>1, <1>2 DEF PCInv

LEMMA PCInitInv == PCInit => PCInv
<1> SUFFICES ASSUME PCInit PROVE PCInv
  OBVIOUS
<1>1. Calm
  BY InitInv DEF PCInit, Init, Calm
<1>2. /\ pc[Game] = "init_mutex" /\ pc[Producer] = "wait_empty"
      /\ pc[Consumer] = "wait_full"
      /\ pc \in [{Game, Producer, Consumer} -> ProducerPlace \cup ConsumerPlace \cup MainPlace]
  BY Names DEF PCInit, ProducerPlace, ConsumerPlace, MainPlace
<1>3. ThreadsOK
  BY <1>2, Names DEF PCInit, Init, ThreadsOK, PlacesOK, ProducerPlace, ConsumerPlace, MainPlace
<1>4. KindsOK /\ MutexSum /\ RoomSum
  BY <1>2, Names DEF PCInit, Init, KindsOK, MutexSum, RoomSum
<1>5. Count = 0 /\ NextIn = 0 /\ NextOut = 0
  BY <1>2, Names DEF PCInit, Init, Count, One, NextIn, NextOut, Wrap
<1>6. RingOK
  <2>1. items = [k \in 0 .. (N - 1) |-> 0] /\ in = 0 /\ out = 0
    BY DEF PCInit, N
  <2> QED
    BY <1>2, <1>5, <2>1, Names DEF RingOK, Wrap, Offset, One
<1> QED
  BY <1>1, <1>3, <1>4, <1>6 DEF PCInv

-----------------------------------------------------------------------------
(***************************************************************************)
(* The calls of main.                                                      *)
(***************************************************************************)
LEMMA MainMoves ==
  ASSUME ThreadsOK, NEW to \in MainPlace, pc' = [pc EXCEPT ![Game] = to],
         UNCHANGED block_sem
  PROVE  /\ ThreadsOK' /\ pc'[Game] = to
         /\ pc'[Producer] = pc[Producer] /\ pc'[Consumer] = pc[Consumer]
<1>1. /\ pc'[Game] = to /\ pc'[Producer] = pc[Producer] /\ pc'[Consumer] = pc[Consumer]
      /\ PlacesOK'
  BY Names DEF ThreadsOK, PlacesOK
<1> QED
  BY <1>1 DEF ThreadsOK

\* sem_init of s, by main.
LEMMA SemInitEffect ==
  ASSUME Calm, NEW s \in Sems, NEW v \in Nat, NEW m \in BOOLEAN, SemInit(s, v, m)
  PROVE  /\ Calm' /\ block_sem' = block_sem /\ kind[s] = "none" /\ value[s] = 0
         /\ \A t \in Sems : kind'[t] = IF t = s THEN IF m THEN "mutex" ELSE "counting"
                                       ELSE kind[t]
         /\ \A t \in Sems : value'[t] = IF t = s THEN IF m THEN 1 ELSE v ELSE value[t]
<1>1. Calm'
  BY SemInitInv DEF Calm, SemInit
<1>2. kind \in [Sems -> Kind] /\ value \in [Sems -> Int]
  BY DEF Calm, Inv, TypeOK
<1>3. /\ block_sem' = block_sem /\ kind[s] = "none" /\ value[s] = 0
  BY DEF SemInit, Calm, Inv, CountsOK
<1>4. \A t \in Sems : kind'[t] = IF t = s THEN IF m THEN "mutex" ELSE "counting"
                                 ELSE kind[t]
  BY <1>2 DEF SemInit
<1>5. \A t \in Sems : value'[t] = IF t = s THEN IF m THEN 1 ELSE v ELSE value[t]
  BY <1>2 DEF SemInit
<1> QED
  BY <1>1, <1>3, <1>4, <1>5

LEMMA MainInv == PCInv /\ Main => PCInv'
<1> SUFFICES ASSUME PCInv, Main PROVE PCInv'
  OBVIOUS
<1>0. Calm /\ ThreadsOK /\ KindsOK /\ MutexSum /\ RoomSum /\ RingOK
  BY DEF PCInv
<1>1. CASE Call(Game, "init_mutex", SemInit(mutex, 1, TRUE), "init_empty")
  <2>1. /\ pc[Game] = "init_mutex" /\ pc' = [pc EXCEPT ![Game] = "init_empty"]
        /\ UNCHANGED <<in, out, items>> /\ SemInit(mutex, 1, TRUE)
    BY <1>1 DEF Call
  <2>2. /\ Calm' /\ block_sem' = block_sem /\ kind[mutex] = "none"
        /\ kind'[mutex] = "mutex" /\ kind'[empty] = kind[empty] /\ kind'[full] = kind[full]
        /\ value'[mutex] = 1 /\ value'[empty] = value[empty] /\ value'[full] = value[full]
    BY <1>0, <2>1, Names, SemInitEffect
  <2>3. /\ ThreadsOK' /\ pc'[Game] = "init_empty"
        /\ pc'[Producer] = pc[Producer] /\ pc'[Consumer] = pc[Consumer]
    BY <1>0, <2>1, <2>2, MainMoves DEF MainPlace
  <2>4. KindsOK' /\ MutexSum' /\ RoomSum'
    BY <1>0, <2>1, <2>2, <2>3 DEF KindsOK, MutexSum, RoomSum, Inside, One
  <2>5. RingOK'
    BY <1>0, <2>1, <2>2, <2>3, SameRing DEF Count, One
  <2> QED
    BY <2>2, <2>3, <2>4, <2>5 DEF PCInv
<1>2. CASE Call(Game, "init_empty", SemInit(empty, item_num, FALSE), "init_full")
  <2>1. /\ pc[Game] = "init_empty" /\ pc' = [pc EXCEPT ![Game] = "init_full"]
        /\ UNCHANGED <<in, out, items>> /\ SemInit(empty, N, FALSE)
    BY <1>2 DEF Call, N
  <2>2. /\ Calm' /\ block_sem' = block_sem /\ kind[empty] = "none"
        /\ kind'[empty] = "counting" /\ kind'[mutex] = kind[mutex] /\ kind'[full] = kind[full]
        /\ value'[empty] = N /\ value'[mutex] = value[mutex] /\ value'[full] = value[full]
    BY <1>0, <2>1, Names, SemInitEffect
  <2>3. /\ ThreadsOK' /\ pc'[Game] = "init_full"
        /\ pc'[Producer] = pc[Producer] /\ pc'[Consumer] = pc[Consumer]
    BY <1>0, <2>1, <2>2, MainMoves DEF MainPlace
  <2>4. KindsOK' /\ MutexSum'
    BY <1>0, <2>1, <2>2, <2>3 DEF KindsOK, MutexSum, Inside, One
  <2>5. RoomSum'
    <3>1. value[full] = 0
      BY <1>0, <2>2, Names DEF KindsOK, Calm, Inv, CountsOK
    <3> QED
      BY <1>0, <2>2, <2>3, <3>1, Names DEF RoomSum, One
  <2>6. RingOK'
    BY <1>0, <2>1, <2>2, <2>3, SameRing DEF Count, One
  <2> QED
    BY <2>2, <2>3, <2>4, <2>5, <2>6 DEF PCInv
<1>3. CASE Call(Game, "init_full", SemInit(full, 0, FALSE), "thread_1")
  <2>1. /\ pc[Game] = "init_full" /\ pc' = [pc EXCEPT ![Game] = "thread_1"]
        /\ UNCHANGED <<in, out, items>> /\ SemInit(full, 0, FALSE)
    BY <1>3 DEF Call
  <2>2. /\ Calm' /\ block_sem' = block_sem /\ kind[full] = "none"
        /\ kind'[full] = "counting" /\ kind'[mutex] = kind[mutex] /\ kind'[empty] = kind[empty]
        /\ value'[full] = value[full]
        /\ value'[mutex] = value[mutex] /\ value'[empty] = value[empty]
    BY <1>0, <2>1, Names, SemInitEffect, ZenonT(60)
  <2>3. /\ ThreadsOK' /\ pc'[Game] = "thread_1"
        /\ pc'[Producer] = pc[Producer] /\ pc'[Consumer] = pc[Consumer]
    BY <1>0, <2>1, <2>2, MainMoves DEF MainPlace
  <2>4. KindsOK' /\ MutexSum' /\ RoomSum'
    BY <1>0, <2>1, <2>2, <2>3 DEF KindsOK, MutexSum, RoomSum, Inside, One
  <2>5. RingOK'
    BY <1>0, <2>1, <2>2, <2>3, SameRing DEF Count, One
  <2> QED
    BY <2>2, <2>3, <2>4, <2>5 DEF PCInv
<1>4. ASSUME NEW from \in {"thread_1", "thread_2"}, NEW to \in {"thread_2", "spin"},
             Call(Game, from, CreateThread, to)
      PROVE  PCInv'
  <2>1. /\ pc[Game] = from /\ pc' = [pc EXCEPT ![Game] = to]
        /\ UNCHANGED <<in, out, items>> /\ CreateThread
    BY <1>4 DEF Call
  <2>2. Calm' /\ UNCHANGED <<block_sem, kind, value>>
    BY <1>0, <2>1, CreateThreadInv DEF Calm, CreateThread
  <2>3. /\ ThreadsOK' /\ pc'[Game] = to
        /\ pc'[Producer] = pc[Producer] /\ pc'[Consumer] = pc[Consumer]
    BY <1>0, <2>1, <2>2, MainMoves DEF MainPlace
  <2>4. KindsOK' /\ MutexSum' /\ RoomSum'
    BY <1>0, <2>1, <2>2, <2>3 DEF KindsOK, MutexSum, RoomSum, Inside, One
  <2>5. RingOK'
    BY <1>0, <2>1, <2>2, <2>3, SameRing DEF Count, One
  <2> QED
    BY <2>2, <2>3, <2>4, <2>5 DEF PCInv
<1> QED
  BY <1>1, <1>2, <1>3, <1>4 DEF Main
-----------------------------------------------------------------------------
(***************************************************************************)
(* The user code of the threads, between two calls.                        *)
(***************************************************************************)
LEMMA ComputeEffect ==
  ASSUME PCInv, NEW t \in {Producer, Consumer}, NEW from, NEW to,
         Compute(t, from, to),
         t = Producer => from \in {"put", "advance"} /\ to \in {"advance", "unlock"},
         t = Consumer => from \in {"take", "advance"} /\ to \in {"advance", "unlock"}
  PROVE  /\ Calm' /\ ThreadsOK' /\ KindsOK' /\ MutexSum' /\ RoomSum'
         /\ pc[t] = from /\ pc'[t] = to /\ value' = value
         /\ \A u \in {Producer, Consumer} : u # t => pc'[u] = pc[u]
         /\ block_sem[t] = NoSem
<1>0. Calm /\ ThreadsOK /\ KindsOK /\ MutexSum /\ RoomSum
  BY DEF PCInv
<1>1. /\ cpu = "user" /\ current = t /\ pc[t] = from /\ pc' = [pc EXCEPT ![t] = to]
      /\ UNCHANGED vars
  BY DEF Compute
<1>2. UNCHANGED <<kind, value, block_sem, upset>>
  BY <1>1 DEF vars
<1>3. Calm'
  BY <1>0, <1>1, <1>2, StutterInv DEF Calm
<1>4. block_sem[t] = NoSem
  BY <1>0, <1>1, CallerFree
<1>5. /\ pc'[t] = to /\ pc'[Game] = pc[Game]
      /\ \A u \in {Producer, Consumer} : u # t => pc'[u] = pc[u]
      /\ PlacesOK'
  BY <1>0, <1>1, Names DEF ThreadsOK, PlacesOK, ProducerPlace, ConsumerPlace
<1>6. ThreadsOK'
  BY <1>0, <1>2, <1>4, <1>5, Names DEF ThreadsOK
<1>7. KindsOK'
  BY <1>0, <1>2, <1>5 DEF KindsOK
<1>8. (Inside(Producer)' <=> Inside(Producer)) /\ (Inside(Consumer)' <=> Inside(Consumer))
  BY <1>1, <1>2, <1>5, Names DEF Inside
<1>9. MutexSum'
  BY <1>0, <1>1, <1>2, <1>5, <1>8, Names DEF MutexSum, One
<1>10. RoomSum'
  BY <1>0, <1>1, <1>2, <1>5, Names DEF RoomSum, One
<1> QED
  BY <1>1, <1>2, <1>3, <1>4, <1>5, <1>6, <1>7, <1>9, <1>10

LEMMA PutInv == PCInv /\ Put => PCInv'
<1> SUFFICES ASSUME PCInv, Put PROVE PCInv'
  OBVIOUS
<1>1. /\ Calm' /\ ThreadsOK' /\ KindsOK' /\ MutexSum' /\ RoomSum'
      /\ pc[Producer] = "put" /\ pc'[Producer] = "advance" /\ value' = value
      /\ pc'[Consumer] = pc[Consumer] /\ block_sem[Producer] = NoSem
  BY Names, ComputeEffect DEF Put
<1>2. RingOK /\ Count \in 0 .. (N - 1)
  BY <1>1, CountBounds, Names DEF PCInv
<1>3. /\ in \in 0 .. N /\ out \in 0 .. N /\ items \in [0 .. (N - 1) -> Int]
      /\ (pc[Consumer] = "advance" => out < N)
  BY <1>2 DEF RingOK
<1>4. NextOut \in 0 .. (N - 1) /\ NextIn = Wrap(in) /\ in % N = Wrap(in)
  <2>1. NextOut \in 0 .. (N - 1)
    BY <1>3, Names DEF NextOut, Wrap
  <2> QED
    BY <1>1, <1>3, <2>1, WrapIsMod DEF NextIn
<1> DEFINE j == Wrap(in)
           n == Count
           o == NextOut
<1>5. j = Wrap(o + n)
  BY <1>2, <1>4 DEF RingOK
<1>6. /\ items' = [items EXCEPT ![j] = 1] /\ in' = j /\ out' = out
  BY <1>4 DEF Put, N
<1>7. NextOut' = o /\ Count' = n + 1
  <2>1. value[full] \in Int
    BY Names DEF PCInv, Calm, Inv, TypeOK
  <2> QED
    BY <1>1, <1>6, <2>1 DEF NextOut, Wrap, Count, One
<1>8. NextIn' = Wrap(j + 1)
  BY <1>1, <1>6 DEF NextIn, Wrap
<1>9. \A k \in 0 .. (N - 1) : items[k] = One(Offset(o, k) < n)
  BY <1>2 DEF RingOK
<1>10. n \in 0 .. (N - 1) /\ o \in 0 .. (N - 1)
  BY <1>2, <1>4
<1> HIDE DEF j, n, o
<1>11. /\ j \in 0 .. (N - 1) /\ Wrap(j + 1) = Wrap(o + (n + 1))
       /\ \A k \in 0 .. (N - 1) : Offset(o, k) < n + 1 <=> k = j \/ Offset(o, k) < n
  BY <1>5, <1>10, RingPut
<1>12. \A k \in 0 .. (N - 1) : items'[k] = One(Offset(o, k) < n + 1)
  BY <1>3, <1>6, <1>9, <1>11 DEF One
<1>13. in' \in 0 .. N /\ in' < N /\ items' \in [0 .. (N - 1) -> Int]
  BY <1>3, <1>6, <1>11, Names
<1>14. \A k \in 0 .. (N - 1) : items'[k] = One(Offset(NextOut', k) < Count')
  BY <1>7, <1>12
<1>15. NextIn' = Wrap(NextOut' + Count')
  BY <1>7, <1>8, <1>11
<1>16. RingOK'
  BY <1>1, <1>3, <1>6, <1>13, <1>14, <1>15 DEF RingOK, Offset, One, Wrap
<1> QED
  BY <1>1, <1>16 DEF PCInv

LEMMA AdvanceInInv == PCInv /\ AdvanceIn => PCInv'
<1> SUFFICES ASSUME PCInv, AdvanceIn PROVE PCInv'
  OBVIOUS
<1>1. /\ Calm' /\ ThreadsOK' /\ KindsOK' /\ MutexSum' /\ RoomSum'
      /\ pc[Producer] = "advance" /\ pc'[Producer] = "unlock" /\ value' = value
      /\ pc'[Consumer] = pc[Consumer]
  BY Names, ComputeEffect DEF AdvanceIn
<1>2. in' = in + 1 /\ out' = out /\ items' = items
  BY DEF AdvanceIn
<1>3. NextIn' = NextIn /\ NextOut' = NextOut /\ Count' = Count
  BY <1>1, <1>2 DEF NextIn, NextOut, Wrap, Count, One
<1>4. in' \in 0 .. N
  BY <1>1, <1>2, Names DEF PCInv, RingOK
<1>5. RingOK'
  BY <1>1, <1>2, <1>3, <1>4 DEF PCInv, RingOK, Offset, One, Wrap
<1> QED
  BY <1>1, <1>5 DEF PCInv

LEMMA TakeInv == PCInv /\ Take => PCInv'
<1> SUFFICES ASSUME PCInv, Take PROVE PCInv'
  OBVIOUS
<1>1. /\ Calm' /\ ThreadsOK' /\ KindsOK' /\ MutexSum' /\ RoomSum'
      /\ pc[Consumer] = "take" /\ pc'[Consumer] = "advance" /\ value' = value
      /\ pc'[Producer] = pc[Producer] /\ block_sem[Consumer] = NoSem
  BY Names, ComputeEffect DEF Take
<1>2. RingOK /\ Count \in 1 .. N
  BY <1>1, CountBounds, Names DEF PCInv
<1>3. /\ in \in 0 .. N /\ out \in 0 .. N /\ items \in [0 .. (N - 1) -> Int]
      /\ (pc[Producer] = "advance" => in < N)
  BY <1>2 DEF RingOK
<1>4. NextOut \in 0 .. (N - 1) /\ NextOut = Wrap(out) /\ out % N = Wrap(out)
  BY <1>1, <1>3, Names, WrapIsMod DEF NextOut
<1> DEFINE n == Count
           o == NextOut
<1>5. /\ items' = [items EXCEPT ![o] = @ - 1] /\ out' = o /\ in' = in
  BY <1>4 DEF Take, N
<1>6. NextIn' = NextIn /\ Count' = n - 1
  <2>1. value[full] \in Int
    BY Names DEF PCInv, Calm, Inv, TypeOK
  <2> QED
    BY <1>1, <1>5, <2>1 DEF NextIn, Wrap, Count, One
<1>7. NextOut' = Wrap(o + 1)
  BY <1>1, <1>5 DEF NextOut, Wrap
<1>8. NextIn = Wrap(o + n) /\ \A k \in 0 .. (N - 1) : items[k] = One(Offset(o, k) < n)
  BY <1>2 DEF RingOK
<1>9. n \in 1 .. N /\ o \in 0 .. (N - 1)
  BY <1>2, <1>4
<1> HIDE DEF n, o
<1>10. /\ Wrap(o + 1) \in 0 .. (N - 1) /\ Wrap(Wrap(o + 1) + (n - 1)) = Wrap(o + n)
       /\ Offset(o, o) < n
       /\ \A k \in 0 .. (N - 1) :
            Offset(Wrap(o + 1), k) < n - 1 <=> k # o /\ Offset(o, k) < n
  BY <1>9, RingTake
<1>11. \A k \in 0 .. (N - 1) : items'[k] = IF k = o THEN items[k] - 1 ELSE items[k]
  BY <1>3, <1>5, <1>9
<1>12. \A k \in 0 .. (N - 1) : items'[k] = One(Offset(Wrap(o + 1), k) < n - 1)
  BY <1>8, <1>9, <1>10, <1>11 DEF One
<1>13. out' \in 0 .. N /\ out' < N /\ items' \in [0 .. (N - 1) -> Int]
  BY <1>3, <1>5, <1>9, Names
<1>14. \A k \in 0 .. (N - 1) : items'[k] = One(Offset(NextOut', k) < Count')
  BY <1>6, <1>7, <1>12
<1>15. NextIn' = Wrap(NextOut' + Count')
  BY <1>6, <1>7, <1>8, <1>10
<1>16. RingOK'
  BY <1>1, <1>3, <1>5, <1>13, <1>14, <1>15 DEF RingOK, Offset, One, Wrap
<1> QED
  BY <1>1, <1>16 DEF PCInv

LEMMA AdvanceOutInv == PCInv /\ AdvanceOut => PCInv'
<1> SUFFICES ASSUME PCInv, AdvanceOut PROVE PCInv'
  OBVIOUS
<1>1. /\ Calm' /\ ThreadsOK' /\ KindsOK' /\ MutexSum' /\ RoomSum'
      /\ pc[Consumer] = "advance" /\ pc'[Consumer] = "unlock" /\ value' = value
      /\ pc'[Producer] = pc[Producer]
  BY Names, ComputeEffect DEF AdvanceOut
<1>2. out' = out + 1 /\ in' = in /\ items' = items
  BY DEF AdvanceOut
<1>3. NextIn' = NextIn /\ NextOut' = NextOut /\ Count' = Count
  BY <1>1, <1>2 DEF NextIn, NextOut, Wrap, Count, One
<1>4. out' \in 0 .. N
  BY <1>1, <1>2, Names DEF PCInv, RingOK
<1>5. RingOK'
  BY <1>1, <1>2, <1>3, <1>4 DEF PCInv, RingOK, Offset, One, Wrap
<1> QED
  BY <1>1, <1>5 DEF PCInv

(***************************************************************************)
(* The producer.                                                           *)
(***************************************************************************)
LEMMA ProducerMoves ==
  ASSUME ThreadsOK, NEW to \in ProducerPlace, pc' = [pc EXCEPT ![Producer] = to]
  PROVE  /\ pc'[Producer] = to /\ pc'[Game] = pc[Game] /\ pc'[Consumer] = pc[Consumer]
         /\ PlacesOK'
  BY Names DEF ThreadsOK, PlacesOK

LEMMA ProducerInv == PCInv /\ ProducerStep => PCInv'
<1> SUFFICES ASSUME PCInv, ProducerStep PROVE PCInv'
  OBVIOUS
<1>0. Calm /\ ThreadsOK /\ KindsOK /\ MutexSum /\ RoomSum /\ RingOK
  BY DEF PCInv
<1>1. CASE Call(Producer, "wait_empty", SemWait(empty), "lock")
  <2>1. /\ current = Producer /\ pc[Producer] = "wait_empty" /\ SemWait(empty)
        /\ pc' = [pc EXCEPT ![Producer] = "lock"] /\ UNCHANGED <<in, out, items>>
    BY <1>1 DEF Call
  <2>2. /\ pc'[Producer] = "lock" /\ pc'[Game] = pc[Game] /\ pc'[Consumer] = pc[Consumer]
        /\ PlacesOK'
    BY <1>0, <2>1, ProducerMoves DEF ProducerPlace
  <2>3. kind[empty] = "counting"
    BY <1>0, <2>1 DEF KindsOK, SemWait, SemWaitPass, SemWaitBlock
  <2>4. /\ Inv' /\ upset' = upset /\ kind' = kind
        /\ \A t \in Sems : value'[t] = IF t = empty THEN value[t] - 1 ELSE value[t]
        /\ \A p \in Slots : block_sem'[p] # block_sem[p] =>
             p = current /\ block_sem'[p] = empty
    BY <1>0, <2>1, <2>3, Names, WaitCounting
  <2>5. Calm'
    BY <1>0, <2>4 DEF Calm
  <2>6. /\ value'[empty] = value[empty] - 1 /\ value'[mutex] = value[mutex]
        /\ value'[full] = value[full] /\ block_sem'[Consumer] = block_sem[Consumer]
        /\ value[empty] \in Int /\ value[full] \in Int
    BY <1>0, <2>1, <2>4, Names DEF Calm, Inv, TypeOK
  <2>7. ThreadsOK'
    BY <1>0, <2>1, <2>2, <2>4, Names DEF ThreadsOK
  <2>8. KindsOK'
    BY <1>0, <2>2, <2>4 DEF KindsOK
  <2>9. MutexSum'
    BY <1>0, <2>1, <2>2, <2>4, <2>6 DEF MutexSum, Inside, One
  <2>10. kind[empty] # "none"
    BY <1>0, <2>3 DEF KindsOK
  <2>11. RoomSum'
    BY <1>0, <2>1, <2>2, <2>4, <2>6, <2>10, Names DEF RoomSum, One
  <2>12. Count' = Count
    BY <1>0, <2>1, <2>2, <2>6 DEF Count, One
  <2>13. RingOK'
    BY <1>0, <2>1, <2>2, <2>12, SameRing
  <2> QED
    BY <2>5, <2>7, <2>8, <2>9, <2>11, <2>13 DEF PCInv
<1>2. CASE Call(Producer, "lock", SemWait(mutex), "put")
  <2>1. /\ current = Producer /\ pc[Producer] = "lock" /\ SemWait(mutex)
        /\ pc' = [pc EXCEPT ![Producer] = "put"] /\ UNCHANGED <<in, out, items>>
    BY <1>2 DEF Call
  <2>2. /\ pc'[Producer] = "put" /\ pc'[Game] = pc[Game] /\ pc'[Consumer] = pc[Consumer]
        /\ PlacesOK'
    BY <1>0, <2>1, ProducerMoves DEF ProducerPlace
  <2>3. kind[mutex] = "mutex"
    BY <1>0, <2>1 DEF KindsOK, SemWait, SemWaitPass, SemWaitBlock
  <2>4. /\ Inv' /\ upset' = upset /\ kind' = kind /\ cpu = "user"
        /\ \A t \in Sems \ {mutex} : value'[t] = value[t]
        /\ \A p \in Slots \ {current} : block_sem'[p] = block_sem[p]
        /\ \/ value[mutex] = 1 /\ value'[mutex] = 0 /\ block_sem'[current] = block_sem[current]
           \/ value[mutex] = 0 /\ value'[mutex] = 0 /\ block_sem'[current] = mutex
    BY <1>0, <2>1, <2>3, Names, WaitMutex
  <2>5. Calm' /\ block_sem[Producer] = NoSem
    BY <1>0, <2>1, <2>4, CallerFree DEF Calm
  <2>6. /\ value'[empty] = value[empty] /\ value'[full] = value[full]
        /\ block_sem'[Consumer] = block_sem[Consumer]
    BY <2>1, <2>4, Names
  <2>7. ThreadsOK'
    BY <1>0, <2>1, <2>2, <2>4, <2>5, Names DEF ThreadsOK
  <2>8. KindsOK'
    BY <1>0, <2>2, <2>4 DEF KindsOK
  <2>9. MutexSum'
    BY <1>0, <2>1, <2>2, <2>3, <2>4, <2>5, <2>6, Names DEF MutexSum, Inside, One
  <2>10. RoomSum'
    BY <1>0, <2>1, <2>2, <2>4, <2>6 DEF RoomSum, One
  <2>11. Count' = Count
    BY <1>0, <2>1, <2>2, <2>6 DEF Count, One
  <2>12. RingOK'
    BY <1>0, <2>1, <2>2, <2>11, SameRing
  <2> QED
    BY <2>5, <2>7, <2>8, <2>9, <2>10, <2>12 DEF PCInv
<1>3. CASE Call(Producer, "unlock", SemPost(mutex), "post_full")
  <2>1. /\ current = Producer /\ pc[Producer] = "unlock" /\ SemPost(mutex)
        /\ pc' = [pc EXCEPT ![Producer] = "post_full"] /\ UNCHANGED <<in, out, items>>
    BY <1>3 DEF Call
  <2>2. /\ pc'[Producer] = "post_full" /\ pc'[Game] = pc[Game] /\ pc'[Consumer] = pc[Consumer]
        /\ PlacesOK'
    BY <1>0, <2>1, ProducerMoves DEF ProducerPlace
  <2>3. kind[mutex] = "mutex"
    BY <1>0, <2>1 DEF KindsOK, SemPost
  <2>4. /\ Inv' /\ upset' = upset /\ kind' = kind /\ cpu = "user"
        /\ \A t \in Sems \ {mutex} : value'[t] = value[t]
        /\ \/ /\ value'[mutex] = 1 /\ block_sem' = block_sem
           \/ /\ value'[mutex] = value[mutex]
              /\ \E p \in Slots : /\ block_sem[p] = mutex /\ block_sem'[p] = NoSem
                                  /\ \A q \in Slots \ {p} : block_sem'[q] = block_sem[q]
    BY <1>0, <2>1, <2>3, Names, PostMutex
  <2>5. Calm' /\ block_sem[Producer] = NoSem
    BY <1>0, <2>1, <2>4, CallerFree DEF Calm
  <2>6. /\ value'[empty] = value[empty] /\ value'[full] = value[full]
        /\ value[mutex] \in {0, 1}
    BY <1>0, <2>3, <2>4, Names DEF Calm, Inv, CountsOK, MutexHandover
  <2>7. \/ value'[mutex] = 1 /\ block_sem' = block_sem
        \/ /\ value'[mutex] = value[mutex]
           /\ block_sem[Consumer] = mutex /\ block_sem'[Consumer] = NoSem
           /\ \A q \in Slots \ {Consumer} : block_sem'[q] = block_sem[q]
    BY <1>0, <2>4, <2>5, Names DEF ThreadsOK
  <2>8. ThreadsOK'
    BY <1>0, <2>1, <2>2, <2>5, <2>7, Names DEF ThreadsOK
  <2>9. KindsOK'
    BY <1>0, <2>2, <2>4 DEF KindsOK
  <2>10. MutexSum'
    BY <1>0, <2>1, <2>2, <2>3, <2>4, <2>5, <2>6, <2>7, Names
    DEF MutexSum, Inside, One, ThreadsOK
  <2>11. RoomSum'
    BY <1>0, <2>1, <2>2, <2>4, <2>6 DEF RoomSum, One
  <2>12. Count' = Count
    BY <1>0, <2>1, <2>2, <2>6 DEF Count, One
  <2>13. RingOK'
    BY <1>0, <2>1, <2>2, <2>12, SameRing
  <2> QED
    BY <2>5, <2>8, <2>9, <2>10, <2>11, <2>13 DEF PCInv
<1>4. CASE Call(Producer, "post_full", SemPost(full), "wait_empty")
  <2>1. /\ current = Producer /\ pc[Producer] = "post_full" /\ SemPost(full)
        /\ pc' = [pc EXCEPT ![Producer] = "wait_empty"] /\ UNCHANGED <<in, out, items>>
    BY <1>4 DEF Call
  <2>2. /\ pc'[Producer] = "wait_empty" /\ pc'[Game] = pc[Game] /\ pc'[Consumer] = pc[Consumer]
        /\ PlacesOK'
    BY <1>0, <2>1, ProducerMoves DEF ProducerPlace
  <2>3. kind[full] = "counting" /\ kind[empty] # "none"
    BY <1>0, <2>1 DEF KindsOK, SemPost
  <2>4. /\ Inv' /\ upset' = upset /\ kind' = kind /\ cpu = "user"
        /\ \A t \in Sems : value'[t] = IF t = full THEN value[t] + 1 ELSE value[t]
        /\ \A p \in Slots : block_sem'[p] # block_sem[p] =>
             block_sem[p] = full /\ block_sem'[p] = NoSem
    BY <1>0, <2>1, <2>3, Names, PostCounting
  <2>5. Calm' /\ block_sem[Producer] = NoSem
    BY <1>0, <2>1, <2>4, CallerFree DEF Calm
  <2>6. /\ value'[empty] = value[empty] /\ value'[mutex] = value[mutex]
        /\ value'[full] = value[full] + 1
        /\ value[empty] \in Int /\ value[full] \in Int
        /\ block_sem'[Producer] = NoSem
        /\ block_sem'[Consumer] # block_sem[Consumer] => pc[Consumer] = "lock"
    BY <1>0, <2>4, <2>5, Names DEF Calm, Inv, TypeOK, ThreadsOK
  <2>7. ThreadsOK'
    BY <1>0, <2>1, <2>2, <2>4, <2>5, <2>6, Names DEF ThreadsOK
  <2>8. KindsOK'
    BY <1>0, <2>2, <2>4 DEF KindsOK
  <2>9. MutexSum'
    BY <1>0, <2>1, <2>2, <2>4, <2>6 DEF MutexSum, Inside, One
  <2>10. RoomSum'
    BY <1>0, <2>1, <2>2, <2>3, <2>4, <2>6, Names DEF RoomSum, One
  <2>11. Count' = Count
    BY <1>0, <2>1, <2>2, <2>6 DEF Count, One
  <2>12. RingOK'
    BY <1>0, <2>1, <2>2, <2>11, SameRing
  <2> QED
    BY <2>5, <2>7, <2>8, <2>9, <2>10, <2>12 DEF PCInv
<1>5. CASE Put
  BY <1>5, PutInv
<1>6. CASE AdvanceIn
  BY <1>6, AdvanceInInv
<1> QED
  BY <1>1, <1>2, <1>3, <1>4, <1>5, <1>6 DEF ProducerStep

(***************************************************************************)
(* The consumer.                                                           *)
(***************************************************************************)
LEMMA ConsumerMoves ==
  ASSUME ThreadsOK, NEW to \in ConsumerPlace, pc' = [pc EXCEPT ![Consumer] = to]
  PROVE  /\ pc'[Consumer] = to /\ pc'[Game] = pc[Game] /\ pc'[Producer] = pc[Producer]
         /\ PlacesOK'
  BY Names DEF ThreadsOK, PlacesOK

LEMMA ConsumerInv == PCInv /\ ConsumerStep => PCInv'
<1> SUFFICES ASSUME PCInv, ConsumerStep PROVE PCInv'
  OBVIOUS
<1>0. Calm /\ ThreadsOK /\ KindsOK /\ MutexSum /\ RoomSum /\ RingOK
  BY DEF PCInv
<1>1. CASE Call(Consumer, "wait_full", SemWait(full), "lock")
  <2>1. /\ current = Consumer /\ pc[Consumer] = "wait_full" /\ SemWait(full)
        /\ pc' = [pc EXCEPT ![Consumer] = "lock"] /\ UNCHANGED <<in, out, items>>
    BY <1>1 DEF Call
  <2>2. /\ pc'[Consumer] = "lock" /\ pc'[Game] = pc[Game] /\ pc'[Producer] = pc[Producer]
        /\ PlacesOK'
    BY <1>0, <2>1, ConsumerMoves DEF ConsumerPlace
  <2>3. kind[full] = "counting"
    BY <1>0, <2>1 DEF KindsOK, SemWait, SemWaitPass, SemWaitBlock
  <2>4. /\ Inv' /\ upset' = upset /\ kind' = kind
        /\ \A t \in Sems : value'[t] = IF t = full THEN value[t] - 1 ELSE value[t]
        /\ \A p \in Slots : block_sem'[p] # block_sem[p] =>
             p = current /\ block_sem'[p] = full
    BY <1>0, <2>1, <2>3, Names, WaitCounting
  <2>5. Calm'
    BY <1>0, <2>4 DEF Calm
  <2>6. /\ value'[full] = value[full] - 1 /\ value'[mutex] = value[mutex]
        /\ value'[empty] = value[empty] /\ block_sem'[Producer] = block_sem[Producer]
        /\ value[full] \in Int /\ value[empty] \in Int
    BY <1>0, <2>1, <2>4, Names DEF Calm, Inv, TypeOK
  <2>7. ThreadsOK'
    BY <1>0, <2>1, <2>2, <2>4, Names DEF ThreadsOK
  <2>8. KindsOK'
    BY <1>0, <2>2, <2>4 DEF KindsOK
  <2>9. MutexSum'
    BY <1>0, <2>1, <2>2, <2>4, <2>6 DEF MutexSum, Inside, One
  <2>10. kind[empty] # "none"
    BY <1>0, <2>3 DEF KindsOK
  <2>11. RoomSum'
    BY <1>0, <2>1, <2>2, <2>4, <2>6, <2>10, Names DEF RoomSum, One
  <2>12. Count' = Count
    BY <1>0, <2>1, <2>2, <2>6 DEF Count, One
  <2>13. RingOK'
    BY <1>0, <2>1, <2>2, <2>12, SameRing
  <2> QED
    BY <2>5, <2>7, <2>8, <2>9, <2>11, <2>13 DEF PCInv
<1>2. CASE Call(Consumer, "lock", SemWait(mutex), "take")
  <2>1. /\ current = Consumer /\ pc[Consumer] = "lock" /\ SemWait(mutex)
        /\ pc' = [pc EXCEPT ![Consumer] = "take"] /\ UNCHANGED <<in, out, items>>
    BY <1>2 DEF Call
  <2>2. /\ pc'[Consumer] = "take" /\ pc'[Game] = pc[Game] /\ pc'[Producer] = pc[Producer]
        /\ PlacesOK'
    BY <1>0, <2>1, ConsumerMoves DEF ConsumerPlace
  <2>3. kind[mutex] = "mutex"
    BY <1>0, <2>1 DEF KindsOK, SemWait, SemWaitPass, SemWaitBlock
  <2>4. /\ Inv' /\ upset' = upset /\ kind' = kind /\ cpu = "user"
        /\ \A t \in Sems \ {mutex} : value'[t] = value[t]
        /\ \A p \in Slots \ {current} : block_sem'[p] = block_sem[p]
        /\ \/ value[mutex] = 1 /\ value'[mutex] = 0 /\ block_sem'[current] = block_sem[current]
           \/ value[mutex] = 0 /\ value'[mutex] = 0 /\ block_sem'[current] = mutex
    BY <1>0, <2>1, <2>3, Names, WaitMutex
  <2>5. Calm' /\ block_sem[Consumer] = NoSem
    BY <1>0, <2>1, <2>4, CallerFree DEF Calm
  <2>6. /\ value'[empty] = value[empty] /\ value'[full] = value[full]
        /\ block_sem'[Producer] = block_sem[Producer]
    BY <2>1, <2>4, Names
  <2>7. ThreadsOK'
    BY <1>0, <2>1, <2>2, <2>4, <2>5, Names DEF ThreadsOK
  <2>8. KindsOK'
    BY <1>0, <2>2, <2>4 DEF KindsOK
  <2>9. MutexSum'
    BY <1>0, <2>1, <2>2, <2>3, <2>4, <2>5, <2>6, Names DEF MutexSum, Inside, One
  <2>10. RoomSum'
    BY <1>0, <2>1, <2>2, <2>4, <2>6 DEF RoomSum, One
  <2>11. Count' = Count
    BY <1>0, <2>1, <2>2, <2>6 DEF Count, One
  <2>12. RingOK'
    BY <1>0, <2>1, <2>2, <2>11, SameRing
  <2> QED
    BY <2>5, <2>7, <2>8, <2>9, <2>10, <2>12 DEF PCInv
<1>3. CASE Call(Consumer, "unlock", SemPost(mutex), "post_empty")
  <2>1. /\ current = Consumer /\ pc[Consumer] = "unlock" /\ SemPost(mutex)
        /\ pc' = [pc EXCEPT ![Consumer] = "post_empty"] /\ UNCHANGED <<in, out, items>>
    BY <1>3 DEF Call
  <2>2. /\ pc'[Consumer] = "post_empty" /\ pc'[Game] = pc[Game] /\ pc'[Producer] = pc[Producer]
        /\ PlacesOK'
    BY <1>0, <2>1, ConsumerMoves DEF ConsumerPlace
  <2>3. kind[mutex] = "mutex"
    BY <1>0, <2>1 DEF KindsOK, SemPost
  <2>4. /\ Inv' /\ upset' = upset /\ kind' = kind /\ cpu = "user"
        /\ \A t \in Sems \ {mutex} : value'[t] = value[t]
        /\ \/ /\ value'[mutex] = 1 /\ block_sem' = block_sem
           \/ /\ value'[mutex] = value[mutex]
              /\ \E p \in Slots : /\ block_sem[p] = mutex /\ block_sem'[p] = NoSem
                                  /\ \A q \in Slots \ {p} : block_sem'[q] = block_sem[q]
    BY <1>0, <2>1, <2>3, Names, PostMutex
  <2>5. Calm' /\ block_sem[Consumer] = NoSem
    BY <1>0, <2>1, <2>4, CallerFree DEF Calm
  <2>6. /\ value'[empty] = value[empty] /\ value'[full] = value[full]
        /\ value[mutex] \in {0, 1}
    BY <1>0, <2>3, <2>4, Names DEF Calm, Inv, CountsOK, MutexHandover
  <2>7. \/ value'[mutex] = 1 /\ block_sem' = block_sem
        \/ /\ value'[mutex] = value[mutex]
           /\ block_sem[Producer] = mutex /\ block_sem'[Producer] = NoSem
           /\ \A q \in Slots \ {Producer} : block_sem'[q] = block_sem[q]
    BY <1>0, <2>4, <2>5, Names DEF ThreadsOK
  <2>8. ThreadsOK'
    BY <1>0, <2>1, <2>2, <2>5, <2>7, Names DEF ThreadsOK
  <2>9. KindsOK'
    BY <1>0, <2>2, <2>4 DEF KindsOK
  <2>10. MutexSum'
    BY <1>0, <2>1, <2>2, <2>3, <2>4, <2>5, <2>6, <2>7, Names
    DEF MutexSum, Inside, One, ThreadsOK
  <2>11. RoomSum'
    BY <1>0, <2>1, <2>2, <2>4, <2>6 DEF RoomSum, One
  <2>12. Count' = Count
    BY <1>0, <2>1, <2>2, <2>6 DEF Count, One
  <2>13. RingOK'
    BY <1>0, <2>1, <2>2, <2>12, SameRing
  <2> QED
    BY <2>5, <2>8, <2>9, <2>10, <2>11, <2>13 DEF PCInv
<1>4. CASE Call(Consumer, "post_empty", SemPost(empty), "wait_full")
  <2>1. /\ current = Consumer /\ pc[Consumer] = "post_empty" /\ SemPost(empty)
        /\ pc' = [pc EXCEPT ![Consumer] = "wait_full"] /\ UNCHANGED <<in, out, items>>
    BY <1>4 DEF Call
  <2>2. /\ pc'[Consumer] = "wait_full" /\ pc'[Game] = pc[Game] /\ pc'[Producer] = pc[Producer]
        /\ PlacesOK'
    BY <1>0, <2>1, ConsumerMoves DEF ConsumerPlace
  <2>3. kind[empty] = "counting" /\ kind[empty] # "none"
    BY <1>0, <2>1 DEF KindsOK, SemPost
  <2>4. /\ Inv' /\ upset' = upset /\ kind' = kind /\ cpu = "user"
        /\ \A t \in Sems : value'[t] = IF t = empty THEN value[t] + 1 ELSE value[t]
        /\ \A p \in Slots : block_sem'[p] # block_sem[p] =>
             block_sem[p] = empty /\ block_sem'[p] = NoSem
    BY <1>0, <2>1, <2>3, Names, PostCounting
  <2>5. Calm' /\ block_sem[Consumer] = NoSem
    BY <1>0, <2>1, <2>4, CallerFree DEF Calm
  <2>6. /\ value'[full] = value[full] /\ value'[mutex] = value[mutex]
        /\ value'[empty] = value[empty] + 1
        /\ value[full] \in Int /\ value[empty] \in Int
        /\ block_sem'[Consumer] = NoSem
        /\ block_sem'[Producer] # block_sem[Producer] => pc[Producer] = "lock"
    BY <1>0, <2>4, <2>5, Names DEF Calm, Inv, TypeOK, ThreadsOK
  <2>7. ThreadsOK'
    BY <1>0, <2>1, <2>2, <2>4, <2>5, <2>6, Names DEF ThreadsOK
  <2>8. KindsOK'
    BY <1>0, <2>2, <2>4 DEF KindsOK
  <2>9. MutexSum'
    BY <1>0, <2>1, <2>2, <2>4, <2>6 DEF MutexSum, Inside, One
  <2>10. RoomSum'
    BY <1>0, <2>1, <2>2, <2>3, <2>4, <2>6, Names DEF RoomSum, One
  <2>11. Count' = Count
    BY <1>0, <2>1, <2>2, <2>6 DEF Count, One
  <2>12. RingOK'
    BY <1>0, <2>1, <2>2, <2>11, SameRing
  <2> QED
    BY <2>5, <2>7, <2>8, <2>9, <2>10, <2>12 DEF PCInv
<1>5. CASE Take
  BY <1>5, TakeInv
<1>6. CASE AdvanceOut
  BY <1>6, AdvanceOutInv
<1> QED
  BY <1>1, <1>2, <1>3, <1>4, <1>5, <1>6 DEF ConsumerStep

-----------------------------------------------------------------------------
LEMMA KernelInv == PCInv /\ Kernel /\ upset' = {} => PCInv'
<1> SUFFICES ASSUME PCInv, Kernel, upset' = {} PROVE PCInv'
  OBVIOUS
<1>1. UNCHANGED progVars
  BY DEF Kernel
<1>2. Inv' /\ UNCHANGED <<kind, value, block_sem>>
  <2>1. CASE PreSched
    BY <2>1, PreSchedInv DEF PCInv, Calm, PreSched
  <2>2. CASE Return
    BY <2>2, ReturnInv DEF PCInv, Calm, Return
  <2>3. CASE Timer
    BY <2>3, TimerInv DEF PCInv, Calm, Timer, Interrupt
  <2>4. CASE DeviceIRQ
    BY <2>4, DeviceIRQInv DEF PCInv, Calm, DeviceIRQ, Interrupt
  <2> QED
    BY <2>1, <2>2, <2>3, <2>4 DEF Kernel
<1> QED
  BY <1>1, <1>2, SameProgram DEF Calm

\* Every step of the program and of the kernel under it.
LEMMA PCNextInv == PCInv /\ [PCNext /\ upset' = {}]_pcVars => PCInv'
<1> SUFFICES ASSUME PCInv, [PCNext /\ upset' = {}]_pcVars PROVE PCInv'
  OBVIOUS
<1>1. CASE UNCHANGED pcVars
  <2>1. UNCHANGED vars /\ UNCHANGED progVars /\ UNCHANGED <<kind, value, block_sem, upset>>
    BY <1>1 DEF pcVars, vars, progVars
  <2>2. Calm'
    BY <2>1, StutterInv DEF PCInv, Calm
  <2> QED
    BY <2>1, <2>2, SameProgram
<1>2. CASE PCNext /\ upset' = {}
  BY <1>2, MainInv, ProducerInv, ConsumerInv, KernelInv DEF PCNext
<1> QED
  BY <1>1, <1>2

LEMMA CalmPCInv == CalmPCSpec => []PCInv
  BY PCInitInv, PCNextInv, PTL DEF CalmPCSpec

(***************************************************************************)
(* The critical sections of producer and consumer (producer_consumer.c)    *)
(* never overlap.                                                          *)
(***************************************************************************)
THEOREM CriticalSectionsExclude == CalmPCSpec => []MutualExclusion
<1>1. PCInv => MutualExclusion
  <2> SUFFICES ASSUME PCInv, Inside(Producer), Inside(Consumer) PROVE FALSE
    BY DEF MutualExclusion
  <2>1. kind[mutex] # "none"
    BY DEF PCInv, MutexSum, Inside
  <2>2. value[mutex] \in {0, 1}
    BY <2>1, Names DEF PCInv, KindsOK, Calm, Inv, CountsOK, MutexHandover
  <2> QED
    BY <2>1, <2>2 DEF PCInv, MutexSum, One
<1> QED
  BY <1>1, CalmPCInv, PTL

\* The place of the ring the next operation of a thread uses.
LEMMA RingSlots ==
  ASSUME PCInv
  PROVE  /\ pc[Producer] = "put" => in % item_num = NextIn
         /\ pc[Consumer] = "take" => out % item_num = NextOut
         /\ NextIn \in 0 .. (N - 1) /\ NextOut \in 0 .. (N - 1)
<1>1. /\ in \in 0 .. N /\ (pc[Producer] = "advance" => in < N)
      /\ out \in 0 .. N /\ (pc[Consumer] = "advance" => out < N)
  BY DEF PCInv, RingOK
<1>2. in % N = Wrap(in) /\ out % N = Wrap(out)
  BY <1>1, WrapIsMod
<1>3. NextIn \in 0 .. (N - 1) /\ NextOut \in 0 .. (N - 1)
  BY <1>1, Names DEF NextIn, NextOut, Wrap
<1> QED
  BY <1>2, <1>3 DEF NextIn, NextOut, N

(***************************************************************************)
(* The producer only writes to a place whose item has been consumed, for   *)
(* every item_num.                                                         *)
(***************************************************************************)
THEOREM ProducerOverwritesNothing == CalmPCSpec => []NoOverwrite
<1>1. PCInv => NoOverwrite
  <2> SUFFICES ASSUME PCInv, Inside(Producer), pc[Producer] = "put"
               PROVE  items[in % item_num] # 1
    BY DEF NoOverwrite
  <2>1. in % item_num = NextIn /\ NextIn \in 0 .. (N - 1) /\ NextOut \in 0 .. (N - 1)
    BY RingSlots
  <2>2. Count \in 0 .. (N - 1)
    BY CountBounds, Names DEF Inside
  <2>3. NextIn = Wrap(NextOut + Count)
    BY DEF PCInv, RingOK
  <2>4. ~(Offset(NextOut, NextIn) < Count)
    BY <2>1, <2>2, <2>3, RingPut
  <2>5. items[NextIn] = One(Offset(NextOut, NextIn) < Count)
    BY <2>1 DEF PCInv, RingOK
  <2> QED
    BY <2>1, <2>4, <2>5 DEF One
<1> QED
  BY <1>1, CalmPCInv, PTL

\* The consumer only takes an item that the producer has put there.
THEOREM ConsumerFindsAnItem == CalmPCSpec => []NoUnderflow
<1>1. PCInv => NoUnderflow
  <2> SUFFICES ASSUME PCInv, Inside(Consumer), pc[Consumer] = "take"
               PROVE  items[out % item_num] = 1
    BY DEF NoUnderflow
  <2>1. out % item_num = NextOut /\ NextOut \in 0 .. (N - 1)
    BY RingSlots
  <2>2. Count \in 1 .. N
    BY CountBounds, Names DEF Inside
  <2>3. Offset(NextOut, NextOut) < Count
    BY <2>1, <2>2, RingTake
  <2>4. items[NextOut] = One(Offset(NextOut, NextOut) < Count)
    BY <2>1 DEF PCInv, RingOK
  <2> QED
    BY <2>1, <2>3, <2>4 DEF One
<1> QED
  BY <1>1, CalmPCInv, PTL

(***************************************************************************)
(* Producer and consumer never wait at the same time: whoever waits for    *)
(* the mutex has the other one inside, and a ring of at least one place is *)
(* never both full and empty.                                              *)
(***************************************************************************)
THEOREM ThreadsNeverDeadlock == CalmPCSpec => []NoDeadlock
<1>1. PCInv => NoDeadlock
  <2> SUFFICES ASSUME PCInv, block_sem[Producer] # NoSem, block_sem[Consumer] # NoSem
               PROVE  FALSE
    BY DEF NoDeadlock
  <2>1. /\ \/ block_sem[Producer] = empty /\ pc[Producer] = "lock"
           \/ block_sem[Producer] = mutex /\ pc[Producer] = "put"
        /\ \/ block_sem[Consumer] = full /\ pc[Consumer] = "lock"
           \/ block_sem[Consumer] = mutex /\ pc[Consumer] = "take"
    BY Names DEF PCInv, ThreadsOK
  <2>2. CASE block_sem[Producer] = mutex \/ block_sem[Consumer] = mutex
    <3>1. kind[mutex] = "mutex"
      BY <2>1, <2>2, Names DEF PCInv, KindsOK, MutexSum
    <3>2. Waiters(mutex) # {}
      BY <2>2, Names DEF Waiters
    <3>3. block_proc_num[mutex] # 0
      BY <3>2, Names, NoWaiters DEF PCInv, Calm, Inv, QueuesCounted
    <3>4. value[mutex] = 0
      BY <3>1, <3>3, Names DEF PCInv, Calm, Inv, TypeOK, CountsOK, MutexHandover
    <3> QED
      BY <3>1, <3>4 DEF PCInv, MutexSum, Inside, One
  <2>3. CASE block_sem[Producer] = empty /\ block_sem[Consumer] = full
    <3>1. kind[empty] # "none"
      BY <2>1, <2>3, Names DEF PCInv, RoomSum
    <3>2. Waiters(empty) \subseteq {Producer} /\ Waiters(full) \subseteq {Consumer}
      BY Names DEF PCInv, ThreadsOK, Waiters
    <3>3. value[empty] = -1
      BY <2>3, <3>1, <3>2, Names, OneWaiter DEF PCInv, KindsOK
    <3>4. kind[full] = "counting"
      <4>1. CASE kind[full] = "none"
        <5>1. block_proc_num[full] = 0
          BY <4>1, Names DEF PCInv, Calm, Inv, CountsOK
        <5>2. Waiters(full) = {}
          BY <5>1, Names, NoWaiters DEF PCInv, Calm, Inv, QueuesCounted
        <5> QED
          BY <2>3, <5>2, Names DEF Waiters
      <4> QED
        BY <4>1 DEF PCInv, KindsOK
    <3>5. value[full] = -1
      BY <2>3, <3>2, <3>4, Names, OneWaiter DEF PCInv
    <3> QED
      BY <2>1, <2>3, <3>1, <3>3, <3>5, Names DEF PCInv, RoomSum, One
  <2> QED
    BY <2>1, <2>2, <2>3
<1> QED
  BY <1>1, CalmPCInv, PTL
=============================================================================
