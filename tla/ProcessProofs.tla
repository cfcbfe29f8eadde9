--------------------------- MODULE ProcessProofs ---------------------------
(***************************************************************************)
(* Proofs about Process for every size of the process table, slice,        *)
(* sleep time and integer width.                                           *)
(***************************************************************************)
EXTENDS Process, TLAPS, FiniteSetTheorems

(***************************************************************************)
(* The inductive invariant.  AddressSpaceLoaded is not inductive alone:    *)
(* schedule() leaves CR3 alone when it falls back on slot 0, which is      *)
(* harmless only because idle is Ready whenever another process is current *)
(* (IdleRunnable), so the fallback is taken by idle itself; that in turn   *)
(* needs the scan to reach slot 0, that is, current not to be the last     *)
(* slot (SlotsBelowLimit).                                                 *)
(***************************************************************************)
Inv ==
  /\ TypeOK
  /\ OneRunning
  /\ IdleRunnable
  /\ AddressSpaceLoaded
  /\ SlotsBelowLimit

\* get_pcb(): with fewer than MaxProcs PCBs in use the first free one is
\* below MaxProcs, by the pigeonhole principle.
LEMMA FirstFreeIsLow ==
  ASSUME PcbTypeOK, NEW i \in Slots, IsFirstFree(i), Cardinality(Live) < MaxProcs
  PROVE  i < MaxProcs
<1> USE PcbAssumption
<1> SUFFICES ASSUME ~(i < MaxProcs) PROVE FALSE
  OBVIOUS
<1> DEFINE low == 0 .. (MaxProcs - 1)
<1>1. low \subseteq Live
  BY DEF low, Live, IsFirstFree, Slots, PcbTypeOK
<1>2. IsFiniteSet(Slots)
  BY FS_Interval DEF Slots
<1>3. IsFiniteSet(Live)
  BY <1>2, FS_Subset DEF Live
<1>4. Cardinality(low) = MaxProcs
  BY FS_Interval DEF low
<1>5. Cardinality(low) <= Cardinality(Live)
  BY <1>1, <1>3, FS_Subset
<1>6. Cardinality(Live) \in Nat
  BY <1>3, FS_CardinalityType
<1> QED
  BY <1>4, <1>5, <1>6

(***************************************************************************)
(* What schedule() establishes from a table in which nobody is Running,    *)
(* idle is Ready and every PCB in use is below MaxProcs.                   *)
(***************************************************************************)
LEMMA ScheduleStep ==
  ASSUME NEW st \in [Slots -> Status],
         current \in Slots, current < MaxProcs, cr3 = current,
         st[Idle] = Ready,
         \A p \in Slots : st[p] # Running,
         \A p \in Slots : st[p] # Free => p < MaxProcs,
         Schedule(st)
  PROVE  /\ status' \in [Slots -> Status]
         /\ current' \in Slots
         /\ cr3' \in Slots
         /\ OneRunning'
         /\ IdleRunnable'
         /\ AddressSpaceLoaded'
         /\ SlotsBelowLimit'
<1> USE PcbAssumption DEF Status, Free, New, Ready, Running, Blocked
<1> DEFINE ready == {i \in Scanned : st[i] = Ready}
<1>1. Idle \in Slots /\ Scanned = Slots \ {current}
  BY DEF Scanned, Slots, Idle
<1>2. CASE ready = {} /\ current' = Idle /\ status' = st /\ cr3' = cr3
  <2>1. current = Idle
    BY <1>1, <1>2
  <2> QED
    BY <1>1, <1>2, <2>1
    DEF OneRunning, IdleRunnable, AddressSpaceLoaded, SlotsBelowLimit, Live
<1>3. CASE \E i \in ready : /\ current' = i
                            /\ status' = [st EXCEPT ![i] = Running]
                            /\ cr3' = i
  <2>1. PICK i \in ready : /\ current' = i
                           /\ status' = [st EXCEPT ![i] = Running]
                           /\ cr3' = i
    BY <1>3
  <2>2. i \in Slots /\ st[i] = Ready /\ i < MaxProcs
    BY <1>1, <2>1
  <2>3. status' \in [Slots -> Status] /\ current' \in Slots /\ cr3' \in Slots
    BY <2>1, <2>2
  <2>4. OneRunning' /\ IdleRunnable' /\ AddressSpaceLoaded'
    BY <1>1, <2>1, <2>2 DEF OneRunning, IdleRunnable, AddressSpaceLoaded
  <2>5. SlotsBelowLimit'
    BY <2>1, <2>2 DEF SlotsBelowLimit, Live
  <2> QED
    BY <2>3, <2>4, <2>5
<1> QED
  BY <1>2, <1>3 DEF Schedule

\* The state in which init_cond opens interrupts satisfies the invariant.
LEMMA InitInv == Init => Inv
<1> USE PcbAssumption DEF Status, Free, New, Ready, Running, Blocked, Idle, Game
<1> SUFFICES ASSUME Init PROVE Inv
  OBVIOUS
<1>1. Idle \in Slots /\ Game \in Slots /\ 0 \in CInt /\ Sleeptime \in CInt
  BY DEF Slots, CInt
<1>2. TypeOK
  <2>1. status \in [Slots -> Status]
    BY DEF Init, PcbInit
  <2>2. time_count \in [Slots -> 0 .. SLICE]
    BY DEF Init, PcbInit
  <2>3. sleep_time \in [Slots -> CInt]
    BY <1>1 DEF Init, PcbInit
  <2>4. /\ current \in Slots /\ cr3 \in Slots
        /\ shared \subseteq Slots /\ halted \in BOOLEAN
    BY <1>1 DEF Init, PcbInit
  <2> QED
    BY <2>1, <2>2, <2>3, <2>4 DEF TypeOK, PcbTypeOK
<1>3. OneRunning /\ IdleRunnable /\ AddressSpaceLoaded
  BY <1>1 DEF Init, PcbInit, OneRunning, IdleRunnable, AddressSpaceLoaded
<1>4. SlotsBelowLimit
  BY <1>1 DEF Init, PcbInit, SlotsBelowLimit, Live
<1> QED
  BY <1>2, <1>3, <1>4 DEF Inv

\* The C decrement stays a C int.
LEMMA DecType == ASSUME NEW x \in CInt PROVE Dec(x) \in CInt
  BY PcbAssumption DEF Dec, CInt

\* A new PCB gets its counters within their types.
LEMMA NewCountersType ==
  ASSUME PcbTypeOK, NEW i \in Slots, NewCounters(i)
  PROVE  time_count' \in [Slots -> 0 .. SLICE] /\ sleep_time' \in [Slots -> CInt]
<1>1. 0 \in 0 .. SLICE /\ Sleeptime \in CInt
  BY PcbAssumption DEF CInt
<1> QED
  BY <1>1 DEF PcbTypeOK, NewCounters

\* Every handler preserves the inductive invariant.
LEMMA NextInv == Inv /\ [Next]_vars => Inv'
<1> USE PcbAssumption DEF Status, Free, New, Ready, Running, Blocked
<1> SUFFICES ASSUME Inv, [Next]_vars PROVE Inv'
  OBVIOUS
<1>0. /\ PcbTypeOK /\ TypeOK /\ Idle \in Slots
      /\ current < MaxProcs /\ cr3 = current
  BY DEF Inv, TypeOK, PcbTypeOK, AddressSpaceLoaded, SlotsBelowLimit, Live,
         Slots, Idle
<1>1. CASE Fork
  <2>1. PICK i \in Slots :
           /\ IsFirstFree(i) /\ NewCounters(i)
           /\ Schedule(Created([status EXCEPT ![current] = Ready], i))
    BY <1>1 DEF Fork
  <2> DEFINE st == Created([status EXCEPT ![current] = Ready], i)
  <2>2. i < MaxProcs
    BY <1>0, <1>1, <2>1, FirstFreeIsLow DEF Fork
  <2>3. /\ current # Idle /\ status[Idle] = Ready
        /\ \A p \in Slots : status[p] = Running => p = current
        /\ \A p \in Slots : status[p] # Free => p < MaxProcs
    BY <1>1 DEF Fork, UserRuns, Inv, IdleRunnable, OneRunning, SlotsBelowLimit,
                Live
  <2>4. /\ st \in [Slots -> Status]
        /\ st[Idle] = Ready
        /\ \A p \in Slots : st[p] # Running
        /\ \A p \in Slots : st[p] # Free => p < MaxProcs
    BY <1>0, <2>2, <2>3 DEF Created, PcbTypeOK
  <2> HIDE DEF st
  <2>5. /\ status' \in [Slots -> Status] /\ current' \in Slots /\ cr3' \in Slots
        /\ OneRunning' /\ IdleRunnable' /\ AddressSpaceLoaded' /\ SlotsBelowLimit'
    BY <1>0, <2>1, <2>4, ScheduleStep DEF st, PcbTypeOK
  <2> QED
    BY <1>0, <1>1, <2>1, <2>5, NewCountersType DEF Fork, Inv, TypeOK, PcbTypeOK
<1>2. CASE CreateThread
  <2>1. PICK i \in Slots :
           /\ IsFirstFree(i) /\ NewCounters(i)
           /\ status' = Created(status, i)
           /\ shared' = shared \cup {current, i}
    BY <1>2 DEF CreateThread
  <2>2. i < MaxProcs /\ i # current /\ i # Idle
    BY <1>0, <1>2, <2>1, FirstFreeIsLow
    DEF CreateThread, IsFirstFree, Inv, AddressSpaceLoaded, IdleRunnable
  <2>3. TypeOK'
    BY <1>0, <1>2, <2>1, NewCountersType
    DEF CreateThread, TypeOK, PcbTypeOK, Created
  <2>4. OneRunning' /\ IdleRunnable' /\ AddressSpaceLoaded' /\ SlotsBelowLimit'
    BY <1>0, <1>2, <2>1, <2>2
    DEF CreateThread, Created, PcbTypeOK, Inv, OneRunning, IdleRunnable,
        AddressSpaceLoaded, SlotsBelowLimit, Live
  <2> QED
    BY <2>3, <2>4 DEF Inv
<1>3. CASE Exit
  <2> DEFINE st == [status EXCEPT ![current] = Free]
  <2>1. /\ st \in [Slots -> Status]
        /\ st[Idle] = Ready
        /\ \A p \in Slots : st[p] # Running
        /\ \A p \in Slots : st[p] # Free => p < MaxProcs
    BY <1>0, <1>3 DEF Exit, UserRuns, Inv, PcbTypeOK, IdleRunnable, OneRunning,
                      SlotsBelowLimit, Live
  <2> HIDE DEF st
  <2>2. /\ status' \in [Slots -> Status] /\ current' \in Slots /\ cr3' \in Slots
        /\ OneRunning' /\ IdleRunnable' /\ AddressSpaceLoaded' /\ SlotsBelowLimit'
    BY <1>0, <1>3, <2>1, ScheduleStep DEF st, Exit, PcbTypeOK
  <2> QED
    BY <1>0, <1>3, <2>2 DEF Exit, Inv, TypeOK, PcbTypeOK
<1>4. CASE \E t \in SleepArgs : Sleep(t)
  <2>1. PICK t \in SleepArgs : Sleep(t)
    BY <1>4
  <2> DEFINE st == [status EXCEPT ![current] = Blocked]
  <2>2. /\ st \in [Slots -> Status]
        /\ st[Idle] = Ready
        /\ \A p \in Slots : st[p] # Running
        /\ \A p \in Slots : st[p] # Free => p < MaxProcs
    BY <1>0, <2>1 DEF Sleep, UserRuns, Inv, PcbTypeOK, IdleRunnable, OneRunning,
                      SlotsBelowLimit, Live
  <2> HIDE DEF st
  <2>3. /\ status' \in [Slots -> Status] /\ current' \in Slots /\ cr3' \in Slots
        /\ OneRunning' /\ IdleRunnable' /\ AddressSpaceLoaded' /\ SlotsBelowLimit'
    BY <1>0, <2>1, <2>2, ScheduleStep DEF st, Sleep, SleepTable, PcbTypeOK
  <2>4. sleep_time' \in [Slots -> CInt]
    BY <1>0, <2>1, SleepAssumption DEF Sleep, SleepTable, PcbTypeOK
  <2> QED
    BY <1>0, <2>1, <2>3, <2>4 DEF Sleep, SleepTable, Inv, TypeOK, PcbTypeOK
<1>5. CASE Timer
  <2>1. sleep_time' \in [Slots -> CInt]
    <3>1. Countdown \in [Slots -> CInt]
      BY <1>0, DecType DEF Countdown, PcbTypeOK
    <3> QED
      BY <1>5, <3>1 DEF Timer, TimerTable
  <2>2. CASE time_count[current] = SLICE
    <3> DEFINE st == MadeReady(Awoken \cup {current})
    <3>1. /\ st \in [Slots -> Status]
          /\ st[Idle] = Ready
          /\ \A p \in Slots : st[p] # Running
          /\ \A p \in Slots : st[p] # Free => p < MaxProcs
      BY <1>0 DEF MadeReady, Awoken, Inv, PcbTypeOK, IdleRunnable, OneRunning,
                  SlotsBelowLimit, Live
    <3> HIDE DEF st
    <3>2. Schedule(st) /\ time_count' = [time_count EXCEPT ![current] = 0]
      BY <1>5, <2>2 DEF Timer, TimerTable, st
    <3>3. /\ status' \in [Slots -> Status] /\ current' \in Slots /\ cr3' \in Slots
          /\ OneRunning' /\ IdleRunnable' /\ AddressSpaceLoaded' /\ SlotsBelowLimit'
      BY <1>0, <3>1, <3>2, ScheduleStep DEF PcbTypeOK
    <3>4. time_count' \in [Slots -> 0 .. SLICE]
      BY <1>0, <3>2 DEF PcbTypeOK
    <3> QED
      BY <1>0, <1>5, <2>1, <3>3, <3>4 DEF Timer, Inv, TypeOK, PcbTypeOK
  <2>3. CASE time_count[current] # SLICE
    <3>1. /\ time_count' = [time_count EXCEPT ![current] = @ + 1]
          /\ status' = MadeReady(Awoken)
          /\ current' = current /\ cr3' = cr3
      BY <1>5, <2>3 DEF Timer, TimerTable
    <3>2. time_count' \in [Slots -> 0 .. SLICE]
      BY <1>0, <2>3, <3>1 DEF PcbTypeOK
    <3>3. \A p \in Slots : /\ status'[p] \in Status
                           /\ status[p] # Blocked => status'[p] = status[p]
                           /\ status'[p] # status[p] =>
                                status[p] = Blocked /\ status'[p] = Ready
      BY <1>0, <3>1 DEF MadeReady, Awoken, PcbTypeOK
    <3>4. OneRunning' /\ IdleRunnable' /\ AddressSpaceLoaded' /\ SlotsBelowLimit'
      BY <1>0, <3>1, <3>3 DEF Inv, PcbTypeOK, OneRunning, IdleRunnable,
         AddressSpaceLoaded, SlotsBelowLimit, Live
    <3>5. status' \in [Slots -> Status]
      BY <3>1, <3>3 DEF MadeReady
    <3> QED
      BY <1>0, <1>5, <2>1, <3>1, <3>2, <3>4, <3>5
      DEF Timer, Inv, TypeOK, PcbTypeOK
  <2> QED
    BY <2>2, <2>3
<1>6. CASE Exception
  BY <1>6 DEF Exception, Inv, TypeOK, PcbTypeOK, OneRunning, IdleRunnable,
              AddressSpaceLoaded, SlotsBelowLimit, Live
<1>7. CASE Halt \/ UNCHANGED vars
  BY <1>7 DEF Halt, vars, Inv, TypeOK, PcbTypeOK, OneRunning, IdleRunnable,
              AddressSpaceLoaded, SlotsBelowLimit, Live
<1> QED
  BY <1>1, <1>2, <1>3, <1>4, <1>5, <1>6, <1>7 DEF Next

\* So the invariant holds whenever no handler is half-way through.
LEMMA SpecInv == Spec => []Inv
  BY InitInv, NextInv, PTL DEF Spec

\* Type correctness of the process table.
THEOREM TypeCorrect == Spec => []TypeOK
  BY SpecInv, PTL DEF Inv

(***************************************************************************)
(* At most one process is marked Running, and it is `current': after every *)
(* handler, for every size of the table.                                   *)
(***************************************************************************)
THEOREM OneRunningHolds == Spec => []OneRunning
  BY SpecInv, PTL DEF Inv

(***************************************************************************)
(* schedule() never leaves the processor in the address space of a process *)
(* other than `current', nor in one that exit() has released.              *)
(***************************************************************************)
THEOREM AddressSpaceIsLoaded == Spec => []AddressSpaceLoaded
  BY SpecInv, PTL DEF Inv

(***************************************************************************)
(* get_pcb() never falls through its loop and schedule() never reads past  *)
(* pcb_table: slots stay below the number of processes memory can hold.    *)
(***************************************************************************)
THEOREM TableNeverFull == Spec => []SlotsBelowLimit
  BY SpecInv, PTL DEF Inv
=============================================================================
