-------------------------- MODULE ProducerConsumer --------------------------
(***************************************************************************)
(* game/producer_consumer/producer_consumer.c on the kernel's semaphores:  *)
(* the main thread initialises them and creates a producer and a consumer, *)
(* which share the ring `items'.  Between two system calls a thread may be *)
(* preempted at any instruction; the loops are cut where the shared data   *)
(* change.  A thread's pc moves on when it makes the call, so a thread     *)
(* waiting in sem_wait already has the pc it will return to.               *)
(***************************************************************************)
EXTENDS Semaphore

CONSTANTS
  item_num,             \* slots of the ring: 10
  mutex, empty, full    \* the three sem_t of the program

ASSUME ProdConsAssumption ==
  /\ item_num \in Nat \ {0}
  /\ Sems = {mutex, empty, full}
  /\ mutex # empty /\ empty # full /\ mutex # full
  /\ MaxProcs >= 4
  /\ item_num < MaxValue

VARIABLES pc, in, out, items
progVars == <<pc, in, out, items>>
pcVars == <<status, time_count, sleep_time, current, cr3, cpu, tf, block_sem,
            kind, value, block_proc_num, upset, halted, pc, in, out, items>>

\* get_pcb() gives the first thread created slot 2 and the second slot 3.
Producer == 2
Consumer == 3

PCTypeOK ==
  /\ TypeOK
  /\ pc \in [{Game, Producer, Consumer} ->
       {"init_mutex", "init_empty", "init_full", "thread_1", "thread_2", "spin",
        "wait_empty", "wait_full", "lock", "put", "take", "advance", "unlock",
        "post_full", "post_empty"}]
  /\ in \in 0 .. item_num
  /\ out \in 0 .. item_num
  /\ items \in [0 .. (item_num - 1) -> Int]

PCInit ==
  /\ Init
  /\ pc = [t \in {Game, Producer, Consumer} |->
             CASE t = Game     -> "init_mutex"
               [] t = Producer -> "wait_empty"
               [] t = Consumer -> "wait_full"]
  /\ in = 0
  /\ out = 0
  /\ items = [i \in 0 .. (item_num - 1) |-> 0]

\* Thread t makes system call A and moves from pc `from' to pc `to'.
Call(t, from, A, to) ==
  /\ current = t
  /\ pc[t] = from
  /\ A
  /\ pc' = [pc EXCEPT ![t] = to]
  /\ UNCHANGED <<in, out, items>>

\* Thread t executes user code, which no system call interrupts.
Compute(t, from, to) ==
  /\ ~halted
  /\ cpu = "user"
  /\ current = t
  /\ pc[t] = from
  /\ pc' = [pc EXCEPT ![t] = to]
  /\ UNCHANGED vars

SemWait(s) == SemWaitPass(s) \/ SemWaitBlock(s)

Main ==
  \/ Call(Game, "init_mutex", SemInit(mutex, 1, TRUE), "init_empty")
  \/ Call(Game, "init_empty", SemInit(empty, item_num, FALSE), "init_full")
  \/ Call(Game, "init_full", SemInit(full, 0, FALSE), "thread_1")
  \/ Call(Game, "thread_1", CreateThread, "thread_2")
  \/ Call(Game, "thread_2", CreateThread, "spin")

Put ==
  /\ Compute(Producer, "put", "advance")
  /\ items' = [items EXCEPT ![in % item_num] = 1]
  /\ in' = in % item_num
  /\ UNCHANGED out

AdvanceIn ==
  /\ Compute(Producer, "advance", "unlock")
  /\ in' = in + 1
  /\ UNCHANGED <<out, items>>

\* mutant: the producer locks before it waits for room.
ProducerLocksFirst ==
  \/ Call(Producer, "wait_empty", SemWait(mutex), "lock")
  \/ Call(Producer, "lock", SemWait(empty), "put")
  \/ Put
  \/ AdvanceIn
  \/ Call(Producer, "unlock", SemPost(mutex), "post_full")
  \/ Call(Producer, "post_full", SemPost(full), "wait_empty")

ProducerStep ==
  \/ Call(Producer, "wait_empty", SemWait(empty), "lock")
  \/ Call(Producer, "lock", SemWait(mutex), "put")
  \/ Put
  \/ AdvanceIn
  \/ Call(Producer, "unlock", SemPost(mutex), "post_full")
  \/ Call(Producer, "post_full", SemPost(full), "wait_empty")

Take ==
  /\ Compute(Consumer, "take", "advance")
  /\ items' = [items EXCEPT ![out % item_num] = @ - 1]
  /\ out' = out % item_num
  /\ UNCHANGED in

AdvanceOut ==
  /\ Compute(Consumer, "advance", "unlock")
  /\ out' = out + 1
  /\ UNCHANGED <<in, items>>

ConsumerStep ==
  \/ Call(Consumer, "wait_full", SemWait(full), "lock")
  \/ Call(Consumer, "lock", SemWait(mutex), "take")
  \/ Take
  \/ AdvanceOut
  \/ Call(Consumer, "unlock", SemPost(mutex), "post_empty")
  \/ Call(Consumer, "post_empty", SemPost(empty), "wait_full")

\* The rest of the kernel.  Interrupts in the windows of the semaphore calls
\* are left to Semaphore: here they arrive in user code only.
Kernel ==
  /\ PreSched \/ Return \/ Timer \/ DeviceIRQ
  /\ "window" \notin upset'
  /\ UNCHANGED progVars

PCNext == Main \/ ProducerStep \/ ConsumerStep \/ Kernel

PCSpec == PCInit /\ [][PCNext]_pcVars

\* The behaviours in which wakeup() ends nobody's sem_wait either.
CalmPCSpec == PCInit /\ [][PCNext /\ upset' = {}]_pcVars
-----------------------------------------------------------------------------
\* Thread t has come back from the sem_wait(&mutex) of its loop and has not
\* called the sem_post yet.
Inside(t) ==
  /\ pc[t] \in {"put", "take", "advance", "unlock"}
  /\ block_sem[t] = NoSem

\* The critical sections of producer and consumer never overlap.
MutualExclusion == ~(Inside(Producer) /\ Inside(Consumer))

(***************************************************************************)
(* The producer never writes over an item that has not been consumed: the  *)
(* comment of producer_consumer.c:11, "if the items is full, 'empty'       *)
(* blocks producer".                                                       *)
(***************************************************************************)
NoOverwrite ==
  Inside(Producer) /\ pc[Producer] = "put" => items[in % item_num] # 1

\* The consumer only takes an item that is there.
NoUnderflow ==
  Inside(Consumer) /\ pc[Consumer] = "take" => items[out % item_num] = 1

\* Producer and consumer never wait at the same time.
NoDeadlock == block_sem[Producer] = NoSem \/ block_sem[Consumer] = NoSem
=============================================================================
