------------------------- MODULE DijkstraSemaphore -------------------------
(***************************************************************************)
(* What the semaphores promise: permits that are taken and given back, and *)
(* processes that wait only while there is none.  A permit given back      *)
(* while somebody waits goes straight to one of those waiting; a mutex     *)
(* never holds more than one permit.                                       *)
(***************************************************************************)
EXTENDS Integers

CONSTANTS Procs, Sems

VARIABLES
  kind,      \* "none" until the semaphore exists, then "counting" or "mutex"
  permits,   \* free permits
  waiting    \* the processes waiting for a permit

vars == <<kind, permits, waiting>>

Init ==
  /\ kind = [s \in Sems |-> "none"]
  /\ permits = [s \in Sems |-> 0]
  /\ waiting = [s \in Sems |-> {}]

\* A mutex is born with one permit, a counting semaphore with any number.
Create(s) ==
  /\ kind[s] = "none"
  /\ \/ /\ kind' = [kind EXCEPT ![s] = "mutex"]
        /\ permits' = [permits EXCEPT ![s] = 1]
     \/ /\ kind' = [kind EXCEPT ![s] = "counting"]
        /\ permits'[s] \in Nat
        /\ permits' = [permits EXCEPT ![s] = permits'[s]]
  /\ UNCHANGED waiting

Take(s) ==
  /\ permits[s] > 0
  /\ permits' = [permits EXCEPT ![s] = @ - 1]
  /\ UNCHANGED <<kind, waiting>>

Queue(s, p) ==
  /\ kind[s] # "none"
  /\ permits[s] = 0
  /\ \A t \in Sems : p \notin waiting[t]
  /\ waiting' = [waiting EXCEPT ![s] = @ \cup {p}]
  /\ UNCHANGED <<kind, permits>>

Give(s) ==
  /\ kind[s] # "none"
  /\ waiting[s] = {}
  /\ permits' = [permits EXCEPT ![s] = IF kind[s] = "mutex" THEN 1 ELSE @ + 1]
  /\ UNCHANGED <<kind, waiting>>

HandOver(s, p) ==
  /\ p \in waiting[s]
  /\ waiting' = [waiting EXCEPT ![s] = @ \ {p}]
  /\ UNCHANGED <<kind, permits>>

Next ==
  \E s \in Sems :
    \/ Create(s)
    \/ Take(s)
    \/ Give(s)
    \/ \E p \in Procs : Queue(s, p) \/ HandOver(s, p)

Spec == Init /\ [][Next]_vars
=============================================================================
