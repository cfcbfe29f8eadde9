----------------------------- MODULE FileTable -----------------------------
(***************************************************************************)
(* The system's table of open files (fcb_table of                          *)
(* kernel/src/file_system/fs.c) and the descriptors of the processes       *)
(* (PCB.fcb): open, close, and what fork, create_thread and exit do to     *)
(* them.  All of them run with interrupts closed, one action each.  read,  *)
(* write and lseek only move the offset of an FCB; FileIO has them.        *)
(*                                                                         *)
(* granted and upset are history variables: what a program thinks its      *)
(* descriptors are, from the values open returned, and the events the      *)
(* reference counts do not allow for.                                      *)
(***************************************************************************)
EXTENDS Integers, FiniteSets

CONSTANTS
  NR_FILE,    \* entries of fcb_table, and descriptors of a process: 32
  Procs,      \* PCBs, a set 1 .. n; 1 is the game
  Files,      \* the files of the directory; their first blocks differ
  Absent,     \* a name that is not in the directory
  Modes,      \* s_r, s_w, s_rw
  FILE_OPEN,  \* the number of the system call: 14
  MaxCount    \* bound on |FCB.count|

Index   == 0 .. (NR_FILE - 1)
None    == -1
s_close == "s_close"
NoFile  == "no file"

ASSUME FileAssumption ==
  /\ NR_FILE \in Nat
  /\ FILE_OPEN \in Index
  /\ Procs \subseteq Nat /\ 1 \in Procs /\ IsFiniteSet(Procs)
  /\ Absent \notin Files
  /\ s_close \notin Modes
  /\ MaxCount \in Nat \ {0}

VARIABLES
  f_state,  \* FCB.f_state: the mode the file is open in, or s_close
  inode,    \* FCB.inode: the file
  count,    \* FCB.count
  fcb,      \* PCB.fcb: the FCB of each descriptor, or None
  live,     \* the PCBs in use
  granted,  \* history: the file and mode a program got each descriptor for
  upset     \* history: unforeseen events so far

vars == <<f_state, inode, count, fcb, live, granted, upset>>

Handle == (Files \X Modes) \cup {<<>>}
Upset  == {"again", "fork", "full"}

TypeOK ==
  /\ f_state \in [Index -> Modes \cup {s_close}]
  /\ inode \in [Index -> Files \cup {NoFile}]
  /\ count \in [Index -> Int]
  /\ fcb \in [Procs -> [Index -> Index \cup {None}]]
  /\ live \subseteq Procs
  /\ granted \in [Procs -> [Index -> Handle]]
  /\ upset \subseteq Upset

Nothing == [p \in Procs |-> [d \in Index |-> <<>>]]

\* file_init and pcb_init.
Init ==
  /\ f_state = [i \in Index |-> s_close]
  /\ inode = [i \in Index |-> NoFile]
  /\ count = [i \in Index |-> 0]
  /\ fcb = [p \in Procs |-> [d \in Index |-> None]]
  /\ live = {1}
  /\ granted = Nothing
  /\ upset = {}

Lowest(S, x) == x \in S /\ \A y \in S : x <= y

\* mutant: open does not look for the file in memory.
LoadedNever(f, m) == {}

\* The FCBs open already finds for file f in mode m.
Loaded(f, m) == {i \in Index : f_state[i] = m /\ inode[i] = f}

Refs(table, i) == {pd \in Procs \X Index : table[pd[1]][pd[2]] = i}

\* The history of the descriptors is kept until something unforeseen happens.
Record(history) == granted' = IF upset' = {} THEN history ELSE Nothing

\* open returned r: from now on the program uses r for file f.
Grant(p, r, f, m) == Record([granted EXCEPT ![p][r] = <<f, m>>])

(***************************************************************************)
(* The second half of open: the lowest free descriptor of p is given to    *)
(* FCB i, whose count is cnt so far, and returned.  When there is none,    *)
(* eax still holds the number of the system call.                          *)
(***************************************************************************)
TakeDescriptor(p, f, m, i, cnt) ==
  LET unused == {d \in Index : fcb[p][d] = None}
  IN  \/ \E d \in unused :
           /\ Lowest(unused, d)
           /\ cnt < MaxCount
           /\ fcb' = [fcb EXCEPT ![p][d] = i]
           /\ count' = [count EXCEPT ![i] = cnt + 1]
           /\ UNCHANGED upset
           /\ Grant(p, d, f, m)
      \/ /\ unused = {}
         /\ count' = [count EXCEPT ![i] = cnt]
         /\ upset' = upset \cup {"full"}
         /\ Grant(p, FILE_OPEN, f, m)
         /\ UNCHANGED fcb

\* The file is not in memory: file_alloc finds an FCB for it, count 0 whatever
\* it was, and open counts 1.
OpenNew(p, f, m) ==
  /\ Loaded(f, m) = {}
  /\ \E i \in Index :
       /\ Lowest({j \in Index : f_state[j] = s_close}, i)
       /\ f_state' = [f_state EXCEPT ![i] = m]
       /\ inode' = [inode EXCEPT ![i] = f]
       /\ TakeDescriptor(p, f, m, i, 1)

(***************************************************************************)
(* file_alloc returns -1: open writes to fcb_table[-1], the memory before  *)
(* the table, gives the lowest free descriptor the value -1 (it stays      *)
(* free), and returns it.                                                  *)
(***************************************************************************)
OpenFull(p, f, m) ==
  LET unused == {d \in Index : fcb[p][d] = None}
  IN  /\ Loaded(f, m) = {}
      /\ \A i \in Index : f_state[i] # s_close
      /\ upset' = upset \cup {"full"}
      /\ \E r \in Index :
           /\ IF unused = {} THEN r = FILE_OPEN ELSE Lowest(unused, r)
           /\ Grant(p, r, f, m)
      /\ UNCHANGED <<f_state, inode, count, fcb>>

\* The file is in memory and this process has not opened it.
OpenLoaded(p, f, m) ==
  /\ \E i \in Index :
       /\ Lowest(Loaded(f, m), i)
       /\ \A d \in Index : fcb[p][d] # i
       /\ TakeDescriptor(p, f, m, i, count[i])
  /\ UNCHANGED <<f_state, inode>>

(***************************************************************************)
(* This process has opened it: open returns the index of the FCB, which is *)
(* the descriptor only by coincidence.                                     *)
(***************************************************************************)
OpenAgain(p, f, m) ==
  /\ \E i \in Index :
       /\ Lowest(Loaded(f, m), i)
       /\ \E d \in Index : fcb[p][d] = i
       /\ upset' = IF fcb[p][i] = i THEN upset ELSE upset \cup {"again"}
       /\ Grant(p, i, f, m)
  /\ UNCHANGED <<f_state, inode, count, fcb>>

Open(p, f, m) ==
  /\ p \in live
  /\ \/ f = Absent /\ UNCHANGED <<f_state, inode, count, fcb, granted, upset>>
     \/ f \in Files /\ (\/ OpenNew(p, f, m) \/ OpenFull(p, f, m)
                        \/ OpenLoaded(p, f, m) \/ OpenAgain(p, f, m))
  /\ UNCHANGED live

\* mutant: close frees the FCB whatever its count.
CloseFrees(p, d) ==
  LET i == fcb[p][d]
  IN  /\ p \in live
      /\ i # None
      /\ count[i] > -MaxCount
      /\ fcb' = [fcb EXCEPT ![p][d] = None]
      /\ count' = [count EXCEPT ![i] = @ - 1]
      /\ f_state' = [f_state EXCEPT ![i] = s_close]
      /\ UNCHANGED <<inode, live, upset>>
      /\ Record([granted EXCEPT ![p][d] = <<>>])

\* close: the FCB becomes free when its count drops to 0.
Close(p, d) ==
  LET i == fcb[p][d]
  IN  /\ p \in live
      /\ i # None
      /\ count[i] > -MaxCount
      /\ fcb' = [fcb EXCEPT ![p][d] = None]
      /\ count' = [count EXCEPT ![i] = @ - 1]
      /\ f_state' = IF count'[i] = 0 THEN [f_state EXCEPT ![i] = s_close]
                                     ELSE f_state
      /\ UNCHANGED <<inode, live, upset>>
      /\ Record([granted EXCEPT ![p][d] = <<>>])

\* close of a free descriptor returns -1.
CloseFails(p, d) == p \in live /\ fcb[p][d] = None /\ UNCHANGED vars

(***************************************************************************)
(* fork: the child's descriptors are a copy of the caller's, and no count  *)
(* is touched.  It goes unnoticed as long as no FCB has more descriptors   *)
(* than its count, and open counts the first one twice.                    *)
(***************************************************************************)
Fork(p) ==
  /\ p \in live
  /\ \E c \in Procs :
       /\ Lowest(Procs \ live, c)
       /\ live' = live \cup {c}
       /\ fcb' = [fcb EXCEPT ![c] = fcb[p]]
       /\ upset' = IF \E i \in Index : Cardinality(Refs(fcb', i)) > count[i]
                   THEN upset \cup {"fork"} ELSE upset
       /\ Record([granted EXCEPT ![c] = granted[p]])
  /\ UNCHANGED <<f_state, inode, count>>

\* create_thread leaves the descriptors of the PCB as its last user left them.
CreateThread(p) ==
  /\ p \in live
  /\ \E c \in Procs : Lowest(Procs \ live, c) /\ live' = live \cup {c}
  /\ UNCHANGED <<f_state, inode, count, fcb, granted, upset>>

\* mutant: exit decrements the counts and leaves the descriptors.
ExitUncounts(p) ==
  /\ p \in live
  /\ live' = live \ {p}
  /\ count' = [i \in Index |-> IF \E d \in Index : fcb[p][d] = i
                              THEN count[i] - 1 ELSE count[i]]
  /\ UNCHANGED <<f_state, inode, fcb, upset>>
  /\ Record([granted EXCEPT ![p] = [d \in Index |-> <<>>]])

\* exit closes nothing.
Exit(p) ==
  /\ p \in live
  /\ live' = live \ {p}
  /\ UNCHANGED <<f_state, inode, count, fcb, upset>>
  /\ Record([granted EXCEPT ![p] = [d \in Index |-> <<>>]])

\* Everybody has left: the idle process opens no files.
Quiet == live = {} /\ UNCHANGED vars

Next ==
  \/ \E p \in Procs :
       \/ \E f \in Files \cup {Absent}, m \in Modes : Open(p, f, m)
       \/ \E d \in Index : Close(p, d) \/ CloseFails(p, d)
       \/ Fork(p)
       \/ CreateThread(p)
       \/ Exit(p)
  \/ Quiet

Spec == Init /\ [][Next]_vars
-----------------------------------------------------------------------------
(***************************************************************************)
(* A descriptor that open returned stays the descriptor of that file, in   *)
(* that mode, until its owner closes it, whatever the other processes open *)
(* and close in between; except that it may never have been one (a second  *)
(* open of the same file, full tables), and that a second fork lets the    *)
(* FCB go too early.                                                       *)
(***************************************************************************)
DescriptorNamesFile ==
  upset = {} =>
    \A p \in live, d \in Index : granted[p][d] # <<>> =>
      LET i == fcb[p][d]
      IN  /\ i # None
          /\ granted[p][d] = <<inode[i], f_state[i]>>

(***************************************************************************)
(* No descriptor outlives its FCB: not those of exited processes, which    *)
(* create_thread revives, and not even those a fork has copied while the   *)
(* count covers them.                                                      *)
(***************************************************************************)
NoDangling ==
  "fork" \notin upset =>
    \A p \in Procs, d \in Index : fcb[p][d] # None =>
      /\ f_state[fcb[p][d]] # s_close
      /\ Cardinality(Refs(fcb, fcb[p][d])) <= count[fcb[p][d]]

\* Processes that open a file in the same mode share one FCB, and so one
\* offset: the file is never open twice in one mode.
OneFcbPerFile ==
  \A i, j \in Index :
    i # j /\ f_state[i] = f_state[j] /\ f_state[i] # s_close =>
      inode[i] # inode[j]
=============================================================================
