---------------------------- MODULE MemoryProofs ----------------------------
(***************************************************************************)
(* The safety of Memory and of Boot, for every number of pages and of      *)
(* processes and every size of the machine: the free list stays a list,    *)
(* processes are kept apart, no page is lost; no step of the boot uses an  *)
(* address that is not mapped, and what holds of the pages holds from the  *)
(* boot sector on.                                                         *)
(***************************************************************************)
EXTENDS Boot, FiniteSetTheorems, WellFoundedInduction, TLAPS

\* The tables and the pages of a process, by their places in directory and
\* table; NULL where there is none.
Tab == [p \in Procs |-> [i \in Index |->
          IF cr3[p] = NULL THEN NULL ELSE ent[cr3[p]][i]]]
Leaf == [p \in Procs |-> [i \in Index |-> [j \in Index |->
          IF Tab[p][i] = NULL THEN NULL ELSE ent[Tab[p][i]][j]]]]

(***************************************************************************)
(* The free list, as the stack it is: f lists its pages from the last to   *)
(* the first, and F is the set of them.                                    *)
(***************************************************************************)
Stack(head, link, n, f) ==
  /\ \A k, m \in 1 .. n : f[k] = f[m] => k = m
  /\ head = IF n = 0 THEN NULL ELSE f[n]
  /\ \A k \in 1 .. n : link[f[k]] = IF k = 1 THEN NULL ELSE f[k - 1]

IsList(head, link, F) ==
  \E n \in Nat : \E f \in [1 .. n -> Pages] :
    Stack(head, link, n, f) /\ F = {f[k] : k \in 1 .. n}

(***************************************************************************)
(* A page has one place, except that threads share tables.  d are the      *)
(* directories, T the tables, L the pages in them, tm the teams, and x the *)
(* thread that still has its father's stack.                               *)
(***************************************************************************)
Apart(d, T, L, tm, x) ==
  \A p, q \in Procs :
    /\ d[p] = d[q] /\ d[p] # NULL => p = q
    /\ \A i \in Index : T[p][i] # NULL =>
         /\ T[p][i] # d[q]
         /\ \A k \in Index : T[p][i] = T[q][k] =>
              /\ i = k
              /\ p # q => tm[p] = tm[q] /\ (i # StackDir \/ p \in x \/ q \in x)
    /\ \A i, j \in Index : L[p][i][j] # NULL =>
         /\ L[p][i][j] # d[q]
         /\ \A k \in Index : L[p][i][j] # T[q][k]
         /\ \A k, m \in Index : L[p][i][j] = L[q][k][m] =>
              i = k /\ j = m /\ T[p][i] = T[q][k]

\* The thread that create_thread has not given a stack yet.
Unstacked == IF op.do = "thread" /\ op.j = -1 THEN {op.proc} ELSE {}

\* What the loops of release() have freed: table i, page j of table i.
TableFreed(p, i) == op.do = "release" /\ p = op.proc /\ i < op.i
LeafFreed(p, i, j) ==
  op.do = "release" /\ p = op.proc /\ (i < op.i \/ (i = op.i /\ j < op.j))

\* The processes whose memory is in order: all of them until a thread exits,
\* then only the one that release() is at work on.
Whole(p) == cr3[p] # NULL /\ (torn => op.do = "release" /\ p = op.proc)

(***************************************************************************)
(* Nothing that a process has is free, except for what release() has dealt *)
(* with; and whatever is not free belongs to somebody.                     *)
(***************************************************************************)
InUse(F) ==
  \A p \in Procs : Whole(p) =>
    /\ cr3[p] \notin F
    /\ \A i \in Index : Tab[p][i] # NULL => (Tab[p][i] \in F <=> TableFreed(p, i))
    /\ \A i, j \in Index : Leaf[p][i][j] # NULL =>
         (Leaf[p][i][j] \in F <=> LeafFreed(p, i, j))

Owned(g, d, T, L) ==
  \E p \in Procs :
    \/ g = d[p]
    \/ \E i \in Index : g = T[p][i]
    \/ \E i, j \in Index : g = L[p][i][j]
Covered(F) == \A g \in Pages \ F : Owned(g, cr3, Tab, Leaf)

\* A directory has three entries, a page table NR_PTE, and everybody has a
\* stack once fork is over.
ShapeOK ==
  \A p \in Procs :
    /\ \A i \in Index : Tab[p][i] # NULL => i < 3
    /\ \A i, j \in Index : Leaf[p][i][j] # NULL => j < NR_PTE
    /\ cr3[p] # NULL /\ ~(op.do = "copy" /\ p = op.proc) => Tab[p][StackDir] # NULL

\* A team lives as long as the process that founded it.
TeamsOK ==
  ~torn => \A q \in Procs : cr3[q] # NULL =>
    cr3[team[q]] # NULL /\ team[team[q]] = team[q]

Alone(p) == \A q \in Procs : q # p /\ cr3[q] # NULL => team[q] # team[p]

\* How far copy() has got with the tables of process r.
Copied(r) ==
  \A i \in Index :
    /\ IF i < op.i \/ (i = op.i /\ op.j >= 0)
       THEN Tab[op.proc][i] = NULL <=> Tab[r][i] = NULL
       ELSE Tab[op.proc][i] = NULL
    /\ i = op.i /\ op.j >= 0 =>
         Tab[r][i] # NULL /\ \A k \in Index : k >= op.j => Leaf[op.proc][i][k] = NULL

CopyOK ==
  op.do = "copy" =>
    /\ ~torn /\ Alone(op.proc)
    /\ cr3[op.proc] # NULL /\ op.dir = cr3[op.proc]
    /\ op.i = 3 => op.j = -1
    /\ \E r \in Procs : /\ r # op.proc /\ cr3[r] # NULL /\ op.from = cr3[r]
                        /\ Copied(r)

\* thread_copy() has a stack to make, and the old one is somebody's.
ThreadOK ==
  op.do = "thread" =>
    /\ ~torn
    /\ cr3[op.proc] # NULL /\ op.dir = cr3[op.proc]
    /\ op.j < NR_PTE
    /\ op.j = -1 =>
         \E r \in Procs : r # op.proc /\ \A j \in Index :
           /\ Tab[r][StackDir] = Tab[op.proc][StackDir]
           /\ Leaf[r][StackDir][j] = Leaf[op.proc][StackDir][j]
    /\ op.j >= 0 => \A k \in Index : k >= op.j => Leaf[op.proc][StackDir][k] = NULL

ReleaseOK ==
  op.do = "release" =>
    /\ cr3[op.proc] # NULL /\ op.from = cr3[op.proc]
    /\ op.j >= 0
    /\ op.i = 3 => op.j = 0
    /\ ~torn => Alone(op.proc)

\* The free list and what is not on it.
Listed ==
  \E F \in SUBSET Pages : IsList(page_free_list, pp_link, F) /\ InUse(F) /\ Covered(F)

Inv ==
  /\ TypeOK
  /\ op.do # "boot"
  /\ Apart(cr3, Tab, Leaf, team, Unstacked)
  /\ Listed
  /\ ShapeOK
  /\ TeamsOK
  /\ CopyOK
  /\ ThreadOK
  /\ ReleaseOK
-----------------------------------------------------------------------------
LEMMA PagesAreNumbers ==
  /\ NR_PTE \in Nat \ {0} /\ NPages \in Nat
  /\ NULL = 0 /\ NULL \notin Pages
  /\ Pages = 1 .. (NPages + 3)
  /\ Ram \subseteq Pages
  /\ IsFiniteSet(Pages) /\ Cardinality(Pages) = NPages + 3
  /\ Index \subseteq Nat /\ {0, 1, 2} \subseteq Index /\ 0 .. (NR_PTE - 1) \subseteq Index
<1>1. NR_PTE \in Nat \ {0} /\ NPages \in Nat
  BY MemAssumption
<1>2. Pages = 1 .. (NPages + 3)
  BY <1>1 DEF Pages, Ram, Reserved, updir, vdtable, VMEM
<1>3. IsFiniteSet(1 .. (NPages + 3)) /\ Cardinality(1 .. (NPages + 3)) = NPages + 3
  BY <1>1, FS_Interval
<1> QED
  BY <1>1, <1>2, <1>3 DEF NULL, Ram, Index

\* page_alloc takes the first page off the list.
LEMMA ListPop ==
  ASSUME NEW head, NEW link, NEW link2, NEW F,
         IsList(head, link, F), head # NULL,
         \A h \in Pages \ {head} : link2[h] = link[h]
  PROVE  head \in F /\ head \in Pages /\ IsList(link[head], link2, F \ {head})
<1>1. PICK n \in Nat : \E f \in [1 .. n -> Pages] :
        Stack(head, link, n, f) /\ F = {f[k] : k \in 1 .. n}
  BY DEF IsList
<1>2. PICK f \in [1 .. n -> Pages] : Stack(head, link, n, f) /\ F = {f[k] : k \in 1 .. n}
  BY <1>1
<1>3. n # 0 /\ head = f[n] /\ n \in 1 .. n
  BY <1>2 DEF Stack
<1>4. head \in F /\ head \in Pages
  BY <1>2, <1>3
<1> DEFINE f2 == [k \in 1 .. (n - 1) |-> f[k]]
<1>5. n - 1 \in Nat /\ f2 \in [1 .. (n - 1) -> Pages]
  BY <1>3
<1>6. F \ {head} = {f2[k] : k \in 1 .. (n - 1)}
  <2>1. \A k \in 1 .. (n - 1) : k \in 1 .. n /\ k # n /\ f2[k] = f[k] /\ f[k] # f[n]
    BY <1>2, <1>3 DEF Stack
  <2>2. \A k \in 1 .. n : k # n => k \in 1 .. (n - 1)
    OBVIOUS
  <2> QED
    BY <1>2, <1>3, <2>1, <2>2
<1>7. Stack(link[head], link2, n - 1, f2)
  <2>1. \A k \in 1 .. (n - 1) : k \in 1 .. n /\ f2[k] = f[k] /\ f[k] \in Pages /\ f[k] # head
    BY <1>2, <1>3 DEF Stack
  <2>2. \A k, m \in 1 .. (n - 1) : f2[k] = f2[m] => k = m
    BY <1>2, <2>1 DEF Stack
  <2>3. link[head] = IF n - 1 = 0 THEN NULL ELSE f2[n - 1]
    BY <1>2, <1>3 DEF Stack
  <2>4. \A k \in 1 .. (n - 1) : link2[f2[k]] = IF k = 1 THEN NULL ELSE f2[k - 1]
    <3> SUFFICES ASSUME NEW k \in 1 .. (n - 1)
                 PROVE  link2[f2[k]] = IF k = 1 THEN NULL ELSE f2[k - 1]
      OBVIOUS
    <3>1. link2[f2[k]] = link[f[k]]
      BY <2>1
    <3>2. link[f[k]] = IF k = 1 THEN NULL ELSE f[k - 1]
      BY <1>2, <2>1 DEF Stack
    <3>3. k # 1 => f2[k - 1] = f[k - 1]
      OBVIOUS
    <3> QED
      BY <3>1, <3>2, <3>3
  <2> QED
    BY <2>2, <2>3, <2>4 DEF Stack
<1> QED
  <2> HIDE DEF f2
  <2> QED
    BY <1>4, <1>5, <1>6, <1>7 DEF IsList

\* page_free puts a page in front of it, which must not be on it.
LEMMA ListPush ==
  ASSUME NEW head, NEW link, NEW link2, NEW F, NEW g \in Pages,
         IsList(head, link, F), g \notin F,
         \A h \in Pages \ {g} : link2[h] = link[h],
         link2[g] = head
  PROVE  IsList(g, link2, F \cup {g})
<1>1. PICK n \in Nat : \E f \in [1 .. n -> Pages] :
        Stack(head, link, n, f) /\ F = {f[k] : k \in 1 .. n}
  BY DEF IsList
<1>2. PICK f \in [1 .. n -> Pages] : Stack(head, link, n, f) /\ F = {f[k] : k \in 1 .. n}
  BY <1>1
<1> DEFINE f2 == [k \in 1 .. (n + 1) |-> IF k = n + 1 THEN g ELSE f[k]]
<1>3. n + 1 \in Nat /\ f2 \in [1 .. (n + 1) -> Pages]
  OBVIOUS
<1>4. /\ f2[n + 1] = g
      /\ \A k \in 1 .. n : k \in 1 .. (n + 1) /\ k # n + 1
                           /\ f2[k] = f[k] /\ f[k] \in F /\ f[k] \in Pages /\ f[k] # g
      /\ \A k \in 1 .. (n + 1) : k # n + 1 => k \in 1 .. n
      /\ n + 1 \in 1 .. (n + 1)
  BY <1>2
<1>5. F \cup {g} = {f2[k] : k \in 1 .. (n + 1)}
  <2> HIDE DEF f2
  <2>1. ASSUME NEW h \in F \cup {g} PROVE \E k \in 1 .. (n + 1) : h = f2[k]
    BY <1>2, <1>4
  <2>2. ASSUME NEW k \in 1 .. (n + 1) PROVE f2[k] \in F \cup {g}
    BY <1>4
  <2> QED
    BY <2>1, <2>2
<1>6. Stack(g, link2, n + 1, f2)
  <2> HIDE DEF f2
  <2>1. \A k, m \in 1 .. (n + 1) : f2[k] = f2[m] => k = m
    <3> SUFFICES ASSUME NEW k \in 1 .. (n + 1), NEW m \in 1 .. (n + 1), f2[k] = f2[m]
                 PROVE  k = m
      OBVIOUS
    <3> QED
      BY <1>2, <1>4 DEF Stack
  <2>2. g = IF n + 1 = 0 THEN NULL ELSE f2[n + 1]
    BY <1>4
  <2>3. ASSUME NEW k \in 1 .. (n + 1)
        PROVE  link2[f2[k]] = IF k = 1 THEN NULL ELSE f2[k - 1]
    <3>1. CASE k = n + 1
      <4>1. link2[f2[k]] = head
        BY <1>4, <3>1
      <4>2. head = IF n = 0 THEN NULL ELSE f[n]
        BY <1>2 DEF Stack
      <4>3. n # 0 => f2[n] = f[n]
        BY <1>4
      <4> QED
        BY <3>1, <4>1, <4>2, <4>3
    <3>2. CASE k # n + 1
      <4>1. k \in 1 .. n /\ link2[f2[k]] = link[f[k]]
        BY <1>4, <3>2
      <4>2. link[f[k]] = IF k = 1 THEN NULL ELSE f[k - 1]
        BY <1>2, <4>1 DEF Stack
      <4>3. k # 1 => f2[k - 1] = f[k - 1]
        BY <1>4, <4>1
      <4> QED
        BY <4>1, <4>2, <4>3
    <3> QED
      BY <3>1, <3>2
  <2> QED
    BY <2>1, <2>2, <2>3 DEF Stack
<1> QED
  <2> HIDE DEF f2
  <2> QED
    BY <1>3, <1>5, <1>6 DEF IsList

-----------------------------------------------------------------------------
\* In the lemmas below c is the process that gets page g, which nobody has.
LEMMA ApartNewDir ==
  ASSUME NEW d, NEW T, NEW L, NEW tm, NEW d2, NEW tm2, NEW c \in Procs, NEW g,
         Apart(d, T, L, tm, {}), ~Owned(g, d, T, L), g # NULL,
         \A i \in Index : T[c][i] = NULL,
         \A i, j \in Index : L[c][i][j] = NULL,
         \A p \in Procs : d2[p] = IF p = c THEN g ELSE d[p],
         \A p \in Procs : p # c => tm2[p] = tm[p]
  PROVE  Apart(d2, T, L, tm2, {})
  BY DEF Apart, Owned

LEMMA ApartNewThread ==
  ASSUME NEW d, NEW T, NEW L, NEW tm, NEW d2, NEW T2, NEW L2, NEW tm2,
         NEW c \in Procs, NEW r \in Procs, NEW g, r # c,
         Apart(d, T, L, tm, {}), ~Owned(g, d, T, L), g # NULL,
         \A p \in Procs : d2[p] = IF p = c THEN g ELSE d[p],
         \A p \in Procs, i \in Index : T2[p][i] = IF p = c THEN T[r][i] ELSE T[p][i],
         \A p \in Procs, i, j \in Index :
           L2[p][i][j] = IF p = c THEN L[r][i][j] ELSE L[p][i][j],
         \A p \in Procs : tm2[p] = IF p = c THEN tm[r] ELSE tm[p]
  PROVE  Apart(d2, T2, L2, tm2, {c})
<1>1. \A p \in Procs : /\ g # d[p]
                       /\ \A i, j \in Index : g # T[p][i] /\ g # L[p][i][j]
  BY DEF Owned
<1> SUFFICES ASSUME NEW p \in Procs, NEW q \in Procs
             PROVE
    /\ d2[p] = d2[q] /\ d2[p] # NULL => p = q
    /\ \A i \in Index : T2[p][i] # NULL =>
         /\ T2[p][i] # d2[q]
         /\ \A kk \in Index : T2[p][i] = T2[q][kk] =>
              /\ i = kk
              /\ p # q => tm2[p] = tm2[q] /\ (i # StackDir \/ p \in {c} \/ q \in {c})
    /\ \A i, j \in Index : L2[p][i][j] # NULL =>
         /\ L2[p][i][j] # d2[q]
         /\ \A kk \in Index : L2[p][i][j] # T2[q][kk]
         /\ \A kk, m \in Index : L2[p][i][j] = L2[q][kk][m] =>
              i = kk /\ j = m /\ T2[p][i] = T2[q][kk]
  BY DEF Apart
<1>2. d2[p] = d2[q] /\ d2[p] # NULL => p = q
  BY <1>1 DEF Apart
<1>3. ASSUME NEW i \in Index, T2[p][i] # NULL
      PROVE  T2[p][i] # d2[q]
  BY <1>1, <1>3 DEF Apart
<1>4. ASSUME NEW i \in Index, T2[p][i] # NULL, NEW kk \in Index, T2[p][i] = T2[q][kk]
      PROVE  /\ i = kk
             /\ p # q => tm2[p] = tm2[q] /\ (i # StackDir \/ p \in {c} \/ q \in {c})
  BY <1>1, <1>4 DEF Apart
<1>5. ASSUME NEW i \in Index, NEW j \in Index, L2[p][i][j] # NULL
      PROVE  L2[p][i][j] # d2[q] /\ \A kk \in Index : L2[p][i][j] # T2[q][kk]
  BY <1>1, <1>5 DEF Apart
<1>6. ASSUME NEW i \in Index, NEW j \in Index, L2[p][i][j] # NULL,
             NEW kk \in Index, NEW m \in Index, L2[p][i][j] = L2[q][kk][m]
      PROVE  i = kk /\ j = m /\ T2[p][i] = T2[q][kk]
  <2>1. \A a, b \in Procs : \A ii, jj, k1, m1 \in Index :
          L[a][ii][jj] # NULL /\ L[a][ii][jj] = L[b][k1][m1] =>
            ii = k1 /\ jj = m1 /\ T[a][ii] = T[b][k1]
    BY DEF Apart
  <2> QED
    BY <1>1, <1>6, <2>1
<1> QED
  BY <1>2, <1>3, <1>4, <1>5, <1>6

LEMMA ApartNewTable ==
  ASSUME NEW d, NEW T, NEW L, NEW tm, NEW T2, NEW L2, NEW x,
         NEW c \in Procs, NEW k \in Index, NEW g,
         Apart(d, T, L, tm, x), ~Owned(g, d, T, L), g # NULL,
         x = {} \/ (x = {c} /\ k = StackDir),
         \A p \in Procs, i \in Index :
           T2[p][i] = IF p = c /\ i = k THEN g ELSE T[p][i],
         \A p \in Procs, i, j \in Index :
           L2[p][i][j] = IF p = c /\ i = k THEN NULL ELSE L[p][i][j]
  PROVE  Apart(d, T2, L2, tm, {})
<1>1. \A p \in Procs : /\ g # d[p]
                       /\ \A i, j \in Index : g # T[p][i] /\ g # L[p][i][j]
  BY DEF Owned
<1> SUFFICES ASSUME NEW p \in Procs, NEW q \in Procs
             PROVE
    /\ d[p] = d[q] /\ d[p] # NULL => p = q
    /\ \A i \in Index : T2[p][i] # NULL =>
         /\ T2[p][i] # d[q]
         /\ \A kk \in Index : T2[p][i] = T2[q][kk] =>
              /\ i = kk
              /\ p # q => tm[p] = tm[q] /\ (i # StackDir \/ p \in {} \/ q \in {})
    /\ \A i, j \in Index : L2[p][i][j] # NULL =>
         /\ L2[p][i][j] # d[q]
         /\ \A kk \in Index : L2[p][i][j] # T2[q][kk]
         /\ \A kk, m \in Index : L2[p][i][j] = L2[q][kk][m] =>
              i = kk /\ j = m /\ T2[p][i] = T2[q][kk]
  BY DEF Apart
<1>2. d[p] = d[q] /\ d[p] # NULL => p = q
  BY <1>1 DEF Apart
<1>3. ASSUME NEW i \in Index, T2[p][i] # NULL
      PROVE  T2[p][i] # d[q]
  BY <1>1, <1>3 DEF Apart
<1>4. ASSUME NEW i \in Index, T2[p][i] # NULL, NEW kk \in Index, T2[p][i] = T2[q][kk]
      PROVE  /\ i = kk
             /\ p # q => tm[p] = tm[q] /\ (i # StackDir \/ p \in {} \/ q \in {})
  BY <1>1, <1>4 DEF Apart
<1>5. ASSUME NEW i \in Index, NEW j \in Index, L2[p][i][j] # NULL
      PROVE  L2[p][i][j] # d[q] /\ \A kk \in Index : L2[p][i][j] # T2[q][kk]
  BY <1>1, <1>5 DEF Apart
<1>6. ASSUME NEW i \in Index, NEW j \in Index, L2[p][i][j] # NULL,
             NEW kk \in Index, NEW m \in Index, L2[p][i][j] = L2[q][kk][m]
      PROVE  i = kk /\ j = m /\ T2[p][i] = T2[q][kk]
  <2>1. \A a, b \in Procs : \A ii, jj, k1, m1 \in Index :
          L[a][ii][jj] # NULL /\ L[a][ii][jj] = L[b][k1][m1] =>
            ii = k1 /\ jj = m1 /\ T[a][ii] = T[b][k1]
    BY DEF Apart
  <2> QED
    BY <1>1, <1>6, <2>1
<1> QED
  BY <1>2, <1>3, <1>4, <1>5, <1>6

LEMMA ApartNewLeaf ==
  ASSUME NEW d, NEW T, NEW L, NEW tm, NEW L2,
         NEW c \in Procs, NEW k \in Index, NEW m \in Index, NEW g,
         Apart(d, T, L, tm, {}), ~Owned(g, d, T, L), g # NULL,
         \A p \in Procs, i, j \in Index :
           L2[p][i][j] = IF p = c /\ i = k /\ j = m THEN g ELSE L[p][i][j]
  PROVE  Apart(d, T, L2, tm, {})
<1>1. \A p \in Procs : /\ g # d[p]
                       /\ \A i, j \in Index : g # T[p][i] /\ g # L[p][i][j]
  BY DEF Owned
<1>2. ASSUME NEW p \in Procs, NEW q \in Procs, NEW i \in Index, NEW j \in Index,
             L2[p][i][j] # NULL
      PROVE  L2[p][i][j] # d[q] /\ \A kk \in Index : L2[p][i][j] # T[q][kk]
  BY <1>1, <1>2 DEF Apart
<1>3. ASSUME NEW p \in Procs, NEW q \in Procs, NEW i \in Index, NEW j \in Index,
             L2[p][i][j] # NULL,
             NEW kk \in Index, NEW mm \in Index, L2[p][i][j] = L2[q][kk][mm]
      PROVE  i = kk /\ j = mm /\ T[p][i] = T[q][kk]
  <2>1. \A a, b \in Procs : \A ii, jj, k1, m1 \in Index :
          L[a][ii][jj] # NULL /\ L[a][ii][jj] = L[b][k1][m1] =>
            ii = k1 /\ jj = m1 /\ T[a][ii] = T[b][k1]
    BY DEF Apart
  <2>2. /\ L2[p][i][j] = L[p][i][j] \/ L2[p][i][j] = g
        /\ L2[q][kk][mm] = L[q][kk][mm] \/ L2[q][kk][mm] = g
    OBVIOUS
  <2> QED
    BY <1>1, <1>3, <2>1, <2>2
<1> QED
  BY <1>2, <1>3 DEF Apart
-----------------------------------------------------------------------------
LEMMA TreeTypes ==
  ASSUME TypeOK
  PROVE  /\ \A p \in Procs : cr3[p] \in Pages \cup {NULL}
         /\ \A p \in Procs, i \in Index :
              /\ Tab[p][i] \in Pages \cup {NULL}
              /\ cr3[p] = NULL => Tab[p][i] = NULL
              /\ cr3[p] # NULL => Tab[p][i] = ent[cr3[p]][i]
         /\ \A p \in Procs, i, j \in Index :
              /\ Leaf[p][i][j] \in Pages \cup {NULL}
              /\ Tab[p][i] = NULL => Leaf[p][i][j] = NULL
              /\ Tab[p][i] # NULL => Leaf[p][i][j] = ent[Tab[p][i]][j]
<1>1. \A p \in Procs : cr3[p] \in Pages \cup {NULL}
  BY DEF TypeOK
<1>2. \A p \in Procs, i \in Index :
        /\ Tab[p][i] \in Pages \cup {NULL}
        /\ cr3[p] = NULL => Tab[p][i] = NULL
        /\ cr3[p] # NULL => Tab[p][i] = ent[cr3[p]][i]
  BY <1>1 DEF TypeOK, Tab
<1>3. \A p \in Procs, i, j \in Index :
        /\ Leaf[p][i][j] \in Pages \cup {NULL}
        /\ Tab[p][i] = NULL => Leaf[p][i][j] = NULL
        /\ Tab[p][i] # NULL => Leaf[p][i][j] = ent[Tab[p][i]][j]
  BY <1>2 DEF TypeOK, Leaf
<1> QED
  BY <1>1, <1>2, <1>3

\* As long as nothing is being released, the free pages are those that
\* nobody has.
LEMMA FreeIsUnowned ==
  ASSUME TypeOK, ~torn, op.do # "release", NEW F \in SUBSET Pages, InUse(F), Covered(F)
  PROVE  \A v \in Pages : v \in F <=> ~Owned(v, cr3, Tab, Leaf)
<1>1. ASSUME NEW v \in F PROVE ~Owned(v, cr3, Tab, Leaf)
  <2>1. v # NULL
    BY PagesAreNumbers
  <2>2. \A p \in Procs : v # cr3[p]
    BY <2>1 DEF InUse, Whole
  <2>3. \A p \in Procs, i \in Index : v # Tab[p][i]
    BY <2>1, TreeTypes DEF InUse, Whole, TableFreed
  <2>4. \A p \in Procs, i, j \in Index : v # Leaf[p][i][j]
    BY <2>1, TreeTypes DEF InUse, Whole, LeafFreed
  <2> QED
    BY <2>2, <2>3, <2>4 DEF Owned
<1> QED
  BY <1>1 DEF Covered

\* What page_alloc does to the list; its caller makes the page somebody's.
LEMMA AllocListed ==
  ASSUME TypeOK, ~torn, op.do # "release", Listed, page_free_list # NULL,
         page_free_list' = pp_link[page_free_list],
         pp_link' = [pp_link EXCEPT ![page_free_list] = NULL],
         ~torn', op'.do # "release",
         \A v \in Pages : Owned(v, cr3', Tab', Leaf') <=>
           v = page_free_list \/ Owned(v, cr3, Tab, Leaf)
  PROVE  Listed'
<1>1. PICK F \in SUBSET Pages :
        IsList(page_free_list, pp_link, F) /\ InUse(F) /\ Covered(F)
  BY DEF Listed
<1>2. PICK g : g = page_free_list
  OBVIOUS
<1>3. g \in F /\ g \in Pages /\ IsList(page_free_list', pp_link', F \ {g})
  <2>1. \A h \in Pages \ {page_free_list} : pp_link'[h] = pp_link[h]
    BY DEF TypeOK
  <2> QED
    BY <1>1, <1>2, <2>1, ListPop
<1>4. \A v \in Pages : v \in F \ {g} <=> ~Owned(v, cr3', Tab', Leaf')
  BY <1>1, <1>2, FreeIsUnowned
<1>5. InUse(F \ {g})'
  <2>1. \A v \in F \ {g} : ~Owned(v, cr3', Tab', Leaf')
    BY <1>4
  <2>2. ASSUME NEW p \in Procs
        PROVE  /\ cr3'[p] \notin F \ {g}
               /\ \A i, j \in Index : /\ Tab'[p][i] \notin F \ {g}
                                      /\ Leaf'[p][i][j] \notin F \ {g}
    BY <2>1 DEF Owned
  <2>3. \A p \in Procs, i, j \in Index : ~TableFreed(p, i)' /\ ~LeafFreed(p, i, j)'
    BY DEF TableFreed, LeafFreed
  <2> QED
    BY <2>2, <2>3 DEF InUse
<1>6. Covered(F \ {g})'
  BY <1>4 DEF Covered
<1> QED
  BY <1>3, <1>5, <1>6 DEF Listed

\* The first free page is nobody's.
LEMMA AllocFresh ==
  ASSUME TypeOK, ~torn, op.do # "release", Listed, page_free_list # NULL
  PROVE  /\ page_free_list \in Pages
         /\ pp_link[page_free_list] \in Pages \cup {NULL}
         /\ ~Owned(page_free_list, cr3, Tab, Leaf)
<1>1. PICK F \in SUBSET Pages :
        IsList(page_free_list, pp_link, F) /\ InUse(F) /\ Covered(F)
  BY DEF Listed
<1>2. page_free_list \in F /\ page_free_list \in Pages
  BY <1>1, ListPop
<1>3. ~Owned(page_free_list, cr3, Tab, Leaf)
  BY <1>1, <1>2, FreeIsUnowned
<1> QED
  BY <1>2, <1>3 DEF TypeOK

LEMMA AllocTypes ==
  ASSUME TypeOK, NEW contents \in [Index -> Pages \cup {NULL}], NEW h, NEW k \in Index,
         page_alloc(contents, h, k), page_free_list \in Pages
  PROVE  /\ page_free_list' \in Pages \cup {NULL}
         /\ pp_link' \in [Pages -> Pages \cup {NULL}]
         /\ ent' \in [Pages -> [Index -> Pages \cup {NULL}]]
  BY DEF TypeOK, page_alloc

\* The page becomes the directory of process c.
LEMMA AllocDir ==
  ASSUME TypeOK, NEW contents \in [Index -> Pages \cup {NULL}], NEW c \in Procs,
         page_alloc(contents, NULL, 0), page_free_list \in Pages,
         ~Owned(page_free_list, cr3, Tab, Leaf), cr3[c] = NULL,
         \A i \in Index : contents[i] # page_free_list,
         \A p \in Procs : cr3'[p] = IF p = c THEN page_free_list ELSE cr3[p]
  PROVE  /\ \A p \in Procs, i \in Index :
              Tab'[p][i] = IF p = c THEN contents[i] ELSE Tab[p][i]
         /\ \A p \in Procs, i, j \in Index :
              Leaf'[p][i][j] = IF p # c THEN Leaf[p][i][j]
                               ELSE IF contents[i] = NULL THEN NULL
                               ELSE ent[contents[i]][j]
<1>0. NULL \notin Pages
  BY PagesAreNumbers
<1>1. \A h \in Pages : ent'[h] = IF h = page_free_list THEN contents ELSE ent[h]
  BY <1>0 DEF page_alloc
<1>2. \A p \in Procs : cr3'[p] = IF p = c THEN page_free_list ELSE cr3[p]
  OBVIOUS
<1>3. \A p \in Procs : /\ page_free_list # cr3[p]
                       /\ \A i \in Index : page_free_list # Tab[p][i]
  BY DEF Owned
<1>4. \A p \in Procs, i \in Index : Tab'[p][i] = IF cr3'[p] = NULL THEN NULL ELSE ent'[cr3'[p]][i]
  BY DEF Tab
<1>5. ASSUME NEW p \in Procs, NEW i \in Index
      PROVE  Tab'[p][i] = IF p = c THEN contents[i] ELSE Tab[p][i]
  BY <1>0, <1>1, <1>2, <1>3, <1>4, TreeTypes
<1>6. \A p \in Procs, i, j \in Index :
        Leaf'[p][i][j] = IF Tab'[p][i] = NULL THEN NULL ELSE ent'[Tab'[p][i]][j]
  BY DEF Leaf
<1>7. ASSUME NEW p \in Procs, NEW i \in Index, NEW j \in Index
      PROVE  Leaf'[p][i][j] = IF p # c THEN Leaf[p][i][j]
                              ELSE IF contents[i] = NULL THEN NULL
                              ELSE ent[contents[i]][j]
  <2>1. CASE p = c
    BY <2>1, <1>1, <1>5, <1>6
  <2>2. CASE p # c
    <3>1. Tab'[p][i] = Tab[p][i] /\ page_free_list # Tab[p][i]
      BY <1>3, <1>5, <2>2
    <3> QED
      BY <2>2, <3>1, <1>1, <1>6, TreeTypes
  <2> QED
    BY <2>1, <2>2
<1> QED
  BY <1>5, <1>7

\* The page becomes table k of process c.
LEMMA AllocTable ==
  ASSUME TypeOK, NEW c \in Procs, NEW k \in Index, NEW x,
         Apart(cr3, Tab, Leaf, team, x),
         page_alloc(Zeroed, cr3[c], k), page_free_list \in Pages,
         ~Owned(page_free_list, cr3, Tab, Leaf), cr3[c] # NULL, cr3' = cr3
  PROVE  /\ \A p \in Procs, i \in Index :
              Tab'[p][i] = IF p = c /\ i = k THEN page_free_list ELSE Tab[p][i]
         /\ \A p \in Procs, i, j \in Index :
              Leaf'[p][i][j] = IF p = c /\ i = k THEN NULL ELSE Leaf[p][i][j]
<1>0. NULL \notin Pages /\ cr3[c] \in Pages
  BY PagesAreNumbers DEF TypeOK
<1>3. \A p \in Procs : /\ page_free_list # cr3[p]
                       /\ \A i \in Index : page_free_list # Tab[p][i]
  BY DEF Owned
<1>1. \A h \in Pages : \A i \in Index :
        ent'[h][i] = IF h = cr3[c] /\ i = k THEN page_free_list
                     ELSE IF h = page_free_list THEN NULL ELSE ent[h][i]
  BY <1>0, <1>3 DEF page_alloc, Zeroed, TypeOK
<1>2. \A p \in Procs : cr3[p] = cr3[c] => p = c
  BY DEF Apart
<1>4. \A p \in Procs, i \in Index : Tab'[p][i] = IF cr3[p] = NULL THEN NULL ELSE ent'[cr3[p]][i]
  BY DEF Tab
<1>5. ASSUME NEW p \in Procs, NEW i \in Index
      PROVE  Tab'[p][i] = IF p = c /\ i = k THEN page_free_list ELSE Tab[p][i]
  BY <1>0, <1>1, <1>2, <1>3, <1>4, TreeTypes
<1>6. \A p \in Procs, i, j \in Index :
        Leaf'[p][i][j] = IF Tab'[p][i] = NULL THEN NULL ELSE ent'[Tab'[p][i]][j]
  BY DEF Leaf
<1>7. ASSUME NEW p \in Procs, NEW i \in Index, NEW j \in Index
      PROVE  Leaf'[p][i][j] = IF p = c /\ i = k THEN NULL ELSE Leaf[p][i][j]
  <2>1. CASE p = c /\ i = k
    BY <2>1, <1>0, <1>1, <1>3, <1>5, <1>6
  <2>2. CASE ~(p = c /\ i = k)
    <3>1. Tab'[p][i] = Tab[p][i] /\ page_free_list # Tab[p][i]
      BY <1>3, <1>5, <2>2
    <3>2. Tab[p][i] # NULL => Tab[p][i] # cr3[c]
      BY DEF Apart
    <3> QED
      BY <2>2, <3>1, <3>2, <1>1, <1>6, TreeTypes
  <2> QED
    BY <2>1, <2>2
<1> QED
  BY <1>5, <1>7

\* The page goes into place m of table k of process c, which has it alone.
LEMMA AllocLeaf ==
  ASSUME TypeOK, NEW contents \in [Index -> Pages \cup {NULL}],
         NEW c \in Procs, NEW k \in Index, NEW m \in Index, NEW x,
         Apart(cr3, Tab, Leaf, team, x),
         page_alloc(contents, Tab[c][k], m), page_free_list \in Pages,
         ~Owned(page_free_list, cr3, Tab, Leaf), Tab[c][k] # NULL, cr3' = cr3,
         \A q \in Procs, i \in Index : Tab[q][i] = Tab[c][k] => q = c /\ i = k
  PROVE  /\ \A p \in Procs, i \in Index : Tab'[p][i] = Tab[p][i]
         /\ \A p \in Procs, i, j \in Index :
              Leaf'[p][i][j] = IF p = c /\ i = k /\ j = m THEN page_free_list
                               ELSE Leaf[p][i][j]
<1>0. NULL \notin Pages /\ Tab[c][k] \in Pages
  BY PagesAreNumbers, TreeTypes
<1>3. \A p \in Procs : /\ page_free_list # cr3[p]
                       /\ \A i \in Index : page_free_list # Tab[p][i]
  BY DEF Owned
<1>1. \A h \in Pages : h # page_free_list => \A i \in Index :
        ent'[h][i] = IF h = Tab[c][k] /\ i = m THEN page_free_list ELSE ent[h][i]
  BY <1>0, <1>3 DEF page_alloc, TypeOK
<1>2. \A p \in Procs : cr3[p] # Tab[c][k]
  BY DEF Apart
<1>4. \A p \in Procs, i \in Index : Tab'[p][i] = IF cr3[p] = NULL THEN NULL ELSE ent'[cr3[p]][i]
  BY DEF Tab
<1>5. ASSUME NEW p \in Procs, NEW i \in Index
      PROVE  Tab'[p][i] = Tab[p][i]
  BY <1>0, <1>1, <1>2, <1>3, <1>4, TreeTypes
<1>6. \A p \in Procs, i, j \in Index :
        Leaf'[p][i][j] = IF Tab'[p][i] = NULL THEN NULL ELSE ent'[Tab'[p][i]][j]
  BY DEF Leaf
<1>7. ASSUME NEW p \in Procs, NEW i \in Index, NEW j \in Index
      PROVE  Leaf'[p][i][j] = IF p = c /\ i = k /\ j = m THEN page_free_list
                              ELSE Leaf[p][i][j]
  BY <1>0, <1>1, <1>3, <1>5, <1>6, TreeTypes
<1> QED
  BY <1>5, <1>7
-----------------------------------------------------------------------------
LEMMA OpTypes ==
  ASSUME TypeOK
  PROVE  /\ op.do \in {"boot", "idle", "copy", "thread", "release"}
         /\ op.proc \in Procs /\ op.from \in Pages \cup {NULL} /\ op.dir \in Pages \cup {NULL}
         /\ op.i \in 0 .. 3 /\ op.j \in -1 .. NR_PTE
         /\ Idle \in [do : {"boot", "idle", "copy", "thread", "release"}, proc : Procs,
                      from : Pages \cup {NULL}, dir : Pages \cup {NULL},
                      i : 0 .. 3, j : -1 .. NR_PTE]
         /\ Idle.do = "idle" /\ Idle.j = -1
         /\ \A j \in -1 .. NR_PTE : [op EXCEPT !.j = j] \in
              [do : {"boot", "idle", "copy", "thread", "release"}, proc : Procs,
               from : Pages \cup {NULL}, dir : Pages \cup {NULL},
               i : 0 .. 3, j : -1 .. NR_PTE]
         /\ \A i \in 0 .. 3, j \in -1 .. NR_PTE : [op EXCEPT !.i = i, !.j = j] \in
              [do : {"boot", "idle", "copy", "thread", "release"}, proc : Procs,
               from : Pages \cup {NULL}, dir : Pages \cup {NULL},
               i : 0 .. 3, j : -1 .. NR_PTE]
<1> DEFINE O == [do : {"boot", "idle", "copy", "thread", "release"}, proc : Procs,
                 from : Pages \cup {NULL}, dir : Pages \cup {NULL},
                 i : 0 .. 3, j : -1 .. NR_PTE]
<1>1. op \in O
  BY DEF TypeOK
<1>2. \A j \in -1 .. NR_PTE : [op EXCEPT !.j = j] \in O
  BY <1>1
<1>3. \A i \in 0 .. 3, j \in -1 .. NR_PTE : [op EXCEPT !.i = i, !.j = j] \in O
  BY <1>1
<1>4. Idle \in O /\ Idle.do = "idle" /\ Idle.j = -1
  <2>1. 1 \in Procs /\ -1 \in -1 .. NR_PTE /\ 0 \in 0 .. 3
    BY MemAssumption
  <2> QED
    BY <2>1 DEF Idle
<1> QED
  BY <1>1, <1>2, <1>3, <1>4

\* fork: a directory without tables, for a process of a team of its own.
LEMMA ForkInv ==
  ASSUME Inv, NEW p \in Procs, NEW c \in Procs, Fork(p, c)
  PROVE  Inv'
<1>1. /\ TypeOK /\ ~torn /\ op.do = "idle" /\ page_free_list # NULL /\ Listed
      /\ cr3[p] # NULL /\ cr3[c] = NULL /\ p # c /\ Unstacked = {}
  BY DEF Inv, Fork, Calls, Busy, Live, FirstFree, page_alloc, Unstacked
<1>2. /\ page_free_list \in Pages
      /\ ~Owned(page_free_list, cr3, Tab, Leaf)
  BY <1>1, AllocFresh
<1>3. page_free_list # NULL /\ NULL \notin Pages /\ 0 \in Index
  BY <1>1, PagesAreNumbers DEF Index
<1>4. Zeroed \in [Index -> Pages \cup {NULL}] /\ \A i \in Index : Zeroed[i] = NULL
  BY DEF Zeroed
<1>5. /\ page_alloc(Zeroed, NULL, 0)
      /\ cr3' = [cr3 EXCEPT ![c] = page_free_list]
      /\ team' = [team EXCEPT ![c] = c]
      /\ op' = [do |-> "copy", proc |-> c, from |-> cr3[p], dir |-> page_free_list,
                i |-> 0, j |-> -1]
      /\ torn' = torn /\ halted' = halted
  BY DEF Fork
<1>6. /\ \A q \in Procs : cr3'[q] = IF q = c THEN page_free_list ELSE cr3[q]
      /\ \A q \in Procs : team'[q] = IF q = c THEN c ELSE team[q]
      /\ op'.do = "copy" /\ op'.proc = c /\ op'.from = cr3[p]
      /\ op'.dir = page_free_list /\ op'.i = 0 /\ op'.j = -1
  BY <1>1, <1>5 DEF TypeOK
<1>7. /\ \A q \in Procs, i \in Index : Tab[c][i] = NULL /\ Tab'[q][i] = Tab[q][i]
      /\ \A q \in Procs, i, j \in Index : Leaf[c][i][j] = NULL /\ Leaf'[q][i][j] = Leaf[q][i][j]
  <2>1. \A i \in Index : Zeroed[i] # page_free_list
    BY <1>3, <1>4
  <2>2. /\ \A q \in Procs, i \in Index :
             Tab'[q][i] = IF q = c THEN Zeroed[i] ELSE Tab[q][i]
        /\ \A q \in Procs, i, j \in Index :
             Leaf'[q][i][j] = IF q # c THEN Leaf[q][i][j]
                              ELSE IF Zeroed[i] = NULL THEN NULL
                              ELSE ent[Zeroed[i]][j]
    <3>1. \A q \in Procs : cr3'[q] = IF q = c THEN page_free_list ELSE cr3[q]
      BY <1>6
    <3> QED
      BY <1>1, <1>2, <1>4, <1>5, <2>1, <3>1, AllocDir
  <2> QED
    BY <1>1, <1>4, <2>2, TreeTypes
<1>8. TypeOK'
  <2>1. /\ page_free_list' \in Pages \cup {NULL}
        /\ pp_link' \in [Pages -> Pages \cup {NULL}]
        /\ ent' \in [Pages -> [Index -> Pages \cup {NULL}]]
    BY <1>1, <1>2, <1>3, <1>4, <1>5, AllocTypes
  <2>2. cr3' \in [Procs -> Pages \cup {NULL}] /\ team' \in [Procs -> Procs]
    BY <1>1, <1>2, <1>5 DEF TypeOK
  <2>3. op' \in [do : {"boot", "idle", "copy", "thread", "release"}, proc : Procs,
             from : Pages \cup {NULL}, dir : Pages \cup {NULL},
             i : 0 .. 3, j : -1 .. NR_PTE]
    BY <1>1, <1>2, <1>5, PagesAreNumbers DEF TypeOK
  <2>4. halted' \in BOOLEAN /\ torn' \in BOOLEAN
    BY <1>1, <1>5 DEF TypeOK
  <2> QED
    BY <2>1, <2>2, <2>3, <2>4 DEF TypeOK
<1>9. Apart(cr3', Tab', Leaf', team', Unstacked')
  <2>1. Apart(cr3', Tab, Leaf, team', {})
    <3>1. Apart(cr3, Tab, Leaf, team, {})
      BY <1>1 DEF Inv
    <3>2. \A i \in Index : Tab[c][i] = NULL
      BY <1>7
    <3>3. \A i, j \in Index : Leaf[c][i][j] = NULL
      BY <1>7
    <3>4. \A q \in Procs : cr3'[q] = IF q = c THEN page_free_list ELSE cr3[q]
      BY <1>6
    <3>5. \A q \in Procs : q # c => team'[q] = team[q]
      BY <1>6
    <3> QED
      BY <1>2, <1>3, <3>1, <3>2, <3>3, <3>4, <3>5, ApartNewDir
  <2>2. Unstacked' = {}
    BY <1>6 DEF Unstacked
  <2> QED
    BY <1>7, <2>1, <2>2 DEF Apart
<1>10. Listed'
  <2>1. \A v \in Pages : Owned(v, cr3', Tab', Leaf') <=>
          v = page_free_list \/ Owned(v, cr3, Tab, Leaf)
    BY <1>1, <1>3, <1>6, <1>7 DEF Owned
  <2> QED
    BY <1>1, <1>5, <1>6, <2>1, AllocListed DEF page_alloc
<1>11. ShapeOK'
  <2>1. ShapeOK
    BY DEF Inv
  <2>2. StackDir \in Index
    BY PagesAreNumbers DEF StackDir
  <2>3. ASSUME NEW q \in Procs
        PROVE  /\ \A i \in Index : Tab'[q][i] # NULL => i < 3
               /\ \A i, j \in Index : Leaf'[q][i][j] # NULL => j < NR_PTE
    BY <1>7, <2>1 DEF ShapeOK
  <2>4. ASSUME NEW q \in Procs, cr3'[q] # NULL, q # c
        PROVE  Tab'[q][StackDir] # NULL
    BY <1>1, <1>6, <1>7, <2>1, <2>2, <2>4 DEF ShapeOK
  <2> QED
    BY <1>6, <2>3, <2>4 DEF ShapeOK
<1>12. TeamsOK' /\ Alone(c)'
  <2>1. TeamsOK /\ team \in [Procs -> Procs]
    BY <1>1 DEF Inv, TypeOK
  <2>2. \A q \in Procs : cr3[q] # NULL => team[q] # c
    BY <1>1, <2>1 DEF TeamsOK
  <2> QED
    BY <1>1, <1>3, <1>6, <2>1, <2>2 DEF TeamsOK, Alone
<1>13. CopyOK' /\ ThreadOK' /\ ReleaseOK'
  <2>1. Copied(p)'
    BY <1>1, <1>6, <1>7 DEF Copied, Index
  <2> QED
    BY <1>1, <1>3, <1>5, <1>6, <1>12, <2>1 DEF CopyOK, ThreadOK, ReleaseOK, Alone
<1> QED
  BY <1>6, <1>8, <1>9, <1>10, <1>11, <1>12, <1>13 DEF Inv

\* create_thread: a directory with the tables of the father.
LEMMA CreateThreadInv ==
  ASSUME Inv, NEW p \in Procs, NEW c \in Procs, CreateThread(p, c)
  PROVE  Inv'
<1>1. /\ TypeOK /\ ~torn /\ op.do = "idle" /\ page_free_list # NULL /\ Listed
      /\ cr3[p] # NULL /\ cr3[c] = NULL /\ p # c /\ Unstacked = {}
  BY DEF Inv, CreateThread, Calls, Busy, Live, FirstFree, page_alloc, Unstacked
<1>2. /\ page_free_list \in Pages
      /\ ~Owned(page_free_list, cr3, Tab, Leaf)
  BY <1>1, AllocFresh
<1>3. page_free_list # NULL /\ NULL \notin Pages /\ 0 \in Index
  BY <1>1, PagesAreNumbers DEF Index
<1>4. /\ ent[cr3[p]] \in [Index -> Pages \cup {NULL}]
      /\ \A i \in Index : ent[cr3[p]][i] = Tab[p][i]
  <2>1. cr3[p] \in Pages
    BY <1>1 DEF TypeOK
  <2> QED
    BY <1>1, <2>1, TreeTypes DEF TypeOK
<1>5. /\ page_alloc(ent[cr3[p]], NULL, 0)
      /\ cr3' = [cr3 EXCEPT ![c] = page_free_list]
      /\ team' = [team EXCEPT ![c] = team[p]]
      /\ op' = [do |-> "thread", proc |-> c, from |-> cr3[p],
                dir |-> page_free_list, i |-> StackDir, j |-> -1]
      /\ torn' = torn /\ halted' = halted
  BY DEF CreateThread
<1>6. /\ \A q \in Procs : cr3'[q] = IF q = c THEN page_free_list ELSE cr3[q]
      /\ \A q \in Procs : team'[q] = IF q = c THEN team[p] ELSE team[q]
      /\ op'.do = "thread" /\ op'.proc = c
      /\ op'.dir = page_free_list /\ op'.j = -1
  BY <1>1, <1>5 DEF TypeOK
<1>7. /\ \A q \in Procs, i \in Index :
           Tab[c][i] = NULL /\ Tab'[q][i] = IF q = c THEN Tab[p][i] ELSE Tab[q][i]
      /\ \A q \in Procs, i, j \in Index :
           /\ Leaf[c][i][j] = NULL
           /\ Leaf'[q][i][j] = IF q = c THEN Leaf[p][i][j] ELSE Leaf[q][i][j]
  <2>1. \A i \in Index : ent[cr3[p]][i] # page_free_list
    BY <1>2, <1>4 DEF Owned
  <2>2. /\ \A q \in Procs, i \in Index :
             Tab'[q][i] = IF q = c THEN ent[cr3[p]][i] ELSE Tab[q][i]
        /\ \A q \in Procs, i, j \in Index :
             Leaf'[q][i][j] = IF q # c THEN Leaf[q][i][j]
                              ELSE IF ent[cr3[p]][i] = NULL THEN NULL
                              ELSE ent[ent[cr3[p]][i]][j]
    <3>1. \A q \in Procs : cr3'[q] = IF q = c THEN page_free_list ELSE cr3[q]
      BY <1>6
    <3>2. PICK contents : contents = ent[cr3[p]]
      OBVIOUS
    <3>3. /\ contents \in [Index -> Pages \cup {NULL}]
          /\ page_alloc(contents, NULL, 0)
          /\ \A i \in Index : contents[i] # page_free_list
      BY <1>4, <1>5, <2>1, <3>2
    <3>4. /\ \A q \in Procs, i \in Index :
               Tab'[q][i] = IF q = c THEN contents[i] ELSE Tab[q][i]
          /\ \A q \in Procs, i, j \in Index :
               Leaf'[q][i][j] = IF q # c THEN Leaf[q][i][j]
                                ELSE IF contents[i] = NULL THEN NULL
                                ELSE ent[contents[i]][j]
      BY <1>1, <1>2, <3>1, <3>3, AllocDir
    <3> QED
      BY <3>2, <3>4
  <2> QED
    BY <1>1, <1>4, <2>2, TreeTypes
<1>8. TypeOK'
  <2>1. /\ page_free_list' \in Pages \cup {NULL}
        /\ pp_link' \in [Pages -> Pages \cup {NULL}]
        /\ ent' \in [Pages -> [Index -> Pages \cup {NULL}]]
    BY <1>1, <1>2, <1>3, <1>4, <1>5, AllocTypes
  <2>2. cr3' \in [Procs -> Pages \cup {NULL}] /\ team' \in [Procs -> Procs]
    BY <1>1, <1>2, <1>5 DEF TypeOK
  <2>3. op' \in [do : {"boot", "idle", "copy", "thread", "release"}, proc : Procs,
             from : Pages \cup {NULL}, dir : Pages \cup {NULL},
             i : 0 .. 3, j : -1 .. NR_PTE]
    BY <1>1, <1>2, <1>5, PagesAreNumbers DEF TypeOK, StackDir
  <2>4. halted' \in BOOLEAN /\ torn' \in BOOLEAN
    BY <1>1, <1>5 DEF TypeOK
  <2> QED
    BY <2>1, <2>2, <2>3, <2>4 DEF TypeOK
<1>9. Apart(cr3', Tab', Leaf', team', Unstacked')
  <2>1. Apart(cr3', Tab', Leaf', team', {c})
    <3>1. Apart(cr3, Tab, Leaf, team, {})
      BY <1>1 DEF Inv
    <3>2. \A q \in Procs : cr3'[q] = IF q = c THEN page_free_list ELSE cr3[q]
      BY <1>6
    <3>3. \A q \in Procs, i \in Index : Tab'[q][i] = IF q = c THEN Tab[p][i] ELSE Tab[q][i]
      BY <1>7
    <3>4. \A q \in Procs, i, j \in Index :
            Leaf'[q][i][j] = IF q = c THEN Leaf[p][i][j] ELSE Leaf[q][i][j]
      BY <1>7
    <3>5. \A q \in Procs : team'[q] = IF q = c THEN team[p] ELSE team[q]
      BY <1>6
    <3> QED
      BY <1>1, <1>2, <3>1, <3>2, <3>3, <3>4, <3>5, ApartNewThread
  <2>2. Unstacked' = {c}
    BY <1>6 DEF Unstacked
  <2> QED
    BY <2>1, <2>2
<1>10. Listed'
  <2>1. \A v \in Pages : Owned(v, cr3', Tab', Leaf') <=>
          v = page_free_list \/ Owned(v, cr3, Tab, Leaf)
    <3>1. ASSUME NEW v \in Pages, Owned(v, cr3, Tab, Leaf) PROVE Owned(v, cr3', Tab', Leaf')
      BY <1>1, <1>3, <1>6, <1>7, <3>1 DEF Owned
    <3>2. Owned(page_free_list, cr3', Tab', Leaf')
      BY <1>6 DEF Owned
    <3>3. ASSUME NEW v \in Pages, Owned(v, cr3', Tab', Leaf')
          PROVE  v = page_free_list \/ Owned(v, cr3, Tab, Leaf)
      BY <1>6, <1>7, <3>3 DEF Owned
    <3> QED
      BY <3>1, <3>2, <3>3
  <2> QED
    BY <1>1, <1>5, <1>6, <2>1, AllocListed DEF page_alloc
<1>11. ShapeOK'
  <2>1. ShapeOK
    BY DEF Inv
  <2> QED
    BY SMTT(30), <1>1, <1>6, <1>7, <2>1, PagesAreNumbers DEF ShapeOK, StackDir
<1>12. TeamsOK'
  <2>1. TeamsOK /\ team \in [Procs -> Procs]
    BY <1>1 DEF Inv, TypeOK
  <2>2. \A q \in Procs : cr3[q] # NULL => team[q] # c
    BY <1>1, <2>1 DEF TeamsOK
  <2> QED
    BY <1>1, <1>3, <1>6, <2>1, <2>2 DEF TeamsOK
<1>13. CopyOK' /\ ThreadOK' /\ ReleaseOK'
  BY <1>1, <1>3, <1>5, <1>6, <1>7, PagesAreNumbers
     DEF CopyOK, ThreadOK, ReleaseOK, StackDir, Index
<1> QED
  BY <1>6, <1>8, <1>9, <1>10, <1>11, <1>12, <1>13 DEF Inv

\* copy(): a table for the child where the father has one.
LEMMA CopyTableInv ==
  ASSUME Inv, CopyTable
  PROVE  Inv'
<1>a. PICK c : c = op.proc
  OBVIOUS
<1>b. PICK k : k = op.i
  OBVIOUS
<1>1. /\ TypeOK /\ ~torn /\ op.do = "copy" /\ page_free_list # NULL /\ Listed
      /\ cr3[c] # NULL /\ c \in Procs /\ k \in Index /\ k < 3 /\ Unstacked = {}
      /\ op.dir = cr3[c] /\ op.j = -1 /\ Alone(c)
  <2>1. TypeOK /\ op.do = "copy" /\ op.j = -1 /\ op.i < 3 /\ CopyOK /\ Listed
    BY DEF Inv, CopyTable, Busy
  <2>2. op.i \in 0 .. 3 /\ op.proc \in Procs
    BY <2>1, OpTypes
  <2>3. op.i \in Index
    BY <2>1, <2>2, PagesAreNumbers
  <2> QED
    BY <1>a, <1>b, <2>1, <2>2, <2>3 DEF CopyTable, CopyOK, page_alloc, Unstacked
<1>2. /\ page_free_list \in Pages
      /\ ~Owned(page_free_list, cr3, Tab, Leaf)
  BY <1>1, AllocFresh
<1>3. page_free_list # NULL /\ NULL \notin Pages
  BY <1>1, PagesAreNumbers
<1>4. Zeroed \in [Index -> Pages \cup {NULL}]
  BY DEF Zeroed
<1>5. /\ page_alloc(Zeroed, cr3[c], k)
      /\ op' = [op EXCEPT !.j = 0]
      /\ cr3' = cr3 /\ team' = team /\ torn' = torn /\ halted' = halted
  BY <1>1, <1>b DEF CopyTable
<1>6. /\ op'.do = "copy" /\ op'.proc = c /\ op'.from = op.from
      /\ op'.dir = op.dir /\ op'.i = k /\ op'.j = 0
  BY <1>a, <1>b, <1>1, <1>5 DEF TypeOK
<1>7. PICK r \in Procs : /\ r # c /\ cr3[r] # NULL /\ op.from = cr3[r]
                         /\ Copied(r)
  BY <1>1, <1>a DEF Inv, CopyOK
<1>8. Tab[r][k] # NULL
  <2>1. Tab[r][k] = ent[op.from][op.i]
    BY <1>1, <1>7, <1>b, TreeTypes
  <2> QED
    BY <2>1 DEF CopyTable
<1>9. Tab[c][k] = NULL /\ \A j \in Index : Leaf[c][k][j] = NULL
  <2>1. Tab[c][k] = NULL
    BY <1>1, <1>7, <1>a, <1>b DEF Copied, Index
  <2> QED
    BY <1>1, <2>1, TreeTypes
<1>10. Apart(cr3, Tab, Leaf, team, {})
  BY <1>1 DEF Inv
<1>11. /\ \A q \in Procs, i \in Index :
            Tab'[q][i] = IF q = c /\ i = k THEN page_free_list ELSE Tab[q][i]
       /\ \A q \in Procs, i, j \in Index :
            Leaf'[q][i][j] = IF q = c /\ i = k THEN NULL ELSE Leaf[q][i][j]
  BY <1>1, <1>2, <1>5, <1>10, AllocTable
<1>12. TypeOK'
  <2>1. /\ page_free_list' \in Pages \cup {NULL}
        /\ pp_link' \in [Pages -> Pages \cup {NULL}]
        /\ ent' \in [Pages -> [Index -> Pages \cup {NULL}]]
    BY <1>1, <1>2, <1>4, <1>5, AllocTypes
  <2>2. op' \in [do : {"boot", "idle", "copy", "thread", "release"}, proc : Procs,
             from : Pages \cup {NULL}, dir : Pages \cup {NULL},
             i : 0 .. 3, j : -1 .. NR_PTE]
    <3>1. 0 \in -1 .. NR_PTE
      BY PagesAreNumbers
    <3> QED
      BY <1>1, <1>5, <3>1 DEF TypeOK
  <2>3. halted' \in BOOLEAN /\ torn' \in BOOLEAN
    BY <1>1, <1>5 DEF TypeOK
  <2> QED
    BY <1>1, <1>5, <2>1, <2>2, <2>3 DEF TypeOK
<1>13. Apart(cr3', Tab', Leaf', team', Unstacked')
  <2>1. Apart(cr3, Tab', Leaf', team, {})
    <3>1. \A q \in Procs, i \in Index :
            Tab'[q][i] = IF q = c /\ i = k THEN page_free_list ELSE Tab[q][i]
      BY <1>11
    <3>2. \A q \in Procs, i, j \in Index :
            Leaf'[q][i][j] = IF q = c /\ i = k THEN NULL ELSE Leaf[q][i][j]
      BY <1>11
    <3> QED
      BY <1>1, <1>2, <1>10, <3>1, <3>2, ApartNewTable
  <2>2. Unstacked' = {}
    BY <1>6 DEF Unstacked
  <2> QED
    BY <1>5, <2>1, <2>2
<1>14. Listed'
  <2>1. \A v \in Pages : Owned(v, cr3', Tab', Leaf') <=>
          v = page_free_list \/ Owned(v, cr3, Tab, Leaf)
    <3>1. ASSUME NEW v \in Pages, Owned(v, cr3, Tab, Leaf) PROVE Owned(v, cr3', Tab', Leaf')
      BY <1>3, <1>5, <1>9, <1>11, <3>1 DEF Owned
    <3>2. Owned(page_free_list, cr3', Tab', Leaf')
      BY <1>1, <1>11 DEF Owned
    <3>3. ASSUME NEW v \in Pages, Owned(v, cr3', Tab', Leaf')
          PROVE  v = page_free_list \/ Owned(v, cr3, Tab, Leaf)
      BY <1>3, <1>5, <1>11, <3>3 DEF Owned
    <3> QED
      BY <3>1, <3>2, <3>3
  <2> QED
    BY <1>1, <1>5, <1>6, <2>1, AllocListed DEF page_alloc
<1>15. ShapeOK'
  <2>1. ShapeOK
    BY DEF Inv
  <2>2. StackDir \in Index
    BY PagesAreNumbers DEF StackDir
  <2>3. ASSUME NEW q \in Procs
        PROVE  /\ \A i \in Index : Tab'[q][i] # NULL => i < 3
               /\ \A i, j \in Index : Leaf'[q][i][j] # NULL => j < NR_PTE
    BY <1>1, <1>11, <2>1 DEF ShapeOK
  <2>4. ASSUME NEW q \in Procs, cr3'[q] # NULL, q # c
        PROVE  Tab'[q][StackDir] # NULL
    BY <1>a, <1>5, <1>11, <2>1, <2>2, <2>4 DEF ShapeOK
  <2> QED
    BY <1>6, <2>3, <2>4 DEF ShapeOK
<1>16. TeamsOK'
  BY <1>5 DEF Inv, TeamsOK
<1>17. CopyOK'
  <2>1. Copied(r)'
    BY <1>1, <1>3, <1>6, <1>7, <1>8, <1>11, <1>a, <1>b DEF Copied, Index
  <2>2. Alone(c)'
    BY <1>1, <1>5 DEF Alone
  <2> QED
    BY <1>1, <1>5, <1>6, <1>7, <2>1, <2>2 DEF CopyOK
<1>18. ThreadOK' /\ ReleaseOK'
  BY <1>6 DEF ThreadOK, ReleaseOK
<1> QED
  BY <1>6, <1>12, <1>13, <1>14, <1>15, <1>16, <1>17, <1>18 DEF Inv

\* thread_copy(): a table for the thread's own stack.  The father keeps the
\* one whose place it takes.
LEMMA ThreadTableInv ==
  ASSUME Inv, ThreadTable
  PROVE  Inv'
<1>a. PICK c : c = op.proc
  OBVIOUS
<1>1. /\ TypeOK /\ ~torn /\ op.do = "thread" /\ page_free_list # NULL /\ Listed
      /\ cr3[c] # NULL /\ c \in Procs /\ StackDir \in Index /\ Unstacked = {c}
      /\ op.dir = cr3[c] /\ op.j = -1
  <2>1. TypeOK /\ op.do = "thread" /\ op.j = -1 /\ ThreadOK /\ Listed
    BY DEF Inv, ThreadTable, Busy
  <2>2. StackDir \in Index /\ op.proc \in Procs
    BY <2>1, OpTypes, PagesAreNumbers DEF StackDir
  <2> QED
    BY <1>a, <2>1, <2>2 DEF ThreadTable, ThreadOK, page_alloc, Unstacked
<1>2. /\ page_free_list \in Pages
      /\ ~Owned(page_free_list, cr3, Tab, Leaf)
  BY <1>1, AllocFresh
<1>3. page_free_list # NULL /\ NULL \notin Pages
  BY <1>1, PagesAreNumbers
<1>4. Zeroed \in [Index -> Pages \cup {NULL}]
  BY DEF Zeroed
<1>5. /\ page_alloc(Zeroed, cr3[c], StackDir)
      /\ op' = [op EXCEPT !.j = 0]
      /\ cr3' = cr3 /\ team' = team /\ torn' = torn /\ halted' = halted
  BY <1>1 DEF ThreadTable
<1>6. /\ op'.do = "thread" /\ op'.proc = c
      /\ op'.dir = op.dir /\ op'.j = 0
  BY <1>a, <1>1, <1>5 DEF TypeOK
<1>7. PICK r \in Procs : r # c /\ \A j \in Index :
        /\ Tab[r][StackDir] = Tab[c][StackDir]
        /\ Leaf[r][StackDir][j] = Leaf[c][StackDir][j]
  BY <1>1, <1>a DEF Inv, ThreadOK
<1>10. Apart(cr3, Tab, Leaf, team, {c})
  BY <1>1 DEF Inv
<1>11. /\ \A q \in Procs, i \in Index :
            Tab'[q][i] = IF q = c /\ i = StackDir THEN page_free_list ELSE Tab[q][i]
       /\ \A q \in Procs, i, j \in Index :
            Leaf'[q][i][j] = IF q = c /\ i = StackDir THEN NULL ELSE Leaf[q][i][j]
  BY <1>1, <1>2, <1>5, <1>10, AllocTable
<1>12. TypeOK'
  <2>1. /\ page_free_list' \in Pages \cup {NULL}
        /\ pp_link' \in [Pages -> Pages \cup {NULL}]
        /\ ent' \in [Pages -> [Index -> Pages \cup {NULL}]]
    BY <1>1, <1>2, <1>4, <1>5, AllocTypes
  <2>2. op' \in [do : {"boot", "idle", "copy", "thread", "release"}, proc : Procs,
             from : Pages \cup {NULL}, dir : Pages \cup {NULL},
             i : 0 .. 3, j : -1 .. NR_PTE]
    <3>1. 0 \in -1 .. NR_PTE
      BY PagesAreNumbers
    <3> QED
      BY <1>1, <1>5, <3>1 DEF TypeOK
  <2>3. halted' \in BOOLEAN /\ torn' \in BOOLEAN
    BY <1>1, <1>5 DEF TypeOK
  <2> QED
    BY <1>1, <1>5, <2>1, <2>2, <2>3 DEF TypeOK
<1>13. Apart(cr3', Tab', Leaf', team', Unstacked')
  <2>1. Apart(cr3, Tab', Leaf', team, {})
    <3>1. \A q \in Procs, i \in Index :
            Tab'[q][i] = IF q = c /\ i = StackDir THEN page_free_list ELSE Tab[q][i]
      BY <1>11
    <3>2. \A q \in Procs, i, j \in Index :
            Leaf'[q][i][j] = IF q = c /\ i = StackDir THEN NULL ELSE Leaf[q][i][j]
      BY <1>11
    <3>3. PICK k \in Index : k = StackDir
      BY <1>1
    <3>4. PICK x : x = {c}
      OBVIOUS
    <3> QED
      BY <1>1, <1>2, <1>10, <3>1, <3>2, <3>3, <3>4, ApartNewTable
  <2>2. Unstacked' = {}
    BY <1>6 DEF Unstacked
  <2> QED
    BY <1>5, <2>1, <2>2
<1>14. Listed'
  <2>1. \A v \in Pages : Owned(v, cr3', Tab', Leaf') <=>
          v = page_free_list \/ Owned(v, cr3, Tab, Leaf)
    <3>1. ASSUME NEW v \in Pages, Owned(v, cr3, Tab, Leaf) PROVE Owned(v, cr3', Tab', Leaf')
      <4>1. PICK p \in Procs : \/ v = cr3[p]
                               \/ \E i \in Index : v = Tab[p][i]
                               \/ \E i, j \in Index : v = Leaf[p][i][j]
        BY <3>1 DEF Owned
      <4>2. CASE v = cr3[p]
        BY <1>5, <4>2 DEF Owned
      <4>3. ASSUME NEW i \in Index, v = Tab[p][i] PROVE Owned(v, cr3', Tab', Leaf')
        BY <1>7, <1>11, <4>3 DEF Owned
      <4>4. ASSUME NEW i \in Index, NEW j \in Index, v = Leaf[p][i][j]
            PROVE  Owned(v, cr3', Tab', Leaf')
        BY <1>7, <1>11, <4>4 DEF Owned
      <4> QED
        BY <4>1, <4>2, <4>3, <4>4
    <3>2. Owned(page_free_list, cr3', Tab', Leaf')
      BY <1>1, <1>11 DEF Owned
    <3>3. ASSUME NEW v \in Pages, Owned(v, cr3', Tab', Leaf')
          PROVE  v = page_free_list \/ Owned(v, cr3, Tab, Leaf)
      BY <1>3, <1>5, <1>11, <3>3 DEF Owned
    <3> QED
      BY <3>1, <3>2, <3>3
  <2> QED
    BY <1>1, <1>5, <1>6, <2>1, AllocListed DEF page_alloc
<1>15. ShapeOK'
  <2>1. ShapeOK
    BY DEF Inv
  <2> QED
    BY <1>1, <1>3, <1>5, <1>6, <1>11, <2>1 DEF ShapeOK
<1>16. TeamsOK'
  BY <1>5 DEF Inv, TeamsOK
<1>17. ThreadOK'
  <2>1. 0 < NR_PTE
    BY PagesAreNumbers
  <2> QED
    BY <1>1, <1>5, <1>6, <1>11, <2>1 DEF ThreadOK
<1>18. CopyOK' /\ ReleaseOK'
  BY <1>6 DEF CopyOK, ReleaseOK
<1> QED
  BY <1>6, <1>12, <1>13, <1>14, <1>15, <1>16, <1>17, <1>18 DEF Inv

(***************************************************************************)
(* A page for a table that process c has alone: what copy() and            *)
(* thread_copy() do for every page.                                        *)
(***************************************************************************)
LEMMA NewLeaf ==
  ASSUME TypeOK, ~torn, op.do # "release", Listed, Apart(cr3, Tab, Leaf, team, {}),
         NEW contents \in [Index -> Pages \cup {NULL}],
         NEW c \in Procs, NEW k \in Index, NEW m \in Index,
         page_alloc(contents, Tab[c][k], m), cr3' = cr3, team' = team,
         Tab[c][k] # NULL, Leaf[c][k][m] = NULL, Alone(c) \/ k = StackDir,
         ~torn', op'.do # "release", Unstacked' = {}
  PROVE  /\ Listed' /\ Apart(cr3', Tab', Leaf', team', Unstacked')
         /\ page_free_list \in Pages
         /\ \A p \in Procs, i \in Index : Tab'[p][i] = Tab[p][i]
         /\ \A p \in Procs, i, j \in Index :
              Leaf'[p][i][j] = IF p = c /\ i = k /\ j = m THEN page_free_list
                               ELSE Leaf[p][i][j]
<1>0. page_free_list # NULL /\ NULL \notin Pages
  BY PagesAreNumbers DEF page_alloc
<1>1. /\ page_free_list \in Pages
      /\ ~Owned(page_free_list, cr3, Tab, Leaf)
  BY <1>0, AllocFresh
<1>2. \A q \in Procs, i \in Index : Tab[q][i] = Tab[c][k] => q = c /\ i = k
  <2>1. \A q \in Procs, i \in Index : Tab[q][i] = Tab[c][k] =>
          k = i /\ (c # q => team[c] = team[q] /\ k # StackDir)
    BY DEF Apart
  <2>2. \A q \in Procs, i \in Index : Tab[q][i] # NULL => cr3[q] # NULL
    BY TreeTypes
  <2> QED
    BY <2>1, <2>2 DEF Alone
<1>3. /\ \A p \in Procs, i \in Index : Tab'[p][i] = Tab[p][i]
      /\ \A p \in Procs, i, j \in Index :
           Leaf'[p][i][j] = IF p = c /\ i = k /\ j = m THEN page_free_list
                            ELSE Leaf[p][i][j]
  <2>1. PICK x : x = {}
    OBVIOUS
  <2>2. Apart(cr3, Tab, Leaf, team, x)
    BY <2>1
  <2> QED
    BY <1>1, <1>2, <2>2, AllocLeaf
<1>4. Apart(cr3, Tab, Leaf', team, {})
  <2>1. \A p \in Procs, i, j \in Index :
           Leaf'[p][i][j] = IF p = c /\ i = k /\ j = m THEN page_free_list
                            ELSE Leaf[p][i][j]
    BY <1>3
  <2> QED
    BY <1>0, <1>1, <2>1, ApartNewLeaf
<1>5. Apart(cr3, Tab', Leaf', team, {})
  BY <1>3, <1>4 DEF Apart
<1>6. Listed'
  <2>1. \A v \in Pages : Owned(v, cr3', Tab', Leaf') <=>
          v = page_free_list \/ Owned(v, cr3, Tab, Leaf)
    <3>1. ASSUME NEW v \in Pages, Owned(v, cr3, Tab, Leaf) PROVE Owned(v, cr3', Tab', Leaf')
      BY <1>0, <1>3, <3>1 DEF Owned
    <3>2. Owned(page_free_list, cr3', Tab', Leaf')
      BY <1>3 DEF Owned
    <3>3. ASSUME NEW v \in Pages, Owned(v, cr3', Tab', Leaf')
          PROVE  v = page_free_list \/ Owned(v, cr3, Tab, Leaf)
      BY <1>3, <3>3 DEF Owned
    <3> QED
      BY <3>1, <3>2, <3>3
  <2> QED
    BY <1>0, <2>1, AllocListed DEF page_alloc
<1> QED
  BY <1>1, <1>3, <1>5, <1>6

\* thread_copy(): a page of the thread's stack.
LEMMA ThreadPageInv ==
  ASSUME Inv, ThreadPage
  PROVE  Inv'
<1>a. PICK c : c = op.proc
  OBVIOUS
<1>b. PICK m : m = op.j
  OBVIOUS
<1>1. /\ TypeOK /\ ~torn /\ op.do = "thread" /\ Listed
      /\ cr3[c] # NULL /\ c \in Procs /\ StackDir \in Index /\ Unstacked = {}
      /\ op.dir = cr3[c] /\ m \in Index /\ m < NR_PTE
  <2>1. TypeOK /\ op.do = "thread" /\ op.j >= 0 /\ ThreadOK /\ Listed
    BY DEF Inv, ThreadPage, Busy
  <2>2. op.j \in -1 .. NR_PTE /\ op.proc \in Procs /\ NR_PTE \in Nat \ {0}
    BY <2>1, OpTypes, PagesAreNumbers
  <2>3. Unstacked = {}
    BY <2>1, <2>2 DEF Unstacked
  <2> QED
    BY <1>a, <1>b, <2>1, <2>2, <2>3 DEF ThreadOK, Index, StackDir
<1>2. /\ Tab[c][StackDir] # NULL /\ Leaf[c][StackDir][m] = NULL
      /\ Tab[c][StackDir] = ent[op.dir][StackDir]
  <2>1. ShapeOK /\ ThreadOK
    BY DEF Inv
  <2> QED
    BY <1>a, <1>b, <1>1, <2>1, TreeTypes DEF ShapeOK, ThreadOK, Index
<1>3. Zeroed \in [Index -> Pages \cup {NULL}]
  BY DEF Zeroed
<1>4. /\ page_alloc(Zeroed, Tab[c][StackDir], m)
      /\ op' = IF m + 1 = NR_PTE THEN Idle ELSE [op EXCEPT !.j = m + 1]
      /\ cr3' = cr3 /\ team' = team /\ torn' = torn /\ halted' = halted
  BY <1>b, <1>2 DEF ThreadPage
<1>5. /\ op'.do \in {"idle", "thread"}
      /\ op'.do = "thread" => /\ op'.proc = c /\ op'.dir = op.dir
                              /\ op'.j = m + 1 /\ m + 1 < NR_PTE
      /\ Unstacked' = {}
  <2>1. m \in Int /\ NR_PTE \in Int /\ m >= 0
    BY <1>1, PagesAreNumbers DEF Index
  <2>2. CASE m + 1 = NR_PTE
    BY <1>4, <2>2 DEF Idle, Unstacked
  <2>3. CASE m + 1 # NR_PTE
    <3>1. op' = [op EXCEPT !.j = m + 1]
      BY <1>4, <2>3
    <3>2. op'.do = "thread" /\ op'.proc = c /\ op'.dir = op.dir /\ op'.j = m + 1
      BY <1>a, <1>1, <3>1 DEF TypeOK
    <3> QED
      BY <1>1, <2>1, <2>3, <3>2 DEF Unstacked
  <2> QED
    BY <2>2, <2>3
<1>6. /\ Listed' /\ Apart(cr3', Tab', Leaf', team', Unstacked')
      /\ page_free_list \in Pages
      /\ \A p \in Procs, i \in Index : Tab'[p][i] = Tab[p][i]
      /\ \A p \in Procs, i, j \in Index :
           Leaf'[p][i][j] = IF p = c /\ i = StackDir /\ j = m THEN page_free_list
                            ELSE Leaf[p][i][j]
  <2>1. Apart(cr3, Tab, Leaf, team, {})
    BY <1>1 DEF Inv
  <2>2. op.do # "release" /\ op'.do # "release" /\ ~torn'
    BY <1>1, <1>4, <1>5
  <2>3. PICK k \in Index : k = StackDir
    BY <1>1
  <2>4. page_alloc(Zeroed, Tab[c][k], m) /\ Tab[c][k] # NULL /\ Leaf[c][k][m] = NULL
    BY <1>2, <1>4, <2>3
  <2> QED
    BY <1>1, <1>3, <1>4, <1>5, <2>1, <2>2, <2>3, <2>4, NewLeaf
<1>7. TypeOK'
  <2>1. /\ page_free_list' \in Pages \cup {NULL}
        /\ pp_link' \in [Pages -> Pages \cup {NULL}]
        /\ ent' \in [Pages -> [Index -> Pages \cup {NULL}]]
    BY <1>1, <1>3, <1>4, <1>6, AllocTypes
  <2>2. op' \in [do : {"boot", "idle", "copy", "thread", "release"}, proc : Procs,
             from : Pages \cup {NULL}, dir : Pages \cup {NULL},
             i : 0 .. 3, j : -1 .. NR_PTE]
    <3>1. m + 1 \in -1 .. NR_PTE
      BY <1>1, PagesAreNumbers DEF Index
    <3> QED
      BY <1>1, <1>4, <3>1, OpTypes
  <2>3. halted' \in BOOLEAN /\ torn' \in BOOLEAN
    BY <1>1, <1>4 DEF TypeOK
  <2> QED
    BY <1>1, <1>4, <2>1, <2>2, <2>3 DEF TypeOK
<1>8. ShapeOK'
  <2>1. ShapeOK
    BY DEF Inv
  <2> QED
    BY <1>1, <1>4, <1>5, <1>6, <2>1 DEF ShapeOK
<1>9. TeamsOK'
  BY <1>4 DEF Inv, TeamsOK
<1>10. ThreadOK'
  <2>1. ThreadOK /\ m \in Int /\ \A k \in Index : k \in Int
    BY <1>1 DEF Inv, Index
  <2>2. op'.do = "thread" => \A k \in Index : k >= op'.j => Leaf'[c][StackDir][k] = NULL
    <3>1. m >= 0 /\ \A k \in Index : k >= m + 1 => k >= m /\ k # m
      BY <1>1 DEF Index
    <3>2. \A k \in Index : k >= m => Leaf[c][StackDir][k] = NULL
      BY <1>a, <1>b, <1>1, <2>1, <3>1 DEF ThreadOK
    <3> QED
      BY <1>1, <1>5, <1>6, <3>1, <3>2
  <2>3. op'.do = "thread" => op'.j # -1
    BY <1>1, <1>5, <2>1 DEF Index
  <2> QED
    BY <1>1, <1>4, <1>5, <2>2, <2>3 DEF ThreadOK
<1>11. CopyOK' /\ ReleaseOK'
  BY <1>5 DEF CopyOK, ReleaseOK
<1> QED
  BY <1>5, <1>6, <1>7, <1>8, <1>9, <1>10, <1>11 DEF Inv

\* copy(): a page of the child where the father has one.
LEMMA CopyPageInv ==
  ASSUME Inv, CopyPage
  PROVE  Inv'
<1>a. PICK c : c = op.proc
  OBVIOUS
<1>b. PICK m : m = op.j
  OBVIOUS
<1>c. PICK k : k = op.i
  OBVIOUS
<1>1. /\ TypeOK /\ ~torn /\ op.do = "copy" /\ Listed
      /\ cr3[c] # NULL /\ c \in Procs /\ Unstacked = {} /\ Alone(c)
      /\ op.dir = cr3[c] /\ k \in Index /\ k < 3 /\ m \in Index /\ m < NR_PTE /\ m >= 0
  <2>1. TypeOK /\ op.do = "copy" /\ op.j \in PteLoop /\ op.i < 3 /\ CopyOK /\ Listed
    BY DEF Inv, CopyPage, Busy
  <2>2. op.i \in 0 .. 3 /\ op.proc \in Procs /\ NR_PTE \in Nat \ {0}
    BY <2>1, OpTypes, PagesAreNumbers
  <2>3. op.j \in Index /\ op.j < NR_PTE /\ op.j >= 0 /\ op.i \in Index
    BY <2>1, <2>2, PagesAreNumbers DEF PteLoop
  <2> QED
    BY <1>a, <1>b, <1>c, <2>1, <2>2, <2>3 DEF CopyOK, Unstacked
<1>2. PICK r \in Procs : r # c /\ cr3[r] # NULL /\ op.from = cr3[r] /\ Copied(r)
  BY <1>1, <1>a DEF Inv, CopyOK
<1>3. /\ Tab[c][k] # NULL /\ Tab[r][k] # NULL
      /\ \A j \in Index : j >= m => Leaf[c][k][j] = NULL
      /\ Tab[c][k] = ent[op.dir][k] /\ Tab[r][k] = ent[op.from][k]
  BY <1>a, <1>b, <1>c, <1>1, <1>2, TreeTypes DEF Copied
<1>4. Leaf[c][k][m] = NULL /\ Leaf[r][k][m] = ent[Tab[r][k]][m]
  <2>1. m >= m
    BY <1>1 DEF Index
  <2> QED
    BY <1>1, <1>2, <1>3, <2>1, TreeTypes
<1>5. /\ op' = [op EXCEPT !.j = m + 1]
      /\ cr3' = cr3 /\ team' = team /\ torn' = torn /\ halted' = halted
  BY <1>b DEF CopyPage
<1>6. /\ op'.do = "copy" /\ op'.proc = c /\ op'.dir = op.dir /\ op'.from = op.from
      /\ op'.j = m + 1 /\ op'.i = k
      /\ Unstacked' = {}
  <2>1. /\ op'.do = "copy" /\ op'.proc = c /\ op'.dir = op.dir /\ op'.from = op.from
        /\ op'.j = m + 1 /\ op'.i = k
    BY <1>a, <1>c, <1>1, <1>5 DEF TypeOK
  <2> QED
    BY <2>1 DEF Unstacked
<1>7. op' \in [do : {"boot", "idle", "copy", "thread", "release"}, proc : Procs,
             from : Pages \cup {NULL}, dir : Pages \cup {NULL},
             i : 0 .. 3, j : -1 .. NR_PTE]
  <2>1. m + 1 \in -1 .. NR_PTE
    BY <1>1, PagesAreNumbers DEF Index
  <2> QED
    BY <1>1, <1>5, <2>1, OpTypes
<1>8. halted' \in BOOLEAN /\ torn' \in BOOLEAN
  BY <1>1, <1>5 DEF TypeOK
<1>9. \/ /\ Leaf[r][k][m] # NULL
         /\ page_alloc(ent[Leaf[r][k][m]], Tab[c][k], m)
      \/ UNCHANGED <<page_free_list, pp_link, ent>>
  BY <1>b, <1>c, <1>3, <1>4 DEF CopyPage
<1>10. /\ Listed' /\ Apart(cr3', Tab', Leaf', team', Unstacked') /\ TypeOK'
       /\ \A p \in Procs, i \in Index : Tab'[p][i] = Tab[p][i]
       /\ \A p \in Procs, i, j \in Index :
            ~(p = c /\ i = k /\ j = m) => Leaf'[p][i][j] = Leaf[p][i][j]
  <2>0. Apart(cr3, Tab, Leaf, team, {}) /\ op.do # "release" /\ op'.do # "release" /\ ~torn'
    BY <1>1, <1>5, <1>6 DEF Inv
  <2>1. CASE Leaf[r][k][m] # NULL /\ page_alloc(ent[Leaf[r][k][m]], Tab[c][k], m)
    <3>1. PICK contents : contents = ent[Leaf[r][k][m]]
      OBVIOUS
    <3>2. contents \in [Index -> Pages \cup {NULL}]
      <4>1. Leaf[r][k][m] \in Pages
        BY <1>1, <2>1, TreeTypes
      <4> QED
        BY <1>1, <3>1, <4>1 DEF TypeOK
    <3>3. page_alloc(contents, Tab[c][k], m)
      BY <2>1, <3>1
    <3>4. /\ Listed' /\ Apart(cr3', Tab', Leaf', team', Unstacked')
          /\ page_free_list \in Pages
          /\ \A p \in Procs, i \in Index : Tab'[p][i] = Tab[p][i]
          /\ \A p \in Procs, i, j \in Index :
               Leaf'[p][i][j] = IF p = c /\ i = k /\ j = m THEN page_free_list
                                ELSE Leaf[p][i][j]
      BY <1>1, <1>3, <1>4, <1>5, <1>6, <2>0, <3>2, <3>3, NewLeaf
    <3>5. /\ page_free_list' \in Pages \cup {NULL}
          /\ pp_link' \in [Pages -> Pages \cup {NULL}]
          /\ ent' \in [Pages -> [Index -> Pages \cup {NULL}]]
      BY <1>1, <3>2, <3>3, <3>4, AllocTypes
    <3>6. TypeOK'
      BY <1>1, <1>5, <1>7, <1>8, <3>5 DEF TypeOK
    <3> QED
      BY <3>4, <3>6
  <2>2. CASE UNCHANGED <<page_free_list, pp_link, ent>>
    <3>1. Tab' = Tab /\ Leaf' = Leaf
      BY <1>5, <2>2 DEF Tab, Leaf
    <3>2. TypeOK'
      BY <1>1, <1>5, <1>7, <1>8, <2>2 DEF TypeOK
    <3>3. PICK F \in SUBSET Pages :
            IsList(page_free_list, pp_link, F) /\ InUse(F) /\ Covered(F)
      BY <1>1 DEF Listed
    <3>4. InUse(F)' /\ Covered(F)'
      BY <1>1, <1>5, <1>6, <3>1, <3>3
         DEF InUse, Covered, Whole, TableFreed, LeafFreed
    <3>5. Listed'
      BY <2>2, <3>3, <3>4 DEF Listed
    <3> QED
      BY <1>5, <1>6, <2>0, <3>1, <3>2, <3>5
  <2> QED
    BY <1>9, <2>1, <2>2
<1>11. ShapeOK'
  <2>1. ShapeOK
    BY DEF Inv
  <2>2. StackDir \in Index
    BY PagesAreNumbers DEF StackDir
  <2>3. ASSUME NEW q \in Procs
        PROVE  /\ \A i \in Index : Tab'[q][i] # NULL => i < 3
               /\ \A i, j \in Index : Leaf'[q][i][j] # NULL => j < NR_PTE
    BY <1>1, <1>10, <2>1 DEF ShapeOK
  <2>4. ASSUME NEW q \in Procs, cr3'[q] # NULL, q # c
        PROVE  Tab'[q][StackDir] # NULL
    BY <1>a, <1>5, <1>10, <2>1, <2>2, <2>4 DEF ShapeOK
  <2> QED
    BY <1>6, <2>3, <2>4 DEF ShapeOK
<1>12. TeamsOK'
  BY <1>5 DEF Inv, TeamsOK
<1>13. CopyOK'
  <2>1. Copied(r)'
    <3>1. ASSUME NEW i \in Index
          PROVE  IF i < op'.i \/ (i = op'.i /\ op'.j >= 0)
                 THEN Tab'[op'.proc][i] = NULL <=> Tab'[r][i] = NULL
                 ELSE Tab'[op'.proc][i] = NULL
      BY <1>a, <1>b, <1>c, <1>1, <1>2, <1>6, <1>10 DEF Copied, Index
    <3>2. Tab'[r][k] # NULL
      BY <1>1, <1>3, <1>10
    <3>3. \A j \in Index : j >= m + 1 => Leaf'[c][k][j] = NULL
      BY <1>1, <1>3, <1>10 DEF Index
    <3> QED
      BY <1>6, <3>1, <3>2, <3>3 DEF Copied
  <2>2. Alone(c)'
    BY <1>1, <1>5 DEF Alone
  <2> QED
    BY <1>1, <1>2, <1>5, <1>6, <2>1, <2>2 DEF CopyOK
<1>14. ThreadOK' /\ ReleaseOK'
  BY <1>6 DEF ThreadOK, ReleaseOK
<1> QED
  BY <1>6, <1>10, <1>11, <1>12, <1>13, <1>14 DEF Inv

\* copy(): on to the next entry of the directory.
LEMMA CopyNextInv ==
  ASSUME Inv, CopyNext
  PROVE  Inv'
<1>a. PICK c : c = op.proc
  OBVIOUS
<1>c. PICK k : k = op.i
  OBVIOUS
<1>1. /\ TypeOK /\ ~torn /\ op.do = "copy" /\ Listed
      /\ cr3[c] # NULL /\ c \in Procs /\ Unstacked = {} /\ Alone(c)
      /\ op.dir = cr3[c] /\ k \in Index /\ k < 3
  <2>1. TypeOK /\ op.do = "copy" /\ op.i < 3 /\ CopyOK /\ Listed
    BY DEF Inv, CopyNext, Busy
  <2>2. op.i \in 0 .. 3 /\ op.proc \in Procs
    BY <2>1, OpTypes
  <2>3. op.i \in Index
    BY <2>1, <2>2, PagesAreNumbers
  <2> QED
    BY <1>a, <1>c, <2>1, <2>2, <2>3 DEF CopyOK, Unstacked
<1>2. PICK r \in Procs : r # c /\ cr3[r] # NULL /\ op.from = cr3[r] /\ Copied(r)
  BY <1>1, <1>a DEF Inv, CopyOK
<1>3. /\ op' = [op EXCEPT !.i = k + 1, !.j = -1]
      /\ UNCHANGED <<page_free_list, pp_link, ent, cr3, team, halted, torn>>
  BY <1>c DEF CopyNext
<1>4. /\ op'.do = "copy" /\ op'.proc = c /\ op'.dir = op.dir /\ op'.from = op.from
      /\ op'.j = -1 /\ op'.i = k + 1
  BY <1>a, <1>1, <1>3 DEF TypeOK
<1>5. Unstacked' = {} /\ Tab' = Tab /\ Leaf' = Leaf
  BY <1>3, <1>4 DEF Unstacked, Tab, Leaf
<1>6. TypeOK'
  <2>1. op' \in [do : {"boot", "idle", "copy", "thread", "release"}, proc : Procs,
             from : Pages \cup {NULL}, dir : Pages \cup {NULL},
             i : 0 .. 3, j : -1 .. NR_PTE]
    <3>1. k + 1 \in 0 .. 3 /\ -1 \in -1 .. NR_PTE
      BY <1>1, PagesAreNumbers
    <3> QED
      BY <1>1, <1>3, <3>1, OpTypes
  <2> QED
    BY <1>1, <1>3, <2>1 DEF TypeOK
<1>7. Apart(cr3', Tab', Leaf', team', Unstacked')
  BY <1>1, <1>3, <1>5 DEF Inv
<1>8. Listed'
  <2>1. PICK F \in SUBSET Pages :
          IsList(page_free_list, pp_link, F) /\ InUse(F) /\ Covered(F)
    BY <1>1 DEF Listed
  <2>2. InUse(F)' /\ Covered(F)'
    BY <1>1, <1>3, <1>4, <1>5, <2>1
       DEF InUse, Covered, Whole, TableFreed, LeafFreed
  <2> QED
    BY <1>3, <2>1, <2>2 DEF Listed
<1>9. ShapeOK' /\ TeamsOK'
  BY <1>1, <1>3, <1>4, <1>5, <1>a DEF Inv, ShapeOK, TeamsOK
<1>10. CopyOK'
  <2>1. Copied(r)'
    <3>1. op.j = NR_PTE \/ Tab[r][k] = NULL
      BY <1>c, <1>1, <1>2, TreeTypes DEF CopyNext
    <3>2. op.j \in Int /\ NR_PTE >= 0 /\ NR_PTE \in Int
      <4>1. op.j \in -1 .. NR_PTE /\ NR_PTE \in Nat \ {0}
        BY <1>1, OpTypes, PagesAreNumbers
      <4> QED
        BY <4>1
    <3>3. Tab[c][k] = NULL <=> Tab[r][k] = NULL
      BY <1>a, <1>c, <1>1, <1>2, <3>1, <3>2 DEF Copied, Index
    <3>4. ASSUME NEW i \in Index
          PROVE  IF i < k + 1 THEN Tab[c][i] = NULL <=> Tab[r][i] = NULL
                              ELSE Tab[c][i] = NULL
      BY <1>a, <1>c, <1>1, <1>2, <3>3 DEF Copied, Index
    <3> QED
      BY <1>4, <1>5, <3>4 DEF Copied
  <2>2. Alone(c)'
    BY <1>1, <1>3 DEF Alone
  <2> QED
    BY <1>1, <1>2, <1>3, <1>4, <2>1, <2>2 DEF CopyOK
<1>11. ThreadOK' /\ ReleaseOK'
  BY <1>4 DEF ThreadOK, ReleaseOK
<1> QED
  BY <1>4, <1>6, <1>7, <1>8, <1>9, <1>10, <1>11 DEF Inv

\* copy(): the child has all that its father has.
LEMMA CopyDoneInv ==
  ASSUME Inv, CopyDone
  PROVE  Inv'
<1>a. PICK c : c = op.proc
  OBVIOUS
<1>1. /\ TypeOK /\ ~torn /\ op.do = "copy" /\ Listed /\ op.i = 3
      /\ c \in Procs /\ Unstacked = {}
  <2>1. TypeOK /\ op.do = "copy" /\ op.i = 3 /\ CopyOK /\ Listed
    BY DEF Inv, CopyDone, Busy
  <2>2. op.proc \in Procs
    BY <2>1, OpTypes
  <2> QED
    BY <1>a, <2>1, <2>2 DEF CopyOK, Unstacked
<1>2. PICK r \in Procs : r # c /\ cr3[r] # NULL /\ op.from = cr3[r] /\ Copied(r)
  BY <1>1, <1>a DEF Inv, CopyOK
<1>3. op' = Idle /\ op'.do = "idle" /\ op'.j = -1
      /\ UNCHANGED <<page_free_list, pp_link, ent, cr3, team, halted, torn>>
  BY DEF CopyDone, Idle
<1>4. Unstacked' = {} /\ Tab' = Tab /\ Leaf' = Leaf
  BY <1>3 DEF Unstacked, Tab, Leaf
<1>5. TypeOK'
  BY <1>1, <1>3, OpTypes DEF TypeOK
<1>6. Apart(cr3', Tab', Leaf', team', Unstacked')
  BY <1>1, <1>3, <1>4 DEF Inv
<1>7. Listed'
  <2>1. PICK F \in SUBSET Pages :
          IsList(page_free_list, pp_link, F) /\ InUse(F) /\ Covered(F)
    BY <1>1 DEF Listed
  <2>2. InUse(F)' /\ Covered(F)'
    BY <1>1, <1>3, <1>4, <2>1
       DEF InUse, Covered, Whole, TableFreed, LeafFreed
  <2> QED
    BY <1>3, <2>1, <2>2 DEF Listed
<1>8. ShapeOK'
  <2>1. ShapeOK /\ StackDir \in Index /\ StackDir < 3
    BY PagesAreNumbers DEF Inv, StackDir
  <2>2. Tab[r][StackDir] # NULL
    BY <1>a, <1>2, <2>1 DEF ShapeOK
  <2>3. Tab[c][StackDir] # NULL
    BY <1>a, <1>1, <1>2, <2>1, <2>2 DEF Copied
  <2> QED
    BY <1>a, <1>3, <1>4, <2>1, <2>3 DEF ShapeOK
<1>9. TeamsOK' /\ CopyOK' /\ ThreadOK' /\ ReleaseOK'
  BY <1>3 DEF Inv, TeamsOK, CopyOK, ThreadOK, ReleaseOK
<1> QED
  BY <1>3, <1>5, <1>6, <1>7, <1>8, <1>9 DEF Inv

\* exit: release() begins.  From here on the memory of processes that share
\* their tables with p is not in order.
LEMMA ExitInv ==
  ASSUME Inv, NEW p \in Procs, Exit(p)
  PROVE  Inv'
<1>1. TypeOK /\ ~torn /\ op.do = "idle" /\ Listed /\ cr3[p] # NULL /\ Unstacked = {}
  BY DEF Inv, Exit, Calls, Busy, Live, Unstacked
<1>2. /\ op' = [do |-> "release", proc |-> p, from |-> cr3[p], dir |-> NULL,
                i |-> 0, j |-> 0]
      /\ torn' = (torn \/ Shares(p))
      /\ UNCHANGED <<page_free_list, pp_link, ent, cr3, team, halted>>
  BY DEF Exit
<1>3. /\ op'.do = "release" /\ op'.proc = p /\ op'.from = cr3[p]
      /\ op'.i = 0 /\ op'.j = 0
  BY <1>2
<1>4. Unstacked' = {} /\ Tab' = Tab /\ Leaf' = Leaf
  BY <1>2, <1>3 DEF Unstacked, Tab, Leaf
<1>5. TypeOK'
  <2>1. op' \in [do : {"boot", "idle", "copy", "thread", "release"}, proc : Procs,
             from : Pages \cup {NULL}, dir : Pages \cup {NULL},
             i : 0 .. 3, j : -1 .. NR_PTE]
    <3>1. 0 \in -1 .. NR_PTE /\ cr3[p] \in Pages \cup {NULL}
      BY <1>1, PagesAreNumbers DEF TypeOK
    <3> QED
      BY <1>2, <3>1
  <2>2. torn' \in BOOLEAN
    BY <1>2 DEF Shares
  <2> QED
    BY <1>1, <1>2, <2>1, <2>2 DEF TypeOK
<1>6. Apart(cr3', Tab', Leaf', team', Unstacked')
  BY <1>1, <1>2, <1>4 DEF Inv
<1>7. Listed'
  <2>1. PICK F \in SUBSET Pages :
          IsList(page_free_list, pp_link, F) /\ InUse(F) /\ Covered(F)
    BY <1>1 DEF Listed
  <2>2. InUse(F)'
    BY <1>1, <1>2, <1>3, <1>4, <2>1
       DEF InUse, Whole, TableFreed, LeafFreed, Index
  <2>3. Covered(F)'
    BY <1>2, <1>4, <2>1 DEF Covered
  <2> QED
    BY <1>2, <2>1, <2>2, <2>3 DEF Listed
<1>8. ShapeOK' /\ TeamsOK'
  BY <1>1, <1>2, <1>3, <1>4 DEF Inv, ShapeOK, TeamsOK
<1>9. ReleaseOK'
  <2>1. ~torn' => Alone(p)'
    BY <1>2 DEF Shares, Alone, Live
  <2> QED
    BY <1>1, <1>2, <1>3, <2>1 DEF ReleaseOK, Alone
<1>10. CopyOK' /\ ThreadOK'
  BY <1>3 DEF CopyOK, ThreadOK
<1> QED
  BY <1>3, <1>5, <1>6, <1>7, <1>8, <1>9, <1>10 DEF Inv

\* A step that only stops the machine, or none at all.
LEMMA SameInv ==
  ASSUME Inv, UNCHANGED <<page_free_list, pp_link, ent, cr3, team, op, torn>>,
         halted' \in BOOLEAN
  PROVE  Inv'
<1>1. Unstacked' = Unstacked /\ Tab' = Tab /\ Leaf' = Leaf
  BY DEF Unstacked, Tab, Leaf
<1>2. TypeOK'
  BY DEF Inv, TypeOK
<1>3. Listed'
  BY <1>1 DEF Inv, Listed, InUse, Covered, Whole, TableFreed, LeafFreed
<1>4. ShapeOK' /\ TeamsOK' /\ ReleaseOK'
  BY <1>1 DEF Inv, ShapeOK, TeamsOK, ReleaseOK, Alone
<1>5. CopyOK' /\ ThreadOK'
  BY <1>1 DEF Inv, CopyOK, ThreadOK, Copied, Alone
<1> QED
  BY <1>1, <1>2, <1>3, <1>4, <1>5 DEF Inv

(***************************************************************************)
(* release() frees page g of process c.  The rest of its memory, and the   *)
(* memory of the others as far as it is in order, does not contain g.      *)
(***************************************************************************)
LEMMA FreeListed ==
  ASSUME TypeOK, NEW g \in Pages,
         NEW F \in SUBSET Pages, IsList(page_free_list, pp_link, F), g \notin F,
         page_free(g)
  PROVE  /\ IsList(page_free_list', pp_link', F \cup {g})
         /\ page_free_list' \in Pages \cup {NULL}
         /\ pp_link' \in [Pages -> Pages \cup {NULL}]
<1>1. /\ page_free_list' = g
      /\ \A h \in Pages \ {g} : pp_link'[h] = pp_link[h]
      /\ pp_link'[g] = page_free_list
      /\ pp_link' \in [Pages -> Pages \cup {NULL}]
  BY DEF TypeOK, page_free
<1> QED
  BY <1>1, ListPush

\* What every step of release() has in common.
LEMMA ReleaseFacts ==
  ASSUME Inv, op.do = "release"
  PROVE  /\ TypeOK /\ op.proc \in Procs /\ cr3[op.proc] \in Pages
         /\ op.from = cr3[op.proc] /\ Whole(op.proc)
         /\ op.i \in 0 .. 3 /\ op.j \in 0 .. NR_PTE /\ NR_PTE \in Nat \ {0}
         /\ Unstacked = {} /\ NULL \notin Pages
         /\ \A q \in Procs : Whole(q) /\ q # op.proc => ~torn /\ team[q] # team[op.proc]
         /\ \A i \in Index : Tab[op.proc][i] = ent[op.from][i]
<1>1. TypeOK /\ ReleaseOK
  BY DEF Inv
<1>2. /\ op.proc \in Procs /\ op.i \in 0 .. 3 /\ op.j \in -1 .. NR_PTE
      /\ NR_PTE \in Nat \ {0} /\ NULL \notin Pages
  BY <1>1, OpTypes, PagesAreNumbers
<1>3. /\ cr3[op.proc] \in Pages /\ op.from = cr3[op.proc] /\ op.j \in 0 .. NR_PTE
      /\ cr3[op.proc] # NULL
  BY <1>1, <1>2 DEF ReleaseOK, TypeOK
<1>4. Whole(op.proc)
  BY <1>3 DEF Whole
<1>5. \A q \in Procs : Whole(q) /\ q # op.proc => ~torn /\ team[q] # team[op.proc]
  BY <1>1 DEF ReleaseOK, Whole, Alone
<1>6. Unstacked = {}
  BY DEF Unstacked
<1>7. \A i \in Index : Tab[op.proc][i] = ent[op.from][i]
  BY <1>1, <1>2, <1>3, TreeTypes
<1> QED
  BY <1>1, <1>2, <1>3, <1>4, <1>5, <1>6, <1>7

\* release(): a page of the table at hand.
LEMMA ReleasePageInv ==
  ASSUME Inv, ReleasePage
  PROVE  Inv'
<1>a. PICK c : c = op.proc
  OBVIOUS
<1>b. PICK m : m = op.j
  OBVIOUS
<1>c. PICK k : k = op.i
  OBVIOUS
<1>1. /\ op.do = "release" /\ TypeOK /\ c \in Procs /\ cr3[c] \in Pages /\ cr3[c] # NULL
      /\ op.from = cr3[c] /\ Whole(c) /\ Unstacked = {} /\ NULL \notin Pages
      /\ \A q \in Procs : Whole(q) /\ q # c => ~torn /\ team[q] # team[c]
      /\ \A i \in Index : Tab[c][i] = ent[op.from][i]
  <2>1. op.do = "release"
    BY DEF ReleasePage, Busy
  <2> QED
    BY <1>a, <2>1, ReleaseFacts
<1>2. k \in Index /\ m \in Index /\ m + 1 \in -1 .. NR_PTE /\ m + 1 >= 0 /\ k # 3
  <2>1. k \in 0 .. 3 /\ k < 3 /\ m \in 0 .. (NR_PTE - 1) /\ NR_PTE \in Nat \ {0}
    BY <1>b, <1>c, <1>1, ReleaseFacts DEF ReleasePage, PteLoop
  <2> QED
    BY <2>1 DEF Index
<1>3. Tab[c][k] # NULL /\ Leaf[c][k][m] = ent[ent[op.from][k]][m]
  BY <1>c, <1>1, <1>2, TreeTypes DEF ReleasePage
<1>4. /\ op' = [op EXCEPT !.j = m + 1]
      /\ cr3' = cr3 /\ team' = team /\ halted' = halted /\ torn' = torn
      /\ IF Leaf[c][k][m] = NULL THEN UNCHANGED <<page_free_list, pp_link, ent>>
                                 ELSE page_free(Leaf[c][k][m])
  BY <1>b, <1>c, <1>3 DEF ReleasePage
<1>5. /\ op'.do = "release" /\ op'.proc = c /\ op'.from = op.from
      /\ op'.i = k /\ op'.j = m + 1
  BY <1>a, <1>c, <1>1, <1>4 DEF TypeOK
<1>6. ent' = ent
  BY <1>4 DEF page_free
<1>7. Unstacked' = {} /\ Tab' = Tab /\ Leaf' = Leaf
  BY <1>4, <1>5, <1>6 DEF Unstacked, Tab, Leaf
<1>8. op' \in [do : {"boot", "idle", "copy", "thread", "release"}, proc : Procs,
             from : Pages \cup {NULL}, dir : Pages \cup {NULL},
             i : 0 .. 3, j : -1 .. NR_PTE]
  BY <1>1, <1>2, <1>4, OpTypes
<1>9. PICK F \in SUBSET Pages :
        IsList(page_free_list, pp_link, F) /\ InUse(F) /\ Covered(F)
  BY DEF Inv, Listed
<1>10. /\ \A p \in Procs : Whole(p)' <=> Whole(p)
       /\ \A p \in Procs, i \in Index : TableFreed(p, i)' <=> TableFreed(p, i)
       /\ \A p \in Procs, i, j \in Index :
            LeafFreed(p, i, j)' <=> LeafFreed(p, i, j) \/ (p = c /\ i = k /\ j = m)
       /\ ~LeafFreed(c, k, m)
  <2>1. \A i \in Index : i \in Int
    BY DEF Index
  <2>2. \A p \in Procs : Whole(p)' <=> Whole(p)
    BY <1>a, <1>1, <1>4, <1>5 DEF Whole
  <2>3. \A p \in Procs, i \in Index : TableFreed(p, i)' <=> TableFreed(p, i)
    BY <1>a, <1>c, <1>1, <1>5 DEF TableFreed
  <2>4. \A p \in Procs, i, j \in Index :
          LeafFreed(p, i, j)' <=> LeafFreed(p, i, j) \/ (p = c /\ i = k /\ j = m)
    BY <1>a, <1>b, <1>c, <1>1, <1>2, <1>5, <2>1 DEF LeafFreed
  <2>5. ~LeafFreed(c, k, m)
    BY <1>b, <1>c, <1>2, <2>1 DEF LeafFreed
  <2> QED
    BY <2>2, <2>3, <2>4, <2>5
<1>11. Listed' /\ TypeOK'
  <2>1. CASE Leaf[c][k][m] = NULL
    <3>1. UNCHANGED <<page_free_list, pp_link, ent>>
      BY <1>4, <2>1
    <3>2. InUse(F)'
      BY <1>4, <1>7, <1>9, <1>10, <2>1 DEF InUse
    <3>3. Covered(F)'
      BY <1>4, <1>7, <1>9 DEF Covered
    <3>4. TypeOK'
      BY <1>1, <1>4, <1>8, <3>1 DEF TypeOK
    <3> QED
      BY <1>9, <3>1, <3>2, <3>3, <3>4 DEF Listed
  <2>2. CASE Leaf[c][k][m] # NULL
    <3>1. PICK g : g = Leaf[c][k][m]
      OBVIOUS
    <3>2. g \in Pages /\ g \notin F /\ page_free(g) /\ g # NULL
      BY <1>1, <1>2, <1>4, <1>9, <1>10, <2>2, <3>1, TreeTypes DEF InUse
    <3>3. /\ IsList(page_free_list', pp_link', F \cup {g})
          /\ page_free_list' \in Pages \cup {NULL}
          /\ pp_link' \in [Pages -> Pages \cup {NULL}]
      BY <1>1, <1>9, <3>2, FreeListed
    <3>4. \A p \in Procs : Whole(p) =>
            /\ cr3[p] # g
            /\ \A i \in Index : Tab[p][i] # g
            /\ \A i, j \in Index : Leaf[p][i][j] = g => p = c /\ i = k /\ j = m
      <4>1. Apart(cr3, Tab, Leaf, team, {})
        BY <1>1 DEF Inv
      <4>2. \A p \in Procs : cr3[p] # g /\ \A i \in Index : Tab[p][i] # g
        BY <1>1, <1>2, <3>1, <3>2, <4>1 DEF Apart
      <4>3. \A p \in Procs, i, j \in Index : Leaf[p][i][j] = g =>
              k = i /\ m = j /\ Tab[p][i] = Tab[c][k]
        BY <1>1, <1>2, <3>1, <3>2, <4>1 DEF Apart
      <4>4. \A p \in Procs, i \in Index : Tab[p][i] = Tab[c][k] /\ p # c => team[p] = team[c]
        BY <1>1, <1>2, <1>3, <4>1 DEF Apart
      <4> QED
        BY <1>1, <4>2, <4>3, <4>4
    <3>5. InUse(F \cup {g})'
      BY <1>4, <1>7, <1>9, <1>10, <3>1, <3>4 DEF InUse
    <3>6. Covered(F \cup {g})'
      BY <1>4, <1>7, <1>9 DEF Covered
    <3>7. TypeOK'
      BY <1>1, <1>4, <1>6, <1>8, <3>3 DEF TypeOK
    <3>8. F \cup {g} \in SUBSET Pages
      BY <3>2
    <3> QED
      BY <3>3, <3>5, <3>6, <3>7, <3>8 DEF Listed
  <2> QED
    BY <2>1, <2>2
<1>12. Apart(cr3', Tab', Leaf', team', Unstacked')
  BY <1>1, <1>4, <1>7 DEF Inv
<1>13. ShapeOK' /\ TeamsOK'
  BY <1>1, <1>4, <1>5, <1>7 DEF Inv, ShapeOK, TeamsOK
<1>14. ReleaseOK'
  <2>1. ~torn => Alone(c)
    BY <1>a, <1>1 DEF Inv, ReleaseOK
  <2>2. ~torn' => Alone(c)'
    BY <1>4, <2>1 DEF Alone
  <2> QED
    BY <1>1, <1>2, <1>4, <1>5, <2>2 DEF ReleaseOK
<1>15. CopyOK' /\ ThreadOK'
  BY <1>5 DEF CopyOK, ThreadOK
<1> QED
  BY <1>5, <1>11, <1>12, <1>13, <1>14, <1>15 DEF Inv

\* release(): the table itself, when all its pages are free.
LEMMA ReleaseTableInv ==
  ASSUME Inv, ReleaseTable
  PROVE  Inv'
<1>a. PICK c : c = op.proc
  OBVIOUS
<1>b. PICK m : m = op.j
  OBVIOUS
<1>c. PICK k : k = op.i
  OBVIOUS
<1>1. /\ op.do = "release" /\ TypeOK /\ c \in Procs /\ cr3[c] \in Pages /\ cr3[c] # NULL
      /\ op.from = cr3[c] /\ Whole(c) /\ Unstacked = {} /\ NULL \notin Pages
      /\ \A q \in Procs : Whole(q) /\ q # c => ~torn /\ team[q] # team[c]
      /\ \A i \in Index : Tab[c][i] = ent[op.from][i]
  <2>1. op.do = "release"
    BY DEF ReleaseTable, Busy
  <2> QED
    BY <1>a, <2>1, ReleaseFacts
<1>2. /\ k \in Index /\ k + 1 \in 0 .. 3 /\ 0 \in -1 .. NR_PTE
      /\ NR_PTE \in Nat \ {0} /\ m \in 0 .. NR_PTE
  <2>1. k \in 0 .. 3 /\ k < 3 /\ NR_PTE \in Nat \ {0} /\ m \in 0 .. NR_PTE
    BY <1>b, <1>c, <1>1, ReleaseFacts DEF ReleaseTable
  <2> QED
    BY <2>1 DEF Index
<1>4. /\ op' = [op EXCEPT !.i = k + 1, !.j = 0]
      /\ cr3' = cr3 /\ team' = team /\ halted' = halted /\ torn' = torn
      /\ \/ Tab[c][k] = NULL /\ UNCHANGED <<page_free_list, pp_link, ent>>
         \/ Tab[c][k] # NULL /\ m = NR_PTE /\ page_free(Tab[c][k])
  BY <1>b, <1>c, <1>1, <1>2 DEF ReleaseTable
<1>5. /\ op'.do = "release" /\ op'.proc = c /\ op'.from = op.from
      /\ op'.i = k + 1 /\ op'.j = 0
  BY <1>a, <1>c, <1>1, <1>4 DEF TypeOK
<1>6. ent' = ent
  BY <1>4 DEF page_free
<1>7. Unstacked' = {} /\ Tab' = Tab /\ Leaf' = Leaf
  BY <1>4, <1>5, <1>6 DEF Unstacked, Tab, Leaf
<1>8. op' \in [do : {"boot", "idle", "copy", "thread", "release"}, proc : Procs,
             from : Pages \cup {NULL}, dir : Pages \cup {NULL},
             i : 0 .. 3, j : -1 .. NR_PTE]
  BY <1>1, <1>2, <1>4, OpTypes
<1>9. PICK F \in SUBSET Pages :
        IsList(page_free_list, pp_link, F) /\ InUse(F) /\ Covered(F)
  BY DEF Inv, Listed
<1>10. /\ \A p \in Procs : Whole(p)' <=> Whole(p)
       /\ \A p \in Procs, i \in Index :
            TableFreed(p, i)' <=> TableFreed(p, i) \/ (p = c /\ i = k)
       /\ \A p \in Procs, i, j \in Index : Leaf[p][i][j] # NULL =>
            (LeafFreed(p, i, j)' <=> LeafFreed(p, i, j))
       /\ ~TableFreed(c, k)
  <2>1. \A i \in Index : i \in Int /\ i >= 0
    BY DEF Index
  <2>2. \A p \in Procs : Whole(p)' <=> Whole(p)
    BY <1>a, <1>1, <1>4, <1>5 DEF Whole
  <2>3. \A p \in Procs, i \in Index :
          TableFreed(p, i)' <=> TableFreed(p, i) \/ (p = c /\ i = k)
    BY <1>a, <1>c, <1>1, <1>2, <1>5, <2>1 DEF TableFreed
  <2>4. \A p \in Procs, i, j \in Index : Leaf[p][i][j] # NULL =>
          (LeafFreed(p, i, j)' <=> LeafFreed(p, i, j))
    <3> SUFFICES ASSUME NEW p \in Procs, NEW i \in Index, NEW j \in Index,
                        Leaf[p][i][j] # NULL
                 PROVE  LeafFreed(p, i, j)' <=> LeafFreed(p, i, j)
      OBVIOUS
    <3>1. j < NR_PTE
      BY DEF Inv, ShapeOK
    <3>2. p = c /\ i = k => m = NR_PTE
      BY <1>1, <1>4, TreeTypes
    <3> QED
      BY <1>a, <1>b, <1>c, <1>1, <1>2, <1>5, <2>1, <3>1, <3>2 DEF LeafFreed
  <2>5. ~TableFreed(c, k)
    BY <1>c, <1>2, <2>1 DEF TableFreed
  <2> QED
    BY <2>2, <2>3, <2>4, <2>5
<1>11. Listed' /\ TypeOK'
  <2>1. CASE Tab[c][k] = NULL /\ UNCHANGED <<page_free_list, pp_link, ent>>
    <3>2. InUse(F)'
      BY <1>4, <1>7, <1>9, <1>10, <2>1 DEF InUse
    <3>3. Covered(F)'
      BY <1>4, <1>7, <1>9 DEF Covered
    <3>4. TypeOK'
      BY <1>1, <1>4, <1>8, <2>1 DEF TypeOK
    <3> QED
      BY <1>9, <2>1, <3>2, <3>3, <3>4 DEF Listed
  <2>2. CASE Tab[c][k] # NULL /\ page_free(Tab[c][k])
    <3>1. PICK g : g = Tab[c][k]
      OBVIOUS
    <3>2. g \in Pages /\ g \notin F /\ page_free(g) /\ g # NULL
      BY <1>1, <1>2, <1>9, <1>10, <2>2, <3>1, TreeTypes DEF InUse
    <3>3. /\ IsList(page_free_list', pp_link', F \cup {g})
          /\ page_free_list' \in Pages \cup {NULL}
          /\ pp_link' \in [Pages -> Pages \cup {NULL}]
      BY <1>1, <1>9, <3>2, FreeListed
    <3>4. \A p \in Procs : Whole(p) =>
            /\ cr3[p] # g
            /\ \A i \in Index : Tab[p][i] = g => p = c /\ i = k
            /\ \A i, j \in Index : Leaf[p][i][j] # g
      <4>1. Apart(cr3, Tab, Leaf, team, {})
        BY <1>1 DEF Inv
      <4>2. \A p \in Procs : cr3[p] # g
        BY <1>1, <1>2, <3>1, <3>2, <4>1 DEF Apart
      <4>3. \A p \in Procs, i \in Index : Tab[p][i] = g =>
              k = i /\ (p # c => team[p] = team[c])
        BY <1>1, <1>2, <3>1, <3>2, <4>1 DEF Apart
      <4>4. \A p \in Procs, i, j \in Index : Leaf[p][i][j] # g
        BY <1>1, <1>2, <3>1, <3>2, <4>1 DEF Apart
      <4> QED
        BY <1>1, <4>2, <4>3, <4>4
    <3>5. InUse(F \cup {g})'
      BY <1>4, <1>7, <1>9, <1>10, <3>1, <3>4 DEF InUse
    <3>6. Covered(F \cup {g})'
      BY <1>4, <1>7, <1>9 DEF Covered
    <3>7. TypeOK'
      BY <1>1, <1>4, <1>6, <1>8, <3>3 DEF TypeOK
    <3>8. F \cup {g} \in SUBSET Pages
      BY <3>2
    <3> QED
      BY <3>3, <3>5, <3>6, <3>7, <3>8 DEF Listed
  <2> QED
    BY <1>4, <2>1, <2>2
<1>12. Apart(cr3', Tab', Leaf', team', Unstacked')
  BY <1>1, <1>4, <1>7 DEF Inv
<1>13. ShapeOK' /\ TeamsOK'
  BY <1>1, <1>4, <1>5, <1>7 DEF Inv, ShapeOK, TeamsOK
<1>14. ReleaseOK'
  <2>1. ~torn => Alone(c)
    BY <1>a, <1>1 DEF Inv, ReleaseOK
  <2>2. ~torn' => Alone(c)'
    BY <1>4, <2>1 DEF Alone
  <2> QED
    BY <1>1, <1>2, <1>4, <1>5, <2>2 DEF ReleaseOK
<1>15. CopyOK' /\ ThreadOK'
  BY <1>5 DEF CopyOK, ThreadOK
<1> QED
  BY <1>5, <1>11, <1>12, <1>13, <1>14, <1>15 DEF Inv

\* release(): at last the directory.  The process has gone, and all it had is
\* free.
LEMMA ReleaseDirInv ==
  ASSUME Inv, ReleaseDir
  PROVE  Inv'
<1>a. PICK c : c = op.proc
  OBVIOUS
<1>1. /\ op.do = "release" /\ TypeOK /\ c \in Procs /\ cr3[c] \in Pages /\ cr3[c] # NULL
      /\ op.from = cr3[c] /\ Whole(c) /\ Unstacked = {} /\ NULL \notin Pages
      /\ \A q \in Procs : Whole(q) /\ q # c => ~torn /\ team[q] # team[c]
  <2>1. op.do = "release"
    BY DEF ReleaseDir, Busy
  <2> QED
    BY <1>a, <2>1, ReleaseFacts
<1>b. PICK g : g = cr3[c]
  OBVIOUS
<1>2. /\ op.i = 3 /\ op' = Idle /\ page_free(g)
      /\ cr3' = [cr3 EXCEPT ![c] = NULL]
      /\ team' = team /\ halted' = halted /\ torn' = torn
  BY <1>a, <1>b, <1>1 DEF ReleaseDir
<1>3. op'.do = "idle" /\ Unstacked' = {}
  BY <1>2 DEF Idle, Unstacked
<1>4. /\ \A q \in Procs : cr3'[q] = IF q = c THEN NULL ELSE cr3[q]
      /\ cr3' \in [Procs -> Pages \cup {NULL}]
  BY <1>1, <1>2 DEF TypeOK
<1>5. ent' = ent
  BY <1>2 DEF page_free
<1>6. /\ \A q \in Procs, i \in Index : Tab'[q][i] = IF q = c THEN NULL ELSE Tab[q][i]
      /\ \A q \in Procs, i, j \in Index :
           Leaf'[q][i][j] = IF q = c THEN NULL ELSE Leaf[q][i][j]
  <2>1. \A q \in Procs, i \in Index : Tab'[q][i] = IF q = c THEN NULL ELSE Tab[q][i]
    BY <1>4, <1>5 DEF Tab
  <2>2. \A q \in Procs, i, j \in Index :
          Leaf'[q][i][j] = IF q = c THEN NULL ELSE Leaf[q][i][j]
    BY <1>5, <2>1 DEF Leaf
  <2> QED
    BY <2>1, <2>2
<1>7. PICK F \in SUBSET Pages :
        IsList(page_free_list, pp_link, F) /\ InUse(F) /\ Covered(F)
  BY DEF Inv, Listed
<1>8. g \in Pages /\ g \notin F /\ g # NULL
  BY <1>b, <1>1, <1>7 DEF InUse
<1>9. /\ IsList(page_free_list', pp_link', F \cup {g})
      /\ page_free_list' \in Pages \cup {NULL}
      /\ pp_link' \in [Pages -> Pages \cup {NULL}]
  BY <1>1, <1>2, <1>7, <1>8, FreeListed
<1>10. TypeOK'
  BY <1>1, <1>2, <1>4, <1>5, <1>9, OpTypes DEF TypeOK
<1>11. Apart(cr3, Tab, Leaf, team, {})
  BY <1>1 DEF Inv
<1>12. Apart(cr3', Tab', Leaf', team', Unstacked')
  <2>1. \A p, q \in Procs : cr3'[p] = cr3'[q] /\ cr3'[p] # NULL => p = q
    BY <1>4, <1>11 DEF Apart
  <2>2. \A p, q \in Procs, i, k \in Index : Tab'[p][i] # NULL =>
          /\ Tab'[p][i] # cr3'[q]
          /\ Tab'[p][i] = Tab'[q][k] =>
               i = k /\ (p # q => team[p] = team[q] /\ i # StackDir)
    BY <1>4, <1>6, <1>11 DEF Apart
  <2>3. \A p, q \in Procs, i, j, k, m \in Index : Leaf'[p][i][j] # NULL =>
          /\ Leaf'[p][i][j] # cr3'[q] /\ Leaf'[p][i][j] # Tab'[q][k]
          /\ Leaf'[p][i][j] = Leaf'[q][k][m] =>
               i = k /\ j = m /\ Tab'[p][i] = Tab'[q][k]
    BY <1>4, <1>6, <1>11 DEF Apart
  <2>4. 0 \in Index
    BY PagesAreNumbers
  <2> QED
    BY <1>2, <1>3, <2>1, <2>2, <2>3, <2>4 DEF Apart
<1>13. Listed'
  <2>0. \A i, j \in Index : /\ Tab[c][i] # NULL => i < 3
                            /\ Leaf[c][i][j] # NULL => Tab[c][i] # NULL
    BY <1>1, <1>a, TreeTypes DEF Inv, ShapeOK
  <2>1. \A i, j \in Index : /\ Tab[c][i] # NULL => Tab[c][i] \in F
                            /\ Leaf[c][i][j] # NULL => Leaf[c][i][j] \in F
    BY <1>a, <1>1, <1>2, <1>7, <2>0 DEF InUse, TableFreed, LeafFreed
  <2>2. Covered(F \cup {g})'
    <3> SUFFICES ASSUME NEW v \in Pages, v \notin F, v # g
                 PROVE  Owned(v, cr3', Tab', Leaf')
      BY DEF Covered
    <3>1. v # NULL /\ Owned(v, cr3, Tab, Leaf)
      BY <1>1, <1>7 DEF Covered
    <3>2. PICK p \in Procs : \/ v = cr3[p]
                             \/ \E i \in Index : v = Tab[p][i]
                             \/ \E i, j \in Index : v = Leaf[p][i][j]
      BY <3>1 DEF Owned
    <3>3. p # c
      BY <1>b, <2>1, <3>1, <3>2
    <3> QED
      BY <1>4, <1>6, <3>2, <3>3 DEF Owned
  <2>3. InUse(F \cup {g})'
    <3> SUFFICES ASSUME NEW p \in Procs, Whole(p)'
                 PROVE  /\ cr3'[p] \notin F \cup {g}
                        /\ \A i \in Index : Tab'[p][i] # NULL => Tab'[p][i] \notin F \cup {g}
                        /\ \A i, j \in Index : Leaf'[p][i][j] # NULL =>
                             Leaf'[p][i][j] \notin F \cup {g}
      BY <1>3 DEF InUse, TableFreed, LeafFreed
    <3>1. p # c /\ ~torn /\ Whole(p)
      BY <1>1, <1>2, <1>3, <1>4 DEF Whole
    <3>2. cr3[p] # g /\ \A i, j \in Index :
            (Tab[p][i] # NULL => Tab[p][i] # g) /\ (Leaf[p][i][j] # NULL => Leaf[p][i][j] # g)
      BY <1>b, <1>1, <1>11, <3>1 DEF Apart
    <3>3. /\ cr3[p] \notin F
          /\ \A i \in Index : Tab[p][i] # NULL => Tab[p][i] \notin F
          /\ \A i, j \in Index : Leaf[p][i][j] # NULL => Leaf[p][i][j] \notin F
      BY <1>a, <1>7, <3>1 DEF InUse, TableFreed, LeafFreed
    <3>4. 0 \in Index
      BY PagesAreNumbers
    <3> QED
      BY <1>4, <1>6, <3>1, <3>2, <3>3, <3>4
  <2>4. F \cup {g} \in SUBSET Pages
    BY <1>8
  <2> QED
    BY <1>9, <2>2, <2>3, <2>4 DEF Listed
<1>14. ShapeOK'
  <2>1. ShapeOK
    BY DEF Inv
  <2> QED
    BY <1>1, <1>3, <1>4, <1>6, <2>1, PagesAreNumbers DEF ShapeOK, StackDir
<1>15. TeamsOK'
  <2>1. TeamsOK /\ ReleaseOK /\ team \in [Procs -> Procs]
    BY <1>1 DEF Inv, TypeOK
  <2> SUFFICES ASSUME ~torn, NEW q \in Procs, cr3'[q] # NULL
               PROVE  cr3'[team[q]] # NULL /\ team[team[q]] = team[q]
    BY <1>2 DEF TeamsOK
  <2>2. q # c /\ cr3[q] # NULL /\ team[q] # team[c]
    BY <1>a, <1>1, <1>4, <2>1 DEF ReleaseOK, Alone
  <2>3. cr3[team[q]] # NULL /\ team[team[q]] = team[q] /\ team[q] \in Procs
    BY <2>1, <2>2 DEF TeamsOK
  <2> QED
    BY <1>4, <2>2, <2>3
<1>16. CopyOK' /\ ThreadOK' /\ ReleaseOK'
  BY <1>3 DEF CopyOK, ThreadOK, ReleaseOK
<1> QED
  BY <1>3, <1>10, <1>12, <1>13, <1>14, <1>15, <1>16 DEF Inv

-----------------------------------------------------------------------------
LEMMA NextInv == Inv /\ [Next]_vars => Inv'
<1> SUFFICES ASSUME Inv, [Next]_vars PROVE Inv'
  OBVIOUS
<1>1. ASSUME NEW p \in Procs, NEW c \in Procs, Fork(p, c) PROVE Inv'
  BY <1>1, ForkInv
<1>2. ASSUME NEW p \in Procs, NEW c \in Procs, CreateThread(p, c) PROVE Inv'
  BY <1>2, CreateThreadInv
<1>3. ASSUME NEW p \in Procs, Exit(p) PROVE Inv'
  BY <1>3, ExitInv
<1>4. CASE CopyTable
  BY <1>4, CopyTableInv
<1>5. CASE CopyPage
  BY <1>5, CopyPageInv
<1>6. CASE CopyNext
  BY <1>6, CopyNextInv
<1>7. CASE CopyDone
  BY <1>7, CopyDoneInv
<1>8. CASE ThreadTable
  BY <1>8, ThreadTableInv
<1>9. CASE ThreadPage
  BY <1>9, ThreadPageInv
<1>10. CASE ReleasePage
  BY <1>10, ReleasePageInv
<1>11. CASE ReleaseTable
  BY <1>11, ReleaseTableInv
<1>12. CASE ReleaseDir
  BY <1>12, ReleaseDirInv
<1>13. CASE OutOfMemory
  <2>1. halted' \in BOOLEAN
    BY <1>13 DEF OutOfMemory
  <2> QED
    BY <1>13, <2>1, SameInv DEF OutOfMemory
<1>14. CASE UNCHANGED vars
  <2>1. halted' \in BOOLEAN
    BY <1>14 DEF Inv, TypeOK, vars
  <2> QED
    BY <1>14, <2>1, SameInv DEF vars
<1>15. CASE NoCall
  BY <1>14, <1>15 DEF NoCall
<1> QED
  BY <1>1, <1>2, <1>3, <1>4, <1>5, <1>6, <1>7, <1>8, <1>9, <1>10, <1>11, <1>12,
     <1>13, <1>14, <1>15 DEF Next

\* The loader has given the game its tables, and the rest is on the list.
LEMMA InitInv == Init => Inv
<1> SUFFICES ASSUME Init PROVE Inv
  OBVIOUS
<1> DEFINE N == NPages
           n == NPages - 3 - NR_PTE
<1>1. /\ NR_PTE \in Nat \ {0} /\ N \in Nat /\ N >= NR_PTE + 3 /\ n \in Nat
      /\ 1 \in Procs /\ NULL = 0
      /\ Index \subseteq Nat /\ {0, 1, 2} \subseteq Index /\ 0 .. (NR_PTE - 1) \subseteq Index
      /\ Pages = 1 .. (N + 3) /\ NULL \notin Pages
      /\ updir = N + 1 /\ vdtable = N + 2 /\ VMEM = N + 3 /\ StackTable = N - 2
      /\ VideoDir = 0 /\ TextDir = 1 /\ StackDir = 2
  <2>1. NR_PTE \in Nat \ {0} /\ N \in Nat /\ N >= NR_PTE + 3 /\ 1 \in Procs
    BY MemAssumption
  <2>2. n \in Nat
    BY <2>1
  <2> QED
    BY <2>1, <2>2, PagesAreNumbers
       DEF updir, vdtable, VMEM, StackTable, VideoDir, TextDir, StackDir
<1>2. /\ page_free_list = n
      /\ pp_link = [g \in Pages |-> IF g <= n THEN g - 1 ELSE NULL]
      /\ cr3 = [p \in Procs |-> IF p = 1 THEN N + 1 ELSE NULL]
      /\ team = [p \in Procs |-> p] /\ op = Idle /\ halted = FALSE /\ torn = FALSE
  BY <1>1 DEF Init
<1>3. /\ ent \in [Pages -> [Index -> Pages \cup {NULL}]]
      /\ \A i \in Index :
           /\ ent[N + 1][i] = IF i = 0 THEN N + 2 ELSE IF i = 1 THEN N
                              ELSE IF i = 2 THEN N - 2 ELSE NULL
           /\ ent[N + 2][i] = IF i = 0 THEN N + 3 ELSE NULL
           /\ ent[N][i] = IF i = 0 THEN N - 1 ELSE NULL
           /\ ent[N - 2][i] = IF i < NR_PTE THEN N - 3 - i ELSE NULL
  <2> DEFINE d  == [i \in Index |-> CASE i = VideoDir -> vdtable
                                      [] i = TextDir  -> NPages
                                      [] i = StackDir -> StackTable
                                      [] OTHER        -> NULL]
             st == [i \in Index |-> IF i < NR_PTE THEN StackTable - 1 - i ELSE NULL]
  <2>1. /\ updir \in Pages /\ vdtable \in Pages /\ NPages \in Pages /\ StackTable \in Pages
        /\ updir # vdtable /\ updir # NPages /\ updir # StackTable
        /\ vdtable # NPages /\ vdtable # StackTable /\ NPages # StackTable
        /\ VMEM \in Pages /\ NPages - 1 \in Pages
        /\ 0 \in Index /\ 1 \in Index /\ 2 \in Index
    BY <1>1
  <2>2. /\ d \in [Index -> Pages \cup {NULL}]
        /\ \A i \in Index : d[i] = IF i = 0 THEN N + 2 ELSE IF i = 1 THEN N
                                    ELSE IF i = 2 THEN N - 2 ELSE NULL
    <3>1. ASSUME NEW i \in Index
          PROVE  d[i] = IF i = 0 THEN N + 2 ELSE IF i = 1 THEN N
                        ELSE IF i = 2 THEN N - 2 ELSE NULL
      <4>1. CASE i = 0
        BY <1>1, <4>1
      <4>2. CASE i = 1
        BY <1>1, <4>2
      <4>3. CASE i = 2
        BY <1>1, <4>3
      <4>4. CASE i \notin {0, 1, 2}
        BY <1>1, <4>4
      <4> QED
        BY <4>1, <4>2, <4>3, <4>4
    <3>2. d = [i \in Index |-> d[i]]
      OBVIOUS
    <3> HIDE DEF d
    <3> QED
      BY <1>1, <2>1, <3>1, <3>2
  <2>3. st \in [Index -> Pages \cup {NULL}]
        /\ \A i \in Index : st[i] = IF i < NR_PTE THEN N - 3 - i ELSE NULL
    BY <1>1
  <2>4. /\ Zeroed \in [Index -> Pages \cup {NULL}]
        /\ \A i \in Index : Zeroed[i] = NULL
    BY DEF Zeroed
  <2>5. ent = [[g \in Pages |-> Zeroed] EXCEPT
                 ![updir] = d, ![vdtable][0] = VMEM,
                 ![NPages][0] = NPages - 1, ![StackTable] = st]
    BY DEF Init
  <2> HIDE DEF d, st
  <2>6. ent = [g \in Pages |-> IF g = StackTable THEN st
                               ELSE IF g = NPages THEN [Zeroed EXCEPT ![0] = NPages - 1]
                               ELSE IF g = vdtable THEN [Zeroed EXCEPT ![0] = VMEM]
                               ELSE IF g = updir THEN d ELSE Zeroed]
    BY <2>1, <2>5
  <2>7. ent \in [Pages -> [Index -> Pages \cup {NULL}]]
    BY <2>1, <2>2, <2>3, <2>4, <2>6
  <2>8. /\ ent[updir] = d /\ ent[vdtable] = [Zeroed EXCEPT ![0] = VMEM]
        /\ ent[NPages] = [Zeroed EXCEPT ![0] = NPages - 1] /\ ent[StackTable] = st
    BY <2>1, <2>6
  <2> QED
    BY <1>1, <2>1, <2>2, <2>3, <2>4, <2>7, <2>8
<1> HIDE DEF N, n
<1>4. TypeOK
  <2>1. page_free_list \in Pages \cup {NULL}
    BY <1>1, <1>2 DEF n, N
  <2>2. pp_link \in [Pages -> Pages \cup {NULL}]
    BY <1>1, <1>2
  <2>3. cr3 \in [Procs -> Pages \cup {NULL}] /\ team \in [Procs -> Procs]
    BY <1>1, <1>2
  <2>4. op \in [do : {"boot", "idle", "copy", "thread", "release"}, proc : Procs,
             from : Pages \cup {NULL}, dir : Pages \cup {NULL},
             i : 0 .. 3, j : -1 .. NR_PTE]
    BY <1>1, <1>2 DEF Idle
  <2> QED
    BY <1>2, <1>3, <2>1, <2>2, <2>3, <2>4 DEF TypeOK
<1>5. op.do = "idle" /\ Unstacked = {}
  BY <1>2 DEF Idle, Unstacked
<1>6. /\ \A p \in Procs : cr3[p] = IF p = 1 THEN N + 1 ELSE NULL
      /\ \A p \in Procs, i \in Index :
           Tab[p][i] = IF p # 1 THEN NULL ELSE IF i = 0 THEN N + 2
                       ELSE IF i = 1 THEN N ELSE IF i = 2 THEN N - 2 ELSE NULL
  BY <1>1, <1>2, <1>3, <1>4, TreeTypes
<1>7. \A p \in Procs, i, j \in Index :
        Leaf[p][i][j] = IF p # 1 THEN NULL
                        ELSE IF i = 2 THEN (IF j < NR_PTE THEN N - 3 - j ELSE NULL)
                        ELSE IF j # 0 \/ i > 2 THEN NULL
                        ELSE IF i = 0 THEN N + 3 ELSE N - 1
  <2> SUFFICES ASSUME NEW p \in Procs, NEW i \in Index, NEW j \in Index
               PROVE  Leaf[p][i][j] = IF p # 1 THEN NULL
                        ELSE IF i = 2 THEN (IF j < NR_PTE THEN N - 3 - j ELSE NULL)
                        ELSE IF j # 0 \/ i > 2 THEN NULL
                        ELSE IF i = 0 THEN N + 3 ELSE N - 1
    OBVIOUS
  <2>1. /\ Tab[p][i] = NULL => Leaf[p][i][j] = NULL
        /\ Tab[p][i] # NULL => Leaf[p][i][j] = ent[Tab[p][i]][j]
    BY <1>4, TreeTypes
  <2>2. j \in Nat /\ i \in Nat
    BY <1>1
  <2>3. CASE p # 1
    BY <1>6, <2>1, <2>3
  <2>4. CASE p = 1 /\ i = 0
    <3>1. Tab[p][i] = N + 2 /\ N + 2 # NULL
      BY <1>1, <1>6, <2>4
    <3> QED
      BY <1>1, <1>3, <2>1, <2>2, <2>4, <3>1
  <2>5. CASE p = 1 /\ i = 1
    <3>1. Tab[p][i] = N /\ N # NULL
      BY <1>1, <1>6, <2>5
    <3> QED
      BY <1>1, <1>3, <2>1, <2>2, <2>5, <3>1
  <2>6. CASE p = 1 /\ i = 2
    <3>1. Tab[p][i] = N - 2 /\ N - 2 # NULL
      BY <1>1, <1>6, <2>6
    <3> QED
      BY <1>1, <1>3, <2>1, <2>2, <2>6, <3>1
  <2>7. CASE p = 1 /\ i > 2
    BY <1>6, <2>1, <2>2, <2>7
  <2> QED
    BY <2>2, <2>3, <2>4, <2>5, <2>6, <2>7
<1>8. Apart(cr3, Tab, Leaf, team, Unstacked)
  <2>0. N \in Int /\ N >= NR_PTE + 3 /\ NR_PTE \in Nat \ {0}
    BY <1>1
  <2>1. \A p, q \in Procs : cr3[p] = cr3[q] /\ cr3[p] # NULL => p = q
    BY <1>1, <1>6
  <2>2. ASSUME NEW p \in Procs, NEW q \in Procs, NEW i \in Index, NEW k \in Index,
               Tab[p][i] # NULL
        PROVE  Tab[p][i] # cr3[q] /\ (Tab[p][i] = Tab[q][k] => i = k /\ p = q)
    <3>1. p = 1 /\ i \in {0, 1, 2} /\ k \in Nat
      BY <1>1, <1>6, <2>2
    <3> QED
      BY <1>1, <1>6, <2>0, <3>1
  <2>3. ASSUME NEW p \in Procs, NEW q \in Procs, NEW i \in Index, NEW j \in Index,
               NEW k \in Index, NEW m \in Index, Leaf[p][i][j] # NULL
        PROVE  /\ Leaf[p][i][j] # cr3[q] /\ Leaf[p][i][j] # Tab[q][k]
               /\ Leaf[p][i][j] = Leaf[q][k][m] => i = k /\ j = m /\ p = q
    <3>1. p = 1 /\ i \in {0, 1, 2} /\ k \in Nat /\ j \in Nat /\ m \in Nat
      BY <1>1, <1>7, <2>3
    <3>2. q # 1 => cr3[q] = NULL /\ Tab[q][k] = NULL /\ Leaf[q][k][m] = NULL
      BY <1>6, <1>7
    <3>3. CASE q = 1
      <4>1. cr3[q] = N + 1 /\ Tab[q][k] \in {N + 2, N, N - 2, NULL}
        BY <1>6, <3>3
      <4>2. Leaf[p][i][j] \in {N + 3, N - 1, N - 3 - j} /\ N - 3 - j < N - 2
        BY <1>7, <2>0, <2>3, <3>1
      <4>3. Leaf[p][i][j] = Leaf[q][k][m] => i = k /\ j = m
        <5>1. Leaf[p][i][j] = IF i = 2 THEN N - 3 - j ELSE IF i = 0 THEN N + 3 ELSE N - 1
          BY <1>7, <2>3, <3>1
        <5>2. i # 2 => j = 0
          BY <1>7, <2>3, <3>1
        <5>3. Leaf[q][k][m] # NULL =>
                /\ k \in {0, 1, 2} /\ (k # 2 => m = 0)
                /\ Leaf[q][k][m] = IF k = 2 THEN N - 3 - m ELSE IF k = 0 THEN N + 3 ELSE N - 1
          BY <1>7, <3>1, <3>3
        <5> QED
          BY <2>0, <2>3, <3>1, <5>1, <5>2, <5>3
      <4> QED
        BY <2>0, <2>3, <3>1, <3>3, <4>1, <4>2, <4>3
    <3> QED
      BY <2>3, <3>2, <3>3
  <2>4. 0 \in Index
    BY <1>1
  <2> QED
    BY <1>5, <2>1, <2>2, <2>3, <2>4 DEF Apart
<1>9. Listed
  <2>1. \A v \in Pages : v \in 1 .. n <=> ~Owned(v, cr3, Tab, Leaf)
    <3>1. ASSUME NEW v \in 1 .. n PROVE ~Owned(v, cr3, Tab, Leaf)
      <4>0. /\ v \in Nat /\ v # NULL /\ N \in Nat /\ NR_PTE \in Nat
            /\ v + NR_PTE + 3 <= N /\ Index \subseteq Nat
        BY <1>1 DEF n, N
      <4>1. \A p \in Procs : v # cr3[p]
        BY <1>6, <4>0
      <4>2. \A p \in Procs, i \in Index : v # Tab[p][i]
        BY <1>6, <4>0
      <4>3. \A p \in Procs, i, j \in Index : v # Leaf[p][i][j]
        BY <1>7, <4>0
      <4> QED
        BY <4>1, <4>2, <4>3 DEF Owned
    <3>2. ASSUME NEW v \in Pages, v > n PROVE Owned(v, cr3, Tab, Leaf)
      <4>1. /\ cr3[1] = N + 1 /\ Tab[1][0] = N + 2 /\ Tab[1][1] = N /\ Tab[1][2] = N - 2
            /\ Leaf[1][0][0] = N + 3 /\ Leaf[1][1][0] = N - 1
            /\ \A j \in Index : j < NR_PTE => Leaf[1][2][j] = N - 3 - j
        BY <1>1, <1>6, <1>7
      <4>2. \/ v \in {N + 1, N + 2, N, N - 2, N + 3, N - 1}
            \/ \E j \in Index : j < NR_PTE /\ v = N - 3 - j
        <5>1. v \in 1 .. (N + 3) /\ v > N - 3 - NR_PTE
          BY <1>1, <3>2 DEF n, N
        <5>2. CASE v > N - 3
          BY <1>1, <5>1, <5>2
        <5>3. CASE v <= N - 3
          <6>1. N - 3 - v \in Index /\ N - 3 - v < NR_PTE /\ v = N - 3 - (N - 3 - v)
            BY <1>1, <5>1, <5>3
          <6> QED
            BY <6>1
        <5> QED
          BY <1>1, <5>1, <5>2, <5>3
      <4>3. 0 \in Index /\ 1 \in Index /\ 2 \in Index
        BY <1>1
      <4>4. CASE v \in {N + 1, N + 2, N, N - 2, N + 3, N - 1}
        BY <1>1, <4>1, <4>3, <4>4 DEF Owned
      <4>5. CASE \E j \in Index : j < NR_PTE /\ v = N - 3 - j
        BY <1>1, <4>1, <4>3, <4>5 DEF Owned
      <4> QED
        BY <4>2, <4>4, <4>5
    <3> QED
      BY <1>1, <3>1, <3>2
  <2>2. 1 .. n \in SUBSET Pages
    BY <1>1 DEF n, N
  <2>3. IsList(page_free_list, pp_link, 1 .. n)
    <3> DEFINE f == [k \in 1 .. n |-> k]
    <3>1. f \in [1 .. n -> Pages] /\ 1 .. n = {f[k] : k \in 1 .. n}
      BY <2>2
    <3>2. Stack(page_free_list, pp_link, n, f)
      <4>1. \A k \in 1 .. n : f[k] = k /\ k \in Pages /\ k <= n
        BY <2>2
      <4>2. n # 0 => n \in 1 .. n
        BY <1>1
      <4>3. \A k \in 1 .. n : pp_link[k] = IF k = 1 THEN NULL ELSE f[k - 1]
        <5> SUFFICES ASSUME NEW k \in 1 .. n
                     PROVE  pp_link[k] = IF k = 1 THEN NULL ELSE f[k - 1]
          OBVIOUS
        <5>1. pp_link[k] = k - 1
          BY <1>2, <4>1
        <5>2. k # 1 => k - 1 \in 1 .. n
          BY <1>1
        <5> QED
          BY <1>1, <4>1, <5>1, <5>2
      <4> HIDE DEF f
      <4> QED
        BY <1>1, <1>2, <4>1, <4>2, <4>3 DEF Stack
    <3> QED
      BY <1>1, <3>1, <3>2 DEF IsList
  <2>4. InUse(1 .. n)
    BY <1>5, <2>1, <2>2 DEF InUse, Owned, TableFreed, LeafFreed
  <2>5. Covered(1 .. n)
    BY <2>1 DEF Covered
  <2> QED
    BY <2>2, <2>3, <2>4, <2>5 DEF Listed
<1>10. ShapeOK
  BY <1>1, <1>6, <1>7 DEF ShapeOK
<1>11. TeamsOK /\ CopyOK /\ ThreadOK /\ ReleaseOK
  BY <1>2, <1>5 DEF TeamsOK, CopyOK, ThreadOK, ReleaseOK
<1> QED
  BY <1>4, <1>5, <1>8, <1>9, <1>10, <1>11 DEF Inv

\* So the invariant holds at every page that copy, thread_copy and release
\* come to.
LEMMA SpecInv == Spec => []Inv
  BY InitInv, NextInv, PTL DEF Spec

-----------------------------------------------------------------------------
\* A non-empty set of numbers has a least one.
LEMMA LeastExists ==
  ASSUME NEW S \in SUBSET Nat, S # {}
  PROVE  \E x \in S : \A y \in S : x <= y
<1> DEFINE R == OpToRel(<, Nat)
<1>1. IsWellFoundedOn(R, Nat)
  BY NatLessThanWellFounded
<1>2. PICK x \in S : \A y \in S : ~(<<y, x>> \in R)
  <2> HIDE DEF R
  <2> QED
    BY <1>1, WFMin
<1>3. ASSUME NEW y \in S PROVE x <= y
  <2>1. x \in Nat /\ y \in Nat
    OBVIOUS
  <2>2. ~(y < x)
    BY <1>2, <2>1 DEF OpToRel
  <2> QED
    BY <2>1, <2>2
<1> QED
  BY <1>2, <1>3

\* Following the links from the head visits f from its end to its beginning.
LEMMA ChainIsStack ==
  ASSUME NEW n \in Nat, NEW f \in [1 .. n -> Pages],
         Stack(page_free_list, pp_link, n, f)
  PROVE  \A k \in 0 .. Cardinality(Pages) :
           Chain[k] = IF k < n THEN f[n - k] ELSE NULL
<1> DEFINE C == Cardinality(Pages)
           w == [k \in 0 .. C |-> IF k < n THEN f[n - k] ELSE NULL]
<1>1. C \in Nat /\ NULL \notin Pages
  BY PagesAreNumbers
<1> HIDE DEF C
<1>2. w = [k \in 0 .. C |-> IF k = 0 THEN page_free_list
            ELSE LET g == w[k - 1] IN IF g = NULL THEN NULL ELSE pp_link[g]]
  <2> SUFFICES ASSUME NEW k \in 0 .. C
               PROVE  w[k] = IF k = 0 THEN page_free_list
                             ELSE IF w[k - 1] = NULL THEN NULL ELSE pp_link[w[k - 1]]
    OBVIOUS
  <2>1. CASE k = 0
    BY <1>1, <2>1 DEF Stack
  <2>2. CASE k # 0 /\ k - 1 < n
    <3>1. n - (k - 1) \in 1 .. n /\ k - 1 \in 0 .. C /\ k \in Int /\ k >= 1
      BY <1>1, <2>2
    <3>2. w[k - 1] = f[n - (k - 1)] /\ w[k - 1] \in Pages /\ w[k - 1] # NULL
      BY <1>1, <2>2, <3>1
    <3>3. pp_link[f[n - (k - 1)]] =
            IF n - (k - 1) = 1 THEN NULL ELSE f[n - (k - 1) - 1]
      BY <3>1 DEF Stack
    <3>4. n - (k - 1) - 1 = n - k /\ (n - (k - 1) = 1 <=> ~(k < n))
      BY <2>2, <3>1
    <3> QED
      BY <2>2, <3>2, <3>3, <3>4
  <2>3. CASE k # 0 /\ ~(k - 1 < n)
    BY <1>1, <2>3
  <2> QED
    BY <2>1, <2>2, <2>3
<1>3. Chain = [k \in 0 .. C |-> IF k = 0 THEN page_free_list
                ELSE LET g == Chain[k - 1] IN IF g = NULL THEN NULL ELSE pp_link[g]]
  <2> HIDE DEF w
  <2> QED
    BY <1>2 DEF Chain, C
<1>4. \A k \in 0 .. C : Chain[k] = w[k]
  <2> DEFINE S == {k \in 0 .. C : Chain[k] # w[k]}
  <2> SUFFICES ASSUME S # {} PROVE FALSE
    OBVIOUS
  <2>1. S \in SUBSET Nat
    BY <1>1
  <2>2. PICK x \in S : \A y \in S : x <= y
    <3> HIDE DEF S
    <3> QED
      BY <2>1, LeastExists
  <2>3. x \in 0 .. C /\ Chain[x] # w[x]
    OBVIOUS
  <2>a. \A k \in 0 .. C : Chain[k] = IF k = 0 THEN page_free_list
          ELSE IF Chain[k - 1] = NULL THEN NULL ELSE pp_link[Chain[k - 1]]
    BY <1>3
  <2>b. \A k \in 0 .. C : w[k] = IF k = 0 THEN page_free_list
          ELSE IF w[k - 1] = NULL THEN NULL ELSE pp_link[w[k - 1]]
    <3> HIDE DEF w
    <3> QED
      BY <1>2
  <2> HIDE DEF w
  <2>4. x # 0
    BY <1>1, <2>3, <2>a, <2>b
  <2>5. x - 1 \in 0 .. C /\ ~(x <= x - 1)
    BY <1>1, <2>3, <2>4
  <2>6. Chain[x - 1] = w[x - 1]
    BY <2>2, <2>5
  <2> QED
    BY <2>3, <2>4, <2>6, <2>a, <2>b
<1> QED
  BY <1>4 DEF C

\* A list without repetition is no longer than there are pages, so that Chain
\* comes to its end, and has passed all its pages by then.
LEMMA ListedPages ==
  ASSUME NEW F, IsList(page_free_list, pp_link, F)
  PROVE  Chain[Cardinality(Pages)] = NULL /\ FreePages = F
<1>1. PICK n \in Nat : \E f \in [1 .. n -> Pages] :
        Stack(page_free_list, pp_link, n, f) /\ F = {f[k] : k \in 1 .. n}
  BY DEF IsList
<1>2. PICK f \in [1 .. n -> Pages] :
        Stack(page_free_list, pp_link, n, f) /\ F = {f[k] : k \in 1 .. n}
  BY <1>1
<1>3. n <= Cardinality(Pages) /\ Cardinality(Pages) \in Nat /\ NULL \notin Pages
  <2>1. IsFiniteSet(1 .. n) /\ Cardinality(1 .. n) = n
    BY FS_Interval
  <2>2. IsFiniteSet(Pages) /\ Cardinality(Pages) \in Nat /\ NULL \notin Pages
    BY PagesAreNumbers
  <2>3. f \in Injection(1 .. n, Pages)
    BY <1>2 DEF Stack, Injection, IsInjective
  <2>4. Cardinality(1 .. n) <= Cardinality(Pages)
    BY <2>1, <2>2, <2>3, FS_Injection DEF ExistsInjection
  <2> QED
    BY <2>1, <2>2, <2>4
<1>4. \A k \in 0 .. Cardinality(Pages) : Chain[k] = IF k < n THEN f[n - k] ELSE NULL
  BY <1>2, ChainIsStack
<1>5. Chain[Cardinality(Pages)] = NULL
  BY <1>3, <1>4
<1>6. ASSUME NEW g \in F PROVE g \in FreePages
  <2>1. PICK k \in 1 .. n : g = f[k]
    BY <1>2
  <2>2. n - k \in 0 .. Cardinality(Pages) /\ n - k < n /\ n - (n - k) = k
    BY <1>3
  <2>3. Chain[n - k] = g /\ g # NULL
    BY <1>3, <1>4, <2>1, <2>2
  <2> QED
    BY <2>2, <2>3 DEF FreePages
<1>7. ASSUME NEW g \in FreePages PROVE g \in F
  <2>1. PICK k \in 0 .. Cardinality(Pages) : g = Chain[k] /\ g # NULL
    BY DEF FreePages
  <2>2. k < n /\ g = f[n - k]
    BY <1>4, <2>1
  <2>3. n - k \in 1 .. n
    BY <1>3, <2>2
  <2> QED
    BY <1>2, <2>2, <2>3
<1> QED
  BY <1>5, <1>6, <1>7

\* What a living process has, by its places.
LEMMA UsedByPlace ==
  ASSUME TypeOK, NEW p \in Live
  PROVE  /\ p \in Procs /\ cr3[p] # NULL
         /\ \A v : v \in Used(p) <=>
              \/ v = cr3[p]
              \/ \E i \in Index : v = Tab[p][i] /\ v # NULL
              \/ \E i, j \in Index : v = Leaf[p][i][j] /\ v # NULL
<1>1. p \in Procs /\ cr3[p] # NULL
  BY DEF Live
<1>2. \A i \in Index : Tab[p][i] = ent[cr3[p]][i]
  BY <1>1, TreeTypes
<1>3. \A v : v \in Tables(p) <=> \E i \in Index : v = Tab[p][i] /\ v # NULL
  BY <1>2 DEF Tables, Entries
<1>4. \A v : v \in UNION {Entries(t) : t \in Tables(p)} <=>
             \E i, j \in Index : v = Leaf[p][i][j] /\ v # NULL
  <2>1. ASSUME NEW v, NEW t \in Tables(p), v \in Entries(t)
        PROVE  \E i, j \in Index : v = Leaf[p][i][j] /\ v # NULL
    <3>1. PICK i \in Index : t = Tab[p][i] /\ t # NULL
      BY <1>3
    <3>2. PICK j \in Index : v = ent[t][j] /\ v # NULL
      BY <2>1 DEF Entries
    <3> QED
      BY <1>1, <3>1, <3>2, TreeTypes
  <2>2. ASSUME NEW i \in Index, NEW j \in Index, Leaf[p][i][j] # NULL
        PROVE  Tab[p][i] \in Tables(p) /\ Leaf[p][i][j] \in Entries(Tab[p][i])
    <3>1. Tab[p][i] # NULL /\ Leaf[p][i][j] = ent[Tab[p][i]][j]
      BY <1>1, <2>2, TreeTypes
    <3> QED
      BY <1>3, <2>2, <3>1 DEF Entries
  <2> QED
    BY <2>1, <2>2
<1> QED
  BY <1>1, <1>3, <1>4 DEF Used

\* Nobody has a page of the list, and the list is Chain.
LEMMA InvFreeList == Inv => FreeListSound
<1> SUFFICES ASSUME Inv PROVE FreeListSound
  OBVIOUS
<1>1. PICK F \in SUBSET Pages :
        IsList(page_free_list, pp_link, F) /\ InUse(F) /\ Covered(F)
  BY DEF Inv, Listed
<1>2. Chain[Cardinality(Pages)] = NULL /\ FreePages = F
  BY <1>1, ListedPages
<1>3. ASSUME Quiet, ~torn, NEW p \in Live PROVE Used(p) \cap FreePages = {}
  <2>1. TypeOK /\ op.do # "release" /\ NULL \notin F
    BY <1>3, PagesAreNumbers DEF Inv, Quiet
  <2>2. \A v \in Pages : v \in F => ~Owned(v, cr3, Tab, Leaf)
    BY <1>1, <1>3, <2>1, FreeIsUnowned
  <2>3. ASSUME NEW v \in Used(p), v \in F PROVE Owned(v, cr3, Tab, Leaf)
    BY <2>1, UsedByPlace DEF Owned
  <2> QED
    BY <1>2, <2>2, <2>3
<1> QED
  BY <1>2, <1>3 DEF FreeListSound

(***************************************************************************)
(* page_free (pmap.c) never puts a page on the list that is on it, not     *)
(* even half-way through release, and between operations no process has a  *)
(* free page, for every number of pages, until a thread exits.             *)
(***************************************************************************)
THEOREM FreeListStaysAList == Spec => []FreeListSound
  BY InvFreeList, SpecInv, PTL

\* Two processes that have a page in common share the table it is in.
LEMMA InvIsolation == Inv => Isolation
<1> SUFFICES ASSUME Inv, Quiet, NEW p \in Live, NEW q \in Live, p # q
             PROVE  /\ team[p] # team[q] => Used(p) \cap Used(q) = {}
                    /\ StackOf(p) \cap Used(q) = {}
  BY DEF Isolation
<1>1. /\ TypeOK /\ Apart(cr3, Tab, Leaf, team, {}) /\ NULL \notin Pages
      /\ p \in Procs /\ cr3[p] # NULL /\ q \in Procs /\ cr3[q] # NULL
      /\ StackDir \in Index
  BY PagesAreNumbers DEF Inv, Quiet, Unstacked, Live, StackDir, Index
<1>2. /\ \A v : v \in Used(p) <=>
            \/ v = cr3[p]
            \/ \E i \in Index : v = Tab[p][i] /\ v # NULL
            \/ \E i, j \in Index : v = Leaf[p][i][j] /\ v # NULL
      /\ \A v : v \in Used(q) <=>
            \/ v = cr3[q]
            \/ \E i \in Index : v = Tab[q][i] /\ v # NULL
            \/ \E i, j \in Index : v = Leaf[q][i][j] /\ v # NULL
  BY <1>1, UsedByPlace
<1>3. /\ cr3[p] # cr3[q]
      /\ \A i \in Index : (Tab[p][i] # NULL => Tab[p][i] # cr3[q])
                          /\ (Tab[q][i] # NULL => Tab[q][i] # cr3[p])
      /\ \A i, j \in Index : (Leaf[p][i][j] # NULL => Leaf[p][i][j] # cr3[q])
                             /\ (Leaf[q][i][j] # NULL => Leaf[q][i][j] # cr3[p])
  BY <1>1 DEF Apart
<1>4. \A i, k \in Index : Tab[p][i] # NULL /\ Tab[p][i] = Tab[q][k] =>
        i = k /\ team[p] = team[q] /\ i # StackDir
  BY <1>1 DEF Apart
<1>5. \A i, j, k \in Index : (Leaf[p][i][j] # NULL => Leaf[p][i][j] # Tab[q][k])
                             /\ (Leaf[q][i][j] # NULL => Leaf[q][i][j] # Tab[p][k])
  BY <1>1 DEF Apart
<1>6. \A i, j, k, m \in Index : Leaf[p][i][j] # NULL /\ Leaf[p][i][j] = Leaf[q][k][m] =>
        i = k /\ Tab[p][i] # NULL /\ Tab[p][i] = Tab[q][k]
  BY <1>1, TreeTypes DEF Apart
<1>7. ASSUME team[p] # team[q], NEW v \in Used(p), v \in Used(q) PROVE FALSE
  BY <1>2, <1>3, <1>4, <1>5, <1>6, <1>7
<1>8. ASSUME NEW v \in StackOf(p), v \in Used(q) PROVE FALSE
  <2>1. Tab[p][StackDir] # NULL /\ Tab[p][StackDir] = ent[cr3[p]][StackDir]
    BY <1>1, TreeTypes DEF Inv, ShapeOK, Quiet
  <2>2. \A j \in Index : Leaf[p][StackDir][j] = ent[Tab[p][StackDir]][j]
    BY <1>1, <2>1, TreeTypes
  <2>3. \/ v = Tab[p][StackDir]
        \/ \E j \in Index : v = Leaf[p][StackDir][j] /\ v # NULL
    BY <1>8, <2>1, <2>2 DEF StackOf, Entries
  <2> QED
    BY <1>1, <1>2, <1>3, <1>4, <1>5, <1>6, <1>8, <2>1, <2>3
<1> QED
  BY <1>7, <1>8

(***************************************************************************)
(* copy gives a forked process nothing of anybody else's, and thread_copy  *)
(* gives a thread a stack of its own, also after pages have been freed,    *)
(* reused and, at the exit of a thread, freed under another.               *)
(***************************************************************************)
THEOREM ProcessesAreApart == Spec => []Isolation
  BY InvIsolation, SpecInv, PTL

\* What is not on the list has an owner, who lives.
LEMMA InvNoLeak == Inv => NoLeak
<1> SUFFICES ASSUME Inv, NEW v \in Ram, v \notin FreePages
             PROVE  \E p \in Live : v \in Used(p)
  BY DEF NoLeak
<1>1. PICK F \in SUBSET Pages :
        IsList(page_free_list, pp_link, F) /\ InUse(F) /\ Covered(F)
  BY DEF Inv, Listed
<1>2. TypeOK /\ FreePages = F /\ v \in Pages /\ v # NULL
  BY <1>1, ListedPages, PagesAreNumbers DEF Inv
<1>3. PICK p \in Procs : \/ v = cr3[p]
                         \/ \E i \in Index : v = Tab[p][i]
                         \/ \E i, j \in Index : v = Leaf[p][i][j]
  BY <1>1, <1>2 DEF Covered, Owned
<1>4. cr3[p] # NULL
  BY <1>2, <1>3, TreeTypes
<1>5. p \in Live
  BY <1>4 DEF Live
<1> QED
  BY <1>2, <1>3, <1>5, UsedByPlace

\* Every page that page_init (pmap.c) has handed out is on the free list or
\* part of a living process: release forgets none.
THEOREM NoPageIsLost == Spec => []NoLeak
  BY InvNoLeak, SpecInv, PTL
-----------------------------------------------------------------------------
(***************************************************************************)
(* Booting: interrupts are opened in the initial states of Memory and Pcb, *)
(* and so what is shown above of the pages holds from the boot sector on.  *)
(***************************************************************************)

Unpaged  == {"start", "bootmain", "fill", "paging"}
ToIdt    == Unpaged \cup {"kcr3", "jump", "segment", "idt"}
ToMm     == ToIdt \cup {"intr", "mm"}
ToLoad   == ToMm \cup {"pcb", "idle", "load"}
Loading  == {"text", "stack", "video", "ready"}
Handed   == {"open", "running"}
Steps    == ToLoad \cup Loading \cup {"sti"} \cup Handed

Halves == {Low, High, Nowhere}

\* The processor: everything is at its physical address until paging is on.
CpuOK ==
  /\ step \in Steps
  /\ cpu \in [pe : BOOLEAN, pg : BOOLEAN, eip : Halves, esp : Halves, gdt : Halves,
              idt : Halves, tr : BOOLEAN, df : BOOLEAN, intr : BOOLEAN]
  /\ cpu.pg <=> step \notin Unpaged
  /\ step \in Unpaged => {cpu.eip, cpu.esp, cpu.gdt, cpu.idt} \subseteq {Low, Nowhere}
  /\ cpu.intr => step \in {"start", "open", "running"}
  /\ step \notin ToIdt \ {"idt"} => cpu.tr /\ ~cpu.df /\ cpu.gdt = High
  /\ step \notin ToIdt => cpu.idt = High

\* The directories of the kernel and of the first process.
KDir == [d \in PDEs |->
           IF d < NFrames \div NR_PTE THEN d
           ELSE IF d >= KOFFSET \div NR_PTE THEN d - KOFFSET \div NR_PTE ELSE None]
UDir == [d \in PDEs |-> IF d >= KOFFSET \div NR_PTE THEN KDir[d] ELSE None]

TablesOK ==
  /\ step \notin {"start", "bootmain", "fill"} => kptable = FillPtes /\ kpdir = KDir
  /\ step \notin ToMm => upper = UDir
  /\ step \notin ToIdt \cup {"intr"} => pic = [master |-> 32, slave |-> 40]

\* The table of PCBs with those of S in use.
Made(S) ==
  /\ status = [p \in Pcb!Slots |-> IF p \in S THEN Pcb!New ELSE Pcb!Free]
  /\ sleep_time = [p \in Pcb!Slots |-> IF p \in S THEN Sleeptime ELSE 0]

PcbOK ==
  /\ current = 0 /\ time_count = [p \in Pcb!Slots |-> 0]
  /\ step \in ToLoad \ {"load"} => sleep_time = [p \in Pcb!Slots |-> 0]
  /\ step = "idle" => Made({})
  /\ step = "load" => Made({0})
  /\ step \in Loading => Made({0, 1})
  /\ step \in {"sti"} \cup Handed => Pcb!PcbInit

\* The free list after a pages have been taken off it, from the top.
Links(n) == [g \in Pages |-> IF g <= n THEN g - 1 ELSE NULL]

\* What the loader has built then: the text's table and page, the stack's
\* table and its pages, and, if v, the mapping of the display.
Built(a, v) ==
  [g \in Pages |-> [i \in Index |->
     IF g = updir
     THEN IF i = TextDir THEN IF a >= 1 THEN NPages ELSE NULL
          ELSE IF i = StackDir THEN IF a >= 3 THEN StackTable ELSE NULL
          ELSE IF v /\ i = VideoDir THEN vdtable ELSE NULL
     ELSE IF g = vdtable THEN IF v /\ i = 0 THEN VMEM ELSE NULL
     ELSE IF g = NPages THEN IF a >= 2 /\ i = 0 THEN NPages - 1 ELSE NULL
     ELSE IF g = StackTable THEN IF i < a - 3 THEN StackTable - 1 - i ELSE NULL
     ELSE NULL]]

Taken(a, v) ==
  /\ page_free_list = NPages - a /\ pp_link = Links(NPages - a)
  /\ ent = Built(a, v)

PagesOK ==
  /\ step \notin Handed =>
       /\ op = [Idle EXCEPT !.do = "boot"] /\ halted = FALSE /\ torn = FALSE
       /\ team = [p \in Procs |-> p]
       /\ cr3 = [p \in Procs |-> IF step = "sti" /\ p = 1 THEN updir ELSE NULL]
  /\ step \in ToLoad =>
       /\ page_free_list \in IF step \in {"start", "bootmain"} THEN {NULL, VMEM} ELSE {NULL}
       /\ pp_link = [g \in Pages |-> NULL]
       /\ ent = [g \in Pages |-> Zeroed]
  /\ step \in ToLoad \cup {"text"} => walked = 0
  /\ step = "text" => \E a \in {0, 1} : Taken(a, FALSE)
  /\ step = "stack" => \E a \in 2 .. (NR_PTE + 2) :
       Taken(a, FALSE) /\ walked = IF a = 2 THEN 0 ELSE a - 3
  /\ step = "video" => Taken(NR_PTE + 3, FALSE)
  /\ step \in {"ready", "sti"} => Taken(NR_PTE + 3, TRUE)
  /\ step = "open" => Init
  /\ step = "running" => Inv

BootInv == CpuOK /\ TablesOK /\ PcbOK /\ PagesOK
-----------------------------------------------------------------------------
\* Division with remainder, for the numbers of tables and entries.
LEMMA DivMod ==
  ASSUME NEW n \in Nat \ {0}, NEW a \in Nat
  PROVE  /\ a \div n \in Nat /\ a % n \in 0 .. (n - 1)
         /\ a = n * (a \div n) + (a % n)
<1>1. PICK q : q = a \div n
  OBVIOUS
<1>2. PICK r : r = a % n
  OBVIOUS
<1>3. q \in Int /\ r \in 0 .. (n - 1)
  BY <1>1, <1>2
<1>4. r = a - n * q
  BY <1>1, <1>2, Z3
<1>5. q >= 0
  <2>1. ASSUME NEW x \in Int, x <= -1 PROVE n * x <= -n
    BY <2>1
  <2> QED
    BY <1>3, <1>4, <2>1
<1>6. a = n * q + r
  BY <1>3, <1>4
<1> QED
  BY <1>1, <1>2, <1>3, <1>5, <1>6

LEMMA UniqueDivMod ==
  ASSUME NEW n \in Nat \ {0}, NEW q \in Int, NEW r \in 0 .. (n - 1),
         NEW p \in Int, NEW s \in 0 .. (n - 1), n * q + r = n * p + s
  PROVE  q = p /\ r = s
<1>1. n * (q - p) = s - r
  OBVIOUS
<1>2. ASSUME NEW x \in Int, x >= 1 PROVE n * x >= n
  BY <1>2
<1>3. ASSUME NEW x \in Int, x <= -1 PROVE n * x <= -n
  BY <1>3
<1>4. ~(q - p >= 1) /\ ~(q - p <= -1)
  BY <1>1, <1>2, <1>3
<1>5. q = p
  BY <1>4
<1> QED
  BY <1>5

\* A page number and its two parts, the table's and the entry's.
LEMMA PageNumbers ==
  ASSUME NEW f \in Frames
  PROVE  /\ f \div NR_PTE \in Nat /\ f % NR_PTE \in Nat
         /\ (f \div NR_PTE) * NR_PTE + (f % NR_PTE) = f
         /\ f \div NR_PTE < NFrames \div NR_PTE
         /\ (f + KOFFSET) \div NR_PTE = f \div NR_PTE + KOFFSET \div NR_PTE
         /\ (f + KOFFSET) % NR_PTE = f % NR_PTE
<1>1. PICK n : n = NR_PTE
  OBVIOUS
<1>2. /\ n \in Nat \ {0} /\ f \in Nat /\ f < NFrames
      /\ NFrames \in Nat /\ NFrames % n = 0 /\ KOFFSET \in Nat /\ KOFFSET % n = 0
  BY <1>1, MemAssumption, BootAssumption DEF Frames
<1>3. PICK d, r : d = f \div n /\ r = f % n
  OBVIOUS
<1>4. PICK F, K : F = NFrames \div n /\ K = KOFFSET \div n
  OBVIOUS
<1>5. d \in Nat /\ r \in 0 .. (n - 1) /\ f = n * d + r
  BY <1>2, <1>3, DivMod
<1>6. F \in Nat /\ NFrames = n * F
  <2>1. F \in Nat /\ NFrames = n * F + 0
    BY <1>2, <1>4, DivMod
  <2> QED
    BY <1>2, <2>1
<1>7. K \in Nat /\ KOFFSET = n * K
  <2>1. K \in Nat /\ KOFFSET = n * K + 0
    BY <1>2, <1>4, DivMod
  <2> QED
    BY <1>2, <2>1
<1>8. d < F
  <2>1. ASSUME NEW x \in Int, x >= 0 PROVE n * x >= 0
    BY <1>2, <2>1
  <2>2. ASSUME d >= F PROVE FALSE
    <3>1. n * (d - F) >= 0
      BY <1>5, <1>6, <2>1, <2>2
    <3>2. n * d >= n * F
      BY <1>2, <1>5, <1>6, <3>1
    <3> QED
      BY <1>2, <1>5, <1>6, <3>2
  <2> QED
    BY <1>5, <1>6, <2>2
<1>9. (f + KOFFSET) \div n = d + K /\ (f + KOFFSET) % n = r
  <2>1. PICK q, s : q = (f + KOFFSET) \div n /\ s = (f + KOFFSET) % n
    OBVIOUS
  <2>2. q \in Nat /\ s \in 0 .. (n - 1) /\ f + KOFFSET = n * q + s
    <3>1. f + KOFFSET \in Nat
      BY <1>2
    <3> QED
      BY <1>2, <2>1, <3>1, DivMod
  <2>3. f + KOFFSET = n * (d + K) + r
    BY <1>2, <1>5, <1>7
  <2>4. n * (d + K) + r = n * q + s /\ d + K \in Int /\ q \in Int
    BY <1>5, <1>7, <2>2, <2>3
  <2>5. d + K = q /\ r = s
    BY <1>2, <1>5, <2>2, <2>4, UniqueDivMod
  <2> QED
    BY <2>1, <2>5
<1>10. d * n + r = f /\ r \in Nat
  BY <1>2, <1>5
<1> QED
  BY <1>1, <1>3, <1>4, <1>5, <1>8, <1>9, <1>10

LEMMA Directories ==
  /\ NFrames \div NR_PTE \in Nat /\ KOFFSET \div NR_PTE \in Nat
  /\ NFrames \div NR_PTE > 0 /\ NFrames \div NR_PTE <= KOFFSET \div NR_PTE
  /\ NR_PDE = KOFFSET \div NR_PTE + NFrames \div NR_PTE
<1>1. PICK n : n = NR_PTE
  OBVIOUS
<1>2. /\ n \in Nat \ {0} /\ NFrames \in Nat \ {0} /\ NFrames % n = 0
      /\ KOFFSET \in Nat /\ KOFFSET % n = 0 /\ KOFFSET >= NFrames
  BY <1>1, MemAssumption, BootAssumption
<1>3. PICK F, K : F = NFrames \div n /\ K = KOFFSET \div n
  OBVIOUS
<1>4. F \in Nat /\ NFrames = n * F
  <2>1. F \in Nat /\ NFrames = n * F + 0
    BY <1>2, <1>3, DivMod
  <2> QED
    BY <1>2, <2>1
<1>5. K \in Nat /\ KOFFSET = n * K
  <2>1. K \in Nat /\ KOFFSET = n * K + 0
    BY <1>2, <1>3, DivMod
  <2> QED
    BY <1>2, <2>1
<1>6. F > 0
  BY <1>2, <1>4
<1>7. F <= K
  <2>1. ASSUME NEW x \in Int, x <= -1 PROVE n * x <= -n
    BY <1>2, <2>1
  <2>2. ASSUME K - F <= -1 PROVE FALSE
    <3>1. n * (K - F) <= -n
      BY <1>4, <1>5, <2>1, <2>2
    <3>2. n * K < n * F
      BY <1>2, <1>4, <1>5, <3>1
    <3> QED
      BY <1>2, <1>4, <1>5, <3>2
  <2> QED
    BY <1>4, <1>5, <2>2
<1>8. (KOFFSET + NFrames) \div n = K + F
  <2>1. PICK q, s : q = (KOFFSET + NFrames) \div n /\ s = (KOFFSET + NFrames) % n
    OBVIOUS
  <2>2. q \in Nat /\ s \in 0 .. (n - 1) /\ KOFFSET + NFrames = n * q + s
    <3>1. KOFFSET + NFrames \in Nat
      BY <1>2
    <3> QED
      BY <1>2, <2>1, <3>1, DivMod
  <2>3. n * (K + F) + 0 = n * q + s /\ 0 \in 0 .. (n - 1) /\ K + F \in Int /\ q \in Int
    BY <1>2, <1>4, <1>5, <2>2
  <2>4. K + F = q
    BY <1>2, <2>2, <2>3, UniqueDivMod
  <2> QED
    BY <2>1, <2>4
<1> QED
  BY <1>1, <1>3, <1>4, <1>5, <1>6, <1>7, <1>8 DEF NR_PDE

\* Both halves are mapped by the kernel's directory, ...
LEMMA KernelMapped ==
  ASSUME kptable = FillPtes, kpdir = KDir
  PROVE  Maps(kpdir, Low) /\ Maps(kpdir, High)
<1> SUFFICES ASSUME NEW f \in Frames
             PROVE  Translate(kpdir, f) = f /\ Translate(kpdir, f + KOFFSET) = f
  BY DEF Maps, Low, High
<1> DEFINE F == NFrames \div NR_PTE
           K == KOFFSET \div NR_PTE
           d == f \div NR_PTE
           r == f % NR_PTE
<1>1. /\ F \in Nat /\ K \in Nat /\ F <= K /\ PDEs = 0 .. (K + F - 1)
  BY Directories DEF PDEs
<1>2. d \in Nat /\ r \in Nat /\ d < F /\ d * NR_PTE + r = f
  BY PageNumbers
<1>3. (f + KOFFSET) \div NR_PTE = d + K /\ (f + KOFFSET) % NR_PTE = r
  BY PageNumbers
<1>4. kptable[f] = f
  BY DEF FillPtes
<1>5. kpdir = [e \in PDEs |-> IF e < F THEN e ELSE IF e >= K THEN e - K ELSE None]
  BY DEF KDir
<1> HIDE DEF F, K
<1>6. kpdir[d] = d /\ kpdir[d + K] = d /\ d # None
  <2> HIDE DEF d
  <2> QED
    BY <1>1, <1>2, <1>5 DEF None
<1> QED
  BY <1>2, <1>3, <1>4, <1>6 DEF Translate

\* ... and the upper one only by the directory of a process.
LEMMA UpperMapped ==
  ASSUME kptable = FillPtes, upper = UDir
  PROVE  Maps(upper, High) /\ ~Maps(upper, Low)
<1> DEFINE F == NFrames \div NR_PTE
           K == KOFFSET \div NR_PTE
<1>1. F \in Nat /\ K \in Nat /\ F > 0 /\ F <= K /\ PDEs = 0 .. (K + F - 1)
  BY Directories DEF PDEs
<1>2. upper = [e \in PDEs |-> IF e >= K THEN e - K ELSE None]
  <2>1. \A e \in PDEs : e >= K => KDir[e] = e - K
    BY <1>1 DEF KDir
  <2> QED
    BY <2>1 DEF UDir
<1>3. ASSUME NEW f \in Frames PROVE Translate(upper, f + KOFFSET) = f
  <2> DEFINE d == f \div NR_PTE
             r == f % NR_PTE
  <2>1. d \in Nat /\ r \in Nat /\ d < F /\ d * NR_PTE + r = f
    BY PageNumbers
  <2>2. (f + KOFFSET) \div NR_PTE = d + K /\ (f + KOFFSET) % NR_PTE = r
    BY PageNumbers
  <2>3. kptable[f] = f
    BY DEF FillPtes
  <2>4. upper[d + K] = d /\ d # None
    <3> HIDE DEF d, F, K
    <3> QED
      BY <1>1, <1>2, <2>1 DEF None
  <2> QED
    BY <2>1, <2>2, <2>3, <2>4 DEF Translate
<1>4. 0 \in Frames /\ 0 \div NR_PTE = 0
  <2>1. 0 \in Frames
    BY BootAssumption DEF Frames
  <2>2. NR_PTE \in Nat \ {0}
    BY MemAssumption
  <2> QED
    BY <2>1, <2>2
<1>5. upper[0] = None
  <2> HIDE DEF F, K
  <2> QED
    BY <1>1, <1>2
<1>6. Translate(upper, 0) = None
  BY <1>4, <1>5 DEF Translate
<1>7. ~Maps(upper, Low)
  BY <1>4, <1>6 DEF Maps, Low, High, None
<1> QED
  BY <1>3, <1>7 DEF Maps, High
-----------------------------------------------------------------------------
\* The processor, step by step.
LEMMA CpuStep == CpuOK /\ [BootNext]_<<vars, bootVars>> => CpuOK'
<1> SUFFICES ASSUME CpuOK, [BootNext]_<<vars, bootVars>>
             PROVE  CpuOK'
  OBVIOUS
<1> USE DEF At, CpuOK, Halves, Low, High, Nowhere,
            Steps, ToLoad, ToMm, ToIdt, Unpaged, Loading, Handed
<1>1. CASE Start
  BY <1>1 DEF Start
<1>2. CASE bootmain
  BY <1>2 DEF bootmain
<1>3. CASE FillTables
  BY <1>3 DEF FillTables
<1>4. CASE SetPaging
  BY <1>4 DEF SetPaging
<1>5. CASE SetKcr3
  BY <1>5 DEF SetKcr3
<1>6. CASE Jump
  BY <1>6 DEF Jump
<1>7. CASE init_segment
  BY <1>7 DEF init_segment
<1>8. CASE init_idt
  BY <1>8 DEF init_idt
<1>9. CASE init_intr
  BY <1>9 DEF init_intr
<1>10. CASE init_mm
  BY <1>10 DEF init_mm
<1>11. CASE pcb_init
  BY <1>11 DEF pcb_init
<1>12. CASE NewIdle
  BY <1>12 DEF NewIdle
<1>13. CASE LoaderStarts
  BY <1>13 DEF LoaderStarts
<1>14. CASE LoadText
  <2>1. cpu' = cpu /\ step = "text" /\ step' \in {"text", "stack"}
    BY <1>14 DEF LoadText, mm_malloc
  <2> QED
    BY <2>1
<1>15. CASE LoadStack
  <2>1. cpu' = cpu /\ step = "stack" /\ step' \in {"stack", "video"}
    BY <1>15 DEF LoadStack, mm_malloc
  <2> QED
    BY <2>1
<1>16. CASE create_video_mapping
  BY <1>16 DEF create_video_mapping
<1>17. CASE GameReady
  BY <1>17 DEF GameReady
<1>18. CASE enable_interrupt
  BY <1>18 DEF enable_interrupt
<1>19. CASE Run
  BY <1>19 DEF Run
<1>20. CASE UNCHANGED <<vars, bootVars>>
  BY <1>20 DEF bootVars
<1> QED
  BY <1>1, <1>2, <1>3, <1>4, <1>5, <1>6, <1>7, <1>8, <1>9, <1>10, <1>11,
     <1>12, <1>13, <1>14, <1>15, <1>16, <1>17, <1>18, <1>19, <1>20 DEF BootNext

\* The kernel's tables and the controllers.
LEMMA TablesStep == CpuOK /\ TablesOK /\ [BootNext]_<<vars, bootVars>> => TablesOK'
<1> SUFFICES ASSUME CpuOK /\ TablesOK, [BootNext]_<<vars, bootVars>>
             PROVE  TablesOK'
  OBVIOUS
<1> USE DEF At, CpuOK, TablesOK, pagingVars,
            Steps, ToLoad, ToMm, ToIdt, Unpaged, Loading, Handed
<1>1. CASE Start
  BY <1>1 DEF Start
<1>2. CASE bootmain
  BY <1>2 DEF bootmain
<1>3. CASE FillTables
  BY <1>3 DEF FillTables, KDir
<1>4. CASE SetPaging
  BY <1>4 DEF SetPaging
<1>5. CASE SetKcr3
  BY <1>5 DEF SetKcr3
<1>6. CASE Jump
  BY <1>6 DEF Jump
<1>7. CASE init_segment
  BY <1>7 DEF init_segment
<1>8. CASE init_idt
  BY <1>8 DEF init_idt
<1>9. CASE init_intr
  BY <1>9 DEF init_intr, IRQ_OFFSET
<1>10. CASE init_mm
  BY <1>10 DEF init_mm, UDir
<1>11. CASE pcb_init
  BY <1>11 DEF pcb_init
<1>12. CASE NewIdle
  BY <1>12 DEF NewIdle
<1>13. CASE LoaderStarts
  BY <1>13 DEF LoaderStarts
<1>14. CASE LoadText
  <2>1. /\ UNCHANGED <<kpdir, kptable, upper, pic>>
        /\ step = "text" /\ step' \in {"text", "stack"}
    BY <1>14 DEF LoadText, mm_malloc
  <2> QED
    BY <2>1
<1>15. CASE LoadStack
  <2>1. /\ UNCHANGED <<kpdir, kptable, upper, pic>>
        /\ step = "stack" /\ step' \in {"stack", "video"}
    BY <1>15 DEF LoadStack, mm_malloc
  <2> QED
    BY <2>1
<1>16. CASE create_video_mapping
  BY <1>16 DEF create_video_mapping
<1>17. CASE GameReady
  BY <1>17 DEF GameReady
<1>18. CASE enable_interrupt
  BY <1>18 DEF enable_interrupt
<1>19. CASE Run
  BY <1>19 DEF Run
<1>20. CASE UNCHANGED <<vars, bootVars>>
  BY <1>20 DEF bootVars
<1> QED
  BY <1>1, <1>2, <1>3, <1>4, <1>5, <1>6, <1>7, <1>8, <1>9, <1>10, <1>11,
     <1>12, <1>13, <1>14, <1>15, <1>16, <1>17, <1>18, <1>19, <1>20 DEF BootNext

\* The PCBs: the idle process gets the first, the game the second.
LEMMA PcbStep == CpuOK /\ PcbOK /\ [BootNext]_<<vars, bootVars>> => PcbOK'
<1> SUFFICES ASSUME CpuOK /\ PcbOK, [BootNext]_<<vars, bootVars>>
             PROVE  PcbOK'
  OBVIOUS
<1> USE DEF At, CpuOK, PcbOK, pcbVars,
            Steps, ToLoad, ToMm, ToIdt, Unpaged, Loading, Handed
<1>1. CASE Start
  BY <1>1 DEF Start, Made
<1>2. CASE bootmain
  BY <1>2 DEF bootmain, Made
<1>3. CASE FillTables
  BY <1>3 DEF FillTables, Made
<1>4. CASE SetPaging
  BY <1>4 DEF SetPaging, Made
<1>5. CASE SetKcr3
  BY <1>5 DEF SetKcr3, Made
<1>6. CASE Jump
  BY <1>6 DEF Jump, Made
<1>7. CASE init_segment
  BY <1>7 DEF init_segment, Made
<1>8. CASE init_idt
  BY <1>8 DEF init_idt, Made
<1>9. CASE init_intr
  BY <1>9 DEF init_intr, Made
<1>10. CASE init_mm
  BY <1>10 DEF init_mm, Made
<1>11. CASE pcb_init
  BY <1>11 DEF pcb_init, Made
<1>12. CASE NewIdle
  <2>1. PICK p \in Pcb!Slots : NewPcb(p) /\ current' = p
    BY <1>12 DEF NewIdle
  <2>2. step = "idle" /\ step' = "load" /\ Made({})
    BY <1>12 DEF NewIdle
  <2>3. p = 0
    BY <2>1, <2>2, BootAssumption DEF NewPcb, Made, Pcb!Slots
  <2>4. time_count' = [q \in Pcb!Slots |-> 0]
    BY <2>1 DEF NewPcb
  <2>5. Made({0})'
    BY <2>1, <2>2, <2>3 DEF NewPcb, Made
  <2> QED
    BY <2>1, <2>2, <2>3, <2>4, <2>5
<1>13. CASE LoaderStarts
  <2>1. PICK p \in Pcb!Slots : NewPcb(p)
    BY <1>13 DEF LoaderStarts
  <2>2. step = "load" /\ step' = "text" /\ Made({0}) /\ current' = current
    BY <1>13 DEF LoaderStarts
  <2>3. p = 1
    <3>1. \A q \in Pcb!Slots : status[q] = Pcb!Free <=> q # 0
      BY <2>2 DEF Made, Pcb!Free, Pcb!New
    <3>2. status[p] = Pcb!Free /\ \A q \in Pcb!Slots : q < p => status[q] # Pcb!Free
      BY <2>1 DEF NewPcb
    <3>3. p \in 0 .. (MAX_PCB - 1) /\ p # 0
      BY <3>1, <3>2 DEF Pcb!Slots
    <3>4. 1 \in Pcb!Slots
      BY <3>3, BootAssumption DEF Pcb!Slots
    <3> QED
      BY <3>1, <3>2, <3>3, <3>4, BootAssumption
  <2>4. time_count' = [q \in Pcb!Slots |-> 0]
    BY <2>1 DEF NewPcb
  <2>5. Made({0, 1})'
    BY <2>1, <2>2, <2>3 DEF NewPcb, Made
  <2> QED
    BY <2>2, <2>4, <2>5
<1>14. CASE LoadText
  <2>1. /\ UNCHANGED <<status, time_count, sleep_time, current>>
        /\ step = "text" /\ step' \in {"text", "stack"}
    BY <1>14 DEF LoadText, mm_malloc
  <2> QED
    BY <2>1 DEF Made
<1>15. CASE LoadStack
  <2>1. /\ UNCHANGED <<status, time_count, sleep_time, current>>
        /\ step = "stack" /\ step' \in {"stack", "video"}
    BY <1>15 DEF LoadStack, mm_malloc
  <2> QED
    BY <2>1 DEF Made
<1>16. CASE create_video_mapping
  BY <1>16 DEF create_video_mapping, Made
<1>17. CASE GameReady
  <2>1. /\ step = "ready" /\ step' = "sti" /\ Made({0, 1})
        /\ status' = [status EXCEPT ![1] = Pcb!Ready]
        /\ UNCHANGED <<time_count, sleep_time, current>>
    BY <1>17 DEF GameReady
  <2>2. status' = [p \in Pcb!Slots |-> CASE p = Pcb!Idle -> Pcb!New
                     [] p = Pcb!Game -> Pcb!Ready [] OTHER -> Pcb!Free]
    BY <2>1 DEF Made, Pcb!Idle, Pcb!Game
  <2>3. sleep_time' = [p \in Pcb!Slots |->
                         IF p \in {Pcb!Idle, Pcb!Game} THEN Sleeptime ELSE 0]
    BY <2>1 DEF Made, Pcb!Idle, Pcb!Game
  <2>4. Pcb!PcbInit'
    BY <2>1, <2>2, <2>3 DEF Pcb!PcbInit, Pcb!Idle
  <2> QED
    BY <2>1, <2>4
<1>18. CASE enable_interrupt
  BY <1>18 DEF enable_interrupt, Pcb!PcbInit
<1>19. CASE Run
  BY <1>19 DEF Run, Pcb!PcbInit
<1>20. CASE UNCHANGED <<vars, bootVars>>
  BY <1>20 DEF bootVars, Made, Pcb!PcbInit
<1> QED
  BY <1>1, <1>2, <1>3, <1>4, <1>5, <1>6, <1>7, <1>8, <1>9, <1>10, <1>11,
     <1>12, <1>13, <1>14, <1>15, <1>16, <1>17, <1>18, <1>19, <1>20 DEF BootNext

-----------------------------------------------------------------------------
LEMMA Sizes ==
  NR_PTE \in Nat /\ NR_PTE >= 1 /\ NPages \in Nat /\ NPages >= NR_PTE + 3
  BY MemAssumption

LEMMA Layout ==
  /\ NR_PTE \in Nat \ {0} /\ NPages \in Nat /\ NPages >= NR_PTE + 3
  /\ NULL = 0 /\ Pages = 1 .. (NPages + 3)
  /\ Index \subseteq Nat /\ {0, 1, 2} \subseteq Index /\ 0 .. (NR_PTE - 1) \subseteq Index
  /\ updir = NPages + 1 /\ vdtable = NPages + 2 /\ VMEM = NPages + 3
  /\ StackTable = NPages - 2
  /\ VideoDir = 0 /\ TextDir = 1 /\ StackDir = 2
  BY PagesAreNumbers, MemAssumption
     DEF updir, vdtable, VMEM, StackTable, VideoDir, TextDir, StackDir

\* The list as page_init builds it, and as the loader leaves it.
LEMMA DescendingList ==
  ASSUME NEW n \in 0 .. NPages
  PROVE  IsList(n, Links(n), 1 .. n)
<1> DEFINE f == [k \in 1 .. n |-> k]
<1>1. n \in Nat /\ f \in [1 .. n -> Pages] /\ 1 .. n = {f[k] : k \in 1 .. n}
  BY Layout
<1>2. Stack(n, Links(n), n, f)
  BY Layout DEF Stack, Links
<1> HIDE DEF f
<1> QED
  BY <1>1, <1>2 DEF IsList

\* page_alloc on such a list.
LEMMA TakePage ==
  ASSUME NEW a \in 0 .. (NPages - 1), NEW g \in Pages, NEW k, g # NPages - a,
         page_free_list = NPages - a, pp_link = Links(NPages - a),
         page_alloc(Zeroed, g, k)
  PROVE  /\ page_free_list' = NPages - (a + 1) /\ pp_link' = Links(NPages - (a + 1))
         /\ ent' = [h \in Pages |-> IF h = g THEN [ent[h] EXCEPT ![k] = NPages - a]
                                    ELSE IF h = NPages - a THEN Zeroed ELSE ent[h]]
<1>1. NPages - a \in 1 .. NPages /\ NPages - a \in Pages
  BY Layout
<1>2. Links(NPages - a)[NPages - a] = NPages - (a + 1)
  BY <1>1, Layout DEF Links
<1>3. [Links(NPages - a) EXCEPT ![NPages - a] = NULL] = Links(NPages - (a + 1))
  <2>1. \A h \in Pages : h \in Int
    BY Layout
  <2>2. \A h \in Pages : h # NPages - a => (h <= NPages - a <=> h <= NPages - (a + 1))
    BY <2>1, Sizes
  <2>3. ~(NPages - a <= NPages - (a + 1))
    BY Sizes
  <2> QED
    BY <1>1, <2>2, <2>3 DEF Links
<1>4. page_free_list' = NPages - (a + 1) /\ pp_link' = Links(NPages - (a + 1))
  BY <1>2, <1>3 DEF page_alloc
<1>5. ent' = [h \in Pages |-> IF h = g THEN [ent[h] EXCEPT ![k] = NPages - a]
                              ELSE IF h = NPages - a THEN Zeroed ELSE ent[h]]
  BY DEF page_alloc
<1> QED
  BY <1>4, <1>5

\* Where the loader enters the page it takes after a pages: the text's table
\* and its page, the stack's table and its pages.
Place(a) == IF a \in {0, 2} THEN updir ELSE IF a = 1 THEN NPages ELSE StackTable
Entry(a) == IF a = 0 THEN TextDir ELSE IF a = 1 THEN 0
            ELSE IF a = 2 THEN StackDir ELSE a - 3

LEMMA OneEntry ==
  ASSUME NEW B \in [Pages -> [Index -> Int]], NEW C \in [Pages -> [Index -> Int]],
         NEW g, NEW k \in Index, NEW v,
         \A h \in Pages, i \in Index : C[h][i] = IF h = g /\ i = k THEN v ELSE B[h][i]
  PROVE  \A h \in Pages : C[h] = IF h = g THEN [B[h] EXCEPT ![k] = v] ELSE B[h]
<1> SUFFICES ASSUME NEW h \in Pages
             PROVE  C[h] = IF h = g THEN [B[h] EXCEPT ![k] = v] ELSE B[h]
  OBVIOUS
<1>1. C[h] \in [Index -> Int] /\ B[h] \in [Index -> Int]
  OBVIOUS
<1>2. CASE h = g
  BY <1>1, <1>2
<1>3. CASE h # g
  BY <1>1, <1>3
<1> QED
  BY <1>2, <1>3

LEMMA BuildNext ==
  ASSUME NEW a \in 0 .. (NR_PTE + 2)
  PROVE  /\ Place(a) \in Pages /\ Entry(a) \in Index /\ Place(a) # NPages - a
         /\ Built(a, FALSE)[NPages - a] = Zeroed
         /\ Built(a + 1, FALSE) = [h \in Pages |->
              IF h = Place(a) THEN [Built(a, FALSE)[h] EXCEPT ![Entry(a)] = NPages - a]
              ELSE IF h = NPages - a THEN Zeroed ELSE Built(a, FALSE)[h]]
<1>1. a \in Int /\ a >= 0 /\ a <= NR_PTE + 2 /\ NPages - a \in 1 .. NPages /\ NPages - a \in Pages
  BY Layout
<1>2. Place(a) \in Pages /\ Entry(a) \in Index /\ Place(a) # NPages - a
  BY <1>1, Layout DEF Place, Entry
<1>3. Built(a, FALSE)[NPages - a] = Zeroed
  BY <1>1, Layout DEF Built, Zeroed
<1>4. \A h \in Pages, i \in Index :
        Built(a + 1, FALSE)[h][i] =
          IF h = Place(a) /\ i = Entry(a) THEN NPages - a ELSE Built(a, FALSE)[h][i]
  <2> SUFFICES ASSUME NEW h \in Pages, NEW i \in Index
               PROVE  Built(a + 1, FALSE)[h][i] =
                 IF h = Place(a) /\ i = Entry(a) THEN NPages - a ELSE Built(a, FALSE)[h][i]
    OBVIOUS
  <2>0. h \in Int /\ i \in Nat
    BY Layout
  <2>1. CASE a = 0
    BY <1>1, <2>0, <2>1, Layout DEF Built, Place, Entry
  <2>2. CASE a = 1
    BY <1>1, <2>0, <2>2, Layout DEF Built, Place, Entry
  <2>3. CASE a = 2
    BY <1>1, <2>0, <2>3, Layout DEF Built, Place, Entry
  <2>4. CASE a >= 3
    BY <1>1, <2>0, <2>4, Layout DEF Built, Place, Entry
  <2>5. a = 0 \/ a = 1 \/ a = 2 \/ a >= 3
    BY <1>1
  <2> QED
    BY ONLY <2>1, <2>2, <2>3, <2>4, <2>5
<1>5. /\ Built(a, FALSE) \in [Pages -> [Index -> Int]]
      /\ Built(a + 1, FALSE) \in [Pages -> [Index -> Int]]
  BY <1>1, Layout DEF Built
<1>6. \A h \in Pages : Built(a + 1, FALSE)[h] =
        IF h = Place(a) THEN [Built(a, FALSE)[h] EXCEPT ![Entry(a)] = NPages - a]
        ELSE Built(a, FALSE)[h]
  <2>1. PICK B, C, g, k : /\ B = Built(a, FALSE) /\ C = Built(a + 1, FALSE)
                          /\ g = Place(a) /\ k = Entry(a)
    OBVIOUS
  <2>2. /\ B \in [Pages -> [Index -> Int]] /\ C \in [Pages -> [Index -> Int]]
        /\ k \in Index
    BY <1>2, <1>5, <2>1
  <2>3. \A h \in Pages, i \in Index :
          C[h][i] = IF h = g /\ i = k THEN NPages - a ELSE B[h][i]
    BY <1>4, <2>1
  <2>4. \A h \in Pages : C[h] = IF h = g THEN [B[h] EXCEPT ![k] = NPages - a] ELSE B[h]
    BY ONLY <2>2, <2>3, OneEntry
  <2> QED
    BY <2>1, <2>4
<1> QED
  BY <1>2, <1>3, <1>5, <1>6

LEMMA TakeNext ==
  ASSUME NEW a \in 0 .. (NR_PTE + 2), Taken(a, FALSE),
         page_alloc(Zeroed, Place(a), Entry(a))
  PROVE  Taken(a + 1, FALSE)'
<1>1. /\ Place(a) \in Pages /\ Place(a) # NPages - a /\ a \in 0 .. (NPages - 1)
      /\ page_free_list = NPages - a /\ pp_link = Links(NPages - a)
  <2>1. a \in 0 .. (NPages - 1)
    BY Layout
  <2>2. page_free_list = NPages - a /\ pp_link = Links(NPages - a)
    BY DEF Taken
  <2> QED
    BY <2>1, <2>2, BuildNext
<1>2. /\ page_free_list' = NPages - (a + 1) /\ pp_link' = Links(NPages - (a + 1))
      /\ ent' = [h \in Pages |->
                   IF h = Place(a) THEN [ent[h] EXCEPT ![Entry(a)] = NPages - a]
                   ELSE IF h = NPages - a THEN Zeroed ELSE ent[h]]
  BY <1>1, TakePage
<1>3. ent = Built(a, FALSE)
  BY DEF Taken
<1>4. ent' = Built(a + 1, FALSE)
  BY <1>2, <1>3, BuildNext
<1> QED
  BY <1>2, <1>4 DEF Taken

\* create_video_mapping.
LEMMA MapDisplay ==
  ASSUME NEW a \in Nat
  PROVE  Built(a, TRUE) = [Built(a, FALSE) EXCEPT ![updir][VideoDir] = vdtable,
                                                  ![vdtable][0] = VMEM]
<1>1. /\ updir \in Pages /\ vdtable \in Pages /\ updir # vdtable
      /\ VideoDir \in Index /\ 0 \in Index
  BY Layout
<1>2. \A h \in Pages, i \in Index :
        Built(a, TRUE)[h][i] =
          IF h = updir /\ i = VideoDir THEN vdtable
          ELSE IF h = vdtable /\ i = 0 THEN VMEM ELSE Built(a, FALSE)[h][i]
  <2> SUFFICES ASSUME NEW h \in Pages, NEW i \in Index
               PROVE  Built(a, TRUE)[h][i] =
                        IF h = updir /\ i = VideoDir THEN vdtable
                        ELSE IF h = vdtable /\ i = 0 THEN VMEM
                        ELSE Built(a, FALSE)[h][i]
    OBVIOUS
  <2>1. i \in Nat /\ VideoDir = 0 /\ TextDir = 1 /\ StackDir = 2
    BY Layout
  <2> QED
    BY <1>1, <2>1 DEF Built
<1>3. /\ Built(a, FALSE) \in [Pages -> [Index -> Int]]
      /\ Built(a, TRUE) \in [Pages -> [Index -> Int]]
  BY Layout DEF Built
<1>4. PICK B, C : B = Built(a, FALSE) /\ C = Built(a, TRUE)
  OBVIOUS
<1> DEFINE D == [h \in Pages |->
                  IF h = updir THEN [B[h] EXCEPT ![VideoDir] = vdtable]
                  ELSE IF h = vdtable THEN [B[h] EXCEPT ![0] = VMEM] ELSE B[h]]
<1>5. [B EXCEPT ![updir][VideoDir] = vdtable, ![vdtable][0] = VMEM] = D
  <2>1. B = [h \in Pages |-> B[h]]
    BY <1>3, <1>4
  <2>2. [B EXCEPT ![updir][VideoDir] = vdtable] =
          [h \in Pages |-> IF h = updir THEN [B[h] EXCEPT ![VideoDir] = vdtable] ELSE B[h]]
    BY <2>1
  <2>3. PICK E : E = [B EXCEPT ![updir][VideoDir] = vdtable]
    OBVIOUS
  <2>4. [E EXCEPT ![vdtable][0] = VMEM] =
          [h \in Pages |-> IF h = vdtable THEN [E[h] EXCEPT ![0] = VMEM] ELSE E[h]]
    BY <2>2, <2>3
  <2>5. [E EXCEPT ![vdtable][0] = VMEM] = D
    BY <1>1, <2>2, <2>3, <2>4
  <2>6. [B EXCEPT ![updir][VideoDir] = vdtable, ![vdtable][0] = VMEM] =
          [[B EXCEPT ![updir][VideoDir] = vdtable] EXCEPT ![vdtable][0] = VMEM]
    OBVIOUS
  <2> QED
    BY <2>3, <2>5, <2>6
<1>6. C = D
  <2>1. ASSUME NEW h \in Pages PROVE C[h] = D[h]
    <3>1. C[h] \in [Index -> Int] /\ B[h] \in [Index -> Int]
      BY <1>3, <1>4
    <3>2. \A i \in Index :
            C[h][i] = IF h = updir /\ i = VideoDir THEN vdtable
                      ELSE IF h = vdtable /\ i = 0 THEN VMEM ELSE B[h][i]
      BY <1>2, <1>4
    <3>3. CASE h = updir
      BY <1>1, <3>1, <3>2, <3>3
    <3>4. CASE h = vdtable
      BY <1>1, <3>1, <3>2, <3>4
    <3>5. CASE h # updir /\ h # vdtable
      BY <3>1, <3>2, <3>5
    <3> QED
      BY <3>3, <3>4, <3>5
  <2> QED
    BY <1>3, <1>4, <2>1
<1> QED
  BY <1>4, <1>5, <1>6

\* The loader's work is what Memory starts from.
LEMMA LoaderDone ==
  Built(NR_PTE + 3, TRUE) =
    [[g \in Pages |-> Zeroed] EXCEPT
       ![updir] = [i \in Index |-> CASE i = VideoDir -> vdtable
                                     [] i = TextDir  -> NPages
                                     [] i = StackDir -> StackTable
                                     [] OTHER        -> NULL],
       ![vdtable][0] = VMEM,
       ![NPages][0] = NPages - 1,
       ![StackTable] = [i \in Index |-> IF i < NR_PTE
                                        THEN StackTable - 1 - i ELSE NULL]]
<1> DEFINE d  == [i \in Index |-> CASE i = VideoDir -> vdtable
                                    [] i = TextDir  -> NPages
                                    [] i = StackDir -> StackTable
                                    [] OTHER        -> NULL]
           st == [i \in Index |-> IF i < NR_PTE THEN StackTable - 1 - i ELSE NULL]
           D  == [g \in Pages |-> IF g = StackTable THEN st
                                  ELSE IF g = NPages THEN [Zeroed EXCEPT ![0] = NPages - 1]
                                  ELSE IF g = vdtable THEN [Zeroed EXCEPT ![0] = VMEM]
                                  ELSE IF g = updir THEN d ELSE Zeroed]
           B  == Built(NR_PTE + 3, TRUE)
<1>1. /\ updir \in Pages /\ vdtable \in Pages /\ NPages \in Pages /\ StackTable \in Pages
      /\ updir # vdtable /\ updir # NPages /\ updir # StackTable
      /\ vdtable # NPages /\ vdtable # StackTable /\ NPages # StackTable
      /\ 0 \in Index /\ Index \subseteq Nat
  BY Layout
<1>2. Zeroed \in [Index -> {NULL}]
  BY DEF Zeroed
<1>3. [[g \in Pages |-> Zeroed] EXCEPT ![updir] = d, ![vdtable][0] = VMEM,
         ![NPages][0] = NPages - 1, ![StackTable] = st] = D
  <2> HIDE DEF d, st
  <2> QED
    BY <1>1
<1>4. ASSUME NEW g \in Pages PROVE B[g] = D[g]
  <2>1. CASE g = updir
    BY <1>1, <2>1, Layout, SMTT(30) DEF Built
  <2>2. CASE g = vdtable
    BY <1>1, <1>2, <2>2, Layout DEF Built
  <2>3. CASE g = NPages
    <3>1. NR_PTE + 3 >= 2
      BY Layout
    <3>2. B[g] = [i \in Index |-> IF i = 0 THEN NPages - 1 ELSE NULL]
      BY <1>1, <2>3, <3>1 DEF Built
    <3>3. D[g] = [Zeroed EXCEPT ![0] = NPages - 1]
      BY <1>1, <2>3
    <3> HIDE DEF B, D
    <3> QED
      BY <1>1, <1>2, <3>2, <3>3
  <2>4. CASE g = StackTable
    BY <1>1, <2>4, Layout, SMTT(30) DEF Built
  <2>5. CASE g \notin {updir, vdtable, NPages, StackTable}
    BY <2>5 DEF Built, Zeroed
  <2> QED
    BY <2>1, <2>2, <2>3, <2>4, <2>5
<1>5. B = D
  BY <1>4 DEF Built
<1> QED
  BY <1>3, <1>5

\* The pages: an empty list, then the one of page_init, from which the loader
\* takes its pages one by one, and in the end the states of Memory.
LEMMA PagesStep == CpuOK /\ PagesOK /\ [BootNext]_<<vars, bootVars>> => PagesOK'
<1> SUFFICES ASSUME CpuOK, PagesOK, [BootNext]_<<vars, bootVars>>
             PROVE  PagesOK'
  OBVIOUS
<1>0. step \in Steps
  BY DEF CpuOK
<1> USE DEF At, PagesOK, Steps, ToLoad, ToMm, ToIdt, Unpaged, Loading, Handed
<1>1. CASE Start
  BY <1>1 DEF Start, vars
<1>2. CASE bootmain
  BY <1>2 DEF bootmain, Bss
<1>3. CASE FillTables
  BY <1>3 DEF FillTables, vars
<1>4. CASE SetPaging
  BY <1>4 DEF SetPaging, vars
<1>5. CASE SetKcr3
  BY <1>5 DEF SetKcr3, vars
<1>6. CASE Jump
  BY <1>6 DEF Jump, vars
<1>7. CASE init_segment
  BY <1>7 DEF init_segment, vars
<1>8. CASE init_idt
  BY <1>8 DEF init_idt, vars
<1>9. CASE init_intr
  BY <1>9 DEF init_intr, vars
<1>10. CASE init_mm
  BY <1>10 DEF init_mm, vars
<1>11. CASE pcb_init
  BY <1>11 DEF pcb_init, vars
<1>12. CASE NewIdle
  BY <1>12 DEF NewIdle, vars
<1>13. CASE LoaderStarts
  <2>1. /\ step = "load" /\ step' = "text" /\ walked' = 0
        /\ page_free_list = NULL /\ ent = [g \in Pages |-> Zeroed]
    BY <1>13 DEF LoaderStarts
  <2>2. /\ pp_link' = [g \in Pages |-> IF g = 1 THEN page_free_list
                                       ELSE IF g \in Ram THEN g - 1 ELSE NULL]
        /\ page_free_list' = NPages /\ ent' = ent
        /\ UNCHANGED <<cr3, team, op, halted, torn>>
    BY <1>13 DEF LoaderStarts
  <2>3. pp_link' = Links(NPages - 0)
    BY <2>1, <2>2, Layout, SMTT(30) DEF Links, Ram
  <2>4. ent' = Built(0, FALSE)
    BY <2>1, <2>2, Layout DEF Built, Zeroed
  <2>5. Taken(0, FALSE)'
    <3>1. NPages - 0 = NPages
      BY Sizes
    <3> QED
      BY <2>2, <2>3, <2>4, <3>1 DEF Taken
  <2> QED
    BY <2>1, <2>2, <2>5
<1>14. CASE LoadText
  <2>1. /\ step = "text" /\ walked = 0 /\ walked' = 0
        /\ UNCHANGED <<cr3, team, op, halted, torn>>
    BY <1>14 DEF LoadText, mm_malloc
  <2>2. PICK a \in {0, 1} : Taken(a, FALSE)
    BY <2>1
  <2>3. PICK done \in BOOLEAN :
          /\ IF ent[updir][TextDir] = NULL
             THEN ~done /\ page_alloc(Zeroed, updir, TextDir)
             ELSE done /\ page_alloc(Zeroed, ent[updir][TextDir], 0)
          /\ step' = IF done THEN "stack" ELSE "text"
    BY <1>14 DEF LoadText, mm_malloc
  <2>4. ent[updir][TextDir] = IF a = 0 THEN NULL ELSE NPages
    BY <2>2, Layout DEF Taken, Built
  <2>5. /\ page_alloc(Zeroed, Place(a), Entry(a))
        /\ step' = IF a = 1 THEN "stack" ELSE "text"
    BY <2>3, <2>4, Layout DEF Place, Entry
  <2>6. Taken(a + 1, FALSE)'
    <3>1. a \in 0 .. (NR_PTE + 2)
      BY Layout
    <3> QED
      BY <2>2, <2>5, <3>1, TakeNext
  <2>7. CASE a = 0
    <3>1. a + 1 = 1 /\ step' = "text"
      BY <2>5, <2>7
    <3> QED
      BY <2>1, <2>6, <3>1
  <2>8. CASE a = 1
    <3>1. a + 1 = 2 /\ step' = "stack" /\ 2 \in 2 .. (NR_PTE + 2)
      BY <2>5, <2>8, Layout
    <3> QED
      BY <2>1, <2>6, <3>1
  <2> QED
    BY <2>7, <2>8
<1>15. CASE LoadStack
  <2>1. step = "stack" /\ UNCHANGED <<cr3, team, op, halted, torn>>
    BY <1>15 DEF LoadStack, mm_malloc
  <2>2. PICK a \in 2 .. (NR_PTE + 2) :
          Taken(a, FALSE) /\ walked = IF a = 2 THEN 0 ELSE a - 3
    BY <2>1
  <2>3. PICK done \in BOOLEAN :
          /\ IF ent[updir][StackDir] = NULL
             THEN ~done /\ page_alloc(Zeroed, updir, StackDir)
             ELSE done /\ page_alloc(Zeroed, ent[updir][StackDir], walked)
          /\ walked' = IF done THEN walked + 1 ELSE walked
          /\ step' = IF walked' = NR_PTE THEN "video" ELSE "stack"
    BY <1>15 DEF LoadStack, mm_malloc
  <2>4. ent[updir][StackDir] = IF a = 2 THEN NULL ELSE StackTable
    BY <2>2, Layout, SMTT(30) DEF Taken, Built
  <2>5. /\ page_alloc(Zeroed, Place(a), Entry(a))
        /\ walked' = a - 2
    <3>1. CASE a = 2
      BY <2>2, <2>3, <2>4, <3>1, Layout DEF Place, Entry
    <3>2. CASE a # 2
      <4>1. /\ a \in Int /\ a >= 3
            /\ Place(a) = StackTable /\ Entry(a) = a - 3 /\ StackTable # NULL
        BY SMTT(30), <3>2, Layout DEF Place, Entry
      <4>2. page_alloc(Zeroed, StackTable, walked) /\ walked' = walked + 1
        BY <2>3, <2>4, <3>2, <4>1
      <4> QED
        BY <2>2, <3>2, <4>1, <4>2
    <3> QED
      BY <3>1, <3>2
  <2>6. Taken(a + 1, FALSE)'
    <3>1. a \in 0 .. (NR_PTE + 2)
      BY Layout
    <3> QED
      BY <2>2, <2>5, <3>1, TakeNext
  <2>7. CASE a = NR_PTE + 2
    <3>1. step' = "video" /\ a + 1 = NR_PTE + 3
      BY <2>3, <2>5, <2>7, Sizes
    <3> QED
      BY <2>1, <2>6, <3>1
  <2>8. CASE a # NR_PTE + 2
    <3>1. /\ step' = "stack" /\ a + 1 \in 2 .. (NR_PTE + 2)
          /\ walked' = IF a + 1 = 2 THEN 0 ELSE (a + 1) - 3
      BY <2>3, <2>5, <2>8, Sizes
    <3> QED
      BY <2>1, <2>6, <3>1
  <2> QED
    BY <2>7, <2>8
<1>16. CASE create_video_mapping
  <2>1. /\ step = "video" /\ step' = "ready" /\ Taken(NR_PTE + 3, FALSE)
        /\ ent' = [ent EXCEPT ![updir][VideoDir] = vdtable, ![vdtable][0] = VMEM]
        /\ UNCHANGED <<page_free_list, pp_link, cr3, team, op, halted, torn>>
    BY <1>16 DEF create_video_mapping
  <2>2. Taken(NR_PTE + 3, TRUE)'
    <3>1. NR_PTE + 3 \in Nat
      BY Layout
    <3> QED
      BY <2>1, <3>1, MapDisplay DEF Taken
  <2> QED
    BY <2>1, <2>2
<1>17. CASE GameReady
  <2>1. /\ step = "ready" /\ step' = "sti" /\ Taken(NR_PTE + 3, TRUE)
        /\ cr3' = [cr3 EXCEPT ![1] = updir] /\ cr3 = [p \in Procs |-> NULL]
        /\ UNCHANGED <<page_free_list, pp_link, ent, team, op, halted, torn>>
    BY <1>17 DEF GameReady
  <2>2. Taken(NR_PTE + 3, TRUE)'
    BY <2>1 DEF Taken
  <2>3. cr3' = [p \in Procs |-> IF p = 1 THEN updir ELSE NULL]
    BY <2>1
  <2> QED
    BY <2>1, <2>2, <2>3
<1>18. CASE enable_interrupt
  <2>1. /\ step = "sti" /\ step' = "open" /\ Taken(NR_PTE + 3, TRUE)
        /\ op' = Idle
        /\ UNCHANGED <<page_free_list, pp_link, ent, cr3, team, halted, torn>>
    BY <1>18 DEF enable_interrupt
  <2>2. /\ cr3 = [p \in Procs |-> IF p = 1 THEN updir ELSE NULL]
        /\ team = [p \in Procs |-> p] /\ halted = FALSE /\ torn = FALSE
    BY <2>1
  <2>3. page_free_list = NPages - 3 - NR_PTE
    BY <2>1, Layout DEF Taken
  <2>4. pp_link = [g \in Pages |-> IF g <= page_free_list THEN g - 1 ELSE NULL]
    BY <2>1 DEF Taken, Links
  <2>5. Init'
    BY <2>1, <2>2, <2>3, <2>4, LoaderDone DEF Taken, Init
  <2> QED
    BY <2>1, <2>5
<1>19. CASE Run
  <2>1. step \in Handed /\ step' = "running" /\ Next
    BY <1>19 DEF Run
  <2>2. Inv
    BY <2>1, InitInv
  <2>3. Inv'
    BY <2>1, <2>2, NextInv
  <2> QED
    BY <2>1, <2>3
<1>20. CASE UNCHANGED <<vars, bootVars>>
  <2>1. UNCHANGED vars /\ UNCHANGED <<step, walked>>
    BY <1>20 DEF bootVars
  <2>2. CASE step = "running"
    BY <2>1, <2>2, NextInv
  <2>3. CASE step # "running"
    BY <2>1, <2>3, <1>0, ZenonT(60) DEF vars, Taken, Init
  <2> QED
    BY <2>2, <2>3
<1> QED
  BY <1>1, <1>2, <1>3, <1>4, <1>5, <1>6, <1>7, <1>8, <1>9, <1>10, <1>11,
     <1>12, <1>13, <1>14, <1>15, <1>16, <1>17, <1>18, <1>19, <1>20 DEF BootNext

-----------------------------------------------------------------------------
\* init_idt, gate by gate.
LEMMA Gates ==
  ASSUME NEW v \in Int
  PROVE  /\ Gate(v).closes <=> v \in {32, 33, 46}
         /\ Gate(v).user <=> v = 128
         /\ Gate(v).handler = "vecsys" <=> v = 128
         /\ v = 32 => Gate(v).handler = "irq0"
         /\ v = 33 => Gate(v).handler = "irq1"
         /\ v = 46 => Gate(v).handler = "irq14"
<1> DEFINE h == CASE v \in 0 .. 14 -> "vec" [] v = 128 -> "vecsys"
                  [] v = 32 -> "irq0" [] v = 33 -> "irq1" [] v = 46 -> "irq14"
                  [] OTHER -> "irq_empty"
<1>1. /\ h = "vecsys" <=> v = 128
      /\ v = 32 => h = "irq0"
      /\ v = 33 => h = "irq1"
      /\ v = 46 => h = "irq14"
  <2>1. CASE v \in 0 .. 14
    BY <2>1
  <2>2. CASE v = 128
    BY <2>2
  <2>3. CASE v = 32
    BY <2>3
  <2>4. CASE v = 33
    BY <2>4
  <2>5. CASE v = 46
    BY <2>5
  <2>6. CASE v \notin 0 .. 14 /\ v \notin {128, 32, 33, 46}
    BY <2>6
  <2> QED
    BY <2>1, <2>2, <2>3, <2>4, <2>5, <2>6
<1>2. Gate(v) = [handler |-> h, closes |-> v \in {32, 33, 46}, user |-> v = 128]
  BY Zenon DEF Gate
<1> HIDE DEF h
<1>3. Gate(v).handler = h
  BY <1>2
<1>4. Gate(v).closes = (v \in {32, 33, 46})
  BY <1>2
<1>5. Gate(v).user = (v = 128)
  BY <1>2
<1> QED
  BY <1>1, <1>3, <1>4, <1>5, ZenonT(60)

LEMMA BootStart == BootInit => BootInv
<1> SUFFICES ASSUME BootInit PROVE BootInv
  OBVIOUS
<1> USE DEF Steps, ToLoad, ToMm, ToIdt, Unpaged, Loading, Handed
<1>1. CpuOK
  BY DEF BootInit, CpuOK, Halves, Low, High, Nowhere
<1>2. TablesOK
  BY DEF BootInit, TablesOK
<1>3. PcbOK
  BY DEF BootInit, PcbOK
<1>4. PagesOK
  BY DEF BootInit, PagesOK
<1> QED
  BY <1>1, <1>2, <1>3, <1>4 DEF BootInv

LEMMA BootInvariant == BootSpec => []BootInv
<1>1. BootInv /\ [BootNext]_<<vars, bootVars>> => BootInv'
  BY CpuStep, TablesStep, PcbStep, PagesStep DEF BootInv
<1> QED
  BY <1>1, BootStart, PTL DEF BootSpec

(***************************************************************************)
(* The kernel is linked at KOFFSET and started at its physical address;    *)
(* from the boot sector to sti (start.S, main.c, kvm.c), for every size of *)
(* the machine, what is executed, pushed to or dereferenced is mapped.     *)
(***************************************************************************)
THEOREM NothingUnmappedIsUsed == BootSpec => []AddressesReached
<1>1. BootInv => AddressesReached
  <2> SUFFICES ASSUME BootInv, step # "running",
                 NEW half \in ({cpu.eip, cpu.esp, cpu.idt, cpu.gdt} \cup Touches(step))
                              \ {Nowhere}
               PROVE  Reach(half)
    BY DEF AddressesReached
  <2>1. CpuOK /\ TablesOK
    BY DEF BootInv
  <2>2. half \in {Low, High}
    BY <2>1 DEF CpuOK, Halves, Touches
  <2>3. CASE step \in Unpaged
    <3>1. ~cpu.pg
      BY <2>1, <2>3 DEF CpuOK
    <3>2. Touches(step) = {Low}
      BY <2>3 DEF Touches, Unpaged
    <3>3. half = Low
      BY <2>1, <2>3, <3>2 DEF CpuOK
    <3> QED
      BY <3>1, <3>3 DEF Reach
  <2>4. CASE step \notin Unpaged
    <3>1. cpu.pg
      BY <2>1, <2>4 DEF CpuOK
    <3>2. kptable = FillPtes /\ kpdir = KDir
      BY <2>1, <2>4 DEF TablesOK, Unpaged
    <3> QED
      BY <2>2, <3>1, <3>2, KernelMapped DEF Reach
  <2> QED
    BY <2>3, <2>4
<1> QED
  BY <1>1, BootInvariant, PTL

(***************************************************************************)
(* init_cond (main.c) opens interrupts once, and by then the gates, the    *)
(* controllers, the TSS and the process's directory are set up and pages   *)
(* and PCBs are in the states that Memory and Pcb start from, whatever was *)
(* in memory before.                                                       *)
(***************************************************************************)
THEOREM KernelHandsOver == BootSpec => []HandsOver
<1>1. BootInv => HandsOver
  <2> SUFFICES ASSUME BootInv PROVE HandsOver
    OBVIOUS
  <2>1. CpuOK /\ TablesOK /\ PcbOK /\ PagesOK
    BY DEF BootInv
  <2>2. cpu.intr => step \in {"start", "open", "running"}
    BY <2>1 DEF CpuOK
  <2>3. ASSUME step = "open"
        PROVE  /\ Init
               /\ Pcb!PcbInit
               /\ cpu.tr /\ ~cpu.df /\ cpu.gdt = High /\ cpu.idt = High
               /\ kptable = FillPtes /\ upper = UDir
               /\ pic = [master |-> 32, slave |-> 40]
    <3> USE DEF ToMm, ToIdt, Unpaged
    <3>1. Init /\ Pcb!PcbInit
      BY <2>1, <2>3 DEF PagesOK, PcbOK, Handed
    <3>2. cpu.tr /\ ~cpu.df /\ cpu.gdt = High /\ cpu.idt = High
      BY <2>1, <2>3 DEF CpuOK
    <3>3. kptable = FillPtes /\ upper = UDir /\ pic = [master |-> 32, slave |-> 40]
      BY <2>1, <2>3 DEF TablesOK
    <3> QED
      BY <3>1, <3>2, <3>3
  <2>4. ASSUME step = "open", NEW n \in {0, 1, 14}
        PROVE  /\ Gate(Vector(n)).closes
               /\ Gate(Vector(n)).handler =
                    IF n = 0 THEN "irq0" ELSE IF n = 1 THEN "irq1" ELSE "irq14"
    <3>1. Vector(n) = 32 + n
      BY <2>3, <2>4 DEF Vector
    <3>2. CASE n = 0
      BY <3>1, <3>2, Gates
    <3>3. CASE n = 1
      BY <3>1, <3>3, Gates
    <3>4. CASE n = 14
      BY <3>1, <3>4, Gates
    <3> QED
      BY <3>2, <3>3, <3>4
  <2>5. ASSUME NEW v \in 0 .. 255
        PROVE  Gate(v).user <=> Gate(v).handler = "vecsys"
    BY Gates
  <2>6. step = "open" => Maps(upper, High) /\ ~Maps(upper, Low)
    BY <2>3, UpperMapped
  <2> QED
    BY <2>2, <2>3, <2>4, <2>5, <2>6 DEF HandsOver
<1> QED
  BY <1>1, BootInvariant, PTL

\* The list is one before there are pages on it, too.
LEMMA BootList ==
  ASSUME BootInv, step \notin Handed
  PROVE  \E F : IsList(page_free_list, pp_link, F)
<1>1. PagesOK /\ step \in Steps
  BY DEF BootInv, CpuOK
<1>2. CASE step \in ToLoad
  <2>1. page_free_list \in {NULL, VMEM} /\ pp_link = [g \in Pages |-> NULL]
    BY <1>1, <1>2 DEF PagesOK
  <2>2. CASE page_free_list = NULL
    <3>1. PICK f : f = [k \in 1 .. 0 |-> VMEM]
      OBVIOUS
    <3>2. f \in [1 .. 0 -> Pages] /\ 0 \in Nat
      BY <3>1
    <3>3. Stack(page_free_list, pp_link, 0, f)
      BY <2>2 DEF Stack
    <3> QED
      BY <3>2, <3>3 DEF IsList
  <2>3. CASE page_free_list = VMEM
    <3>1. VMEM \in Pages /\ 1 \in Nat /\ 1 .. 1 = {1}
      BY Layout
    <3>2. [k \in 1 .. 1 |-> VMEM] \in [1 .. 1 -> Pages]
      BY <3>1
    <3>3. Stack(page_free_list, pp_link, 1, [k \in 1 .. 1 |-> VMEM])
      BY <2>1, <2>3, <3>1 DEF Stack
    <3> QED
      BY <3>1, <3>2, <3>3 DEF IsList
  <2> QED
    BY <2>1, <2>2, <2>3
<1>3. CASE step \in Loading \cup {"sti"}
  <2>1. PICK a \in 0 .. (NR_PTE + 3) :
          page_free_list = NPages - a /\ pp_link = Links(NPages - a)
    <3>1. \E a \in 0 .. (NR_PTE + 3) : Taken(a, FALSE) \/ Taken(a, TRUE)
      <4>1. /\ {0, 1} \subseteq 0 .. (NR_PTE + 3)
            /\ 2 .. (NR_PTE + 2) \subseteq 0 .. (NR_PTE + 3)
            /\ NR_PTE + 3 \in 0 .. (NR_PTE + 3)
        BY Layout
      <4>2. step \in {"text", "stack", "video", "ready", "sti"}
        BY <1>3 DEF Loading
      <4> QED
        BY <1>1, <4>1, <4>2 DEF PagesOK
    <3> QED
      BY <3>1 DEF Taken
  <2>2. NPages - a \in 0 .. NPages
    BY Layout
  <2> QED
    BY <2>1, <2>2, DescendingList
<1> QED
  BY <1>1, <1>2, <1>3 DEF Steps

(***************************************************************************)
(* From the boot sector on, page_init, the loader and then fork,           *)
(* create_thread and exit (pmap.c) keep the free list a list, processes    *)
(* apart and every page accounted for: what is proved of Memory does not   *)
(* rest on an initial state that the machine might not reach.              *)
(***************************************************************************)
THEOREM PagesSoundFromBoot == BootSpec => [](FreeListSound /\ Isolation /\ NoLeak)
<1>1. BootInv => FreeListSound /\ Isolation /\ NoLeak
  <2> SUFFICES ASSUME BootInv PROVE FreeListSound /\ Isolation /\ NoLeak
    OBVIOUS
  <2>1. CASE step \in Handed
    <3>1. Inv
      BY <2>1, InitInv DEF BootInv, PagesOK, Handed
    <3> QED
      BY <3>1, InvFreeList, InvIsolation, InvNoLeak
  <2>2. CASE step \notin Handed
    <3>1. Chain[Cardinality(Pages)] = NULL
      BY <2>2, BootList, ListedPages
    <3>2. ~Quiet
      BY <2>2 DEF BootInv, PagesOK, Quiet, Idle
    <3> QED
      BY <3>1, <3>2 DEF FreeListSound, Isolation, NoLeak
  <2> QED
    BY <2>1, <2>2
<1> QED
  BY <1>1, BootInvariant, PTL
=============================================================================
