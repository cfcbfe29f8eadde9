---------------------------- MODULE LibraryProofs ---------------------------
(***************************************************************************)
(* What read, write and lseek promise, and the routines of lib/string.c    *)
(* they and the programs use, for every size of block, file, buffer and    *)
(* word.                                                                   *)
(***************************************************************************)
EXTENDS Library, NaturalsInduction, SequenceTheorems, WellFoundedInduction, TLAPS
-----------------------------------------------------------------------------
\* Counting: what it takes of division, and the least of a set.
LEMMA Later ==
  ASSUME NEW q \in Nat, NEW k \in Nat, NEW w \in Nat, q > k
  PROVE  q * w >= k * w + w
<1>1. PICK r \in Nat : q = k + 1 + r
  <2>1. q - k - 1 \in Nat /\ q = k + 1 + (q - k - 1)
    OBVIOUS
  <2> QED
    BY <2>1
<1>2. q * w = k * w + w + r * w /\ r * w \in Nat /\ k * w \in Nat
  BY <1>1
<1> QED
  BY <1>2

LEMMA NotLater ==
  ASSUME NEW w \in Nat \ {0}, NEW A \in Nat, NEW B \in Nat, A * w < B * w + w
  PROVE  A <= B /\ A * w <= B * w
<1>1. PICK x, y \in Nat : x = A * w /\ y = B * w
  OBVIOUS
<1>2. A > B => x >= y + w
  BY <1>1, Later
<1>3. B > A => y >= x + w
  BY <1>1, Later
<1>4. A = B => x = y
  BY <1>1
<1>5. x < y + w
  BY <1>1
<1>6. A <= B
  BY <1>2, <1>5
<1>7. x <= y
  BY <1>3, <1>4, <1>6
<1> QED
  BY <1>1, <1>6, <1>7

LEMMA Parted ==
  ASSUME NEW w \in Nat \ {0}, NEW n \in Nat
  PROVE  \E q, r \in Nat :
           q = n \div w /\ r = n % w /\ r < w /\ n = q * w + r
<1>1. PICK q : q = n \div w
  OBVIOUS
<1>2. PICK r : r = n % w
  OBVIOUS
<1>3. q \in Int /\ r \in 0 .. (w - 1)
  BY <1>1, <1>2
<1>4. r = n - w * q
  BY <1>1, <1>2, Z3
<1>5. q >= 0
  <2>1. ASSUME NEW x \in Int, x <= -1 PROVE w * x <= -w
    BY <2>1
  <2> QED
    BY <1>3, <1>4, <2>1
<1>6. n = q * w + r
  BY <1>3, <1>4
<1>7. q \in Nat /\ r \in Nat /\ r < w
  BY <1>3, <1>5
<1> QED
  BY <1>1, <1>2, <1>6, <1>7, Zenon

LEMMA Divided ==
  ASSUME NEW w \in Nat \ {0}, NEW q \in Nat, NEW r \in 0 .. (w - 1), NEW n \in Nat,
         n = q * w + r
  PROVE  n \div w = q /\ n % w = r
<1>1. PICK p, t \in Nat : p = n \div w /\ t = n % w /\ t < w /\ n = p * w + t
  BY Parted
<1>2. t < w /\ n = p * w + t
  BY <1>1
<1>3. PICK x, y \in Nat : x = q * w /\ y = p * w
  BY <1>2
<1>4. n = x + r /\ n = y + t
  BY <1>2, <1>3
<1>5. x < y + w /\ y < x + w
  BY <1>2, <1>4
<1>6. q <= p /\ p <= q
  BY <1>2, <1>3, <1>5, NotLater
<1>7. p = q
  BY <1>2, <1>6
<1>8. x = y
  BY <1>3, <1>7
<1> QED
  BY <1>1, <1>2, <1>4, <1>7, <1>8

LEMMA LeastExists ==
  ASSUME NEW S \in SUBSET Nat, S # {}
  PROVE  \E x \in S : \A y \in S : x <= y
<1> DEFINE R == OpToRel(<, Nat)
<1>1. IsWellFoundedOn(R, Nat)
  BY NatLessThanWellFounded
<1>2. PICK x \in S : \A y \in S : ~(<<y, x>> \in R)
  <2> HIDE DEF R
  <2> QED
    BY <1>1, WFMin
<1>3. ASSUME NEW y \in S PROVE x <= y
  <2>1. x \in Nat /\ y \in Nat
    OBVIOUS
  <2>2. ~(y < x)
    BY <1>2, <2>1 DEF OpToRel
  <2> QED
    BY <2>1, <2>2
<1> QED
  BY <1>2, <1>3
-----------------------------------------------------------------------------
Blocks == [0 .. (BLOCK - 1) -> Byte]
Disks  == [0 .. NBlocks -> Blocks]

LEMMA Sizes ==
  /\ BLOCK \in Nat \ {0} /\ NBlocks \in Nat \ {0} /\ MaxCount \in Nat
  /\ FileSize = NBlocks * BLOCK /\ FileSize \in Nat
  BY IOAssumption DEF FileSize

\* Piece i of a transfer of n bytes at off, p, in terms of the file: it begins
\* where the transfer or its block does and ends where either ends.
Piece(off, n, i, N, p) ==
  /\ p.at \in 0 .. (BLOCK - 1) /\ p.len \in Nat /\ p.from \in Nat /\ p.blk \in Nat
  /\ p.blk = (off \div BLOCK) + i - 1
  /\ off + p.from = p.blk * BLOCK + p.at
  /\ i = 1 => p.from = 0
  /\ i > 1 => p.at = 0
  /\ i < N => p.at + p.len = BLOCK
  /\ i = N => p.from + p.len = n
  /\ p.at + p.len <= BLOCK /\ p.from + p.len <= n

LEMMA PiecesAre ==
  ASSUME NEW off \in Nat, NEW n \in Nat, NEW ps, ps = Pieces(off, n)
  PROVE  \E N \in Nat \ {0} :
           /\ DOMAIN ps = 1 .. N /\ Len(ps) = N
           /\ (off + n) \div BLOCK = (off \div BLOCK) + N - 1
           /\ \A i \in 1 .. N : Piece(off, n, i, N, ps[i])
<1>0. BLOCK \in Nat \ {0}
  BY Sizes
<1>1. PICK nr, start \in Nat : nr = off \div BLOCK /\ start = off % BLOCK /\ start < BLOCK
                               /\ off = nr * BLOCK + start
  BY <1>0, Parted
<1>2. PICK num, end \in Nat : num = (off + n) \div BLOCK /\ end = (off + n) % BLOCK
                              /\ end < BLOCK /\ off + n = num * BLOCK + end
  BY <1>0, Parted
<1>3. PICK x, y \in Nat : x = nr * BLOCK /\ y = num * BLOCK
  BY <1>0
<1>4. off = x + start /\ off + n = y + end /\ start < BLOCK /\ end < BLOCK
  BY <1>1, <1>2, <1>3
<1>5. nr <= num /\ x <= y
  <2>1. x < y + BLOCK
    BY <1>0, <1>4
  <2> QED
    BY <1>0, <1>3, <2>1, NotLater
<1>6. PICK rest : rest = BLOCK - start
  OBVIOUS
<1>7. rest \in Nat \ {0} /\ rest <= BLOCK
  BY <1>0, <1>4, <1>6
<1>8. CASE num = nr
  <2>1. ps = <<[blk |-> nr, at |-> start, from |-> 0, len |-> n]>>
    BY <1>1, <1>2, <1>8 DEF Pieces
  <2>2. DOMAIN ps = 1 .. 1 /\ Len(ps) = 1 /\ ps[1].blk = nr /\ ps[1].at = start
        /\ ps[1].from = 0 /\ ps[1].len = n
    BY <2>1
  <2>3. x = y /\ start + n < BLOCK
    BY <1>0, <1>3, <1>4, <1>8
  <2>4. off + 0 = nr * BLOCK + start /\ nr = off \div BLOCK + 1 - 1
        /\ (off + n) \div BLOCK = (off \div BLOCK) + 1 - 1
    BY <1>1, <1>2, <1>8
  <2>5. Piece(off, n, 1, 1, ps[1])
    BY <1>0, <1>4, <2>2, <2>3, <2>4 DEF Piece
  <2> QED
    BY <2>2, <2>4, <2>5
<1>9. CASE num # nr
  <2>1. PICK N \in Nat \ {0} : N = num - nr + 1
    BY <1>5
  <2>2. N >= 2 /\ nr + N - 1 = num
    BY <1>5, <1>9, <2>1
  <2>3. ps = [i \in 1 .. N |->
               [blk  |-> nr + i - 1,
                at   |-> IF i = 1 THEN start ELSE 0,
                from |-> IF i = 1 THEN 0 ELSE rest + (i - 2) * BLOCK,
                len  |-> IF i = 1 THEN rest ELSE IF i = N THEN end ELSE BLOCK]]
    BY <1>1, <1>2, <1>6, <1>9, <2>1 DEF Pieces
  <2>4. DOMAIN ps = 1 .. N /\ Len(ps) = N
    BY <2>3
  <2>5. y >= x + BLOCK
    BY <1>0, <1>3, <1>5, <1>9, Later
  <2>6. ASSUME NEW i \in 1 .. N PROVE Piece(off, n, i, N, ps[i])
    <3>1. CASE i = 1
      <4>1. ps[i].blk = nr /\ ps[i].at = start /\ ps[i].from = 0 /\ ps[i].len = rest
        BY <2>3, <3>1
      <4>2. start + rest = BLOCK /\ rest <= n /\ 1 < N
        BY <1>0, <1>4, <1>6, <2>2, <2>5
      <4>3. off + 0 = nr * BLOCK + start /\ nr = off \div BLOCK + 1 - 1
        BY <1>1
      <4> QED
        <5>1. /\ ps[i].at \in 0 .. (BLOCK - 1) /\ ps[i].len \in Nat
              /\ ps[i].from \in Nat /\ ps[i].blk \in Nat
          BY <1>0, <1>4, <1>7, <4>1
        <5>2. ps[i].blk = (off \div BLOCK) + i - 1
          BY <3>1, <4>1, <4>3
        <5>3. off + ps[i].from = ps[i].blk * BLOCK + ps[i].at
          BY <4>1, <4>3
        <5>4. /\ i < N /\ i # N /\ ~(i > 1) /\ ps[i].from = 0
              /\ ps[i].at + ps[i].len = BLOCK /\ ps[i].from + ps[i].len <= n
          BY <1>0, <1>7, <3>1, <4>1, <4>2
        <5> QED
          BY <1>0, <5>1, <5>2, <5>3, <5>4 DEF Piece
    <3>2. CASE i # 1
      <4>1. /\ ps[i].blk = nr + i - 1 /\ ps[i].at = 0 /\ ps[i].from = rest + (i - 2) * BLOCK
            /\ ps[i].len = (IF i = N THEN end ELSE BLOCK)
        BY <2>3, <3>2
      <4>2. PICK k \in Nat : i = k + 2
        BY <3>2
      <4>3. PICK z, w \in Nat : z = (i - 2) * BLOCK /\ w = (nr + i - 1) * BLOCK
        <5>1. i - 2 = k /\ nr + i - 1 \in Nat
          BY <4>2
        <5> QED
          BY <1>0, <5>1
      <4>4. w = x + BLOCK + z
        <5>1. (nr + (k + 1)) * BLOCK = nr * BLOCK + BLOCK + k * BLOCK
          BY <1>0
        <5>2. nr + i - 1 = nr + (k + 1) /\ i - 2 = k
          BY <4>2
        <5> QED
          BY <1>3, <4>3, <5>1, <5>2
      <4>5. off + (rest + z) = w + 0 /\ ps[i].from = rest + z
        BY <1>0, <1>4, <1>6, <4>1, <4>3, <4>4
      <4>6. CASE i = N
        <5>1. w = y
          BY <1>3, <2>2, <4>3, <4>6
        <5>2. (rest + z) + end = n
          BY <1>0, <1>4, <4>5, <5>1, <1>7
        <5>3. ps[i].len = end
          BY <4>1, <4>6
        <5>4. off + ps[i].from = ps[i].blk * BLOCK + ps[i].at
          BY <4>1, <4>3, <4>5
        <5>5. ps[i].blk = (off \div BLOCK) + i - 1 /\ ps[i].blk \in Nat
          BY <1>1, <4>1, <4>2
        <5> QED
          BY <1>0, <1>4, <1>7, <3>2, <4>1, <4>5, <4>6, <5>2, <5>3, <5>4, <5>5 DEF Piece
      <4>7. CASE i # N
        <5>1. y >= w + BLOCK
          <6>1. num > nr + i - 1 /\ nr + i - 1 \in Nat
            BY <2>1, <4>2, <4>7
          <6>2. num * BLOCK >= (nr + i - 1) * BLOCK + BLOCK
            BY <1>0, <6>1, Later
          <6> QED
            BY <1>3, <4>3, <6>2
        <5>2. (rest + z) + BLOCK <= n
          BY <1>0, <1>4, <1>7, <4>5, <5>1
        <5>3. ps[i].len = BLOCK
          BY <4>1, <4>7
        <5>4. off + ps[i].from = ps[i].blk * BLOCK + ps[i].at
          BY <4>1, <4>3, <4>5
        <5>5. ps[i].blk = (off \div BLOCK) + i - 1 /\ ps[i].blk \in Nat
          BY <1>1, <4>1, <4>2
        <5> QED
          BY <1>0, <1>7, <3>2, <4>1, <4>5, <4>7, <5>2, <5>3, <5>4, <5>5 DEF Piece
      <4> QED
        BY <4>6, <4>7
    <3> QED
      BY <3>1, <3>2
  <2>7. (off + n) \div BLOCK = (off \div BLOCK) + N - 1
    BY <1>1, <1>2, <2>2
  <2> QED
    BY <2>4, <2>6, <2>7
<1> QED
  BY <1>8, <1>9

\* Every byte of the transfer lies in a piece, and there where the file has it.
LEMMA SomePiece ==
  ASSUME NEW off \in Nat, NEW n \in Nat, NEW N \in Nat \ {0}, NEW ps,
         (off + n) \div BLOCK = (off \div BLOCK) + N - 1,
         \A i \in 1 .. N : Piece(off, n, i, N, ps[i]),
         NEW q \in 0 .. (n - 1)
  PROVE  \E i \in 1 .. N : q \in ps[i].from .. (ps[i].from + ps[i].len - 1)
<1>0. BLOCK \in Nat \ {0}
  BY Sizes
<1>1. PICK nr, start \in Nat : nr = off \div BLOCK /\ start = off % BLOCK /\ start < BLOCK
                               /\ off = nr * BLOCK + start
  BY <1>0, Parted
<1>2. PICK num, end \in Nat : num = (off + n) \div BLOCK /\ end = (off + n) % BLOCK
                              /\ end < BLOCK /\ off + n = num * BLOCK + end
  BY <1>0, Parted
<1>3. off + q \in Nat
  OBVIOUS
<1>4. PICK c, k \in Nat : c = (off + q) \div BLOCK /\ k = (off + q) % BLOCK
                          /\ k < BLOCK /\ off + q = c * BLOCK + k
  BY <1>0, <1>3, Parted
<1>5. PICK x, y, z \in Nat : x = nr * BLOCK /\ y = num * BLOCK /\ z = c * BLOCK
  BY <1>0
<1>6. /\ off = x + start /\ off + n = y + end /\ off + q = z + k
      /\ start < BLOCK /\ end < BLOCK /\ k < BLOCK
  BY <1>1, <1>2, <1>4, <1>5
<1>7. nr <= c /\ c <= num
  <2>1. x < z + BLOCK /\ z < y + BLOCK
    BY <1>0, <1>6
  <2> QED
    BY <1>0, <1>5, <2>1, NotLater
<1>8. num = nr + N - 1
  BY <1>1, <1>2
<1>9. PICK i \in 1 .. N : i = c - nr + 1
  BY <1>7, <1>8
<1>10. PICK at, len, from, blk \in Nat :
         at = ps[i].at /\ len = ps[i].len /\ from = ps[i].from /\ blk = ps[i].blk
  <2>1. Piece(off, n, i, N, ps[i])
    OBVIOUS
  <2>2. ps[i].at \in Nat /\ ps[i].len \in Nat /\ ps[i].from \in Nat /\ ps[i].blk \in Nat
    BY <1>0, <2>1 DEF Piece
  <2> QED
    BY <2>2
<1>11. /\ blk = nr + i - 1 /\ off + from = blk * BLOCK + at
       /\ (i = 1 => from = 0) /\ (i > 1 => at = 0)
       /\ (i < N => at + len = BLOCK) /\ (i = N => from + len = n)
  <2>1. Piece(off, n, i, N, ps[i])
    OBVIOUS
  <2> QED
    BY <1>1, <1>10, <2>1 DEF Piece
<1>12. blk = c
  BY <1>9, <1>11
<1>13. off + from = z + at
  BY <1>5, <1>11, <1>12
<1>14. from <= q
  BY <1>6, <1>11, <1>13
<1>15. q < from + len
  <2>1. CASE i < N
    BY <1>6, <1>11, <1>13, <2>1
  <2>2. CASE i = N
    BY <1>11, <2>2
  <2> QED
    BY <2>1, <2>2
<1> QED
  BY <1>10, <1>14, <1>15

LEMMA PieceInFile ==
  ASSUME NEW off \in Nat, NEW n \in Nat, NEW i, NEW N, NEW p, Piece(off, n, i, N, p),
         NEW j \in 0 .. (p.len - 1)
  PROVE  /\ (off + p.from + j) \div BLOCK = p.blk
         /\ (off + p.from + j) % BLOCK = p.at + j /\ p.from + j \in 0 .. (n - 1)
         /\ p.at + j \in 0 .. (BLOCK - 1)
<1>0. BLOCK \in Nat \ {0}
  BY Sizes
<1>1. PICK at, len, from, blk \in Nat :
        at = p.at /\ len = p.len /\ from = p.from /\ blk = p.blk
  BY <1>0 DEF Piece
<1>2. off + from = blk * BLOCK + at /\ at + len <= BLOCK /\ from + len <= n
  BY <1>1 DEF Piece
<1>3. j \in Nat /\ j < len
  BY <1>1
<1>4. PICK r \in 0 .. (BLOCK - 1) : r = at + j
  BY <1>0, <1>2, <1>3
<1>5. PICK m \in Nat : m = off + from + j
  BY <1>3
<1>6. m = blk * BLOCK + r
  BY <1>0, <1>2, <1>3, <1>4, <1>5
<1>7. blk \in Nat /\ r \in 0 .. (BLOCK - 1) /\ m \in Nat
  OBVIOUS
<1>8. m \div BLOCK = blk /\ m % BLOCK = r
  BY ONLY <1>0, <1>6, <1>7, Divided
<1>9. from + j \in 0 .. (n - 1)
  BY <1>2, <1>3
<1> QED
  BY <1>1, <1>4, <1>5, <1>8, <1>9

LEMMA FileBlocks ==
  ASSUME NEW q \in Nat, q < FileSize
  PROVE  q \div BLOCK \in 0 .. (NBlocks - 1) /\ q % BLOCK \in 0 .. (BLOCK - 1)
<1>0. BLOCK \in Nat \ {0} /\ NBlocks \in Nat /\ FileSize = NBlocks * BLOCK
  BY Sizes
<1>1. PICK c, k \in Nat : c = q \div BLOCK /\ k = q % BLOCK /\ k < BLOCK /\ q = c * BLOCK + k
  BY <1>0, Parted
<1>2. PICK x, y \in Nat : x = c * BLOCK /\ y = NBlocks * BLOCK
  BY <1>0
<1>3. q = x + k /\ q < y
  BY <1>0, <1>1, <1>2
<1>4. c >= NBlocks => x >= y
  <2>1. c > NBlocks => x >= y + BLOCK
    BY <1>0, <1>2, Later
  <2>2. c = NBlocks => x = y
    BY <1>2
  <2> QED
    BY <1>0, <2>1, <2>2
<1>5. c < NBlocks
  BY <1>0, <1>3, <1>4
<1> QED
  BY <1>0, <1>1, <1>5

\* strlen of a block: where its first '\0' is.
LEMMA TextOfBlock ==
  ASSUME NEW b \in Blocks
  PROVE  /\ TextLength(b) \in 0 .. BLOCK
         /\ TextLength(b) = BLOCK \/ b[TextLength(b)] = NUL
         /\ \A j \in 0 .. (TextLength(b) - 1) : b[j] # NUL
<1>0. BLOCK \in Nat \ {0} /\ DOMAIN b = 0 .. (BLOCK - 1)
  BY Sizes DEF Blocks
<1> DEFINE stop == Zeros(b)
           Is(a) == /\ a = 0 + BLOCK \/ a \in stop
                    /\ \A c \in 0 .. (a - 1) : c \notin stop
           S == stop \cup {BLOCK}
<1>1. stop \subseteq Nat /\ \A a : a \in stop <=> a \in 0 .. (BLOCK - 1) /\ b[a] = NUL
  BY <1>0 DEF Zeros
<1>2. PICK a \in S : \A c \in S : a <= c
  <2>1. S \subseteq Nat /\ S # {}
    BY <1>0, <1>1
  <2> HIDE DEF S
  <2> QED
    BY <2>1, LeastExists
<1>3. a \in 0 .. (0 + BLOCK) /\ Is(a)
  BY <1>0, <1>1, <1>2
<1>4. PICK t : t = CHOOSE c \in 0 .. (0 + BLOCK) : Is(c)
  OBVIOUS
<1>5. t \in 0 .. (0 + BLOCK) /\ Is(t)
  <2> HIDE DEF Is
  <2> QED
    BY <1>3, <1>4, Zenon
<1>6. FirstAt(Zeros(b), 0, BLOCK) = t
  BY <1>4, Zenon DEF FirstAt
<1>7. TextLength(b) = t
  BY <1>0, <1>5, <1>6 DEF TextLength, strnlen
<1> QED
  BY <1>0, <1>1, <1>5, <1>7
-----------------------------------------------------------------------------
\* A read, from any offset, of any text inside the file.
LEMMA ReadsText ==
  ASSUME NEW d \in Disks, NEW off \in Nat, NEW n \in Nat \ {0}, off + n <= FileSize,
         \A q \in 0 .. (n - 2) : FileByte(d, off + q) # NUL
  PROVE  /\ \A q \in 0 .. (n - 1) : ReadByte(d, off, n, q) = FileByte(d, off + q)
         /\ (off + n) % BLOCK # 0 => ReadByte(d, off, n, n) = "kept"
<1>0. BLOCK \in Nat \ {0} /\ NBlocks \in Nat \ {0} /\ FileSize \in Nat
  BY Sizes
<1>1. PICK ps : ps = Pieces(off, n)
  OBVIOUS
<1>2. PICK N \in Nat \ {0} :
        /\ DOMAIN ps = 1 .. N /\ Len(ps) = N
        /\ (off + n) \div BLOCK = (off \div BLOCK) + N - 1
        /\ \A i \in 1 .. N : Piece(off, n, i, N, ps[i])
  BY <1>1, PiecesAre
<1> DEFINE In(q, i) == q \in ps[i].from .. (ps[i].from + ps[i].len - 1)
           Strcpied(i) == i > 1 /\ i < Len(ps)
           Value(q, i) ==
             LET b == d[Sector(ps[i].blk)]
                 k == q - ps[i].from
             IN  IF ~Strcpied(i) THEN StrncpyByte(b, ps[i].at, k)
                 ELSE IF k < TextLength(b) THEN b[k]
                 ELSE IF k = TextLength(b) THEN NUL ELSE "kept"
\* The piece and the block behind a byte of the buffer.
<1>3. ASSUME NEW i \in 1 .. N, NEW j \in 0 .. (ps[i].len - 1)
      PROVE  /\ ps[i].blk \in 0 .. (NBlocks - 1)
             /\ FileByte(d, off + (ps[i].from + j)) = d[Sector(ps[i].blk)][ps[i].at + j]
             /\ ps[i].from + j \in 0 .. (n - 1)
  <2>1. Piece(off, n, i, N, ps[i])
    BY <1>2
  <2>2. PICK p : p = ps[i]
    OBVIOUS
  <2>3. Piece(off, n, i, N, p) /\ j \in 0 .. (p.len - 1)
    BY <2>1, <2>2
  <2>4. /\ (off + p.from + j) \div BLOCK = p.blk
        /\ (off + p.from + j) % BLOCK = p.at + j /\ p.from + j \in 0 .. (n - 1)
    BY <2>3, PieceInFile
  <2>5. p.from \in Nat /\ p.blk \in Nat
    BY <2>3 DEF Piece
  <2>6. PICK m \in Nat : m = off + (p.from + j) /\ m = off + p.from + j
    BY <2>5
  <2>7. m < FileSize
    BY <1>0, <2>4, <2>6
  <2>8. m \div BLOCK \in 0 .. (NBlocks - 1)
    BY <2>7, FileBlocks
  <2>9. p.blk \in 0 .. (NBlocks - 1) /\ m \div BLOCK = p.blk /\ m % BLOCK = p.at + j
    BY <2>4, <2>6, <2>8
  <2>10. Sector(p.blk) = p.blk + 1
    BY <1>0, <2>9 DEF Sector
  <2>11. FileByte(d, m) = d[Sector(p.blk)][p.at + j]
    BY <2>9, <2>10 DEF FileByte
  <2> QED
    BY <2>2, <2>4, <2>6, <2>9, <2>11
<1>4. ASSUME NEW q \in 0 .. (n - 1), NEW i \in 1 .. N, In(q, i)
      PROVE  Value(q, i) = FileByte(d, off + q)
  <2>1. PICK at, len, from \in Nat : at = ps[i].at /\ len = ps[i].len /\ from = ps[i].from
    <3>1. Piece(off, n, i, N, ps[i])
      BY <1>2
    <3>2. ps[i].at \in Nat /\ ps[i].len \in Nat /\ ps[i].from \in Nat
      BY <1>0, <3>1 DEF Piece
    <3> QED
      BY <3>2
  <2>2. PICK k : k = q - from
    OBVIOUS
  <2>3. k \in 0 .. (len - 1) /\ from + k = q
    BY <1>4, <2>1, <2>2
  <2>4. PICK b : b = d[Sector(ps[i].blk)]
    OBVIOUS
  <2>5. FileByte(d, off + q) = b[at + k] /\ ps[i].blk \in 0 .. (NBlocks - 1)
    BY <1>3, <2>1, <2>3, <2>4
  <2>6. b \in Blocks
    BY <1>0, <2>4, <2>5 DEF Disks, Sector
  <2>7. ASSUME NEW j \in 0 .. (k - 1) PROVE b[at + j] # NUL
    <3>1. j \in 0 .. (len - 1) /\ from + j \in 0 .. (n - 2)
      BY <2>3
    <3>2. FileByte(d, off + (from + j)) = b[at + j]
      BY <1>3, <2>1, <2>4, <3>1
    <3> QED
      BY <3>1, <3>2
  <2>8. CASE ~Strcpied(i)
    <3>1. Value(q, i) = StrncpyByte(b, at, k)
      BY <2>1, <2>2, <2>4, <2>8
    <3>2. ASSUME NEW c \in at .. (at + k), b[c] = NUL PROVE c = at + k
      <4>1. SUFFICES ASSUME c # at + k PROVE FALSE
        OBVIOUS
      <4>2. PICK j \in 0 .. (k - 1) : c = at + j
        <5>1. c - at \in 0 .. (k - 1) /\ c = at + (c - at)
          BY <2>3, <4>1
        <5> QED
          BY <5>1
      <4> QED
        BY <2>7, <3>2, <4>2
    <3>3. at + k \in at .. (at + k)
      BY <2>3
    <3>4. StrncpyByte(b, at, k) = b[at + k]
      <4>1. CASE \E c \in at .. (at + k) : b[c] = NUL
        <5>1. b[at + k] = NUL
          BY <3>2, <4>1
        <5> QED
          BY <4>1, <5>1 DEF StrncpyByte
      <4>2. CASE ~\E c \in at .. (at + k) : b[c] = NUL
        BY <4>2 DEF StrncpyByte
      <4> QED
        BY <4>1, <4>2
    <3> QED
      BY <2>5, <3>1, <3>4
  <2>9. CASE Strcpied(i)
    <3>1. at = 0
      <4>1. Piece(off, n, i, N, ps[i])
        BY <1>2
      <4> QED
        BY <2>1, <2>9, <4>1 DEF Piece
    <3>2. Value(q, i) = IF k < TextLength(b) THEN b[k]
                        ELSE IF k = TextLength(b) THEN NUL ELSE "kept"
      BY <2>1, <2>2, <2>4, <2>9
    <3>3. PICK t : t = TextLength(b)
      OBVIOUS
    <3>4. /\ t \in 0 .. BLOCK
          /\ t = BLOCK \/ b[t] = NUL
          /\ \A j \in 0 .. (t - 1) : b[j] # NUL
      BY <2>6, <3>3, TextOfBlock
    <3>5. at + k = k /\ \A j \in 0 .. (k - 1) : at + j = j
      BY <2>3, <3>1
    <3>6. FileByte(d, off + q) = b[k] /\ \A j \in 0 .. (k - 1) : b[j] # NUL
      BY <2>5, <2>7, <3>5
    <3>7. k < BLOCK /\ k \in Nat
      <4>1. Piece(off, n, i, N, ps[i])
        BY <1>2
      <4>2. at + len <= BLOCK
        BY <2>1, <4>1 DEF Piece
      <4> QED
        BY <1>0, <2>3, <3>1, <4>2
    <3>8. ~(t < k)
      <4>1. SUFFICES ASSUME t < k PROVE FALSE
        OBVIOUS
      <4>2. t \in 0 .. (k - 1) /\ t # BLOCK
        BY <1>0, <3>4, <3>7, <4>1
      <4>3. b[t] = NUL
        BY <3>4, <4>2
      <4> QED
        BY <3>6, <4>2, <4>3
    <3>9. k < t \/ k = t
      BY <1>0, <3>4, <3>7, <3>8
    <3>10. k = t => b[k] = NUL
      BY <1>0, <3>4, <3>7
    <3>11. ~(t < t)
      BY <1>0, <3>4
    <3> QED
      BY <3>2, <3>3, <3>6, <3>9, <3>10, <3>11
  <2> QED
    BY <2>8, <2>9
<1>5. ASSUME NEW q \in 0 .. (n - 1) PROVE ReadByte(d, off, n, q) = FileByte(d, off + q)
  <2>1. \E i \in 1 .. N : In(q, i)
    BY <1>2, SomePiece
  <2>2. PICK i : i = CHOOSE c \in DOMAIN ps : In(q, c)
    OBVIOUS
  <2>3. i \in 1 .. N /\ In(q, i)
    <3> HIDE DEF In
    <3> QED
      BY <1>2, <2>1, <2>2, Zenon
  <2>4. ReadByte(d, off, n, q) = Value(q, i)
    <3>1. \E c \in DOMAIN ps : In(q, c)
      BY <1>2, <2>1
    <3> QED
      BY <1>1, <2>2, <3>1, Zenon DEF ReadByte
  <2> QED
    BY <1>4, <2>3, <2>4
<1>6. ASSUME (off + n) % BLOCK # 0 PROVE ReadByte(d, off, n, n) = "kept"
  <2>1. ASSUME NEW i \in 1 .. N PROVE ~In(n, i)
    <3>1. Piece(off, n, i, N, ps[i])
      BY <1>2
    <3>2. ps[i].from \in Nat /\ ps[i].len \in Nat /\ ps[i].from + ps[i].len <= n
      BY <3>1 DEF Piece
    <3> QED
      BY <3>2
  <2>2. ASSUME NEW i \in 1 .. N, Strcpied(i), n = ps[i].from + BLOCK PROVE FALSE
    <3>1. Piece(off, n, i, N, ps[i]) /\ i > 1 /\ i < N
      BY <1>2, <2>2
    <3>2. PICK from, blk \in Nat : from = ps[i].from /\ blk = ps[i].blk
      BY <3>1 DEF Piece
    <3>3. off + from = blk * BLOCK + 0
      BY <3>1, <3>2 DEF Piece
    <3>4. (blk + 1) * BLOCK = blk * BLOCK + BLOCK /\ blk * BLOCK \in Nat
      BY <1>0
    <3>5. PICK x, y \in Nat : x = blk * BLOCK /\ y = (blk + 1) * BLOCK
      BY <1>0
    <3>6. off + from = x /\ y = x + BLOCK
      BY <3>3, <3>4, <3>5
    <3>7. off + n = y
      BY <1>0, <2>2, <3>2, <3>6
    <3>8. PICK m, c : m = off + n /\ c = blk + 1
      OBVIOUS
    <3>9. m \in Nat /\ c \in Nat /\ 0 \in 0 .. (BLOCK - 1) /\ m = c * BLOCK + 0
      BY <1>0, <3>5, <3>7, <3>8
    <3>10. m % BLOCK = 0
      BY ONLY <1>0, <3>9, Divided
    <3> QED
      BY <1>6, <3>8, <3>10
  <2>3. ~\E i \in DOMAIN ps : In(n, i)
    BY <1>2, <2>1
  <2>4. ~\E i \in DOMAIN ps : /\ Strcpied(i)
                              /\ n = ps[i].from + BLOCK
                              /\ TextLength(d[Sector(ps[i].blk)]) = BLOCK
    BY <1>2, <2>2
  <2> QED
    BY <1>1, <2>3, <2>4, Zenon DEF ReadByte
<1> QED
  BY <1>5, <1>6
-----------------------------------------------------------------------------
\* f is the disk after each of the first N pieces of a write.
Stages(f, d, ps, buf, N) ==
  f = [i \in 0 .. N |-> IF i = 0 THEN d ELSE WritePiece(f[i - 1], ps[i], buf)]

\* The recursion of write has a solution.
LEMMA StagesExist ==
  ASSUME NEW d, NEW ps, NEW buf, NEW n \in Nat
  PROVE  \E f : Stages(f, d, ps, buf, n)
<1> DEFINE Bad == {k \in Nat : ~\E f : Stages(f, d, ps, buf, k)}
<1>1. SUFFICES ASSUME Bad # {} PROVE FALSE
  OBVIOUS
<1>2. PICK m \in Bad : \A k \in Bad : m <= k
  <2>1. Bad \subseteq Nat
    OBVIOUS
  <2> HIDE DEF Bad
  <2> QED
    BY <1>1, <2>1, LeastExists
<1>3. m # 0
  <2>1. Stages([k \in 0 .. 0 |-> d], d, ps, buf, 0)
    BY DEF Stages
  <2> QED
    BY <2>1
<1>4. m - 1 \in Nat /\ m - 1 \notin Bad
  BY <1>2, <1>3
<1>5. PICK f : Stages(f, d, ps, buf, m - 1)
  BY <1>4
<1>6. PICK v : v = WritePiece(f[m - 1], ps[m], buf)
  OBVIOUS
<1>7. PICK g : g = [k \in 0 .. m |-> IF k = m THEN v ELSE f[k]]
  OBVIOUS
<1>8. ASSUME NEW k \in 0 .. m
      PROVE  g[k] = IF k = 0 THEN d ELSE WritePiece(g[k - 1], ps[k], buf)
  <2>1. CASE k = m
    <3>1. g[k] = v /\ k # 0 /\ g[k - 1] = f[m - 1]
      BY <1>3, <1>7, <2>1
    <3> QED
      BY <1>6, <2>1, <3>1
  <2>2. CASE k # m
    <3>1. k \in 0 .. (m - 1) /\ g[k] = f[k]
      BY <1>7, <2>2
    <3>2. f[k] = IF k = 0 THEN d ELSE WritePiece(f[k - 1], ps[k], buf)
      BY <1>5, <3>1 DEF Stages
    <3>3. k # 0 => g[k - 1] = f[k - 1]
      BY <1>7, <3>1
    <3> QED
      BY <3>1, <3>2, <3>3
  <2> QED
    BY <2>1, <2>2
<1>9. Stages(g, d, ps, buf, m)
  <2>1. g = [k \in 0 .. m |-> g[k]]
    BY <1>7
  <2> QED
    BY <1>8, <2>1 DEF Stages
<1> QED
  BY <1>9

LEMMA WrittenInStages ==
  ASSUME NEW d, NEW off, NEW buf, NEW ps, ps = Pieces(off, Len(buf)), Len(ps) \in Nat
  PROVE  \E f : Stages(f, d, ps, buf, Len(ps)) /\ Written(d, off, buf) = f[Len(ps)]
<1> DEFINE Is(f) == f = [i \in 0 .. Len(ps) |->
                          IF i = 0 THEN d ELSE WritePiece(f[i - 1], ps[i], buf)]
<1>1. \A f : Stages(f, d, ps, buf, Len(ps)) <=> Is(f)
  BY DEF Stages
<1>2. \E f : Is(f)
  BY <1>1, StagesExist
<1>3. PICK f : f = CHOOSE g : Is(g)
  OBVIOUS
<1>4. Is(f)
  <2> HIDE DEF Is
  <2> QED
    BY <1>2, <1>3, Zenon
<1>5. Written(d, off, buf) = f[Len(ps)]
  BY <1>3, Zenon DEF Written
<1> QED
  BY <1>1, <1>4, <1>5

\* What strncpy stores comes from the buffer; of text, it is the text.
LEMMA StoredBytes ==
  ASSUME NEW n \in Nat, NEW buf \in [1 .. n -> Byte], NEW s \in 1 .. n, NEW k \in Nat,
         s + k <= n
  PROVE  StrncpyByte(buf, s, k) \in Byte
<1>1. s + k \in 1 .. n /\ NUL \in Byte
  BY DEF Byte
<1> QED
  BY <1>1 DEF StrncpyByte

LEMMA StoredText ==
  ASSUME NEW n \in Nat, NEW buf \in [1 .. n -> Byte], NEW s \in 1 .. n, NEW k \in Nat,
         s + k <= n, \A j \in 1 .. (n - 1) : buf[j] # NUL
  PROVE  StrncpyByte(buf, s, k) = buf[s + k]
<1>1. ASSUME NEW c \in s .. (s + k), buf[c] = NUL
      PROVE  buf[s + k] = NUL
  <2>1. c \in 1 .. n /\ c \notin 1 .. (n - 1)
    BY <1>1
  <2>2. c = s + k
    BY <2>1
  <2> QED
    BY <1>1, <2>2
<1>2. CASE \E c \in s .. (s + k) : buf[c] = NUL
  BY <1>1, <1>2 DEF StrncpyByte
<1>3. CASE ~\E c \in s .. (s + k) : buf[c] = NUL
  BY <1>3 DEF StrncpyByte
<1> QED
  BY <1>2, <1>3

\* One piece: it leaves a disk, with bytes of the buffer in its block.
LEMMA PieceWritten ==
  ASSUME NEW d \in Disks, NEW off \in Nat, NEW n \in Nat, NEW i, NEW N, NEW p,
         Piece(off, n, i, N, p), NEW buf \in [1 .. n -> Byte]
  PROVE  /\ WritePiece(d, p, buf) \in Disks
         /\ \A x \in 0 .. NBlocks, k \in 0 .. (BLOCK - 1) :
              WritePiece(d, p, buf)[x][k] =
                IF x = Sector(p.blk) /\ k \in p.at .. (p.at + p.len - 1)
                THEN StrncpyByte(buf, p.from + 1, k - p.at) ELSE d[x][k]
<1>0. BLOCK \in Nat \ {0} /\ NBlocks \in Nat \ {0}
  BY Sizes
<1>1. /\ p.at \in Nat /\ p.len \in Nat /\ p.from \in Nat /\ p.blk \in Nat
      /\ p.from + p.len <= n
  BY <1>0 DEF Piece
<1>2. PICK s \in 0 .. NBlocks : s = Sector(p.blk)
  BY <1>0, <1>1 DEF Sector
<1>3. PICK new : new = [k \in 0 .. (BLOCK - 1) |->
                          IF k \in p.at .. (p.at + p.len - 1)
                          THEN StrncpyByte(buf, p.from + 1, k - p.at) ELSE d[s][k]]
  OBVIOUS
<1>4. new \in Blocks
  <2>1. ASSUME NEW k \in 0 .. (BLOCK - 1) PROVE new[k] \in Byte
    <3>1. CASE k \in p.at .. (p.at + p.len - 1)
      <4>1. PICK t, c : t = p.from + 1 /\ c = k - p.at
        OBVIOUS
      <4>2. t \in 1 .. n /\ c \in Nat /\ t + c <= n
        <5>1. PICK at, len, from \in Nat : at = p.at /\ len = p.len /\ from = p.from
          BY <1>1
        <5>2. k \in at .. (at + len - 1) /\ from + len <= n /\ t = from + 1 /\ c = k - at
          BY <1>1, <3>1, <4>1, <5>1
        <5> QED
          BY <5>2
      <4>3. StrncpyByte(buf, t, c) \in Byte
        BY <4>2, StoredBytes
      <4> QED
        BY <1>3, <3>1, <4>1, <4>3
    <3>2. CASE k \notin p.at .. (p.at + p.len - 1)
      <4>1. d[s][k] \in Byte
        BY DEF Disks, Blocks
      <4> QED
        BY <1>3, <3>2, <4>1
    <3> QED
      BY <3>1, <3>2
  <2> QED
    BY <1>3, <2>1 DEF Blocks
<1>5. WritePiece(d, p, buf) = [d EXCEPT ![s] = new]
  BY <1>2, <1>3 DEF WritePiece, Disks
<1>6. WritePiece(d, p, buf) \in Disks
  BY <1>4, <1>5 DEF Disks
<1>7. \A x \in 0 .. NBlocks : WritePiece(d, p, buf)[x] = IF x = s THEN new ELSE d[x]
  BY <1>5 DEF Disks
<1>8. ASSUME NEW x \in 0 .. NBlocks, NEW k \in 0 .. (BLOCK - 1)
      PROVE  WritePiece(d, p, buf)[x][k] =
                IF x = Sector(p.blk) /\ k \in p.at .. (p.at + p.len - 1)
                THEN StrncpyByte(buf, p.from + 1, k - p.at) ELSE d[x][k]
  BY <1>2, <1>3, <1>7
<1> QED
  BY <1>6, <1>8

\* The disk stays a disk, whatever is written.
LEMMA StagesTyped ==
  ASSUME NEW d \in Disks, NEW off \in Nat, NEW n \in Nat, NEW N \in Nat, NEW ps,
         \A i \in 1 .. N : Piece(off, n, i, N, ps[i]), NEW buf \in [1 .. n -> Byte],
         NEW f, Stages(f, d, ps, buf, N)
  PROVE  \A i \in 0 .. N : f[i] \in Disks
<1> DEFINE Bad == {k \in Nat : k <= N /\ f[k] \notin Disks}
<1>1. SUFFICES ASSUME Bad # {} PROVE FALSE
  OBVIOUS
<1>2. PICK m \in Bad : \A k \in Bad : m <= k
  <2>1. Bad \subseteq Nat
    OBVIOUS
  <2> HIDE DEF Bad
  <2> QED
    BY <1>1, <2>1, LeastExists
<1>3. f[0] = d /\ \A i \in 1 .. N : f[i] = WritePiece(f[i - 1], ps[i], buf)
  BY DEF Stages
<1>4. m # 0
  BY <1>2, <1>3
<1>5. m \in 1 .. N /\ m - 1 \in Nat /\ m - 1 \notin Bad
  BY <1>2, <1>4
<1>6. f[m - 1] \in Disks
  BY <1>2, <1>5
<1>7. PICK e, p : e = f[m - 1] /\ p = ps[m]
  OBVIOUS
<1>8. WritePiece(e, p, buf) \in Disks
  BY <1>5, <1>6, <1>7, PieceWritten
<1> QED
  BY <1>2, <1>3, <1>5, <1>7, <1>8

LEMMA WrittenIsDisk ==
  ASSUME NEW d \in Disks, NEW off \in Nat, NEW n \in Nat, NEW buf \in [1 .. n -> Byte]
  PROVE  Written(d, off, buf) \in Disks
<1>1. Len(buf) = n
  OBVIOUS
<1>2. PICK ps : ps = Pieces(off, n)
  OBVIOUS
<1>3. PICK N \in Nat \ {0} : Len(ps) = N /\ \A i \in 1 .. N : Piece(off, n, i, N, ps[i])
  BY <1>2, PiecesAre
<1>4. PICK f : Stages(f, d, ps, buf, N) /\ Written(d, off, buf) = f[N]
  BY <1>1, <1>2, <1>3, WrittenInStages
<1>5. f[N] \in Disks
  <2>1. \A i \in 1 .. N : Piece(off, n, i, N, ps[i])
    BY <1>3
  <2>2. \A i \in 0 .. N : f[i] \in Disks
    BY <1>4, <2>1, StagesTyped
  <2> QED
    BY <2>2
<1> QED
  BY <1>4, <1>5

\* Byte k of sector x after the first m pieces of a write of text that fits.
Stage(d, off, n, buf, m, x, k) ==
  IF /\ x > 0 /\ x - 1 < (off \div BLOCK) + m
     /\ off <= (x - 1) * BLOCK + k /\ (x - 1) * BLOCK + k < off + n
  THEN buf[((x - 1) * BLOCK + k) - off + 1] ELSE d[x][k]

LEMMA StageAt ==
  ASSUME NEW d, NEW off, NEW n, NEW buf, NEW m, NEW x, NEW k, x > 0,
         NEW a, x - 1 = a, NEW v, a * BLOCK + k = v
  PROVE  Stage(d, off, n, buf, m, x, k) =
           IF a < (off \div BLOCK) + m /\ off <= v /\ v < off + n
           THEN buf[v - off + 1] ELSE d[x][k]
<1> DEFINE S(w, y) == IF /\ x > 0 /\ y < (off \div BLOCK) + m
                        /\ off <= w /\ w < off + n
                     THEN buf[w - off + 1] ELSE d[x][k]
<1>1. Stage(d, off, n, buf, m, x, k) = S((x - 1) * BLOCK + k, x - 1)
  BY DEF Stage
<1>2. (x - 1) * BLOCK + k = v
  BY Zenon
<1>3. S((x - 1) * BLOCK + k, x - 1) = S(v, a)
  <2> HIDE DEF S
  <2> QED
    BY <1>2, Zenon
<1> QED
  BY <1>1, <1>3

\* f takes the transfer from one stage to the next.
StagesAre(f, d, off, n, buf, N) ==
  \A m \in 0 .. N, x \in 0 .. NBlocks, k \in 0 .. (BLOCK - 1) :
    f[m][x][k] = Stage(d, off, n, buf, m, x, k)

IsCut(ps, off, n, N) == \A i \in 1 .. N : Piece(off, n, i, N, ps[i])
HoldsText(buf, n)    == \A j \in 1 .. (n - 1) : buf[j] # NUL

LEMMA StageOfWrite ==
  ASSUME NEW d \in Disks, NEW off \in Nat, NEW n \in Nat, NEW N \in Nat, NEW ps,
         IsCut(ps, off, n, N), NEW buf \in [1 .. n -> Byte],
         NEW f, Stages(f, d, ps, buf, N), off + n <= FileSize, HoldsText(buf, n)
  PROVE  StagesAre(f, d, off, n, buf, N)
<1> USE DEF IsCut, HoldsText
<1>0. BLOCK \in Nat \ {0} /\ NBlocks \in Nat \ {0} /\ FileSize = NBlocks * BLOCK
      /\ FileSize \in Nat
  BY Sizes
<1>1. PICK nr, start \in Nat : nr = off \div BLOCK /\ start = off % BLOCK /\ start < BLOCK
                               /\ off = nr * BLOCK + start
  BY <1>0, Parted
<1> DEFINE Right(m) == \A x \in 0 .. NBlocks, k \in 0 .. (BLOCK - 1) :
                         f[m][x][k] = Stage(d, off, n, buf, m, x, k)
           Bad == {m \in Nat : m <= N /\ ~Right(m)}
<1>2. f[0] = d /\ \A i \in 1 .. N : f[i] = WritePiece(f[i - 1], ps[i], buf)
  BY DEF Stages
\* The bytes before the block that the transfer begins in are not its own.
<1>3. Right(0)
  <2>1. SUFFICES ASSUME NEW x \in 0 .. NBlocks, NEW k \in 0 .. (BLOCK - 1),
                        x > 0, x - 1 < nr + 0, off <= (x - 1) * BLOCK + k
                 PROVE  FALSE
    BY <1>1, <1>2 DEF Stage
  <2>2. PICK c \in Nat : c = x - 1
    BY <2>1
  <2>3. PICK y, z \in Nat : y = c * BLOCK /\ z = nr * BLOCK
    BY <1>0
  <2>4. nr > c
    BY <2>1, <2>2
  <2>5. z >= y + BLOCK
    BY <1>0, <2>3, <2>4, Later
  <2>6. off = z + start /\ off <= y + k
    BY <1>1, <2>1, <2>2, <2>3
  <2> QED
    BY <1>0, <2>5, <2>6
<1>4. ASSUME NEW m \in 1 .. N, Right(m - 1) PROVE Right(m)
  <2>1. PICK p, e : p = ps[m] /\ e = f[m - 1]
    OBVIOUS
  <2>2. Piece(off, n, m, N, p) /\ f[m] = WritePiece(e, p, buf)
    BY <1>2, <2>1
  <2>3. e \in Disks
    <3>1. \A i \in 0 .. N : f[i] \in Disks
      BY StagesTyped
    <3>2. m - 1 \in 0 .. N
      OBVIOUS
    <3> QED
      BY <2>1, <3>1, <3>2
  <2>4. PICK at, len, from, blk \in Nat :
          at = p.at /\ len = p.len /\ from = p.from /\ blk = p.blk
    <3>1. p.at \in Nat /\ p.len \in Nat /\ p.from \in Nat /\ p.blk \in Nat
      BY <1>0, <2>2 DEF Piece
    <3> QED
      BY <3>1
  <2>5. PICK y \in Nat : y = blk * BLOCK
    BY <1>0
  <2>6. /\ blk = nr + m - 1 /\ off + from = y + at
        /\ (m = 1 => from = 0) /\ (m > 1 => at = 0)
        /\ (m < N => at + len = BLOCK) /\ (m = N => from + len = n)
        /\ at + len <= BLOCK /\ from + len <= n
    BY <1>1, <2>2, <2>4, <2>5 DEF Piece
  <2>7. ASSUME NEW x \in 0 .. NBlocks, NEW k \in 0 .. (BLOCK - 1)
        PROVE  f[m][x][k] = Stage(d, off, n, buf, m, x, k)
    <3>1. f[m][x][k] = IF x = Sector(blk) /\ k \in at .. (at + len - 1)
                       THEN StrncpyByte(buf, from + 1, k - at) ELSE e[x][k]
      BY <2>2, <2>3, <2>4, PieceWritten
    <3>2. e[x][k] = Stage(d, off, n, buf, m - 1, x, k)
      BY <1>4, <2>1
    <3>3. CASE x # blk + 1
      \* No block of the file, or one of another piece: a piece behind the
      \* file is empty.
      <4>1. ~(x = Sector(blk) /\ k \in at .. (at + len - 1))
        <5>1. SUFFICES ASSUME x = Sector(blk), k \in at .. (at + len - 1) PROVE FALSE
          OBVIOUS
        <5>2. blk >= NBlocks
          BY <1>0, <3>3, <5>1 DEF Sector
        <5>3. PICK z \in Nat : z = NBlocks * BLOCK
          BY <1>0
        <5>4. y >= z
          <6>1. blk > NBlocks => y >= z + BLOCK
            BY <1>0, <2>5, <5>3, Later
          <6>2. blk = NBlocks => y = z
            BY <2>5, <5>3
          <6> QED
            BY <1>0, <5>2, <6>1, <6>2
        <5>5. off + n <= z
          BY <1>0, <5>3
        <5>6. len > 0
          BY <5>1
        <5> QED
          BY <2>6, <5>4, <5>5, <5>6
      <4>2. x > 0 => ((x - 1 < nr + m) <=> (x - 1 < nr + (m - 1)))
        BY <2>6, <3>3
      <4>3. Stage(d, off, n, buf, m, x, k) = Stage(d, off, n, buf, m - 1, x, k)
        BY <1>1, <4>2 DEF Stage
      <4> QED
        BY <3>1, <3>2, <4>1, <4>3
    <3>4. CASE x = blk + 1
      <4>1. x = Sector(blk) /\ x > 0 /\ x - 1 = blk /\ blk < nr + m /\ ~(blk < nr + (m - 1))
        BY <1>0, <2>6, <3>4 DEF Sector
      <4>2. e[x][k] = d[x][k]
        BY <1>1, <3>2, <4>1 DEF Stage
      <4>3. Stage(d, off, n, buf, m, x, k) =
              IF off <= y + k /\ y + k < off + n THEN buf[(y + k) - off + 1] ELSE d[x][k]
        <5>1. PICK v : v = y + k
          OBVIOUS
        <5>2. blk * BLOCK + k = v /\ x > 0 /\ x - 1 = blk
          BY <2>5, <4>1, <5>1
        <5>3. Stage(d, off, n, buf, m, x, k) =
                IF blk < (off \div BLOCK) + m /\ off <= v /\ v < off + n
                THEN buf[v - off + 1] ELSE d[x][k]
          BY ONLY <5>2, StageAt
        <5> QED
          BY <1>1, <4>1, <5>1, <5>3
      <4>4. k \in at .. (at + len - 1) <=> off <= y + k /\ y + k < off + n
        <5>1. k \in Nat /\ k < BLOCK
          BY <1>0
        <5>2. CASE k < at
          BY <2>6, <5>1, <5>2
        <5>3. CASE k >= at /\ k < at + len
          BY <2>6, <5>1, <5>3
        <5>4. CASE k >= at + len
          <6>1. m = N
            BY <2>6, <5>1, <5>4
          <6> QED
            BY <2>6, <5>1, <5>4, <6>1
        <5> QED
          BY <5>1, <5>2, <5>3, <5>4
      <4>5. ASSUME k \in at .. (at + len - 1)
            PROVE  StrncpyByte(buf, from + 1, k - at) = buf[(y + k) - off + 1]
        <5>1. PICK s, c : s = from + 1 /\ c = k - at
          OBVIOUS
        <5>2. s \in 1 .. n /\ c \in Nat /\ s + c <= n /\ s + c = (y + k) - off + 1
          BY <2>6, <4>5, <5>1
        <5>3. StrncpyByte(buf, s, c) = buf[s + c]
          BY <5>2, StoredText
        <5> QED
          BY <5>1, <5>2, <5>3
      <4> QED
        BY <3>1, <4>1, <4>2, <4>3, <4>4, <4>5
    <3> QED
      BY <3>3, <3>4
  <2> QED
    BY <2>7
<1>5. Bad = {}
  <2>1. SUFFICES ASSUME Bad # {} PROVE FALSE
    OBVIOUS
  <2>2. PICK m \in Bad : \A k \in Bad : m <= k
    <3>1. Bad \subseteq Nat
      OBVIOUS
    <3> HIDE DEF Bad
    <3> QED
      BY <2>1, <3>1, LeastExists
  <2> HIDE DEF Right
  <2>3. m # 0 /\ m \in Nat /\ m <= N /\ ~Right(m)
    BY <1>3, <2>2
  <2>4. m \in 1 .. N /\ m - 1 \in Nat /\ m - 1 \notin Bad /\ m - 1 <= N
    BY <2>2, <2>3
  <2>5. Right(m - 1)
    BY <2>4
  <2> QED
    BY <1>4, <2>3, <2>4, <2>5
<1>6. ASSUME NEW m \in 0 .. N PROVE Right(m)
  <2> HIDE DEF Right
  <2> QED
    BY <1>5
<1> QED
  BY <1>6 DEF StagesAre

\* The n bytes at off come from the buffer, the others from disk d.
Overwritten(w, d, off, n, buf) ==
  \A q \in 0 .. (FileSize - 1) :
    FileByte(w, q) = IF q \in off .. (off + n - 1)
                     THEN buf[q - off + 1] ELSE FileByte(d, q)

\* A write, at any offset, of any text that fits in the file.
LEMMA WritesText ==
  ASSUME NEW d \in Disks, NEW off \in Nat, NEW n \in Nat, NEW buf \in [1 .. n -> Byte],
         off + n <= FileSize, HoldsText(buf, n),
         NEW w, w = Written(d, off, buf)
  PROVE  w \in Disks /\ w[0] = d[0] /\ Overwritten(w, d, off, n, buf)
<1>0. BLOCK \in Nat \ {0} /\ NBlocks \in Nat \ {0} /\ FileSize \in Nat
  BY Sizes
<1>1. w \in Disks
  BY WrittenIsDisk
<1>2. Len(buf) = n
  OBVIOUS
<1>3. PICK ps : ps = Pieces(off, n)
  OBVIOUS
<1>4. PICK N \in Nat \ {0} :
        /\ Len(ps) = N /\ (off + n) \div BLOCK = (off \div BLOCK) + N - 1
        /\ \A i \in 1 .. N : Piece(off, n, i, N, ps[i])
  BY <1>3, PiecesAre
<1>5. PICK f : Stages(f, d, ps, buf, N) /\ w = f[N]
  BY <1>2, <1>3, <1>4, WrittenInStages
<1>6. \A x \in 0 .. NBlocks, k \in 0 .. (BLOCK - 1) :
        w[x][k] = Stage(d, off, n, buf, N, x, k)
  <2>1. \A i \in 1 .. N : Piece(off, n, i, N, ps[i])
    BY <1>4
  <2>2. \A m \in 0 .. N, x \in 0 .. NBlocks, k \in 0 .. (BLOCK - 1) :
          f[m][x][k] = Stage(d, off, n, buf, m, x, k)
    <3>1. Stages(f, d, ps, buf, N) /\ N \in Nat /\ IsCut(ps, off, n, N)
      BY <1>5, <2>1 DEF IsCut
    <3>2. StagesAre(f, d, off, n, buf, N)
      BY <3>1, StageOfWrite
    <3> QED
      BY <3>2 DEF StagesAre
  <2>3. N \in 0 .. N
    OBVIOUS
  <2> QED
    BY <1>5, <2>2, <2>3
<1>7. w[0] = d[0]
  <2>1. 0 \in 0 .. NBlocks /\ ~(0 > 0)
    BY <1>0
  <2>2. \A k \in 0 .. (BLOCK - 1) : w[0][k] = d[0][k]
    BY <1>6, <2>1 DEF Stage
  <2>3. w[0] \in Blocks /\ d[0] \in Blocks
    BY <1>1, <2>1 DEF Disks
  <2>4. w[0] = [k \in 0 .. (BLOCK - 1) |-> w[0][k]]
    BY <2>3 DEF Blocks
  <2>5. d[0] = [k \in 0 .. (BLOCK - 1) |-> d[0][k]]
    BY <2>3 DEF Blocks
  <2>6. [k \in 0 .. (BLOCK - 1) |-> w[0][k]] = [k \in 0 .. (BLOCK - 1) |-> d[0][k]]
    BY <2>2
  <2> QED
    BY <2>4, <2>5, <2>6
<1>8. ASSUME NEW q \in 0 .. (FileSize - 1)
      PROVE  FileByte(w, q) = IF q \in off .. (off + n - 1)
                              THEN buf[q - off + 1] ELSE FileByte(d, q)
  <2>1. PICK c, k \in Nat : c = q \div BLOCK /\ k = q % BLOCK /\ k < BLOCK
                            /\ q = c * BLOCK + k
    <3>1. q \in Nat
      OBVIOUS
    <3> QED
      BY <1>0, <3>1, Parted
  <2>2. c \in 0 .. (NBlocks - 1)
    <3>1. q \in Nat /\ q < FileSize
      BY <1>0
    <3> QED
      BY <2>1, <3>1, FileBlocks
  <2>3. PICK x : x = c + 1
    OBVIOUS
  <2>4. x \in 0 .. NBlocks /\ x > 0 /\ x - 1 = c /\ k \in 0 .. (BLOCK - 1)
    <3>1. k < BLOCK
      BY <2>1
    <3> QED
      BY <1>0, <2>2, <2>3, <3>1
  <2>5. FileByte(w, q) = w[x][k] /\ FileByte(d, q) = d[x][k]
    BY <2>1, <2>3 DEF FileByte
  <2>6. q < off + n => c < (off \div BLOCK) + N
    <3>1. PICK num, end \in Nat : num = (off + n) \div BLOCK /\ end = (off + n) % BLOCK
                                  /\ end < BLOCK /\ off + n = num * BLOCK + end
      <4>1. off + n \in Nat
        OBVIOUS
      <4> QED
        BY <1>0, <4>1, Parted
    <3>2. PICK y, z \in Nat : y = c * BLOCK /\ z = num * BLOCK
      BY <1>0
    <3>3. q = y + k /\ off + n = z + end /\ end < BLOCK
      BY <2>1, <3>1, <3>2
    <3>4. q < off + n => y < z + BLOCK
      BY <1>0, <3>3
    <3>5. q < off + n => c <= num
      BY <1>0, <3>2, <3>4, NotLater
    <3>6. PICK nr, start \in Nat : nr = off \div BLOCK /\ start = off % BLOCK
                                   /\ start < BLOCK /\ off = nr * BLOCK + start
      BY <1>0, Parted
    <3>7. num = nr + N - 1
      BY <1>4, <3>1, <3>6
    <3>8. q < off + n => c < nr + N
      BY <3>5, <3>7
    <3> QED
      BY <3>6, <3>8
  <2>7. w[x][k] = IF c < (off \div BLOCK) + N /\ off <= q /\ q < off + n
                  THEN buf[q - off + 1] ELSE d[x][k]
    <3>1. x > 0 /\ x - 1 = c
      BY <2>4
    <3>2. w[x][k] = Stage(d, off, n, buf, N, x, k)
      BY <1>6, <2>4
    <3>3. c * BLOCK + k = q /\ x > 0 /\ x - 1 = c
      BY <2>1, <3>1
    <3>4. Stage(d, off, n, buf, N, x, k) =
            IF c < (off \div BLOCK) + N /\ off <= q /\ q < off + n
            THEN buf[q - off + 1] ELSE d[x][k]
      BY ONLY <3>3, StageAt
    <3> QED
      BY <3>2, <3>4
  <2>8. q \in off .. (off + n - 1) <=> off <= q /\ q < off + n
    BY <1>0
  <2> QED
    BY <2>5, <2>6, <2>7, <2>8
<1> QED
  BY <1>1, <1>7, <1>8 DEF Overwritten

\* The end of the text is found where it is.
LEMMA EndFound ==
  ASSUME NEW d \in Disks, NEW e \in Nat, EndOfText(d, e)
  PROVE  Ends(d, 0) = {e}
<1>0. BLOCK \in Nat \ {0} /\ NBlocks \in Nat \ {0} /\ FileSize = NBlocks * BLOCK
      /\ FileSize \in Nat
  BY Sizes
<1>1. PICK b, z : b = d[NBlocks] /\ z = FileSize - BLOCK
  OBVIOUS
<1>2. b \in Blocks /\ z \in Nat /\ z = (NBlocks - 1) * BLOCK /\ NBlocks - 1 \in Nat
  <2>1. (NBlocks - 1) * BLOCK = NBlocks * BLOCK - BLOCK /\ NBlocks - 1 \in Nat
    BY <1>0
  <2>2. (NBlocks - 1) * BLOCK \in Nat
    BY <1>0, <2>1
  <2>3. b \in Blocks
    BY <1>0, <1>1 DEF Disks
  <2> QED
    BY <1>0, <1>1, <2>1, <2>2, <2>3
<1>3. ASSUME NEW k \in 0 .. (BLOCK - 1)
      PROVE  z + k \in 0 .. (FileSize - 1) /\ FileByte(d, z + k) = b[k]
  <2>1. PICK m, c : m = z + k /\ c = NBlocks - 1
    OBVIOUS
  <2>2. m \in Nat /\ c \in Nat /\ m = c * BLOCK + k /\ k \in 0 .. (BLOCK - 1)
    BY <1>2, <2>1
  <2>3. m \div BLOCK = c /\ m % BLOCK = k
    BY ONLY <1>0, <2>2, Divided
  <2>4. c + 1 = NBlocks
    BY <1>0, <2>1
  <2>5. z + k \in 0 .. (FileSize - 1)
    BY <1>0, <1>1, <1>2
  <2> QED
    BY <1>1, <2>1, <2>3, <2>4, <2>5 DEF FileByte
<1>4. /\ \A q \in 0 .. (FileSize - 1) : (FileByte(d, q) # NUL) <=> q < e
      /\ z <= e /\ e < FileSize
  BY <1>1 DEF EndOfText
<1>5. \A k \in 0 .. (BLOCK - 1) : (b[k] # NUL) <=> z + k < e
  BY <1>3, <1>4
<1>6. PICK t : t = TextLength(b)
  OBVIOUS
<1>7. /\ t \in 0 .. BLOCK
      /\ t = BLOCK \/ b[t] = NUL
      /\ \A j \in 0 .. (t - 1) : b[j] # NUL
  BY <1>2, <1>6, TextOfBlock
<1>8. PICK k \in 0 .. (BLOCK - 1) : k = e - z
  <2>1. e - z \in 0 .. (BLOCK - 1)
    BY <1>0, <1>1, <1>2, <1>4
  <2> QED
    BY <2>1
<1>9. z + k = e
  BY <1>2, <1>8
<1>10. b[k] = NUL
  BY <1>2, <1>5, <1>9
<1>11. ~(k < t)
  BY <1>0, <1>7, <1>10
<1>12. ~(t < k)
  <2>1. SUFFICES ASSUME t < k PROVE FALSE
    OBVIOUS
  <2>2. t \in 0 .. (BLOCK - 1) /\ t # BLOCK /\ z + t < e
    BY <1>0, <1>2, <1>7, <1>9, <2>1
  <2> QED
    BY <1>5, <1>7, <2>2
<1>13. t = k /\ t # BLOCK
  BY <1>0, <1>7, <1>11, <1>12
<1>14. Ends(d, 0) = {z + t + j + 0 : j \in {0}}
  BY <1>1, <1>6, <1>13 DEF Ends
<1>15. z + t + 0 + 0 = e
  BY <1>2, <1>7, <1>9, <1>13
<1> QED
  BY <1>14, <1>15

(***************************************************************************)
(* The specification.                                                      *)
(***************************************************************************)
LEMMA BufferTyped ==
  ASSUME NEW buf \in Bufs
  PROVE  \E n \in 1 .. MaxCount : buf \in [1 .. n -> Byte] /\ Len(buf) = n
<1>1. PICK n \in 1 .. MaxCount : buf \in [1 .. n -> Byte]
  BY DEF Bufs
<1>2. n \in Nat
  BY IOAssumption
<1>3. Len(buf) = n
  BY <1>1, <1>2
<1> QED
  BY <1>1, <1>3

\* The file's contents stay bytes in blocks, whatever is written, and the
\* offset never leaves the file by more than one transfer.
THEOREM FileTyped == Spec => []TypeOK
<1>0. FileSize \in Nat /\ MaxCount \in Nat
  BY Sizes, IOAssumption
<1>1. Init => TypeOK
  BY <1>0 DEF Init, TypeOK
<1>2. TypeOK /\ [Next]_vars => TypeOK'
  <2>1. SUFFICES ASSUME TypeOK, [Next]_vars PROVE TypeOK'
    OBVIOUS
  <2>2. disk \in Disks /\ offset \in 0 .. (FileSize + MaxCount)
        /\ f_state \in {s_nonexist, s_r, s_w, s_rw}
    BY <2>1 DEF TypeOK, Disks, Blocks
  <2>3. SUFFICES /\ disk' \in Disks /\ offset' \in 0 .. (FileSize + MaxCount)
                 /\ f_state' \in {s_nonexist, s_r, s_w, s_rw}
    BY DEF TypeOK, Disks, Blocks
  <2>4. CASE \E buf \in Bufs : Write(buf)
    <3>1. PICK buf \in Bufs : Write(buf)
      BY <2>4
    <3>2. PICK n \in 1 .. MaxCount : buf \in [1 .. n -> Byte] /\ Len(buf) = n
      BY BufferTyped
    <3>3. offset \in Nat /\ n \in Nat
      BY <1>0, <2>2
    <3>4. disk' \in Disks
      <4>1. Written(disk, offset, buf) \in Disks
        BY <2>2, <3>2, <3>3, WrittenIsDisk
      <4> QED
        BY <3>1, <4>1 DEF Write
    <3>5. offset' = offset + n /\ offset <= FileSize /\ f_state' = f_state
      BY <3>1, <3>2 DEF Write, InRange
    <3> QED
      BY <1>0, <2>2, <3>3, <3>4, <3>5
  <2>5. CASE \E n \in 1 .. MaxCount : Read(n)
    BY <1>0, <2>2, <2>5 DEF Read, InRange
  <2>6. CASE \E x \in 0 .. FileSize : LseekSet(x)
    BY <1>0, <2>2, <2>6 DEF LseekSet, Lseek
  <2>7. CASE \E x \in {-1, 1} : LseekCur(x)
    BY <1>0, <2>2, <2>7 DEF LseekCur, Lseek, InRange
  <2>8. CASE \E x \in {-1, 0} : LseekEnd(x)
    BY <1>0, <2>2, <2>8 DEF LseekEnd, Lseek, InRange
  <2>9. CASE Refused \/ UNCHANGED vars
    BY <2>2, <2>9 DEF Refused, vars
  <2> QED
    BY <2>1, <2>4, <2>5, <2>6, <2>7, <2>8, <2>9 DEF Next
<1> QED
  BY <1>1, <1>2, PTL DEF Spec

LEMMA TypedFile ==
  ASSUME TypeOK
  PROVE  disk \in Disks /\ offset \in Nat
<1>1. FileSize \in Nat /\ MaxCount \in Nat
  BY Sizes, IOAssumption
<1> QED
  BY <1>1 DEF TypeOK, Disks, Blocks

\* write (fs.c) stores every byte of a text where it belongs, and no other.
THEOREM WritesCorrect == Spec => []WriteCorrect
<1>1. TypeOK => WriteCorrect
  <2>1. SUFFICES ASSUME TypeOK, NEW buf \in Bufs, IsText(buf),
                        offset + Len(buf) <= FileSize
                 PROVE  LET d == Written(disk, offset, buf)
                        IN  /\ \A q \in 0 .. (FileSize - 1) :
                                 FileByte(d, q) = IF q \in offset .. (offset + Len(buf) - 1)
                                                  THEN buf[q - offset + 1]
                                                  ELSE FileByte(disk, q)
                            /\ d[0] = disk[0]
    BY Zenon DEF WriteCorrect
  <2>2. PICK d : d = Written(disk, offset, buf)
    OBVIOUS
  <2>3. PICK n \in 1 .. MaxCount : buf \in [1 .. n -> Byte] /\ Len(buf) = n
    BY BufferTyped
  <2>4. n \in Nat /\ disk \in Disks /\ offset \in Nat
    BY <2>1, TypedFile, IOAssumption
  <2>5. (\A j \in 1 .. (n - 1) : buf[j] # NUL) /\ offset + n <= FileSize
    BY <2>1, <2>3 DEF IsText
  <2>6. /\ d \in Disks /\ d[0] = disk[0]
        /\ \A q \in 0 .. (FileSize - 1) :
             FileByte(d, q) = IF q \in offset .. (offset + n - 1)
                              THEN buf[q - offset + 1] ELSE FileByte(disk, q)
    <3>1. HoldsText(buf, n)
      BY <2>5 DEF HoldsText
    <3>2. d \in Disks /\ d[0] = disk[0] /\ Overwritten(d, disk, offset, n, buf)
      BY <2>2, <2>3, <2>4, <2>5, <3>1, WritesText
    <3> QED
      BY <3>2 DEF Overwritten
  <2> QED
    BY <2>2, <2>3, <2>6
<1> QED
  BY <1>1, FileTyped, PTL

\* read (fs.c) returns the text that is in the file, and nothing behind it.
THEOREM ReadsCorrect == Spec => []ReadCorrect
<1>1. TypeOK => ReadCorrect
  <2>1. SUFFICES ASSUME TypeOK, NEW n \in 1 .. MaxCount, offset + n <= FileSize,
                        \A q \in 0 .. (n - 2) : FileByte(disk, offset + q) # NUL
                 PROVE  /\ \A q \in 0 .. (n - 1) :
                             ReadByte(disk, offset, n, q) = FileByte(disk, offset + q)
                        /\ (offset + n) % BLOCK # 0
                             => ReadByte(disk, offset, n, n) = "kept"
    BY Zenon DEF ReadCorrect
  <2>2. n \in Nat \ {0} /\ disk \in Disks /\ offset \in Nat
    BY <2>1, TypedFile, IOAssumption
  <2> QED
    BY <2>1, <2>2, ReadsText
<1> QED
  BY <1>1, FileTyped, PTL

\* Appending text moves the end of the text behind it.
LEMMA EndMoves ==
  ASSUME NEW d \in Disks, NEW e \in Nat, EndOfText(d, e), NEW n \in Nat,
         NEW buf \in [1 .. n -> Byte], \A j \in 1 .. n : buf[j] # NUL,
         e + n < FileSize, NEW w, w = Written(d, e, buf)
  PROVE  w \in Disks /\ EndOfText(w, e + n)
<1>0. FileSize \in Nat /\ BLOCK \in Nat
  BY Sizes
<1>1. /\ w \in Disks
      /\ \A q \in 0 .. (FileSize - 1) :
           FileByte(w, q) = IF q \in e .. (e + n - 1)
                            THEN buf[q - e + 1] ELSE FileByte(d, q)
  <2>1. e + n <= FileSize /\ HoldsText(buf, n)
    BY <1>0 DEF HoldsText
  <2>2. w \in Disks /\ Overwritten(w, d, e, n, buf)
    BY <2>1, WritesText
  <2> QED
    BY <2>2 DEF Overwritten
<1>2. /\ \A q \in 0 .. (FileSize - 1) : (FileByte(d, q) # NUL) <=> q < e
      /\ FileSize - BLOCK <= e
  BY DEF EndOfText
<1>3. ASSUME NEW q \in 0 .. (FileSize - 1)
      PROVE  (FileByte(w, q) # NUL) <=> q < e + n
  <2>1. CASE q \in e .. (e + n - 1)
    <3>1. q - e + 1 \in 1 .. n /\ q < e + n
      BY <2>1
    <3> QED
      BY <1>1, <2>1, <3>1
  <2>2. CASE q \notin e .. (e + n - 1)
    <3>1. q < e + n <=> q < e
      BY <1>0, <2>2
    <3> QED
      BY <1>1, <1>2, <2>2, <3>1
  <2> QED
    BY <2>1, <2>2
<1>4. FileSize - BLOCK <= e + n
  BY <1>0, <1>2
<1> QED
  BY <1>1, <1>3, <1>4 DEF EndOfText

\* lseek (fs.c) to the end finds the end of the text, and again after an
\* append: programs may append repeatedly.
THEOREM SeeksEnd == Spec => []SeekEndCorrect
<1>1. TypeOK => SeekEndCorrect
  <2>1. SUFFICES ASSUME TypeOK, NEW e \in 0 .. FileSize, EndOfText(disk, e)
                 PROVE  /\ Ends(disk, 0) = {e}
                        /\ \A buf \in Bufs :
                             NUL \notin {buf[k] : k \in DOMAIN buf} /\ e + Len(buf) < FileSize =>
                               Ends(Written(disk, e, buf), 0) = {e + Len(buf)}
    BY Zenon DEF SeekEndCorrect
  <2>2. e \in Nat /\ disk \in Disks
    BY <2>1, TypedFile, Sizes
  <2>3. Ends(disk, 0) = {e}
    BY <2>1, <2>2, EndFound
  <2>4. ASSUME NEW buf \in Bufs, NUL \notin {buf[k] : k \in DOMAIN buf},
               e + Len(buf) < FileSize
        PROVE  Ends(Written(disk, e, buf), 0) = {e + Len(buf)}
    <3>1. PICK n \in 1 .. MaxCount : buf \in [1 .. n -> Byte] /\ Len(buf) = n
      BY BufferTyped
    <3>2. n \in Nat /\ \A j \in 1 .. n : buf[j] # NUL
      BY <2>4, <3>1, IOAssumption
    <3>3. PICK w : w = Written(disk, e, buf)
      OBVIOUS
    <3>4. e + n < FileSize
      BY <2>4, <3>1
    <3>5. w \in Disks /\ EndOfText(w, e + n)
      BY <2>1, <2>2, <3>1, <3>2, <3>3, <3>4, EndMoves
    <3>6. e + n \in Nat
      BY <2>2, <3>2
    <3>7. Ends(w, 0) = {e + n}
      BY <3>5, <3>6, EndFound
    <3> QED
      BY <3>1, <3>3, <3>7
  <2> QED
    BY <2>3, <2>4
<1> QED
  BY <1>1, FileTyped, PTL
-----------------------------------------------------------------------------
(***************************************************************************)
(* memmove and memset.  A move goes on as long as no unit it has stored is *)
(* one that it still has to fetch: what is stored so far is what memory    *)
(* held before the call.                                                   *)
(***************************************************************************)
Moves(f, m, di, si, w, step, N) ==
  f = [i \in 0 .. N |->
         IF i = 0 THEN m
         ELSE Store(f[i - 1], di + step * w * (i - 1), si + step * w * (i - 1), w)]

\* The recursion of rep movs has a solution.
LEMMA MovesExist ==
  ASSUME NEW m, NEW di, NEW si, NEW w, NEW step, NEW N \in Nat
  PROVE  \E f : Moves(f, m, di, si, w, step, N)
<1> DEFINE Bad == {k \in Nat : ~\E f : Moves(f, m, di, si, w, step, k)}
           Next1(b, k) == Store(b, di + step * w * (k - 1), si + step * w * (k - 1), w)
<1>1. SUFFICES ASSUME Bad # {} PROVE FALSE
  OBVIOUS
<1>2. PICK c \in Bad : \A k \in Bad : c <= k
  <2>1. Bad \subseteq Nat
    OBVIOUS
  <2> HIDE DEF Bad
  <2> QED
    BY <1>1, <2>1, LeastExists
<1>3. \A f, k : Moves(f, m, di, si, w, step, k) <=>
                  f = [i \in 0 .. k |-> IF i = 0 THEN m ELSE Next1(f[i - 1], i)]
  BY Zenon DEF Moves
<1> HIDE DEF Next1
<1>4. c # 0
  <2>1. \E z : Moves(z, m, di, si, w, step, 0)
    <3>1. PICK z : z = [k \in 0 .. 0 |-> m]
      OBVIOUS
    <3>2. z = [i \in 0 .. 0 |-> IF i = 0 THEN m ELSE Next1(z[i - 1], i)]
      <4>1. \A i \in 0 .. 0 : m = IF i = 0 THEN m ELSE Next1(z[i - 1], i)
        OBVIOUS
      <4> QED
        BY <3>1, <4>1
    <3>3. Moves(z, m, di, si, w, step, 0)
      BY <1>3, <3>2, Zenon
    <3> QED
      BY <3>3, Zenon
  <2> QED
    BY <2>1
<1>5. c - 1 \in Nat /\ c - 1 \notin Bad
  BY <1>2, <1>4
<1>6. PICK f : Moves(f, m, di, si, w, step, c - 1)
  BY <1>5
<1>7. PICK v : v = Next1(f[c - 1], c)
  OBVIOUS
<1>8. PICK g : g = [k \in 0 .. c |-> IF k = c THEN v ELSE f[k]]
  OBVIOUS
<1>9. ASSUME NEW k \in 0 .. c
      PROVE  g[k] = IF k = 0 THEN m ELSE Next1(g[k - 1], k)
  <2>1. CASE k = c
    <3>1. g[k] = v /\ k # 0 /\ g[k - 1] = f[c - 1]
      BY <1>4, <1>8, <2>1
    <3> QED
      BY <1>7, <2>1, <3>1
  <2>2. CASE k # c
    <3>1. k \in 0 .. (c - 1) /\ g[k] = f[k]
      BY <1>8, <2>2
    <3>2. f[k] = IF k = 0 THEN m ELSE Next1(f[k - 1], k)
      BY <1>3, <1>6, <3>1
    <3>3. k # 0 => g[k - 1] = f[k - 1]
      BY <1>8, <3>1
    <3> QED
      BY <3>1, <3>2, <3>3
  <2> QED
    BY <2>1, <2>2
<1>10. Moves(g, m, di, si, w, step, c)
  <2>1. g = [k \in 0 .. c |-> g[k]]
    BY <1>8
  <2>2. [k \in 0 .. c |-> g[k]] = [i \in 0 .. c |-> IF i = 0 THEN m ELSE Next1(g[i - 1], i)]
    BY <1>9
  <2>3. g = [i \in 0 .. c |-> IF i = 0 THEN m ELSE Next1(g[i - 1], i)]
    BY <2>1, <2>2, Zenon
  <2> QED
    BY <1>3, <2>3, Zenon
<1> QED
  BY <1>10

\* f is memory after each unit.
InSteps(f, m, di, si, w, step, N) ==
  /\ f[0] = m
  /\ \A i \in 1 .. N :
       f[i] = Store(f[i - 1], di + step * w * (i - 1), si + step * w * (i - 1), w)

LEMMA MovedInSteps ==
  ASSUME NEW m, NEW di, NEW si, NEW w, NEW step, NEW N \in Nat
  PROVE  \E f : InSteps(f, m, di, si, w, step, N)
               /\ RepMovs(m, di, si, N, w, step) = f[N]
<1> DEFINE Is(f) == f = [i \in 0 .. N |->
                          IF i = 0 THEN m
                          ELSE Store(f[i - 1], di + step * w * (i - 1),
                                     si + step * w * (i - 1), w)]
<1>1. \A f : Moves(f, m, di, si, w, step, N) <=> Is(f)
  BY Zenon DEF Moves
<1>2. \E f : Is(f)
  <2> HIDE DEF Is
  <2> QED
    BY <1>1, MovesExist
<1>3. PICK f : f = CHOOSE g : Is(g)
  OBVIOUS
<1>4. Is(f)
  <2> HIDE DEF Is
  <2> QED
    BY <1>2, <1>3, Zenon
<1>5. RepMovs(m, di, si, N, w, step) = f[N]
  BY <1>3, Zenon DEF RepMovs
<1>6. InSteps(f, m, di, si, w, step, N)
  <2>1. ASSUME NEW i \in 0 .. N
        PROVE  f[i] = IF i = 0 THEN m
                      ELSE Store(f[i - 1], di + step * w * (i - 1),
                                 si + step * w * (i - 1), w)
    BY <1>4
  <2>2. 0 \in 0 .. N /\ \A i \in 1 .. N : i \in 0 .. N /\ i # 0
    OBVIOUS
  <2> QED
    BY <2>1, <2>2 DEF InSteps
<1> QED
  BY <1>5, <1>6

Bytewise(m, S) == m = [a \in 0 .. (S - 1) |-> m[a]]

\* Memory m with the bytes lo .. hi - 1 of the destination in place.
Moved(m, dst, src, lo, hi) ==
  [a \in DOMAIN m |-> IF lo <= a /\ a < hi THEN m[a - dst + src] ELSE m[a]]


\* One unit more: it is fetched from where nothing was stored.
\* The bytes from lo to hi grow by a unit, at either end, and the unit is
\* fetched from outside of them.
Grows(at, w, lo, hi, l, h) ==
  (at = hi /\ l = lo /\ h = hi + w) \/ (at + w = lo /\ l = at /\ h = hi)
Ahead(si, w, lo, hi) == si + w <= lo \/ hi <= si

\* What the unit of w bytes at at, fetched from si, does to byte a.
UnitAt(S, dst, src, lo, hi, at, w, si, l, h, a) ==
  /\ a \in at .. (at + w - 1) =>
       /\ a - at + si = a - dst + src /\ a - dst + src \in 0 .. (S - 1)
       /\ ~(lo <= a - dst + src /\ a - dst + src < hi)
       /\ l <= a /\ a < h
  /\ a \notin at .. (at + w - 1) => ((l <= a /\ a < h) <=> (lo <= a /\ a < hi))

LEMMA UnitApart ==
  ASSUME NEW S \in Nat, NEW dst \in Nat, NEW src \in Nat, NEW lo \in Nat, NEW hi \in Nat,
         NEW at \in Nat, NEW w \in Nat \ {0}, NEW si \in Nat, si = at - dst + src,
         si + w <= S, lo <= hi, Ahead(si, w, lo, hi),
         NEW l \in Nat, NEW h \in Nat, Grows(at, w, lo, hi, l, h),
         NEW a \in 0 .. (S - 1)
  PROVE  UnitAt(S, dst, src, lo, hi, at, w, si, l, h, a)
<1> USE DEF Grows, Ahead
<1>1. ASSUME a \in at .. (at + w - 1)
      PROVE  /\ a - at + si = a - dst + src /\ a - dst + src \in 0 .. (S - 1)
             /\ ~(lo <= a - dst + src /\ a - dst + src < hi)
             /\ l <= a /\ a < h
  <2>1. PICK k \in Nat : a = at + k /\ k < w
    <3>1. a - at \in Nat /\ a = at + (a - at) /\ a - at < w
      BY <1>1
    <3> QED
      BY <3>1
  <2>2. a - at + si = si + k /\ a - dst + src = si + k
    BY <2>1
  <2>3. si + k \in 0 .. (S - 1) /\ ~(lo <= si + k /\ si + k < hi)
    BY <2>1
  <2>4. l <= a /\ a < h
    BY <2>1
  <2> QED
    BY <2>2, <2>3, <2>4
<1>2. ASSUME a \notin at .. (at + w - 1)
      PROVE  (l <= a /\ a < h) <=> (lo <= a /\ a < hi)
  <2>1. a \in Nat /\ (a < at \/ a >= at + w)
    BY <1>2
  <2> QED
    BY <2>1
<1> QED
  BY <1>1, <1>2 DEF UnitAt

UnitMoves(S, m, dst, src, lo, hi, at, w, si, l, h, b) ==
  Store(b, at, si, w) = Moved(m, dst, src, l, h)

LEMMA OneUnit ==
  ASSUME NEW S \in Nat, NEW m, Bytewise(m, S),
         NEW dst \in Nat, NEW src \in Nat, NEW lo \in Nat, NEW hi \in Nat,
         NEW at \in Nat, NEW w \in Nat \ {0}, NEW si \in Nat, si = at - dst + src,
         si + w <= S, lo <= hi, Ahead(si, w, lo, hi),
         NEW l \in Nat, NEW h \in Nat, Grows(at, w, lo, hi, l, h),
         NEW b, b = Moved(m, dst, src, lo, hi)
  PROVE  UnitMoves(S, m, dst, src, lo, hi, at, w, si, l, h, b)
<1>1. DOMAIN m = 0 .. (S - 1) /\ DOMAIN b = 0 .. (S - 1)
      /\ \A a \in 0 .. (S - 1) : b[a] = IF lo <= a /\ a < hi THEN m[a - dst + src] ELSE m[a]
  BY DEF Moved, Bytewise
<1>2. ASSUME NEW a \in 0 .. (S - 1)
      PROVE  (IF a \in at .. (at + w - 1) THEN b[a - at + si] ELSE b[a]) =
             (IF l <= a /\ a < h THEN m[a - dst + src] ELSE m[a])
  <2>0. /\ a \in at .. (at + w - 1) =>
             /\ a - at + si = a - dst + src /\ a - dst + src \in 0 .. (S - 1)
             /\ ~(lo <= a - dst + src /\ a - dst + src < hi)
             /\ l <= a /\ a < h
        /\ a \notin at .. (at + w - 1) => ((l <= a /\ a < h) <=> (lo <= a /\ a < hi))
    <3>1. UnitAt(S, dst, src, lo, hi, at, w, si, l, h, a)
      BY UnitApart
    <3> QED
      BY <3>1 DEF UnitAt
  <2>1. CASE a \in at .. (at + w - 1)
    <3>1. PICK c : c = a - dst + src
      OBVIOUS
    <3>2. b[a - at + si] = b[c] /\ c \in 0 .. (S - 1) /\ ~(lo <= c /\ c < hi)
      BY <2>0, <2>1, <3>1
    <3>3. b[c] = m[c]
      BY <1>1, <3>2
    <3> QED
      BY <2>0, <2>1, <3>1, <3>2, <3>3
  <2>2. CASE a \notin at .. (at + w - 1)
    BY <1>1, <2>0, <2>2
  <2> QED
    BY <2>1, <2>2
<1>3. Store(b, at, si, w) =
        [a \in 0 .. (S - 1) |-> IF a \in at .. (at + w - 1) THEN b[a - at + si] ELSE b[a]]
  BY <1>1 DEF Store
<1>4. Moved(m, dst, src, l, h) =
        [a \in 0 .. (S - 1) |-> IF l <= a /\ a < h THEN m[a - dst + src] ELSE m[a]]
  BY <1>1 DEF Moved
<1>5. [a \in 0 .. (S - 1) |-> IF a \in at .. (at + w - 1) THEN b[a - at + si] ELSE b[a]] =
      [a \in 0 .. (S - 1) |-> IF l <= a /\ a < h THEN m[a - dst + src] ELSE m[a]]
  BY <1>2
<1> QED
  BY <1>3, <1>4, <1>5 DEF UnitMoves

Product(n, w, N) == n = w * N

\* The first i units of a move of N.
LEMMA UnitFits ==
  ASSUME NEW w \in Nat \ {0}, NEW N \in Nat, NEW n \in Nat, Product(n, w, N),
         NEW i \in 1 .. N
  PROVE  \E x \in Nat : x = w * (i - 1) /\ w * i = x + w /\ x + w <= n
<1>1. PICK x \in Nat : x = w * (i - 1)
  OBVIOUS
<1>2. w * i = x + w
  BY <1>1
<1>3. PICK r \in Nat : N = i + r
  <2>1. N - i \in Nat /\ N = i + (N - i)
    OBVIOUS
  <2> QED
    BY <2>1
<1>4. n = w * i + w * r /\ w * r \in Nat
  BY <1>3 DEF Product
<1>5. PICK y, z \in Nat : y = w * r /\ z = x + w
  BY <1>4
<1>6. n = z + y
  BY <1>2, <1>4, <1>5
<1>7. z <= n
  BY <1>6
<1> QED
  BY <1>1, <1>2, <1>5, <1>7

Upwards(dst, src, n) == dst <= src \/ src + n <= dst

MovedUp(m, S, dst, src, w, N, n) ==
  RepMovs(m, dst, src, N, w, 1) = Moved(m, dst, src, dst, dst + n)
MovedDown(m, S, dst, src, w, N, n) ==
  RepMovs(m, dst + n - w, src + n - w, N, w, -1) = Moved(m, dst, src, dst, dst + n)

\* rep movs upwards, when the destination does not begin inside the source.
LEMMA MovesUp ==
  ASSUME NEW S \in Nat, NEW m, Bytewise(m, S),
         NEW dst \in Nat, NEW src \in Nat, NEW w \in Nat \ {0}, NEW N \in Nat, NEW n \in Nat,
         Product(n, w, N), src + n <= S, Upwards(dst, src, n)
  PROVE  MovedUp(m, S, dst, src, w, N, n)
<1>1. PICK f : InSteps(f, m, dst, src, w, 1, N) /\ RepMovs(m, dst, src, N, w, 1) = f[N]
  BY MovedInSteps
<1> DEFINE Right(i) == f[i] = Moved(m, dst, src, dst, dst + w * i)
           Bad == {i \in Nat : i <= N /\ ~Right(i)}
<1>2. Right(0)
  <2>1. w * 0 = 0 /\ dst + 0 = dst /\ DOMAIN m = 0 .. (S - 1)
    BY DEF Bytewise
  <2>2. \A a \in DOMAIN m : ~(dst <= a /\ a < dst)
    BY <2>1
  <2>3. Moved(m, dst, src, dst, dst) = [a \in DOMAIN m |-> m[a]]
    BY <2>2 DEF Moved
  <2>4. m = [a \in DOMAIN m |-> m[a]]
    BY <2>1 DEF Bytewise
  <2> QED
    BY <1>1, <2>1, <2>3, <2>4 DEF InSteps
<1>3. ASSUME NEW i \in 1 .. N, Right(i - 1) PROVE Right(i)
  <2>1. PICK x \in Nat : x = w * (i - 1) /\ w * i = x + w /\ x + w <= n
    BY UnitFits
  <2>2. 1 * w * (i - 1) = x
    BY <2>1
  <2>3. x + w <= n
    BY <2>1
  <2>4. PICK b, at, si, hi, h : /\ b = f[i - 1] /\ at = dst + x /\ si = src + x
                                /\ hi = dst + x /\ h = dst + (x + w)
    OBVIOUS
  <2>5. b = Moved(m, dst, src, dst, hi)
    BY <1>3, <2>1, <2>4
  <2>6. f[i] = Store(b, at, si, w)
    BY <1>1, <2>2, <2>4 DEF InSteps
  <2>7. /\ at \in Nat /\ si \in Nat /\ hi \in Nat /\ h \in Nat /\ si = at - dst + src
        /\ si + w <= S /\ dst <= hi
        /\ Ahead(si, w, dst, hi) /\ Grows(at, w, dst, hi, dst, h)
    <3>1. x + w <= n /\ x \in Nat
      BY <2>3
    <3> QED
      BY <2>4, <3>1 DEF Ahead, Grows, Upwards
  <2>8. Store(b, at, si, w) = Moved(m, dst, src, dst, h)
    <3>1. UnitMoves(S, m, dst, src, dst, hi, at, w, si, dst, h, b)
      BY <2>5, <2>7, OneUnit
    <3> QED
      BY <3>1 DEF UnitMoves
  <2> QED
    BY <2>2, <2>4, <2>6, <2>8
<1>4. Bad = {}
  <2>1. SUFFICES ASSUME Bad # {} PROVE FALSE
    OBVIOUS
  <2>2. PICK i \in Bad : \A k \in Bad : i <= k
    <3>1. Bad \subseteq Nat
      OBVIOUS
    <3> HIDE DEF Bad
    <3> QED
      BY <2>1, <3>1, LeastExists
  <2> HIDE DEF Right
  <2>3. i # 0 /\ i \in Nat /\ i <= N /\ ~Right(i)
    BY <1>2, <2>2
  <2>4. i \in 1 .. N /\ i - 1 \in Nat /\ i - 1 \notin Bad /\ i - 1 <= N
    BY <2>2, <2>3
  <2>5. Right(i - 1)
    BY <2>4
  <2> QED
    BY <1>3, <2>3, <2>4, <2>5
<1>5. Right(N)
  <2> HIDE DEF Right
  <2> QED
    BY <1>4
<1> QED
  BY <1>1, <1>5 DEF Product, MovedUp

\* rep movs downwards, when the destination begins inside the source.
LEMMA MovesDown ==
  ASSUME NEW S \in Nat, NEW m, Bytewise(m, S),
         NEW dst \in Nat, NEW src \in Nat, NEW w \in Nat \ {0}, NEW N \in Nat, NEW n \in Nat,
         Product(n, w, N), dst + n <= S, src < dst
  PROVE  MovedDown(m, S, dst, src, w, N, n)
<1>1. PICK di, si : di = dst + n - w /\ si = src + n - w
  OBVIOUS
<1>2. di = dst + (n - w) /\ si = src + (n - w) /\ di \in Int /\ si \in Int
  BY <1>1
<1>3. PICK f : InSteps(f, m, di, si, w, -1, N) /\ RepMovs(m, di, si, N, w, -1) = f[N]
  BY MovedInSteps
<1> DEFINE Right(i) == f[i] = Moved(m, dst, src, dst + (n - w * i), dst + n)
           Bad == {i \in Nat : i <= N /\ ~Right(i)}
<1>4. Right(0)
  <2>1. dst + (n - w * 0) = dst + n /\ DOMAIN m = 0 .. (S - 1)
    BY DEF Bytewise
  <2>2. \A a \in DOMAIN m : ~(dst + n <= a /\ a < dst + n)
    BY <2>1
  <2>3. Moved(m, dst, src, dst + n, dst + n) = [a \in DOMAIN m |-> m[a]]
    BY <2>2 DEF Moved
  <2>4. m = [a \in DOMAIN m |-> m[a]]
    BY <2>1 DEF Bytewise
  <2> QED
    BY <1>3, <2>1, <2>3, <2>4 DEF InSteps
<1>5. ASSUME NEW i \in 1 .. N, Right(i - 1) PROVE Right(i)
  <2>1. PICK x \in Nat : x = w * (i - 1) /\ w * i = x + w /\ x + w <= n
    BY UnitFits
  <2>2. (-1) * w * (i - 1) = -x
    BY <2>1
  <2>3. x + w <= n
    BY <2>1
  <2>4. PICK b, at, from, lo, h : /\ b = f[i - 1] /\ at = di + (-x) /\ from = si + (-x)
                                  /\ lo = dst + (n - x) /\ h = dst + n
    OBVIOUS
  <2>5. b = Moved(m, dst, src, lo, h)
    BY <1>5, <2>1, <2>4
  <2>6. f[i] = Store(b, at, from, w)
    BY <1>3, <2>2, <2>4 DEF InSteps
  <2>7. /\ at \in Nat /\ from \in Nat /\ lo \in Nat /\ h \in Nat /\ from = at - dst + src
        /\ from + w <= S /\ lo <= h
        /\ Ahead(from, w, lo, h) /\ Grows(at, w, lo, h, at, h)
    <3>1. x + w <= n /\ x \in Nat
      BY <2>3
    <3>2. PICK y \in Nat : n = x + w + y
      <4>1. n - (x + w) \in Nat /\ n = x + w + (n - (x + w))
        BY <3>1
      <4> QED
        BY <4>1
    <3>3. at = dst + y /\ from = src + y /\ lo = dst + y + w /\ h = dst + x + w + y
      BY <1>2, <2>4, <3>1, <3>2
    <3> QED
      BY <3>1, <3>2, <3>3 DEF Ahead, Grows
  <2>8. Store(b, at, from, w) = Moved(m, dst, src, at, h)
    <3>1. UnitMoves(S, m, dst, src, lo, h, at, w, from, at, h, b)
      BY <2>5, <2>7, OneUnit
    <3> QED
      BY <3>1 DEF UnitMoves
  <2>9. at = dst + (n - w * i)
    <3>1. at = dst + (n - (x + w))
      BY <1>2, <2>4
    <3> QED
      BY <2>1, <3>1
  <2> QED
    BY <2>4, <2>6, <2>8, <2>9
<1>6. Bad = {}
  <2>1. SUFFICES ASSUME Bad # {} PROVE FALSE
    OBVIOUS
  <2>2. PICK i \in Bad : \A k \in Bad : i <= k
    <3>1. Bad \subseteq Nat
      OBVIOUS
    <3> HIDE DEF Bad
    <3> QED
      BY <2>1, <3>1, LeastExists
  <2> HIDE DEF Right
  <2>3. i # 0 /\ i \in Nat /\ i <= N /\ ~Right(i)
    BY <1>4, <2>2
  <2>4. i \in 1 .. N /\ i - 1 \in Nat /\ i - 1 \notin Bad /\ i - 1 <= N
    BY <2>2, <2>3
  <2>5. Right(i - 1)
    BY <2>4
  <2> QED
    BY <1>5, <2>3, <2>4, <2>5
<1>7. Right(N)
  <2> HIDE DEF Right
  <2> QED
    BY <1>6
<1>8. dst + (n - w * N) = dst
  BY DEF Product
<1> QED
  BY <1>1, <1>3, <1>7, <1>8 DEF MovedDown

\* The unit of a transfer divides its length.
LEMMA UnitDivides ==
  ASSUME NEW p, NEW q, NEW n \in Nat, NEW w, w = Unit(p, q, n)
  PROVE  w \in Nat \ {0} /\ \E N \in Nat : N = n \div w /\ Product(n, w, N)
<1>1. w \in Nat \ {0} /\ (w = 1 \/ n % w = 0)
  BY WordAssumption DEF Unit
<1>2. PICK N, r \in Nat : N = n \div w /\ r = n % w /\ r < w /\ n = N * w + r
  BY <1>1, Parted
<1>3. r = 0
  BY <1>1, <1>2
<1>4. n = w * N
  BY <1>1, <1>2, <1>3
<1> QED
  BY <1>1, <1>2, <1>4 DEF Product

\* memmove is the move of bytes that it stands for.
LEMMA MemmoveStores ==
  ASSUME NEW S \in Nat, NEW m, Bytewise(m, S), NEW dst \in Nat, NEW src \in Nat, NEW n \in Nat,
         dst + n <= S, src + n <= S
  PROVE  memmove(m, dst, src, n) = Store(m, dst, src, n)
<1>1. Store(m, dst, src, n) = Moved(m, dst, src, dst, dst + n)
  <2>1. DOMAIN m = 0 .. (S - 1)
    BY DEF Bytewise
  <2>2. \A a \in DOMAIN m : a \in dst .. (dst + n - 1) <=> dst <= a /\ a < dst + n
    BY <2>1
  <2> QED
    BY <2>2 DEF Store, Moved
<1>2. CASE src < dst /\ src + n > dst
  <2>1. PICK w : w = Unit(src + n, dst + n, n)
    OBVIOUS
  <2>2. w \in Nat \ {0}
    BY <2>1, UnitDivides
  <2>3. PICK N \in Nat : N = n \div w /\ Product(n, w, N)
    BY <2>1, UnitDivides
  <2>4. memmove(m, dst, src, n) = RepMovs(m, dst + n - w, src + n - w, N, w, -1)
    BY <1>2, <2>1, <2>3 DEF memmove
  <2>5. RepMovs(m, dst + n - w, src + n - w, N, w, -1) = Moved(m, dst, src, dst, dst + n)
    <3>1. MovedDown(m, S, dst, src, w, N, n)
      BY <1>2, <2>2, <2>3, MovesDown
    <3> QED
      BY <3>1 DEF MovedDown
  <2> QED
    BY <1>1, <2>4, <2>5
<1>3. CASE ~(src < dst /\ src + n > dst)
  <2>1. PICK w : w = Unit(src, dst, n)
    OBVIOUS
  <2>2. w \in Nat \ {0}
    BY <2>1, UnitDivides
  <2>3. PICK N \in Nat : N = n \div w /\ Product(n, w, N)
    BY <2>1, UnitDivides
  <2>4. memmove(m, dst, src, n) = RepMovs(m, dst, src, N, w, 1)
    BY <1>3, <2>1, <2>3 DEF memmove
  <2>5. Upwards(dst, src, n)
    BY <1>3 DEF Upwards
  <2>6. RepMovs(m, dst, src, N, w, 1) = Moved(m, dst, src, dst, dst + n)
    <3>1. MovedUp(m, S, dst, src, w, N, n)
      BY <2>2, <2>3, <2>5, MovesUp
    <3> QED
      BY <3>1 DEF MovedUp
  <2> QED
    BY <1>1, <2>4, <2>6
<1> QED
  BY <1>2, <1>3

Filled(v, w, N) == {v + w * u + k : u \in 0 .. (N - 1), k \in 0 .. (w - 1)}

\* The units of a memset cover its n bytes and no other.
LEMMA UnitsCover ==
  ASSUME NEW w \in Nat \ {0}, NEW N \in Nat, NEW n \in Nat, Product(n, w, N), NEW v \in Nat,
         NEW a \in Nat
  PROVE  a \in Filled(v, w, N) <=> v <= a /\ a < v + n
<1>1. ASSUME NEW u \in 0 .. (N - 1), NEW k \in 0 .. (w - 1), a = v + w * u + k
      PROVE  v <= a /\ a < v + n
  <2>1. PICK x, y \in Nat : x = u * w /\ y = N * w
    BY <1>1
  <2>2. N > u /\ u \in Nat
    BY <1>1
  <2>3. y >= x + w
    BY <2>1, <2>2, Later
  <2>4. n = y /\ a = v + x + k
    BY <1>1, <2>1 DEF Product
  <2>5. k \in Nat /\ k < w
    BY <1>1
  <2> QED
    BY ONLY <2>3, <2>4, <2>5, v \in Nat, x \in Nat, y \in Nat, w \in Nat
<1>2. ASSUME v <= a /\ a < v + n
      PROVE  \E u \in 0 .. (N - 1), k \in 0 .. (w - 1) : a = v + w * u + k
  <2>1. PICK d \in Nat : a = v + d /\ d < n
    <3>1. a - v \in Nat /\ a = v + (a - v) /\ a - v < n
      BY <1>2
    <3> QED
      BY <3>1
  <2>2. PICK u, k \in Nat : u = d \div w /\ k = d % w /\ k < w /\ d = u * w + k
    BY Parted
  <2>3. PICK x, y \in Nat : x = u * w /\ y = N * w
    BY <2>2
  <2>4. n = y /\ d = x + k /\ w * u = x
    BY <2>2, <2>3 DEF Product
  <2>5. u >= N => y <= x
    <3>1. u > N => x >= y + w
      BY <2>3, Later
    <3>2. u = N => x = y
      BY <2>3
    <3> QED
      BY <3>1, <3>2
  <2>6. x < y
    <3>1. d < n
      BY <2>1
    <3> QED
      BY ONLY <2>4, <3>1, k \in Nat, x \in Nat, y \in Nat
  <2>7. u \in 0 .. (N - 1)
    BY <2>5, <2>6
  <2>8. k \in 0 .. (w - 1)
    BY <2>2
  <2>9. a = v + w * u + k
    BY <2>1, <2>4
  <2> QED
    BY <2>7, <2>8, <2>9
<1>3. a \in Filled(v, w, N) <=>
        \E u \in 0 .. (N - 1), k \in 0 .. (w - 1) : a = v + w * u + k
  BY DEF Filled
<1>4. (\E u \in 0 .. (N - 1), k \in 0 .. (w - 1) : a = v + w * u + k)
        <=> v <= a /\ a < v + n
  BY <1>1, <1>2, Zenon
<1> QED
  BY <1>3, <1>4

LEMMA MemsetFills ==
  ASSUME NEW S \in Nat, NEW m, Bytewise(m, S), NEW v \in Nat, NEW n \in Nat, NEW c
  PROVE  memset(m, v, c, n) =
           [a \in DOMAIN m |-> IF a >= v /\ a < v + n THEN c ELSE m[a]]
<1>1. PICK w : w = Unit(v, 0, n)
  OBVIOUS
<1>2. w \in Nat \ {0}
  BY <1>1, UnitDivides
<1>3. PICK N \in Nat : N = n \div w /\ Product(n, w, N)
  BY <1>1, UnitDivides
<1>4. PICK filled : filled = Filled(v, w, N)
  OBVIOUS
<1>5. memset(m, v, c, n) = [a \in DOMAIN m |-> IF a \in filled THEN c ELSE m[a]]
  <2>1. memset(m, v, c, n) =
          [a \in DOMAIN m |-> IF a \in Filled(v, w, n \div w) THEN c ELSE m[a]]
    BY <1>1 DEF memset, Filled
  <2> QED
    BY <1>3, <1>4, <2>1, Zenon
<1>6. ASSUME NEW a \in DOMAIN m PROVE a \in filled <=> a >= v /\ a < v + n
  <2>1. a \in Nat
    BY DEF Bytewise
  <2>2. a \in filled <=> v <= a /\ a < v + n
    BY <1>2, <1>3, <1>4, <2>1, UnitsCover
  <2> QED
    BY <2>1, <2>2
<1> QED
  BY <1>5, <1>6
-----------------------------------------------------------------------------
(***************************************************************************)
(* Texts in memory m of S bytes.                                           *)
(***************************************************************************)
Mem(m, S) ==
  /\ S \in Nat /\ Bytewise(m, S) /\ DOMAIN m = 0 .. (S - 1)
  /\ \A a \in 0 .. (S - 1) : m[a] \in 0 .. 255

\* What FirstAt finds.
IsFirst(stop, s, lim, a) ==
  /\ a \in s .. (s + lim)
  /\ a = s + lim \/ a \in stop
  /\ \A b \in s .. (a - 1) : b \notin stop

LEMMA FirstFound ==
  ASSUME NEW stop, NEW s \in Nat, NEW lim \in Nat
  PROVE  IsFirst(stop, s, lim, FirstAt(stop, s, lim))
<1> DEFINE Is(a) == /\ a = s + lim \/ a \in stop
                    /\ \A b \in s .. (a - 1) : b \notin stop
           T == {a \in s .. (s + lim) : a = s + lim \/ a \in stop}
<1>1. PICK a \in T : \A b \in T : a <= b
  <2>1. T \subseteq Nat
    OBVIOUS
  <2>2. s + lim \in T
    OBVIOUS
  <2> HIDE DEF T
  <2> QED
    BY <2>1, <2>2, LeastExists
<1>2. a \in s .. (s + lim) /\ Is(a)
  <2>1. a \in s .. (s + lim) /\ (a = s + lim \/ a \in stop)
    BY <1>1
  <2>2. ASSUME NEW b \in s .. (a - 1), b \in stop PROVE FALSE
    <3>1. b \in s .. (s + lim) /\ b < a
      BY <2>1, <2>2
    <3> QED
      BY <1>1, <2>1, <2>2, <3>1
  <2> QED
    BY <2>1, <2>2
<1>3. PICK t : t = CHOOSE c \in s .. (s + lim) : Is(c)
  OBVIOUS
<1>4. t \in s .. (s + lim) /\ Is(t)
  <2> HIDE DEF Is
  <2> QED
    BY <1>2, <1>3, Zenon
<1>5. FirstAt(stop, s, lim) = t
  BY <1>3, Zenon DEF FirstAt
<1> QED
  BY <1>4, <1>5 DEF IsFirst

LEMMA AboveIs ==
  ASSUME NEW m, NEW S, Mem(m, S), NEW s \in 0 .. (S - 1)
  PROVE  Above(m, s) = S - s
<1>0. S \in Nat /\ DOMAIN m = 0 .. (S - 1)
  BY DEF Mem
<1> DEFINE Is(a) == \A b \in DOMAIN m : b <= a
<1>1. S - 1 \in DOMAIN m /\ Is(S - 1)
  BY <1>0
<1>2. PICK a : a = CHOOSE c \in DOMAIN m : Is(c)
  OBVIOUS
<1>3. a \in DOMAIN m /\ Is(a)
  <2> HIDE DEF Is
  <2> QED
    BY <1>1, <1>2, Zenon
<1>4. a = S - 1
  <2>1. S - 1 <= a
    BY <1>1, <1>3
  <2> QED
    BY <1>0, <1>3, <2>1
<1>5. Above(m, s) = a + 1 - s
  BY <1>2, Zenon DEF Above
<1> QED
  BY <1>0, <1>4, <1>5

\* A text of l characters at p.
TextAt(m, S, p, l) ==
  /\ l \in Nat /\ p + l < S /\ m[p + l] = 0
  /\ \A j \in 0 .. (l - 1) : m[p + j] # 0

LEMMA ZerosAre ==
  ASSUME NEW m, NEW S, Mem(m, S)
  PROVE  \A a : a \in Zeros(m) <=> a \in 0 .. (S - 1) /\ m[a] = 0
  BY DEF Mem, Zeros, NUL

\* strlen finds the length of a terminated text, and only that.
LEMMA LengthIs ==
  ASSUME NEW m, NEW S, Mem(m, S), NEW p \in 0 .. (S - 1), NEW l, TextAt(m, S, p, l)
  PROVE  strlen(m, p) = l
<1>0. S \in Nat /\ p \in Nat /\ l \in Nat /\ p + l < S
  BY DEF Mem, TextAt
<1>1. Above(m, p) = S - p
  BY AboveIs
<1>2. PICK lim \in Nat : lim = S - p /\ lim = Above(m, p)
  BY <1>0, <1>1
<1>3. PICK a : a = FirstAt(Zeros(m), p, lim)
  OBVIOUS
<1>4. IsFirst(Zeros(m), p, lim, a)
  BY <1>0, <1>3, FirstFound
<1>5. a \in p .. S /\ (a = S \/ a \in Zeros(m)) /\ \A b \in p .. (a - 1) : b \notin Zeros(m)
  BY <1>0, <1>2, <1>4 DEF IsFirst
<1>6. \A b : b \in Zeros(m) <=> b \in 0 .. (S - 1) /\ m[b] = 0
  BY ZerosAre
<1>7. p + l \in Zeros(m)
  BY <1>0, <1>6 DEF TextAt
<1>8. ~(a > p + l)
  <2>1. a > p + l => p + l \in p .. (a - 1)
    BY <1>0, <1>5
  <2> QED
    BY <1>5, <1>7, <2>1
<1>9. ~(a < p + l)
  <2>1. SUFFICES ASSUME a < p + l PROVE FALSE
    OBVIOUS
  <2>2. PICK j \in 0 .. (l - 1) : p + j = a
    <3>1. a - p \in 0 .. (l - 1) /\ p + (a - p) = a
      BY <1>0, <1>5, <2>1
    <3> QED
      BY <3>1
  <2>3. a # S
    BY <1>0, <1>5, <2>1
  <2>4. m[a] = 0
    BY <1>5, <1>6, <2>3
  <2> QED
    BY <2>2, <2>4 DEF TextAt
<1>10. a = p + l
  BY <1>0, <1>5, <1>8, <1>9
<1>11. strlen(m, p) = a - p
  BY <1>2, <1>3 DEF strlen, strnlen
<1> QED
  BY <1>0, <1>10, <1>11

LEMMA TextFound ==
  ASSUME NEW m, NEW S, Mem(m, S), NEW p \in 0 .. (S - 1), Terminated(m, p)
  PROVE  TextAt(m, S, p, strlen(m, p))
<1>0. S \in Nat /\ p \in Nat
  BY DEF Mem
<1>1. \A b : b \in Zeros(m) <=> b \in 0 .. (S - 1) /\ m[b] = 0
  BY ZerosAre
<1>2. PICK z \in Zeros(m) : p <= z
  BY DEF Terminated
<1> DEFINE T == {j \in Nat : p + j < S /\ m[p + j] = 0}
<1>3. T # {}
  <2>1. z - p \in Nat /\ p + (z - p) = z /\ z < S /\ m[z] = 0
    BY <1>0, <1>1, <1>2
  <2> QED
    BY <2>1
<1>4. PICK l \in T : \A j \in T : l <= j
  <2>1. T \subseteq Nat
    OBVIOUS
  <2> HIDE DEF T
  <2> QED
    BY <1>3, <2>1, LeastExists
<1>5. ASSUME NEW j \in 0 .. (l - 1) PROVE m[p + j] # 0
  <2>1. j \in Nat /\ j < l /\ p + j < S
    BY <1>0, <1>4
  <2> QED
    BY <1>4, <2>1
<1>6. TextAt(m, S, p, l)
  BY <1>4, <1>5 DEF TextAt
<1> QED
  BY <1>6, LengthIs

\* The characters of a text.
LEMMA TextIs ==
  ASSUME NEW m, NEW S, Mem(m, S), NEW p \in 0 .. (S - 1), NEW l, TextAt(m, S, p, l)
  PROVE  /\ Text(m, p) = [i \in 1 .. l |-> m[p + (i - 1)]]
         /\ Text(m, p) \in Seq(Nat) /\ Len(Text(m, p)) = l
         /\ \A i \in 1 .. l : Text(m, p)[i] = m[p + (i - 1)] /\ Text(m, p)[i] \in Nat \ {0}
<1>0. S \in Nat /\ p \in Nat /\ l \in Nat /\ p + l < S
  BY DEF Mem, TextAt
<1>1. strlen(m, p) = l
  BY LengthIs
<1>2. Text(m, p) = [i \in 1 .. l |-> m[p + (i - 1)]]
  BY <1>1 DEF Text
<1>3. ASSUME NEW i \in 1 .. l PROVE m[p + (i - 1)] \in Nat \ {0}
  <2>1. i - 1 \in 0 .. (l - 1) /\ p + (i - 1) \in 0 .. (S - 1)
    BY <1>0
  <2>2. PICK j : j = i - 1
    OBVIOUS
  <2>3. m[p + j] # 0
    BY <2>1, <2>2 DEF TextAt
  <2>4. m[p + j] \in 0 .. 255
    BY <2>1, <2>2 DEF Mem
  <2> QED
    BY <2>2, <2>3, <2>4
<1>4. PICK s : s = Text(m, p)
  OBVIOUS
<1>5. s \in [1 .. l -> Nat]
  BY <1>2, <1>3, <1>4
<1>6. s \in Seq(Nat) /\ Len(s) = l
  BY <1>0, <1>5
<1>7. \A i \in 1 .. l : s[i] = m[p + (i - 1)] /\ s[i] \in Nat \ {0}
  BY <1>2, <1>3, <1>4
<1> QED
  BY <1>2, <1>4, <1>6, <1>7

LEMMA MemTyped ==
  ASSUME NEW m, NEW S, Mem(m, S)
  PROVE  S \in Nat /\ DOMAIN m = 0 .. (S - 1) /\ \A a \in 0 .. (S - 1) : m[a] \in Nat
<1>1. /\ S \in Nat /\ DOMAIN m = 0 .. (S - 1)
      /\ \A a \in 0 .. (S - 1) : m[a] \in 0 .. 255
  BY DEF Mem
<1>2. 0 .. 255 \subseteq Nat
  OBVIOUS
<1> QED
  BY <1>1, <1>2

\* A sequence of characters is given by its length and its characters.
Reads(s, l, m, p) ==
  /\ s \in Seq(Nat) /\ Len(s) = l /\ l \in Nat
  /\ \A i \in 1 .. l : s[i] = m[p + (i - 1)] /\ s[i] \in Nat \ {0}

LEMMA TextReads ==
  ASSUME NEW m, NEW S, Mem(m, S), NEW p \in 0 .. (S - 1), NEW l, TextAt(m, S, p, l)
  PROVE  Reads(Text(m, p), l, m, p)
<1>1. l \in Nat
  BY DEF TextAt
<1>2. /\ Text(m, p) \in Seq(Nat) /\ Len(Text(m, p)) = l
      /\ \A i \in 1 .. l : Text(m, p)[i] = m[p + (i - 1)] /\ Text(m, p)[i] \in Nat \ {0}
  BY TextIs
<1> QED
  BY <1>1, <1>2 DEF Reads

LEMMA SameText ==
  ASSUME NEW s, NEW t, NEW l, NEW m, NEW p, NEW r, NEW q,
         Reads(s, l, m, p), Reads(t, l, r, q),
         \A j \in 0 .. (l - 1) : m[p + j] = r[q + j]
  PROVE  s = t
<1>1. s \in [1 .. l -> Nat] /\ t \in [1 .. l -> Nat] /\ l \in Nat
  BY DEF Reads
<1>2. ASSUME NEW i \in 1 .. l PROVE s[i] = t[i]
  <2>1. PICK j : j = i - 1
    OBVIOUS
  <2>2. j \in 0 .. (l - 1)
    BY <1>1, <2>1
  <2>3. s[i] = m[p + j] /\ t[i] = r[q + j]
    BY <2>1 DEF Reads
  <2> QED
    BY <2>2, <2>3
<1> QED
  BY <1>1, <1>2

\* The beginning of a text.
LEMMA UptoReads ==
  ASSUME NEW s, NEW l, NEW m, NEW p, Reads(s, l, m, p), NEW n \in Nat, NEW k,
         k = IF n < l THEN n ELSE l
  PROVE  Reads(Upto(s, n), k, m, p)
<1>1. s \in Seq(Nat) /\ Len(s) = l /\ l \in Nat /\ k \in 0 .. l
      /\ \A i \in 1 .. l : s[i] = m[p + (i - 1)] /\ s[i] \in Nat \ {0}
  BY DEF Reads
<1>2. Upto(s, n) = SubSeq(s, 1, k)
  BY <1>1 DEF Upto
<1>3. PICK t : t = SubSeq(s, 1, k)
  OBVIOUS
<1>4. t \in Seq(Nat) /\ Len(t) = k /\ \A i \in 1 .. k : t[i] = s[i]
  BY <1>1, <1>3
<1>5. \A i \in 1 .. k : i \in 1 .. l
  BY <1>1
<1> QED
  BY <1>1, <1>2, <1>3, <1>4, <1>5 DEF Reads

\* strchr and strfind find the character, or the end.
LEMMA Strchr ==
  ASSUME NEW m, NEW S, Mem(m, S), NEW p \in 0 .. (S - 1), NEW l, TextAt(m, S, p, l), NEW c
  PROVE  /\ (strchr(m, p, c) = -1) <=> (\A i \in 1 .. l : Text(m, p)[i] # c)
         /\ strchr(m, p, c) \in {-1, strfind(m, p, c)}
<1>0. S \in Nat /\ p \in Nat /\ l \in Nat /\ p + l < S /\ DOMAIN m = 0 .. (S - 1)
  BY DEF Mem, TextAt
<1>1. strlen(m, p) = l
  BY LengthIs
<1>2. PICK a : a = strfind(m, p, c)
  OBVIOUS
<1>3. IsFirst(Bytes(m, c), p, l, a)
  BY <1>0, <1>1, <1>2, FirstFound DEF strfind, memfind
<1>4. a \in p .. (p + l) /\ (a = p + l \/ a \in Bytes(m, c))
      /\ \A b \in p .. (a - 1) : b \notin Bytes(m, c)
  BY <1>3 DEF IsFirst
<1>5. strchr(m, p, c) = IF a < p + l THEN a ELSE -1
  BY <1>1, <1>2 DEF strchr
<1>6. \A b : b \in Bytes(m, c) <=> b \in 0 .. (S - 1) /\ m[b] = c
  BY <1>0 DEF Bytes
<1>7. Reads(Text(m, p), l, m, p)
  BY TextReads
<1>8. CASE a < p + l
  <2>1. PICK i \in 1 .. l : p + (i - 1) = a
    <3>1. a - p + 1 \in 1 .. l /\ p + ((a - p + 1) - 1) = a
      BY <1>0, <1>4, <1>8
    <3> QED
      BY <3>1
  <2>2. m[a] = c
    BY <1>0, <1>4, <1>6, <1>8
  <2>3. Text(m, p)[i] = c
    BY <1>7, <2>1, <2>2 DEF Reads
  <2>4. a # -1
    BY <1>0, <1>4
  <2> QED
    BY <1>2, <1>5, <1>8, <2>1, <2>3, <2>4
<1>9. CASE ~(a < p + l)
  <2>1. a = p + l
    BY <1>0, <1>4, <1>9
  <2>2. ASSUME NEW i \in 1 .. l PROVE Text(m, p)[i] # c
    <3>1. PICK b : b = p + (i - 1)
      OBVIOUS
    <3>2. b \in p .. (a - 1) /\ b \in 0 .. (S - 1)
      BY <1>0, <2>1, <3>1
    <3>3. m[b] # c
      BY <1>4, <1>6, <3>2
    <3> QED
      BY <1>7, <3>1, <3>3 DEF Reads
  <2> QED
    BY <1>5, <1>9, <2>2
<1> QED
  BY <1>8, <1>9

\* The bytes at the least place of ks.
LEMMA LeastDifference ==
  ASSUME NEW m, NEW p, NEW q, NEW ks \in SUBSET Nat, ks # {}
  PROVE  \E k \in ks : /\ \A j \in ks : k <= j
                       /\ Difference(m, p, q, ks) = m[p + k] - m[q + k]
<1> DEFINE Is(k) == \A j \in ks : k <= j
<1>1. \E k \in ks : Is(k)
  BY LeastExists
<1>2. PICK k : k = CHOOSE j \in ks : Is(j)
  OBVIOUS
<1>3. k \in ks /\ Is(k)
  <2> HIDE DEF Is
  <2> QED
    BY <1>1, <1>2, Zenon
<1>4. Difference(m, p, q, ks) = m[p + k] - m[q + k]
  BY <1>2, Zenon DEF Difference
<1> QED
  BY <1>3, <1>4

MemcmpRight(m, S, p, q, n) ==
  (memcmp(m, p, q, n) = 0) <=> (\A k \in 0 .. (n - 1) : m[p + k] = m[q + k])

LEMMA Memcmp ==
  ASSUME NEW m, NEW S, Mem(m, S), NEW p \in Nat, NEW q \in Nat, NEW n \in Nat,
         p + n <= S, q + n <= S
  PROVE  MemcmpRight(m, S, p, q, n)
<1> USE DEF MemcmpRight
<1>0. S \in Nat /\ \A a \in 0 .. (S - 1) : m[a] \in Nat
  BY MemTyped
<1>1. PICK ks : ks = {k \in 0 .. (n - 1) : m[p + k] # m[q + k]}
  OBVIOUS
<1>2. memcmp(m, p, q, n) = IF ks = {} THEN 0 ELSE Difference(m, p, q, ks)
  BY <1>1, Zenon DEF memcmp
<1>3. CASE ks = {}
  BY <1>1, <1>2, <1>3
<1>4. CASE ks # {}
  <2>1. ks \subseteq Nat
    BY <1>1
  <2>2. PICK k \in ks : Difference(m, p, q, ks) = m[p + k] - m[q + k]
    BY <1>4, <2>1, LeastDifference
  <2>3. k \in 0 .. (n - 1) /\ m[p + k] # m[q + k]
    BY <1>1
  <2>4. p + k \in 0 .. (S - 1) /\ q + k \in 0 .. (S - 1)
    BY <1>0, <2>3
  <2>5. m[p + k] \in Nat /\ m[q + k] \in Nat
    BY <1>0, <2>4
  <2>6. m[p + k] - m[q + k] # 0
    BY <2>3, <2>5
  <2> QED
    BY <1>2, <1>4, <2>2, <2>3, <2>6
<1> QED
  BY <1>3, <1>4

\* Memory r got its bytes from m.
LEMMA MemMade ==
  ASSUME NEW m, NEW S, Mem(m, S), NEW r, Bytewise(r, S),
         \A a \in 0 .. (S - 1) : r[a] \in 0 .. 255
  PROVE  Mem(r, S)
<1>1. DOMAIN r = 0 .. (S - 1)
  BY DEF Bytewise
<1> QED
  BY <1>1 DEF Mem

\* r is m with the n bytes from src at dst.
Stored(r, m, S, dst, src, n) ==
  /\ Mem(r, S)
  /\ \A a \in 0 .. (S - 1) : ~(dst <= a /\ a < dst + n) => r[a] = m[a]
  /\ \A j \in 0 .. (n - 1) : dst + j < S => r[dst + j] = m[src + j]

LEMMA StoreIs ==
  ASSUME NEW m, NEW S, Mem(m, S), NEW dst \in Nat, NEW src \in Nat, NEW n \in Nat,
         src + n <= S, NEW r, r = Store(m, dst, src, n)
  PROVE  Stored(r, m, S, dst, src, n)
<1>0. S \in Nat /\ DOMAIN m = 0 .. (S - 1) /\ \A a \in 0 .. (S - 1) : m[a] \in 0 .. 255
  BY DEF Mem
<1>1. r = [a \in 0 .. (S - 1) |->
             IF a \in dst .. (dst + n - 1) THEN m[a - dst + src] ELSE m[a]]
  BY <1>0 DEF Store
<1>2. \A a \in 0 .. (S - 1) :
        r[a] = IF a \in dst .. (dst + n - 1) THEN m[a - dst + src] ELSE m[a]
  BY <1>1
<1>3. ASSUME NEW a \in 0 .. (S - 1) PROVE r[a] \in 0 .. 255
  <2>1. a \in dst .. (dst + n - 1) => a - dst + src \in 0 .. (S - 1)
    BY <1>0
  <2> QED
    BY <1>0, <1>2, <2>1
<1>4. Mem(r, S)
  <2>1. Bytewise(r, S)
    BY <1>1 DEF Bytewise
  <2> QED
    BY <1>3, <2>1, MemMade
<1>5. ASSUME NEW a \in 0 .. (S - 1), ~(dst <= a /\ a < dst + n) PROVE r[a] = m[a]
  <2>1. a \notin dst .. (dst + n - 1)
    BY <1>5
  <2> QED
    BY <1>2, <2>1
<1>6. ASSUME NEW j \in 0 .. (n - 1), dst + j < S PROVE r[dst + j] = m[src + j]
  <2>1. PICK a : a = dst + j
    OBVIOUS
  <2>2. a \in 0 .. (S - 1) /\ a \in dst .. (dst + n - 1) /\ a - dst + src = src + j
    BY <1>0, <1>6, <2>1
  <2> QED
    BY <1>2, <2>1, <2>2
<1> QED
  BY <1>4, <1>5, <1>6 DEF Stored

\* strlcpy copies what fits and terminates it.
LEMMA Strlcpy ==
  ASSUME NEW m, NEW S, Mem(m, S), NEW p \in 0 .. (S - 1), NEW q \in 0 .. (S - 1),
         NEW l, TextAt(m, S, q, l), NEW n \in Nat \ {0}, p + n <= S, q + n <= S
  PROVE  LET r == strlcpy(m, p, q, n)
         IN  Text(r.m, p) = Upto(Text(m, q), n - 1) /\ r.len = Len(Text(r.m, p))
<1>0. S \in Nat /\ p \in Nat /\ q \in Nat /\ l \in Nat /\ q + l < S /\ n - 1 \in Nat
  BY DEF Mem, TextAt
<1>1. PICK lim, len : lim = n - 1 /\ len = strnlen(m, q, lim)
  OBVIOUS
<1>2. PICK a : a = FirstAt(Zeros(m), q, lim)
  OBVIOUS
<1>3. IsFirst(Zeros(m), q, lim, a)
  BY <1>0, <1>1, <1>2, FirstFound
<1>4. a \in q .. (q + lim) /\ (a = q + lim \/ a \in Zeros(m))
      /\ \A b \in q .. (a - 1) : b \notin Zeros(m)
  BY <1>3 DEF IsFirst
<1>5. len = a - q
  BY <1>1, <1>2 DEF strnlen
<1>6. \A b : b \in Zeros(m) <=> b \in 0 .. (S - 1) /\ m[b] = 0
  BY ZerosAre
<1>7. len \in Nat /\ len <= lim /\ q + len = a /\ lim \in Nat
  BY <1>0, <1>1, <1>4, <1>5
<1>8. \A j \in 0 .. (l - 1) : m[q + j] # 0
  BY DEF TextAt
<1>9. m[q + l] = 0
  BY DEF TextAt
<1>10. len <= l
  <2>1. SUFFICES ASSUME len > l PROVE FALSE
    BY <1>0, <1>7
  <2>2. q + l \in q .. (a - 1) /\ q + l \in 0 .. (S - 1)
    BY <1>0, <1>7, <2>1
  <2> QED
    BY <1>4, <1>6, <1>9, <2>2
<1>11. len = IF lim < l THEN lim ELSE l
  <2>1. CASE a = q + lim
    BY <1>0, <1>7, <1>10, <2>1
  <2>2. CASE a \in Zeros(m)
    <3>1. m[q + len] = 0
      BY <1>6, <1>7, <2>2
    <3>2. ~(len < l)
      BY <1>0, <1>7, <1>8, <3>1
    <3> QED
      BY <1>0, <1>7, <1>10, <3>2
  <2> QED
    BY <1>4, <2>1, <2>2
<1>12. PICK b, r : b = Store(m, p, q, len) /\ r = [b EXCEPT ![p + len] = 0]
  OBVIOUS
<1>13. q + len <= S
  BY <1>0, <1>1, <1>7
<1>14. /\ Mem(b, S)
       /\ \A j \in 0 .. (len - 1) : p + j < S => b[p + j] = m[q + j]
  <2>1. Stored(b, m, S, p, q, len)
    BY <1>0, <1>7, <1>12, <1>13, StoreIs
  <2> QED
    BY <2>1 DEF Stored
<1>15. DOMAIN b = 0 .. (S - 1) /\ \A c \in 0 .. (S - 1) : b[c] \in 0 .. 255
  BY <1>14 DEF Mem
<1>16. r = [c \in 0 .. (S - 1) |-> IF c = p + len THEN 0 ELSE b[c]]
  <2>1. b = [c \in 0 .. (S - 1) |-> b[c]]
    BY <1>14 DEF Mem, Bytewise
  <2> QED
    BY <1>12, <1>15, <2>1
<1>17. Mem(r, S)
  <2>1. \A c \in 0 .. (S - 1) : r[c] \in 0 .. 255
    BY <1>15, <1>16
  <2> QED
    <3>1. Bytewise(r, S)
      BY <1>16 DEF Bytewise
    <3> QED
      BY <2>1, <3>1, MemMade
<1>18. p + len \in 0 .. (S - 1)
  BY <1>0, <1>1, <1>7
<1>19. \A j \in 0 .. (len - 1) : r[p + j] = m[q + j] /\ m[q + j] # 0
  <2>1. ASSUME NEW j \in 0 .. (len - 1) PROVE r[p + j] = m[q + j] /\ m[q + j] # 0
    <3>1. p + j \in 0 .. (S - 1) /\ p + j # p + len /\ j \in 0 .. (l - 1) /\ p + j < S
      BY <1>0, <1>7, <1>10, <1>18
    <3> QED
      BY <1>8, <1>14, <1>16, <3>1
  <2> QED
    BY <2>1
<1>20. TextAt(r, S, p, len)
  <2>1. p + len < S /\ r[p + len] = 0
    BY <1>0, <1>16, <1>18
  <2> QED
    BY <1>7, <1>19, <2>1 DEF TextAt
<1>21. Reads(Text(r, p), len, r, p)
  BY <1>17, <1>20, TextReads
<1>22. Reads(Text(m, q), l, m, q)
  BY TextReads
<1>23. Reads(Upto(Text(m, q), lim), len, m, q)
  BY <1>7, <1>11, <1>22, UptoReads
<1>24. \A j \in 0 .. (len - 1) : r[p + j] = m[q + j]
  BY <1>19
<1>25. Text(r, p) = Upto(Text(m, q), lim)
  BY <1>21, <1>23, <1>24, SameText
<1>26. Len(Text(r, p)) = len
  BY <1>21 DEF Reads
<1>27. strlcpy(m, p, q, n) = [m |-> r, len |-> len]
  BY <1>1, <1>12 DEF strlcpy, NUL
<1> QED
  BY <1>1, <1>25, <1>26, <1>27

\* strncpy copies a whole text when it fits with its '\0'.
LEMMA Strncpy ==
  ASSUME NEW m, NEW S, Mem(m, S), NEW p \in 0 .. (S - 1), NEW q \in 0 .. (S - 1),
         NEW l, TextAt(m, S, q, l), NEW n \in Nat, n > l, p + n <= S, q + n <= S
  PROVE  Text(strncpy(m, p, q, n), p) = Text(m, q)
<1>0. /\ S \in Nat /\ p \in Nat /\ q \in Nat /\ l \in Nat /\ DOMAIN m = 0 .. (S - 1)
      /\ \A a \in 0 .. (S - 1) : m[a] \in 0 .. 255
  BY DEF Mem, TextAt
<1>1. PICK r : r = strncpy(m, p, q, n)
  OBVIOUS
<1>2. r = [a \in 0 .. (S - 1) |-> IF a \in p .. (p + n - 1)
                                  THEN StrncpyByte(m, q, a - p) ELSE m[a]]
  BY <1>0, <1>1 DEF strncpy
<1>3. ASSUME NEW k \in 0 .. (n - 1) PROVE StrncpyByte(m, q, k) \in 0 .. 255
  <2>1. q + k \in 0 .. (S - 1)
    BY <1>0
  <2> QED
    BY <1>0, <2>1 DEF StrncpyByte, NUL
<1>4. Mem(r, S)
  <2>1. ASSUME NEW a \in 0 .. (S - 1) PROVE r[a] \in 0 .. 255
    <3>1. CASE a \in p .. (p + n - 1)
      <4>1. PICK k : k = a - p
        OBVIOUS
      <4>2. k \in 0 .. (n - 1)
        BY <1>0, <3>1, <4>1
      <4> QED
        BY <1>2, <1>3, <3>1, <4>1, <4>2
    <3>2. CASE a \notin p .. (p + n - 1)
      BY <1>0, <1>2, <3>2
    <3> QED
      BY <3>1, <3>2
  <2> QED
    <3>1. Bytewise(r, S)
      BY <1>2 DEF Bytewise
    <3> QED
      BY <2>1, <3>1, MemMade
<1>5. ASSUME NEW j \in 0 .. (n - 1) PROVE r[p + j] = StrncpyByte(m, q, j)
  <2>1. p + j \in 0 .. (S - 1) /\ p + j \in p .. (p + n - 1) /\ (p + j) - p = j
    BY <1>0
  <2> QED
    BY <1>2, <2>1
<1>6. ASSUME NEW j \in 0 .. (l - 1) PROVE r[p + j] = m[q + j] /\ m[q + j] # 0
  <2>1. j \in 0 .. (n - 1)
    BY <1>0
  <2>2. ASSUME NEW b \in q .. (q + j) PROVE m[b] # 0
    <3>1. PICK i : i = b - q
      OBVIOUS
    <3>2. i \in 0 .. (l - 1) /\ q + i = b
      BY <1>0, <3>1
    <3> QED
      BY <3>2 DEF TextAt
  <2>3. StrncpyByte(m, q, j) = m[q + j]
    BY <2>2 DEF StrncpyByte, NUL
  <2>4. m[q + j] # 0
    BY DEF TextAt
  <2> QED
    BY <1>5, <2>1, <2>3, <2>4
<1>7. r[p + l] = 0
  <2>1. l \in 0 .. (n - 1) /\ q + l \in q .. (q + l) /\ m[q + l] = 0
    BY <1>0 DEF TextAt
  <2>2. StrncpyByte(m, q, l) = 0
    BY <2>1 DEF StrncpyByte, NUL
  <2> QED
    BY <1>5, <2>1, <2>2
<1>8. TextAt(r, S, p, l)
  <2>1. p + l < S
    BY <1>0
  <2> QED
    BY <1>0, <1>6, <1>7, <2>1 DEF TextAt
<1>9. Reads(Text(r, p), l, r, p)
  BY <1>4, <1>8, TextReads
<1>10. Reads(Text(m, q), l, m, q)
  BY TextReads
<1>11. \A j \in 0 .. (l - 1) : r[p + j] = m[q + j]
  BY <1>6
<1> QED
  BY <1>1, <1>9, <1>10, <1>11, SameText

\* strcat puts the second text behind the first.
LEMMA Strcat ==
  ASSUME NEW m, NEW S, Mem(m, S), NEW p \in 0 .. (S - 1), NEW q \in 0 .. (S - 1),
         NEW k, TextAt(m, S, p, k), NEW l, TextAt(m, S, q, l),
         p + (k + l + 1) <= S
  PROVE  Text(strcat(m, p, q), p) = Text(m, p) \o Text(m, q)
<1>0. S \in Nat /\ p \in Nat /\ q \in Nat /\ k \in Nat /\ l \in Nat /\ q + l < S
  BY DEF Mem, TextAt
<1>1. strlen(m, p) = k /\ strlen(m, q) = l
  BY LengthIs
<1>2. PICK r, dst, n : r = strcat(m, p, q) /\ dst = p + k /\ n = l + 1
  OBVIOUS
<1>3. r = Store(m, dst, q, n)
  BY <1>1, <1>2 DEF strcat, strcpy
<1>4. dst \in Nat /\ n \in Nat /\ q + n <= S /\ dst + n <= S
  BY <1>0, <1>2
<1>5. Stored(r, m, S, dst, q, n)
  BY <1>0, <1>3, <1>4, StoreIs
<1>6. Mem(r, S)
  BY <1>5 DEF Stored
<1>7. ASSUME NEW j \in 0 .. (k - 1) PROVE r[p + j] = m[p + j]
  <2>1. p + j \in 0 .. (S - 1) /\ ~(dst <= p + j /\ p + j < dst + n)
    BY <1>0, <1>2, <1>4
  <2> QED
    BY <1>5, <2>1 DEF Stored
<1>8. ASSUME NEW j \in 0 .. l PROVE r[p + (k + j)] = m[q + j]
  <2>1. j \in 0 .. (n - 1) /\ dst + j < S /\ p + (k + j) = dst + j
    BY <1>0, <1>2, <1>4
  <2> QED
    BY <1>5, <2>1 DEF Stored
<1>9. TextAt(r, S, p, k + l)
  <2>1. k + l \in Nat /\ p + (k + l) < S
    BY <1>0
  <2>2. r[p + (k + l)] = 0
    <3>1. l \in 0 .. l /\ m[q + l] = 0
      BY <1>0 DEF TextAt
    <3> QED
      BY <1>8, <3>1
  <2>3. ASSUME NEW j \in 0 .. ((k + l) - 1) PROVE r[p + j] # 0
    <3>1. CASE j < k
      <4>1. j \in 0 .. (k - 1)
        BY <1>0, <3>1
      <4> QED
        BY <1>7, <4>1 DEF TextAt
    <3>2. CASE j >= k
      <4>1. PICK i : i = j - k
        OBVIOUS
      <4>2. i \in 0 .. (l - 1) /\ i \in 0 .. l /\ k + i = j
        BY <1>0, <3>2, <4>1
      <4>3. m[q + i] # 0
        BY <4>2 DEF TextAt
      <4> QED
        BY <1>8, <4>2, <4>3
    <3> QED
      BY <1>0, <3>1, <3>2
  <2> QED
    BY <2>1, <2>2, <2>3 DEF TextAt
<1>10. PICK s, t, u : s = Text(m, p) /\ t = Text(m, q) /\ u = Text(r, p)
  OBVIOUS
<1>11. Reads(s, k, m, p) /\ Reads(t, l, m, q)
  BY <1>10, TextReads
<1>12. Reads(u, k + l, r, p)
  BY <1>6, <1>9, <1>10, TextReads
<1>13. /\ s \in Seq(Nat) /\ Len(s) = k /\ t \in Seq(Nat) /\ Len(t) = l
       /\ u \in Seq(Nat) /\ Len(u) = k + l
  BY <1>11, <1>12 DEF Reads
<1>14. ASSUME NEW i \in 1 .. (k + l) PROVE u[i] = (s \o t)[i]
  <2>1. PICK j : j = i - 1
    OBVIOUS
  <2>2. j \in Nat /\ u[i] = r[p + j]
    BY <1>0, <1>12, <2>1 DEF Reads
  <2>3. CASE i <= k
    <3>1. j \in 0 .. (k - 1) /\ i \in 1 .. k
      BY <1>0, <2>1, <2>3
    <3>2. s[i] = m[p + j]
      BY <1>11, <2>1, <3>1 DEF Reads
    <3>3. (s \o t)[i] = s[i]
      BY <1>0, <1>13, <3>1
    <3> QED
      BY <1>7, <2>2, <3>1, <3>2, <3>3
  <2>4. CASE i > k
    <3>1. PICK c, d : c = i - k /\ d = c - 1
      OBVIOUS
    <3>2. c \in 1 .. l /\ d \in 0 .. l /\ k + d = j
      BY <1>0, <2>1, <2>4, <3>1
    <3>3. t[c] = m[q + d]
      BY <1>11, <3>1, <3>2 DEF Reads
    <3>4. (s \o t)[i] = t[c]
      <4>1. i \in 1 .. (Len(s) + Len(t)) /\ ~(i <= Len(s)) /\ c = i - Len(s)
        BY <1>0, <1>13, <2>4, <3>1
      <4> QED
        BY <1>13, <4>1, ConcatProperties
    <3> QED
      BY <1>8, <2>2, <3>2, <3>3, <3>4
  <2>5. i \in Int /\ k \in Int
    BY <1>0
  <2>6. i <= k \/ i > k
    BY <2>5
  <2> QED
    BY <2>3, <2>4, <2>6
<1>15. s \o t \in Seq(Nat) /\ Len(s \o t) = k + l
  BY <1>13
<1>16. u = s \o t
  <2>1. PICK v : v = s \o t
    OBVIOUS
  <2>2. v \in Seq(Nat) /\ Len(v) = Len(u)
    BY <1>13, <1>15, <2>1
  <2>3. \A i \in 1 .. Len(u) : u[i] = v[i]
    BY <1>13, <1>14, <2>1
  <2>4. u = v
    BY <1>13, <2>2, <2>3, SeqEqual
  <2> QED
    BY <2>1, <2>4
<1> QED
  BY <1>2, <1>10, <1>16

\* The order of two texts is that of the first characters that differ, the
\* end of a text coming before every character.
CharAt(s, k) == IF k < Len(s) THEN s[k + 1] ELSE 0

Before(u, v) ==
  \E k \in 0 .. Len(u) :
    /\ k < Len(v)
    /\ \A i \in 1 .. k : u[i] = v[i]
    /\ k = Len(u) \/ u[k + 1] < v[k + 1]

\* s and t agree on k characters, and then come to x and y.
Differ(s, t, k, x, y) ==
  /\ s \in Seq(Nat) /\ \A i \in 1 .. Len(s) : s[i] # 0
  /\ t \in Seq(Nat) /\ \A i \in 1 .. Len(t) : t[i] # 0
  /\ k \in Nat /\ k <= Len(s) /\ k <= Len(t) /\ \A i \in 1 .. k : s[i] = t[i]
  /\ x = CharAt(s, k) /\ y = CharAt(t, k) /\ (x # y \/ x = 0)

LEMMA OrderAt ==
  ASSUME NEW s, NEW t, NEW k, NEW x, NEW y, Differ(s, t, k, x, y)
  PROVE  Order(s, t) = Sign(x - y)
<1> USE DEF Differ
<1>0. x \in Nat /\ y \in Nat /\ Len(s) \in Nat /\ Len(t) \in Nat
  BY DEF CharAt
<1>1. Order(s, t) = IF s = t THEN 0 ELSE IF Before(s, t) THEN -1 ELSE 1
  BY Zenon DEF Order, Before
<1>2. CASE x = y
  <2>1. x = 0 /\ y = 0
    BY <1>2
  <2>2. Len(s) = k /\ Len(t) = k
    <3>1. ~(k < Len(s))
      <4>1. k < Len(s) => k + 1 \in 1 .. Len(s)
        BY <1>0
      <4> QED
        BY <2>1, <4>1 DEF CharAt
    <3>2. ~(k < Len(t))
      <4>1. k < Len(t) => k + 1 \in 1 .. Len(t)
        BY <1>0
      <4> QED
        BY <2>1, <4>1 DEF CharAt
    <3> QED
      BY <1>0, <3>1, <3>2
  <2>3. s = t
    <3>1. s \in [1 .. k -> Nat] /\ t \in [1 .. k -> Nat]
      BY <2>2
    <3> QED
      BY <3>1
  <2>4. Sign(x - y) = 0
    BY <2>1 DEF Sign
  <2> QED
    BY <1>1, <2>3, <2>4
<1>3. CASE x < y
  <2>1. k < Len(t) /\ y = t[k + 1]
    BY <1>0, <1>3 DEF CharAt
  <2>2. k = Len(s) \/ s[k + 1] < t[k + 1]
    BY <1>0, <1>3, <2>1 DEF CharAt
  <2>3. Before(s, t)
    <3>1. k \in 0 .. Len(s)
      BY <1>0
    <3> QED
      BY <2>1, <2>2, <3>1 DEF Before
  <2>4. s # t
    BY <1>0, <1>3 DEF CharAt
  <2>5. Sign(x - y) = -1
    BY <1>0, <1>3 DEF Sign
  <2> QED
    BY <1>1, <2>3, <2>4, <2>5
<1>4. CASE x > y
  <2>1. k < Len(s) /\ x = s[k + 1]
    BY <1>0, <1>4 DEF CharAt
  <2>2. s # t
    BY <1>0, <1>4 DEF CharAt
  <2>3. ~Before(s, t)
    <3>1. SUFFICES ASSUME NEW j \in 0 .. Len(s), j < Len(t), \A i \in 1 .. j : s[i] = t[i],
                          j = Len(s) \/ s[j + 1] < t[j + 1]
                   PROVE  FALSE
      BY DEF Before
    <3>2. CASE j < k
      <4>1. j + 1 \in 1 .. k /\ j # Len(s)
        BY <1>0, <2>1, <3>2
      <4>2. s[j + 1] = t[j + 1] /\ s[j + 1] \in Nat
        BY <4>1
      <4> QED
        BY <3>1, <4>1, <4>2
    <3>3. CASE j = k
      <4>1. y = t[k + 1]
        BY <3>1, <3>3 DEF CharAt
      <4> QED
        BY <1>0, <1>4, <2>1, <3>1, <3>3, <4>1
    <3>4. CASE j > k
      <4>1. k + 1 \in 1 .. j /\ k < Len(t)
        BY <1>0, <3>1, <3>4
      <4>2. s[k + 1] = t[k + 1] /\ y = t[k + 1]
        BY <3>1, <4>1 DEF CharAt
      <4> QED
        BY <1>0, <1>4, <2>1, <4>2
    <3> QED
      BY <1>0, <3>2, <3>3, <3>4
  <2>4. Sign(x - y) = 1
    BY <1>0, <1>4 DEF Sign
  <2> QED
    BY <1>1, <2>2, <2>3, <2>4
<1> QED
  BY <1>0, <1>2, <1>3, <1>4

\* Character k of the first n of a text, its '\0' included.
CharIs(m, S, p, l, n, u, s, k) == k <= Len(s) /\ CharAt(s, k) = m[p + k]

LEMMA CharOf ==
  ASSUME NEW m, NEW S, NEW p \in Nat, NEW l, TextAt(m, S, p, l), NEW n \in Nat, NEW u,
         u = (IF n < l THEN n ELSE l), NEW s, Reads(s, u, m, p), NEW k \in Nat, k <= l, k < n
  PROVE  CharIs(m, S, p, l, n, u, s, k)
<1> USE DEF CharIs
<1>0. l \in Nat /\ m[p + l] = 0 /\ Len(s) = u /\ u \in Nat
      /\ \A i \in 1 .. u : s[i] = m[p + (i - 1)]
  BY DEF TextAt, Reads
<1>1. k <= u
  BY <1>0
<1>2. CASE k < u
  <2>1. k + 1 \in 1 .. u /\ (k + 1) - 1 = k
    BY <1>0, <1>2
  <2>2. s[k + 1] = m[p + k]
    BY <1>0, <2>1
  <2> QED
    BY <1>0, <1>1, <1>2, <2>2 DEF CharAt
<1>3. CASE ~(k < u)
  <2>1. k = l
    BY <1>0, <1>1, <1>3
  <2> QED
    BY <1>0, <1>1, <1>3, <2>1 DEF CharAt
<1> QED
  BY <1>2, <1>3

\* The places at which the loops of strcmp and strncmp may stop.
LEMMA StopAtEnd ==
  ASSUME NEW m, NEW S, NEW p \in Nat, NEW q \in Nat, NEW k, TextAt(m, S, p, k),
         NEW l, TextAt(m, S, q, l), NEW e, e = (IF k < l THEN k ELSE l)
  PROVE  e \in Nat /\ (m[p + e] = 0 \/ m[p + e] # m[q + e])
<1>1. k \in Nat /\ l \in Nat /\ m[p + k] = 0 /\ m[q + l] = 0
      /\ \A j \in 0 .. (k - 1) : m[p + j] # 0
  BY DEF TextAt
<1>2. CASE k <= l
  <2>1. e = k
    BY <1>1, <1>2
  <2> QED
    BY <1>1, <2>1
<1>3. CASE k > l
  <2>1. e = l /\ l \in 0 .. (k - 1)
    BY <1>1, <1>3
  <2> QED
    BY <1>1, <2>1
<1> QED
  BY <1>1, <1>2, <1>3

\* The first n characters of two texts are ordered as their first difference.
Compared(m, S, p, q, k, l, n, reach, lim, ks) ==
  /\ Order(Upto(Text(m, p), n), Upto(Text(m, q), n)) =
       IF ks = {} THEN 0 ELSE Sign(Difference(m, p, q, ks))
  /\ n >= reach => ks # {}

LEMMA ComparesTexts ==
  ASSUME NEW m, NEW S, Mem(m, S), NEW p \in 0 .. (S - 1), NEW q \in 0 .. (S - 1),
         NEW k, TextAt(m, S, p, k), NEW l, TextAt(m, S, q, l), NEW n \in Nat,
         NEW reach, reach = 1 + (IF k < l THEN k ELSE l),
         NEW lim, lim = (IF n < reach THEN n ELSE reach), NEW ks, ks = Stops(m, p, q, lim)
  PROVE  Compared(m, S, p, q, k, l, n, reach, lim, ks)
<1>0. p \in Nat /\ q \in Nat /\ k \in Nat /\ l \in Nat /\ S \in Nat
      /\ p + k < S /\ q + l < S
  BY DEF Mem, TextAt
<1>1. PICK e : e = IF k < l THEN k ELSE l
  OBVIOUS
<1>2. e \in Nat /\ (m[p + e] = 0 \/ m[p + e] # m[q + e])
  BY <1>0, <1>1, StopAtEnd
<1>3. reach = 1 + e /\ lim \in Nat /\ lim <= n /\ lim <= reach /\ e <= k /\ e <= l
  BY <1>0, <1>1, <1>2
<1>4. \A j : j \in ks <=> j \in 0 .. (lim - 1) /\ (m[p + j] = 0 \/ m[p + j] # m[q + j])
  BY DEF Stops, NUL
<1>5. n >= reach => e \in ks
  <2>1. n >= reach => e \in 0 .. (lim - 1)
    BY <1>2, <1>3
  <2> QED
    BY <1>2, <1>4, <2>1
<1>6. PICK s, t, u, v : /\ s = Upto(Text(m, p), n) /\ t = Upto(Text(m, q), n)
                        /\ u = (IF n < k THEN n ELSE k) /\ v = (IF n < l THEN n ELSE l)
  OBVIOUS
<1>7. Reads(s, u, m, p) /\ Reads(t, v, m, q)
  <2>1. Reads(Text(m, p), k, m, p) /\ Reads(Text(m, q), l, m, q)
    BY TextReads
  <2> QED
    BY <1>6, <2>1, UptoReads
<1>8. /\ s \in Seq(Nat) /\ t \in Seq(Nat) /\ Len(s) = u /\ Len(t) = v
      /\ \A i \in 1 .. Len(s) : s[i] # 0
      /\ \A i \in 1 .. Len(t) : t[i] # 0
      /\ \A i \in 1 .. u : s[i] = m[p + (i - 1)]
      /\ \A i \in 1 .. v : t[i] = m[q + (i - 1)]
  BY <1>7 DEF Reads
\* Up to a place before which nothing stops, the characters are the same.
<1>9. ASSUME NEW c \in Nat, c <= u, c <= v, c <= lim,
             \A j \in 0 .. (c - 1) : j \notin ks, NEW i \in 1 .. c
      PROVE  s[i] = t[i]
  <2>1. PICK j : j = i - 1
    OBVIOUS
  <2>2. j \in 0 .. (c - 1) /\ j \in 0 .. (lim - 1) /\ i \in 1 .. u /\ i \in 1 .. v
    BY <1>0, <1>3, <1>6, <1>9, <2>1
  <2>3. m[p + j] = m[q + j]
    BY <1>4, <1>9, <2>2
  <2> QED
    BY <1>8, <2>1, <2>2, <2>3
<1>10. ASSUME ks # {}
       PROVE  Order(s, t) = Sign(Difference(m, p, q, ks))
  <2>1. ks \in SUBSET Nat
    BY <1>4
  <2>2. PICK c \in ks : /\ \A j \in ks : c <= j
                        /\ Difference(m, p, q, ks) = m[p + c] - m[q + c]
    BY <1>10, <2>1, LeastDifference
  <2>3. c \in Nat /\ c <= e /\ c < n /\ c <= lim /\ c <= k /\ c <= l
        /\ (m[p + c] = 0 \/ m[p + c] # m[q + c])
    <3>1. c \in 0 .. (lim - 1)
      BY <1>4
    <3>2. c \in Nat /\ c <= e /\ c < n /\ c <= lim /\ c <= k /\ c <= l
      BY <1>0, <1>2, <1>3, <3>1
    <3> QED
      BY <1>4, <3>2
  <2>4. c <= Len(s) /\ CharAt(s, c) = m[p + c]
    <3>1. CharIs(m, S, p, k, n, u, s, c)
      BY <1>0, <1>6, <1>7, <2>3, CharOf
    <3> QED
      BY <3>1 DEF CharIs
  <2>5. c <= Len(t) /\ CharAt(t, c) = m[q + c]
    <3>1. CharIs(m, S, q, l, n, v, t, c)
      BY <1>0, <1>6, <1>7, <2>3, CharOf
    <3> QED
      BY <3>1 DEF CharIs
  <2>6. \A i \in 1 .. c : s[i] = t[i]
    <3>1. \A j \in 0 .. (c - 1) : j \notin ks
      BY <2>2, <2>3
    <3> QED
      BY <1>8, <1>9, <2>3, <2>4, <2>5, <3>1
  <2>7. PICK x, y : x = m[p + c] /\ y = m[q + c]
    OBVIOUS
  <2>8. Order(s, t) = Sign(x - y)
    <3>1. Differ(s, t, c, x, y)
      BY <1>8, <2>3, <2>4, <2>5, <2>6, <2>7 DEF Differ
    <3> QED
      BY <3>1, OrderAt
  <2> QED
    BY <2>2, <2>7, <2>8
<1>11. ASSUME ks = {}
       PROVE  Order(s, t) = 0
  <2>1. n < reach
    BY <1>3, <1>5, <1>11
  <2>2. lim = n /\ u = n /\ v = n
    BY <1>0, <1>3, <1>6, <2>1
  <2>3. CharAt(s, n) = 0 /\ CharAt(t, n) = 0
    BY <1>8, <2>2 DEF CharAt
  <2>4. \A i \in 1 .. n : s[i] = t[i]
    BY <1>9, <1>11, <2>2
  <2>5. n <= Len(s) /\ n <= Len(t)
    BY <1>8, <2>2
  <2>6. Order(s, t) = Sign(0 - 0)
    <3>1. Differ(s, t, n, 0, 0)
      BY <1>8, <2>3, <2>4, <2>5 DEF Differ
    <3> QED
      BY <3>1, OrderAt
  <2> QED
    BY <2>6 DEF Sign
<1> QED
  BY <1>5, <1>6, <1>10, <1>11 DEF Compared

LEMMA Strncmp ==
  ASSUME NEW m, NEW S, Mem(m, S), NEW p \in 0 .. (S - 1), NEW q \in 0 .. (S - 1),
         NEW k, TextAt(m, S, p, k), NEW l, TextAt(m, S, q, l), NEW n \in Nat
  PROVE  Sign(strncmp(m, p, q, n)) = Order(Upto(Text(m, p), n), Upto(Text(m, q), n))
<1>1. strlen(m, p) = k /\ strlen(m, q) = l
  BY LengthIs
<1>2. PICK reach : reach = 1 + (IF k < l THEN k ELSE l)
  OBVIOUS
<1>3. PICK lim : lim = IF n < reach THEN n ELSE reach
  OBVIOUS
<1>4. PICK ks : ks = Stops(m, p, q, lim)
  OBVIOUS
<1>5. Reach(m, p, q) = reach
  BY <1>1, <1>2 DEF Reach
<1>6. strncmp(m, p, q, n) = IF ks = {} THEN 0 ELSE Difference(m, p, q, ks)
  BY <1>3, <1>4, <1>5 DEF strncmp
<1>7. Order(Upto(Text(m, p), n), Upto(Text(m, q), n)) =
        IF ks = {} THEN 0 ELSE Sign(Difference(m, p, q, ks))
  <2>1. Compared(m, S, p, q, k, l, n, reach, lim, ks)
    BY <1>2, <1>3, <1>4, ComparesTexts
  <2> QED
    BY <2>1 DEF Compared
<1>8. Sign(0) = 0
  BY DEF Sign
<1> QED
  BY <1>6, <1>7, <1>8

LEMMA Strcmp ==
  ASSUME NEW m, NEW S, Mem(m, S), NEW p \in 0 .. (S - 1), NEW q \in 0 .. (S - 1),
         NEW k, TextAt(m, S, p, k), NEW l, TextAt(m, S, q, l)
  PROVE  Sign(strcmp(m, p, q)) = Order(Text(m, p), Text(m, q))
<1>0. k \in Nat /\ l \in Nat
  BY DEF TextAt
<1>1. strlen(m, p) = k /\ strlen(m, q) = l
  BY LengthIs
<1>2. PICK reach, n : reach = 1 + (IF k < l THEN k ELSE l) /\ n = k + l + 1
  OBVIOUS
<1>3. n \in Nat /\ n >= reach /\ n >= k /\ n >= l /\ reach \in Nat
  BY <1>0, <1>2
<1>4. reach = IF n < reach THEN n ELSE reach
  BY <1>3
<1>5. PICK ks : ks = Stops(m, p, q, reach)
  OBVIOUS
<1>6. strcmp(m, p, q) = Difference(m, p, q, ks)
  BY <1>1, <1>2, <1>5 DEF strcmp, Reach
<1>7. /\ Order(Upto(Text(m, p), n), Upto(Text(m, q), n)) =
           IF ks = {} THEN 0 ELSE Sign(Difference(m, p, q, ks))
      /\ n >= reach => ks # {}
  <2>1. Compared(m, S, p, q, k, l, n, reach, reach, ks)
    BY <1>2, <1>3, <1>4, <1>5, ComparesTexts
  <2> QED
    BY <2>1 DEF Compared
<1>8. ASSUME NEW s, NEW c, NEW a, Reads(s, c, m, a), c <= n PROVE Upto(s, n) = s
  <2>1. s \in Seq(Nat) /\ Len(s) = c /\ c \in Nat
    BY <1>8 DEF Reads
  <2>2. Upto(s, n) = SubSeq(s, 1, Len(s))
    BY <1>3, <1>8, <2>1 DEF Upto
  <2> QED
    BY <2>1, <2>2, SubSeqFull
<1>9. Reads(Text(m, p), k, m, p) /\ Reads(Text(m, q), l, m, q)
  BY TextReads
<1>10. Upto(Text(m, p), n) = Text(m, p) /\ Upto(Text(m, q), n) = Text(m, q)
  BY <1>0, <1>3, <1>8, <1>9
<1> QED
  BY <1>3, <1>6, <1>7, <1>10
-----------------------------------------------------------------------------
(***************************************************************************)
(* The contents of the file, in the memory of a program.                   *)
(***************************************************************************)
LEMMA MovesRight ==
  ASSUME NEW m, NEW S, Mem(m, S)
  PROVE  MovesCorrectly(m)
<1>1. S \in Nat /\ Bytewise(m, S) /\ DOMAIN m = 0 .. (S - 1)
  BY DEF Mem
<1>2. ASSUME NEW dst \in DOMAIN m, NEW src \in DOMAIN m, NEW n \in 0 .. Above(m, 0),
             dst + n - 1 \in DOMAIN m /\ src + n - 1 \in DOMAIN m
      PROVE  /\ memmove(m, dst, src, n) = Store(m, dst, src, n)
             /\ memset(m, dst, 1, n) = [a \in DOMAIN m |->
                  IF a >= dst /\ a < dst + n THEN 1 ELSE m[a]]
  <2>1. dst \in Nat /\ src \in Nat /\ n \in Nat /\ dst + n <= S /\ src + n <= S
    <3>1. 0 \in 0 .. (S - 1)
      BY <1>1
    <3>2. Above(m, 0) = S - 0
      BY <3>1, AboveIs
    <3>3. n \in Nat
      BY <1>1, <3>2
    <3> QED
      BY <1>1, <1>2, <3>3
  <2>2. memmove(m, dst, src, n) = Store(m, dst, src, n)
    BY <1>1, <2>1, MemmoveStores
  <2>3. memset(m, dst, 1, n) =
          [a \in DOMAIN m |-> IF a >= dst /\ a < dst + n THEN 1 ELSE m[a]]
    BY <1>1, <2>1, MemsetFills
  <2> QED
    BY <2>2, <2>3, Zenon
<1> QED
  BY <1>2, Zenon DEF MovesCorrectly

\* The file's contents in memory.
LEMMA ContentsTyped ==
  ASSUME TypeOK
  PROVE  Mem(Contents, FileSize)
<1>1. FileSize \in Nat
  BY Sizes
<1>2. Bytewise(Contents, FileSize) /\ DOMAIN Contents = 0 .. (FileSize - 1)
  BY DEF Contents, Bytewise
<1>3. ASSUME NEW q \in 0 .. (FileSize - 1) PROVE FileByte(disk, q) \in Byte
  <2>1. q \in Nat /\ q < FileSize
    BY <1>1
  <2>2. BLOCK \in Nat \ {0}
    BY Sizes
  <2>3. PICK c, k \in Nat : c = q \div BLOCK /\ k = q % BLOCK /\ k < BLOCK
                            /\ q = c * BLOCK + k
    BY <2>1, <2>2, Parted
  <2>4. c \in 0 .. (NBlocks - 1)
    BY <2>1, <2>3, FileBlocks
  <2>5. c + 1 \in 0 .. NBlocks /\ k \in 0 .. (BLOCK - 1)
    <3>1. k < BLOCK
      BY <2>3
    <3> QED
      BY <2>2, <2>4, <3>1, Sizes
  <2>6. disk \in Disks
    BY TypedFile
  <2>7. disk[c + 1][k] \in Byte
    BY <2>5, <2>6 DEF Disks, Blocks
  <2> QED
    BY <2>3, <2>7 DEF FileByte
<1>4. Byte \subseteq 0 .. 255
  BY IOAssumption DEF Byte, NUL
<1>5. \A q \in 0 .. (FileSize - 1) : Contents[q] \in 0 .. 255
  BY <1>3, <1>4 DEF Contents
<1> QED
  BY <1>1, <1>2, <1>5 DEF Mem

\* memmove (lib/string.c) stores what the source held before the call,
\* whatever the alignment and the overlap, and memset fills exactly its bytes.
THEOREM MovesAreCorrect == Spec => []MovesCorrect
<1>1. TypeOK => MovesCorrect
  <2>1. SUFFICES ASSUME TypeOK PROVE MovesCorrectly(Contents)
    BY DEF MovesCorrect
  <2> QED
    BY <2>1, ContentsTyped, MovesRight
<1> QED
  BY <1>1, FileTyped, PTL

\* What the routines promise of the texts at p and q.
EachHandled(m, S, p, q, k, l, n) ==
  /\ Sign(strncmp(m, p, q, n)) = Order(Upto(Text(m, p), n), Upto(Text(m, q), n))
  /\ Apart(m, p, q, n) /\ n > 0 =>
       LET r == strlcpy(m, p, q, n)
       IN  Text(r.m, p) = Upto(Text(m, q), n - 1) /\ r.len = Len(Text(r.m, p))
  /\ Apart(m, p, q, n) =>
       /\ (memcmp(m, p, q, n) = 0) <=>
            (\A j \in 0 .. (n - 1) : m[p + j] = m[q + j])
       /\ n > l => Text(strncpy(m, p, q, n), p) = Text(m, q)

LEMMA EachText ==
  ASSUME NEW m, NEW S, Mem(m, S), NEW p \in 0 .. (S - 1), NEW q \in 0 .. (S - 1),
         NEW k, TextAt(m, S, p, k), NEW l, TextAt(m, S, q, l), NEW n \in Nat
  PROVE  EachHandled(m, S, p, q, k, l, n)
<1>0. S \in Nat /\ DOMAIN m = 0 .. (S - 1) /\ p \in Nat /\ q \in Nat /\ l \in Nat
  BY DEF Mem, TextAt
<1>1. ASSUME Apart(m, p, q, n) PROVE p + n <= S /\ q + n <= S
  <2>1. CASE n = 0
    BY <1>0, <2>1
  <2>2. CASE n > 0
    <3>1. p + n - 1 \in p .. (p + n - 1) /\ q + n - 1 \in q .. (q + n - 1)
      BY <1>0, <2>2
    <3>2. p + n - 1 \in DOMAIN m /\ q + n - 1 \in DOMAIN m
      BY <1>1, <3>1 DEF Apart
    <3> QED
      BY <1>0, <3>2
  <2> QED
    BY <2>1, <2>2
<1>2. Sign(strncmp(m, p, q, n)) = Order(Upto(Text(m, p), n), Upto(Text(m, q), n))
  BY Strncmp
<1>3. ASSUME Apart(m, p, q, n), n > 0
      PROVE  LET r == strlcpy(m, p, q, n)
             IN  Text(r.m, p) = Upto(Text(m, q), n - 1) /\ r.len = Len(Text(r.m, p))
  <2>1. n \in Nat \ {0}
    BY <1>3
  <2> QED
    BY <1>1, <1>3, <2>1, Strlcpy
<1>4. ASSUME Apart(m, p, q, n)
      PROVE  (memcmp(m, p, q, n) = 0) <=> (\A j \in 0 .. (n - 1) : m[p + j] = m[q + j])
  <2>1. MemcmpRight(m, S, p, q, n)
    BY <1>0, <1>1, <1>4, Memcmp
  <2> QED
    BY <2>1, Zenon DEF MemcmpRight
<1>5. ASSUME Apart(m, p, q, n), n > l
      PROVE  Text(strncpy(m, p, q, n), p) = Text(m, q)
  BY <1>1, <1>5, Strncpy
<1> QED
  BY <1>2, <1>3, <1>4, <1>5, Zenon DEF EachHandled

LEMMA TextsRight ==
  ASSUME NEW m, NEW S, Mem(m, S)
  PROVE  TextsHandled(m)
<1>0. S \in Nat /\ DOMAIN m = 0 .. (S - 1)
  BY DEF Mem
<1>1. ASSUME NEW p \in DOMAIN m, NEW q \in DOMAIN m, Terminated(m, p) /\ Terminated(m, q),
             NEW s, NEW t, NEW ls, NEW lt, s = Text(m, p), t = Text(m, q),
             ls = Len(s), lt = Len(t)
      PROVE  /\ Sign(strcmp(m, p, q)) = Order(s, t)
             /\ \A n \in 0 .. Above(m, 0) :
                  /\ Sign(strncmp(m, p, q, n)) = Order(Upto(s, n), Upto(t, n))
                  /\ Apart(m, p, q, n) /\ n > 0 =>
                       LET r == strlcpy(m, p, q, n)
                       IN  Text(r.m, p) = Upto(t, n - 1) /\ r.len = Len(Text(r.m, p))
                  /\ Apart(m, p, q, n) =>
                       /\ (memcmp(m, p, q, n) = 0) <=>
                            (\A k \in 0 .. (n - 1) : m[p + k] = m[q + k])
                       /\ n > lt => Text(strncpy(m, p, q, n), p) = t
             /\ Apart(m, p, q, ls + lt + 1) => Text(strcat(m, p, q), p) = s \o t
             /\ (strchr(m, p, 1) = -1) <=> (\A i \in 1 .. ls : s[i] # 1)
             /\ strchr(m, p, 1) \in {-1, strfind(m, p, 1)}
  <2>1. PICK k, l : k = strlen(m, p) /\ l = strlen(m, q)
    OBVIOUS
  <2>2. p \in 0 .. (S - 1) /\ q \in 0 .. (S - 1)
    BY <1>0
  <2>3. TextAt(m, S, p, k) /\ TextAt(m, S, q, l)
    BY <1>1, <2>1, <2>2, TextFound
  <2>4. ls = k /\ lt = l /\ k \in Nat /\ l \in Nat
    <3>1. Reads(s, k, m, p) /\ Reads(t, l, m, q)
      BY <1>1, <2>2, <2>3, TextReads
    <3> QED
      BY <1>1, <3>1 DEF Reads
  <2>5. Sign(strcmp(m, p, q)) = Order(s, t)
    BY <1>1, <2>2, <2>3, Strcmp
  <2>6. ASSUME NEW n \in 0 .. Above(m, 0)
        PROVE  /\ Sign(strncmp(m, p, q, n)) = Order(Upto(s, n), Upto(t, n))
               /\ Apart(m, p, q, n) /\ n > 0 =>
                    LET r == strlcpy(m, p, q, n)
                    IN  Text(r.m, p) = Upto(t, n - 1) /\ r.len = Len(Text(r.m, p))
               /\ Apart(m, p, q, n) =>
                    /\ (memcmp(m, p, q, n) = 0) <=>
                         (\A j \in 0 .. (n - 1) : m[p + j] = m[q + j])
                    /\ n > lt => Text(strncpy(m, p, q, n), p) = t
    <3>1. 0 \in 0 .. (S - 1)
      BY <1>0, <2>2
    <3>2. Above(m, 0) = S - 0
      BY <3>1, AboveIs
    <3>3. n \in Nat
      BY <1>0, <3>2
    <3> QED
      <4>1. EachHandled(m, S, p, q, k, l, n)
        BY <2>2, <2>3, <3>3, EachText
      <4> QED
        BY <1>1, <2>4, <4>1, Zenon DEF EachHandled
  <2>7. ASSUME Apart(m, p, q, ls + lt + 1)
        PROVE  Text(strcat(m, p, q), p) = s \o t
    <3>1. PICK n : n = k + l + 1
      OBVIOUS
    <3>2. n \in Nat \ {0} /\ Apart(m, p, q, n)
      BY <2>4, <2>7, <3>1
    <3>3. p + n - 1 \in p .. (p + n - 1)
      BY <2>2, <3>2
    <3>4. p + n - 1 \in DOMAIN m
      BY <3>2, <3>3 DEF Apart
    <3>5. p + (k + l + 1) <= S
      BY <1>0, <2>2, <3>1, <3>2, <3>4
    <3> QED
      BY <1>1, <2>2, <2>3, <3>5, Strcat
  <2>8. /\ (strchr(m, p, 1) = -1) <=> (\A i \in 1 .. ls : s[i] # 1)
        /\ strchr(m, p, 1) \in {-1, strfind(m, p, 1)}
    BY <1>1, <2>2, <2>3, <2>4, Strchr
  <2> QED
    BY <2>5, <2>6, <2>7, <2>8, Zenon
<1> QED
  BY <1>1, Zenon DEF TextsHandled

\* The string routines (lib/string.c) do to the texts in memory what their
\* names say, on whatever the file came to hold.
THEOREM TextsAreHandled == Spec => []StringsCorrect
<1>1. TypeOK => StringsCorrect
  <2>1. SUFFICES ASSUME TypeOK PROVE TextsHandled(Contents)
    BY DEF StringsCorrect
  <2> QED
    BY <2>1, ContentsTyped, TextsRight
<1> QED
  BY <1>1, FileTyped, PTL
=============================================================================
