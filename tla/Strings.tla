------------------------------ MODULE Strings -------------------------------
(***************************************************************************)
(* The string routines of lib/string.c, which the kernel and the programs  *)
(* share.  Memory m is a function from addresses to bytes; a routine that  *)
(* stores returns the memory it leaves, one that searches returns what the *)
(* code returns.  Text is what stands before the first '\0'.               *)
(***************************************************************************)
EXTENDS Integers, Sequences

CONSTANT WORD   \* bytes the assembly moves at once when everything is aligned: 4

ASSUME WordAssumption == WORD \in Nat \ {0}

NUL == 0

\* The first address from s on, and at most lim bytes further, at which the
\* bytes satisfy stop; s + lim if there is none.
FirstAt(stop, s, lim) ==
  CHOOSE a \in s .. (s + lim) :
    /\ a = s + lim \/ a \in stop
    /\ \A b \in s .. (a - 1) : b \notin stop

Zeros(m) == {a \in DOMAIN m : m[a] = NUL}

\* The bytes of m up to its highest address, from s on.
Above(m, s) == (CHOOSE a \in DOMAIN m : \A b \in DOMAIN m : b <= a) + 1 - s

strnlen(m, s, size) == FirstAt(Zeros(m), s, size) - s
strlen(m, s) == strnlen(m, s, Above(m, s))

\* The text at address s.
Text(m, s) == [i \in 1 .. strlen(m, s) |-> m[s + i - 1]]

\* n bytes from src, read before any of them is stored, go to dst.
Store(m, dst, src, n) ==
  [a \in DOMAIN m |-> IF a \in dst .. (dst + n - 1) THEN m[a - dst + src] ELSE m[a]]

\* The loop goes up, so source and destination may overlap only when dst is
\* the lower one.
strcpy(m, dst, src) == Store(m, dst, src, strlen(m, src) + 1)
strcat(m, dst, src) == strcpy(m, dst + strlen(m, dst), src)

\* What position k of the destination gets from array m, copied from m[src]
\* on: src stays on a '\0', so everything behind it is '\0'.
StrncpyByte(m, src, k) ==
  IF \E j \in src .. (src + k) : m[j] = NUL THEN NUL ELSE m[src + k]

strncpy(m, dst, src, size) ==
  [a \in DOMAIN m |-> IF a \in dst .. (dst + size - 1)
                      THEN StrncpyByte(m, src, a - dst) ELSE m[a]]

\* mutant: the '\0' is left out when the text does not fit.
strlcpy_unterminated(m, dst, src, size) ==
  IF size = 0 THEN [m |-> m, len |-> 0]
  ELSE LET len == strnlen(m, src, size)
       IN  [m |-> Store(m, dst, src, len), len |-> len]

\* The new memory, and how many characters were copied.
strlcpy(m, dst, src, size) ==
  IF size = 0 THEN [m |-> m, len |-> 0]
  ELSE LET len == strnlen(m, src, size - 1)
       IN  [m |-> [Store(m, dst, src, len) EXCEPT ![dst + len] = NUL], len |-> len]

\* The loops of strcmp and strncmp end behind the shorter text at the latest.
Reach(m, p, q) == 1 + (IF strlen(m, p) < strlen(m, q) THEN strlen(m, p) ELSE strlen(m, q))

\* The positions among the first n at which p's text ends or differs from q's.
Stops(m, p, q, n) == {k \in 0 .. (n - 1) : m[p + k] = NUL \/ m[p + k] # m[q + k]}

\* The bytes at the first place of ks, counted from p and q.
Difference(m, p, q, ks) ==
  LET k == CHOOSE k \in ks : \A j \in ks : k <= j IN m[p + k] - m[q + k]

strcmp(m, p, q) == Difference(m, p, q, Stops(m, p, q, Reach(m, p, q)))

strncmp(m, p, q, n) ==
  LET ks == Stops(m, p, q, IF n < Reach(m, p, q) THEN n ELSE Reach(m, p, q))
  IN  IF ks = {} THEN 0 ELSE Difference(m, p, q, ks)

memcmp(m, p, q, n) ==
  LET ks == {k \in 0 .. (n - 1) : m[p + k] # m[q + k]}
  IN  IF ks = {} THEN 0 ELSE Difference(m, p, q, ks)

Bytes(m, c) == {a \in DOMAIN m : m[a] = c}

\* The address of c in the n bytes at s, or the one behind them.
memfind(m, s, c, n) == FirstAt(Bytes(m, c), s, n)

\* The address of c in the text at s, or that of its '\0'.
strfind(m, s, c) == memfind(m, s, c, strlen(m, s))

\* The address of c in the text at s, or -1 for the null pointer.
strchr(m, s, c) == IF strfind(m, s, c) < s + strlen(m, s) THEN strfind(m, s, c) ELSE -1

(***************************************************************************)
(* rep movsb and rep movsl: count units of w bytes, the first from si to   *)
(* di, the following ones above (step 1, after cld) or below (-1, std).    *)
(***************************************************************************)
RepMovs(m, di, si, count, w, step) ==
  LET after[i \in 0 .. count] ==
        IF i = 0 THEN m
        ELSE LET before == after[i - 1]
                 o      == step * w * (i - 1)
             IN  Store(before, di + o, si + o, w)
  IN  after[count]

\* The unit of a transfer of n bytes between addresses p and q.
Unit(p, q, n) ==
  IF p % WORD = 0 /\ q % WORD = 0 /\ n % WORD = 0 THEN WORD ELSE 1

\* mutant: the lower end of the destination inside the source is not seen.
memmove_upwards(m, dst, src, n) ==
  LET w == Unit(src, dst, n) IN RepMovs(m, dst, src, n \div w, w, 1)

\* memmove, and memcpy, which calls it: downwards if the source reaches into
\* the destination from below.
memmove(m, dst, src, n) ==
  LET down == src < dst /\ src + n > dst
      w    == IF down THEN Unit(src + n, dst + n, n) ELSE Unit(src, dst, n)
  IN  IF down THEN RepMovs(m, dst + n - w, src + n - w, n \div w, w, -1)
              ELSE RepMovs(m, dst, src, n \div w, w, 1)

\* rep stosl stores the low byte of c in each byte of a word; rep stosb stores
\* it in the n bytes.
memset(m, v, c, n) ==
  LET w == Unit(v, 0, n)
      filled == {v + w * u + k : u \in 0 .. ((n \div w) - 1), k \in 0 .. (w - 1)}
  IN  [a \in DOMAIN m |-> IF a \in filled THEN c ELSE m[a]]
-----------------------------------------------------------------------------
\* Lexicographic order of two sequences of bytes: -1, 0 or 1.
Order(s, t) ==
  LET lt(u, v) == \E k \in 0 .. Len(u) :
        /\ k < Len(v)
        /\ \A i \in 1 .. k : u[i] = v[i]
        /\ k = Len(u) \/ u[k + 1] < v[k + 1]
  IN  IF s = t THEN 0 ELSE IF lt(s, t) THEN -1 ELSE 1

Sign(x) == IF x < 0 THEN -1 ELSE IF x > 0 THEN 1 ELSE 0

\* The first n characters of s.
Upto(s, n) == SubSeq(s, 1, IF n < Len(s) THEN n ELSE Len(s))

\* There is a '\0' at s or behind it.
Terminated(m, s) == \E a \in Zeros(m) : s <= a

\* n bytes at p and at q lie in m and have no byte in common.
Apart(m, p, q, n) ==
  /\ (p .. (p + n - 1)) \cup (q .. (q + n - 1)) \subseteq DOMAIN m
  /\ p + n <= q \/ q + n <= p

\* memmove and memset, on memory m, at every alignment, length and overlap.
MovesCorrectly(m) ==
  \A dst, src \in DOMAIN m, n \in 0 .. Above(m, 0) :
    dst + n - 1 \in DOMAIN m /\ src + n - 1 \in DOMAIN m =>
      /\ memmove(m, dst, src, n) = Store(m, dst, src, n)
      /\ memset(m, dst, 1, n) = [a \in DOMAIN m |->
           IF a >= dst /\ a < dst + n THEN 1 ELSE m[a]]

\* The string routines against the sequences of characters they stand for.
TextsHandled(m) ==
  \A p, q \in DOMAIN m : Terminated(m, p) /\ Terminated(m, q) =>
    LET s  == Text(m, p)
        t  == Text(m, q)
        ls == Len(s)
        lt == Len(t)
    IN  /\ Sign(strcmp(m, p, q)) = Order(s, t)
        /\ \A n \in 0 .. Above(m, 0) :
             /\ Sign(strncmp(m, p, q, n)) = Order(Upto(s, n), Upto(t, n))
             /\ Apart(m, p, q, n) /\ n > 0 =>
                  LET r == strlcpy(m, p, q, n)
                  IN  Text(r.m, p) = Upto(t, n - 1) /\ r.len = Len(Text(r.m, p))
             /\ Apart(m, p, q, n) =>
                  /\ (memcmp(m, p, q, n) = 0) <=>
                       (\A k \in 0 .. (n - 1) : m[p + k] = m[q + k])
                  /\ n > lt => Text(strncpy(m, p, q, n), p) = t
        /\ Apart(m, p, q, ls + lt + 1) => Text(strcat(m, p, q), p) = s \o t
        /\ (strchr(m, p, 1) = -1) <=> (\A i \in 1 .. ls : s[i] # 1)
        /\ strchr(m, p, 1) \in {-1, strfind(m, p, 1)}
=============================================================================
