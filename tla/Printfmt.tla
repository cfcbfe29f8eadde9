------------------------------ MODULE Printfmt ------------------------------
(***************************************************************************)
(* lib/printfmt.c, with printk and printf, which print through it, and the *)
(* conversions itoa and strtol of lib/string.c.  A character is a string   *)
(* of length one; a text, a sequence of them.  An argument is an integer   *)
(* (its bits), a character, or a text.                                     *)
(***************************************************************************)
EXTENDS Integers, Sequences

CONSTANTS
  INT_BITS,   \* bits of int and long: 32
  LL_BITS     \* bits of long long: 64

ASSUME BitsAssumption == INT_BITS \in Nat \ {0} /\ LL_BITS \in Nat \ {0}

E_INVAL  == 3
MAXERROR == 8

\* error_string, with a message as a single character.
error_string == [e \in 1 .. 6 |->
  <<"unspecified error", "bad environment", "invalid parameter",
    "out of memory", "out of environments", "segmentation fault">>[e]]

Digit == [d \in 0 .. 15 |-> <<"0", "1", "2", "3", "4", "5", "6", "7",
                              "8", "9", "a", "b", "c", "d", "e", "f">>[d + 1]]

\* x, of w bits, as a signed number.
Signed(x, w) == IF x % 2^w >= 2^(w - 1) THEN (x % 2^w) - 2^w ELSE x % 2^w

Pad(c, n) == IF n <= 0 THEN <<>> ELSE [k \in 1 .. n |-> c]

\* mutant: a number equal to the base is taken for a digit.
printnum_short(num, base, width, padc) ==
  LET digits[n \in Nat] ==
        IF n > base THEN Append(digits[n \div base], Digit[n % base])
                    ELSE <<Digit[n % base]>>
  IN  Pad(padc, width - Len(digits[num])) \o digits[num]

\* printnum: the digits, and as many padc in front of the first as are left of
\* the width.
printnum(num, base, width, padc) ==
  LET digits[n \in Nat] ==
        IF n >= base THEN Append(digits[n \div base], Digit[n % base])
                     ELSE <<Digit[n]>>
  IN  Pad(padc, width - Len(digits[num])) \o digits[num]

getuint(arg, lflag) == arg % (IF lflag >= 2 THEN 2^LL_BITS ELSE 2^INT_BITS)
getint(arg, lflag) == Signed(arg, IF lflag >= 2 THEN LL_BITS ELSE INT_BITS)

\* The characters that '#' replaces.
Unprintable == {"\t", "\n"}

(***************************************************************************)
(* What vprintfmt knows while it goes over the format: the text put so     *)
(* far, the next argument, the escape being read (empty outside of one)    *)
(* with its fields, and whether it is in the loop over a number's digits.  *)
(***************************************************************************)
Outside(out, ap) ==
  [out |-> out, ap |-> ap, esc |-> <<>>, padc |-> " ", width |-> -1,
   precision |-> -1, lflag |-> 0, altflag |-> FALSE, number |-> FALSE]

\* The escape has put text and used n arguments.
Put(st, text, n) == Outside(st.out \o text, st.ap + n)

process_precision(st) ==
  IF st.width < 0
  THEN [st EXCEPT !.width = st.precision, !.precision = -1, !.number = FALSE]
  ELSE [st EXCEPT !.number = FALSE]

\* case 's' for text p
String(st, p) ==
  LET len  == IF st.precision < 0 \/ st.precision > Len(p) THEN Len(p) ELSE st.precision
      fill == IF st.width > 0 THEN st.width - len ELSE 0
      body == [k \in 1 .. len |->
                 IF st.altflag /\ p[k] \in Unprintable THEN "?" ELSE p[k]]
  IN  IF st.padc # "-" THEN Pad(st.padc, fill) \o body ELSE body \o Pad(" ", fill)

\* case 'd': the sign comes before the padding
Decimal(st, num) ==
  (IF num < 0 THEN <<"-">> ELSE <<>>) \o
    printnum((IF num < 0 THEN -num ELSE num) % 2^LL_BITS, 10, st.width, st.padc)

\* case 'e', with err made positive
Error(err) ==
  IF err >= MAXERROR \/ err \notin DOMAIN error_string
  THEN <<"error ">> \o Decimal(Outside(<<>>, 1), err)
  ELSE <<error_string[err]>>

\* An escape that is not recognised: '%', and then the format is read once
\* more from the character behind it.
Literally(st) == Put(st, st.esc, 0)

NonZero == [d \in 1 .. 9 |-> Digit[d]]

\* The switch on character ch of the escape; arg is the next argument.
Switch(prev, ch, arg) ==
  LET st == [prev EXCEPT !.esc = Append(@, ch)]
  IN  CASE ch \in {"-", "0"} -> [st EXCEPT !.padc = ch]
        [] \E d \in 1 .. 9 : ch = NonZero[d] ->
             [st EXCEPT !.number = TRUE,
                        !.precision = CHOOSE d \in 1 .. 9 : ch = NonZero[d]]
        [] ch = "*" -> process_precision(
             [st EXCEPT !.precision = Signed(arg, INT_BITS), !.ap = @ + 1])
        [] ch = "." -> [st EXCEPT !.width = IF @ < 0 THEN 0 ELSE @]
        [] ch = "#" -> [st EXCEPT !.altflag = TRUE]
        [] ch = "l" -> [st EXCEPT !.lflag = @ + 1]
        [] ch = "c" -> Put(st, <<arg>>, 1)
        [] ch = "e" -> LET err == Signed(arg, INT_BITS)
                       IN  Put(st, Error(IF err < 0 THEN -err ELSE err), 1)
        [] ch = "s" -> Put(st, String(st, arg), 1)
        [] ch = "d" -> Put(st, Decimal(st, getint(arg, st.lflag)), 1)
        [] ch = "u" -> Put(st, printnum(getuint(arg, st.lflag), 10, st.width, st.padc), 1)
        [] ch = "x" -> Put(st, printnum(getuint(arg, st.lflag), 16, st.width, st.padc), 1)
        [] ch = "p" -> Put(st, <<"0", "x">> \o
                               printnum(getuint(arg, 0), 16, st.width, st.padc), 1)
        [] ch = "o" -> Put(st, <<"X", "X", "X">>, 0)
        [] ch = "%" -> Put(st, <<"%">>, 0)
        [] OTHER    -> Literally(st)

\* One character of the format.
Scan(st, ch, arg) ==
  LET IsDigit == \E d \in 0 .. 9 : ch = Digit[d]
  IN  IF st.esc = <<>>
      THEN IF ch = "%" THEN [st EXCEPT !.esc = <<"%">>]
                       ELSE [st EXCEPT !.out = Append(@, ch)]
      ELSE IF ~st.number THEN Switch(st, ch, arg)
      ELSE IF IsDigit
      THEN [st EXCEPT !.esc = Append(@, ch),
                      !.precision = 10 * @ + CHOOSE d \in 0 .. 9 : ch = Digit[d]]
      ELSE Switch(process_precision(st), ch, arg)

\* vprintfmt: the text it puts.  An escape that the '\0' cuts off is not
\* recognised.  "(null)" stands for a null pointer among the arguments.
vprintfmt(fmt, args) ==
  LET Arg(st) == IF st.ap \in DOMAIN args THEN args[st.ap] ELSE "none"
      scanned[k \in 0 .. Len(fmt)] ==
        IF k = 0 THEN Outside(<<>>, 1)
        ELSE LET st == scanned[k - 1] IN Scan(st, fmt[k], Arg(st))
      last == scanned[Len(fmt)]
  IN  IF last.esc = <<>> THEN last.out ELSE Literally(last).out

\* printk: every character goes to the serial line.
printk(fmt, args) == vprintfmt(fmt, args)

\* mutant: the buffer's last place is not kept for the '\0'.
sprintputch_full(b, n, ch) ==
  [cnt |-> b.cnt + 1, buf |-> IF Len(b.buf) < n THEN Append(b.buf, ch) ELSE b.buf]

\* A character is counted, and stored while there is room in front of ebuf.
sprintputch(b, n, ch) ==
  [cnt |-> b.cnt + 1, buf |-> IF Len(b.buf) < n - 1 THEN Append(b.buf, ch) ELSE b.buf]

\* vsnprintf: the value returned and what is in the buffer of n bytes.
vsnprintf(n, fmt, args) ==
  LET text == vprintfmt(fmt, args)
      b[k \in 0 .. Len(text)] ==
        IF k = 0 THEN [cnt |-> 0, buf |-> <<>>]
        ELSE LET before == b[k - 1] IN sprintputch(before, n, text[k])
  IN  IF n < 1 THEN [cnt |-> -E_INVAL, buf |-> <<>>]
      ELSE [b[Len(text)] EXCEPT !.buf = Append(@, "\\0")]

(***************************************************************************)
(* The game's printf, with a buffer of n bytes: str_write gets the length  *)
(* that vsnprintf returned, which counts what did not fit.                 *)
(***************************************************************************)
printf(n, fmt, args) ==
  LET r == vsnprintf(n, fmt, args)
  IN  [k \in 1 .. r.cnt |-> IF k <= Len(r.buf) THEN r.buf[k] ELSE "behind buf"]

\* itoa; the remainders of a negative number are characters in front of '0'.
itoa(a) ==
  LET digits == printnum(IF a < 0 THEN -a ELSE a, 10, 0, " ")
  IN  IF a >= 0 THEN digits
      ELSE [k \in DOMAIN digits |-> IF digits[k] = "0" THEN "0" ELSE "before 0"]

\* strtol, to base 0, 10 or 16 and of lower-case digits: the number it reads,
\* which wraps.
strtol(s, b) ==
  LET At(k) == IF k <= Len(s) THEN s[k] ELSE "\\0"
      blank == CHOOSE k \in 0 .. Len(s) :
                 At(k + 1) \notin {" ", "\t"} /\ \A j \in 1 .. k : At(j) \in {" ", "\t"}
      sign  == blank + (IF At(blank + 1) \in {"+", "-"} THEN 1 ELSE 0)
      hex   == b \in {0, 16} /\ At(sign + 1) = "0" /\ At(sign + 2) = "x"
      octal == b = 0 /\ ~hex /\ At(sign + 1) = "0"
      base  == IF hex THEN 16 ELSE IF octal THEN 8 ELSE IF b = 0 THEN 10 ELSE b
      first == sign + (IF hex THEN 2 ELSE IF octal THEN 1 ELSE 0)
      dig(k) == IF \E d \in 0 .. 15 : At(k) = Digit[d]
                THEN CHOOSE d \in 0 .. 15 : At(k) = Digit[d] ELSE 16
      val[k \in first .. (Len(s) + 1)] ==   \* the number up to position k
        IF k = first THEN 0 ELSE Signed(val[k - 1] * base + dig(k), INT_BITS)
      last  == CHOOSE k \in first .. Len(s) :
                 dig(k + 1) >= base /\ \A j \in (first + 1) .. k : dig(j) < base
  IN  IF At(blank + 1) = "-" THEN Signed(-val[last], INT_BITS) ELSE val[last]
=============================================================================
