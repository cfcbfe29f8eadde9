------------------------------ MODULE Library -------------------------------
(***************************************************************************)
(* A program that reads a file and works on what it has read with the      *)
(* routines of lib/: it moves, compares and prints it.  Strings and        *)
(* Printfmt hold the routines; here they are checked against what they     *)
(* stand for, on every contents that the file comes to have.               *)
(***************************************************************************)
EXTENDS FileIO, Printfmt

\* The file's bytes, as they lie in the program's memory after a read from
\* the start.
Contents == [q \in 0 .. (FileSize - 1) |-> FileByte(disk, q)]

\* The file's bits as a number, and its text with a letter for each byte.
Number ==
  LET upto[q \in 0 .. FileSize] ==
        IF q = 0 THEN 0 ELSE upto[q - 1] + Contents[q - 1] * 2^(q - 1)
  IN  upto[FileSize]
AsInt  == Signed(Number, INT_BITS)
Word == [k \in DOMAIN Text(Contents, 0) |-> IF k % 2 = 0 THEN "\n" ELSE "w"]

\* lseek(fd, 0, SEEK_SET) comes before the read.
AtStart == offset = 0

(***************************************************************************)
(* memmove, in words or bytes, upwards or downwards, stores what the       *)
(* source held before the call, for every alignment, length and overlap,   *)
(* and memset fills exactly its n bytes.                                   *)
(***************************************************************************)
MovesCorrect == AtStart => MovesCorrectly(Contents)

(***************************************************************************)
(* strcmp and strncmp order texts, strlcpy and strncpy copy what fits and  *)
(* terminate it, strcat concatenates, memcmp, strchr and strfind find the  *)
(* right place, for every two texts that lie in memory.                    *)
(***************************************************************************)
StringsCorrect == AtStart => TextsHandled(Contents)

\* The escapes that print an integer, and the base strtol reads them with.
Escapes == {[esc |-> <<"d">>, base |-> 10], [esc |-> <<"u">>, base |-> 10],
            [esc |-> <<"x">>, base |-> 16], [esc |-> <<"p">>, base |-> 0],
            [esc |-> <<"l", "d">>, base |-> 10]}
Widths == {[txt |-> <<>>, n |-> 0], [txt |-> <<"3">>, n |-> 3],
           [txt |-> <<"1", "0">>, n |-> 10], [txt |-> <<"*">>, n |-> 4]}

(***************************************************************************)
(* strtol reads back every number that vprintfmt and itoa print, the       *)
(* smallest int included, in every base and field width, and the text is   *)
(* as long as the width asks; except that blanks, unlike zeros, come       *)
(* between a sign or 0x and the digits.  The same holds of a long long, as *)
(* far as strtol's long goes.                                              *)
(***************************************************************************)
NumbersReadBack ==
  AtStart =>
    /\ \A e \in Escapes, w \in Widths, zero \in BOOLEAN :
         LET args == IF w.txt = <<"*">> THEN <<4, Number>> ELSE <<Number>>
             text == vprintfmt(<<"%">> \o (IF zero THEN <<"0">> ELSE <<>>)
                                \o w.txt \o e.esc, args)
         IN  /\ Len(text) >= w.n
             /\ zero \/ w.n = 0 \/ (AsInt >= 0 /\ e.base # 0) => strtol(text, e.base) = AsInt
    /\ AsInt >= 0 => strtol(itoa(AsInt), 10) = AsInt
    /\ strtol(vprintfmt(<<"%", "l", "l", "d">>, <<-Number>>), 10) = Signed(-Number, INT_BITS)

\* Formats with a single '%' and no conversion.
Unrecognised ==
  {f \in UNION {[1 .. n -> {"%", "-", "0", "2", ".", "l", "y"}] : n \in 1 .. 4} :
     \E k \in DOMAIN f : \A j \in DOMAIN f : f[j] = "%" <=> j = k}

(***************************************************************************)
(* An escape that vprintfmt does not recognise, also one that the end of   *)
(* the format cuts off, is printed as it stands.  A number is padded in    *)
(* front to the field width, with blanks or zeros.  A text printed with a  *)
(* precision is the text's beginning; what a width does to a text is left  *)
(* open, as the comment on the formats promises one to numbers only.  Of   *)
(* what does not fit vsnprintf keeps the beginning, terminated and inside  *)
(* the buffer, and counts the rest; what printf sends is the text as long  *)
(* as that fits.                                                           *)
(***************************************************************************)
FormatsPrinted ==
  AtStart =>
    /\ Number = 0 => \A f \in Unrecognised : vprintfmt(f, <<>>) = f
    /\ AsInt >= 0 =>
         \A e \in {e \in Escapes : e.base # 0}, w \in Widths, zero \in BOOLEAN :
           LET flag  == IF zero THEN <<"0">> ELSE <<>>
               args  == IF w.txt = <<"*">> THEN <<4, Number>> ELSE <<Number>>
               plain == vprintfmt(<<"%">> \o e.esc, <<Number>>)
           IN  vprintfmt(<<"%">> \o flag \o w.txt \o e.esc, args) =
                 Pad(IF zero THEN "0" ELSE " ", w.n - Len(plain)) \o plain
    /\ \A alt \in BOOLEAN, p \in 0 .. 3 :
         LET flag == IF alt THEN <<"#">> ELSE <<>>
             prec == IF p = 0 THEN <<>> ELSE <<".", Digit[p]>>
             fmt  == <<"[", "%">> \o flag \o prec \o <<"s", "]">>
             args == <<Word>>
             body == [k \in DOMAIN Upto(Word, IF p = 0 THEN Len(Word) ELSE p) |->
                        IF alt /\ Word[k] = "\n" THEN "?" ELSE Word[k]]
             text == <<"[">> \o body \o <<"]">>
         IN  /\ vprintfmt(fmt, args) = text
             /\ \A n \in 0 .. 6 :
                  LET r == vsnprintf(n, fmt, args)
                  IN  IF n = 0 THEN r.cnt < 0
                      ELSE /\ r.cnt = Len(text)
                           /\ r.buf = Append(Upto(text, n - 1), "\\0")
                           /\ Len(r.buf) <= n
                           /\ Len(text) < n => printf(n, fmt, args) = text
=============================================================================
