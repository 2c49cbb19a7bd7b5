------------------------------- MODULE Text -------------------------------
(***************************************************************************)
(* The conversions between numbers and text and the searches in strings    *)
(* (text/src/converter.c, parser.c, text/string.h).  A string is a         *)
(* sequence of characters; a digit is the number it stands for, the other  *)
(* characters are negative.  A word has WORD values instead of 2^64, half  *)
(* of it HALF instead of 2^32, a short one SHORT instead of 2^16, and a    *)
(* floating point number is a multiple of half the last decimal, without   *)
(* rounding errors of its own.                                             *)
(***************************************************************************)
EXTENDS Integers, Sequences, FiniteSets, FiniteSetsExt, SequencesExt

CONSTANTS
  WORD, HALF, SHORT,
  PREC,           \* 10 to the number of decimals of F64ToString
  Halves,         \* the floating point numbers, in halves of 1 / PREC
  Strings         \* the strings that are split and searched

MINUS == -1
POINT == -2
BLANK == -3
TOKEN == -4     \* the separator, '/' or a newline
INF == -5       \* the text "inf"

VARIABLES
  call,       \* op and argument: a number x, or a string s
  pc, pos, out

vars == <<call, pc, pos, out>>

Calls ==
  [op : {"U64"}, x : 0 .. WORD - 1, s : { << >> }]
    \cup [op : {"I64"}, x : -(WORD \div 2) .. WORD \div 2 - 1, s : { << >> }]
    \cup [op : {"F64"}, x : Halves, s : { << >> }]
    \cup [op : {"tokenize", "last"}, x : {0}, s : Strings \ { << >> }]

\* The types of the call in progress: what is written of an integer is digits.
TypeOK ==
  /\ pc \in {"call", "tokens", "search", "done"}
  /\ pos \in 0 .. WORD - 1
  /\ call.op \in {"U64", "I64"} =>
       \A i \in DOMAIN out : out[i] \in {MINUS, BLANK} \cup 0 .. 9

Init == call \in Calls /\ pc = "call" /\ pos = 0 /\ out = << >>

Done(text) == pc' = "done" /\ out' = text /\ UNCHANGED <<call, pos>>

-----------------------------------------------------------------------------
(* Numbers to text.                                                        *)

\* Variant with a defect: the loop ends before it has written the last zero.
U64ToStringEmpty(data) ==
  LET digits[x \in 0 .. WORD - 1] ==
        IF x = 0 THEN << >> ELSE Append(digits[x \div 10], x % 10)
  IN digits[data]

\* Variant with a defect: the digits of ptrToString's base.
U64ToStringHex(data) ==
  LET digits[x \in 0 .. WORD - 1] ==
        IF x < 16 THEN <<x>> ELSE Append(digits[x \div 16], x % 16)
  IN digits[data]

\* do { *--beg = '0' + data % 10; } while (data /= 10)
U64ToString(data) ==
  LET digits[x \in 0 .. WORD - 1] ==
        IF x < 10 THEN <<x>> ELSE Append(digits[x \div 10], x % 10)
  IN digits[data]

\* Variant with a defect: the magnitude is the negated number, in the signed type.
MagnitudeSigned(data) ==
  IF data < 0 THEN ((0 - data + WORD \div 2) % WORD) - WORD \div 2 ELSE data

\* The number is made negative, not positive: the least has no positive.
Magnitude(data) == IF data > 0 THEN data ELSE 0 - data

\* C's remainder of a negative number is the negative of a digit.
I64ToString(data) ==
  LET m == Magnitude(data)
      digits == IF m < 0 THEN << >> ELSE U64ToString(m)
  IN IF data < 0 THEN <<MINUS>> \o digits ELSE digits

\* Variant with a defect: the rest is cut off, with nothing added before.
F64ToStringCut(halves) ==
  LET size == IF halves < 0 THEN 0 - halves ELSE halves
  IN (IF halves < 0 THEN <<MINUS>> ELSE << >>)
     \o IF size >= WORD * PREC THEN <<INF>>
        ELSE U64ToString(size \div (2 * PREC)) \o <<POINT>>
             \o U64ToString((size % (2 * PREC)) \div 2)

\* Half of the last decimal is added, then the rest cut off; what is out of
\* the range of a signed word is "inf".  The zeros that should stand before
\* the fraction are written but not counted in tmpLen, so the digits of the
\* fraction overwrite them.
F64ToString(halves) ==
  LET rounded == (IF halves < 0 THEN 0 - halves ELSE halves) + 1
      integral == rounded \div (2 * PREC)
      fractional == (rounded % (2 * PREC)) \div 2
  IN (IF halves < 0 THEN <<MINUS>> ELSE << >>)
     \o IF rounded >= (WORD \div 2) * (2 * PREC) THEN <<INF>>
        ELSE U64ToString(integral) \o <<POINT>> \o U64ToString(fractional)

stringWithMinSize(data, minSize) ==
  data \o [i \in 1 .. minSize - Len(data) |-> BLANK]

Convert ==
  /\ pc = "call"
  /\ \/ call.op = "U64" /\ Done(stringWithMinSize(U64ToString(call.x), 2))
     \/ call.op = "I64" /\ Done(I64ToString(call.x))
     \/ call.op = "F64" /\ Done(F64ToString(call.x))

-----------------------------------------------------------------------------
(* Text to numbers.                                                        *)

\* parseU32 and parseU16: no digit is checked, and the result wraps.
Parse(value, words) == FoldLeft(LAMBDA r, c : (r * 10 + c) % words, 0, value)
parseU32(value) == Parse(value, HALF)
parseU16(value) == Parse(value, SHORT)

-----------------------------------------------------------------------------
(* Strings.                                                                *)

\* Variant with a defect: the search for the end of a part starts behind its first character.
SplitEndLate(s, from) ==
  LET hits == {i \in from + 1 .. Len(s) - 1 : s[i + 1] = TOKEN}
  IN IF hits = {} THEN Len(s) ELSE Min(hits)

\* splitString: where the part that starts at `from` ends.
SplitEnd(s, from) ==
  LET hits == {i \in from .. Len(s) - 1 : s[i + 1] = TOKEN}
  IN IF hits = {} THEN Len(s) ELSE Min(hits)

\* TOKENIZE_STRING: the parts, as pairs of start and end.
Tokenize ==
  /\ pc = "tokens"
  /\ IF pos < Len(call.s)
     THEN /\ out' = Append(out, <<pos, SplitEnd(call.s, pos)>>)
          /\ pos' = SplitEnd(call.s, pos) + 1
          /\ UNCHANGED <<call, pc>>
     ELSE pc' = "done" /\ UNCHANGED <<call, pos, out>>

\* for (i = s.len - 1; i >= s.len; i--): the loop runs as long as i is not
\* an index of the string, so it is left before its first step.  (An empty
\* string would be read outside; it is not among the calls.)
lastOccurenceOf == pc = "search" /\ pos < Len(call.s) /\ Done(<<-1>>)

Enter ==
  /\ pc = "call"
  /\ \/ call.op = "tokenize" /\ pc' = "tokens" /\ UNCHANGED pos
     \/ call.op = "last" /\ pc' = "search" /\ pos' = Len(call.s) - 1
  /\ UNCHANGED <<call, out>>

Next == Convert \/ Enter \/ Tokenize \/ lastOccurenceOf

Spec == Init /\ [][Next]_vars

-----------------------------------------------------------------------------
\* A number that is written and read back is the same number, modulo the width
\* of the reader, with no digit too many: the image builder writes and its
\* flags read, the loader reads what the builder wrote.
RoundTrip ==
  pc = "done" /\ call.op = "U64" =>
    LET digits == SelectSeq(out, LAMBDA c : c # BLANK)
    IN /\ digits # << >>
       /\ parseU32(digits) = call.x % HALF /\ parseU16(digits) = call.x % SHORT
       /\ Len(digits) > 1 => Head(digits) # 0
       /\ Len(out) >= 2

\* A signed number is a sign and the digits of its magnitude, the least one too.
SignedText ==
  pc = "done" /\ call.op = "I64" =>
    IF call.x < 0 THEN Head(out) = MINUS /\ 0 - Parse(Tail(out), 2 * WORD) = call.x
                  ELSE Parse(out, 2 * WORD) = call.x

\* The text of a floating point number is the number rounded to the nearest:
\* integral part and decimals together, read as one number, and all decimals
\* are there.
Rounded(x) ==
  LET size == IF x < 0 THEN 0 - x ELSE x
      digits == SelectSeq(out, LAMBDA c : c >= 0)
      point == {i \in DOMAIN out : out[i] = POINT}
  IN /\ (Head(out) = MINUS) <=> (x < 0)
     /\ IF \E i \in DOMAIN out : out[i] = INF
        THEN size + 1 >= WORD * PREC
        ELSE /\ \E i \in point : PREC = 10 ^ (Len(out) - i)
             /\ 2 * Parse(digits, WORD * PREC) \in {size, size + 1}

\* A floating point number is written rounded to the nearest, or as "inf" where
\* its integral part has no signed word, as long as its first decimal is not a
\* zero.
RoundedText ==
  pc = "done" /\ call.op = "F64" =>
    LET rounded == (IF call.x < 0 THEN 0 - call.x ELSE call.x) + 1
    IN (rounded % (2 * PREC)) \div 2 >= PREC \div 10 \/ INF \in Range(out) => Rounded(call.x)

\* The parts of a string, in order and without their separators, are all of it:
\* only separators lie between them, and no part contains one.
PartsCover ==
  pc = "done" /\ call.op = "tokenize" =>
    LET inside == UNION {out[i][1] .. out[i][2] - 1 : i \in DOMAIN out}
    IN inside = {i \in 0 .. Len(call.s) - 1 : call.s[i + 1] # TOKEN}
=============================================================================
