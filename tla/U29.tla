-------------------------------- MODULE U29 --------------------------------
(***************************************************************************)
(* The variable-length 29-bit numbers of AMF3: integers, and the lengths   *)
(* and references in front of strings, dates, arrays and objects.          *)
(*                                                                         *)
(* A byte is a number below 256.  A uint32 is written as the int32 with    *)
(* the same bits: what the code sign-extends comes out negative.           *)
(***************************************************************************)
EXTENDS Integers, Sequences

Byte == 0 .. 255

TwoTo14 == 128 * 128
TwoTo21 == 128 * 128 * 128
TwoTo28 == 128 * 128 * 128 * 128
TwoTo29 == 128 * 128 * 128 * 256

\* Seven bits of v, from the one worth unit on; More says another byte follows.
Seven(v, unit) == (v \div unit) % 128
More(b) == b + 128

\* One byte to four; the high bit of the first three says that more follow, the
\* fourth has eight bits of its own.
WriteU29(value) ==
  LET v == value % TwoTo29
  IN  IF v < 128 THEN <<v>>
      ELSE IF v < TwoTo14 THEN <<More(Seven(v, 128)), Seven(v, 1)>>
      ELSE IF v < TwoTo21
      THEN <<More(Seven(v, TwoTo14)), More(Seven(v, 128)), Seven(v, 1)>>
      ELSE <<More(Seven(v, TwoTo14 * 256)), More(Seven(v, 128 * 256)),
             More(Seven(v, 256)), v % 256>>

\* The number that begins s has ended with its i-th byte.
EndsAt(s, i) == i <= Len(s) /\ (i = 4 \/ s[i] < 128)

\* How many bytes readU29 takes from s; 0 if s ends before the number does.
U29Length(s) ==
  IF EndsAt(s, 1) THEN 1
  ELSE IF EndsAt(s, 2) THEN 2
  ELSE IF EndsAt(s, 3) THEN 3
  ELSE IF EndsAt(s, 4) THEN 4 ELSE 0

\* Four bytes with bit 28 set are sign-extended, whatever the number is for.
SignExtend(r) == IF r >= TwoTo28 THEN r - TwoTo29 ELSE r

ReadU29(s) ==
  LET n == U29Length(s)
      b(i) == s[i] % 128
  IN  IF n = 1 THEN s[1]
      ELSE IF n = 2 THEN b(1) * 128 + s[2]
      ELSE IF n = 3 THEN b(1) * TwoTo14 + b(2) * 128 + s[3]
      ELSE SignExtend(b(1) * (TwoTo14 * 256) + b(2) * (128 * 256) + b(3) * 256 + s[4])

=============================================================================
