-------------------------------- MODULE Ulid --------------------------------
(***************************************************************************)
(* The identifiers of events (model/ulid.go): 48 bits of time and 80 of    *)
(* randomness, written as 26 digits of 5 bits.                             *)
(*                                                                         *)
(* A byte is a number, a uint64 a sequence of 64 bits with the highest     *)
(* first, a character its place in the alphabet, which is in the order of  *)
(* the characters. A loop is a recursive function of the turns made.       *)
(***************************************************************************)
EXTENDS Integers, Sequences

Byte  == 0..255
Chars == 0..31

Bits(byte) == [i \in 1..8 |-> (byte \div <<128, 64, 32, 16, 8, 4, 2, 1>>[i]) % 2]
Zeros(n)   == [i \in 1..n |-> 0]

(* The bits of all bytes, the first byte highest. *)
Word(bytes) == [i \in 1..(8 * Len(bytes)) |-> Bits(bytes[(i + 7) \div 8])[((i - 1) % 8) + 1]]

(* The character for five bits: crockford[lo & 0x1f]. *)
Number(bits) == 16 * bits[1] + 8 * bits[2] + 4 * bits[3] + 2 * bits[4] + bits[5]

Shr(word, n) == Zeros(n) \o SubSeq(word, 1, 64 - n)
Shl(word, n) == SubSeq(word, n + 1, 64) \o Zeros(n)
Or(v, w)     == [i \in 1..64 |-> IF v[i] = 1 THEN 1 ELSE w[i]]

(* The 128 bits shifted by one digit. *)
Shift_NoCarry(hi, lo) == [hi |-> Shr(hi, 5), lo |-> Shr(lo, 5)]
Shift(hi, lo) == [hi |-> Shr(hi, 5), lo |-> Or(Shr(lo, 5), Shl(hi, 59))]

(* One turn of the loop: the last digit goes in front of the later ones.   *)
Turn(s) ==
  LET next == Shift(s.hi, s.lo)
  IN [hi |-> next.hi, lo |-> next.lo, out |-> <<Number(SubSeq(s.lo, 60, 64))>> \o s.out]

encodeBase32(b) ==
  LET after[turns \in 0..26] ==
        IF turns = 0 THEN [hi |-> Word(SubSeq(b, 1, 8)), lo |-> Word(SubSeq(b, 9, 16)), out |-> <<>>]
        ELSE Turn(after[turns - 1])
  IN after[26].out

(* The instant is given as its 6 bytes: later ones make NewULID panic.     *)
NewULID(instant, random) == encodeBase32(instant \o random)

ValidULID(s) == Len(s) = 26 /\ (\A i \in 1..26 : s[i] \in Chars) /\ s[1] < 8

(* The 64 bits of the milliseconds in the first ten characters. *)
ULIDTime(s) ==
  LET ms[i \in 0..10] ==
        IF i = 0 THEN Zeros(64) ELSE Or(Shl(ms[i - 1], 5), Zeros(56) \o Bits(s[i]))
  IN ms[10]

(* The order of strings, and of numbers written with as many digits.       *)
Before(v, w) ==
  \E i \in 1..Len(v) : v[i] < w[i] /\ \A j \in 1..(i - 1) : v[j] = w[j]
=============================================================================
