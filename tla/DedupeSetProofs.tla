-------------------------- MODULE DedupeSetProofs ---------------------------
(***************************************************************************)
(* The invariants of DedupeSet, for any ids, any capacity handed to New    *)
(* and a history of any length; and, for the ids that NewULID mints, what  *)
(* they tell, for any instants and any randomness.                         *)
(***************************************************************************)
EXTENDS MintedIds, DedupeProofs, SequenceTheorems, WellFoundedInduction

(* FieldsAgree follows from the lemma about Add alone; KeepsNewest needs   *)
(* it (to know the length), and NoRepeatWithinWindow needs KeepsNewest.    *)
IInv == TypeOK /\ FieldsAgree /\ KeepsNewest /\ NoRepeatWithinWindow

(* New never leaves the capacity below one. *)
LEMMA CapPositive == Cap \in Nat \ {0}
BY CapacityIsNatural DEF Cap, EffectiveCapacity

(* The empty set and the empty history satisfy every part. *)
LEMMA InitInv == Init => IInv
<1> SUFFICES ASSUME Init PROVE IInv
  OBVIOUS
<1>1. TypeOK
  BY DEF Init, TypeOK, New
<1>2. FieldsAgree /\ KeepsNewest
  BY CapPositive, NewConsistent, NewNewest DEF Init, FieldsAgree, KeepsNewest
<1>3. NoRepeatWithinWindow
  BY DEF Init, NoRepeatWithinWindow
<1> QED BY <1>1, <1>2, <1>3 DEF IInv

(* A redelivery (SeenOrAdd returns true) changes nothing. *)
LEMMA IgnoreChangesNothing ==
  ASSUME NEW id \in Ids, Ignore(id)
  PROVE  UNCHANGED vars
BY DEF Ignore, Add, vars

(* Recording a new id keeps the parts together. *)
LEMMA AcceptInv ==
  ASSUME IInv, NEW id \in Ids, Accept(id)
  PROVE  IInv'
<1> DEFINE n == Len(inserted)
<1>1. /\ Cap \in Nat \ {0}
      /\ set \in SetOver(Ids) /\ inserted \in Seq(Ids) /\ n \in Nat
      /\ Consistent(set, Cap) /\ Newest(set, inserted, Cap) /\ ~Seen(set, id)
      /\ set' = Add(set, id, Cap) /\ inserted' = Append(inserted, id)
  BY CapPositive DEF IInv, TypeOK, SetOver, FieldsAgree, KeepsNewest, Accept
<1>2. TypeOK'
  BY <1>1, AddType DEF TypeOK, SetOver
<1>3. FieldsAgree'
  BY <1>1, AddConsistent DEF FieldsAgree, Cap
<1>4. KeepsNewest'
  BY <1>1, AddNewest DEF KeepsNewest, Cap
<1>5. NoRepeatWithinWindow'
  <2>1. /\ Len(inserted') = n + 1 /\ inserted'[n + 1] = id
        /\ \A i \in 1..n : inserted'[i] = inserted[i]
    BY <1>1
  <2>2. \A i \in 1..n : inserted[i] = id => n + 1 - i > Cap
    BY <1>1, UnseenIsLongAgo DEF LongAgo
  <2> SUFFICES ASSUME NEW i \in 1..(n + 1), NEW j \in 1..(n + 1),
                      i < j, inserted'[i] = inserted'[j]
               PROVE  j - i > Cap
    BY <2>1 DEF NoRepeatWithinWindow, Cap
  <2>3. CASE j \in 1..n
    BY <1>1, <2>1, <2>3 DEF IInv, NoRepeatWithinWindow
  <2>4. CASE j = n + 1
    BY <1>1, <2>1, <2>2, <2>4
  <2> QED BY <1>1, <2>3, <2>4
<1> QED BY <1>2, <1>3, <1>4, <1>5 DEF IInv

(* Every part is an invariant: together they are inductive. *)
THEOREM IInvHolds == Spec => []IInv
<1>1. IInv /\ [Next]_vars => IInv'
  <2> SUFFICES ASSUME IInv, [Next]_vars PROVE IInv'
    OBVIOUS
  <2>1. CASE UNCHANGED vars
    BY <2>1 DEF vars, IInv, TypeOK, FieldsAgree, KeepsNewest,
                NoRepeatWithinWindow, Cap
  <2>2. ASSUME NEW id \in Ids, Accept(id) PROVE IInv'
    BY <2>2, AcceptInv
  <2>3. ASSUME NEW id \in Ids, Ignore(id) PROVE IInv'
    BY <2>1, <2>3, IgnoreChangesNothing
  <2> QED BY <2>1, <2>2, <2>3 DEF Next
<1> QED BY <1>1, InitInv, PTL DEF Spec

(* The slice and the map of set.go hold the same ids.                      *)
THEOREM FieldsAgreeHolds == Spec => []FieldsAgree
<1>1. IInv => FieldsAgree
  BY DEF IInv
<1> QED BY <1>1, IInvHolds, PTL

(* set.go keeps exactly the newest Cap ids, whatever the bus delivers.     *)
THEOREM KeepsNewestHolds == Spec => [](FieldsAgree /\ KeepsNewest)
<1>1. IInv => FieldsAgree /\ KeepsNewest
  BY DEF IInv
<1> QED BY <1>1, IInvHolds, PTL

(* A consumer guarded by SeenOrAdd acts twice on one event only after more *)
(* than Cap other new events.                                              *)
THEOREM NoRepeatHolds == Spec => []NoRepeatWithinWindow
<1>1. IInv => NoRepeatWithinWindow
  BY DEF IInv
<1> QED BY <1>1, IInvHolds, PTL

-----------------------------------------------------------------------------
(* Ids. The 128 bits of an id stand after two zeros: Pad reads a place     *)
(* before the first bit as zero, Digit is the d-th group of five of the    *)
(* 130. The proof gives the loops of encodeBase32 and ULIDTime their       *)
(* closed forms, Halfway and Read, and shows that a turn leads from each   *)
(* to the next; everything else is about groups of bits.                   *)
Bit == {0, 1}
Bit64 == [1..64 -> Bit]

Pad(bits, k) == IF k < 1 THEN 0 ELSE bits[k]

Digit(bits, d) ==
  16 * Pad(bits, 5 * d - 6) + 8 * Pad(bits, 5 * d - 5) + 4 * Pad(bits, 5 * d - 4)
    + 2 * Pad(bits, 5 * d - 3) + Pad(bits, 5 * d - 2)

(* encodeBase32 after n turns: both words shifted, n digits written. *)
Halfway(bits, n) ==
  [hi |-> [k \in 1..64 |-> Pad(bits, k - 5 * n)],
   lo |-> [k \in 1..64 |-> Pad(bits, 64 + k - 5 * n)],
   out |-> [k \in 1..n |-> Digit(bits, 26 - n + k)]]

(* Concatenation under a name that the provers can match. *)
Join(v, w) == v \o w

(* A function over 1..n is a sequence of length n, and back. *)
LEMMA AsSequence ==
  ASSUME NEW S, NEW n \in Nat, NEW f \in [1..n -> S]
  PROVE  f \in Seq(S) /\ Len(f) = n
OBVIOUS

(* A sequence is a function over its indices. *)
LEMMA AsFunction ==
  ASSUME NEW S, NEW s \in Seq(S)
  PROVE  s \in [1..Len(s) -> S]
OBVIOUS

(* The elements of a concatenation. *)
LEMMA JoinIs ==
  ASSUME NEW m \in Nat, NEW n \in Nat, NEW v \in [1..m -> Nat], NEW w \in [1..n -> Nat]
  PROVE  /\ Join(v, w) \in [1..(m + n) -> Nat]
         /\ \A k \in 1..m : Join(v, w)[k] = v[k]
         /\ \A k \in 1..n : Join(v, w)[m + k] = w[k]
<1> DEFINE t == Join(v, w)
<1>1. v \in Seq(Nat) /\ w \in Seq(Nat) /\ Len(v) = m /\ Len(w) = n
  BY AsSequence
<1>2. /\ t \in Seq(Nat) /\ Len(t) = Len(v) + Len(w)
      /\ \A k \in 1..(Len(v) + Len(w)) : t[k] = IF k <= Len(v) THEN v[k] ELSE w[k - Len(v)]
  BY <1>1, ConcatProperties DEF Join
<1> HIDE DEF t
<1>3. t \in [1..Len(t) -> Nat]
  BY <1>2, AsFunction
<1>4. /\ t \in [1..(m + n) -> Nat]
      /\ \A k \in 1..(m + n) : t[k] = IF k <= m THEN v[k] ELSE w[k - m]
  BY <1>1, <1>2, <1>3
<1>5. \A k \in 1..m : k \in 1..(m + n) /\ k <= m
  OBVIOUS
<1>6. \A k \in 1..n : m + k \in 1..(m + n) /\ ~(m + k <= m) /\ (m + k) - m = k
  OBVIOUS
<1> QED BY <1>4, <1>5, <1>6 DEF t

(* The l elements after the first m, likewise under a name. *)
Part(w, m, l) == SubSeq(w, m + 1, m + l)

(* The elements of a part. *)
LEMMA PartIs ==
  ASSUME NEW w, NEW m \in Nat, NEW l \in Nat, \A k \in 1..l : w[m + k] \in Nat
  PROVE  /\ Part(w, m, l) \in [1..l -> Nat]
         /\ \A k \in 1..l : Part(w, m, l)[k] = w[m + k]
<1> DEFINE i == m + 1   j == m + l   s == Part(w, m, l)
<1>1. ASSUME NEW k \in i..j PROVE w[k] \in Nat
  <2>1. PICK o \in 1..l : k = m + o
    OBVIOUS
  <2> QED BY <2>1
<1>2. /\ s \in Seq(Nat) /\ Len(s) = IF i <= j THEN j - i + 1 ELSE 0
      /\ \A k \in 1..(j - i + 1) : s[k] = w[i + k - 1]
  BY <1>1, SubSeqProperties DEF Part
<1> HIDE DEF s
<1>3. Len(s) = l /\ \A k \in 1..l : s[k] = w[m + k]
  BY <1>2
<1>4. s \in [1..Len(s) -> Nat]
  BY <1>2, AsFunction
<1> QED BY <1>3, <1>4 DEF s

(* Zeros has n of them. *)
LEMMA ZerosAre ==
  ASSUME NEW n \in Nat
  PROVE  /\ Zeros(n) \in [1..n -> Nat]
         /\ \A k \in 1..n : Zeros(n)[k] = 0
BY DEF Zeros

(* w >> 5 *)
LEMMA ShrIs ==
  ASSUME NEW w \in Bit64
  PROVE  /\ Shr(w, 5) \in Bit64
         /\ \A k \in 1..5 : Shr(w, 5)[k] = 0
         /\ \A k \in 1..59 : Shr(w, 5)[5 + k] = w[k]
<1> DEFINE z == Zeros(5)   s == Part(w, 0, 59)
<1>1. 5 \in Nat /\ 0 \in Nat /\ 59 \in Nat
  OBVIOUS
<1>2. (\A k \in 1..64 : w[k] \in Bit) /\ \A k \in 1..59 : w[0 + k] \in Nat
  BY DEF Bit64, Bit
<1>3. z \in [1..5 -> Nat] /\ \A k \in 1..5 : z[k] = 0
  BY ZerosAre
<1>4. s \in [1..59 -> Nat] /\ \A k \in 1..59 : s[k] = w[0 + k]
  BY <1>1, <1>2, PartIs
<1>5. Shr(w, 5) = Join(z, s)
  BY DEF Shr, Join, Part
<1> HIDE DEF z, s
<1>6. /\ Join(z, s) \in [1..(5 + 59) -> Nat]
      /\ \A k \in 1..5 : Join(z, s)[k] = z[k]
      /\ \A k \in 1..59 : Join(z, s)[5 + k] = s[k]
  <2>1. ASSUME NEW m \in Nat, NEW n \in Nat, z \in [1..m -> Nat], s \in [1..n -> Nat]
        PROVE  /\ Join(z, s) \in [1..(m + n) -> Nat]
               /\ \A k \in 1..m : Join(z, s)[k] = z[k]
               /\ \A k \in 1..n : Join(z, s)[m + k] = s[k]
    BY <2>1, JoinIs
  <2> QED BY <1>1, <1>3, <1>4, <2>1
<1> DEFINE t == Join(z, s)
<1>7. /\ t \in [1..64 -> Nat]
      /\ \A k \in 1..5 : t[k] = 0
      /\ \A k \in 1..59 : t[5 + k] = w[k]
  BY <1>3, <1>4, <1>6
<1> HIDE DEF t
<1>8. \A k \in 1..64 : t[k] \in Bit
  <2> SUFFICES ASSUME NEW k \in 1..64 PROVE t[k] \in Bit
    OBVIOUS
  <2>1. CASE k <= 5
    BY <1>7, <2>1 DEF Bit
  <2>2. CASE k > 5
    <3>1. PICK i \in 1..59 : k = 5 + i
      BY <2>2
    <3> QED BY <1>2, <1>7, <3>1
  <2> QED BY <2>1, <2>2
<1> QED BY <1>5, <1>7, <1>8 DEF t, Bit64

(* w << m *)
LEMMA ShlIs ==
  ASSUME NEW w \in Bit64, NEW m \in Nat, NEW n \in Nat,
         m + n <= 64, 64 <= m + n
  PROVE  /\ Shl(w, m) \in Bit64
         /\ \A k \in 1..n : Shl(w, m)[k] = w[m + k]
         /\ \A k \in 1..m : Shl(w, m)[n + k] = 0
<1> DEFINE z == Zeros(m)   s == Part(w, m, n)
<1>1. n + m = 64
  OBVIOUS
<1>2. (\A k \in 1..64 : w[k] \in Bit) /\ \A k \in 1..n : w[m + k] \in Nat
  BY DEF Bit64, Bit
<1>3. z \in [1..m -> Nat] /\ \A k \in 1..m : z[k] = 0
  BY ZerosAre
<1>4. s \in [1..n -> Nat] /\ \A k \in 1..n : s[k] = w[m + k]
  BY ONLY m \in Nat, n \in Nat, <1>2, PartIs
<1>5. Shl(w, m) = Join(s, z)
  BY DEF Shl, Join, Part
<1> HIDE DEF z, s
<1>6. /\ Join(s, z) \in [1..(n + m) -> Nat]
      /\ \A k \in 1..n : Join(s, z)[k] = s[k]
      /\ \A k \in 1..m : Join(s, z)[n + k] = z[k]
  BY ONLY m \in Nat, n \in Nat, <1>3, <1>4, JoinIs
<1> DEFINE t == Join(s, z)
<1>7. /\ t \in [1..64 -> Nat]
      /\ \A k \in 1..n : t[k] = w[m + k]
      /\ \A k \in 1..m : t[n + k] = 0
  <2>1. t = [k \in DOMAIN t |-> t[k]] /\ DOMAIN t = 1..(n + m) /\ \A k \in DOMAIN t : t[k] \in Nat
    BY <1>6
  <2> HIDE DEF t
  <2>2. DOMAIN t = 1..64
    BY <1>1, <2>1
  <2>3. t \in [1..64 -> Nat]
    BY ONLY <2>1, <2>2
  <2>4. /\ \A k \in 1..n : t[k] = w[m + k]
        /\ \A k \in 1..m : t[n + k] = 0
    BY ONLY <1>3, <1>4, <1>6 DEF t
  <2> QED BY <2>3, <2>4
<1> HIDE DEF t
<1>8. \A k \in 1..64 : t[k] \in Bit
  <2> SUFFICES ASSUME NEW k \in 1..64 PROVE t[k] \in Bit
    OBVIOUS
  <2>1. CASE k <= n
    <3>1. k \in 1..n /\ m + k \in 1..64
      BY <2>1
    <3> QED BY <1>2, <1>7, <3>1
  <2>2. CASE k > n
    <3>1. PICK i \in 1..m : k = n + i
      BY <2>2
    <3> QED BY <1>7, <3>1 DEF Bit
  <2> QED BY <2>1, <2>2
<1> QED BY <1>5, <1>7, <1>8 DEF t, Bit64

(* v | w, which adds nothing where one of them is zero *)
LEMMA OrIs ==
  ASSUME NEW v \in Bit64, NEW w \in Bit64
  PROVE  /\ Or(v, w) \in Bit64
         /\ \A k \in 1..64 : /\ v[k] = 0 => Or(v, w)[k] = w[k]
                             /\ w[k] = 0 => Or(v, w)[k] = v[k]
BY DEF Or, Bit64, Bit

(* The bits of a byte add up to it. *)
LEMMA BitsAre ==
  ASSUME NEW c \in Byte
  PROVE  /\ Bits(c) \in [1..8 -> Bit]
         /\ c = 128 * Bits(c)[1] + 64 * Bits(c)[2] + 32 * Bits(c)[3] + 16 * Bits(c)[4]
                + 8 * Bits(c)[5] + 4 * Bits(c)[6] + 2 * Bits(c)[7] + Bits(c)[8]
<1> DEFINE b == Bits(c)
<1>1. /\ b[1] = (c \div 128) % 2 /\ b[2] = (c \div 64) % 2 /\ b[3] = (c \div 32) % 2
      /\ b[4] = (c \div 16) % 2 /\ b[5] = (c \div 8) % 2 /\ b[6] = (c \div 4) % 2
      /\ b[7] = (c \div 2) % 2 /\ b[8] = (c \div 1) % 2
  BY DEF Bits
<1>2. b = [i \in 1..8 |-> b[i]]
  BY DEF Bits
<1>3. \A i \in 1..8 : b[i] \in Bit
  BY <1>1 DEF Bit, Byte
<1> HIDE DEF b
<1>4. c = 128 * b[1] + 64 * b[2] + 32 * b[3] + 16 * b[4] + 8 * b[5] + 4 * b[6] + 2 * b[7] + b[8]
  <2>1. c \in 0..255 /\ c \div 1 = c
    BY DEF Byte
  <2>2. c = 2 * (c \div 2) + (c % 2)
    BY <2>1
  <2>3. c \div 2 = 2 * (c \div 4) + ((c \div 2) % 2)
    BY <2>1
  <2>4. c \div 4 = 2 * (c \div 8) + ((c \div 4) % 2)
    BY <2>1
  <2>5. c \div 8 = 2 * (c \div 16) + ((c \div 8) % 2)
    BY <2>1
  <2>6. c \div 16 = 2 * (c \div 32) + ((c \div 16) % 2)
    BY <2>1
  <2>7. c \div 32 = 2 * (c \div 64) + ((c \div 32) % 2)
    BY <2>1
  <2>8. c \div 64 = 2 * (c \div 128) + ((c \div 64) % 2)
    BY <2>1
  <2>9. c \div 128 = (c \div 128) % 2
    BY <2>1
  <2>10. /\ c = 2 * (c \div 2) + b[8] /\ c \div 2 = 2 * (c \div 4) + b[7]
         /\ c \div 4 = 2 * (c \div 8) + b[6] /\ c \div 8 = 2 * (c \div 16) + b[5]
         /\ c \div 16 = 2 * (c \div 32) + b[4] /\ c \div 32 = 2 * (c \div 64) + b[3]
         /\ c \div 64 = 2 * (c \div 128) + b[2] /\ c \div 128 = b[1]
    BY <1>1, <2>1, <2>2, <2>3, <2>4, <2>5, <2>6, <2>7, <2>8, <2>9, Zenon
  <2>11. /\ b[1] \in Int /\ b[2] \in Int /\ b[3] \in Int /\ b[4] \in Int
         /\ b[5] \in Int /\ b[6] \in Int /\ b[7] \in Int /\ b[8] \in Int
    BY <1>3 DEF Bit
  <2>12. c \div 32 = 4 * b[1] + 2 * b[2] + b[3]
    BY ONLY <2>10, <2>11
  <2>13. c \div 8 = 16 * b[1] + 8 * b[2] + 4 * b[3] + 2 * b[4] + b[5]
    BY ONLY <2>10, <2>11, <2>12
  <2>14. c \div 2 = 64 * b[1] + 32 * b[2] + 16 * b[3] + 8 * b[4] + 4 * b[5] + 2 * b[6] + b[7]
    BY ONLY <2>10, <2>11, <2>13
  <2> QED BY ONLY <2>10, <2>11, <2>14
<1>5. b \in [1..8 -> Bit]
  BY <1>2, <1>3
<1> QED BY <1>4, <1>5 DEF b

(* The padding is bits too. *)
LEMMA PadIsBit ==
  ASSUME NEW bits \in [1..128 -> Bit], NEW k \in Int, k <= 128
  PROVE  Pad(bits, k) \in Bit
BY DEF Pad, Bit

(* Five bits name a character of the alphabet. *)
LEMMA DigitIsChar ==
  ASSUME NEW bits \in [1..128 -> Bit], NEW d \in 1..26
  PROVE  Digit(bits, d) \in Chars
<1>1. /\ Pad(bits, 5 * d - 6) \in Bit /\ Pad(bits, 5 * d - 5) \in Bit /\ Pad(bits, 5 * d - 4) \in Bit
      /\ Pad(bits, 5 * d - 3) \in Bit /\ Pad(bits, 5 * d - 2) \in Bit
  BY PadIsBit
<1> QED BY <1>1 DEF Digit, Bit, Chars

(* A turn of the loop moves on by one digit. *)
LEMMA TurnIs ==
  ASSUME NEW bits \in [1..128 -> Bit], NEW n \in 0..25
  PROVE  Turn(Halfway(bits, n)) = Halfway(bits, n + 1)
<1> DEFINE hi == Halfway(bits, n).hi   lo == Halfway(bits, n).lo   out == Halfway(bits, n).out
           low == Shr(lo, 5)   carry == Shl(hi, 59)   high == Shr(hi, 5)   next == Or(low, carry)
           digit == Number(Part(lo, 59, 5))
<1>1. /\ DOMAIN hi = 1..64 /\ hi = [k \in 1..64 |-> hi[k]]
      /\ DOMAIN lo = 1..64 /\ lo = [k \in 1..64 |-> lo[k]]
      /\ out = [k \in 1..n |-> Digit(bits, 26 - n + k)]
      /\ \A k \in 1..64 : hi[k] = Pad(bits, k - 5 * n) /\ lo[k] = Pad(bits, 64 + k - 5 * n)
  BY DEF Halfway
<1>2. hi \in Bit64 /\ lo \in Bit64
  <2> HIDE DEF hi, lo
  <2>1. ASSUME NEW k \in 1..64 PROVE hi[k] \in Bit /\ lo[k] \in Bit
    <3>1. k - 5 * n \in Int /\ k - 5 * n <= 128 /\ 64 + k - 5 * n \in Int /\ 64 + k - 5 * n <= 128
      OBVIOUS
    <3>2. Pad(bits, k - 5 * n) \in Bit /\ Pad(bits, 64 + k - 5 * n) \in Bit
      BY <3>1, PadIsBit
    <3> QED BY <1>1, <3>2
  <2> QED BY <1>1, <2>1 DEF Bit64
<1>3. Turn(Halfway(bits, n)) = [hi |-> high, lo |-> next, out |-> Join(<<digit>>, out)]
  BY DEF Turn, Shift, Part, Join
<1> HIDE DEF hi, lo, out
<1>4. /\ high \in Bit64 /\ \A k \in 1..5 : high[k] = 0
      /\ \A k \in 1..59 : high[5 + k] = hi[k]
  BY <1>2, ShrIs
<1>5. /\ low \in Bit64 /\ \A k \in 1..5 : low[k] = 0
      /\ \A k \in 1..59 : low[5 + k] = lo[k]
  BY <1>2, ShrIs
<1>6. /\ carry \in Bit64 /\ \A k \in 1..5 : carry[k] = hi[59 + k]
      /\ \A k \in 1..59 : carry[5 + k] = 0
  <2>1. 5 \in Nat /\ 59 \in Nat /\ 59 + 5 <= 64 /\ 64 <= 59 + 5
    OBVIOUS
  <2>2. ASSUME NEW l \in Nat, NEW r \in Nat, l + r <= 64, 64 <= l + r
        PROVE  /\ Shl(hi, l) \in Bit64 /\ \A k \in 1..r : Shl(hi, l)[k] = hi[l + k]
               /\ \A k \in 1..l : Shl(hi, l)[r + k] = 0
    BY <1>2, <2>2, ShlIs
  <2> QED BY <2>1, <2>2
<1> HIDE DEF high, low, carry
<1>7. /\ next \in Bit64
      /\ \A k \in 1..64 : (low[k] = 0 => next[k] = carry[k]) /\ (carry[k] = 0 => next[k] = low[k])
  BY <1>5, <1>6, OrIs
<1> HIDE DEF next, digit
<1>8. high = Halfway(bits, n + 1).hi
  <2>1. ASSUME NEW k \in 1..64 PROVE high[k] = Pad(bits, k - 5 * (n + 1))
    <3>1. CASE k <= 5
      BY <1>4, <3>1 DEF Pad
    <3>2. CASE k > 5
      <4>1. PICK i \in 1..59 : k = 5 + i
        BY <3>2
      <4>2. k - 5 * (n + 1) = i - 5 * n /\ i \in 1..64
        BY <4>1
      <4> QED BY <1>1, <1>4, <4>1, <4>2
    <3> QED BY <3>1, <3>2
  <2> QED BY <1>4, <2>1 DEF Halfway, Bit64
<1>9. next = Halfway(bits, n + 1).lo
  <2>1. ASSUME NEW k \in 1..64 PROVE next[k] = Pad(bits, 64 + k - 5 * (n + 1))
    <3>1. CASE k <= 5
      <4>1. 64 + k - 5 * (n + 1) = (59 + k) - 5 * n /\ 59 + k \in 1..64 /\ k \in 1..5
        BY <3>1
      <4>2. hi[59 + k] = Pad(bits, (59 + k) - 5 * n)
        BY <1>1, <4>1
      <4> QED BY <1>5, <1>6, <1>7, <4>1, <4>2
    <3>2. CASE k > 5
      <4>1. PICK i \in 1..59 : k = 5 + i
        BY <3>2
      <4>2. 64 + k - 5 * (n + 1) = 64 + i - 5 * n /\ i \in 1..64
        BY <4>1
      <4>3. next[k] = lo[i]
        BY <1>5, <1>6, <1>7, <4>1
      <4> QED BY <1>1, <4>2, <4>3
    <3> QED BY <3>1, <3>2
  <2> QED BY <1>7, <2>1 DEF Halfway, Bit64
<1>10. digit = Digit(bits, 26 - n)
  <2>1. \A k \in 1..5 : lo[59 + k] \in Nat
    BY <1>2 DEF Bit64, Bit
  <2>2. 59 \in Nat /\ 5 \in Nat
    OBVIOUS
  <2>3. \A k \in 1..5 : Part(lo, 59, 5)[k] = lo[59 + k]
    <3>1. ASSUME NEW l \in Nat, NEW r \in Nat, \A k \in 1..r : lo[l + k] \in Nat
          PROVE  \A k \in 1..r : Part(lo, l, r)[k] = lo[l + k]
      BY <3>1, PartIs
    <3> QED BY <2>1, <2>2, <3>1
  <2>4. /\ lo[60] = Pad(bits, 64 + 60 - 5 * n) /\ lo[61] = Pad(bits, 64 + 61 - 5 * n)
        /\ lo[62] = Pad(bits, 64 + 62 - 5 * n) /\ lo[63] = Pad(bits, 64 + 63 - 5 * n)
        /\ lo[64] = Pad(bits, 64 + 64 - 5 * n)
    BY <1>1
  <2>5. /\ 5 * (26 - n) - 6 = 64 + 60 - 5 * n /\ 5 * (26 - n) - 5 = 64 + 61 - 5 * n
        /\ 5 * (26 - n) - 4 = 64 + 62 - 5 * n /\ 5 * (26 - n) - 3 = 64 + 63 - 5 * n
        /\ 5 * (26 - n) - 2 = 64 + 64 - 5 * n
    OBVIOUS
  <2>6. Digit(bits, 26 - n) = 16 * lo[60] + 8 * lo[61] + 4 * lo[62] + 2 * lo[63] + lo[64]
    BY <2>4, <2>5 DEF Digit
  <2> QED BY <2>3, <2>6 DEF digit, Number
<1>11. Join(<<digit>>, out) = Halfway(bits, n + 1).out
  <2>1. \A d \in 1..26 : Digit(bits, d) \in Nat
    BY DigitIsChar DEF Chars
  <2>2. <<digit>> \in [1..1 -> Nat] /\ out \in [1..n -> Nat] /\ 1 \in Nat /\ n \in Nat
    <3>1. 1 \in Nat /\ n \in Nat /\ digit \in Nat
      BY <1>10, <2>1
    <3>2. ASSUME NEW k \in 1..n PROVE Digit(bits, 26 - n + k) \in Nat
      <4>1. 26 - n + k \in 1..26
        OBVIOUS
      <4> QED BY <2>1, <4>1
    <3> QED BY <1>1, <3>1, <3>2
  <2> DEFINE t == Join(<<digit>>, out)
  <2>3. /\ t \in [1..(1 + n) -> Nat]
        /\ \A k \in 1..1 : t[k] = <<digit>>[k]
        /\ \A k \in 1..n : t[1 + k] = out[k]
    BY <2>2, JoinIs
  <2> HIDE DEF t
  <2>4. ASSUME NEW k \in 1..(n + 1) PROVE t[k] = Digit(bits, 26 - (n + 1) + k)
    <3>1. CASE k = 1
      <4>1. 26 - (n + 1) + k = 26 - n /\ t[k] = digit
        BY <2>3, <3>1
      <4> QED BY <1>10, <4>1
    <3>2. CASE k > 1
      <4>1. PICK i \in 1..n : k = 1 + i
        BY <3>2
      <4>2. 26 - (n + 1) + k = 26 - n + i
        BY <4>1
      <4> QED BY <1>1, <2>3, <4>1, <4>2
    <3> QED BY <3>1, <3>2
  <2>5. DOMAIN t = 1..(n + 1) /\ t = [k \in DOMAIN t |-> t[k]]
    BY <2>3
  <2>6. t = [k \in 1..(n + 1) |-> Digit(bits, 26 - (n + 1) + k)]
    BY <2>4, <2>5
  <2> QED BY <2>6 DEF t, Halfway
<1>12. Halfway(bits, n + 1) = [hi |-> Halfway(bits, n + 1).hi, lo |-> Halfway(bits, n + 1).lo,
                               out |-> Halfway(bits, n + 1).out]
  BY DEF Halfway
<1> QED BY <1>3, <1>8, <1>9, <1>11, <1>12

(* The bits of a word, byte by byte. *)
LEMMA WordIs ==
  ASSUME NEW n \in Nat, NEW b \in Seq(Byte), Len(b) = n
  PROVE  /\ Word(b) \in [1..(8 * n) -> Bit]
         /\ \A i \in 1..n, j \in 1..8 : Word(b)[8 * (i - 1) + j] = Bits(b[i])[j]
<1>1. \A i \in 1..n : b[i] \in Byte
  OBVIOUS
<1>2. /\ Word(b) = [k \in 1..(8 * n) |-> Word(b)[k]]
      /\ \A k \in 1..(8 * n) : Word(b)[k] = Bits(b[(k + 7) \div 8])[((k - 1) % 8) + 1]
  BY DEF Word
<1>3. ASSUME NEW k \in 1..(8 * n) PROVE Word(b)[k] \in Bit
  <2>1. (k + 7) \div 8 \in 1..n /\ ((k - 1) % 8) + 1 \in 1..8
    OBVIOUS
  <2>2. Bits(b[(k + 7) \div 8]) \in [1..8 -> Bit]
    BY <1>1, <2>1, BitsAre
  <2> QED BY <1>2, <2>1, <2>2
<1>4. ASSUME NEW i \in 1..n, NEW j \in 1..8
      PROVE  Word(b)[8 * (i - 1) + j] = Bits(b[i])[j]
  <2> DEFINE k == 8 * (i - 1) + j
  <2>1. k \in 1..(8 * n) /\ (k + 7) \div 8 = i /\ ((k - 1) % 8) + 1 = j
    OBVIOUS
  <2> QED BY <1>2, <2>1
<1> QED BY <1>2, <1>3, <1>4

(* Where the loop starts. *)
LEMMA StartIs ==
  ASSUME NEW b \in Seq(Byte), Len(b) = 16
  PROVE  [hi |-> Word(SubSeq(b, 1, 8)), lo |-> Word(SubSeq(b, 9, 16)), out |-> <<>>]
           = Halfway(Word(b), 0)
<1> DEFINE upper == SubSeq(b, 1, 8)   lower == SubSeq(b, 9, 16)
<1>1. \A i \in 1..16 : b[i] \in Byte
  <2>1. b \in [1..Len(b) -> Byte]
    BY AsFunction
  <2> QED BY <2>1
<1>2. /\ upper \in Seq(Byte) /\ Len(upper) = 8 /\ \A i \in 1..8 : upper[i] = b[i]
      /\ lower \in Seq(Byte) /\ Len(lower) = 8 /\ \A i \in 1..8 : lower[i] = b[8 + i]
  BY <1>1, SubSeqProperties
<1> HIDE DEF upper, lower
<1>3. /\ Word(upper) = [k \in 1..64 |-> Word(upper)[k]]
      /\ \A k \in 1..64 : Word(upper)[k] = Bits(upper[(k + 7) \div 8])[((k - 1) % 8) + 1]
      /\ Word(lower) = [k \in 1..64 |-> Word(lower)[k]]
      /\ \A k \in 1..64 : Word(lower)[k] = Bits(lower[(k + 7) \div 8])[((k - 1) % 8) + 1]
      /\ \A k \in 1..128 : Word(b)[k] = Bits(b[(k + 7) \div 8])[((k - 1) % 8) + 1]
  BY <1>2 DEF Word
<1>4. ASSUME NEW k \in 1..64 PROVE Word(upper)[k] = Pad(Word(b), k - 5 * 0)
  <2>1. (k + 7) \div 8 \in 1..8 /\ k \in 1..128 /\ k - 5 * 0 = k /\ ~(k < 1)
    OBVIOUS
  <2>2. Word(upper)[k] = Bits(b[(k + 7) \div 8])[((k - 1) % 8) + 1]
    BY <1>2, <1>3, <2>1
  <2>3. Word(b)[k] = Bits(b[(k + 7) \div 8])[((k - 1) % 8) + 1]
    BY <1>3, <2>1
  <2> QED BY <2>1, <2>2, <2>3 DEF Pad
<1>5. ASSUME NEW k \in 1..64 PROVE Word(lower)[k] = Pad(Word(b), 64 + k - 5 * 0)
  <2>1. PICK m \in 1..128 : m = 64 + k
    OBVIOUS
  <2>2. /\ (k + 7) \div 8 \in 1..8 /\ 64 + k - 5 * 0 = m /\ ~(m < 1)
        /\ (m + 7) \div 8 = 8 + ((k + 7) \div 8) /\ (m - 1) % 8 = (k - 1) % 8
    BY <2>1
  <2>3. Word(lower)[k] = Bits(b[8 + ((k + 7) \div 8)])[((k - 1) % 8) + 1]
    BY <1>2, <1>3, <2>2
  <2>4. Word(b)[m] = Bits(b[(m + 7) \div 8])[((m - 1) % 8) + 1]
    BY <1>3
  <2> QED BY <2>2, <2>3, <2>4 DEF Pad
<1>6. Word(upper) = Halfway(Word(b), 0).hi /\ Word(lower) = Halfway(Word(b), 0).lo
  BY <1>3, <1>4, <1>5 DEF Halfway
<1>7. <<>> = Halfway(Word(b), 0).out
  BY DEF Halfway
<1>8. Halfway(Word(b), 0) = [hi |-> Halfway(Word(b), 0).hi, lo |-> Halfway(Word(b), 0).lo,
                             out |-> Halfway(Word(b), 0).out]
  BY DEF Halfway
<1> QED BY <1>6, <1>7, <1>8 DEF upper, lower

(* Every set of numbers that is not empty has a least one. *)
LEMMA Least ==
  ASSUME NEW T \in SUBSET Nat, T # {}
  PROVE  \E n \in T : \A m \in T : n <= m
<1>1. PICK n \in T : \A m \in T : ~(<<m, n>> \in OpToRel(<, Nat))
  BY NatLessThanWellFounded, WFMin
<1>2. \A m \in T : ~(m < n)
  BY <1>1 DEF OpToRel
<1> QED BY <1>2

(* The digits are groups of five of the 130 bits. *)
LEMMA EncodeIs ==
  ASSUME NEW b \in Seq(Byte), Len(b) = 16
  PROVE  encodeBase32(b) = [d \in 1..26 |-> Digit(Word(b), d)]
<1> DEFINE start == [hi |-> Word(SubSeq(b, 1, 8)), lo |-> Word(SubSeq(b, 9, 16)), out |-> <<>>]
           Loop(f) == f = [turns \in 0..26 |-> IF turns = 0 THEN start ELSE Turn(f[turns - 1])]
           after == CHOOSE f : Loop(f)
           closed == [n \in 0..26 |-> Halfway(Word(b), n)]
<1>1. encodeBase32(b) = after[26].out
  BY DEF encodeBase32
<1>2. start = Halfway(Word(b), 0)
  BY StartIs
<1>3. Word(b) \in [1..128 -> Bit]
  <2>1. ASSUME NEW n \in Nat, Len(b) = n PROVE Word(b) \in [1..(8 * n) -> Bit]
    BY <2>1, WordIs
  <2>2. Word(b) \in [1..(8 * 16) -> Bit]
    BY <2>1
  <2> QED BY <2>2
<1> HIDE DEF start
<1>4. Loop(closed)
  <2>1. ASSUME NEW n \in 0..26
        PROVE  closed[n] = IF n = 0 THEN start ELSE Turn(closed[n - 1])
    <3>1. CASE n = 0
      BY <1>2, <3>1
    <3>2. CASE n # 0
      <4>1. PICK m \in 0..25 : n = m + 1
        BY <3>2
      <4>2. n - 1 = m /\ m \in 0..26
        BY <4>1
      <4>3. Turn(Halfway(Word(b), m)) = Halfway(Word(b), m + 1)
        BY <1>3, TurnIs
      <4> QED BY <3>2, <4>1, <4>2, <4>3
    <3> QED BY <3>1, <3>2
  <2> QED BY <2>1
<1>5. Loop(after)
  BY <1>4
<1> HIDE DEF after
<1>6. \A n \in 0..26 : after[n] = closed[n]
  <2> SUFFICES ASSUME NEW n0 \in 0..26, after[n0] # closed[n0] PROVE FALSE
    OBVIOUS
  <2> HIDE DEF closed
  <2> DEFINE T == {n \in 0..26 : after[n] # closed[n]}
  <2>1. n0 \in T /\ \A n \in T : n \in Nat
    <3>1. n0 \in T
      OBVIOUS
    <3>2. \A n \in T : n \in 0..26
      OBVIOUS
    <3> HIDE DEF T
    <3> QED BY <3>1, <3>2
  <2>2. PICK n \in T : \A m \in T : n <= m
    <3>1. T \in SUBSET Nat /\ T # {}
      BY <2>1
    <3> HIDE DEF T
    <3> QED BY <3>1, Least
  <2>3. n \in 0..26 /\ after[n] # closed[n]
    OBVIOUS
  <2>4. n # 0
    BY <1>4, <1>5, <2>3
  <2>5. n - 1 \in 0..26 /\ n - 1 \notin T
    <3>1. n - 1 \in 0..26 /\ ~(n <= n - 1)
      BY <2>3, <2>4
    <3> HIDE DEF T
    <3> QED BY <2>2, <3>1
  <2>6. after[n - 1] = closed[n - 1]
    BY <2>5
  <2>7. after[n] = Turn(after[n - 1])
    BY <1>5, <2>3, <2>4
  <2>8. closed[n] = Turn(closed[n - 1])
    BY <1>4, <2>3, <2>4
  <2> QED BY <2>3, <2>6, <2>7, <2>8
<1>7. after[26] = Halfway(Word(b), 26)
  BY <1>6
<1>8. Halfway(Word(b), 26).out = [d \in 1..26 |-> Digit(Word(b), 26 - 26 + d)]
  BY DEF Halfway
<1>9. [d \in 1..26 |-> Digit(Word(b), 26 - 26 + d)] = [d \in 1..26 |-> Digit(Word(b), d)]
  <2>1. \A d \in 1..26 : 26 - 26 + d = d
    OBVIOUS
  <2> QED BY <2>1
<1> QED BY <1>1, <1>7, <1>8, <1>9

(* The five bits of a digit, read back from it. *)
LEMMA DigitBits ==
  ASSUME NEW bits \in [1..128 -> Bit], NEW d \in 1..26
  PROVE  /\ Digit(bits, d) \in Byte
         /\ \A m \in 1..3 : Bits(Digit(bits, d))[m] = 0
         /\ \A m \in 1..5 : Bits(Digit(bits, d))[3 + m] = Pad(bits, 5 * d - 7 + m)
<1> DEFINE p == Pad(bits, 5 * d - 6)   q == Pad(bits, 5 * d - 5)   r == Pad(bits, 5 * d - 4)
           s == Pad(bits, 5 * d - 3)   t == Pad(bits, 5 * d - 2)   c == Digit(bits, d)
<1>1. p \in Bit /\ q \in Bit /\ r \in Bit /\ s \in Bit /\ t \in Bit
  BY PadIsBit
<1>2. c = 16 * p + 8 * q + 4 * r + 2 * s + t
  BY DEF Digit
<1>3. \A m \in 1..5 : Pad(bits, 5 * d - 7 + m) =
        CASE m = 1 -> p [] m = 2 -> q [] m = 3 -> r [] m = 4 -> s [] m = 5 -> t
  <2>1. /\ 5 * d - 7 + 1 = 5 * d - 6 /\ 5 * d - 7 + 2 = 5 * d - 5 /\ 5 * d - 7 + 3 = 5 * d - 4
        /\ 5 * d - 7 + 4 = 5 * d - 3 /\ 5 * d - 7 + 5 = 5 * d - 2
    OBVIOUS
  <2> QED BY <2>1
<1> HIDE DEF p, q, r, s, t, c
<1>4. /\ c \in Byte
      /\ Bits(c)[1] = 0 /\ Bits(c)[2] = 0 /\ Bits(c)[3] = 0
      /\ Bits(c)[4] = p /\ Bits(c)[5] = q /\ Bits(c)[6] = r /\ Bits(c)[7] = s /\ Bits(c)[8] = t
  <2>1. /\ Bits(c)[1] = (c \div 128) % 2 /\ Bits(c)[2] = (c \div 64) % 2
        /\ Bits(c)[3] = (c \div 32) % 2 /\ Bits(c)[4] = (c \div 16) % 2
        /\ Bits(c)[5] = (c \div 8) % 2 /\ Bits(c)[6] = (c \div 4) % 2
        /\ Bits(c)[7] = (c \div 2) % 2 /\ Bits(c)[8] = (c \div 1) % 2
    BY DEF Bits
  <2> QED BY <1>1, <1>2, <2>1 DEF Bit, Byte
<1>5. \A m \in 1..5 : Bits(c)[3 + m] = Pad(bits, 5 * d - 7 + m)
  BY <1>3, <1>4
<1> QED BY <1>4, <1>5 DEF c

(* ULIDTime after n characters. *)
Read(bits, n) == [k \in 1..64 |-> Pad(bits, 5 * n - 66 + k)]

(* A turn of its loop reads one more digit. *)
LEMMA ReadNext ==
  ASSUME NEW bits \in [1..128 -> Bit], NEW n \in 0..9
  PROVE  Or(Shl(Read(bits, n), 5), Zeros(56) \o Bits(Digit(bits, n + 1))) = Read(bits, n + 1)
<1> DEFINE ms == Read(bits, n)   up == Shl(ms, 5)   c == Digit(bits, n + 1)
           z == Zeros(56)   u == Bits(c)   v == Join(z, u)   next == Or(up, v)
<1>1. \A k \in 1..64 : ms[k] = Pad(bits, 5 * n - 66 + k)
  BY DEF Read
<1>2. ms \in Bit64
  <2>1. ASSUME NEW k \in 1..64 PROVE Pad(bits, 5 * n - 66 + k) \in Bit
    <3>1. 5 * n - 66 + k \in Int /\ 5 * n - 66 + k <= 128
      OBVIOUS
    <3> QED BY <3>1, PadIsBit
  <2> QED BY <2>1 DEF Read, Bit64
<1>3. n + 1 \in 1..26
  OBVIOUS
<1>4. /\ c \in Byte /\ \A m \in 1..3 : Bits(c)[m] = 0
      /\ \A m \in 1..5 : Bits(c)[3 + m] = Pad(bits, 5 * (n + 1) - 7 + m)
  BY <1>3, DigitBits
<1>5. Or(Shl(Read(bits, n), 5), Zeros(56) \o Bits(Digit(bits, n + 1))) = next
  BY DEF Join
<1> HIDE DEF ms, c
<1>6. /\ up \in Bit64 /\ \A k \in 1..59 : up[k] = ms[5 + k]
      /\ \A k \in 1..5 : up[59 + k] = 0
  <2>1. 5 \in Nat /\ 59 \in Nat /\ 5 + 59 <= 64 /\ 64 <= 5 + 59
    OBVIOUS
  <2>2. ASSUME NEW l \in Nat, NEW r \in Nat, l + r <= 64, 64 <= l + r
        PROVE  /\ Shl(ms, l) \in Bit64 /\ \A k \in 1..r : Shl(ms, l)[k] = ms[l + k]
               /\ \A k \in 1..l : Shl(ms, l)[r + k] = 0
    BY <1>2, <2>2, ShlIs
  <2> QED BY <2>1, <2>2
<1>7. u \in [1..8 -> Bit] /\ u \in [1..8 -> Nat]
  <2>1. u \in [1..8 -> Bit]
    BY <1>4, BitsAre
  <2> QED BY <2>1 DEF Bit
<1>8. z \in [1..56 -> Nat] /\ \A k \in 1..56 : z[k] = 0
  BY ZerosAre
<1> HIDE DEF up, z, u
<1>9. /\ v \in [1..64 -> Nat]
      /\ \A k \in 1..56 : v[k] = 0
      /\ \A k \in 1..8 : v[56 + k] = u[k]
  <2>1. 56 \in Nat /\ 8 \in Nat
    OBVIOUS
  <2>2. /\ Join(z, u) \in [1..(56 + 8) -> Nat]
        /\ \A k \in 1..56 : Join(z, u)[k] = z[k]
        /\ \A k \in 1..8 : Join(z, u)[56 + k] = u[k]
    BY ONLY <1>7, <1>8, <2>1, JoinIs, Zenon
  <2> QED BY <1>8, <2>2
<1> HIDE DEF v
<1>10. v \in Bit64
  <2>1. ASSUME NEW k \in 1..64 PROVE v[k] \in Bit
    <3>1. CASE k <= 56
      BY <1>9, <3>1 DEF Bit
    <3>2. CASE k > 56
      <4>1. PICK i \in 1..8 : k = 56 + i
        BY <3>2
      <4> QED BY <1>7, <1>9, <4>1
    <3> QED BY <3>1, <3>2
  <2> QED BY <1>9, <2>1 DEF Bit64
<1>11. /\ next \in Bit64
       /\ \A k \in 1..64 : (up[k] = 0 => next[k] = v[k]) /\ (v[k] = 0 => next[k] = up[k])
  BY <1>6, <1>10, OrIs
<1> HIDE DEF next
<1>12. ASSUME NEW k \in 1..64 PROVE next[k] = Pad(bits, 5 * (n + 1) - 66 + k)
  <2>1. CASE k <= 59
    <3>1. v[k] = 0
      <4>1. CASE k <= 56
        BY <1>9, <4>1
      <4>2. CASE k > 56
        <5>1. PICK i \in 1..3 : k = 56 + i
          BY <2>1, <4>2
        <5> QED BY <1>4, <1>9, <5>1 DEF u
      <4> QED BY <4>1, <4>2
    <3>2. next[k] = ms[5 + k]
      BY <1>6, <1>11, <2>1, <3>1
    <3>3. 5 + k \in 1..64 /\ 5 * n - 66 + (5 + k) = 5 * (n + 1) - 66 + k
      BY <2>1
    <3> QED BY <1>1, <3>2, <3>3
  <2>2. CASE k > 59
    <3>1. PICK m \in 1..5 : k = 59 + m
      BY <2>2
    <3>2. 56 + (3 + m) = k /\ 3 + m \in 1..8 /\ 5 * (n + 1) - 7 + m = 5 * (n + 1) - 66 + k
      BY <3>1
    <3>3. next[k] = v[k]
      BY <1>6, <1>11, <3>1
    <3>4. v[k] = Bits(c)[3 + m]
      BY <1>9, <3>2 DEF u
    <3> QED BY <1>4, <3>2, <3>3, <3>4
  <2> QED BY <2>1, <2>2
<1>13. next = Read(bits, n + 1)
  BY <1>11, <1>12 DEF Read, Bit64
<1> QED BY <1>5, <1>13

(* ULIDTime reads the first 48 bits. *)
LEMMA TimeIs ==
  ASSUME NEW bits \in [1..128 -> Bit], NEW s, s = [d \in 1..26 |-> Digit(bits, d)]
  PROVE  ULIDTime(s) = [k \in 1..64 |-> Pad(bits, k - 16)]
<1> DEFINE Loop(f) == f = [i \in 0..10 |-> IF i = 0 THEN Zeros(64)
                                           ELSE Or(Shl(f[i - 1], 5), Zeros(56) \o Bits(s[i]))]
           ms == CHOOSE f : Loop(f)
           closed == [i \in 0..10 |-> Read(bits, i)]
<1>1. ULIDTime(s) = ms[10]
  BY DEF ULIDTime
<1>2. Zeros(64) = Read(bits, 0)
  <2>1. \A k \in 1..64 : Pad(bits, 5 * 0 - 66 + k) = 0
    BY DEF Pad
  <2> QED BY <2>1 DEF Zeros, Read
<1>3. ASSUME NEW m \in 0..9
      PROVE  Or(Shl(Read(bits, m), 5), Zeros(56) \o Bits(s[m + 1])) = Read(bits, m + 1)
  <2>1. s[m + 1] = Digit(bits, m + 1)
    OBVIOUS
  <2> QED BY <2>1, ReadNext
<1>4. Loop(closed)
  <2>1. ASSUME NEW n \in 0..10
        PROVE  closed[n] = IF n = 0 THEN Zeros(64)
                           ELSE Or(Shl(closed[n - 1], 5), Zeros(56) \o Bits(s[n]))
    <3>1. CASE n = 0
      BY <1>2, <3>1
    <3>2. CASE n # 0
      <4>1. PICK m \in 0..9 : n = m + 1
        BY <3>2
      <4>2. n - 1 = m /\ m \in 0..10
        BY <4>1
      <4> QED BY <1>3, <3>2, <4>1, <4>2
    <3> QED BY <3>1, <3>2
  <2> QED BY <2>1
<1>5. Loop(ms)
  BY <1>4
<1> HIDE DEF ms
<1>6. \A n \in 0..10 : ms[n] = closed[n]
  <2> SUFFICES ASSUME NEW n0 \in 0..10, ms[n0] # closed[n0] PROVE FALSE
    OBVIOUS
  <2> HIDE DEF closed
  <2> DEFINE T == {n \in 0..10 : ms[n] # closed[n]}
  <2>1. n0 \in T /\ \A n \in T : n \in Nat
    <3>1. n0 \in T
      OBVIOUS
    <3>2. \A n \in T : n \in 0..10
      OBVIOUS
    <3> HIDE DEF T
    <3> QED BY <3>1, <3>2
  <2>2. PICK n \in T : \A m \in T : n <= m
    <3>1. T \in SUBSET Nat /\ T # {}
      BY <2>1
    <3> HIDE DEF T
    <3> QED BY <3>1, Least
  <2>3. n \in 0..10 /\ ms[n] # closed[n]
    OBVIOUS
  <2>4. n # 0
    BY <1>4, <1>5, <2>3
  <2>5. n - 1 \in 0..10 /\ n - 1 \notin T
    <3>1. n - 1 \in 0..10 /\ ~(n <= n - 1)
      BY <2>3, <2>4
    <3> HIDE DEF T
    <3> QED BY <2>2, <3>1
  <2>6. ms[n - 1] = closed[n - 1]
    BY <2>5
  <2>7. ms[n] = Or(Shl(ms[n - 1], 5), Zeros(56) \o Bits(s[n]))
    BY <1>5, <2>3, <2>4
  <2>8. closed[n] = Or(Shl(closed[n - 1], 5), Zeros(56) \o Bits(s[n]))
    BY <1>4, <2>3, <2>4
  <2> QED BY <2>3, <2>6, <2>7, <2>8
<1>7. ms[10] = Read(bits, 10)
  BY <1>6
<1>8. Read(bits, 10) = [k \in 1..64 |-> Pad(bits, k - 16)]
  <2>1. \A k \in 1..64 : 5 * 10 - 66 + k = k - 16
    OBVIOUS
  <2> QED BY <2>1 DEF Read
<1> QED BY <1>1, <1>7, <1>8

(* What an instant and the randomness are. *)
SixBytes(b) == b \in Seq(Byte) /\ Len(b) = 6
TenBytes(b) == b \in Seq(Byte) /\ Len(b) = 10

(* Time first, randomness after it. *)
LEMMA IdBytes ==
  ASSUME NEW instant, NEW random, SixBytes(instant), TenBytes(random)
  PROVE  /\ Join(instant, random) \in Seq(Byte) /\ Len(Join(instant, random)) = 16
         /\ \A i \in 1..6 : Join(instant, random)[i] = instant[i]
         /\ \A i \in 1..10 : Join(instant, random)[6 + i] = random[i]
<1> DEFINE b == Join(instant, random)
<1>1. /\ b \in Seq(Byte) /\ Len(b) = Len(instant) + Len(random)
      /\ \A i \in 1..(Len(instant) + Len(random)) :
           b[i] = IF i <= Len(instant) THEN instant[i] ELSE random[i - Len(instant)]
  BY ConcatProperties DEF SixBytes, TenBytes, Join
<1> HIDE DEF b
<1>2. \A i \in 1..16 : b[i] = IF i <= 6 THEN instant[i] ELSE random[i - 6]
  BY <1>1 DEF SixBytes, TenBytes
<1>3. Len(b) = 16
  BY <1>1 DEF SixBytes, TenBytes
<1>4. \A i \in 1..6 : b[i] = instant[i]
  BY <1>2
<1>5. ASSUME NEW i \in 1..10 PROVE b[6 + i] = random[i]
  <2>1. 6 + i \in 1..16 /\ ~(6 + i <= 6) /\ (6 + i) - 6 = i
    OBVIOUS
  <2> QED BY <1>2, <2>1
<1> QED BY <1>1, <1>3, <1>4, <1>5 DEF b

(* The 128 bits of an id. *)
IdBits(instant, random) == Word(Join(instant, random))

(* They are the bits of its bytes. *)
LEMMA IdBitsAre ==
  ASSUME NEW instant, NEW random, SixBytes(instant), TenBytes(random)
  PROVE  /\ IdBits(instant, random) \in [1..128 -> Bit]
         /\ \A i \in 1..6, j \in 1..8 :
              IdBits(instant, random)[8 * (i - 1) + j] = Bits(instant[i])[j]
         /\ \A i \in 1..10, j \in 1..8 :
              IdBits(instant, random)[8 * (5 + i) + j] = Bits(random[i])[j]
<1> DEFINE b == Join(instant, random)   bits == IdBits(instant, random)
<1>1. /\ b \in Seq(Byte) /\ Len(b) = 16
      /\ \A i \in 1..6 : b[i] = instant[i]
      /\ \A i \in 1..10 : b[6 + i] = random[i]
  BY IdBytes
<1>2. bits = Word(b)
  BY DEF IdBits
<1> HIDE DEF b, bits
<1>3. ASSUME NEW n \in Nat, Len(b) = n
      PROVE  /\ bits \in [1..(8 * n) -> Bit]
             /\ \A i \in 1..n, j \in 1..8 : bits[8 * (i - 1) + j] = Bits(b[i])[j]
  <2>1. /\ Word(b) \in [1..(8 * n) -> Bit]
        /\ \A i \in 1..n, j \in 1..8 : Word(b)[8 * (i - 1) + j] = Bits(b[i])[j]
    BY ONLY <1>1, <1>3, WordIs
  <2> QED BY ONLY <1>2, <2>1, Zenon
<1>4. /\ bits \in [1..(8 * 16) -> Bit]
      /\ \A i \in 1..16, j \in 1..8 : bits[8 * (i - 1) + j] = Bits(b[i])[j]
  BY <1>1, <1>3
<1>5. bits \in [1..128 -> Bit]
  BY <1>4
<1>6. ASSUME NEW i \in 1..6, NEW j \in 1..8
      PROVE  bits[8 * (i - 1) + j] = Bits(instant[i])[j]
  <2>1. i \in 1..16 /\ b[i] = instant[i]
    BY <1>1
  <2>2. bits[8 * (i - 1) + j] = Bits(b[i])[j]
    BY <1>4, <2>1
  <2> QED BY <2>1, <2>2
<1>7. ASSUME NEW i \in 1..10, NEW j \in 1..8
      PROVE  bits[8 * (5 + i) + j] = Bits(random[i])[j]
  <2>1. PICK m \in 1..16 : m = 6 + i
    OBVIOUS
  <2>2. 8 * (5 + i) + j = 8 * (m - 1) + j /\ b[m] = random[i]
    BY <1>1, <2>1
  <2> QED BY <1>4, <2>2
<1> QED BY <1>5, <1>6, <1>7 DEF bits

(* An id is their groups of five. *)
LEMMA NewULIDIs ==
  ASSUME NEW instant, NEW random, SixBytes(instant), TenBytes(random)
  PROVE  NewULID(instant, random) = [d \in 1..26 |-> Digit(IdBits(instant, random), d)]
<1> DEFINE b == Join(instant, random)
<1>1. b \in Seq(Byte) /\ Len(b) = 16
  BY IdBytes
<1>2. encodeBase32(b) = [d \in 1..26 |-> Digit(Word(b), d)]
  BY <1>1, EncodeIs
<1> QED BY <1>2 DEF NewULID, IdBits, Join

(* An id is 26 characters, the first below 8. *)
LEMMA IdIsValid ==
  ASSUME NEW instant, NEW random, SixBytes(instant), TenBytes(random)
  PROVE  ValidULID(NewULID(instant, random))
<1> DEFINE s == NewULID(instant, random)   bits == IdBits(instant, random)
<1>1. bits \in [1..128 -> Bit]
  BY IdBitsAre
<1>2. s = [d \in 1..26 |-> Digit(bits, d)]
  BY NewULIDIs
<1> HIDE DEF s, bits
<1>3. \A d \in 1..26 : s[d] \in Chars
  BY <1>1, <1>2, DigitIsChar
<1>4. Len(s) = 26
  BY <1>2
<1>5. s[1] < 8
  <2>1. Pad(bits, 5 * 1 - 4) \in Bit /\ Pad(bits, 5 * 1 - 3) \in Bit /\ Pad(bits, 5 * 1 - 2) \in Bit
    BY <1>1, PadIsBit
  <2>2. Pad(bits, 5 * 1 - 6) = 0 /\ Pad(bits, 5 * 1 - 5) = 0
    BY DEF Pad
  <2>3. Digit(bits, 1) < 8
    BY <2>1, <2>2 DEF Digit, Bit
  <2> QED BY <1>2, <2>3
<1> QED BY <1>3, <1>4, <1>5 DEF s, ValidULID

(* The time of an id is the instant it was made at. *)
LEMMA IdTime ==
  ASSUME NEW instant, NEW random, SixBytes(instant), TenBytes(random)
  PROVE  ULIDTime(NewULID(instant, random)) = Zeros(16) \o Word(instant)
<1> DEFINE s == NewULID(instant, random)   bits == IdBits(instant, random)
           z == Zeros(16)   w == Word(instant)   t == Join(z, w)
<1>1. /\ bits \in [1..128 -> Bit]
      /\ \A i \in 1..6, j \in 1..8 : bits[8 * (i - 1) + j] = Bits(instant[i])[j]
  BY IdBitsAre
<1>2. s = [d \in 1..26 |-> Digit(bits, d)]
  BY NewULIDIs
<1>3. Zeros(16) \o Word(instant) = t
  BY DEF Join
<1> HIDE DEF s, bits
<1>4. ULIDTime(s) = [k \in 1..64 |-> Pad(bits, k - 16)]
  BY <1>1, <1>2, TimeIs
<1>5. z \in [1..16 -> Nat] /\ \A k \in 1..16 : z[k] = 0
  BY ZerosAre
<1>6. /\ w \in [1..48 -> Bit] /\ w \in [1..48 -> Nat]
      /\ \A i \in 1..6, j \in 1..8 : w[8 * (i - 1) + j] = Bits(instant[i])[j]
  <2>1. ASSUME NEW n \in Nat, Len(instant) = n
        PROVE  /\ Word(instant) \in [1..(8 * n) -> Bit]
               /\ \A i \in 1..n, j \in 1..8 : Word(instant)[8 * (i - 1) + j] = Bits(instant[i])[j]
    BY <2>1, WordIs DEF SixBytes
  <2>2. /\ w \in [1..(8 * 6) -> Bit]
        /\ \A i \in 1..6, j \in 1..8 : w[8 * (i - 1) + j] = Bits(instant[i])[j]
    BY <2>1 DEF SixBytes
  <2>3. w \in [1..48 -> Bit]
    BY <2>2
  <2> QED BY <2>2, <2>3 DEF Bit
<1> HIDE DEF z, w
<1>7. /\ t \in [1..64 -> Nat]
      /\ \A k \in 1..16 : t[k] = z[k]
      /\ \A k \in 1..48 : t[16 + k] = w[k]
  <2>1. 16 \in Nat /\ 48 \in Nat
    OBVIOUS
  <2>2. /\ Join(z, w) \in [1..(16 + 48) -> Nat]
        /\ \A k \in 1..16 : Join(z, w)[k] = z[k]
        /\ \A k \in 1..48 : Join(z, w)[16 + k] = w[k]
    <3>1. ASSUME NEW l \in Nat, NEW r \in Nat, z \in [1..l -> Nat], w \in [1..r -> Nat]
          PROVE  /\ Join(z, w) \in [1..(l + r) -> Nat]
                 /\ \A k \in 1..l : Join(z, w)[k] = z[k]
                 /\ \A k \in 1..r : Join(z, w)[l + k] = w[k]
      BY <3>1, JoinIs
    <3> QED BY <1>5, <1>6, <2>1, <3>1
  <2> QED BY <2>2
<1> HIDE DEF t
<1>8. ASSUME NEW k \in 1..64 PROVE t[k] = Pad(bits, k - 16)
  <2>1. CASE k <= 16
    BY <1>5, <1>7, <2>1 DEF Pad
  <2>2. CASE k > 16
    <3>1. PICK m \in 1..48 : k = 16 + m
      BY <2>2
    <3>2. PICK i \in 1..6, j \in 1..8 : m = 8 * (i - 1) + j
      <4>1. /\ (m + 7) \div 8 \in 1..6 /\ ((m - 1) % 8) + 1 \in 1..8
            /\ m = 8 * (((m + 7) \div 8) - 1) + (((m - 1) % 8) + 1)
        OBVIOUS
      <4> QED BY <4>1
    <3>3. w[m] = bits[m]
      BY <1>1, <1>6, <3>2
    <3>4. k - 16 = m /\ ~(m < 1)
      BY <3>1
    <3> QED BY <1>7, <3>1, <3>3, <3>4 DEF Pad
  <2> QED BY <2>1, <2>2
<1>9. t = [k \in 1..64 |-> Pad(bits, k - 16)]
  BY <1>7, <1>8
<1> QED BY <1>3, <1>4, <1>9 DEF s

(* Different bits, different digits: every bit can be read back. *)
LEMMA SameDigitsSameBits ==
  ASSUME NEW v \in [1..128 -> Bit], NEW w \in [1..128 -> Bit],
         \A d \in 1..26 : Digit(v, d) = Digit(w, d)
  PROVE  v = w
<1>1. ASSUME NEW k \in 1..128 PROVE v[k] = w[k]
  <2>1. PICK d \in 1..26, m \in 1..5 : k = 5 * d - 7 + m
    <3>1. /\ (k + 6) \div 5 \in 1..26 /\ k - (5 * ((k + 6) \div 5) - 7) \in 1..5
          /\ k = 5 * ((k + 6) \div 5) - 7 + (k - (5 * ((k + 6) \div 5) - 7))
      OBVIOUS
    <3> QED BY <3>1
  <2>2. /\ Bits(Digit(v, d))[3 + m] = Pad(v, 5 * d - 7 + m)
        /\ Bits(Digit(w, d))[3 + m] = Pad(w, 5 * d - 7 + m)
    BY DigitBits
  <2>3. Pad(v, k) = Pad(w, k)
    BY <2>1, <2>2
  <2> QED BY <2>3 DEF Pad
<1> QED BY <1>1

(* A byte is determined by its bits. *)
LEMMA SameBitsSameByte ==
  ASSUME NEW b \in Byte, NEW c \in Byte, \A j \in 1..8 : Bits(b)[j] = Bits(c)[j]
  PROVE  b = c
<1>1. /\ b = 128 * Bits(b)[1] + 64 * Bits(b)[2] + 32 * Bits(b)[3] + 16 * Bits(b)[4]
               + 8 * Bits(b)[5] + 4 * Bits(b)[6] + 2 * Bits(b)[7] + Bits(b)[8]
      /\ c = 128 * Bits(c)[1] + 64 * Bits(c)[2] + 32 * Bits(c)[3] + 16 * Bits(c)[4]
               + 8 * Bits(c)[5] + 4 * Bits(c)[6] + 2 * Bits(c)[7] + Bits(c)[8]
  BY BitsAre
<1>2. /\ Bits(b)[1] = Bits(c)[1] /\ Bits(b)[2] = Bits(c)[2] /\ Bits(b)[3] = Bits(c)[3]
      /\ Bits(b)[4] = Bits(c)[4] /\ Bits(b)[5] = Bits(c)[5] /\ Bits(b)[6] = Bits(c)[6]
      /\ Bits(b)[7] = Bits(c)[7] /\ Bits(b)[8] = Bits(c)[8]
  OBVIOUS
<1> QED BY ONLY <1>1, <1>2

(* The bytes of an instant and of the randomness, as functions. *)
LEMMA BytesOf ==
  ASSUME NEW b
  PROVE  /\ SixBytes(b) => b \in [1..6 -> Byte]
         /\ TenBytes(b) => b \in [1..10 -> Byte]
<1>1. b \in Seq(Byte) => b \in [1..Len(b) -> Byte]
  BY AsFunction
<1> QED BY <1>1 DEF SixBytes, TenBytes

(* Ids are alike only for the same instant and the same randomness. *)
LEMMA IdsDiffer ==
  ASSUME NEW instant, NEW random, SixBytes(instant), TenBytes(random),
         NEW later, NEW noise, SixBytes(later), TenBytes(noise),
         NewULID(instant, random) = NewULID(later, noise)
  PROVE  instant = later /\ random = noise
<1> DEFINE v == IdBits(instant, random)   w == IdBits(later, noise)
<1>1. v \in [1..128 -> Bit] /\ w \in [1..128 -> Bit]
  BY IdBitsAre
<1>2. v = w
  <2>1. /\ NewULID(instant, random) = [d \in 1..26 |-> Digit(v, d)]
        /\ NewULID(later, noise) = [d \in 1..26 |-> Digit(w, d)]
    BY NewULIDIs
  <2> HIDE DEF v, w
  <2>2. \A d \in 1..26 : Digit(v, d) = Digit(w, d)
    BY <2>1
  <2> QED BY <1>1, <2>2, SameDigitsSameBits
<1>3. ASSUME NEW i \in 1..6 PROVE instant[i] = later[i]
  <2>1. /\ \A j \in 1..8 : v[8 * (i - 1) + j] = Bits(instant[i])[j]
        /\ \A j \in 1..8 : w[8 * (i - 1) + j] = Bits(later[i])[j]
    BY IdBitsAre
  <2>2. \A j \in 1..8 : Bits(instant[i])[j] = Bits(later[i])[j]
    BY <1>2, <2>1
  <2>3. instant[i] \in Byte /\ later[i] \in Byte
    BY BytesOf
  <2> QED BY <2>2, <2>3, SameBitsSameByte
<1>4. ASSUME NEW i \in 1..10 PROVE random[i] = noise[i]
  <2>1. /\ \A j \in 1..8 : v[8 * (5 + i) + j] = Bits(random[i])[j]
        /\ \A j \in 1..8 : w[8 * (5 + i) + j] = Bits(noise[i])[j]
    BY IdBitsAre
  <2>2. \A j \in 1..8 : Bits(random[i])[j] = Bits(noise[i])[j]
    BY <1>2, <2>1
  <2>3. random[i] \in Byte /\ noise[i] \in Byte
    BY BytesOf
  <2> QED BY <2>2, <2>3, SameBitsSameByte
<1>5. instant = [i \in 1..6 |-> instant[i]] /\ later = [i \in 1..6 |-> later[i]]
  BY BytesOf
<1>6. random = [i \in 1..10 |-> random[i]] /\ noise = [i \in 1..10 |-> noise[i]]
  BY BytesOf
<1> QED BY <1>3, <1>4, <1>5, <1>6

(* The first difference of two words of bits. *)
FirstDiffer(v, w, p) == v[p] < w[p] /\ \A k \in 1..(p - 1) : v[k] = w[k]

(* Bytes compare as their bits do, the highest difference first. *)
LEMMA ByteOrder ==
  ASSUME NEW b \in Byte, NEW c \in Byte, b < c
  PROVE  \E j \in 1..8 : FirstDiffer(Bits(b), Bits(c), j)
<1> DEFINE v == Bits(b)   w == Bits(c)
<1>1. v \in [1..8 -> Bit] /\ w \in [1..8 -> Bit]
  BY BitsAre
<1>2. /\ b = 128 * v[1] + 64 * v[2] + 32 * v[3] + 16 * v[4] + 8 * v[5] + 4 * v[6] + 2 * v[7] + v[8]
      /\ c = 128 * w[1] + 64 * w[2] + 32 * w[3] + 16 * w[4] + 8 * w[5] + 4 * w[6] + 2 * w[7] + w[8]
  BY BitsAre
<1> HIDE DEF v, w
<1>3. \/ v[1] < w[1]
      \/ v[1] = w[1] /\ v[2] < w[2]
      \/ v[1] = w[1] /\ v[2] = w[2] /\ v[3] < w[3]
      \/ v[1] = w[1] /\ v[2] = w[2] /\ v[3] = w[3] /\ v[4] < w[4]
      \/ v[1] = w[1] /\ v[2] = w[2] /\ v[3] = w[3] /\ v[4] = w[4] /\ v[5] < w[5]
      \/ v[1] = w[1] /\ v[2] = w[2] /\ v[3] = w[3] /\ v[4] = w[4] /\ v[5] = w[5] /\ v[6] < w[6]
      \/ /\ v[1] = w[1] /\ v[2] = w[2] /\ v[3] = w[3] /\ v[4] = w[4] /\ v[5] = w[5] /\ v[6] = w[6]
         /\ v[7] < w[7]
      \/ /\ v[1] = w[1] /\ v[2] = w[2] /\ v[3] = w[3] /\ v[4] = w[4] /\ v[5] = w[5] /\ v[6] = w[6]
         /\ v[7] = w[7] /\ v[8] < w[8]
  <2>1. /\ v[1] \in Bit /\ v[2] \in Bit /\ v[3] \in Bit /\ v[4] \in Bit
        /\ v[5] \in Bit /\ v[6] \in Bit /\ v[7] \in Bit /\ v[8] \in Bit
        /\ w[1] \in Bit /\ w[2] \in Bit /\ w[3] \in Bit /\ w[4] \in Bit
        /\ w[5] \in Bit /\ w[6] \in Bit /\ w[7] \in Bit /\ w[8] \in Bit
    BY <1>1
  <2>2. /\ v[1] \in 0..1 /\ v[2] \in 0..1 /\ v[3] \in 0..1 /\ v[4] \in 0..1
        /\ v[5] \in 0..1 /\ v[6] \in 0..1 /\ v[7] \in 0..1 /\ v[8] \in 0..1
        /\ w[1] \in 0..1 /\ w[2] \in 0..1 /\ w[3] \in 0..1 /\ w[4] \in 0..1
        /\ w[5] \in 0..1 /\ w[6] \in 0..1 /\ w[7] \in 0..1 /\ w[8] \in 0..1
    BY <2>1 DEF Bit
  <2>3. b < c
    OBVIOUS
  <2> DEFINE vh == 8 * v[1] + 4 * v[2] + 2 * v[3] + v[4]
             vl == 8 * v[5] + 4 * v[6] + 2 * v[7] + v[8]
             wh == 8 * w[1] + 4 * w[2] + 2 * w[3] + w[4]
             wl == 8 * w[5] + 4 * w[6] + 2 * w[7] + w[8]
  <2>4. /\ vh \in Int /\ vl \in 0..15 /\ wh \in Int /\ wl \in 0..15
        /\ b = 16 * vh + vl /\ c = 16 * wh + wl
    <3>1. vh \in Int /\ wh \in Int
      BY ONLY <2>2
    <3>2. vl \in 0..15 /\ wl \in 0..15
      BY ONLY <2>2
    <3>3. b = 16 * vh + vl
      BY ONLY <1>2, <2>2
    <3>4. c = 16 * wh + wl
      BY ONLY <1>2, <2>2
    <3> QED BY ONLY <3>1, <3>2, <3>3, <3>4
  <2>5. vh < wh => \/ v[1] < w[1]
                   \/ v[1] = w[1] /\ v[2] < w[2]
                   \/ v[1] = w[1] /\ v[2] = w[2] /\ v[3] < w[3]
                   \/ v[1] = w[1] /\ v[2] = w[2] /\ v[3] = w[3] /\ v[4] < w[4]
    BY ONLY <2>2
  <2>6. vh = wh => v[1] = w[1] /\ v[2] = w[2] /\ v[3] = w[3] /\ v[4] = w[4]
    BY ONLY <2>2
  <2>7. vl < wl => \/ v[5] < w[5]
                   \/ v[5] = w[5] /\ v[6] < w[6]
                   \/ v[5] = w[5] /\ v[6] = w[6] /\ v[7] < w[7]
                   \/ v[5] = w[5] /\ v[6] = w[6] /\ v[7] = w[7] /\ v[8] < w[8]
    BY ONLY <2>2
  <2> HIDE DEF vh, vl, wh, wl
  <2>8. vh < wh \/ (vh = wh /\ vl < wl)
    BY ONLY <2>3, <2>4
  <2> QED BY ONLY <2>5, <2>6, <2>7, <2>8, Zenon
<1>4. \E j \in 1..8 : FirstDiffer(v, w, j)
  BY <1>3 DEF FirstDiffer
<1> QED BY <1>4 DEF v, w

(* So do instants, which stand before the randomness. *)
LEMMA InstantOrder ==
  ASSUME NEW instant, NEW random, SixBytes(instant), TenBytes(random),
         NEW later, NEW noise, SixBytes(later), TenBytes(noise),
         Before(instant, later)
  PROVE  \E p \in 1..128 : FirstDiffer(IdBits(instant, random), IdBits(later, noise), p)
<1> DEFINE v == IdBits(instant, random)   w == IdBits(later, noise)
<1>1. /\ \A i \in 1..6, j \in 1..8 : v[8 * (i - 1) + j] = Bits(instant[i])[j]
      /\ \A i \in 1..6, j \in 1..8 : w[8 * (i - 1) + j] = Bits(later[i])[j]
  BY IdBitsAre
<1> HIDE DEF v, w
<1>2. PICK i \in 1..6 : instant[i] < later[i] /\ \A k \in 1..(i - 1) : instant[k] = later[k]
  BY DEF Before, SixBytes
<1>3. instant[i] \in Byte /\ later[i] \in Byte
  BY BytesOf
<1>4. PICK j \in 1..8 : FirstDiffer(Bits(instant[i]), Bits(later[i]), j)
  BY <1>2, <1>3, ByteOrder
<1> DEFINE p == 8 * (i - 1) + j
<1>5. p \in 1..128 /\ v[p] < w[p]
  BY <1>1, <1>4 DEF FirstDiffer
<1>6. ASSUME NEW k \in 1..(p - 1) PROVE v[k] = w[k]
  <2>1. PICK x \in 1..6, y \in 1..8 : k = 8 * (x - 1) + y
    <3>1. /\ (k + 7) \div 8 \in 1..6 /\ ((k - 1) % 8) + 1 \in 1..8
          /\ k = 8 * (((k + 7) \div 8) - 1) + (((k - 1) % 8) + 1)
      OBVIOUS
    <3> QED BY <3>1
  <2>2. v[k] = Bits(instant[x])[y] /\ w[k] = Bits(later[x])[y]
    BY <1>1, <2>1
  <2>3. CASE x < i
    <3>1. x \in 1..(i - 1)
      BY <2>3
    <3> QED BY <1>2, <2>2, <3>1
  <2>4. CASE x >= i
    <3>1. x = i /\ y \in 1..(j - 1)
      BY <2>1, <2>4
    <3> QED BY <1>4, <2>2, <3>1 DEF FirstDiffer
  <2> QED BY <2>3, <2>4
<1>7. FirstDiffer(v, w, p)
  BY <1>5, <1>6 DEF FirstDiffer
<1> QED BY <1>5, <1>7 DEF v, w

(* And the groups of five compare as the bits do. *)
LEMMA DigitOrder ==
  ASSUME NEW v \in [1..128 -> Bit], NEW w \in [1..128 -> Bit],
         NEW p \in 1..128, FirstDiffer(v, w, p)
  PROVE  \E d \in 1..26 : /\ Digit(v, d) < Digit(w, d)
                          /\ \A e \in 1..(d - 1) : Digit(v, e) = Digit(w, e)
<1>1. PICK d \in 1..26, m \in 1..5 : p = 5 * d - 7 + m
  <2>1. /\ (p + 6) \div 5 \in 1..26 /\ p - (5 * ((p + 6) \div 5) - 7) \in 1..5
        /\ p = 5 * ((p + 6) \div 5) - 7 + (p - (5 * ((p + 6) \div 5) - 7))
    OBVIOUS
  <2> QED BY <2>1
<1>2. ASSUME NEW k \in Int, k < p PROVE Pad(v, k) = Pad(w, k)
  BY <1>2 DEF Pad, FirstDiffer
<1>3. Pad(v, p) < Pad(w, p)
  BY DEF Pad, FirstDiffer
<1>4. ASSUME NEW e \in 1..(d - 1) PROVE Digit(v, e) = Digit(w, e)
  <2>1. /\ 5 * e - 6 \in Int /\ 5 * e - 6 < p /\ 5 * e - 5 \in Int /\ 5 * e - 5 < p
        /\ 5 * e - 4 \in Int /\ 5 * e - 4 < p /\ 5 * e - 3 \in Int /\ 5 * e - 3 < p
        /\ 5 * e - 2 \in Int /\ 5 * e - 2 < p
    BY <1>1
  <2>2. /\ Pad(v, 5 * e - 6) = Pad(w, 5 * e - 6) /\ Pad(v, 5 * e - 5) = Pad(w, 5 * e - 5)
        /\ Pad(v, 5 * e - 4) = Pad(w, 5 * e - 4) /\ Pad(v, 5 * e - 3) = Pad(w, 5 * e - 3)
        /\ Pad(v, 5 * e - 2) = Pad(w, 5 * e - 2)
    BY <1>2, <2>1
  <2> QED BY <2>2 DEF Digit
<1>5. Digit(v, d) < Digit(w, d)
  <2>1. /\ Pad(v, 5 * d - 6) \in Bit /\ Pad(v, 5 * d - 5) \in Bit /\ Pad(v, 5 * d - 4) \in Bit
        /\ Pad(v, 5 * d - 3) \in Bit /\ Pad(v, 5 * d - 2) \in Bit
        /\ Pad(w, 5 * d - 6) \in Bit /\ Pad(w, 5 * d - 5) \in Bit /\ Pad(w, 5 * d - 4) \in Bit
        /\ Pad(w, 5 * d - 3) \in Bit /\ Pad(w, 5 * d - 2) \in Bit
    BY PadIsBit
  <2>2. /\ 5 * d - 6 < p => Pad(v, 5 * d - 6) = Pad(w, 5 * d - 6)
        /\ 5 * d - 5 < p => Pad(v, 5 * d - 5) = Pad(w, 5 * d - 5)
        /\ 5 * d - 4 < p => Pad(v, 5 * d - 4) = Pad(w, 5 * d - 4)
        /\ 5 * d - 3 < p => Pad(v, 5 * d - 3) = Pad(w, 5 * d - 3)
    BY <1>2
  <2>3. /\ 5 * d - 6 = p => Pad(v, 5 * d - 6) < Pad(w, 5 * d - 6)
        /\ 5 * d - 5 = p => Pad(v, 5 * d - 5) < Pad(w, 5 * d - 5)
        /\ 5 * d - 4 = p => Pad(v, 5 * d - 4) < Pad(w, 5 * d - 4)
        /\ 5 * d - 3 = p => Pad(v, 5 * d - 3) < Pad(w, 5 * d - 3)
        /\ 5 * d - 2 = p => Pad(v, 5 * d - 2) < Pad(w, 5 * d - 2)
    BY <1>3
  <2>4. \/ 5 * d - 6 = p \/ 5 * d - 5 = p \/ 5 * d - 4 = p \/ 5 * d - 3 = p \/ 5 * d - 2 = p
    BY <1>1
  <2> QED BY <2>1, <2>2, <2>3, <2>4 DEF Digit, Bit
<1> QED BY <1>4, <1>5

(* Of two strings at most one is before the other. *)
LEMMA BeforeOneWay ==
  ASSUME NEW v \in [1..26 -> Nat], NEW w \in [1..26 -> Nat], Before(v, w), Before(w, v)
  PROVE  FALSE
<1>0. Len(v) = 26 /\ Len(w) = 26
  BY AsSequence
<1>1. PICK i \in 1..26 : v[i] < w[i] /\ \A k \in 1..(i - 1) : v[k] = w[k]
  BY <1>0 DEF Before
<1>2. PICK j \in 1..26 : w[j] < v[j] /\ \A k \in 1..(j - 1) : w[k] = v[k]
  BY <1>0 DEF Before
<1>3. v[i] \in Nat /\ w[i] \in Nat /\ v[j] \in Nat /\ w[j] \in Nat
  OBVIOUS
<1>4. ~(i < j) /\ ~(j < i)
  BY <1>1, <1>2, <1>3
<1> QED BY <1>1, <1>2, <1>3, <1>4

(* Ids sort by their instants. *)
LEMMA IdsSort ==
  ASSUME NEW instant, NEW random, SixBytes(instant), TenBytes(random),
         NEW later, NEW noise, SixBytes(later), TenBytes(noise),
         Before(instant, later)
  PROVE  /\ Before(NewULID(instant, random), NewULID(later, noise))
         /\ ~Before(NewULID(later, noise), NewULID(instant, random))
<1> DEFINE v == IdBits(instant, random)   w == IdBits(later, noise)
           id == NewULID(instant, random)   other == NewULID(later, noise)
<1>1. v \in [1..128 -> Bit] /\ w \in [1..128 -> Bit]
  BY IdBitsAre
<1>2. id = [d \in 1..26 |-> Digit(v, d)] /\ other = [d \in 1..26 |-> Digit(w, d)]
  BY NewULIDIs
<1>3. PICK p \in 1..128 : FirstDiffer(v, w, p)
  BY InstantOrder
<1> HIDE DEF v, w, id, other
<1>4. PICK d \in 1..26 : /\ Digit(v, d) < Digit(w, d)
                         /\ \A e \in 1..(d - 1) : Digit(v, e) = Digit(w, e)
  BY <1>1, <1>3, DigitOrder
<1>5. Len(id) = 26 /\ id \in [1..26 -> Nat] /\ other \in [1..26 -> Nat]
  <2>1. \A e \in 1..26 : Digit(v, e) \in Nat /\ Digit(w, e) \in Nat
    BY <1>1, DigitIsChar DEF Chars
  <2> QED BY <1>2, <2>1
<1>6. Before(id, other)
  <2>1. id[d] < other[d] /\ \A e \in 1..(d - 1) : id[e] = other[e]
    BY <1>2, <1>4
  <2> QED BY <1>5, <2>1 DEF Before
<1> QED BY <1>5, <1>6, BeforeOneWay DEF id, other

(* Ids tell their instant (IdsTellTheirInstant): whatever ids the set has  *)
(* come to hold, of any instants and any randomness, each was made of one  *)
(* instant and one randomness only, is valid, gives its instant back and   *)
(* sorts by it.                                                            *)
THEOREM IdsTellTheirInstantHolds ==
  ASSUME IdsAreMinted
  PROVE  Spec => []IdsTellTheirInstant
<1>1. ASSUME NEW made \in Instants \X Randoms, NEW later \in Instants \X Randoms
      PROVE  /\ ValidULID(NewULID(made[1], made[2]))
             /\ ULIDTime(NewULID(made[1], made[2])) = Zeros(16) \o Word(made[1])
             /\ NewULID(made[1], made[2]) = NewULID(later[1], later[2]) => made = later
             /\ Before(made[1], later[1])
                  => /\ Before(NewULID(made[1], made[2]), NewULID(later[1], later[2]))
                     /\ ~Before(NewULID(later[1], later[2]), NewULID(made[1], made[2]))
  <2>1. SixBytes(made[1]) /\ TenBytes(made[2]) /\ SixBytes(later[1]) /\ TenBytes(later[2])
    BY InstantsAreBytes, RandomsAreBytes DEF SixBytes, TenBytes
  <2>2. NewULID(made[1], made[2]) = NewULID(later[1], later[2]) => made = later
    <3>1. made = <<made[1], made[2]>> /\ later = <<later[1], later[2]>>
      OBVIOUS
    <3> QED BY <2>1, <3>1, IdsDiffer
  <2> QED BY <2>1, <2>2, IdIsValid, IdTime, IdsSort
<1>2. ASSUME NEW id \in Ids
      PROVE  \E made \in Instants \X Randoms :
               id = NewULID(made[1], made[2]) /\ Origins(id) = {made}
  <2>1. PICK made \in Instants \X Randoms : id = NewULID(made[1], made[2])
    <3>1. PICK instant \in Instants, random \in Randoms : id = NewULID(instant, random)
      BY DEF IdsAreMinted, Minted
    <3>2. <<instant, random>> \in Instants \X Randoms
      OBVIOUS
    <3> QED BY <3>1, <3>2
  <2>2. \A later \in Instants \X Randoms : id = NewULID(later[1], later[2]) => later = made
    BY <1>1, <2>1
  <2>3. Origins(id) = {made}
    BY <2>1, <2>2 DEF Origins
  <2> QED BY <2>1, <2>3
<1>3. TypeOK => IdsTellTheirInstant
  <2> SUFFICES ASSUME TypeOK, NEW id \in set.members, NEW other \in set.members
               PROVE  \E made, later \in Instants \X Randoms :
                        /\ Origins(id) = {made} /\ Origins(other) = {later}
                        /\ ValidULID(id) /\ ULIDTime(id) = Zeros(16) \o Word(made[1])
                        /\ Before(made[1], later[1]) => Before(id, other) /\ ~Before(other, id)
    BY DEF IdsTellTheirInstant
  <2>1. id \in Ids /\ other \in Ids
    BY DEF TypeOK
  <2>2. PICK made \in Instants \X Randoms : id = NewULID(made[1], made[2]) /\ Origins(id) = {made}
    BY <1>2, <2>1
  <2>3. PICK later \in Instants \X Randoms :
          other = NewULID(later[1], later[2]) /\ Origins(other) = {later}
    BY <1>2, <2>1
  <2>4. /\ ValidULID(id) /\ ULIDTime(id) = Zeros(16) \o Word(made[1])
        /\ Before(made[1], later[1]) => Before(id, other) /\ ~Before(other, id)
    BY <1>1, <2>2, <2>3
  <2> QED BY <2>2, <2>3, <2>4
<1>4. Spec => []TypeOK
  BY IInvHolds, PTL DEF IInv
<1> QED BY <1>3, <1>4, PTL

=============================================================================
