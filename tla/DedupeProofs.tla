---------------------------- MODULE DedupeProofs ----------------------------
(***************************************************************************)
(* Facts about the operators of Dedupe, for any ids and any capacity.      *)
(***************************************************************************)
EXTENDS Dedupe, TLAPS

SetOver(S) == [order : Seq(S), members : SUBSET S]

(* Appending an element adds it to the elements; a new one keeps the       *)
(* sequence free of repetitions (the append of set.go).                    *)
LEMMA AppendElements ==
  ASSUME NEW S, NEW q \in Seq(S), NEW e \in S
  PROVE  /\ Elements(Append(q, e)) = Elements(q) \cup {e}
         /\ Distinct(q) /\ e \notin Elements(q) => Distinct(Append(q, e))
<1> DEFINE r == Append(q, e)
           n == Len(q)
<1>1. n \in Nat /\ r \in Seq(S) /\ Len(r) = n + 1 /\ r[n + 1] = e
  OBVIOUS
<1>2. \A i \in 1..n : r[i] = q[i]
  OBVIOUS
<1>3. \A i \in 1..(n + 1) : i \in 1..n \/ i = n + 1
  BY <1>1
<1>4. 1..n \subseteq 1..(n + 1) /\ n + 1 \in 1..(n + 1)
  BY <1>1
<1> HIDE DEF r, n
<1>5. Elements(r) = {q[i] : i \in 1..n} \cup {e}
  BY <1>1, <1>2, <1>3, <1>4 DEF Elements
<1>6. ASSUME Distinct(q), e \notin Elements(q) PROVE Distinct(r)
  BY <1>1, <1>2, <1>3, <1>6 DEF Distinct, Elements, n
<1> QED BY <1>5, <1>6 DEF Elements, r, n

(* Dropping the oldest element of a sequence without repetitions removes   *)
(* it and nothing else (the eviction of set.go).                           *)
LEMMA TailElements ==
  ASSUME NEW S, NEW q \in Seq(S), q # <<>>, Distinct(q)
  PROVE  /\ Elements(Tail(q)) = Elements(q) \ {Head(q)}
         /\ Distinct(Tail(q))
<1> DEFINE t == Tail(q)
           n == Len(q) - 1
<1>1. n \in Nat /\ Len(q) = n + 1 /\ Len(t) = n /\ Head(q) = q[1]
  OBVIOUS
<1>2. \A i \in 1..n : t[i] = q[i + 1]
  OBVIOUS
<1>3. \A i \in 1..n : i + 1 \in 1..(n + 1) /\ i + 1 # 1
  BY <1>1
<1>4. \A k \in 1..(n + 1) : k = 1 \/ (k - 1 \in 1..n /\ (k - 1) + 1 = k)
  BY <1>1
<1>5. 1 \in 1..(n + 1)
  BY <1>1
<1> HIDE DEF t, n
<1>6. \A x \in Elements(t) : x \in Elements(q) /\ x # q[1]
  BY <1>1, <1>2, <1>3, <1>5 DEF Elements, Distinct
<1>7. \A x \in Elements(q) : x # q[1] => x \in Elements(t)
  <2> SUFFICES ASSUME NEW k \in 1..(n + 1), q[k] # q[1] PROVE q[k] \in Elements(t)
    BY <1>1 DEF Elements
  <2>1. k - 1 \in 1..n /\ t[k - 1] = q[k]
    BY <1>2, <1>4
  <2> QED BY <1>1, <2>1 DEF Elements
<1>8. \A i, j \in 1..n : t[i] = t[j] => i = j
  <2> SUFFICES ASSUME NEW i \in 1..n, NEW j \in 1..n, t[i] = t[j] PROVE i = j
    OBVIOUS
  <2>1. i + 1 = j + 1
    BY <1>1, <1>2, <1>3 DEF Distinct
  <2> QED BY <2>1
<1> QED BY <1>1, <1>6, <1>7, <1>8 DEF Distinct, t

(* The empty set of New is a consistent set, whatever the capacity.        *)
LEMMA NewConsistent ==
  ASSUME NEW S, NEW capacity \in Nat
  PROVE  New \in SetOver(S) /\ Consistent(New, capacity)
BY DEF New, SetOver, Consistent, Elements, Distinct

(* Add (set.go) yields a set over the same ids.                            *)
LEMMA AddType ==
  ASSUME NEW S, NEW s \in SetOver(S), NEW id \in S, NEW capacity
  PROVE  Add(s, id, capacity) \in SetOver(S)
<1> DEFINE order == Append(s.order, id)
           members == s.members \cup {id}
<1>1. s.order \in Seq(S) /\ s.members \in SUBSET S
  BY DEF SetOver
<1>2. order \in Seq(S) /\ order # <<>> /\ members \in SUBSET S
  BY <1>1
<1>3. Tail(order) \in Seq(S) /\ members \ {Head(order)} \in SUBSET S
  BY <1>2
<1> QED
  BY <1>2, <1>3 DEF Add, SetOver

(* Add keeps slice and map in agreement, introduces no id twice and never  *)
(* exceeds the capacity.                                                   *)
LEMMA AddConsistent ==
  ASSUME NEW S, NEW s \in SetOver(S), NEW id \in S, NEW capacity \in Nat \ {0},
         Consistent(s, capacity)
  PROVE  Consistent(Add(s, id, capacity), capacity)
<1> DEFINE order == Append(s.order, id)
           members == s.members \cup {id}
<1>1. s.order \in Seq(S) /\ Len(s.order) \in Nat
  BY DEF SetOver
<1>2. order \in Seq(S) /\ order # <<>> /\ Len(order) = Len(s.order) + 1
      /\ Len(Tail(order)) = Len(s.order)
  BY <1>1
<1>3. CASE Seen(s, id)
  BY <1>3 DEF Add
<1>4. CASE ~Seen(s, id)
  <2>1. Elements(order) = members /\ Distinct(order)
    BY <1>1, <1>4, AppendElements DEF Consistent, Seen
  <2>2. Elements(Tail(order)) = members \ {Head(order)} /\ Distinct(Tail(order))
    BY <1>2, <2>1, TailElements
  <2> HIDE DEF order, members
  <2>3. Add(s, id, capacity) =
          IF Len(order) > capacity
          THEN [order |-> Tail(order), members |-> members \ {Head(order)}]
          ELSE [order |-> order, members |-> members]
    BY <1>4 DEF Add, order, members
  <2>4. Len(s.order) <= capacity
    BY DEF Consistent
  <2>5. CASE Len(order) > capacity
    <3>1. Add(s, id, capacity) =
            [order |-> Tail(order), members |-> members \ {Head(order)}]
      BY <2>3, <2>5
    <3>2. Len(Tail(order)) <= capacity
      BY <1>2, <2>4
    <3> QED BY <2>2, <3>1, <3>2 DEF Consistent
  <2>6. CASE Len(order) <= capacity
    <3>1. Add(s, id, capacity) = [order |-> order, members |-> members]
      BY <1>1, <1>2, <2>3, <2>6
    <3> QED BY <2>1, <2>6, <3>1 DEF Consistent
  <2> QED BY <1>1, <1>2, <2>5, <2>6
<1> QED BY <1>3, <1>4

(* Before the first insertion. *)
LEMMA NewNewest ==
  ASSUME NEW capacity \in Nat
  PROVE  Newest(New, <<>>, capacity)
BY DEF New, Newest

(* Recording a new id (set.go, Add) leaves the newest capacity ids. *)
LEMMA AddNewest ==
  ASSUME NEW S, NEW s \in SetOver(S), NEW inserted \in Seq(S), NEW id \in S,
         NEW capacity \in Nat \ {0},
         Newest(s, inserted, capacity), ~Seen(s, id)
  PROVE  Newest(Add(s, id, capacity), Append(inserted, id), capacity)
<1> DEFINE n == Len(inserted)
           m == Len(s.order)
           t == Add(s, id, capacity)
           later == Append(inserted, id)
<1>1. n \in Nat /\ m \in Nat /\ s.order \in Seq(S)
  BY DEF SetOver
<1>2. /\ m = IF n < capacity THEN n ELSE capacity
      /\ \A i \in 1..m : s.order[i] = inserted[n - m + i]
  BY DEF Newest
<1>3. /\ Len(later) = n + 1 /\ later[n + 1] = id
      /\ \A i \in 1..n : later[i] = inserted[i]
  OBVIOUS
<1>4. t.order = IF m + 1 > capacity THEN Tail(Append(s.order, id)) ELSE Append(s.order, id)
  BY <1>1 DEF Add
<1>5. \A i : i \in 1..m => i = m \/ (i \in 1..m /\ i < m)
  <2> HIDE DEF m
  <2> QED BY <1>1
<1>6. CASE m < capacity
  <2>1. t.order = Append(s.order, id) /\ Len(t.order) = m + 1 /\ n = m
    BY <1>1, <1>2, <1>4, <1>6
  <2>2. \A i \in 1..m : t.order[i] = later[i]
    <3> SUFFICES ASSUME NEW i \in 1..m PROVE t.order[i] = later[i]
      OBVIOUS
    <3>1. t.order[i] = s.order[i] /\ n - m + i = i
      BY <1>1, <2>1
    <3> QED BY <1>2, <1>3, <2>1, <3>1
  <2>3. t.order[m + 1] = later[m + 1]
    BY <1>1, <1>3, <2>1
  <2> HIDE DEF n, m, t, later
  <2>4. \A i \in 1..(m + 1) : i \in 1..m \/ i = m + 1
    BY <1>1
  <2>5. \A i \in 1..(m + 1) : (n + 1) - (m + 1) + i = i
    BY <1>1, <2>1
  <2>6. m + 1 = IF n + 1 < capacity THEN n + 1 ELSE capacity
    BY <1>1, <1>6, <2>1
  <2>7. \A i \in 1..(m + 1) : t.order[i] = later[(n + 1) - (m + 1) + i]
    BY <2>2, <2>3, <2>4, <2>5
  <2>8. Newest(t, later, capacity)
    BY <1>3, <2>1, <2>6, <2>7 DEF Newest
  <2> QED BY <2>8 DEF t, later
<1>7. CASE m = capacity
  <2>1. t.order = Tail(Append(s.order, id)) /\ Len(t.order) = m
    BY <1>1, <1>4, <1>7
  <2>2. \A i \in 1..m : t.order[i] = Append(s.order, id)[i + 1]
    BY <1>1, <2>1
  <2>3. n >= m
    BY <1>1, <1>2, <1>7
  <2>4. \A i \in 1..m : i < m => t.order[i] = later[(n + 1) - m + i]
    <3> SUFFICES ASSUME NEW i \in 1..m, i < m PROVE t.order[i] = later[(n + 1) - m + i]
      OBVIOUS
    <3>1. i + 1 \in 1..m /\ t.order[i] = s.order[i + 1]
      BY <1>1, <2>2
    <3>2. n - m + (i + 1) \in 1..n /\ n - m + (i + 1) = (n + 1) - m + i
      BY <1>1, <2>3
    <3> QED BY <1>2, <1>3, <3>1, <3>2
  <2>5. t.order[m] = later[(n + 1) - m + m]
    BY <1>1, <1>3, <1>7, <2>2
  <2> HIDE DEF n, m, t, later
  <2>6. m = IF n + 1 < capacity THEN n + 1 ELSE capacity
    BY <1>1, <1>7, <2>3
  <2>7. Newest(t, later, capacity)
    BY <1>3, <1>5, <2>1, <2>4, <2>5, <2>6 DEF Newest
  <2> QED BY <2>7 DEF t, later
<1> QED BY <1>1, <1>2, <1>6, <1>7

(* SeenOrAdd reports an id as new a second time only if capacity other     *)
(* ids were inserted after it.                                             *)
LEMMA UnseenIsLongAgo ==
  ASSUME NEW S, NEW s \in SetOver(S), NEW inserted \in Seq(S), NEW id \in S,
         NEW capacity \in Nat \ {0},
         Consistent(s, capacity), Newest(s, inserted, capacity), ~Seen(s, id)
  PROVE  LongAgo(id, inserted, capacity)
<1> DEFINE n == Len(inserted)
           m == Len(s.order)
<1>1. n \in Nat /\ m \in Nat
  BY DEF SetOver
<1>2. /\ m = IF n < capacity THEN n ELSE capacity
      /\ \A i \in 1..m : s.order[i] = inserted[n - m + i]
  BY DEF Newest
<1>3. \A i \in 1..m : s.order[i] # id
  BY DEF Consistent, Elements, Seen
<1> SUFFICES ASSUME NEW i \in 1..n, inserted[i] = id PROVE n + 1 - i > capacity
  BY DEF LongAgo
<1> HIDE DEF n, m
<1>4. i <= n - m
  <2> SUFFICES ASSUME i > n - m PROVE FALSE
    BY <1>1
  <2>1. i - (n - m) \in 1..m /\ n - m + (i - (n - m)) = i
    BY <1>1
  <2> QED BY <1>2, <1>3, <2>1
<1> QED BY <1>1, <1>2, <1>4

-----------------------------------------------------------------------------
(* What was inserted since a Set was new grows as the whole history does,  *)
(* and is nothing at the moment the Set is made.                           *)
LEMMA SinceAppend ==
  ASSUME NEW S, NEW q \in Seq(S), NEW e \in S, NEW start \in 0..Len(q)
  PROVE  /\ Since(q, start) \in Seq(S) /\ Len(Since(q, start)) = Len(q) - start
         /\ \A i \in 1..(Len(q) - start) : Since(q, start)[i] = q[start + i]
         /\ Since(Append(q, e), start) = Append(Since(q, start), e)
         /\ Since(q, Len(q)) = <<>>
<1> DEFINE r == Append(q, e)
           n == Len(q)
           t == Since(q, start)
           u == Since(r, start)
<1>1. n \in Nat /\ start \in Nat /\ start <= n /\ r \in Seq(S) /\ Len(r) = n + 1
      /\ r[n + 1] = e /\ \A i \in 1..n : r[i] = q[i]
  OBVIOUS
<1>2. \A i \in 1..(n - start) : start + i \in 1..n
  BY <1>1
<1>3. /\ t \in Seq(S) /\ Len(t) = n - start
      /\ \A i \in 1..(n - start) : t[i] = q[start + i]
  BY <1>1 DEF Since
<1>4. /\ u \in Seq(S) /\ Len(u) = (n - start) + 1
      /\ \A i \in 1..((n - start) + 1) : u[i] = r[start + i]
  BY <1>1 DEF Since
<1>5. u = Append(t, e)
  <2> DEFINE v == Append(t, e)
             m == n - start
  <2>1. v \in Seq(S) /\ Len(v) = m + 1 /\ v[m + 1] = e /\ \A i \in 1..m : v[i] = t[i]
    BY <1>3
  <2>2. m \in Nat /\ start + (m + 1) = n + 1
    BY <1>1
  <2>3. \A i \in 1..(m + 1) : i \in 1..m \/ i = m + 1
    BY <2>2
  <2> HIDE DEF r, t, u, v, m
  <2>4. \A i \in 1..(m + 1) : u[i] = v[i]
    BY <1>1, <1>2, <1>3, <1>4, <2>1, <2>2, <2>3 DEF m
  <2>5. u = v
    BY <1>4, <2>1, <2>4 DEF m
  <2> QED BY <2>5 DEF v
<1>6. Since(q, n) = <<>>
  BY <1>1 DEF Since
<1> QED BY <1>3, <1>5, <1>6

(* SeenOrAdd of a Set that was new after the first start insertions        *)
(* reports an id as new again only if all its insertions are older or long *)
(* ago.                                                                    *)
LEMMA UnseenIsForgotten ==
  ASSUME NEW S, NEW s \in SetOver(S), NEW inserted \in Seq(S), NEW id \in S,
         NEW capacity \in Nat \ {0}, NEW start \in 0..Len(inserted),
         Consistent(s, capacity), Newest(s, Since(inserted, start), capacity), ~Seen(s, id)
  PROVE  ForgottenOrLongAgo(id, inserted, start, capacity)
<1> DEFINE t == Since(inserted, start)
           n == Len(inserted)
<1>1. /\ t \in Seq(S) /\ Len(t) = n - start /\ n \in Nat /\ start \in Nat
      /\ \A i \in 1..(n - start) : t[i] = inserted[start + i]
  BY SinceAppend
<1>2. LongAgo(id, t, capacity)
  BY <1>1, UnseenIsLongAgo
<1> SUFFICES ASSUME NEW i \in 1..n, inserted[i] = id, i > start PROVE n + 1 - i > capacity
  BY <1>1 DEF ForgottenOrLongAgo
<1> HIDE DEF t, n
<1>3. i - start \in 1..(n - start) /\ start + (i - start) = i
  BY <1>1
<1>4. t[i - start] = id
  BY <1>1, <1>3
<1>5. (n - start) + 1 - (i - start) > capacity
  BY <1>1, <1>2, <1>3, <1>4 DEF LongAgo
<1> QED BY <1>1, <1>5
=============================================================================
