---------------------------- MODULE BrokerProofs ----------------------------
(***************************************************************************)
(* The safety properties of Broker, for any events, any connections and    *)
(* any filters of theirs, any sizes of queues and history and any of the   *)
(* injected faults.                                                        *)
(***************************************************************************)
EXTENDS Broker, TLAPS, WellFoundedInduction, FunctionTheorems, FiniteSetTheorems

(* No value occurs twice in s. *)
Distinct(s) == \A i, j \in 1..Len(s) : s[i] = s[j] => i = j

(* The values of s are in their order. *)
Increasing(s) == \A i, j \in 1..Len(s) : i < j => s[i] < s[j]

(* A request knows whose queue it found full; a goroutine has in hand what *)
(* it is about to flush, and nothing else.                                 *)
GoalsOK == \A e \in Events : pub[e] \in {"full", "retry"} => goal[e] \in targets[e]
HandsOK ==
  \A c \in Connections :
    /\ serve[c] = "flush" => cur[c] # 0
    /\ serve[c] \notin {"flush", "gone"} => cur[c] = 0
    /\ serve[c] = "flushHeld" => held[c] # 0
    /\ serve[c] \in {"new", "replay"} => held[c] = 0

TypeInv == TypeOK /\ GoalsOK /\ HandsOK

(* Every request is recorded once, and the history is the end of it.       *)
HistoryOK ==
  /\ Distinct(recorded)
  /\ \A e \in Events : pub[e] # "new" <=> \E i \in 1..Len(recorded) : recorded[i] = e
  /\ Len(hist) = IF Len(recorded) < History THEN Len(recorded) ELSE History
  /\ \A i \in 1..Len(hist) : hist[i] = recorded[Len(recorded) - Len(hist) + i]

(* What was offered live was recorded after the registration, what was     *)
(* replayed is from the last History events before it.                     *)
OfferOK(c) ==
  /\ c \in subs <=> serve[c] \notin {"new", "gone"}
  /\ since[c] <= Len(recorded)
  /\ serve[c] = "new" => live[c] = {} /\ snapshot[c] = {} /\ replay[c] = <<>>
  /\ \A e \in live[c] : \E i \in (since[c] + 1)..Len(recorded) : recorded[i] = e
  /\ \A e \in snapshot[c] : \E i \in 1..since[c] : i > since[c] - History /\ recorded[i] = e
  /\ c \in subs => \A i \in (since[c] + 1)..Len(recorded) :
                     recorded[i] \in Wants[c] => recorded[i] \in live[c]

OffersOK == \A c \in Connections : OfferOK(c)

(* An event offered to a connection is in one place on its way: still to   *)
(* be sent, in the queue, or received (unless it was discarded).           *)
Has(s, e) == \E i \in 1..Len(s) : s[i] = e

OnItsWay(c) ==
  /\ Distinct(queue[c]) /\ Distinct(taken[c])
  /\ \A e \in Events :
       /\ c \in targets[e] => e \in live[c]
       /\ Has(queue[c], e) => e \in live[c] /\ c \notin targets[e] /\ ~Has(taken[c], e)
       /\ Has(taken[c], e) => e \in live[c] /\ c \notin targets[e]

WayOK == \A c \in Connections : OnItsWay(c)

(* The stream w of a connection that has received t: none is overtaken     *)
(* but by the next one.                                                    *)
Ordered(w, t) ==
  \A i, j \in 1..Len(t) : i + 1 < j =>
    \A k, l \in 1..Len(w) : w[k] = t[i] /\ w[l] = t[j] => k < l

(* The stream holds what was replayed and what was received; what is in    *)
(* hand or held back is the last event received or the one before it.      *)
Streamed(c) ==
  LET n == Len(taken[c])
  IN /\ \A k \in 1..Len(wire[c]) : wire[c][k] \in snapshot[c] \/ Has(taken[c], wire[c][k])
     /\ \A k \in 1..Len(replay[c]) : replay[c][k] \in snapshot[c]
     /\ serve[c] = "flush" =>
          /\ n >= 1 /\ cur[c] = taken[c][n]
          /\ held[c] # 0 => n >= 2 /\ held[c] = taken[c][n - 1]
     /\ serve[c] = "select" /\ held[c] # 0 => n >= 1 /\ held[c] = taken[c][n]
     /\ serve[c] = "flushHeld" =>
          \/ n >= 1 /\ held[c] = taken[c][n]
          \/ n >= 2 /\ held[c] = taken[c][n - 1]
     /\ Ordered(wire[c], taken[c])

StreamOK == \A c \in Connections : Streamed(c)

(* The two equations of CountersAddUp; what they count is finite, since    *)
(* the program has taken finitely many steps.                              *)
OfferedAddUp ==
  /\ IsFiniteSet(Pairs(live)) /\ IsFiniteSet(Sends(targets))
  /\ IsFiniteSet(Places(queue)) /\ IsFiniteSet(Places(taken))
  /\ Cardinality(Pairs(live))
       = Cardinality(Sends(targets)) + Cardinality(Places(queue)) + Cardinality(Places(taken))
         + count["lagged"]

ReceivedAddUp ==
  /\ IsFiniteSet(Places(taken)) /\ IsFiniteSet(Pairs(snapshot)) /\ IsFiniteSet(Places(replay))
  /\ IsFiniteSet(Full(cur)) /\ IsFiniteSet(Full(held))
  /\ Cardinality(Places(taken)) + Cardinality(Pairs(snapshot)) + count["duplicated"]
       = Cardinality(Places(replay)) + Cardinality(Full(cur)) + Cardinality(Full(held))
         + count["delivered"] + count["dropped"]

CountInv == IsFiniteSet(subs) /\ OfferedAddUp /\ ReceivedAddUp

-----------------------------------------------------------------------------
(* Every set of numbers that is not empty has a least one. *)
LEMMA Least ==
  ASSUME NEW T \in SUBSET Nat, T # {}
  PROVE  \E n \in T : \A m \in T : n <= m
<1>1. PICK n \in T : \A m \in T : ~(<<m, n>> \in OpToRel(<, Nat))
  BY NatLessThanWellFounded, WFMin
<1>2. \A m \in T : ~(m < n)
  BY <1>1 DEF OpToRel
<1> QED BY <1>2

(* f is what the loop of Filter has collected after each turn. *)
Collects(f, r, S, m) ==
  f = [n \in 0..m |-> IF n = 0 THEN <<>>
                      ELSE IF r[n] \in S THEN Append(f[n - 1], r[n]) ELSE f[n - 1]]

(* The loop can make any number of turns. *)
LEMMA FilterLoops ==
  ASSUME NEW r, NEW S, NEW m \in Nat
  PROVE  \E f : Collects(f, r, S, m)
<1> DEFINE T == {n \in Nat : ~\E f : Collects(f, r, S, n)}
<1> SUFFICES ASSUME T # {} PROVE FALSE
  OBVIOUS
<1>1. PICK n \in T : \A k \in T : n <= k
  BY Least
<1>2. n # 0
  <2> DEFINE f == [k \in 0..0 |-> <<>>]
  <2>1. Collects(f, r, S, 0)
    BY DEF Collects
  <2> HIDE DEF f
  <2> QED BY <2>1
<1>3. PICK f : Collects(f, r, S, n - 1)
  BY <1>1, <1>2
<1> DEFINE last == IF r[n] \in S THEN Append(f[n - 1], r[n]) ELSE f[n - 1]
           g    == [k \in 0..n |-> IF k < n THEN f[k] ELSE last]
<1>4. \A k \in 0..n : g[k] = IF k = 0 THEN <<>>
                             ELSE IF r[k] \in S THEN Append(g[k - 1], r[k]) ELSE g[k - 1]
  <2>1. \A k \in 0..(n - 1) : f[k] = IF k = 0 THEN <<>>
          ELSE IF r[k] \in S THEN Append(f[k - 1], r[k]) ELSE f[k - 1]
    BY <1>3 DEF Collects
  <2>2. \A k \in 0..n : g[k] = IF k < n THEN f[k] ELSE last
    OBVIOUS
  <2> HIDE DEF g
  <2> SUFFICES ASSUME NEW k \in 0..n
               PROVE  g[k] = IF k = 0 THEN <<>>
                             ELSE IF r[k] \in S THEN Append(g[k - 1], r[k]) ELSE g[k - 1]
    OBVIOUS
  <2>3. CASE k = n
    BY <1>2, <2>2, <2>3
  <2>4. CASE k < n
    BY <2>1, <2>2, <2>4
  <2> QED BY <2>3, <2>4
<1>5. Collects(g, r, S, n)
  BY <1>4 DEF Collects
<1> HIDE DEF g
<1> QED BY <1>1, <1>5

(* What is collected is all of r that is in S, in the order of r; nothing  *)
(* is collected twice unless it is twice in r.                             *)
Collected(q, E, r, S, n) ==
  /\ q \in Seq(E) /\ Len(q) <= n
  /\ \A k \in 1..Len(q) : q[k] \in S /\ \E i \in 1..n : r[i] = q[k]
  /\ \A i \in 1..n : r[i] \in S => \E k \in 1..Len(q) : q[k] = r[i]
  /\ Distinct(r) => Distinct(q)
  /\ Increasing(r) => Increasing(q)

LEMMA CollectedAppend ==
  ASSUME NEW E, NEW r \in Seq(E), NEW S, NEW n \in 1..Len(r), NEW q,
         Collected(q, E, r, S, n - 1), r[n] \in S
  PROVE  Collected(Append(q, r[n]), E, r, S, n)
<1> DEFINE p == Append(q, r[n])
<1>1. /\ q \in Seq(E) /\ r[n] \in E /\ Len(q) \in Nat /\ Len(q) <= n - 1
      /\ p \in Seq(E) /\ Len(p) = Len(q) + 1 /\ p[Len(q) + 1] = r[n]
      /\ \A k \in 1..Len(q) : p[k] = q[k]
  BY DEF Collected
<1> HIDE DEF p
<1>2. ASSUME NEW k \in 1..Len(p) PROVE p[k] \in S /\ \E i \in 1..n : r[i] = p[k]
  <2>1. CASE k = Len(q) + 1
    BY <1>1, <2>1
  <2>2. CASE k \in 1..Len(q)
    <3>1. q[k] \in S /\ \E i \in 1..(n - 1) : r[i] = q[k]
      BY <2>2 DEF Collected
    <3> QED BY <1>1, <2>2, <3>1
  <2> QED BY <1>1, <2>1, <2>2
<1>3. Distinct(r) => Distinct(p)
  <2> SUFFICES ASSUME Distinct(r), NEW i \in 1..Len(p), NEW j \in 1..Len(p), p[i] = p[j], i < j
               PROVE  FALSE
    BY <1>1 DEF Distinct
  <2>1. CASE j = Len(q) + 1
    <3>1. PICK k \in 1..(n - 1) : r[k] = r[n]
      BY <1>1, <2>1 DEF Collected
    <3> QED BY <3>1 DEF Distinct
  <2>2. CASE j # Len(q) + 1
    <3>1. i \in 1..Len(q) /\ j \in 1..Len(q)
      <4>1. Len(q) \in Nat /\ Len(p) = Len(q) + 1
        BY <1>1
      <4> QED BY <2>2, <4>1
    <3>2. Distinct(q)
      BY DEF Collected
    <3>3. q[i] = q[j]
      BY <1>1, <3>1
    <3> QED BY <3>1, <3>2, <3>3 DEF Distinct
  <2> QED BY <2>1, <2>2
<1>4. Increasing(r) => Increasing(p)
  <2> SUFFICES ASSUME Increasing(r), NEW i \in 1..Len(p), NEW j \in 1..Len(p), i < j
               PROVE  p[i] < p[j]
    BY DEF Increasing
  <2>1. CASE j = Len(q) + 1
    <3>1. i \in 1..Len(q)
      <4>1. Len(q) \in Nat /\ Len(p) = Len(q) + 1
        BY <1>1
      <4> QED BY <2>1, <4>1
    <3>2. PICK k \in 1..(n - 1) : r[k] = q[i]
      BY <3>1 DEF Collected
    <3>3. k \in 1..Len(r) /\ n \in 1..Len(r) /\ k < n
      OBVIOUS
    <3>4. r[k] < r[n]
      BY <3>3 DEF Increasing
    <3>5. p[i] = r[k] /\ p[j] = r[n]
      BY <1>1, <2>1, <3>1, <3>2
    <3> QED BY <3>4, <3>5
  <2>2. CASE j # Len(q) + 1
    <3>1. i \in 1..Len(q) /\ j \in 1..Len(q)
      <4>1. Len(q) \in Nat /\ Len(p) = Len(q) + 1
        BY <1>1
      <4> QED BY <2>2, <4>1
    <3>2. Increasing(q)
      BY DEF Collected
    <3>3. q[i] < q[j]
      BY <3>1, <3>2 DEF Increasing
    <3>4. p[i] = q[i] /\ p[j] = q[j]
      BY <1>1, <3>1
    <3> QED BY <3>3, <3>4
  <2> QED BY <2>1, <2>2
<1>5. ASSUME NEW i \in 1..n, r[i] \in S PROVE \E k \in 1..Len(p) : p[k] = r[i]
  <2>1. CASE i = n
    BY <1>1, <2>1
  <2>2. CASE i # n
    <3>1. PICK k \in 1..Len(q) : q[k] = r[i]
      BY <1>5, <2>2 DEF Collected
    <3> QED BY <1>1, <3>1
  <2> QED BY <2>1, <2>2
<1>6. p \in Seq(E) /\ Len(p) <= n
  BY <1>1
<1>7. Collected(p, E, r, S, n)
  BY <1>2, <1>3, <1>4, <1>5, <1>6 DEF Collected
<1> QED BY <1>7 DEF p

LEMMA FilterCollects ==
  ASSUME NEW E, NEW r \in Seq(E), NEW S
  PROVE  Collected(Filter(r, S), E, r, S, Len(r))
<1> DEFINE out == CHOOSE f : Collects(f, r, S, Len(r))
<1>1. Len(r) \in Nat /\ Collects(out, r, S, Len(r))
  <2>1. Len(r) \in Nat
    OBVIOUS
  <2>2. \E f : Collects(f, r, S, Len(r))
    BY <2>1, FilterLoops
  <2> QED BY <2>1, <2>2, Zenon
<1>2. Filter(r, S) = out[Len(r)]
  BY Zenon DEF Filter, Collects
<1> HIDE DEF out
<1> DEFINE T == {n \in 0..Len(r) : ~Collected(out[n], E, r, S, n)}
<1> SUFFICES ASSUME T # {} PROVE FALSE
  BY <1>2
<1>3. PICK n \in T : \A k \in T : n <= k
  <2>1. T \in SUBSET Nat
    BY <1>1
  <2> QED BY <2>1, Least
<1>4. out[n] = IF n = 0 THEN <<>>
               ELSE IF r[n] \in S THEN Append(out[n - 1], r[n]) ELSE out[n - 1]
  BY <1>1 DEF Collects
<1>5. CASE n = 0
  <2>1. out[0] = <<>>
    BY <1>4, <1>5
  <2>2. Collected(<<>>, E, r, S, 0)
    BY DEF Collected, Distinct, Increasing
  <2> QED BY <1>3, <1>5, <2>1, <2>2
<1>6. CASE n # 0
  <2>1. n \in 1..Len(r) /\ Collected(out[n - 1], E, r, S, n - 1)
    BY <1>3, <1>6
  <2>2. CASE r[n] \in S
    BY <1>3, <1>4, <1>6, <2>1, <2>2, CollectedAppend
  <2>3. CASE r[n] \notin S
    <3>1. out[n] = out[n - 1] /\ ~Collected(out[n - 1], E, r, S, n)
      BY <1>3, <1>4, <1>6, <2>3
    <3> HIDE DEF T
    <3>2. \A i \in 1..n : r[i] \in S => i \in 1..(n - 1)
      BY <1>6, <2>1, <2>3
    <3> QED BY <2>1, <3>1, <3>2 DEF Collected
  <2> QED BY <2>2, <2>3
<1> QED BY <1>5, <1>6

-----------------------------------------------------------------------------
(* The history keeps its type and its bound; what is resumed is wanted.    *)
LEMMA AddType ==
  ASSUME hist \in Seq(Events), Len(hist) <= History, NEW e \in Events
  PROVE  add(hist, e) \in Seq(Events) /\ Len(add(hist, e)) <= History
BY HistoryIsPositive DEF add

LEMMA MissedCollected ==
  ASSUME hist \in Seq(Events), NEW id, NEW c \in Connections
  PROVE  \E later : /\ later \in Seq(Events)
                    /\ Collected(later, Events, hist, {e \in Events : e > id /\ id # 0}, Len(hist))
                    /\ Filter(after(hist, id), Wants[c]) \in Seq(Events)
                    /\ Collected(Filter(after(hist, id), Wants[c]), Events, later, Wants[c], Len(later))
<1> DEFINE later == after(hist, id)
           newer == {e \in Events : e > id /\ id # 0}
<1>1. Collected(later, Events, hist, newer, Len(hist))
  <2>1. CASE id = 0
    BY <2>1 DEF after, Collected, Distinct, Increasing
  <2>2. CASE id # 0
    <3>1. newer = {e \in Events : e > id}
      BY <2>2
    <3> HIDE DEF newer
    <3> QED BY <2>2, <3>1, FilterCollects DEF after
  <2> QED BY <2>1, <2>2
<1>2. later \in Seq(Events)
  BY <1>1 DEF Collected
<1> HIDE DEF later
<1>3. Collected(Filter(later, Wants[c]), Events, later, Wants[c], Len(later))
  BY <1>2, FilterCollects
<1>4. Filter(later, Wants[c]) \in Seq(Events)
  BY <1>3 DEF Collected
<1> QED BY <1>1, <1>2, <1>3, <1>4 DEF later

(* What a subscription is replayed: the events of the history that it      *)
(* wants and that come after its resume point, in the order of the         *)
(* history, none twice unless it is twice in the history.                  *)
LEMMA MissedProps ==
  ASSUME hist \in Seq(Events), NEW id, NEW c \in Connections, NEW missed,
         missed = Filter(after(hist, id), Wants[c])
  PROVE  /\ missed \in Seq(Events)
         /\ \A k \in 1..Len(missed) :
              /\ missed[k] \in Wants[c] /\ missed[k] > id /\ id # 0
              /\ \E i \in 1..Len(hist) : hist[i] = missed[k]
         /\ \A i \in 1..Len(hist) : hist[i] \in Wants[c] /\ hist[i] > id /\ id # 0
              => \E k \in 1..Len(missed) : missed[k] = hist[i]
         /\ Distinct(hist) => Distinct(missed)
         /\ Increasing(hist) => Increasing(missed)
<1> DEFINE newer == {e \in Events : e > id /\ id # 0}
<1>1. PICK later : /\ later \in Seq(Events)
                   /\ Collected(later, Events, hist, newer, Len(hist))
                   /\ missed \in Seq(Events)
                   /\ Collected(missed, Events, later, Wants[c], Len(later))
  BY MissedCollected
<1>2. \A e \in Events : e \in newer <=> e > id /\ id # 0
  OBVIOUS
<1> HIDE DEF newer
<1>3. \A i \in 1..Len(hist) : hist[i] \in Events
  OBVIOUS
<1>4. \A i \in 1..Len(later) : later[i] \in Events
  BY <1>1
<1>5. /\ \A k \in 1..Len(missed) : missed[k] \in Wants[c] /\ \E i \in 1..Len(later) : later[i] = missed[k]
      /\ \A i \in 1..Len(later) : later[i] \in Wants[c] => \E k \in 1..Len(missed) : missed[k] = later[i]
  BY <1>1 DEF Collected
<1>6. /\ \A k \in 1..Len(later) : later[k] \in newer /\ \E i \in 1..Len(hist) : hist[i] = later[k]
      /\ \A i \in 1..Len(hist) : hist[i] \in newer => \E k \in 1..Len(later) : later[k] = hist[i]
  BY <1>1 DEF Collected
<1>7. ASSUME NEW k \in 1..Len(missed)
      PROVE  missed[k] > id /\ id # 0 /\ \E i \in 1..Len(hist) : hist[i] = missed[k]
  <2>1. PICK m \in 1..Len(later) : later[m] = missed[k]
    BY <1>5
  <2>2. later[m] \in Events /\ later[m] \in newer /\ \E i \in 1..Len(hist) : hist[i] = later[m]
    BY <1>4, <1>6
  <2> QED BY <1>2, <2>1, <2>2
<1>8. ASSUME NEW i \in 1..Len(hist), hist[i] \in Wants[c], hist[i] > id, id # 0
      PROVE  \E k \in 1..Len(missed) : missed[k] = hist[i]
  <2>1. hist[i] \in newer
    BY <1>2, <1>3, <1>8
  <2>2. PICK m \in 1..Len(later) : later[m] = hist[i]
    BY <1>6, <2>1
  <2>3. later[m] \in Wants[c]
    BY <1>8, <2>2
  <2>4. \E k \in 1..Len(missed) : missed[k] = later[m]
    BY <1>5, <2>3
  <2> QED BY <2>2, <2>4
<1>9. Distinct(hist) => Distinct(missed)
  BY <1>1 DEF Collected
<1>10. Increasing(hist) => Increasing(missed)
  BY <1>1 DEF Collected
<1> QED BY <1>1, <1>5, <1>7, <1>8, <1>9, <1>10

(* One connection's sequence gets longer or shorter, the others stay. *)
LEMMA AppendTo ==
  ASSUME NEW f \in [Connections -> Seq(Events)], NEW c \in Connections, NEW e \in Events, NEW g,
         g = [f EXCEPT ![c] = Append(@, e)]
  PROVE  /\ g \in [Connections -> Seq(Events)]
         /\ g[c] = Append(f[c], e) /\ Len(g[c]) = Len(f[c]) + 1 /\ g[c][Len(f[c]) + 1] = e
         /\ \A i \in 1..Len(f[c]) : g[c][i] = f[c][i]
         /\ \A d \in Connections : d # c => g[d] = f[d]
<1>1. f[c] \in Seq(Events) /\ g[c] = Append(f[c], e)
  OBVIOUS
<1>2. /\ Append(f[c], e) \in Seq(Events) /\ Len(Append(f[c], e)) = Len(f[c]) + 1
      /\ Append(f[c], e)[Len(f[c]) + 1] = e
      /\ \A i \in 1..Len(f[c]) : Append(f[c], e)[i] = f[c][i]
  BY <1>1
<1> QED BY <1>1, <1>2

LEMMA TailOf ==
  ASSUME NEW f \in [Connections -> Seq(Events)], NEW c \in Connections, f[c] # <<>>, NEW g,
         g = [f EXCEPT ![c] = Tail(@)]
  PROVE  /\ g \in [Connections -> Seq(Events)] /\ Head(f[c]) \in Events /\ Head(f[c]) = f[c][1]
         /\ Len(f[c]) >= 1 /\ Len(g[c]) = Len(f[c]) - 1
         /\ \A i \in 1..Len(g[c]) : g[c][i] = f[c][i + 1]
         /\ \A d \in Connections : d # c => g[d] = f[d]
<1>1. f[c] \in Seq(Events) /\ g[c] = Tail(f[c])
  OBVIOUS
<1>2. /\ Tail(f[c]) \in Seq(Events) /\ Len(Tail(f[c])) = Len(f[c]) - 1 /\ Len(f[c]) >= 1
      /\ Head(f[c]) \in Events /\ Head(f[c]) = f[c][1]
      /\ \A i \in 1..(Len(f[c]) - 1) : Tail(f[c])[i] = f[c][i + 1]
  BY <1>1
<1> QED BY <1>1, <1>2

(* A queue that has room stays within its bound, a shorter one, too. *)
QueuesOK ==
  queue \in [Connections -> Seq(Events)] /\ \A c \in Connections : Len(queue[c]) <= Buffer

LEMMA SendType ==
  ASSUME QueuesOK, NEW c \in Connections, NEW e \in Events, HasRoom(c), Send(e, c)
  PROVE  QueuesOK'
<1>1. Len(queue[c]) \in Nat /\ Len(queue[c]) < Buffer /\ Buffer \in Nat
  BY BufferIsPositive DEF QueuesOK, HasRoom
<1> QED BY <1>1, AppendTo DEF QueuesOK, Send

LEMMA ShorterType ==
  ASSUME QueuesOK, NEW c \in Connections, queue[c] # <<>>, queue' = [queue EXCEPT ![c] = Tail(@)]
  PROVE  QueuesOK' /\ Head(queue[c]) \in Events
<1>1. Len(queue[c]) \in Nat /\ Len(queue[c]) <= Buffer /\ Buffer \in Nat
  BY BufferIsPositive DEF QueuesOK
<1> QED BY <1>1, TailOf DEF QueuesOK

(* What a request remembers while it fans out. *)
RequestsType ==
  /\ pub \in [Events -> {"new", "try", "full", "retry", "done"}]
  /\ targets \in [Events -> SUBSET Connections]
  /\ goal \in [Events -> Connections \cup {Nobody}]

LEMMA AdvanceType ==
  ASSUME RequestsType, GoalsOK, NEW e \in Events, NEW c, Advance(e, c)
  PROVE  RequestsType' /\ GoalsOK'
<1>1. /\ targets' = [targets EXCEPT ![e] = targets[e] \ {c}]
      /\ \E s \in {"done", "try"} : pub' = [pub EXCEPT ![e] = s]
      /\ goal' = [goal EXCEPT ![e] = Nobody]
  BY DEF Advance
<1>2. RequestsType'
  BY <1>1 DEF RequestsType
<1>3. GoalsOK'
  BY <1>1 DEF RequestsType, GoalsOK
<1> QED BY <1>2, <1>3

LEMMA TypeParts == TypeOK => QueuesOK /\ RequestsType
BY DEF TypeOK, QueuesOK, RequestsType

(* The counters keep counting. *)
LEMMA BumpType ==
  ASSUME TypeOK, NEW name \in Counters, Bump(name, 1)
  PROVE  count' \in [Counters -> Nat]
BY DEF TypeOK, Bump

LEMMA PublishType ==
  ASSUME TypeInv, NEW e \in Events, Publish(e)
  PROVE  TypeInv'
<1>1. count' \in [Counters -> Nat]
  BY BumpType DEF TypeInv, Publish, Counters
<1>2. hist' \in Seq(Events) /\ Len(hist') <= History
  BY AddType DEF TypeInv, TypeOK, Publish
<1> DEFINE reached == {c \in subs : e \in Wants[c]}
<1>3. /\ targets' = [targets EXCEPT ![e] = reached]
      /\ pub' = [pub EXCEPT ![e] = IF reached = {} THEN "done" ELSE "try"]
      /\ live' = [c \in Connections |-> IF c \in reached THEN live[c] \cup {e} ELSE live[c]]
      /\ recorded' = Append(recorded, e) /\ pub[e] = "new"
  BY DEF Publish
<1>4. reached \subseteq Connections
  BY DEF TypeInv, TypeOK
<1> HIDE DEF reached
<1>5. TypeOK'
  <2>1. RequestsType'
    BY <1>3, <1>4, TypeParts DEF TypeInv, RequestsType, Publish
  <2>2. recorded' \in Seq(Events)
    BY <1>3 DEF TypeInv, TypeOK
  <2>3. live' \in [Connections -> SUBSET Events]
    BY <1>3, <1>4 DEF TypeInv, TypeOK
  <2> QED BY <1>1, <1>2, <2>1, <2>2, <2>3 DEF TypeInv, TypeOK, RequestsType, Publish
<1>6. GoalsOK'
  BY <1>3 DEF TypeInv, TypeOK, GoalsOK, Publish
<1>7. HandsOK'
  BY DEF TypeInv, HandsOK, Publish
<1> QED BY <1>5, <1>6, <1>7 DEF TypeInv

(* One request sends to one connection, or finds its queue full. *)
LEMMA FanOutType ==
  ASSUME TypeInv, NEW e \in Events, FanOut(e)
  PROVE  TypeInv'
<1>1. HandsOK'
  BY DEF TypeInv, HandsOK, FanOut, TrySend, DiscardOldest, Resend
<1>2. ASSUME NEW c \in Connections, TrySend(e, c) PROVE TypeOK' /\ GoalsOK'
  <2>1. CASE HasRoom(c) /\ Send(e, c) /\ Advance(e, c)
    <3>1. QueuesOK' /\ RequestsType' /\ GoalsOK'
      BY <2>1, SendType, AdvanceType, TypeParts DEF TypeInv
    <3> QED BY <1>2, <3>1 DEF TypeInv, TypeOK, TrySend, QueuesOK, RequestsType
  <2>2. CASE /\ pub' = [pub EXCEPT ![e] = "full"] /\ goal' = [goal EXCEPT ![e] = c]
             /\ UNCHANGED <<queue, targets>>
    <3>1. RequestsType'
      BY <2>2, TypeParts DEF TypeInv, RequestsType
    <3>2. GoalsOK'
      BY <1>2, <2>2, TypeParts DEF TypeInv, GoalsOK, RequestsType, TrySend
    <3> QED BY <1>2, <2>2, <3>1, <3>2 DEF TypeInv, TypeOK, TrySend, RequestsType
  <2> QED BY <1>2, <2>1, <2>2 DEF TrySend
<1>3. ASSUME DiscardOldest(e) PROVE TypeOK' /\ GoalsOK'
  <2>1. pub[e] = "full" /\ pub' = [pub EXCEPT ![e] = "retry"] /\ UNCHANGED <<targets, goal>>
    BY <1>3 DEF DiscardOldest
  <2>2. RequestsType' /\ GoalsOK'
    BY <2>1, TypeParts DEF TypeInv, RequestsType, GoalsOK
  <2>3. QueuesOK' /\ count' \in [Counters -> Nat]
    <3>1. goal[e] \in Connections
      BY <2>1, TypeParts DEF TypeInv, GoalsOK, RequestsType
    <3>2. CASE queue[goal[e]] # <<>> /\ queue' = [queue EXCEPT ![goal[e]] = Tail(@)]
               /\ Bump("lagged", 1)
      BY <3>1, <3>2, ShorterType, BumpType, TypeParts DEF TypeInv, Counters
    <3>3. CASE UNCHANGED <<queue, count>>
      BY <3>3 DEF TypeInv, TypeOK, QueuesOK
    <3> QED BY <1>3, <3>2, <3>3 DEF DiscardOldest
  <2> QED BY <1>3, <2>2, <2>3 DEF TypeInv, TypeOK, QueuesOK, RequestsType, DiscardOldest
<1>4. ASSUME Resend(e) PROVE TypeOK' /\ GoalsOK'
  <2>1. goal[e] \in Connections
    BY <1>4, TypeParts DEF TypeInv, GoalsOK, RequestsType, Resend
  <2>2. RequestsType' /\ GoalsOK'
    BY <1>4, AdvanceType, TypeParts DEF TypeInv, Resend, GiveUpOn
  <2>3. QueuesOK' /\ count' \in [Counters -> Nat]
    <3>1. CASE HasRoom(goal[e]) /\ Send(e, goal[e]) /\ UNCHANGED count
      BY <2>1, <3>1, SendType, TypeParts DEF TypeInv, TypeOK
    <3>2. CASE GiveUpOn(e, goal[e])
      BY <3>2, BumpType, TypeParts DEF TypeInv, GiveUpOn, Counters, QueuesOK
    <3> QED BY <1>4, <3>1, <3>2 DEF Resend
  <2> QED BY <1>4, <2>2, <2>3 DEF TypeInv, TypeOK, QueuesOK, RequestsType, Resend
<1> QED BY <1>1, <1>2, <1>3, <1>4 DEF FanOut, TypeInv

LEMMA RegisterType ==
  ASSUME TypeInv, NEW c \in Connections, NEW id, Register(c, id)
  PROVE  TypeInv'
<1> DEFINE missed == Filter(after(hist, id), Wants[c])
<1>1. missed \in Seq(Events) /\ ToSet(missed) \subseteq Events
  BY MissedProps DEF TypeInv, TypeOK, ToSet
<1>2. /\ replay' = [replay EXCEPT ![c] = missed]
      /\ snapshot' = [snapshot EXCEPT ![c] = ToSet(missed)]
  BY DEF Register
<1> HIDE DEF missed
<1>3. /\ replay' \in [Connections -> Seq(Events)]
      /\ snapshot' \in [Connections -> SUBSET Events]
  BY <1>1, <1>2 DEF TypeInv, TypeOK
<1>4. /\ serve[c] = "new" /\ serve' = [serve EXCEPT ![c] = "replay"]
      /\ since' = [since EXCEPT ![c] = Len(recorded)] /\ subs' = subs \cup {c}
      /\ UNCHANGED <<hist, count, pub, targets, goal, queue, cur, held, wire, recorded, live, taken>>
  BY DEF Register, Enlist, pubVars
<1>5. /\ since' \in [Connections -> Nat] /\ subs' \subseteq Connections
      /\ serve' \in [Connections -> {"new", "replay", "select", "flush", "flushHeld", "gone"}]
  BY <1>4 DEF TypeInv, TypeOK
<1>6. TypeOK'
  BY <1>3, <1>4, <1>5 DEF TypeInv, TypeOK
<1>7. GoalsOK' /\ HandsOK'
  BY <1>4 DEF TypeInv, TypeOK, GoalsOK, HandsOK
<1> QED BY <1>6, <1>7 DEF TypeInv

(* What the goroutine of a connection touches. *)
ServeTypes ==
  /\ subs \subseteq Connections /\ count \in [Counters -> Nat]
  /\ serve \in [Connections -> {"new", "replay", "select", "flush", "flushHeld", "gone"}]
  /\ QueuesOK
  /\ replay \in [Connections -> Seq(Events)] /\ wire \in [Connections -> Seq(Events)]
  /\ taken \in [Connections -> Seq(Events)]
  /\ cur \in [Connections -> Events \cup {0}] /\ held \in [Connections -> Events \cup {0}]

LEMMA ServeTypeParts ==
  ASSUME TypeInv, ServeTypes', HandsOK',
         UNCHANGED <<hist, pubVars, recorded, since, snapshot, live>>
  PROVE  TypeInv'
BY DEF TypeInv, TypeOK, GoalsOK, ServeTypes, QueuesOK, pubVars

LEMMA ReplayType ==
  ASSUME ServeTypes, HandsOK, NEW c \in Connections, Replay(c)
  PROVE  ServeTypes' /\ HandsOK'
<1>1. CASE /\ replay[c] # <<>> /\ wire' = [wire EXCEPT ![c] = Append(@, Head(replay[c]))]
           /\ replay' = [replay EXCEPT ![c] = Tail(@)]
           /\ Bump("delivered", 1) /\ UNCHANGED serve
  <2>1. Head(replay[c]) \in Events /\ replay' \in [Connections -> Seq(Events)]
    BY <1>1, TailOf DEF ServeTypes
  <2>2. wire' \in [Connections -> Seq(Events)]
    BY <1>1, <2>1, AppendTo DEF ServeTypes
  <2>3. count' \in [Counters -> Nat]
    BY <1>1 DEF ServeTypes, Bump, Counters
  <2> QED BY <1>1, <2>1, <2>2, <2>3 DEF ServeTypes, QueuesOK, HandsOK, Replay
<1>2. CASE serve' = [serve EXCEPT ![c] = "select"] /\ UNCHANGED <<wire, replay, count>>
  BY <1>2 DEF ServeTypes, QueuesOK, HandsOK, Replay
<1> QED BY <1>1, <1>2 DEF Replay

LEMMA TakeType ==
  ASSUME ServeTypes, HandsOK, NEW c \in Connections, Take(c)
  PROVE  ServeTypes' /\ HandsOK'
<1>1. QueuesOK' /\ Head(queue[c]) \in Events /\ Head(queue[c]) # 0
  BY ShorterType, EventsAreRanks DEF ServeTypes, Take
<1>2. taken' \in [Connections -> Seq(Events)]
  BY <1>1, AppendTo DEF ServeTypes, Take
<1>3. serve[c] = "select" /\ UNCHANGED <<subs, count, replay, wire>>
  BY DEF Take
<1>4. CASE held' = [held EXCEPT ![c] = Head(queue[c])] /\ UNCHANGED <<cur, serve>>
  BY <1>1, <1>2, <1>3, <1>4 DEF ServeTypes, HandsOK
<1>5. CASE /\ cur' = [cur EXCEPT ![c] = Head(queue[c])]
           /\ serve' = [serve EXCEPT ![c] = "flush"] /\ UNCHANGED held
  BY <1>1, <1>2, <1>3, <1>5 DEF ServeTypes, HandsOK
<1> QED BY <1>4, <1>5 DEF Take

(* Whatever flush does to the event, stream and counters stay typed. *)
LEMMA FlushType ==
  ASSUME ServeTypes, NEW c \in Connections, NEW e \in Events, Flushed(c, e) \/ FlushFails(c, e)
  PROVE  wire' \in [Connections -> Seq(Events)] /\ count' \in [Counters -> Nat]
<1>1. count' \in [Counters -> Nat]
  <2>1. count \in [Counters -> Nat] /\ \A n \in Counters : count[n] + 1 \in Nat /\ count[n] + 2 \in Nat
    BY DEF ServeTypes
  <2>2. CASE \E n \in Counters : count' = [count EXCEPT ![n] = count[n] + 1]
    BY <2>1, <2>2
  <2>3. CASE \E k \in {1, 2} : count' = [count EXCEPT !["delivered"] = count["delivered"] + k,
                                                   !["duplicated"] = count["duplicated"] + 1]
    BY <2>1, <2>3 DEF Counters
  <2>4. \/ \E n \in Counters : count' = [count EXCEPT ![n] = count[n] + 1]
        \/ \E k \in {1, 2} : count' = [count EXCEPT !["delivered"] = count["delivered"] + k,
                                                   !["duplicated"] = count["duplicated"] + 1]
    BY DEF Flushed, FlushFails, Bump, Counters
  <2> QED BY <2>2, <2>3, <2>4
<1>2. CASE UNCHANGED wire
  BY <1>1, <1>2 DEF ServeTypes
<1>3. CASE wire' = [wire EXCEPT ![c] = Append(@, e)]
  BY <1>1, <1>3, AppendTo DEF ServeTypes
<1>4. CASE wire' = [wire EXCEPT ![c] = @ \o <<e, e>>]
  <2>1. wire[c] \o <<e, e>> \in Seq(Events)
    BY DEF ServeTypes
  <2>2. wire' \in [Connections -> Seq(Events)]
    BY <1>4, <2>1 DEF ServeTypes
  <2> QED BY <1>1, <2>2
<1> QED BY <1>2, <1>3, <1>4 DEF Flushed, FlushFails

LEMMA FlushCurType ==
  ASSUME ServeTypes, HandsOK, NEW c \in Connections, FlushCur(c)
  PROVE  ServeTypes' /\ HandsOK'
<1>1. cur[c] \in Events /\ serve[c] = "flush"
  BY DEF ServeTypes, HandsOK, FlushCur
<1>2. wire' \in [Connections -> Seq(Events)] /\ count' \in [Counters -> Nat]
  BY <1>1, FlushType DEF FlushCur
<1>3. UNCHANGED <<queue, replay, held, taken>>
  BY DEF FlushCur
<1>4. CASE /\ serve' = [serve EXCEPT ![c] = AfterFlush(c)]
           /\ cur' = [cur EXCEPT ![c] = 0] /\ UNCHANGED subs
  BY <1>1, <1>2, <1>3, <1>4 DEF ServeTypes, QueuesOK, HandsOK, AfterFlush
<1>5. CASE Leave(c) /\ UNCHANGED cur
  BY <1>1, <1>2, <1>3, <1>5 DEF ServeTypes, QueuesOK, HandsOK, Leave
<1> QED BY <1>4, <1>5 DEF FlushCur, FlushFails

LEMMA FlushHeldType ==
  ASSUME ServeTypes, HandsOK, NEW c \in Connections, FlushHeld(c)
  PROVE  ServeTypes' /\ HandsOK'
<1>1. held[c] \in Events /\ serve[c] = "flushHeld"
  BY DEF ServeTypes, HandsOK, FlushHeld
<1>2. wire' \in [Connections -> Seq(Events)] /\ count' \in [Counters -> Nat]
  BY <1>1, FlushType DEF FlushHeld
<1>3. UNCHANGED <<queue, replay, cur, taken>>
  BY DEF FlushHeld
<1>4. CASE /\ serve' = [serve EXCEPT ![c] = "select"]
           /\ held' = [held EXCEPT ![c] = 0] /\ UNCHANGED subs
  BY <1>1, <1>2, <1>3, <1>4 DEF ServeTypes, QueuesOK, HandsOK
<1>5. CASE Leave(c) /\ UNCHANGED held
  BY <1>1, <1>2, <1>3, <1>5 DEF ServeTypes, QueuesOK, HandsOK, Leave
<1> QED BY <1>4, <1>5 DEF FlushHeld, FlushFails

LEMMA ServeType ==
  ASSUME TypeInv, NEW c \in Connections, Serve(c) \/ Disconnect(c)
  PROVE  TypeInv'
<1>1. ServeTypes /\ HandsOK
  BY DEF TypeInv, TypeOK, ServeTypes, QueuesOK
<1>2. UNCHANGED <<hist, pubVars, recorded, since, snapshot, live>>
  BY DEF Serve, Replay, Take, Release, FlushCur, FlushHeld, Disconnect
<1>3. ServeTypes' /\ HandsOK'
  <2>1. CASE Replay(c)
    BY <1>1, <2>1, ReplayType
  <2>2. CASE Take(c)
    BY <1>1, <2>2, TakeType
  <2>3. CASE FlushCur(c)
    BY <1>1, <2>3, FlushCurType
  <2>4. CASE FlushHeld(c)
    BY <1>1, <2>4, FlushHeldType
  <2>5. CASE Release(c)
    <3>1. /\ serve[c] = "select" /\ held[c] # 0 /\ serve' = [serve EXCEPT ![c] = "flushHeld"]
          /\ UNCHANGED <<subs, count, queue, replay, wire, taken, cur, held>>
      BY <2>5 DEF Release, HoldExpires
    <3>2. ServeTypes'
      BY <1>1, <3>1 DEF ServeTypes, QueuesOK
    <3>3. HandsOK'
      BY <1>1, <3>1 DEF ServeTypes, HandsOK
    <3> QED BY <3>2, <3>3
  <2>6. CASE Disconnect(c)
    <3>1. /\ serve' = [serve EXCEPT ![c] = "gone"] /\ subs' = subs \ {c}
          /\ UNCHANGED <<count, queue, replay, wire, taken, cur, held>>
      BY <2>6 DEF Disconnect, Leave
    <3>2. ServeTypes'
      BY <1>1, <3>1 DEF ServeTypes, QueuesOK
    <3>3. HandsOK'
      BY <1>1, <3>1 DEF ServeTypes, HandsOK
    <3> QED BY <3>2, <3>3
  <2> QED BY <2>1, <2>2, <2>3, <2>4, <2>5, <2>6 DEF Serve
<1> QED BY <1>2, <1>3, ServeTypeParts

(* The types hold throughout. *)
LEMMA TypeStep == TypeInv /\ [Next]_brokerVars => TypeInv'
<1> SUFFICES ASSUME TypeInv, [Next]_brokerVars PROVE TypeInv'
  OBVIOUS
<1>1. CASE UNCHANGED brokerVars
  BY <1>1 DEF TypeInv, TypeOK, GoalsOK, HandsOK, brokerVars, pubVars
<1>2. CASE BrokerStep
  BY <1>2, PublishType, FanOutType, ServeType DEF BrokerStep
<1>3. CASE \E c \in Connections, id \in Events \cup {0} : Register(c, id)
  BY <1>3, RegisterType
<1> QED BY <1>1, <1>2, <1>3 DEF Next, Finished

LEMMA TypeInit == BrokerInit => TypeInv
BY HistoryIsPositive, BufferIsPositive
   DEF BrokerInit, TypeInv, TypeOK, GoalsOK, HandsOK

LEMMA TypeInvHolds == Spec => []TypeInv
<1> QED BY TypeInit, TypeStep, PTL DEF Spec

(* The variables keep their types, queues and history their bounds. *)
THEOREM TypeCorrect == Spec => []TypeOK
<1>1. TypeInv => TypeOK
  BY DEF TypeInv
<1> QED BY <1>1, TypeInvHolds, PTL

-----------------------------------------------------------------------------
(* A sequence that gets one more element. *)
LEMMA Longer ==
  ASSUME NEW s \in Seq(Events), NEW e \in Events, NEW t, t = Append(s, e)
  PROVE  /\ t \in Seq(Events) /\ Len(s) \in Nat /\ Len(t) = Len(s) + 1
         /\ t[Len(s) + 1] = e /\ \A i \in 1..Len(s) : t[i] = s[i]
OBVIOUS

LEMMA DistinctLonger ==
  ASSUME NEW s \in Seq(Events), NEW e \in Events, NEW t, t = Append(s, e), Distinct(s),
         \A i \in 1..Len(s) : s[i] # e
  PROVE  Distinct(t)
<1>1. /\ Len(s) \in Nat /\ Len(t) = Len(s) + 1
      /\ t[Len(s) + 1] = e /\ \A i \in 1..Len(s) : t[i] = s[i]
  BY Longer
<1> SUFFICES ASSUME NEW i \in 1..Len(t), NEW j \in 1..Len(t), t[i] = t[j], i < j
             PROVE  FALSE
  BY <1>1 DEF Distinct
<1>2. CASE j = Len(s) + 1
  BY <1>1, <1>2
<1>3. CASE j # Len(s) + 1
  BY <1>1, <1>3 DEF Distinct
<1> QED BY <1>2, <1>3

(* Only the critical section of publish touches the history. *)
LEMMA HistoryUntouched ==
  ASSUME TypeInv, [Next]_brokerVars, \A e \in Events : ~Publish(e)
  PROVE  /\ UNCHANGED <<hist, recorded>>
         /\ \A e \in Events : pub'[e] = "new" <=> pub[e] = "new"
<1>1. CASE UNCHANGED brokerVars
  BY <1>1 DEF brokerVars, pubVars
<1>2. ASSUME NEW c \in Connections, Serve(c) \/ Disconnect(c) \/ \E id \in Events \cup {0} : Register(c, id)
      PROVE  UNCHANGED <<hist, recorded, pub>>
  BY <1>2 DEF Serve, Replay, Take, Release, FlushCur, FlushHeld, Disconnect, Register, pubVars
<1>3. ASSUME NEW e \in Events, FanOut(e)
      PROVE  /\ UNCHANGED <<hist, recorded>> /\ pub[e] # "new"
             /\ \E s \in {"try", "full", "retry", "done"} : pub' = [pub EXCEPT ![e] = s]
  <2>1. UNCHANGED <<hist, recorded>> /\ pub[e] # "new"
    BY <1>3 DEF FanOut, TrySend, DiscardOldest, Resend
  <2>2. ASSUME NEW c, Advance(e, c) PROVE \E s \in {"try", "done"} : pub' = [pub EXCEPT ![e] = s]
    BY <2>2 DEF Advance
  <2> QED BY <1>3, <2>1, <2>2 DEF FanOut, TrySend, DiscardOldest, Resend, GiveUpOn
<1>4. ASSUME NEW e \in Events, FanOut(e)
      PROVE  \A d \in Events : pub'[d] = "new" <=> pub[d] = "new"
  <2>1. pub \in [Events -> {"new", "try", "full", "retry", "done"}]
    BY DEF TypeInv, TypeOK
  <2> QED BY <1>3, <1>4, <2>1
<1> QED BY <1>1, <1>2, <1>3, <1>4 DEF Next, BrokerStep, Finished, brokerVars, pubVars

(* The history is the end of what was recorded, also after a publication. *)
LEMMA HistoryPublish ==
  ASSUME TypeInv, HistoryOK, NEW e \in Events, Publish(e)
  PROVE  HistoryOK'
<1>1. /\ hist' = add(hist, e) /\ recorded' = Append(recorded, e) /\ pub[e] = "new"
      /\ \E s \in {"done", "try"} : pub' = [pub EXCEPT ![e] = s]
  BY DEF Publish
<1>2. /\ recorded \in Seq(Events) /\ hist \in Seq(Events) /\ Len(hist) <= History
      /\ pub \in [Events -> {"new", "try", "full", "retry", "done"}] /\ History \in Nat /\ History >= 1
  BY HistoryIsPositive DEF TypeInv, TypeOK
<1>3. /\ Len(recorded) \in Nat /\ Len(recorded') = Len(recorded) + 1
      /\ recorded'[Len(recorded) + 1] = e
      /\ \A i \in 1..Len(recorded) : recorded'[i] = recorded[i]
  BY <1>1, <1>2, Longer
<1>4. \A i \in 1..Len(recorded) : recorded[i] # e
  BY <1>1 DEF HistoryOK
<1>5. Distinct(recorded')
  BY <1>1, <1>2, <1>4, DistinctLonger DEF HistoryOK
<1>6. \A d \in Events : pub'[d] # "new" <=> \E i \in 1..Len(recorded') : recorded'[i] = d
  <2>1. pub'[e] # "new" /\ \A d \in Events : d # e => pub'[d] = pub[d]
    BY <1>1, <1>2
  <2>2. \A d \in Events : d # e => ((\E i \in 1..Len(recorded') : recorded'[i] = d)
                                      <=> (\E i \in 1..Len(recorded) : recorded[i] = d))
    BY <1>3
  <2>3. \E i \in 1..Len(recorded') : recorded'[i] = e
    BY <1>3
  <2> QED BY <2>1, <2>2, <2>3 DEF HistoryOK
<1>7. /\ Len(hist') = IF Len(recorded') < History THEN Len(recorded') ELSE History
      /\ \A i \in 1..Len(hist') : hist'[i] = recorded'[Len(recorded') - Len(hist') + i]
  <2>1. CASE Len(hist) = History
    <3> DEFINE t == Tail(hist)
    <3>1. /\ t \in Seq(Events) /\ Len(t) = History - 1 /\ \A i \in 1..Len(t) : t[i] = hist[i + 1]
      BY <1>2, <2>1
    <3>2. hist' = Append(t, e)
      BY <1>1, <2>1 DEF add
    <3> HIDE DEF t
    <3>3. /\ Len(hist') = History /\ hist'[History] = e
          /\ \A i \in 1..(History - 1) : hist'[i] = hist[i + 1]
      BY <1>2, <3>1, <3>2, Longer
    <3>4. Len(recorded) >= History
      BY <1>2, <1>3, <2>1 DEF HistoryOK
    <3>5. \A i \in 1..(History - 1) : hist[i + 1] = recorded[Len(recorded) - History + (i + 1)]
      <4>1. \A k \in 1..History : hist[k] = recorded[Len(recorded) - History + k]
        BY <2>1 DEF HistoryOK
      <4>2. \A i \in 1..(History - 1) : i + 1 \in 1..History
        BY <1>2
      <4> QED BY <4>1, <4>2
    <3>6. ASSUME NEW i \in 1..History PROVE hist'[i] = recorded'[Len(recorded') - History + i]
      <4>1. CASE i = History
        BY <1>2, <1>3, <3>3, <4>1
      <4>2. CASE i # History
        <5>1. i \in 1..(History - 1) /\ Len(recorded) - History + (i + 1) \in 1..Len(recorded)
          BY <1>2, <1>3, <3>4, <4>2
        <5> QED BY <1>2, <1>3, <3>3, <3>5, <5>1
      <4> QED BY <4>1, <4>2
    <3> QED BY <1>2, <1>3, <3>3, <3>4, <3>6
  <2>2. CASE Len(hist) # History
    <3>1. hist' = Append(hist, e)
      BY <1>1, <2>2 DEF add
    <3>2. /\ Len(hist) \in Nat /\ Len(hist') = Len(hist) + 1 /\ hist'[Len(hist) + 1] = e
          /\ \A i \in 1..Len(hist) : hist'[i] = hist[i]
      BY <1>2, <3>1, Longer
    <3>3. Len(hist) = Len(recorded)
      BY <1>2, <1>3, <2>2 DEF HistoryOK
    <3>4. Len(hist') = IF Len(recorded') < History THEN Len(recorded') ELSE History
      <4>1. Len(recorded) < History
        BY <1>2, <1>3, <2>2, <3>3 DEF HistoryOK
      <4> QED BY <1>2, <1>3, <3>2, <3>3, <4>1
    <3>5. ASSUME NEW i \in 1..Len(hist')
          PROVE  hist'[i] = recorded'[Len(recorded') - Len(hist') + i]
      <4>1. Len(recorded') - Len(hist') + i = i
        BY <1>2, <1>3, <3>2, <3>3
      <4>2. CASE i = Len(hist) + 1
        BY <1>2, <1>3, <3>2, <3>3, <4>1, <4>2
      <4>3. CASE i \in 1..Len(hist)
        <5>1. hist[i] = recorded[Len(recorded) - Len(hist) + i]
          BY <4>3 DEF HistoryOK
        <5>2. Len(recorded) - Len(hist) + i = i
          BY <3>2, <3>3
        <5>3. hist[i] = recorded[i] /\ hist'[i] = hist[i]
          BY <3>2, <4>3, <5>1, <5>2
        <5>4. recorded'[i] = recorded[i]
          <6>1. i \in 1..Len(recorded)
            BY <3>3, <4>3
          <6> QED BY <1>3, <6>1
        <5> QED BY <4>1, <5>3, <5>4
      <4> QED BY <3>2, <4>2, <4>3
    <3> QED BY <3>4, <3>5
  <2> QED BY <2>1, <2>2
<1> QED BY <1>5, <1>6, <1>7 DEF HistoryOK

LEMMA HistoryStep == TypeInv /\ HistoryOK /\ [Next]_brokerVars => HistoryOK'
<1> SUFFICES ASSUME TypeInv, HistoryOK, [Next]_brokerVars PROVE HistoryOK'
  OBVIOUS
<1>1. CASE \E e \in Events : Publish(e)
  BY <1>1, HistoryPublish
<1>2. CASE \A e \in Events : ~Publish(e)
  <2>1. /\ hist' = hist /\ recorded' = recorded
        /\ \A e \in Events : pub'[e] = "new" <=> pub[e] = "new"
    BY <1>2, HistoryUntouched
  <2> QED BY <2>1 DEF HistoryOK, Distinct
<1> QED BY <1>1, <1>2

-----------------------------------------------------------------------------
(* The history holds no event twice, each from the last that were recorded. *)
LEMMA HistoryProps ==
  ASSUME TypeInv, HistoryOK
  PROVE  /\ Distinct(hist)
         /\ \A i \in 1..Len(hist) : \E j \in 1..Len(recorded) :
              j > Len(recorded) - History /\ recorded[j] = hist[i]
<1>1. /\ Len(recorded) \in Nat /\ Len(hist) \in Nat /\ Len(hist) <= Len(recorded)
      /\ Len(hist) <= History /\ History \in Nat
      /\ \A i \in 1..Len(hist) : hist[i] = recorded[Len(recorded) - Len(hist) + i]
  <2>1. Len(recorded) \in Nat /\ Len(hist) \in Nat /\ Len(hist) <= History /\ History \in Nat
    BY HistoryIsPositive DEF TypeInv, TypeOK
  <2>2. \A i \in 1..Len(hist) : hist[i] = recorded[Len(recorded) - Len(hist) + i]
    BY DEF HistoryOK
  <2>3. Len(hist) <= Len(recorded)
    BY <2>1 DEF HistoryOK
  <2> QED BY <2>1, <2>2, <2>3
<1>2. \A i \in 1..Len(hist) : Len(recorded) - Len(hist) + i \in 1..Len(recorded)
  BY <1>1
<1>3. Distinct(hist)
  <2> SUFFICES ASSUME NEW i \in 1..Len(hist), NEW j \in 1..Len(hist), hist[i] = hist[j]
               PROVE  i = j
    BY DEF Distinct
  <2>1. recorded[Len(recorded) - Len(hist) + i] = recorded[Len(recorded) - Len(hist) + j]
    BY <1>1
  <2>2. Len(recorded) - Len(hist) + i = Len(recorded) - Len(hist) + j
    BY <1>2, <2>1 DEF Distinct, HistoryOK
  <2> QED BY <1>1, <2>2
<1>4. ASSUME NEW i \in 1..Len(hist)
      PROVE  \E j \in 1..Len(recorded) : j > Len(recorded) - History /\ recorded[j] = hist[i]
  <2> DEFINE j == Len(recorded) - Len(hist) + i
  <2>1. j \in 1..Len(recorded) /\ j > Len(recorded) - History /\ recorded[j] = hist[i]
    BY <1>1, <1>2
  <2> QED BY <2>1
<1> QED BY <1>3, <1>4

LEMMA OffersPublish ==
  ASSUME TypeInv, OffersOK, NEW e \in Events, Publish(e)
  PROVE  OffersOK'
<1> DEFINE reached == {c \in subs : e \in Wants[c]}
<1>1. /\ recorded' = Append(recorded, e) /\ UNCHANGED <<subs, serve, since, snapshot, replay>>
      /\ live' = [c \in Connections |-> IF c \in reached THEN live[c] \cup {e} ELSE live[c]]
  BY DEF Publish
<1> SUFFICES ASSUME NEW c \in Connections PROVE OfferOK(c)'
  BY DEF OffersOK, OfferOK
<1>2. /\ Len(recorded) \in Nat /\ Len(recorded') = Len(recorded) + 1
      /\ recorded'[Len(recorded) + 1] = e
      /\ \A i \in 1..Len(recorded) : recorded'[i] = recorded[i]
  BY <1>1, Longer DEF TypeInv, TypeOK
<1>3. OfferOK(c) /\ since[c] \in Nat
  BY DEF OffersOK, OfferOK, TypeInv, TypeOK
<1>4. live'[c] = IF c \in subs /\ e \in Wants[c] THEN live[c] \cup {e} ELSE live[c]
  BY <1>1
<1> HIDE DEF reached
<1>5. \A d \in live'[c] : \E i \in (since[c] + 1)..Len(recorded') : recorded'[i] = d
  <2>1. \A d \in live[c] : \E i \in (since[c] + 1)..Len(recorded') : recorded'[i] = d
    BY <1>2, <1>3 DEF OfferOK
  <2>2. Len(recorded') \in (since[c] + 1)..Len(recorded') /\ recorded'[Len(recorded')] = e
    BY <1>2, <1>3 DEF OfferOK
  <2> QED BY <1>4, <2>1, <2>2
<1>6. \A d \in snapshot[c] : \E i \in 1..since[c] : i > since[c] - History /\ recorded'[i] = d
  BY <1>2, <1>3 DEF OfferOK
<1>7. ASSUME c \in subs, NEW i \in (since[c] + 1)..Len(recorded'), recorded'[i] \in Wants[c]
      PROVE  recorded'[i] \in live'[c]
  <2>1. CASE i = Len(recorded) + 1
    BY <1>2, <1>4, <1>7, <2>1
  <2>2. CASE i # Len(recorded) + 1
    <3>1. i \in (since[c] + 1)..Len(recorded) /\ i \in 1..Len(recorded)
      BY <1>2, <1>3, <2>2
    <3> QED BY <1>2, <1>3, <1>4, <1>7, <3>1 DEF OfferOK
  <2> QED BY <2>1, <2>2
<1>8. serve[c] = "new" => live'[c] = {}
  BY <1>3, <1>4 DEF OfferOK
<1>9. /\ since'[c] = since[c] /\ serve'[c] = serve[c] /\ snapshot'[c] = snapshot[c]
      /\ replay'[c] = replay[c] /\ (c \in subs' <=> c \in subs) /\ since[c] <= Len(recorded')
  BY <1>1, <1>2, <1>3 DEF OfferOK
<1>10. c \in subs => \A i \in (since[c] + 1)..Len(recorded') :
                         recorded'[i] \in Wants[c] => recorded'[i] \in live'[c]
  BY <1>7
<1> QED BY <1>3, <1>5, <1>6, <1>8, <1>9, <1>10 DEF OfferOK

LEMMA OffersRegister ==
  ASSUME TypeInv, HistoryOK, OffersOK, NEW c \in Connections, NEW id, Register(c, id)
  PROVE  OffersOK'
<1> DEFINE missed == Filter(after(hist, id), Wants[c])
<1>1. /\ replay' = [replay EXCEPT ![c] = missed]
      /\ snapshot' = [snapshot EXCEPT ![c] = ToSet(missed)]
      /\ serve[c] = "new" /\ serve' = [serve EXCEPT ![c] = "replay"]
      /\ since' = [since EXCEPT ![c] = Len(recorded)] /\ subs' = subs \cup {c}
      /\ UNCHANGED <<recorded, live>>
  BY DEF Register, Enlist
<1>2. \A d \in ToSet(missed) : \E i \in 1..Len(hist) : hist[i] = d
  <2>1. hist \in Seq(Events)
    BY DEF TypeInv, TypeOK
  <2>2. /\ missed \in Seq(Events)
        /\ \A k \in 1..Len(missed) : \E i \in 1..Len(hist) : hist[i] = missed[k]
    BY <2>1, MissedProps
  <2> HIDE DEF missed
  <2> QED BY <2>2 DEF ToSet
<1> HIDE DEF missed
<1>3. \A d \in ToSet(missed) : \E j \in 1..Len(recorded) :
         j > Len(recorded) - History /\ recorded[j] = d
  BY <1>2, HistoryProps
<1>4. /\ Len(recorded) \in Nat /\ since \in [Connections -> Nat] /\ subs \subseteq Connections
      /\ DOMAIN serve = Connections /\ DOMAIN snapshot = Connections /\ DOMAIN replay = Connections
  BY DEF TypeInv, TypeOK
<1> SUFFICES ASSUME NEW d \in Connections PROVE OfferOK(d)'
  BY DEF OffersOK, OfferOK
<1>5. OfferOK(d)
  BY DEF OffersOK, OfferOK
<1>6. CASE d = c
  <2>1. /\ since'[c] = Len(recorded) /\ serve'[c] = "replay" /\ snapshot'[c] = ToSet(missed)
        /\ c \in subs' /\ live'[c] = {} /\ recorded' = recorded
    BY <1>1, <1>4, <1>5, <1>6 DEF OfferOK
  <2> QED BY <1>3, <1>4, <1>6, <2>1 DEF OfferOK
<1>7. CASE d # c
  <2>1. /\ since'[d] = since[d] /\ serve'[d] = serve[d] /\ snapshot'[d] = snapshot[d]
        /\ replay'[d] = replay[d] /\ (d \in subs' <=> d \in subs)
        /\ live' = live /\ recorded' = recorded
    BY <1>1, <1>4, <1>7
  <2> QED BY <1>5, <2>1 DEF OfferOK
<1> QED BY <1>6, <1>7

(* The goroutine of a connection touches only what is its own. *)
LEMMA OffersServe ==
  ASSUME TypeInv, OffersOK, NEW c \in Connections, Serve(c) \/ Disconnect(c)
  PROVE  OffersOK'
<1>1. /\ UNCHANGED <<recorded, since, snapshot, live>> /\ serve[c] # "new"
      /\ \/ /\ \E s \in {"replay", "select", "flush", "flushHeld"} : serve' = [serve EXCEPT ![c] = s]
            /\ serve[c] # "gone" /\ UNCHANGED subs
         \/ Leave(c)
      /\ \A d \in Connections : d # c => replay'[d] = replay[d]
  <2>1. DOMAIN serve = Connections /\ replay \in [Connections -> Seq(Events)]
        /\ serve = [serve EXCEPT ![c] = serve[c]]
    BY DEF TypeInv, TypeOK
  <2>2. CASE Replay(c)
    BY <2>1, <2>2 DEF Replay
  <2>3. CASE Take(c)
    BY <2>1, <2>3 DEF Take
  <2>4. CASE Release(c)
    BY <2>1, <2>4 DEF Release, HoldExpires
  <2>5. CASE FlushCur(c)
    BY <2>1, <2>5 DEF FlushCur, FlushFails, AfterFlush
  <2>6. CASE FlushHeld(c)
    BY <2>1, <2>6 DEF FlushHeld, FlushFails
  <2>7. CASE Disconnect(c)
    BY <2>1, <2>7 DEF Disconnect
  <2> QED BY <2>2, <2>3, <2>4, <2>5, <2>6, <2>7 DEF Serve
<1>2. DOMAIN serve = Connections /\ subs \subseteq Connections
  BY DEF TypeInv, TypeOK
<1> SUFFICES ASSUME NEW d \in Connections PROVE OfferOK(d)'
  BY DEF OffersOK, OfferOK
<1>3. OfferOK(d)
  BY DEF OffersOK, OfferOK
<1>4. CASE d # c
  <2>1. serve'[d] = serve[d] /\ (d \in subs' <=> d \in subs) /\ replay'[d] = replay[d]
    BY <1>1, <1>2, <1>4 DEF Leave
  <2> QED BY <1>1, <1>3, <2>1 DEF OfferOK
<1>5. CASE d = c
  <2>1. serve'[c] # "new" /\ (c \in subs' <=> serve'[c] # "gone") /\ (c \in subs' => c \in subs)
    BY <1>1, <1>2, <1>3, <1>5 DEF Leave, OfferOK
  <2> QED BY <1>1, <1>3, <1>5, <2>1 DEF OfferOK
<1> QED BY <1>4, <1>5

LEMMA OffersStep == TypeInv /\ HistoryOK /\ OffersOK /\ [Next]_brokerVars => OffersOK'
<1> SUFFICES ASSUME TypeInv, HistoryOK, OffersOK, [Next]_brokerVars PROVE OffersOK'
  OBVIOUS
<1>1. CASE UNCHANGED brokerVars
  BY <1>1 DEF OffersOK, OfferOK, brokerVars
<1>2. ASSUME NEW e \in Events, FanOut(e) PROVE OffersOK'
  BY <1>2 DEF OffersOK, OfferOK, FanOut, TrySend, DiscardOldest, Resend
<1>3. CASE BrokerStep
  BY <1>2, <1>3, OffersPublish, OffersServe DEF BrokerStep
<1>4. CASE \E c \in Connections, id \in Events \cup {0} : Register(c, id)
  BY <1>4, OffersRegister
<1> QED BY <1>1, <1>3, <1>4 DEF Next, Finished

LEMMA HistoryHolds == Spec => [](HistoryOK /\ OffersOK)
<1>1. BrokerInit => HistoryOK /\ OffersOK
  BY HistoryIsPositive DEF BrokerInit, HistoryOK, OffersOK, OfferOK, Distinct
<1> QED BY <1>1, TypeInvHolds, HistoryStep, OffersStep, PTL DEF Spec

(* Nothing reaches a connection both by replay and live. *)
LEMMA OneWay ==
  ASSUME TypeInv, HistoryOK, OffersOK
  PROVE  EveryEventByOneWay
<1> SUFFICES ASSUME NEW c \in Connections, serve[c] # "new"
             PROVE  /\ snapshot[c] \cap live[c] = {}
                    /\ \A i \in 1..Len(recorded) :
                         /\ serve[c] # "gone" /\ i > since[c] /\ recorded[i] \in Wants[c]
                              => recorded[i] \in live[c]
                         /\ recorded[i] \in live[c] => i > since[c]
                         /\ recorded[i] \in snapshot[c] =>
                              i \in (since[c] - History + 1)..since[c]
  BY DEF EveryEventByOneWay
<1>1. OfferOK(c) /\ Distinct(recorded)
  BY DEF OffersOK, OfferOK, HistoryOK
<1>2. Len(recorded) \in Nat /\ since[c] \in Nat /\ History \in Nat
  BY HistoryIsPositive DEF TypeInv, TypeOK
<1>3. snapshot[c] \cap live[c] = {}
  <2> SUFFICES ASSUME NEW e \in snapshot[c], e \in live[c] PROVE FALSE
    OBVIOUS
  <2>1. PICK i \in 1..since[c] : recorded[i] = e
    BY <1>1 DEF OfferOK
  <2>2. PICK j \in (since[c] + 1)..Len(recorded) : recorded[j] = e
    BY <1>1 DEF OfferOK
  <2> QED BY <1>1, <1>2, <2>1, <2>2 DEF Distinct, OfferOK
<1>4. ASSUME NEW i \in 1..Len(recorded)
      PROVE  /\ serve[c] # "gone" /\ i > since[c] /\ recorded[i] \in Wants[c]
                   => recorded[i] \in live[c]
             /\ recorded[i] \in live[c] => i > since[c]
             /\ recorded[i] \in snapshot[c] => i \in (since[c] - History + 1)..since[c]
  <2>1. serve[c] # "gone" /\ i > since[c] /\ recorded[i] \in Wants[c] => recorded[i] \in live[c]
    BY <1>1, <1>2 DEF OfferOK
  <2>2. ASSUME recorded[i] \in live[c] PROVE i > since[c]
    <3>1. PICK j \in (since[c] + 1)..Len(recorded) : recorded[j] = recorded[i]
      BY <1>1, <2>2 DEF OfferOK
    <3> QED BY <1>1, <1>2, <3>1 DEF Distinct
  <2>3. ASSUME recorded[i] \in snapshot[c] PROVE i \in (since[c] - History + 1)..since[c]
    <3>1. PICK j \in 1..since[c] : j > since[c] - History /\ recorded[j] = recorded[i]
      BY <1>1, <2>3 DEF OfferOK
    <3>2. i = j
      BY <1>1, <1>2, <3>1 DEF Distinct, OfferOK
    <3> QED BY <1>2, <3>1, <3>2
  <2> QED BY <2>1, <2>2, <2>3
<1> QED BY <1>3, <1>4

(* A connection is offered live what is published from its registration    *)
(* on, is replayed what was retained before it, and gets nothing by both.  *)
THEOREM EveryEventByOneWayHolds == Spec => []EveryEventByOneWay
BY OneWay, TypeInvHolds, HistoryHolds, PTL

(* The history holds each of the last events that were recorded. *)
LEMMA HistoryIsTheEnd ==
  ASSUME TypeInv, HistoryOK, NEW i \in 1..Len(recorded), i > Len(recorded) - History
  PROVE  \E j \in 1..Len(hist) : hist[j] = recorded[i]
<1>1. Len(recorded) \in Nat /\ Len(hist) \in Nat /\ History \in Nat
  BY HistoryIsPositive DEF TypeInv, TypeOK
<1> DEFINE j == i - (Len(recorded) - Len(hist))
<1>2. j \in 1..Len(hist) /\ Len(recorded) - Len(hist) + j = i
  <2>1. CASE Len(recorded) < History
    BY <1>1, <2>1 DEF HistoryOK
  <2>2. CASE ~(Len(recorded) < History)
    BY <1>1, <2>2 DEF HistoryOK
  <2> QED BY <2>1, <2>2
<1>3. hist[j] = recorded[Len(recorded) - Len(hist) + j]
  BY <1>2 DEF HistoryOK
<1> QED BY <1>2, <1>3

(* What is replayed is what is retained and comes after the resume point:  *)
(* both inclusions go by way of the history.                               *)
LEMMA RegisterReplays ==
  ASSUME TypeInv, HistoryOK, NEW c \in Connections, NEW id, Register(c, id)
  PROVE  /\ ToSet(replay'[c]) = RetainedAfter(c, id) /\ snapshot'[c] = RetainedAfter(c, id)
         /\ Distinct(replay'[c])
<1> DEFINE missed == Filter(after(hist, id), Wants[c])
<1>1. replay' = [replay EXCEPT ![c] = missed] /\ snapshot' = [snapshot EXCEPT ![c] = ToSet(missed)]
  BY DEF Register
<1>2. /\ hist \in Seq(Events) /\ Len(recorded) \in Nat /\ History \in Nat
      /\ DOMAIN replay = Connections /\ DOMAIN snapshot = Connections
  BY HistoryIsPositive DEF TypeInv, TypeOK
<1>3. /\ missed \in Seq(Events)
      /\ \A k \in 1..Len(missed) :
           /\ missed[k] \in Wants[c] /\ missed[k] > id /\ id # 0
           /\ \E i \in 1..Len(hist) : hist[i] = missed[k]
      /\ \A i \in 1..Len(hist) : hist[i] \in Wants[c] /\ hist[i] > id /\ id # 0
           => \E k \in 1..Len(missed) : missed[k] = hist[i]
      /\ Distinct(hist) => Distinct(missed)
  BY <1>2, MissedProps
<1> HIDE DEF missed
<1>4. replay'[c] = missed /\ snapshot'[c] = ToSet(missed)
  BY <1>1, <1>2
<1>5. ASSUME NEW e \in ToSet(missed) PROVE e \in RetainedAfter(c, id)
  <2>1. PICK k \in 1..Len(missed) : missed[k] = e
    <3>1. missed \in Seq(Events) /\ e \in ToSet(missed)
      BY <1>3, <1>5
    <3> QED BY <3>1 DEF ToSet
  <2>2. e \in Wants[c] /\ e > id /\ id # 0 /\ \E i \in 1..Len(hist) : hist[i] = e
    BY <1>3, <2>1
  <2>3. \E i \in 1..Len(recorded) : i > Len(recorded) - History /\ recorded[i] = e
    BY <2>2, HistoryProps
  <2> QED BY <2>2, <2>3 DEF RetainedAfter
<1>6. ASSUME NEW e \in RetainedAfter(c, id) PROVE e \in ToSet(missed)
  <2>1. e \in Wants[c] /\ id # 0 /\ e > id
    BY <1>6 DEF RetainedAfter
  <2>2. PICK i \in 1..Len(recorded) : i > Len(recorded) - History /\ recorded[i] = e
    BY <1>6 DEF RetainedAfter
  <2>3. PICK j \in 1..Len(hist) : hist[j] = recorded[i]
    BY <2>2, HistoryIsTheEnd
  <2>4. PICK k \in 1..Len(missed) : missed[k] = hist[j]
    BY <1>3, <2>1, <2>2, <2>3
  <2> QED BY <1>3, <2>2, <2>3, <2>4 DEF ToSet
<1>7. Distinct(missed)
  BY <1>3, HistoryProps
<1> QED BY <1>4, <1>5, <1>6, <1>7

(* A connection with a resume point is replayed exactly the retained       *)
(* events it wants that come after that point, each once; one without is   *)
(* replayed nothing.                                                       *)
THEOREM ReplayIsExactHolds == Spec => ReplayIsExact
<1>1. TypeInv /\ HistoryOK /\ [Next]_brokerVars =>
        [\A c \in Connections, id \in Events \cup {0} :
           Register(c, id) =>
             /\ ToSet(replay'[c]) = RetainedAfter(c, id) /\ snapshot'[c] = RetainedAfter(c, id)
             /\ \A k, l \in 1..Len(replay'[c]) : replay'[c][k] = replay'[c][l] => k = l]_brokerVars
  BY RegisterReplays DEF Distinct
<1> QED BY <1>1, TypeInvHolds, HistoryHolds, PTL DEF Spec, ReplayIsExact

-----------------------------------------------------------------------------
(* What a sequence has when it gets longer, or loses its head. *)
LEMMA HasLonger ==
  ASSUME NEW s \in Seq(Events), NEW e \in Events, NEW t, t = Append(s, e)
  PROVE  \A x : Has(t, x) <=> (Has(s, x) \/ x = e)
<1>1. /\ Len(s) \in Nat /\ Len(t) = Len(s) + 1
      /\ t[Len(s) + 1] = e /\ \A i \in 1..Len(s) : t[i] = s[i]
  BY Longer
<1> QED BY <1>1 DEF Has

LEMMA HasShorter ==
  ASSUME NEW s \in Seq(Events), s # <<>>, Distinct(s), NEW t, t = Tail(s)
  PROVE  /\ Distinct(t) /\ Has(s, Head(s)) /\ Head(s) \in Events
         /\ \A x : Has(t, x) <=> (Has(s, x) /\ x # Head(s))
<1>1. /\ Len(s) \in Nat /\ Len(s) >= 1 /\ t \in Seq(Events) /\ Len(t) = Len(s) - 1
      /\ Head(s) = s[1] /\ Head(s) \in Events /\ \A i \in 1..Len(t) : t[i] = s[i + 1]
  OBVIOUS
<1>2. \A i \in 1..Len(t) : i + 1 \in 1..Len(s)
  BY <1>1
<1>3. Distinct(t)
  <2> SUFFICES ASSUME NEW i \in 1..Len(t), NEW j \in 1..Len(t), t[i] = t[j] PROVE i = j
    BY DEF Distinct
  <2>1. i + 1 = j + 1
    BY <1>1, <1>2 DEF Distinct
  <2> QED BY <1>1, <2>1
<1>4. ASSUME NEW x, Has(t, x) PROVE Has(s, x) /\ x # Head(s)
  <2>1. PICK i \in 1..Len(t) : t[i] = x
    BY <1>4 DEF Has
  <2>2. s[i + 1] = x /\ i + 1 \in 1..Len(s) /\ 1 \in 1..Len(s) /\ i + 1 # 1
    BY <1>1, <1>2, <2>1
  <2> QED BY <1>1, <2>2 DEF Has, Distinct
<1>5. ASSUME NEW x, Has(s, x), x # Head(s) PROVE Has(t, x)
  <2>1. PICK i \in 1..Len(s) : s[i] = x
    BY <1>5 DEF Has
  <2>2. i - 1 \in 1..Len(t) /\ t[i - 1] = s[(i - 1) + 1] /\ (i - 1) + 1 = i
    BY <1>1, <1>5, <2>1
  <2> QED BY <2>1, <2>2 DEF Has
<1>6. Has(s, Head(s))
  BY <1>1 DEF Has
<1> QED BY <1>1, <1>3, <1>4, <1>5, <1>6

-----------------------------------------------------------------------------
(* What has not been published is on its way to no one.                    *)
LEMMA NotYetOffered ==
  ASSUME TypeInv, HistoryOK, OffersOK, WayOK, NEW e \in Events, pub[e] = "new",
         NEW c \in Connections
  PROVE  e \notin live[c] /\ ~Has(queue[c], e) /\ ~Has(taken[c], e)
<1>1. Len(recorded) \in Nat /\ since[c] \in Nat
  BY DEF TypeInv, TypeOK
<1>2. \A i \in 1..Len(recorded) : recorded[i] # e
  BY DEF HistoryOK
<1>3. \A i \in (since[c] + 1)..Len(recorded) : recorded[i] # e
  BY <1>1, <1>2
<1>4. e \notin live[c]
  BY <1>3 DEF OffersOK, OfferOK
<1> QED BY <1>4 DEF WayOK, OnItsWay

LEMMA WayPublish ==
  ASSUME TypeInv, HistoryOK, OffersOK, WayOK, NEW e \in Events, Publish(e)
  PROVE  WayOK'
<1> DEFINE reached == {c \in subs : e \in Wants[c]}
<1>1. /\ targets' = [targets EXCEPT ![e] = reached] /\ UNCHANGED <<queue, taken>>
      /\ live' = [c \in Connections |-> IF c \in reached THEN live[c] \cup {e} ELSE live[c]]
      /\ pub[e] = "new" /\ DOMAIN targets = Events
  BY DEF Publish, TypeInv, TypeOK
<1> HIDE DEF reached
<1> SUFFICES ASSUME NEW c \in Connections PROVE OnItsWay(c)'
  BY DEF WayOK
<1>2. OnItsWay(c)
  BY DEF WayOK
<1>3. /\ e \notin live[c] /\ ~Has(queue[c], e) /\ ~Has(taken[c], e)
      /\ queue' = queue /\ taken' = taken
      /\ \A d \in Events : d # e => targets'[d] = targets[d]
      /\ live[c] \subseteq live'[c] /\ (c \in targets'[e] => e \in live'[c])
  BY <1>1, NotYetOffered
<1> QED BY <1>2, <1>3 DEF OnItsWay

(* The request is through with one connection, whose queue now has the     *)
(* event, or not.                                                          *)
LEMMA WayAdvance ==
  ASSUME TypeInv, WayOK, NEW e \in Events, NEW c \in Connections, c \in targets[e],
         Advance(e, c), Send(e, c) \/ UNCHANGED queue, UNCHANGED <<taken, live>>
  PROVE  WayOK'
<1> SUFFICES ASSUME NEW d \in Connections PROVE OnItsWay(d)'
  BY DEF WayOK
<1>1. OnItsWay(d) /\ queue \in [Connections -> Seq(Events)] /\ DOMAIN targets = Events
  BY DEF WayOK, TypeInv, TypeOK
<1>2. targets' = [targets EXCEPT ![e] = targets[e] \ {c}]
  BY DEF Advance
<1>3. \A x \in Events : d \in targets'[x] <=> (d \in targets[x] /\ ~(x = e /\ d = c))
  BY <1>1, <1>2
<1>4. CASE queue'[d] = queue[d]
  BY <1>1, <1>3, <1>4 DEF OnItsWay
<1>5. CASE d = c /\ queue'[c] = Append(queue[c], e)
  <2>1. \A x : Has(queue'[c], x) <=> (Has(queue[c], x) \/ x = e)
    <3>1. queue[c] \in Seq(Events)
      BY <1>1
    <3> QED BY <1>5, <3>1, HasLonger
  <2>2. e \in live[c] /\ ~Has(queue[c], e) /\ ~Has(taken[c], e)
    BY <1>1, <1>5 DEF OnItsWay
  <2>3. Distinct(queue'[c])
    <3>1. \A i \in 1..Len(queue[c]) : queue[c][i] # e
      BY <2>2 DEF Has
    <3>2. Distinct(queue[c])
      BY <1>1, <1>5 DEF OnItsWay
    <3> QED BY <1>1, <1>5, <3>1, <3>2, DistinctLonger
  <2> QED BY <1>1, <1>3, <1>5, <2>1, <2>2, <2>3 DEF OnItsWay
<1> QED BY <1>1, <1>4, <1>5 DEF Send

(* The oldest event leaves a queue: discarded, or received.                *)
LEMMA WayShorter ==
  ASSUME TypeInv, WayOK, NEW c \in Connections, queue[c] # <<>>,
         queue' = [queue EXCEPT ![c] = Tail(@)], UNCHANGED <<targets, live>>,
         UNCHANGED taken \/ taken' = [taken EXCEPT ![c] = Append(@, Head(queue[c]))]
  PROVE  WayOK'
<1> SUFFICES ASSUME NEW d \in Connections PROVE OnItsWay(d)'
  BY DEF WayOK
<1>1. /\ OnItsWay(d) /\ queue \in [Connections -> Seq(Events)]
      /\ taken \in [Connections -> Seq(Events)]
  BY DEF WayOK, TypeInv, TypeOK
<1>2. CASE d # c
  <2>1. queue'[d] = queue[d] /\ taken'[d] = taken[d] /\ targets' = targets /\ live' = live
    BY <1>1, <1>2
  <2> QED BY <1>1, <2>1 DEF OnItsWay
<1>3. CASE d = c
  <2> DEFINE h == Head(queue[c])
  <2>1. /\ Distinct(queue'[c]) /\ Has(queue[c], h) /\ h \in Events
        /\ \A x : Has(queue'[c], x) <=> (Has(queue[c], x) /\ x # h)
    <3>1. queue'[c] = Tail(queue[c]) /\ queue[c] \in Seq(Events) /\ Distinct(queue[c])
      BY <1>1, <1>3 DEF OnItsWay
    <3> QED BY <3>1, HasShorter
  <2>2. h \in live[c] /\ ~Has(taken[c], h) /\ \A x \in Events : x = h => c \notin targets[x]
    BY <1>1, <1>3, <2>1 DEF OnItsWay
  <2>3. CASE UNCHANGED taken
    BY <1>1, <1>3, <2>1, <2>3 DEF OnItsWay
  <2>4. CASE taken'[c] = Append(taken[c], h)
    <3>1. taken[c] \in Seq(Events) /\ Distinct(taken[c])
      BY <1>1, <1>3 DEF OnItsWay
    <3> HIDE DEF h
    <3>2. \A x : Has(taken'[c], x) <=> (Has(taken[c], x) \/ x = h)
      BY <2>1, <2>4, <3>1, HasLonger
    <3>3. \A i \in 1..Len(taken[c]) : taken[c][i] # h
      BY <2>2 DEF Has
    <3>4. Distinct(taken'[c])
      BY <2>1, <2>4, <3>1, <3>3, DistinctLonger
    <3> QED BY <1>1, <1>3, <2>1, <2>2, <3>2, <3>4 DEF OnItsWay
  <2> QED BY <1>1, <1>3, <2>3, <2>4
<1> QED BY <1>2, <1>3

LEMMA WayStep ==
  TypeInv /\ HistoryOK /\ OffersOK /\ WayOK /\ [Next]_brokerVars => WayOK'
<1> SUFFICES ASSUME TypeInv, HistoryOK, OffersOK, WayOK, [Next]_brokerVars PROVE WayOK'
  OBVIOUS
<1>1. CASE UNCHANGED <<queue, taken, targets, live>>
  BY <1>1 DEF WayOK, OnItsWay
<1>2. ASSUME NEW e \in Events, FanOut(e) PROVE WayOK'
  <2>1. ASSUME NEW c \in Connections, TrySend(e, c) PROVE WayOK'
    <3>1. CASE HasRoom(c) /\ Send(e, c) /\ Advance(e, c)
      BY <2>1, <3>1, WayAdvance DEF TrySend
    <3> QED BY <1>1, <2>1, <3>1 DEF TrySend
  <2>2. CASE DiscardOldest(e)
    <3>1. goal[e] \in Connections
      BY <2>2, TypeParts DEF TypeInv, GoalsOK, RequestsType, DiscardOldest
    <3> QED BY <1>1, <2>2, <3>1, WayShorter DEF DiscardOldest
  <2>3. CASE Resend(e)
    <3>1. goal[e] \in Connections /\ goal[e] \in targets[e]
      BY <2>3, TypeParts DEF TypeInv, GoalsOK, RequestsType, Resend
    <3> QED BY <2>3, <3>1, WayAdvance DEF Resend, GiveUpOn
  <2> QED BY <1>2, <2>1, <2>2, <2>3 DEF FanOut
<1>3. ASSUME NEW c \in Connections, Serve(c) \/ Disconnect(c) PROVE WayOK'
  <2>1. CASE Take(c)
    <3>1. /\ queue[c] # <<>> /\ queue' = [queue EXCEPT ![c] = Tail(@)] /\ UNCHANGED <<targets, live>>
          /\ taken' = [taken EXCEPT ![c] = Append(@, Head(queue[c]))]
      BY <2>1 DEF Take, pubVars
    <3> QED BY <3>1, WayShorter
  <2>2. CASE Replay(c) \/ Release(c) \/ FlushCur(c) \/ FlushHeld(c) \/ Disconnect(c)
    BY <1>1, <2>2 DEF Replay, Release, FlushCur, FlushHeld, Disconnect, pubVars
  <2> QED BY <1>3, <2>1, <2>2 DEF Serve
<1>4. CASE BrokerStep
  BY <1>2, <1>3, <1>4, WayPublish DEF BrokerStep
<1>5. CASE \E c \in Connections, id \in Events \cup {0} : Register(c, id)
  BY <1>1, <1>5 DEF Register, pubVars
<1>6. CASE UNCHANGED brokerVars
  BY <1>1, <1>6 DEF brokerVars, pubVars
<1> QED BY <1>4, <1>5, <1>6 DEF Next, Finished

LEMMA WayHolds == Spec => []WayOK
<1>1. BrokerInit => WayOK
  BY DEF BrokerInit, WayOK, OnItsWay, Distinct, Has
<1> QED BY <1>1, TypeInvHolds, HistoryHolds, WayStep, PTL DEF Spec

-----------------------------------------------------------------------------
(* The stream stays in order when the last event received, or the one      *)
(* before it, is written; when an event is written that was not received;  *)
(* and when one is received that is not on the stream.                     *)
LEMMA OrderedWrite ==
  ASSUME NEW w \in Seq(Events), NEW t \in Seq(Events), Distinct(t), Ordered(w, t),
         NEW m \in 1..Len(t), m >= Len(t) - 1, NEW v, v = Append(w, t[m])
  PROVE  Ordered(v, t)
<1>1. /\ Len(t) \in Nat /\ t[m] \in Events
      /\ Len(w) \in Nat /\ Len(v) = Len(w) + 1 /\ v[Len(w) + 1] = t[m]
      /\ \A i \in 1..Len(w) : v[i] = w[i]
  BY Longer
<1> SUFFICES ASSUME NEW i \in 1..Len(t), NEW j \in 1..Len(t), i + 1 < j,
                    NEW k \in 1..Len(v), NEW l \in 1..Len(v), v[k] = t[i], v[l] = t[j]
             PROVE  k < l
  BY DEF Ordered
<1>2. k # Len(w) + 1
  BY <1>1 DEF Distinct
<1>3. CASE l = Len(w) + 1
  BY <1>1, <1>2, <1>3
<1>4. CASE l # Len(w) + 1
  <2>1. k \in 1..Len(w) /\ l \in 1..Len(w) /\ w[k] = t[i] /\ w[l] = t[j]
    BY <1>1, <1>2, <1>4
  <2> QED BY <2>1 DEF Ordered
<1> QED BY <1>3, <1>4

LEMMA OrderedReplay ==
  ASSUME NEW w \in Seq(Events), NEW t \in Seq(Events), Ordered(w, t), NEW e \in Events, ~Has(t, e),
         NEW v, v = Append(w, e)
  PROVE  Ordered(v, t)
<1>1. /\ Len(w) \in Nat /\ Len(v) = Len(w) + 1 /\ v[Len(w) + 1] = e
      /\ \A i \in 1..Len(w) : v[i] = w[i]
  BY Longer
<1> SUFFICES ASSUME NEW i \in 1..Len(t), NEW j \in 1..Len(t), i + 1 < j,
                    NEW k \in 1..Len(v), NEW l \in 1..Len(v), v[k] = t[i], v[l] = t[j]
             PROVE  k < l
  BY DEF Ordered
<1>2. k # Len(w) + 1 /\ l # Len(w) + 1
  BY <1>1 DEF Has
<1>3. k \in 1..Len(w) /\ l \in 1..Len(w) /\ w[k] = t[i] /\ w[l] = t[j]
  BY <1>1, <1>2
<1> QED BY <1>3 DEF Ordered

LEMMA OrderedTake ==
  ASSUME NEW w \in Seq(Events), NEW t \in Seq(Events), Ordered(w, t), NEW e \in Events, ~Has(w, e),
         NEW u \in Seq(Events), Len(u) = Len(t) + 1, u[Len(t) + 1] = e,
         \A i \in 1..Len(t) : u[i] = t[i]
  PROVE  Ordered(w, u)
<1>1. Len(t) \in Nat
  OBVIOUS
<1> SUFFICES ASSUME NEW i \in 1..Len(u), NEW j \in 1..Len(u), i + 1 < j,
                    NEW k \in 1..Len(w), NEW l \in 1..Len(w), w[k] = u[i], w[l] = u[j]
             PROVE  k < l
  BY DEF Ordered
<1>2. j # Len(t) + 1
  BY <1>1 DEF Has
<1>3. i \in 1..Len(t) /\ j \in 1..Len(t) /\ w[k] = t[i] /\ w[l] = t[j]
  BY <1>1, <1>2
<1> QED BY <1>3 DEF Ordered

(* Writing twice is writing, and writing again. *)
LEMMA AppendTwice ==
  ASSUME NEW w \in Seq(Events), NEW e \in Events
  PROVE  /\ Append(w, e) \in Seq(Events)
         /\ w \o <<e, e>> = Append(Append(w, e), e)
OBVIOUS

(* Whatever the faults make of flushing it, the last event received or the *)
(* one before it keeps the stream in order.                                *)
LEMMA Written ==
  ASSUME TypeInv, WayOK, NEW c \in Connections, Streamed(c), NEW m \in 1..Len(taken[c]),
         m >= Len(taken[c]) - 1, Flushed(c, taken[c][m]) \/ FlushFails(c, taken[c][m])
  PROVE  /\ Ordered(wire'[c], taken[c])
         /\ \A k \in 1..Len(wire'[c]) : wire'[c][k] \in snapshot[c] \/ Has(taken[c], wire'[c][k])
<1> DEFINE t == taken[c]
           w == wire[c]
           OK(v) == /\ v \in Seq(Events) /\ Ordered(v, t)
                    /\ \A k \in 1..Len(v) : v[k] \in snapshot[c] \/ Has(t, v[k])
<1>1. /\ wire \in [Connections -> Seq(Events)] /\ t \in Seq(Events) /\ t[m] \in Events
      /\ Distinct(t) /\ Has(t, t[m])
  BY DEF TypeInv, TypeOK, WayOK, OnItsWay, Has
<1>2. OK(w)
  BY <1>1 DEF Streamed
<1>3. \/ wire'[c] = w \/ wire'[c] = Append(w, t[m])
      \/ wire'[c] = Append(Append(w, t[m]), t[m])
  BY <1>1, AppendTwice DEF Flushed, FlushFails
<1> HIDE DEF t, w
<1>4. ASSUME NEW v, OK(v) PROVE OK(Append(v, t[m]))
  <2> DEFINE x == Append(v, t[m])
  <2>1. /\ x \in Seq(Events) /\ Len(v) \in Nat /\ Len(x) = Len(v) + 1
        /\ x[Len(v) + 1] = t[m] /\ \A i \in 1..Len(v) : x[i] = v[i]
    BY <1>1, <1>4, Longer
  <2>2. Ordered(x, t)
    BY <1>1, <1>4, OrderedWrite DEF t
  <2> HIDE DEF x
  <2>3. ASSUME NEW k \in 1..Len(x) PROVE x[k] \in snapshot[c] \/ Has(t, x[k])
    <3>1. CASE k = Len(v) + 1
      BY <1>1, <2>1, <3>1
    <3>2. CASE k \in 1..Len(v)
      <4>1. v[k] \in snapshot[c] \/ Has(t, v[k])
        BY <1>4, <3>2
      <4> QED BY <2>1, <3>2, <4>1
    <3> QED BY <2>1, <3>1, <3>2
  <2>4. OK(x)
    BY <2>1, <2>2, <2>3
  <2> QED BY <2>4 DEF x
<1>5. OK(wire'[c])
  BY <1>2, <1>3, <1>4
<1> QED BY <1>5 DEF t

(* The goroutine of one connection leaves the others alone. *)
LEMMA OthersUntouched ==
  ASSUME TypeInv, NEW c \in Connections, NEW d \in Connections, d # c,
         Serve(c) \/ Disconnect(c) \/ \E id \in Events \cup {0} : Register(c, id)
  PROVE  /\ serve'[d] = serve[d] /\ replay'[d] = replay[d] /\ cur'[d] = cur[d]
         /\ held'[d] = held[d] /\ wire'[d] = wire[d] /\ taken'[d] = taken[d]
         /\ snapshot'[d] = snapshot[d]
<1>1. /\ DOMAIN serve = Connections /\ DOMAIN replay = Connections /\ DOMAIN cur = Connections
      /\ DOMAIN held = Connections /\ DOMAIN wire = Connections /\ DOMAIN taken = Connections
      /\ DOMAIN snapshot = Connections
  BY DEF TypeInv, TypeOK
<1>2. CASE \E id \in Events \cup {0} : Register(c, id)
  BY <1>1, <1>2 DEF Register
<1>3. CASE Replay(c)
  BY <1>1, <1>3 DEF Replay
<1>4. CASE Take(c)
  BY <1>1, <1>4 DEF Take
<1>5. CASE Release(c)
  BY <1>1, <1>5 DEF Release, HoldExpires
<1>6. CASE Disconnect(c)
  BY <1>1, <1>6 DEF Disconnect, Leave
<1>7. CASE FlushCur(c)
  BY <1>1, <1>7 DEF FlushCur, Flushed, FlushFails, Leave
<1>8. CASE FlushHeld(c)
  BY <1>1, <1>8 DEF FlushHeld, Flushed, FlushFails, Leave
<1> QED BY <1>2, <1>3, <1>4, <1>5, <1>6, <1>7, <1>8 DEF Serve

LEMMA StreamRegister ==
  ASSUME TypeInv, OffersOK, NEW c \in Connections, Streamed(c), NEW id, Register(c, id)
  PROVE  Streamed(c)'
<1> DEFINE missed == Filter(after(hist, id), Wants[c])
<1>1. /\ replay' = [replay EXCEPT ![c] = missed]
      /\ snapshot' = [snapshot EXCEPT ![c] = ToSet(missed)]
      /\ serve[c] = "new" /\ serve' = [serve EXCEPT ![c] = "replay"] /\ UNCHANGED <<wire, taken>>
  BY DEF Register
<1>2. missed \in Seq(Events)
  BY MissedProps DEF TypeInv, TypeOK
<1> HIDE DEF missed
<1>3. /\ replay'[c] = missed /\ snapshot'[c] = ToSet(missed) /\ serve'[c] = "replay"
      /\ wire' = wire /\ taken' = taken /\ snapshot[c] = {}
  BY <1>1 DEF TypeInv, TypeOK, OffersOK, OfferOK
<1>4. \A k \in 1..Len(missed) : missed[k] \in ToSet(missed)
  BY <1>2 DEF ToSet
<1> QED BY <1>3, <1>4 DEF Streamed

LEMMA StreamReplay ==
  ASSUME TypeInv, HistoryOK, OffersOK, WayOK, NEW c \in Connections, Streamed(c), Replay(c)
  PROVE  Streamed(c)'
<1>1. /\ replay \in [Connections -> Seq(Events)] /\ wire \in [Connections -> Seq(Events)]
      /\ taken \in [Connections -> Seq(Events)] /\ DOMAIN serve = Connections
      /\ serve[c] = "replay" /\ held[c] = 0 /\ UNCHANGED <<taken, held, cur, snapshot>>
  BY DEF TypeInv, TypeOK, HandsOK, Replay
<1>2. CASE /\ replay[c] # <<>> /\ wire' = [wire EXCEPT ![c] = Append(@, Head(replay[c]))]
           /\ replay' = [replay EXCEPT ![c] = Tail(@)] /\ UNCHANGED serve
  <2> DEFINE h == Head(replay[c])
  <2>1. /\ Len(replay[c]) \in Nat /\ Len(replay[c]) >= 1 /\ h = replay[c][1] /\ h \in Events
        /\ Len(replay'[c]) = Len(replay[c]) - 1
        /\ \A i \in 1..Len(replay'[c]) : replay'[c][i] = replay[c][i + 1]
    BY <1>1, <1>2, TailOf
  <2>2. wire[c] \in Seq(Events) /\ taken[c] \in Seq(Events) /\ wire'[c] = Append(wire[c], h)
    BY <1>1, <1>2
  <2> HIDE DEF h
  <2>3. h \in snapshot[c]
    BY <2>1 DEF Streamed
  <2>4. ~Has(taken[c], h)
    <3>1. snapshot[c] \cap live[c] = {}
      BY <1>1, OneWay DEF EveryEventByOneWay
    <3> QED BY <2>1, <2>3, <3>1 DEF WayOK, OnItsWay
  <2>5. Ordered(wire'[c], taken[c])
    BY <2>1, <2>2, <2>4, OrderedReplay DEF Streamed
  <2>6. \A k \in 1..Len(wire'[c]) : wire'[c][k] \in snapshot[c] \/ Has(taken[c], wire'[c][k])
    <3>1. /\ Len(wire[c]) \in Nat /\ Len(wire'[c]) = Len(wire[c]) + 1
          /\ wire'[c][Len(wire[c]) + 1] = h /\ \A i \in 1..Len(wire[c]) : wire'[c][i] = wire[c][i]
      BY <2>1, <2>2, Longer
    <3> QED BY <2>3, <3>1 DEF Streamed
  <2>7. \A k \in 1..Len(replay'[c]) : replay'[c][k] \in snapshot[c]
    BY <2>1 DEF Streamed
  <2> QED BY <1>1, <1>2, <2>5, <2>6, <2>7 DEF Streamed
<1>3. CASE serve' = [serve EXCEPT ![c] = "select"] /\ UNCHANGED <<wire, replay>>
  BY <1>1, <1>3 DEF Streamed
<1> QED BY <1>2, <1>3 DEF Replay

LEMMA StreamTake ==
  ASSUME TypeInv, HistoryOK, OffersOK, WayOK, NEW c \in Connections, Streamed(c), Take(c)
  PROVE  Streamed(c)'
<1> DEFINE h == Head(queue[c])
           n == Len(taken[c])
<1>1. /\ queue[c] \in Seq(Events) /\ queue[c] # <<>> /\ wire[c] \in Seq(Events)
      /\ taken[c] \in Seq(Events) /\ taken'[c] = Append(taken[c], h)
      /\ serve[c] = "select" /\ UNCHANGED <<wire, replay, snapshot>>
      /\ DOMAIN cur = Connections /\ DOMAIN held = Connections /\ DOMAIN serve = Connections
  BY DEF TypeInv, TypeOK, Take
<1>2. h \in Events /\ Has(queue[c], h)
  <2>1. Distinct(queue[c])
    BY DEF WayOK, OnItsWay
  <2> QED BY <1>1, <2>1, HasShorter
<1>3. \/ /\ MayHold(c) /\ held' = [held EXCEPT ![c] = h] /\ UNCHANGED <<cur, serve>>
      \/ /\ cur' = [cur EXCEPT ![c] = h] /\ serve' = [serve EXCEPT ![c] = "flush"] /\ UNCHANGED held
  BY DEF Take
<1> HIDE DEF h
<1>4. /\ n \in Nat /\ taken'[c] \in Seq(Events) /\ Len(taken'[c]) = n + 1
      /\ taken'[c][n + 1] = h /\ \A i \in 1..n : taken'[c][i] = taken[c][i]
  BY <1>1, <1>2, Longer
<1>5. ~Has(wire[c], h)
  <2>1. h \in live[c] /\ ~Has(taken[c], h)
    BY <1>2 DEF WayOK, OnItsWay
  <2>2. snapshot[c] \cap live[c] = {}
    BY <1>1, OneWay DEF EveryEventByOneWay
  <2> QED BY <2>1, <2>2 DEF Streamed, Has
<1>6. Ordered(wire[c], taken'[c])
  BY <1>1, <1>2, <1>4, <1>5, OrderedTake DEF Streamed
<1>7. \A k \in 1..Len(wire[c]) : wire[c][k] \in snapshot[c] \/ Has(taken'[c], wire[c][k])
  <2>1. \A x : Has(taken[c], x) => Has(taken'[c], x)
    BY <1>1, <1>2, HasLonger
  <2>2. \A k \in 1..Len(wire[c]) : wire[c][k] \in snapshot[c] \/ Has(taken[c], wire[c][k])
    BY DEF Streamed
  <2> QED BY <2>1, <2>2
<1>8. \A k \in 1..Len(replay[c]) : replay[c][k] \in snapshot[c]
  BY DEF Streamed
<1>9. held[c] # 0 => n >= 1 /\ held[c] = taken[c][n]
  BY <1>1 DEF Streamed
<1> HIDE DEF n
<1>10. CASE MayHold(c) /\ held' = [held EXCEPT ![c] = h] /\ UNCHANGED <<cur, serve>>
  <2>1. held'[c] = h /\ serve'[c] = "select"
    BY <1>1, <1>10
  <2> QED BY <1>1, <1>4, <1>6, <1>7, <1>8, <2>1 DEF Streamed
<1>11. CASE /\ cur' = [cur EXCEPT ![c] = h] /\ serve' = [serve EXCEPT ![c] = "flush"]
            /\ UNCHANGED held
  <2>1. cur'[c] = h /\ serve'[c] = "flush" /\ held'[c] = held[c]
    BY <1>1, <1>11
  <2>2. held[c] # 0 => Len(taken'[c]) >= 2 /\ held[c] = taken'[c][Len(taken'[c]) - 1]
    BY <1>4, <1>9
  <2> QED BY <1>1, <1>4, <1>6, <1>7, <1>8, <2>1, <2>2 DEF Streamed
<1> QED BY <1>3, <1>10, <1>11

LEMMA StreamFlush ==
  ASSUME TypeInv, WayOK, NEW c \in Connections, Streamed(c), FlushCur(c) \/ FlushHeld(c)
  PROVE  Streamed(c)'
<1> DEFINE n == Len(taken[c])
<1>1. /\ n \in Nat /\ DOMAIN serve = Connections /\ DOMAIN held = Connections
      /\ UNCHANGED <<taken, replay, snapshot>>
  BY DEF TypeInv, TypeOK, FlushCur, FlushHeld
<1>2. ASSUME /\ Ordered(wire'[c], taken[c])
             /\ \A k \in 1..Len(wire'[c]) : wire'[c][k] \in snapshot[c] \/ Has(taken[c], wire'[c][k]),
             \/ serve'[c] = "gone"
             \/ serve'[c] = "select" /\ held'[c] = 0
             \/ serve'[c] = "flushHeld" /\ n >= 2 /\ held'[c] = taken[c][n - 1]
      PROVE  Streamed(c)'
  <2>1. \A k \in 1..Len(replay[c]) : replay[c][k] \in snapshot[c]
    BY DEF Streamed
  <2> QED BY <1>1, <1>2, <2>1 DEF Streamed
<1>3. CASE FlushCur(c)
  <2>1. /\ n >= 1 /\ cur[c] = taken[c][n] /\ (held[c] # 0 => n >= 2 /\ held[c] = taken[c][n - 1])
    BY <1>3 DEF Streamed, FlushCur
  <2>2. /\ Ordered(wire'[c], taken[c])
        /\ \A k \in 1..Len(wire'[c]) : wire'[c][k] \in snapshot[c] \/ Has(taken[c], wire'[c][k])
    <3>1. n \in 1..Len(taken[c]) /\ n >= Len(taken[c]) - 1
      BY <1>1, <2>1
    <3> QED BY <1>3, <2>1, <3>1, Written DEF FlushCur
  <2>3. \/ serve'[c] = "gone"
        \/ serve'[c] = "select" /\ held'[c] = 0
        \/ serve'[c] = "flushHeld" /\ n >= 2 /\ held'[c] = taken[c][n - 1]
    BY <1>1, <1>3, <2>1 DEF FlushCur, AfterFlush, FlushFails, Leave
  <2> QED BY <1>2, <2>2, <2>3
<1>4. CASE FlushHeld(c)
  <2>1. PICK m \in 1..n : m >= n - 1 /\ held[c] = taken[c][m]
    <3>1. CASE n >= 1 /\ held[c] = taken[c][n]
      BY <1>1, <3>1
    <3>2. CASE n >= 2 /\ held[c] = taken[c][n - 1]
      BY <1>1, <3>2
    <3> QED BY <1>4, <3>1, <3>2 DEF Streamed, FlushHeld
  <2>2. /\ Ordered(wire'[c], taken[c])
        /\ \A k \in 1..Len(wire'[c]) : wire'[c][k] \in snapshot[c] \/ Has(taken[c], wire'[c][k])
    BY <1>4, <2>1, Written DEF FlushHeld
  <2>3. serve'[c] = "gone" \/ (serve'[c] = "select" /\ held'[c] = 0)
    BY <1>1, <1>4 DEF FlushHeld, FlushFails, Leave
  <2> QED BY <1>2, <2>2, <2>3
<1> QED BY <1>3, <1>4

LEMMA StreamStep ==
  TypeInv /\ HistoryOK /\ OffersOK /\ WayOK /\ StreamOK /\ [Next]_brokerVars => StreamOK'
<1> SUFFICES ASSUME TypeInv, HistoryOK, OffersOK, WayOK, StreamOK, [Next]_brokerVars
             PROVE  StreamOK'
  OBVIOUS
<1>1. CASE UNCHANGED <<serve, replay, cur, held, wire, taken, snapshot>>
  BY <1>1 DEF StreamOK, Streamed
<1>2. ASSUME NEW e \in Events, Publish(e) \/ FanOut(e) PROVE StreamOK'
  BY <1>1, <1>2 DEF Publish, FanOut, TrySend, DiscardOldest, Resend
<1>3. ASSUME NEW c \in Connections,
             Serve(c) \/ Disconnect(c) \/ \E id \in Events \cup {0} : Register(c, id)
      PROVE  StreamOK'
  <2> SUFFICES ASSUME NEW d \in Connections PROVE Streamed(d)'
    BY DEF StreamOK
  <2>1. Streamed(d)
    BY DEF StreamOK
  <2>2. CASE d # c
    <3>1. /\ serve'[d] = serve[d] /\ replay'[d] = replay[d] /\ cur'[d] = cur[d]
          /\ held'[d] = held[d] /\ wire'[d] = wire[d] /\ taken'[d] = taken[d]
          /\ snapshot'[d] = snapshot[d]
      BY <1>3, <2>2, OthersUntouched
    <3> QED BY <2>1, <3>1 DEF Streamed
  <2>3. CASE Release(c) /\ d = c
    <3>1. /\ serve[c] = "select" /\ held[c] # 0 /\ serve'[c] = "flushHeld"
          /\ UNCHANGED <<replay, cur, held, wire, taken, snapshot>>
      BY <2>3 DEF Release, HoldExpires, TypeInv, TypeOK
    <3> QED BY <2>1, <2>3, <3>1 DEF Streamed
  <2>4. CASE Disconnect(c) /\ d = c
    <3>1. serve'[c] = "gone" /\ UNCHANGED <<replay, cur, held, wire, taken, snapshot>>
      BY <2>4 DEF Disconnect, Leave, TypeInv, TypeOK
    <3> QED BY <2>1, <2>4, <3>1 DEF Streamed
  <2>5. CASE d = c
    BY <1>3, <2>1, <2>3, <2>4, <2>5, StreamRegister, StreamReplay, StreamTake, StreamFlush DEF Serve
  <2> QED BY <2>2, <2>5
<1>4. CASE UNCHANGED brokerVars
  BY <1>1, <1>4 DEF brokerVars
<1> QED BY <1>2, <1>3, <1>4 DEF Next, BrokerStep, Finished

LEMMA StreamHolds == Spec => []StreamOK
<1>1. BrokerInit => StreamOK
  BY DEF BrokerInit, StreamOK, Streamed, Ordered
<1> QED BY <1>1, TypeInvHolds, HistoryHolds, WayHolds, StreamStep, PTL DEF Spec

(* The reorder fault lets an event be overtaken by its successor in the    *)
(* queue and by no other, also when events are written twice or dropped.   *)
THEOREM OvertakenByOneAtMostHolds == Spec => []OvertakenByOneAtMost
<1>1. StreamOK => OvertakenByOneAtMost
  BY DEF StreamOK, Streamed, Ordered, OvertakenByOneAtMost
<1> QED BY <1>1, StreamHolds, PTL

-----------------------------------------------------------------------------
(* A finite set that gets one more element, or many that it did not have. *)
LEMMA OneMore ==
  ASSUME NEW S, NEW x, x \notin S, NEW T, T = S \cup {x}
  PROVE  /\ IsFiniteSet(S) <=> IsFiniteSet(T)
         /\ IsFiniteSet(S) => /\ Cardinality(S) \in Nat /\ Cardinality(T) \in Nat
                              /\ Cardinality(T) = Cardinality(S) + 1
<1>1. ASSUME IsFiniteSet(S)
      PROVE  /\ IsFiniteSet(T) /\ Cardinality(S) \in Nat /\ Cardinality(T) \in Nat
             /\ Cardinality(T) = Cardinality(S) + 1
  BY <1>1, FS_AddElement, FS_CardinalityType
<1>2. ASSUME IsFiniteSet(T) PROVE IsFiniteSet(S)
  <2>1. S \in SUBSET T
    OBVIOUS
  <2> QED BY <1>2, <2>1, FS_Subset
<1> QED BY <1>1, <1>2

LEMMA ManyMore ==
  ASSUME NEW S, NEW D, IsFiniteSet(S), IsFiniteSet(D), S \cap D = {}, NEW T, T = S \cup D
  PROVE  /\ IsFiniteSet(T) /\ Cardinality(S) \in Nat /\ Cardinality(D) \in Nat
         /\ Cardinality(T) \in Nat /\ Cardinality(T) = Cardinality(S) + Cardinality(D)
<1>1. Cardinality(S \cap D) = 0
  BY FS_EmptySet
<1>2. /\ IsFiniteSet(S \cup D)
      /\ Cardinality(S \cup D) = Cardinality(S) + Cardinality(D) - Cardinality(S \cap D)
  BY FS_Union
<1>3. Cardinality(S) \in Nat /\ Cardinality(D) \in Nat
  BY FS_CardinalityType
<1>4. Cardinality(T) = Cardinality(S) + Cardinality(D)
  BY <1>1, <1>2, <1>3
<1> QED BY <1>2, <1>3, <1>4

LEMMA PlacesAreFinite ==
  ASSUME NEW n \in Nat, NEW c
  PROVE  IsFiniteSet({c} \X (1..n))
<1>1. IsFiniteSet({c})
  BY FS_Singleton
<1>2. IsFiniteSet(1..n)
  BY FS_Interval
<1> QED BY <1>1, <1>2, FS_Product

LEMMA InPlaces ==
  ASSUME NEW q
  PROVE  /\ \A p \in Places(q) : p = <<p[1], p[2]>>
         /\ \A c, i : <<c, i>> \in Places(q) <=> c \in Connections /\ i \in 1..Len(q[c])
BY DEF Places

(* The sequence of one connection gets one element longer. *)
LEMMA OneMorePlace ==
  ASSUME NEW q \in [Connections -> Seq(Events)], NEW r \in [Connections -> Seq(Events)],
         NEW c \in Connections, \A d \in Connections : d # c => r[d] = q[d],
         Len(r[c]) = Len(q[c]) + 1
  PROVE  \E x : x \notin Places(q) /\ Places(r) = Places(q) \cup {x}
<1> DEFINE x == <<c, Len(q[c]) + 1>>
<1>1. x \notin Places(q)
  BY InPlaces
<1>2. Places(r) = Places(q) \cup {x}
  <2>1. ASSUME NEW d, NEW i
        PROVE  <<d, i>> \in Places(r) <=> (<<d, i>> \in Places(q) \/ <<d, i>> = x)
    <3>1. CASE d = c
      <4>1. i \in 1..Len(r[c]) <=> (i \in 1..Len(q[c]) \/ i = Len(q[c]) + 1)
        OBVIOUS
      <4> QED BY <3>1, <4>1, InPlaces
    <3>2. CASE d # c
      BY <3>2, InPlaces
    <3> QED BY <3>1, <3>2
  <2> QED BY <2>1, InPlaces
<1> QED BY <1>1, <1>2

LEMMA OnePlace ==
  ASSUME NEW q \in [Connections -> Seq(Events)], NEW r \in [Connections -> Seq(Events)],
         NEW c \in Connections, \A d \in Connections : d # c => r[d] = q[d],
         Len(r[c]) = Len(q[c]) + 1
  PROVE  /\ IsFiniteSet(Places(q)) <=> IsFiniteSet(Places(r))
         /\ IsFiniteSet(Places(q)) =>
              /\ Cardinality(Places(q)) \in Nat /\ Cardinality(Places(r)) \in Nat
              /\ Cardinality(Places(r)) = Cardinality(Places(q)) + 1
<1>1. PICK x : x \notin Places(q) /\ Places(r) = Places(q) \cup {x}
  BY OneMorePlace
<1> QED BY <1>1, OneMore

(* The same, read in the direction of a sequence that grows.               *)
LEMMA PlaceMore ==
  ASSUME NEW q \in [Connections -> Seq(Events)], NEW r \in [Connections -> Seq(Events)],
         NEW c \in Connections, \A d \in Connections : d # c => r[d] = q[d],
         Len(r[c]) = Len(q[c]) + 1, IsFiniteSet(Places(q))
  PROVE  /\ IsFiniteSet(Places(r)) /\ Cardinality(Places(q)) \in Nat
         /\ Cardinality(Places(r)) \in Nat
         /\ Cardinality(Places(r)) = Cardinality(Places(q)) + 1
<1>1. PICK x : x \notin Places(q) /\ Places(r) = Places(q) \cup {x}
  BY OneMorePlace
<1> QED BY <1>1, OneMore

(* The sequence of one connection, empty so far, is given. *)
LEMMA ManyPlaces ==
  ASSUME NEW q \in [Connections -> Seq(Events)], NEW r \in [Connections -> Seq(Events)],
         NEW c \in Connections, \A d \in Connections : d # c => r[d] = q[d],
         q[c] = <<>>, IsFiniteSet(Places(q))
  PROVE  /\ IsFiniteSet(Places(r)) /\ Cardinality(Places(q)) \in Nat
         /\ Cardinality({c} \X (1..Len(r[c]))) \in Nat /\ IsFiniteSet({c} \X (1..Len(r[c])))
         /\ Cardinality(Places(r)) = Cardinality(Places(q)) + Cardinality({c} \X (1..Len(r[c])))
<1> DEFINE D == {c} \X (1..Len(r[c]))
<1>1. IsFiniteSet(D)
  <2>1. Len(r[c]) \in Nat
    OBVIOUS
  <2> QED BY <2>1, PlacesAreFinite
<1>2. Len(q[c]) = 0
  OBVIOUS
<1>3. Places(q) \cap D = {}
  BY <1>2, InPlaces
<1>4. Places(r) = Places(q) \cup D
  <2>1. ASSUME NEW d, NEW i
        PROVE  <<d, i>> \in Places(r) <=> (<<d, i>> \in Places(q) \/ <<d, i>> \in D)
    BY <1>2, InPlaces
  <2>2. \A p \in D : p = <<p[1], p[2]>>
    OBVIOUS
  <2> HIDE DEF D
  <2> QED BY <2>1, <2>2, InPlaces
<1> HIDE DEF D
<1>5. /\ IsFiniteSet(Places(r)) /\ Cardinality(Places(q)) \in Nat /\ Cardinality(D) \in Nat
      /\ Cardinality(Places(r)) = Cardinality(Places(q)) + Cardinality(D)
  BY <1>1, <1>3, <1>4, ManyMore
<1> QED BY <1>1, <1>5 DEF D

(* Counting what a sequence without repetitions has is counting places. *)
LEMMA PlacesAreValues ==
  ASSUME NEW s \in Seq(Events), Distinct(s), NEW c
  PROVE  /\ IsFiniteSet({c} \X ToSet(s))
         /\ Cardinality({c} \X ToSet(s)) = Cardinality({c} \X (1..Len(s)))
<1> DEFINE D == {c} \X (1..Len(s))
           T == {c} \X ToSet(s)
           f == [p \in D |-> <<c, s[p[2]]>>]
<1>1. IsFiniteSet(D)
  <2>1. Len(s) \in Nat
    OBVIOUS
  <2> QED BY <2>1, PlacesAreFinite
<1>2. f \in [D -> T]
  BY DEF ToSet
<1>3. \A p, q \in D : f[p] = f[q] => p = q
  BY DEF Distinct
<1>4. \A t \in T : \E p \in D : f[p] = t
  <2>1. ASSUME NEW t \in T PROVE \E p \in D : f[p] = t
    <3>1. PICK v \in ToSet(s) : t = <<c, v>>
      OBVIOUS
    <3>2. PICK i \in 1..Len(s) : s[i] = v
      BY DEF ToSet
    <3>3. <<c, i>> \in D /\ f[<<c, i>>] = t
      BY <3>1, <3>2
    <3> QED BY <3>3
  <2> QED BY <2>1
<1> HIDE DEF f, D, T
<1>5. f \in Bijection(D, T)
  <2>1. f \in Injection(D, T)
    BY <1>2, <1>3, Fun_IsInj
  <2>2. f \in Surjection(D, T)
    BY <1>2, <1>4, Fun_IsSurj
  <2> QED BY <2>1, <2>2 DEF Bijection
<1>6. IsFiniteSet(T) /\ Cardinality(T) = Cardinality(D)
  BY <1>1, <1>5, FS_Bijection DEF ExistsBijection
<1> QED BY <1>6 DEF D, T

LEMMA InPairs ==
  ASSUME NEW f
  PROVE  /\ \A p \in Pairs(f) : p = <<p[1], p[2]>>
         /\ \A c, e : <<c, e>> \in Pairs(f) <=> c \in Connections /\ e \in Events /\ e \in f[c]
BY DEF Pairs

LEMMA InSends ==
  ASSUME NEW t
  PROVE  /\ \A p \in Sends(t) : p = <<p[1], p[2]>>
         /\ \A c, e : <<c, e>> \in Sends(t) <=> c \in Connections /\ e \in Events /\ c \in t[e]
BY DEF Sends

(* Sets of pairs are the same when they have the same pairs. *)
LEMMA SamePairs ==
  ASSUME NEW S, NEW T, \A p \in S : p = <<p[1], p[2]>>, \A p \in T : p = <<p[1], p[2]>>,
         \A d, k : <<d, k>> \in S <=> <<d, k>> \in T
  PROVE  S = T
OBVIOUS

(* What changes when a request is through with a connection.               *)
LEMMA OneSendLess ==
  ASSUME NEW t \in [Events -> SUBSET Connections], NEW e \in Events, NEW c \in Connections,
         NEW u \in [Events -> SUBSET Connections], \A d \in Events : d # e => u[d] = t[d],
         c \in t[e], u[e] = t[e] \ {c}, IsFiniteSet(Sends(t))
  PROVE  /\ IsFiniteSet(Sends(u)) /\ Cardinality(Sends(t)) \in Nat /\ Cardinality(Sends(u)) \in Nat
         /\ Cardinality(Sends(t)) = Cardinality(Sends(u)) + 1
<1> DEFINE x == <<c, e>>
<1>1. x \notin Sends(u)
  BY InSends
<1>2. Sends(t) = Sends(u) \cup {x}
  <2>1. ASSUME NEW d, NEW k
        PROVE  <<d, k>> \in Sends(t) <=> (<<d, k>> \in Sends(u) \/ <<d, k>> = x)
    BY InSends
  <2>2. /\ \A p \in Sends(t) : p = <<p[1], p[2]>>
        /\ \A p \in Sends(u) \cup {x} : p = <<p[1], p[2]>>
    BY InSends
  <2> HIDE DEF x
  <2>3. \A d, k : <<d, k>> \in Sends(t) <=> <<d, k>> \in Sends(u) \cup {x}
    BY <2>1
  <2> QED BY <2>2, <2>3, SamePairs
<1> HIDE DEF x
<1>3. IsFiniteSet(Sends(u))
  BY <1>1, <1>2, OneMore
<1> QED BY <1>1, <1>2, <1>3, OneMore

(* An event offered to some connections, none of which had it.             *)
LEMMA ManyPairs ==
  ASSUME NEW f \in [Connections -> SUBSET Events], NEW g \in [Connections -> SUBSET Events],
         NEW R \in SUBSET Connections,
         NEW e \in Events, \A c \in Connections : e \notin f[c],
         \A c \in Connections : c \in R => g[c] = f[c] \cup {e},
         \A c \in Connections : c \notin R => g[c] = f[c]
  PROVE  Pairs(g) = Pairs(f) \cup (R \X {e}) /\ Pairs(f) \cap (R \X {e}) = {}
<1> DEFINE D == R \X {e}
<1>1. (\A p \in D : p = <<p[1], p[2]>>) /\ \A d, k : <<d, k>> \in D <=> d \in R /\ k = e
  OBVIOUS
<1> HIDE DEF D
<1>2. Pairs(g) = Pairs(f) \cup D
  <2>1. ASSUME NEW d, NEW k
        PROVE  <<d, k>> \in Pairs(g) <=> (<<d, k>> \in Pairs(f) \/ <<d, k>> \in D)
    <3>1. /\ <<d, k>> \in Pairs(g) <=> d \in Connections /\ k \in Events /\ k \in g[d]
          /\ <<d, k>> \in Pairs(f) <=> d \in Connections /\ k \in Events /\ k \in f[d]
      BY InPairs
    <3>2. <<d, k>> \in D <=> d \in R /\ k = e
      BY <1>1
    <3> QED BY <3>1, <3>2
  <2>2. /\ \A p \in Pairs(g) : p = <<p[1], p[2]>>
        /\ \A p \in Pairs(f) \cup D : p = <<p[1], p[2]>>
    BY <1>1, InPairs
  <2> QED BY <2>1, <2>2, SamePairs
<1>3. Pairs(f) \cap D = {}
  <2>1. ASSUME NEW d, NEW k, <<d, k>> \in Pairs(f) PROVE <<d, k>> \notin D
    BY <1>1, <2>1, InPairs
  <2> QED BY <1>1, <2>1, InPairs
<1> QED BY <1>2, <1>3 DEF D

LEMMA ManySends ==
  ASSUME NEW t \in [Events -> SUBSET Connections], NEW e \in Events, t[e] = {},
         NEW R \in SUBSET Connections, NEW u \in [Events -> SUBSET Connections],
         \A d \in Events : u[d] = IF d = e THEN R ELSE t[d]
  PROVE  Sends(u) = Sends(t) \cup (R \X {e}) /\ Sends(t) \cap (R \X {e}) = {}
<1> DEFINE D == R \X {e}
<1>1. (\A p \in D : p = <<p[1], p[2]>>) /\ \A d, k : <<d, k>> \in D <=> d \in R /\ k = e
  OBVIOUS
<1> HIDE DEF D
<1>2. Sends(u) = Sends(t) \cup D
  <2>1. ASSUME NEW d, NEW k
        PROVE  <<d, k>> \in Sends(u) <=> (<<d, k>> \in Sends(t) \/ <<d, k>> \in D)
    <3>1. /\ <<d, k>> \in Sends(u) <=> d \in Connections /\ k \in Events /\ d \in u[k]
          /\ <<d, k>> \in Sends(t) <=> d \in Connections /\ k \in Events /\ d \in t[k]
      BY InSends
    <3>2. <<d, k>> \in D <=> d \in R /\ k = e
      BY <1>1
    <3> QED BY <3>1, <3>2
  <2>2. /\ \A p \in Sends(u) : p = <<p[1], p[2]>>
        /\ \A p \in Sends(t) \cup D : p = <<p[1], p[2]>>
    BY <1>1, InSends
  <2> QED BY <2>1, <2>2, SamePairs
<1>3. Sends(t) \cap D = {}
  <2>1. ASSUME NEW d, NEW k, <<d, k>> \in Sends(t) PROVE <<d, k>> \notin D
    BY <1>1, <2>1, InSends
  <2> QED BY <1>1, <2>1, InSends
<1> QED BY <1>2, <1>3 DEF D

(* A hand is filled, or emptied. *)
LEMMA OneHand ==
  ASSUME NEW h \in [Connections -> Events \cup {0}], NEW g \in [Connections -> Events \cup {0}],
         NEW c \in Connections, \A d \in Connections : d # c => g[d] = h[d],
         h[c] = 0, g[c] # 0
  PROVE  /\ IsFiniteSet(Full(h)) <=> IsFiniteSet(Full(g))
         /\ IsFiniteSet(Full(h)) => /\ Cardinality(Full(h)) \in Nat /\ Cardinality(Full(g)) \in Nat
                                    /\ Cardinality(Full(g)) = Cardinality(Full(h)) + 1
<1>1. c \notin Full(h) /\ Full(g) = Full(h) \cup {c}
  BY DEF Full
<1> QED BY <1>1, OneMore

(* The snapshot of one connection, empty so far, is taken. *)
LEMMA SnapshotPairs ==
  ASSUME NEW f \in [Connections -> SUBSET Events], NEW c \in Connections, f[c] = {},
         NEW V \in SUBSET Events, NEW g \in [Connections -> SUBSET Events],
         g[c] = V, \A d \in Connections : d # c => g[d] = f[d]
  PROVE  Pairs(g) = Pairs(f) \cup ({c} \X V) /\ Pairs(f) \cap ({c} \X V) = {}
<1> DEFINE D == {c} \X V
<1>1. (\A p \in D : p = <<p[1], p[2]>>) /\ \A d, k : <<d, k>> \in D <=> d = c /\ k \in V
  OBVIOUS
<1> HIDE DEF D
<1>2. Pairs(g) = Pairs(f) \cup D
  <2>1. ASSUME NEW d, NEW k
        PROVE  <<d, k>> \in Pairs(g) <=> (<<d, k>> \in Pairs(f) \/ <<d, k>> \in D)
    <3>1. /\ <<d, k>> \in Pairs(g) <=> d \in Connections /\ k \in Events /\ k \in g[d]
          /\ <<d, k>> \in Pairs(f) <=> d \in Connections /\ k \in Events /\ k \in f[d]
      BY InPairs
    <3>2. <<d, k>> \in D <=> d = c /\ k \in V
      BY <1>1
    <3> QED BY <3>1, <3>2
  <2>2. /\ \A p \in Pairs(g) : p = <<p[1], p[2]>>
        /\ \A p \in Pairs(f) \cup D : p = <<p[1], p[2]>>
    BY <1>1, InPairs
  <2> QED BY <2>1, <2>2, SamePairs
<1>3. Pairs(f) \cap D = {}
  <2>1. ASSUME NEW d, NEW k, <<d, k>> \in Pairs(f) PROVE <<d, k>> \notin D
    BY <1>1, <2>1, InPairs
  <2> QED BY <1>1, <2>1, InPairs
<1> QED BY <1>2, <1>3 DEF D

-----------------------------------------------------------------------------
(* The publish request offers the event: as many sends are still to be     *)
(* tried as connections were offered it.                                   *)
LEMMA OfferedPublish ==
  ASSUME TypeInv, HistoryOK, OffersOK, WayOK, IsFiniteSet(subs), OfferedAddUp,
         NEW e \in Events, Publish(e)
  PROVE  OfferedAddUp'
<1> DEFINE reached == {c \in subs : e \in Wants[c]}
           D == reached \X {e}
<1>1. /\ targets' = [targets EXCEPT ![e] = reached] /\ queue' = queue /\ taken' = taken
      /\ live' = [c \in Connections |-> IF c \in reached THEN live[c] \cup {e} ELSE live[c]]
      /\ pub[e] = "new"
  BY DEF Publish
<1>2. /\ targets \in [Events -> SUBSET Connections] /\ live \in [Connections -> SUBSET Events]
      /\ reached \subseteq Connections /\ reached \subseteq subs
  BY DEF TypeInv, TypeOK
<1>3. count'["lagged"] = count["lagged"]
  BY DEF Publish, Bump, TypeInv, TypeOK, Counters
<1> HIDE DEF reached
<1>4. IsFiniteSet(D)
  <2>1. IsFiniteSet(reached) /\ IsFiniteSet({e})
    BY <1>2, FS_Subset, FS_Singleton
  <2> QED BY <2>1, FS_Product
<1>5. \A c \in Connections : e \notin live[c]
  BY <1>1, NotYetOffered
<1>6. targets[e] = {}
  BY <1>2, <1>5 DEF WayOK, OnItsWay
<1>7. Pairs(live') = Pairs(live) \cup D /\ Pairs(live) \cap D = {}
  <2>1. /\ \A c \in Connections : c \in reached => live'[c] = live[c] \cup {e}
        /\ \A c \in Connections : c \notin reached => live'[c] = live[c]
    BY <1>1
  <2>2. live' \in [Connections -> SUBSET Events] /\ reached \in SUBSET Connections
    BY <1>1, <1>2
  <2>3. live \in [Connections -> SUBSET Events]
    BY <1>2
  <2> HIDE DEF D
  <2>4. Pairs(live') = Pairs(live) \cup (reached \X {e}) /\ Pairs(live) \cap (reached \X {e}) = {}
    BY <1>5, <2>1, <2>2, <2>3, ManyPairs
  <2> QED BY <2>4 DEF D
<1>8. Sends(targets') = Sends(targets) \cup D /\ Sends(targets) \cap D = {}
  <2>1. /\ targets' \in [Events -> SUBSET Connections] /\ reached \in SUBSET Connections
        /\ \A d \in Events : targets'[d] = IF d = e THEN reached ELSE targets[d]
    BY <1>1, <1>2
  <2>2. targets \in [Events -> SUBSET Connections]
    BY <1>2
  <2> HIDE DEF D
  <2>3. Sends(targets') = Sends(targets) \cup (reached \X {e})
        /\ Sends(targets) \cap (reached \X {e}) = {}
    BY <1>6, <2>1, <2>2, ManySends
  <2> QED BY <2>3 DEF D
<1> HIDE DEF D
<1>9. /\ IsFiniteSet(Pairs(live')) /\ Cardinality(D) \in Nat /\ Cardinality(Pairs(live)) \in Nat
      /\ Cardinality(Pairs(live')) = Cardinality(Pairs(live)) + Cardinality(D)
  BY <1>4, <1>7, ManyMore DEF OfferedAddUp
<1>10. /\ IsFiniteSet(Sends(targets')) /\ Cardinality(Sends(targets)) \in Nat
       /\ Cardinality(Sends(targets')) = Cardinality(Sends(targets)) + Cardinality(D)
  BY <1>4, <1>8, ManyMore DEF OfferedAddUp
<1>11. /\ Cardinality(Places(queue)) \in Nat /\ Cardinality(Places(taken)) \in Nat
       /\ count["lagged"] \in Nat
  BY FS_CardinalityType DEF OfferedAddUp, TypeInv, TypeOK, Counters
<1> QED BY <1>1, <1>3, <1>9, <1>10, <1>11 DEF OfferedAddUp

(* What has been counted so far, as numbers. *)
LEMMA OfferedNumbers ==
  ASSUME TypeInv, OfferedAddUp
  PROVE  /\ Cardinality(Pairs(live)) \in Nat /\ Cardinality(Sends(targets)) \in Nat
         /\ Cardinality(Places(queue)) \in Nat /\ Cardinality(Places(taken)) \in Nat
         /\ count["lagged"] \in Nat
BY FS_CardinalityType DEF OfferedAddUp, TypeInv, TypeOK, Counters

(* A send is tried: the event is in the queue, or counted as lag.          *)
LEMMA OfferedAdvance ==
  ASSUME TypeInv, OfferedAddUp, NEW e \in Events, NEW c \in Connections, c \in targets[e],
         Advance(e, c), UNCHANGED <<taken, live>>,
         \/ Send(e, c) /\ UNCHANGED count
         \/ UNCHANGED queue /\ Bump("lagged", 1)
  PROVE  OfferedAddUp'
<1>1. /\ targets \in [Events -> SUBSET Connections] /\ queue \in [Connections -> Seq(Events)]
      /\ count \in [Counters -> Nat] /\ targets' = [targets EXCEPT ![e] = @ \ {c}]
  BY DEF TypeInv, TypeOK, Advance
<1>2. /\ IsFiniteSet(Sends(targets')) /\ Cardinality(Sends(targets')) \in Nat
      /\ Cardinality(Sends(targets)) = Cardinality(Sends(targets')) + 1
  <2>1. /\ targets' \in [Events -> SUBSET Connections] /\ targets'[e] = targets[e] \ {c}
        /\ \A d \in Events : d # e => targets'[d] = targets[d]
    BY <1>1
  <2>2. IsFiniteSet(Sends(targets))
    BY DEF OfferedAddUp
  <2>3. targets \in [Events -> SUBSET Connections]
    BY <1>1
  <2>4. IsFiniteSet(Sends(targets'))
    BY <2>1, <2>2, <2>3, OneSendLess
  <2>5. /\ Cardinality(Sends(targets')) \in Nat
        /\ Cardinality(Sends(targets)) = Cardinality(Sends(targets')) + 1
    BY <2>1, <2>2, <2>3, OneSendLess
  <2> QED BY <2>4, <2>5
<1>3. CASE Send(e, c) /\ UNCHANGED count
  <2>1. /\ queue' \in [Connections -> Seq(Events)] /\ Len(queue'[c]) = Len(queue[c]) + 1
        /\ \A d \in Connections : d # c => queue'[d] = queue[d]
    BY <1>1, <1>3, AppendTo DEF Send
  <2>2. /\ IsFiniteSet(Places(queue')) /\ Cardinality(Places(queue')) = Cardinality(Places(queue)) + 1
    <3>1. IsFiniteSet(Places(queue))
      BY DEF OfferedAddUp
    <3>2. queue \in [Connections -> Seq(Events)]
      BY <1>1
    <3> QED BY <2>1, <3>1, <3>2, PlaceMore
  <2>3. count' = count /\ taken' = taken /\ live' = live
    BY <1>3
  <2> QED BY <1>2, <2>2, <2>3, OfferedNumbers DEF OfferedAddUp
<1>4. CASE UNCHANGED queue /\ Bump("lagged", 1)
  <2>1. count'["lagged"] = count["lagged"] + 1 /\ queue' = queue /\ taken' = taken /\ live' = live
    BY <1>1, <1>4 DEF Bump, Counters
  <2> QED BY <1>2, <2>1, OfferedNumbers DEF OfferedAddUp
<1> QED BY <1>3, <1>4

(* The oldest event leaves a queue and is counted as lag, or received.     *)
LEMMA OfferedShorter ==
  ASSUME TypeInv, OfferedAddUp, NEW c \in Connections, queue[c] # <<>>,
         queue' = [queue EXCEPT ![c] = Tail(@)], UNCHANGED <<targets, live>>,
         \/ UNCHANGED taken /\ Bump("lagged", 1)
         \/ taken' = [taken EXCEPT ![c] = Append(@, Head(queue[c]))] /\ UNCHANGED count
  PROVE  OfferedAddUp'
<1>1. /\ queue \in [Connections -> Seq(Events)] /\ taken \in [Connections -> Seq(Events)]
      /\ count \in [Counters -> Nat] /\ targets' = targets /\ live' = live
  BY DEF TypeInv, TypeOK
<1>2. /\ queue' \in [Connections -> Seq(Events)] /\ Head(queue[c]) \in Events
      /\ Len(queue'[c]) = Len(queue[c]) - 1
      /\ \A d \in Connections : d # c => queue'[d] = queue[d]
  BY <1>1, TailOf
<1>3. /\ IsFiniteSet(Places(queue')) /\ Cardinality(Places(queue')) \in Nat
      /\ Cardinality(Places(queue)) = Cardinality(Places(queue')) + 1
  <2>1. /\ Len(queue[c]) = Len(queue'[c]) + 1
        /\ \A d \in Connections : d # c => queue[d] = queue'[d]
    BY <1>1, <1>2
  <2>2. IsFiniteSet(Places(queue')) <=> IsFiniteSet(Places(queue))
    <3>1. /\ queue \in [Connections -> Seq(Events)] /\ queue' \in [Connections -> Seq(Events)]
      BY <1>1, <1>2
    <3> QED BY <2>1, <3>1, OnePlace
  <2>3. IsFiniteSet(Places(queue'))
    BY <2>2 DEF OfferedAddUp
  <2> QED BY <1>1, <1>2, <2>1, <2>3, OnePlace
<1>4. CASE UNCHANGED taken /\ Bump("lagged", 1)
  <2>1. count'["lagged"] = count["lagged"] + 1 /\ taken' = taken
    BY <1>1, <1>4 DEF Bump, Counters
  <2>2. targets' = targets /\ live' = live
    BY <1>1
  <2> QED BY <1>3, <2>1, <2>2, OfferedNumbers DEF OfferedAddUp
<1>5. CASE taken' = [taken EXCEPT ![c] = Append(@, Head(queue[c]))] /\ UNCHANGED count
  <2>1. /\ taken' \in [Connections -> Seq(Events)] /\ Len(taken'[c]) = Len(taken[c]) + 1
        /\ \A d \in Connections : d # c => taken'[d] = taken[d]
    BY <1>1, <1>2, <1>5, AppendTo
  <2>2. IsFiniteSet(Places(taken')) /\ Cardinality(Places(taken')) = Cardinality(Places(taken)) + 1
    <3>1. IsFiniteSet(Places(taken))
      BY DEF OfferedAddUp
    <3>2. taken \in [Connections -> Seq(Events)]
      BY <1>1
    <3> QED BY <2>1, <3>1, <3>2, PlaceMore
  <2>3. count' = count
    BY <1>5
  <2> QED BY <1>1, <1>3, <2>2, <2>3, OfferedNumbers DEF OfferedAddUp
<1> QED BY <1>4, <1>5

LEMMA OfferedSame ==
  ASSUME OfferedAddUp, UNCHANGED <<live, targets, queue, taken>>, count'["lagged"] = count["lagged"]
  PROVE  OfferedAddUp'
BY DEF OfferedAddUp

(* Nobody but a publish request counts lag. *)
LEMMA LagUntouched ==
  ASSUME TypeInv, NEW c \in Connections,
         \/ Replay(c) \/ Take(c) \/ Release(c) \/ FlushCur(c) \/ FlushHeld(c) \/ Disconnect(c)
         \/ \E id \in Events \cup {0} : Register(c, id)
  PROVE  count'["lagged"] = count["lagged"]
<1>1. count \in [Counters -> Nat]
  BY DEF TypeInv, TypeOK
<1>2. CASE FlushCur(c) \/ FlushHeld(c)
  BY <1>1, <1>2 DEF FlushCur, FlushHeld, Flushed, FlushFails, Bump, Counters
<1>3. CASE Replay(c)
  BY <1>1, <1>3 DEF Replay, Bump, Counters
<1> QED BY <1>2, <1>3 DEF Take, Release, Disconnect, Register

LEMMA OfferedStep ==
  /\ TypeInv /\ HistoryOK /\ OffersOK /\ WayOK /\ IsFiniteSet(subs) /\ OfferedAddUp
  /\ [Next]_brokerVars
  => OfferedAddUp'
<1> SUFFICES ASSUME TypeInv, HistoryOK, OffersOK, WayOK, IsFiniteSet(subs), OfferedAddUp,
                    [Next]_brokerVars
             PROVE  OfferedAddUp'
  OBVIOUS
<1>1. ASSUME NEW e \in Events, FanOut(e) PROVE OfferedAddUp'
  <2>1. ASSUME NEW c \in Connections, TrySend(e, c) PROVE OfferedAddUp'
    <3>1. c \in targets[e] /\ UNCHANGED <<taken, live, count>>
      BY <2>1 DEF TrySend
    <3>2. CASE HasRoom(c) /\ Send(e, c) /\ Advance(e, c)
      BY <3>1, <3>2, OfferedAdvance
    <3>3. CASE UNCHANGED <<queue, targets>>
      BY <3>1, <3>3, OfferedSame
    <3> QED BY <2>1, <3>2, <3>3 DEF TrySend
  <2>2. CASE DiscardOldest(e)
    <3>1. goal[e] \in Connections /\ UNCHANGED <<taken, live, targets>>
      BY <2>2, TypeParts DEF TypeInv, GoalsOK, RequestsType, DiscardOldest
    <3>2. CASE /\ queue[goal[e]] # <<>> /\ queue' = [queue EXCEPT ![goal[e]] = Tail(@)]
               /\ Bump("lagged", 1)
      BY <3>1, <3>2, OfferedShorter
    <3>3. CASE UNCHANGED <<queue, count>>
      BY <3>1, <3>3, OfferedSame
    <3> QED BY <2>2, <3>2, <3>3 DEF DiscardOldest
  <2>3. CASE Resend(e)
    <3>1. goal[e] \in Connections /\ goal[e] \in targets[e] /\ UNCHANGED <<taken, live>>
      BY <2>3, TypeParts DEF TypeInv, GoalsOK, RequestsType, Resend
    <3>2. /\ Advance(e, goal[e])
          /\ \/ Send(e, goal[e]) /\ UNCHANGED count
             \/ UNCHANGED queue /\ Bump("lagged", 1)
      BY <2>3 DEF Resend, GiveUpOn
    <3> QED BY <3>1, <3>2, OfferedAdvance
  <2> QED BY <1>1, <2>1, <2>2, <2>3 DEF FanOut
<1>2. ASSUME NEW c \in Connections, Serve(c) \/ Disconnect(c) PROVE OfferedAddUp'
  <2>1. CASE Take(c)
    <3>1. /\ queue[c] # <<>> /\ queue' = [queue EXCEPT ![c] = Tail(@)] /\ UNCHANGED <<targets, live>>
          /\ taken' = [taken EXCEPT ![c] = Append(@, Head(queue[c]))] /\ UNCHANGED count
      BY <2>1 DEF Take, pubVars
    <3> QED BY <3>1, OfferedShorter
  <2>2. CASE Replay(c) \/ Release(c) \/ FlushCur(c) \/ FlushHeld(c) \/ Disconnect(c)
    <3>1. UNCHANGED <<live, targets, queue, taken>>
      BY <2>2 DEF Replay, Release, FlushCur, FlushHeld, Disconnect, pubVars
    <3> QED BY <2>2, <3>1, LagUntouched, OfferedSame
  <2> QED BY <1>2, <2>1, <2>2 DEF Serve
<1>3. CASE BrokerStep
  BY <1>1, <1>2, <1>3, OfferedPublish DEF BrokerStep
<1>4. ASSUME NEW c \in Connections, NEW id \in Events \cup {0}, Register(c, id) PROVE OfferedAddUp'
  <2>1. UNCHANGED <<live, targets, queue, taken>>
    BY <1>4 DEF Register, pubVars
  <2> QED BY <1>4, <2>1, LagUntouched, OfferedSame
<1>5. CASE UNCHANGED brokerVars
  BY <1>5, OfferedSame DEF brokerVars, pubVars
<1> QED BY <1>3, <1>4, <1>5 DEF Next, Finished

-----------------------------------------------------------------------------
LEMMA ReceivedNumbers ==
  ASSUME TypeInv, ReceivedAddUp
  PROVE  /\ Cardinality(Places(taken)) \in Nat /\ Cardinality(Pairs(snapshot)) \in Nat
         /\ Cardinality(Places(replay)) \in Nat /\ Cardinality(Full(cur)) \in Nat
         /\ Cardinality(Full(held)) \in Nat
         /\ count["delivered"] \in Nat /\ count["dropped"] \in Nat /\ count["duplicated"] \in Nat
BY FS_CardinalityType DEF ReceivedAddUp, TypeInv, TypeOK, Counters

LEMMA ReceivedSame ==
  ASSUME ReceivedAddUp, UNCHANGED <<taken, snapshot, replay, cur, held>>,
         \A n \in {"delivered", "dropped", "duplicated"} : count'[n] = count[n]
  PROVE  ReceivedAddUp'
BY DEF ReceivedAddUp

(* What is to be replayed is as much as the snapshot: the history holds    *)
(* no event twice.                                                         *)
LEMMA ReceivedRegister ==
  ASSUME TypeInv, HistoryOK, OffersOK, ReceivedAddUp, NEW c \in Connections, NEW id, Register(c, id)
  PROVE  ReceivedAddUp'
<1> DEFINE missed == Filter(after(hist, id), Wants[c])
           R == {c} \X (1..Len(missed))
           V == {c} \X ToSet(missed)
<1>1. /\ replay' = [replay EXCEPT ![c] = missed] /\ serve[c] = "new"
      /\ snapshot' = [snapshot EXCEPT ![c] = ToSet(missed)]
      /\ UNCHANGED <<taken, cur, held, count>>
  BY DEF Register
<1>2. missed \in Seq(Events) /\ Distinct(missed)
  <2>1. hist \in Seq(Events)
    BY DEF TypeInv, TypeOK
  <2>2. Distinct(hist)
    BY HistoryProps
  <2> QED BY <2>1, <2>2, MissedProps
<1> HIDE DEF missed
<1>3. ToSet(missed) \in SUBSET Events
  BY <1>2 DEF ToSet
<1>4. /\ replay \in [Connections -> Seq(Events)] /\ snapshot \in [Connections -> SUBSET Events]
      /\ replay[c] = <<>> /\ snapshot[c] = {}
  BY <1>1 DEF TypeInv, TypeOK, OffersOK, OfferOK
<1>5. IsFiniteSet(V) /\ Cardinality(V) = Cardinality(R)
  BY <1>2, PlacesAreValues
<1>6. Pairs(snapshot') = Pairs(snapshot) \cup V /\ Pairs(snapshot) \cap V = {}
  <2>1. /\ snapshot' \in [Connections -> SUBSET Events]
        /\ snapshot'[c] = ToSet(missed)
        /\ \A d \in Connections : d # c => snapshot'[d] = snapshot[d]
    BY <1>1, <1>3, <1>4
  <2>2. snapshot \in [Connections -> SUBSET Events] /\ snapshot[c] = {}
    BY <1>4
  <2> HIDE DEF V, R
  <2>3. /\ Pairs(snapshot') = Pairs(snapshot) \cup ({c} \X ToSet(missed))
        /\ Pairs(snapshot) \cap ({c} \X ToSet(missed)) = {}
    BY <1>3, <2>1, <2>2, SnapshotPairs
  <2> QED BY <2>3 DEF V
<1>7. /\ IsFiniteSet(Places(replay')) /\ Cardinality(R) \in Nat
      /\ Cardinality(Places(replay')) = Cardinality(Places(replay)) + Cardinality(R)
  <2>1. /\ replay' \in [Connections -> Seq(Events)] /\ replay'[c] = missed
        /\ \A d \in Connections : d # c => replay'[d] = replay[d]
    BY <1>1, <1>2, <1>4
  <2>2. IsFiniteSet(Places(replay))
    BY DEF ReceivedAddUp
  <2>3. /\ IsFiniteSet(Places(replay')) /\ Cardinality({c} \X (1..Len(replay'[c]))) \in Nat
        /\ Cardinality(Places(replay'))
             = Cardinality(Places(replay)) + Cardinality({c} \X (1..Len(replay'[c])))
    BY <1>4, <2>1, <2>2, ManyPlaces
  <2> QED BY <2>1, <2>3
<1> HIDE DEF V, R
<1>8. /\ IsFiniteSet(Pairs(snapshot'))
      /\ Cardinality(Pairs(snapshot')) = Cardinality(Pairs(snapshot)) + Cardinality(V)
  BY <1>5, <1>6, ManyMore DEF ReceivedAddUp
<1>9. taken' = taken /\ cur' = cur /\ held' = held /\ count' = count
  BY <1>1
<1> QED BY <1>5, <1>7, <1>8, <1>9, ReceivedNumbers DEF ReceivedAddUp

LEMMA ReceivedReplay ==
  ASSUME TypeInv, ReceivedAddUp, NEW c \in Connections, Replay(c)
  PROVE  ReceivedAddUp'
<1>1. /\ replay \in [Connections -> Seq(Events)] /\ count \in [Counters -> Nat]
      /\ UNCHANGED <<taken, cur, held, snapshot>>
  BY DEF TypeInv, TypeOK, Replay
<1>2. CASE replay[c] # <<>> /\ replay' = [replay EXCEPT ![c] = Tail(@)] /\ Bump("delivered", 1)
  <2>1. /\ replay' \in [Connections -> Seq(Events)] /\ Len(replay[c]) \in Nat
        /\ Len(replay'[c]) = Len(replay[c]) - 1
        /\ \A d \in Connections : d # c => replay'[d] = replay[d]
    BY <1>1, <1>2, TailOf
  <2>2. Len(replay[c]) = Len(replay'[c]) + 1 /\ \A d \in Connections : d # c => replay[d] = replay'[d]
    BY <1>1, <2>1
  <2>3. /\ replay \in [Connections -> Seq(Events)] /\ replay' \in [Connections -> Seq(Events)]
    BY <1>1, <2>1
  <2>4. IsFiniteSet(Places(replay')) <=> IsFiniteSet(Places(replay))
    BY <2>2, <2>3, OnePlace
  <2>5. IsFiniteSet(Places(replay'))
    BY <2>4 DEF ReceivedAddUp
  <2>6. Cardinality(Places(replay')) \in Nat
        /\ Cardinality(Places(replay)) = Cardinality(Places(replay')) + 1
    BY <2>2, <2>3, <2>5, OnePlace
  <2>7. /\ count'["delivered"] = count["delivered"] + 1
        /\ count'["dropped"] = count["dropped"] /\ count'["duplicated"] = count["duplicated"]
    BY <1>1, <1>2 DEF Bump, Counters
  <2>8. taken' = taken /\ cur' = cur /\ held' = held /\ snapshot' = snapshot
    BY <1>1
  <2> QED BY <2>5, <2>6, <2>7, <2>8, ReceivedNumbers DEF ReceivedAddUp
<1>3. CASE UNCHANGED <<replay, count>>
  BY <1>1, <1>3, ReceivedSame
<1> QED BY <1>2, <1>3 DEF Replay

(* An event received is in hand, or held back. *)
LEMMA ReceivedTake ==
  ASSUME TypeInv, ReceivedAddUp, NEW c \in Connections, Take(c)
  PROVE  ReceivedAddUp'
<1>1. /\ queue \in [Connections -> Seq(Events)] /\ taken \in [Connections -> Seq(Events)]
      /\ cur \in [Connections -> Events \cup {0}] /\ held \in [Connections -> Events \cup {0}]
      /\ cur[c] = 0 /\ queue[c] # <<>>
      /\ taken' = [taken EXCEPT ![c] = Append(@, Head(queue[c]))]
      /\ replay' = replay /\ snapshot' = snapshot /\ count' = count
  BY DEF TypeInv, TypeOK, HandsOK, Take
<1>2. Head(queue[c]) \in Events /\ Head(queue[c]) # 0
  BY <1>1, TypeParts, EventsAreRanks DEF QueuesOK
<1>3. IsFiniteSet(Places(taken')) /\ Cardinality(Places(taken')) = Cardinality(Places(taken)) + 1
  <2>1. /\ taken' \in [Connections -> Seq(Events)] /\ Len(taken'[c]) = Len(taken[c]) + 1
        /\ \A d \in Connections : d # c => taken'[d] = taken[d]
    BY <1>1, <1>2, AppendTo
  <2>2. IsFiniteSet(Places(taken)) /\ taken \in [Connections -> Seq(Events)]
    BY <1>1 DEF ReceivedAddUp
  <2> QED BY <2>1, <2>2, PlaceMore
<1>4. CASE held[c] = 0 /\ held' = [held EXCEPT ![c] = Head(queue[c])] /\ UNCHANGED cur
  <2>1. /\ held \in [Connections -> Events \cup {0}] /\ held' \in [Connections -> Events \cup {0}]
        /\ \A d \in Connections : d # c => held'[d] = held[d]
        /\ held[c] = 0 /\ held'[c] # 0
    BY <1>1, <1>2, <1>4
  <2>2. IsFiniteSet(Full(held))
    BY DEF ReceivedAddUp
  <2>3. IsFiniteSet(Full(held')) /\ Cardinality(Full(held')) = Cardinality(Full(held)) + 1
    BY <2>1, <2>2, OneHand
  <2>4. cur' = cur /\ replay' = replay /\ snapshot' = snapshot /\ count' = count
    BY <1>1, <1>4
  <2>5. /\ IsFiniteSet(Pairs(snapshot')) /\ IsFiniteSet(Places(replay')) /\ IsFiniteSet(Full(cur'))
    BY <2>4 DEF ReceivedAddUp
  <2>6. Cardinality(Places(taken')) + Cardinality(Pairs(snapshot')) + count'["duplicated"]
          = Cardinality(Places(replay')) + Cardinality(Full(cur')) + Cardinality(Full(held'))
            + count'["delivered"] + count'["dropped"]
    <3>1. /\ Cardinality(Pairs(snapshot')) = Cardinality(Pairs(snapshot))
          /\ Cardinality(Places(replay')) = Cardinality(Places(replay))
          /\ Cardinality(Full(cur')) = Cardinality(Full(cur))
          /\ count'["duplicated"] = count["duplicated"] /\ count'["delivered"] = count["delivered"]
          /\ count'["dropped"] = count["dropped"]
      BY <2>4
    <3>2. Cardinality(Places(taken)) + Cardinality(Pairs(snapshot)) + count["duplicated"]
            = Cardinality(Places(replay)) + Cardinality(Full(cur)) + Cardinality(Full(held))
              + count["delivered"] + count["dropped"]
      BY DEF ReceivedAddUp
    <3> QED BY <1>3, <2>3, <3>1, <3>2, ReceivedNumbers
  <2> QED BY <1>3, <2>3, <2>5, <2>6 DEF ReceivedAddUp
<1>5. CASE cur' = [cur EXCEPT ![c] = Head(queue[c])] /\ UNCHANGED held
  <2>1. /\ cur \in [Connections -> Events \cup {0}] /\ cur' \in [Connections -> Events \cup {0}]
        /\ \A d \in Connections : d # c => cur'[d] = cur[d]
        /\ cur[c] = 0 /\ cur'[c] # 0
    BY <1>1, <1>2, <1>5
  <2>2. IsFiniteSet(Full(cur))
    BY DEF ReceivedAddUp
  <2>3. IsFiniteSet(Full(cur')) /\ Cardinality(Full(cur')) = Cardinality(Full(cur)) + 1
    BY <2>1, <2>2, OneHand
  <2>4. held' = held /\ replay' = replay /\ snapshot' = snapshot /\ count' = count
    BY <1>1, <1>5
  <2>5. /\ IsFiniteSet(Pairs(snapshot')) /\ IsFiniteSet(Places(replay')) /\ IsFiniteSet(Full(held'))
    BY <2>4 DEF ReceivedAddUp
  <2>6. Cardinality(Places(taken')) + Cardinality(Pairs(snapshot')) + count'["duplicated"]
          = Cardinality(Places(replay')) + Cardinality(Full(cur')) + Cardinality(Full(held'))
            + count'["delivered"] + count'["dropped"]
    <3>1. /\ Cardinality(Pairs(snapshot')) = Cardinality(Pairs(snapshot))
          /\ Cardinality(Places(replay')) = Cardinality(Places(replay))
          /\ Cardinality(Full(held')) = Cardinality(Full(held))
          /\ count'["duplicated"] = count["duplicated"] /\ count'["delivered"] = count["delivered"]
          /\ count'["dropped"] = count["dropped"]
      BY <2>4
    <3>2. Cardinality(Places(taken)) + Cardinality(Pairs(snapshot)) + count["duplicated"]
            = Cardinality(Places(replay)) + Cardinality(Full(cur)) + Cardinality(Full(held))
              + count["delivered"] + count["dropped"]
      BY DEF ReceivedAddUp
    <3> QED BY <1>3, <2>3, <3>1, <3>2, ReceivedNumbers
  <2> QED BY <1>3, <2>3, <2>5, <2>6 DEF ReceivedAddUp
<1> QED BY <1>4, <1>5 DEF Take, MayHold

(* What flush counts: one more is on the stream or dropped, beyond what    *)
(* was written a second time; nothing more when the second write fails.    *)
LEMMA FlushedCounts ==
  ASSUME TypeInv, NEW c, NEW e
  PROVE  /\ Flushed(c, e) =>
              /\ \A n \in {"delivered", "dropped", "duplicated"} : count'[n] \in Nat
              /\ count'["delivered"] + count'["dropped"] + count["duplicated"]
                   = count["delivered"] + count["dropped"] + count'["duplicated"] + 1
         /\ FlushFails(c, e) =>
              /\ \A n \in {"delivered", "dropped", "duplicated"} : count'[n] \in Nat
              /\ count'["delivered"] + count'["dropped"] + count["duplicated"]
                   = count["delivered"] + count["dropped"] + count'["duplicated"]
<1>1. /\ count \in [Counters -> Nat]
      /\ {"delivered", "dropped", "duplicated"} \subseteq Counters
  BY DEF TypeInv, TypeOK, Counters
<1>2. /\ count["delivered"] \in Nat /\ count["dropped"] \in Nat /\ count["duplicated"] \in Nat
  BY <1>1
<1>3. ASSUME NEW k \in {1, 2},
             count' = [count EXCEPT !["delivered"] = @ + k, !["duplicated"] = @ + 1]
      PROVE  /\ count'["delivered"] = count["delivered"] + k /\ count'["dropped"] = count["dropped"]
             /\ count'["duplicated"] = count["duplicated"] + 1
  BY <1>1, <1>2, <1>3
<1>4. /\ Bump("dropped", 1) \/ Bump("delivered", 1) =>
           /\ \A n \in {"delivered", "dropped", "duplicated"} : count'[n] \in Nat
           /\ count'["delivered"] + count'["dropped"] + count["duplicated"]
                = count["delivered"] + count["dropped"] + count'["duplicated"] + 1
  <2>1. Bump("dropped", 1) => /\ count'["dropped"] = count["dropped"] + 1
                              /\ count'["delivered"] = count["delivered"]
                              /\ count'["duplicated"] = count["duplicated"]
    BY <1>1 DEF Bump
  <2>2. Bump("delivered", 1) => /\ count'["dropped"] = count["dropped"]
                                /\ count'["delivered"] = count["delivered"] + 1
                                /\ count'["duplicated"] = count["duplicated"]
    BY <1>1 DEF Bump
  <2> QED BY <1>2, <2>1, <2>2
<1>5. ASSUME Flushed(c, e)
      PROVE  /\ \A n \in {"delivered", "dropped", "duplicated"} : count'[n] \in Nat
             /\ count'["delivered"] + count'["dropped"] + count["duplicated"]
                  = count["delivered"] + count["dropped"] + count'["duplicated"] + 1
  <2>1. CASE count' = [count EXCEPT !["delivered"] = @ + 2, !["duplicated"] = @ + 1]
    <3>1. /\ count'["delivered"] = count["delivered"] + 2 /\ count'["dropped"] = count["dropped"]
          /\ count'["duplicated"] = count["duplicated"] + 1
      BY <1>3, <2>1
    <3> QED BY <1>2, <3>1
  <2> QED BY <1>4, <1>5, <2>1 DEF Flushed
<1>6. ASSUME FlushFails(c, e)
      PROVE  /\ \A n \in {"delivered", "dropped", "duplicated"} : count'[n] \in Nat
             /\ count'["delivered"] + count'["dropped"] + count["duplicated"]
                  = count["delivered"] + count["dropped"] + count'["duplicated"]
  <2>1. count' = [count EXCEPT !["delivered"] = @ + 1, !["duplicated"] = @ + 1]
    BY <1>6 DEF FlushFails
  <2>2. /\ count'["delivered"] = count["delivered"] + 1 /\ count'["dropped"] = count["dropped"]
        /\ count'["duplicated"] = count["duplicated"] + 1
    BY <1>3, <2>1
  <2> QED BY <1>2, <2>2
<1> QED BY <1>5, <1>6

(* A hand is emptied as often as an event is on the stream for the first   *)
(* time, or dropped.                                                       *)
LEMMA ReceivedBalance ==
  ASSUME TypeInv, ReceivedAddUp, UNCHANGED <<taken, snapshot, replay>>, NEW k \in {0, 1},
         IsFiniteSet(Full(cur')), IsFiniteSet(Full(held')),
         Cardinality(Full(cur')) + Cardinality(Full(held')) + k
           = Cardinality(Full(cur)) + Cardinality(Full(held)),
         \A n \in {"delivered", "dropped", "duplicated"} : count'[n] \in Nat,
         count'["delivered"] + count'["dropped"] + count["duplicated"]
           = count["delivered"] + count["dropped"] + count'["duplicated"] + k
  PROVE  ReceivedAddUp'
<1> DEFINE T  == Cardinality(Places(taken))
           P  == Cardinality(Pairs(snapshot))
           R  == Cardinality(Places(replay))
           C  == Cardinality(Full(cur))
           H  == Cardinality(Full(held))
           CC == Cardinality(Full(cur'))
           HH == Cardinality(Full(held'))
<1>1. /\ T \in Nat /\ P \in Nat /\ R \in Nat /\ C \in Nat /\ H \in Nat
      /\ count["delivered"] \in Nat /\ count["dropped"] \in Nat /\ count["duplicated"] \in Nat
  BY ReceivedNumbers
<1>2. CC \in Nat /\ HH \in Nat
  BY FS_CardinalityType
<1>3. T + P + count["duplicated"] = R + C + H + count["delivered"] + count["dropped"]
  BY DEF ReceivedAddUp
<1>4. CC + HH + k = C + H
  OBVIOUS
<1>5. /\ count'["delivered"] \in Nat /\ count'["dropped"] \in Nat /\ count'["duplicated"] \in Nat
  OBVIOUS
<1>6. /\ IsFiniteSet(Places(taken')) /\ IsFiniteSet(Pairs(snapshot')) /\ IsFiniteSet(Places(replay'))
      /\ Cardinality(Places(taken')) = T /\ Cardinality(Pairs(snapshot')) = P
      /\ Cardinality(Places(replay')) = R
  BY DEF ReceivedAddUp
<1> HIDE DEF T, P, R, C, H, CC, HH
<1>7. T + P + count'["duplicated"] = R + CC + HH + count'["delivered"] + count'["dropped"]
  BY <1>1, <1>2, <1>3, <1>4, <1>5
<1> QED BY <1>6, <1>7 DEF ReceivedAddUp, CC, HH

(* When the second write fails, the event is on the stream and in hand.    *)
LEMMA ReceivedFlush ==
  ASSUME TypeInv, ReceivedAddUp, NEW c \in Connections, FlushCur(c) \/ FlushHeld(c)
  PROVE  ReceivedAddUp'
<1>1. /\ cur \in [Connections -> Events \cup {0}] /\ held \in [Connections -> Events \cup {0}]
      /\ (serve[c] = "flush" => cur[c] # 0) /\ (serve[c] = "flushHeld" => held[c] # 0)
      /\ UNCHANGED <<taken, snapshot, replay>>
  BY DEF TypeInv, TypeOK, HandsOK, FlushCur, FlushHeld
<1>2. IsFiniteSet(Full(cur)) /\ IsFiniteSet(Full(held))
  BY DEF ReceivedAddUp
<1>3. ASSUME NEW e, Flushed(c, e), IsFiniteSet(Full(cur')), IsFiniteSet(Full(held')),
             Cardinality(Full(cur')) + Cardinality(Full(held')) + 1
               = Cardinality(Full(cur)) + Cardinality(Full(held))
      PROVE  ReceivedAddUp'
  <2>1. /\ \A n \in {"delivered", "dropped", "duplicated"} : count'[n] \in Nat
        /\ count'["delivered"] + count'["dropped"] + count["duplicated"]
             = count["delivered"] + count["dropped"] + count'["duplicated"] + 1
    BY <1>3, FlushedCounts
  <2> QED BY <1>1, <1>3, <2>1, ReceivedBalance
<1>4. ASSUME NEW e, FlushFails(c, e), UNCHANGED <<cur, held>>
      PROVE  ReceivedAddUp'
  <2>1. /\ \A n \in {"delivered", "dropped", "duplicated"} : count'[n] \in Nat
        /\ count'["delivered"] + count'["dropped"] + count["duplicated"]
             = count["delivered"] + count["dropped"] + count'["duplicated"]
    BY <1>4, FlushedCounts
  <2>2. count["delivered"] + count["dropped"] + count'["duplicated"] + 0
          = count["delivered"] + count["dropped"] + count'["duplicated"]
    BY <2>1, ReceivedNumbers
  <2>3. /\ IsFiniteSet(Full(cur')) /\ IsFiniteSet(Full(held'))
        /\ Cardinality(Full(cur')) + Cardinality(Full(held')) + 0
             = Cardinality(Full(cur)) + Cardinality(Full(held))
    BY <1>2, <1>4, ReceivedNumbers
  <2> QED BY <1>1, <2>1, <2>2, <2>3, ReceivedBalance
<1>5. CASE FlushCur(c)
  <2>1. serve[c] = "flush" /\ UNCHANGED held
    BY <1>5 DEF FlushCur
  <2>2. CASE Flushed(c, cur[c]) /\ cur' = [cur EXCEPT ![c] = 0]
    <3>1. /\ cur' \in [Connections -> Events \cup {0}] /\ cur'[c] = 0 /\ cur[c] # 0
          /\ \A d \in Connections : d # c => cur[d] = cur'[d]
      BY <1>1, <2>1, <2>2
    <3>2. cur \in [Connections -> Events \cup {0}]
      BY <1>1
    <3>3. IsFiniteSet(Full(cur')) <=> IsFiniteSet(Full(cur))
      BY <3>1, <3>2, OneHand
    <3>4. IsFiniteSet(Full(cur'))
      BY <1>2, <3>3
    <3>5. Cardinality(Full(cur')) \in Nat /\ Cardinality(Full(cur)) = Cardinality(Full(cur')) + 1
      BY <3>1, <3>2, <3>4, OneHand
    <3>6. /\ IsFiniteSet(Full(held')) /\ Cardinality(Full(held')) \in Nat
          /\ Cardinality(Full(held')) = Cardinality(Full(held))
      BY <1>2, <2>1, ReceivedNumbers
    <3> QED BY <1>3, <2>2, <3>4, <3>5, <3>6
  <2>3. CASE FlushFails(c, cur[c]) /\ UNCHANGED cur
    BY <1>4, <2>1, <2>3
  <2> QED BY <1>5, <2>2, <2>3 DEF FlushCur
<1>6. CASE FlushHeld(c)
  <2>1. serve[c] = "flushHeld" /\ UNCHANGED cur
    BY <1>6 DEF FlushHeld
  <2>2. CASE Flushed(c, held[c]) /\ held' = [held EXCEPT ![c] = 0]
    <3>1. /\ held' \in [Connections -> Events \cup {0}] /\ held'[c] = 0 /\ held[c] # 0
          /\ \A d \in Connections : d # c => held[d] = held'[d]
      BY <1>1, <2>1, <2>2
    <3>2. held \in [Connections -> Events \cup {0}]
      BY <1>1
    <3>3. IsFiniteSet(Full(held')) <=> IsFiniteSet(Full(held))
      BY <3>1, <3>2, OneHand
    <3>4. IsFiniteSet(Full(held'))
      BY <1>2, <3>3
    <3>5. Cardinality(Full(held')) \in Nat /\ Cardinality(Full(held)) = Cardinality(Full(held')) + 1
      BY <3>1, <3>2, <3>4, OneHand
    <3>6. /\ IsFiniteSet(Full(cur')) /\ Cardinality(Full(cur')) \in Nat
          /\ Cardinality(Full(cur')) = Cardinality(Full(cur))
      BY <1>2, <2>1, ReceivedNumbers
    <3> QED BY <1>3, <2>2, <3>4, <3>5, <3>6
  <2>3. CASE FlushFails(c, held[c]) /\ UNCHANGED held
    BY <1>4, <2>1, <2>3
  <2> QED BY <1>6, <2>2, <2>3 DEF FlushHeld
<1> QED BY <1>5, <1>6

LEMMA ReceivedStep ==
  TypeInv /\ HistoryOK /\ OffersOK /\ ReceivedAddUp /\ [Next]_brokerVars => ReceivedAddUp'
<1> SUFFICES ASSUME TypeInv, HistoryOK, OffersOK, ReceivedAddUp, [Next]_brokerVars
             PROVE  ReceivedAddUp'
  OBVIOUS
<1>1. count \in [Counters -> Nat]
  BY DEF TypeInv, TypeOK
<1>2. ASSUME NEW e \in Events, Publish(e) \/ FanOut(e) PROVE ReceivedAddUp'
  <2>1. UNCHANGED <<taken, snapshot, replay, cur, held>>
    BY <1>2 DEF Publish, FanOut, TrySend, DiscardOldest, Resend
  <2>2. UNCHANGED count \/ Bump("published", 1) \/ Bump("lagged", 1)
    BY <1>2 DEF Publish, FanOut, TrySend, DiscardOldest, Resend, GiveUpOn
  <2>3. \A n \in {"delivered", "dropped", "duplicated"} : count'[n] = count[n]
    BY <1>1, <2>2 DEF Bump, Counters
  <2> QED BY <2>1, <2>3, ReceivedSame
<1>3. ASSUME NEW c \in Connections, Serve(c) \/ Disconnect(c) PROVE ReceivedAddUp'
  <2>1. CASE Release(c) \/ Disconnect(c)
    BY <2>1, ReceivedSame DEF Release, Disconnect
  <2> QED BY <1>3, <2>1, ReceivedReplay, ReceivedTake, ReceivedFlush DEF Serve
<1>4. CASE BrokerStep
  BY <1>2, <1>3, <1>4 DEF BrokerStep
<1>5. CASE \E c \in Connections, id \in Events \cup {0} : Register(c, id)
  BY <1>5, ReceivedRegister
<1>6. CASE UNCHANGED brokerVars
  BY <1>6, ReceivedSame DEF brokerVars
<1> QED BY <1>4, <1>5, <1>6 DEF Next, Finished

(* There are finitely many subscribers at any time. *)
LEMMA SubscribersStep == IsFiniteSet(subs) /\ [Next]_brokerVars => IsFiniteSet(subs')
<1> SUFFICES ASSUME IsFiniteSet(subs), [Next]_brokerVars PROVE IsFiniteSet(subs')
  OBVIOUS
<1>1. subs' = subs \/ \E c \in Connections : subs' = subs \cup {c} \/ subs' = subs \ {c}
  BY DEF Next, BrokerStep, Publish, FanOut, TrySend, DiscardOldest, Resend, Register, Enlist,
         Serve, Replay, Take, Release, FlushCur, FlushHeld, FlushFails, Disconnect, Leave,
         Finished, brokerVars
<1> QED BY <1>1, FS_AddElement, FS_RemoveElement

LEMMA CountInit == BrokerInit => CountInv
<1> SUFFICES ASSUME BrokerInit PROVE CountInv
  OBVIOUS
<1>1. /\ Pairs(live) = {} /\ Pairs(snapshot) = {} /\ Sends(targets) = {}
      /\ Full(cur) = {} /\ Full(held) = {} /\ subs = {}
  BY DEF BrokerInit, Pairs, Sends, Full
<1>2. Places(queue) = {} /\ Places(taken) = {} /\ Places(replay) = {}
  BY DEF BrokerInit, Places
<1>3. \A n \in Counters : count[n] = 0
  BY DEF BrokerInit
<1> QED BY <1>1, <1>2, <1>3, FS_EmptySet DEF CountInv, OfferedAddUp, ReceivedAddUp, Counters

(* No event vanishes uncounted, however the publishers race for the last   *)
(* place of a queue and whatever the faults do to the stream.              *)
THEOREM CountersAddUpHolds == Spec => []CountersAddUp
<1>1. /\ TypeInv /\ HistoryOK /\ OffersOK /\ WayOK /\ CountInv /\ [Next]_brokerVars
      => CountInv'
  BY OfferedStep, ReceivedStep, SubscribersStep DEF CountInv
<1>2. CountInv => CountersAddUp
  BY DEF CountInv, OfferedAddUp, ReceivedAddUp, CountersAddUp
<1>3. Spec => []CountInv
  BY <1>1, CountInit, TypeInvHolds, HistoryHolds, WayHolds, PTL DEF Spec
<1> QED BY <1>2, <1>3, PTL
=============================================================================
