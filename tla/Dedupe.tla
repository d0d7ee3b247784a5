------------------------------- MODULE Dedupe -------------------------------
(***************************************************************************)
(* The bounded set of recently seen ids that every consumer of the bus     *)
(* keeps (src/internal/dedupe/set.go).  A Set value is a record: order is  *)
(* the FIFO of retained ids, members the map used for look-ups.  The       *)
(* operators are pure, so that the agent and the actuator can hold one Set *)
(* each and replace it in one step.                                        *)
(***************************************************************************)
EXTENDS Naturals, Sequences

(* New treats a capacity below one as one. *)
EffectiveCapacity(capacity) == IF capacity < 1 THEN 1 ELSE capacity

New == [order |-> <<>>, members |-> {}]

Seen(s, id) == id \in s.members

(* Faulty variants of Add, to measure the properties by: one drops the id  *)
(* just learned, one forgets to delete from the map, one evicts too early. *)
Add_DropsNewest(s, id, capacity) ==
  IF Seen(s, id) \/ Len(s.order) >= capacity THEN s
  ELSE [order |-> Append(s.order, id), members |-> s.members \cup {id}]

Add_LeavesMember(s, id, capacity) ==
  IF Seen(s, id) THEN s
  ELSE LET order == Append(s.order, id)
       IN [order   |-> IF Len(order) > capacity THEN Tail(order) ELSE order,
           members |-> s.members \cup {id}]

Add_EvictsEarly(s, id, capacity) ==
  IF Seen(s, id) THEN s
  ELSE LET order   == Append(s.order, id)
           members == s.members \cup {id}
       IN IF Len(order) >= capacity
          THEN [order |-> Tail(order), members |-> members \ {Head(order)}]
          ELSE [order |-> order, members |-> members]

(* Add keeps a known id where it is; a new id goes to the end and, in a    *)
(* full set, pushes the oldest one out of both fields.                     *)
Add(s, id, capacity) ==
  IF Seen(s, id) THEN s
  ELSE LET order   == Append(s.order, id)
           members == s.members \cup {id}
       IN IF Len(order) > capacity
          THEN [order |-> Tail(order), members |-> members \ {Head(order)}]
          ELSE [order |-> order, members |-> members]

-----------------------------------------------------------------------------
(* What a consumer may assume of a Set.                                    *)
Elements(q) == {q[i] : i \in 1..Len(q)}
Distinct(q) == \A i, j \in 1..Len(q) : q[i] = q[j] => i = j

(* The slice and the map agree and are within the capacity. *)
Consistent(s, capacity) ==
  /\ s.members = Elements(s.order)
  /\ Distinct(s.order)
  /\ Len(s.order) <= capacity

(* The ids retained are the newest of those inserted, in order. *)
Newest(s, inserted, capacity) ==
  /\ Len(s.order) = IF Len(inserted) < capacity THEN Len(inserted) ELSE capacity
  /\ \A i \in 1..Len(s.order) :
        s.order[i] = inserted[Len(inserted) - Len(s.order) + i]

(* An id about to be inserted again is more than capacity insertions old.  *)
LongAgo(id, inserted, capacity) ==
  \A i \in 1..Len(inserted) :
     inserted[i] = id => Len(inserted) + 1 - i > capacity

(* The same for a Set that was new again after the first start insertions: *)
(* every earlier insertion of the id is older than that, or long ago.      *)
Since(inserted, start) == SubSeq(inserted, start + 1, Len(inserted))

ForgottenOrLongAgo(id, inserted, start, capacity) ==
  \A i \in 1..Len(inserted) :
     inserted[i] = id => i <= start \/ Len(inserted) + 1 - i > capacity
=============================================================================
