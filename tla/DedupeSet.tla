----------------------------- MODULE DedupeSet ------------------------------
(***************************************************************************)
(* One consumer's dedupe set under an arbitrary stream of deliveries: the  *)
(* bus may deliver any id at any time, any number of times.                *)
(***************************************************************************)
EXTENDS Dedupe

CONSTANTS Ids,          \* the event ids the bus may deliver
          Capacity,     \* the capacity handed to New
          MaxInserted   \* bound on the length of the history kept for checking

ASSUME CapacityIsNatural == Capacity \in Nat
ASSUME MaxInsertedIsNatural == MaxInserted \in Nat

VARIABLES set,       \* the consumer's Set
          inserted   \* history: the ids SeenOrAdd has reported as new, in order

vars == <<set, inserted>>

Cap == EffectiveCapacity(Capacity)

Init == set = New /\ inserted = <<>>

(* SeenOrAdd of an id the consumer acts upon. *)
Accept(id) ==
  /\ ~Seen(set, id)
  /\ Len(inserted) < MaxInserted
  /\ set' = Add(set, id, Cap)
  /\ inserted' = Append(inserted, id)

(* SeenOrAdd of an id the consumer ignores as a redelivery. *)
Ignore(id) ==
  /\ Seen(set, id)
  /\ set' = Add(set, id, Cap)
  /\ UNCHANGED inserted

Next == \E id \in Ids : Accept(id) \/ Ignore(id)

Spec == Init /\ [][Next]_vars

-----------------------------------------------------------------------------
TypeOK ==
  /\ set \in [order : Seq(Ids), members : SUBSET Ids]
  /\ inserted \in Seq(Ids)

(* The slice and the map of set.go never drift apart: they hold the same   *)
(* ids, none twice, and never more than the capacity.                      *)
FieldsAgree == Consistent(set, Cap)

(* What is retained is exactly the newest Cap insertions: an id is         *)
(* forgotten because Cap newer ones arrived and for no other reason.       *)
KeepsNewest == Newest(set, inserted, Cap)

(* The promise consumers rely on: a redelivered event is acted upon a      *)
(* second time only after at least Cap other new ids.                      *)
NoRepeatWithinWindow ==
  \A i, j \in 1..Len(inserted) :
     i < j /\ inserted[i] = inserted[j] => j - i > Cap
=============================================================================
