----------------------------- MODULE MintedIds ------------------------------
(***************************************************************************)
(* The dedupe set under the ids that producers really use: those NewULID   *)
(* mints from an instant and 80 bits of randomness.                        *)
(***************************************************************************)
EXTENDS DedupeSet, Ulid

CONSTANTS Instants,  \* the 6 bytes of the milliseconds of each instant
          Randoms    \* the 10 bytes the CSPRNG may fill in

Minted == {NewULID(instant, random) : instant \in Instants, random \in Randoms}

ASSUME InstantsAreBytes == \A instant \in Instants : instant \in Seq(Byte) /\ Len(instant) = 6
ASSUME RandomsAreBytes == \A random \in Randoms : random \in Seq(Byte) /\ Len(random) = 10

(* The bus delivers what producers minted. *)
IdsAreMinted == Ids \subseteq Minted

(* What an id may have been made of. *)
Origins(id) == {made \in Instants \X Randoms : id = NewULID(made[1], made[2])}

(* Ids identify and order events: what the consumer and the bus compare    *)
(* are strings that are valid, come from one instant and one randomness    *)
(* only, tell that instant, and sort by it whatever the randomness         *)
(* (model/ulid.go:13-17).                                                  *)
IdsTellTheirInstant ==
  \A id, other \in set.members :
    \E made, later \in Instants \X Randoms :
      /\ Origins(id) = {made} /\ Origins(other) = {later}
      /\ ValidULID(id) /\ ULIDTime(id) = Zeros(16) \o Word(made[1])
      /\ Before(made[1], later[1]) => Before(id, other) /\ ~Before(other, id)
=============================================================================
