-------------------------- MODULE MCDecisionAgent ---------------------------
(* Model-checking instance of DecisionAgent.                               *)
EXTENDS DecisionAgent

Badge(id, card, room, at, decodes) ==
  [id |-> id, card |-> card, door |-> "door-1", room |-> room, at |-> at, decodes |-> decodes]

(* One read that is allowed, one refused and one that cannot be used. *)
SomeBadges == {Badge("b1", "CARD-001", "room-office", 600, TRUE),
               Badge("b2", "visitor", "room-office", 600, TRUE),
               Badge("b3", "CARD-001", "", 600, TRUE)}

SomeObservations == {[room |-> "room-office", at |-> t, present |-> p] : t \in 1..2, p \in BOOLEAN}

(* What a door actuator reports over time: nothing yet, unlocked, locked. *)
SomeStates == {[door |-> "door-1", version |-> 0, lock |-> "locked"],
               [door |-> "door-1", version |-> 1, lock |-> "unlocked"],
               [door |-> "door-1", version |-> 2, lock |-> "locked"]}

FiveDeliveries == [deliver |-> 5, crash |-> 1]
=============================================================================
