---------------------------- MODULE MCAccessLoop ----------------------------
(* Model-checking instance of AccessLoop: the agent's phase-1 policy with  *)
(* the office behind the door, so that one card is allowed, one refused.   *)
EXTENDS AccessLoop

Policies == INSTANCE Policy
LoopPolicy == Policies!MinimalLoopPolicy

Badge(id, card, door) ==
  [id |-> id, card |-> card, door |-> door, room |-> "room-office", at |-> 600, decodes |-> TRUE]

TwoBadges   == {Badge("b1", "CARD-001", Door), Badge("b2", "visitor", Door)}
TwoDoors    == TwoBadges \cup {Badge("b3", "CARD-001", "door-2")}
ThreeBadges == TwoBadges \cup {Badge("b3", "CARD-001", Door)}

(* Two badge.reads or a badge.read and a door.state for the agent. *)
TwoEach   == [deliver |-> 2, crash |-> 1]
FourEach  == [deliver |-> 4, crash |-> 0]

DoorFaults == [deliver |-> 2, forget |-> 1, crash |-> 1]
NoFaults   == [deliver |-> 3, forget |-> 0, crash |-> 0]
=============================================================================
