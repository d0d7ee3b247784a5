------------------------ MODULE DecisionAgentProofs -------------------------
(***************************************************************************)
(* The safety properties of DecisionAgent, for any policy New accepts, any *)
(* events the bus may deliver, any capacity of the dedupe set and any      *)
(* number of deliveries and restarts.                                      *)
(***************************************************************************)
EXTENDS DecisionAgent, DedupeProofs

(* d and c are the decision and the command the policy gives for b. *)
Answers(d, c, b) ==
  /\ d.badge = b.id /\ d.door = b.door /\ c.door = b.door /\ d.id = c.id
  /\ c.desired = "unlocked" <=> Earned(b)
  /\ d.action = "allow" <=> Earned(b)

(* handleBadge publishes what the policy said, the command after the       *)
(* decision.                                                               *)
PendingOK ==
  /\ pc # "idle" => \E b \in Badges : Answers(decision, command, b)
  /\ pc = "command" => decision \in decisions

(* The set holds the newest of the ids taken as new by this process. *)
DedupeOK ==
  Consistent(seen, SeenCapacity) /\ Newest(seen, Since(admitted, booted), SeenCapacity)

(* Every view of a room stems from an observation delivered. *)
OccupancyOK ==
  /\ OccupancyIsNewest
  /\ \A r \in Rooms : occupancy[r].known =>
       \E i \in 1..Len(observed) : observed[i].room = r /\ observed[i].at = occupancy[r].at

IInv == TypeOK /\ PendingOK /\ CommandsFollowDecisions /\ ViewIsNewest /\ OccupancyOK /\ DedupeOK

-----------------------------------------------------------------------------
(* The zero values of the maps and of the locals have their types. *)
LEMMA ZeroTypes ==
  /\ NoObservation \in Evidence
  /\ NoView \in [known : BOOLEAN, version : Nat, lock : Locks]
  /\ NoDecision \in Decision /\ NoCommand \in Command
BY DEF NoObservation, Evidence, NoView, NoDecision, NoCommand, Decision, Command, Locks, Actions

(* The baseline policy allows and unlocks exactly the reads it should:     *)
(* Decide never pairs an unlock with a refusal.                            *)
LEMMA DecideSound ==
  ASSUME NEW b \in Badges, b.decodes, CompleteRequest(b)
  PROVE  /\ Decide(Config, b).action \in Actions
         /\ Decide(Config, b).lock \in Locks
         /\ Decide(Config, b).lock = "unlocked" <=> Earned(b)
         /\ Decide(Config, b).action = "allow" <=> Earned(b)
<1>1. CASE CardPermitted(Config, b.card, b.room) /\ WithinWindow(Config, b.room, b.at)
  BY <1>1 DEF Decide, Outcome, Actions, Locks, Earned
<1>2. CASE CardPermitted(Config, b.card, b.room) /\ ~WithinWindow(Config, b.room, b.at)
  BY <1>2 DEF Decide, Outcome, Actions, Locks, Earned
<1>3. CASE ~CardPermitted(Config, b.card, b.room) /\ RoomRestricted(Config, b.room)
  BY <1>3 DEF Decide, Outcome, Actions, Locks, Earned
<1>4. CASE ~CardPermitted(Config, b.card, b.room) /\ ~RoomRestricted(Config, b.room)
  BY <1>4 DEF Decide, Outcome, Actions, Locks, Earned
<1> QED BY <1>1, <1>2, <1>3, <1>4

-----------------------------------------------------------------------------
(* A new process satisfies the invariant. *)
LEMMA InitInv == Init => IInv
<1> SUFFICES ASSUME Init PROVE IInv
  OBVIOUS
<1>1. New \in SetOver(BadgeIds) /\ Consistent(New, SeenCapacity)
  BY CapacityIsPositive, NewConsistent
<1>2. Newest(New, Since(<<>>, 0), SeenCapacity)
  <2>1. Since(<<>>, 0) = <<>>
    BY DEF Since
  <2> QED BY <2>1, CapacityIsPositive, NewNewest
<1>3. TypeOK
  BY <1>1, ZeroTypes, BudgetIsNatural DEF Init, TypeOK, SetOver
<1>4. PendingOK /\ CommandsFollowDecisions
  BY DEF Init, PendingOK, CommandsFollowDecisions
<1>5. ViewIsNewest
  BY DEF Init, ViewIsNewest
<1>6. OccupancyOK
  BY DEF Init, OccupancyOK, OccupancyIsNewest, NoObservation
<1>7. DedupeOK
  BY <1>1, <1>2 DEF Init, DedupeOK
<1> QED BY <1>3, <1>4, <1>5, <1>6, <1>7 DEF IInv

(* What a delivery or a restart does to the budget. *)
LEMMA SpendType ==
  ASSUME TypeOK, NEW kind \in BudgetKinds, Spend(kind)
  PROVE  budget' \in [BudgetKinds -> Nat]
BY DEF Spend, TypeOK

(* handleBadge has returned: its locals are gone. *)
LEMMA ReturnTypes ==
  ASSUME Return
  PROVE  pc' = "idle" /\ decision' \in Decision /\ command' \in Command
BY ZeroTypes DEF Return

(* SeenOrAdd and the history of the ids taken as new stay in step. *)
LEMMA RememberStep ==
  ASSUME IInv, NEW b \in Badges, Remember(b),
         IF Seen(seen, b.id) THEN UNCHANGED admitted ELSE admitted' = Append(admitted, b.id),
         UNCHANGED booted
  PROVE  /\ seen' \in SetOver(BadgeIds) /\ admitted' \in Seq(BadgeIds)
         /\ booted' \in 0..Len(admitted') /\ DedupeOK'
<1>1. /\ b.id \in BadgeIds /\ seen \in SetOver(BadgeIds) /\ admitted \in Seq(BadgeIds)
      /\ SeenCapacity \in Nat \ {0}
      /\ seen' = Add(seen, b.id, SeenCapacity)
      /\ Consistent(seen, SeenCapacity) /\ booted \in 0..Len(admitted)
      /\ Newest(seen, Since(admitted, booted), SeenCapacity)
  BY CapacityIsPositive DEF IInv, TypeOK, SetOver, DedupeOK, BadgeIds, Remember
<1>2. seen' \in SetOver(BadgeIds) /\ Consistent(seen', SeenCapacity)
  BY <1>1, AddType, AddConsistent
<1>3. CASE Seen(seen, b.id)
  BY <1>1, <1>2, <1>3 DEF Add, DedupeOK
<1>4. CASE ~Seen(seen, b.id)
  <2> DEFINE own == Since(admitted, booted)
  <2>1. /\ own \in Seq(BadgeIds)
        /\ Since(Append(admitted, b.id), booted) = Append(own, b.id)
    BY <1>1, SinceAppend
  <2>2. Newest(seen', Append(own, b.id), SeenCapacity)
    BY <1>1, <1>4, <2>1, AddNewest
  <2>3. admitted' \in Seq(BadgeIds) /\ booted \in 0..Len(admitted')
    BY <1>1, <1>4
  <2> QED BY <1>2, <1>4, <2>1, <2>2, <2>3 DEF DedupeOK
<1> QED BY <1>3, <1>4

(* A badge.read: a duplicate, an unusable one, or a decision to publish. *)
LEMMA ReceiveBadgeInv ==
  ASSUME IInv, NEW b \in Badges, ReceiveBadge(b)
  PROVE  IInv'
<1>1. TypeOK /\ pc = "idle" /\ UNCHANGED <<occupancy, doors, decisions, commands, observed, heard>>
  BY DEF IInv, ReceiveBadge, world
<1>2. budget' \in [BudgetKinds -> Nat]
  BY <1>1, SpendType DEF ReceiveBadge, BudgetKinds
<1>3. /\ seen' \in SetOver(BadgeIds) /\ admitted' \in Seq(BadgeIds)
      /\ booted' \in 0..Len(admitted') /\ DedupeOK'
  BY RememberStep DEF ReceiveBadge
<1>4. CommandsFollowDecisions' /\ ViewIsNewest' /\ OccupancyOK'
  BY <1>1 DEF IInv, CommandsFollowDecisions, ViewIsNewest, OccupancyOK, OccupancyIsNewest
<1>5. CASE UNCHANGED <<pc, decision, command, minted>>
  <2>1. TypeOK'
    BY <1>1, <1>2, <1>3, <1>5 DEF TypeOK, SetOver
  <2>2. PendingOK'
    BY <1>1, <1>5 DEF PendingOK
  <2> QED BY <1>3, <1>4, <2>1, <2>2 DEF IInv
<1>6. CASE b.decodes /\ CompleteRequest(b) /\ Deliberate(b)
  <2> DEFINE outcome == Decide(Config, b)
  <2>1. /\ outcome.action \in Actions /\ outcome.lock \in Locks
        /\ outcome.lock = "unlocked" <=> Earned(b)
        /\ outcome.action = "allow" <=> Earned(b)
    BY <1>6, DecideSound
  <2>2. /\ pc' = "decision" /\ minted' = minted + 1
        /\ decision' = [id |-> minted + 1, badge |-> b.id, door |-> b.door,
                        action |-> outcome.action, evidence |-> occupancy[b.room]]
        /\ command' = [id |-> minted + 1, door |-> b.door, desired |-> outcome.lock]
    BY <1>6 DEF Deliberate, Conclude
  <2> HIDE DEF outcome
  <2>3. occupancy[b.room] \in Evidence /\ minted + 1 \in Nat
        /\ b.door \in Doors /\ b.id \in BadgeIds
    BY <1>1 DEF TypeOK, Rooms, Doors, BadgeIds
  <2>4. decision' \in Decision /\ command' \in Command
    BY <2>1, <2>2, <2>3 DEF Decision, Command
  <2>5. TypeOK'
    BY <1>1, <1>2, <1>3, <2>2, <2>3, <2>4 DEF TypeOK, SetOver
  <2>6. Answers(decision', command', b)
    BY <2>1, <2>2 DEF Answers
  <2>7. PendingOK'
    BY <2>2, <2>6 DEF PendingOK
  <2> QED BY <1>3, <1>4, <2>5, <2>7 DEF IInv
<1> QED BY <1>5, <1>6 DEF ReceiveBadge

(* The parts about deliveries do not depend on what is published. *)
LEMMA PublishedOnly ==
  ASSUME IInv, UNCHANGED <<seen, occupancy, doors, admitted, booted, observed, heard>>
  PROVE  ViewIsNewest' /\ OccupancyOK' /\ DedupeOK'
BY DEF IInv, ViewIsNewest, OccupancyOK, OccupancyIsNewest, DedupeOK

(* The access.decision is published, or not. *)
LEMMA PublishDecisionInv == IInv /\ PublishDecision => IInv'
<1> SUFFICES ASSUME IInv, PublishDecision PROVE IInv'
  OBVIOUS
<1>1. /\ pc = "decision" /\ decision \in Decision /\ command \in Command
      /\ UNCHANGED <<seen, occupancy, doors, minted, commands, admitted, booted, observed, heard,
                     budget>>
      /\ decisions' \in {decisions, decisions \cup {decision}}
  BY DEF IInv, TypeOK, PublishDecision, world, history
<1>2. ViewIsNewest' /\ OccupancyOK' /\ DedupeOK'
  BY <1>1, PublishedOnly
<1>3. CommandsFollowDecisions'
  <2>1. decisions \subseteq decisions'
    BY <1>1
  <2> QED BY <1>1, <2>1 DEF IInv, CommandsFollowDecisions
<1>4. CASE Return
  <2>1. pc' = "idle" /\ decision' \in Decision /\ command' \in Command
    BY <1>4, ReturnTypes
  <2>2. TypeOK'
    BY <1>1, <2>1 DEF IInv, TypeOK
  <2>3. PendingOK'
    BY <2>1 DEF PendingOK
  <2> QED BY <1>2, <1>3, <2>2, <2>3 DEF IInv
<1>5. CASE decisions' = decisions \cup {decision} /\ pc' = "command"
           /\ UNCHANGED <<decision, command>>
  <2>1. TypeOK'
    BY <1>1, <1>5 DEF IInv, TypeOK
  <2>2. PendingOK'
    BY <1>1, <1>5 DEF IInv, PendingOK
  <2> QED BY <1>2, <1>3, <2>1, <2>2 DEF IInv
<1> QED BY <1>4, <1>5 DEF PublishDecision, DecisionRefused

(* The door.command is published, or not: its decision is already there. *)
LEMMA PublishCommandInv == IInv /\ PublishCommand => IInv'
<1> SUFFICES ASSUME IInv, PublishCommand PROVE IInv'
  OBVIOUS
<1>1. /\ pc = "command" /\ decision \in Decision /\ command \in Command
      /\ UNCHANGED <<seen, occupancy, doors, minted, decisions, admitted, booted, observed, heard,
                     budget>>
      /\ commands' \in {commands, commands \cup {command}}
      /\ pc' = "idle" /\ decision' \in Decision /\ command' \in Command
  BY ReturnTypes DEF IInv, TypeOK, PublishCommand, world, history
<1>2. ViewIsNewest' /\ OccupancyOK' /\ DedupeOK'
  BY <1>1, PublishedOnly
<1>3. TypeOK' /\ PendingOK'
  BY <1>1 DEF IInv, TypeOK, PendingOK
<1>4. CommandsFollowDecisions'
  <2>1. PICK b \in Badges : Answers(decision, command, b)
    BY <1>1 DEF IInv, PendingOK
  <2>2. decision \in decisions
    BY <1>1 DEF IInv, PendingOK
  <2>3. \E d \in decisions, a \in Badges :
          /\ d.id = command.id /\ d.badge = a.id /\ d.door = command.door /\ a.door = command.door
          /\ command.desired = "unlocked" <=> Earned(a)
          /\ d.action = "allow" <=> Earned(a)
    BY <2>1, <2>2 DEF Answers
  <2> QED BY <1>1, <2>3 DEF IInv, CommandsFollowDecisions
<1> QED BY <1>2, <1>3, <1>4 DEF IInv

-----------------------------------------------------------------------------
(* The parts about publishing do not depend on the view of the building. *)
LEMMA ViewOnly ==
  ASSUME IInv, pc = "idle",
         UNCHANGED <<pc, seen, decision, command, decisions, commands, admitted, booted>>
  PROVE  PendingOK' /\ CommandsFollowDecisions' /\ DedupeOK'
BY DEF IInv, PendingOK, CommandsFollowDecisions, DedupeOK

(* An occupancy.observed replaces an older view of its room only. *)
LEMMA ReceiveOccupancyInv ==
  ASSUME IInv, NEW o \in Observations, ReceiveOccupancy(o)
  PROVE  IInv'
<1> DEFINE n == Len(observed)
           r == o.room
<1>1. /\ pc = "idle" /\ UNCHANGED <<pc, seen, doors, decision, command, minted, decisions,
                                    commands, admitted, booted, heard>>
      /\ observed' = Append(observed, o) /\ applyOccupancy(o)
  BY DEF ReceiveOccupancy
<1>2. /\ occupancy \in [Rooms -> Evidence] /\ observed \in Seq(Observations)
      /\ r \in Rooms /\ o.at \in Nat /\ o.present \in BOOLEAN
      /\ occupancy[r].at \in Nat /\ n \in Nat
  BY ObservationsTyped DEF IInv, TypeOK, Rooms, Evidence
<1>3. /\ observed' \in Seq(Observations) /\ Len(observed') = n + 1 /\ observed'[n + 1] = o
      /\ \A i \in 1..n : observed'[i] = observed[i]
  BY <1>1, <1>2
<1>4. [known |-> TRUE, at |-> o.at, present |-> o.present] \in Evidence
  BY <1>2 DEF Evidence
<1>5. TypeOK'
  <2>1. occupancy' \in [Rooms -> Evidence]
    BY <1>1, <1>2, <1>4 DEF applyOccupancy
  <2>2. budget' \in [BudgetKinds -> Nat]
    BY SpendType DEF IInv, ReceiveOccupancy, BudgetKinds
  <2> QED BY <1>1, <1>3, <2>1, <2>2 DEF IInv, TypeOK
<1>6. PendingOK' /\ CommandsFollowDecisions' /\ DedupeOK' /\ ViewIsNewest'
  BY <1>1, ViewOnly DEF IInv, ViewIsNewest
<1>7. \A i \in 1..n : /\ observed[i] \in Observations /\ observed[i].room \in Rooms
                      /\ observed[i].at \in Nat /\ observed[i].present \in BOOLEAN
  BY <1>2, ObservationsTyped DEF Rooms
<1>8. \A i \in 1..n :
        /\ occupancy[observed[i].room].known /\ observed[i].at <= occupancy[observed[i].room].at
        /\ (observed[i].at = occupancy[observed[i].room].at
            /\ \A j \in 1..(i - 1) :
                  observed[j].room # observed[i].room \/ observed[j].at # observed[i].at)
           => observed[i].present = occupancy[observed[i].room].present
  BY DEF IInv, OccupancyOK, OccupancyIsNewest
<1>9. \A q \in Rooms : occupancy[q].known =>
        \E i \in 1..n : observed[i].room = q /\ observed[i].at = occupancy[q].at
  BY DEF IInv, OccupancyOK
<1> HIDE DEF n, r
<1>10. CASE occupancy[r].known /\ o.at <= occupancy[r].at
  <2>1. occupancy' = occupancy
    BY <1>1, <1>10 DEF applyOccupancy, r
  <2>2. PICK k \in 1..n : observed[k].room = r /\ observed[k].at = occupancy[r].at
    BY <1>2, <1>9, <1>10
  <2>3. OccupancyIsNewest'
    <3> SUFFICES ASSUME NEW i \in 1..(n + 1)
                 PROVE  LET view == occupancy[observed'[i].room]
                        IN /\ view.known /\ observed'[i].at <= view.at
                           /\ (observed'[i].at = view.at
                               /\ \A j \in 1..(i - 1) :
                                     \/ observed'[j].room # observed'[i].room
                                     \/ observed'[j].at # observed'[i].at)
                                => observed'[i].present = view.present
      BY <1>3, <2>1 DEF OccupancyIsNewest
    <3>1. CASE i \in 1..n
      <4>1. \A j \in 1..(i - 1) : j \in 1..n
        BY <1>2, <3>1
      <4> QED BY <1>3, <1>8, <3>1, <4>1
    <3>2. CASE i = n + 1
      <4>1. observed'[i] = o /\ o.room = r /\ k \in 1..(i - 1) /\ observed'[k] = observed[k]
        BY <1>2, <1>3, <3>2 DEF r
      <4>2. o.at = occupancy[r].at =>
              ~(\A j \in 1..(i - 1) : observed'[j].room # r \/ observed'[j].at # o.at)
        BY <2>2, <4>1
      <4> QED BY <1>10, <4>1, <4>2
    <3> QED BY <1>2, <3>1, <3>2
  <2>4. ASSUME NEW q \in Rooms, occupancy'[q].known
        PROVE  \E i \in 1..Len(observed') :
                  observed'[i].room = q /\ observed'[i].at = occupancy'[q].at
    <3>1. PICK i \in 1..n : observed[i].room = q /\ observed[i].at = occupancy[q].at
      BY <1>9, <2>1, <2>4
    <3>2. i \in 1..(n + 1) /\ observed'[i] = observed[i]
      BY <1>2, <1>3
    <3> QED BY <1>3, <2>1, <3>1, <3>2
  <2> QED BY <1>5, <1>6, <2>3, <2>4 DEF IInv, OccupancyOK
<1>11. CASE ~(occupancy[r].known /\ o.at <= occupancy[r].at)
  <2>1. /\ occupancy'[r] = [known |-> TRUE, at |-> o.at, present |-> o.present]
        /\ \A q \in Rooms : q # r => occupancy'[q] = occupancy[q]
    BY <1>1, <1>2, <1>11 DEF applyOccupancy, r
  <2>2. \A i \in 1..n : observed[i].room = r => observed[i].at < o.at
    BY <1>2, <1>7, <1>8, <1>11
  <2>3. OccupancyIsNewest'
    <3> SUFFICES ASSUME NEW i \in 1..(n + 1)
                 PROVE  LET view == occupancy'[observed'[i].room]
                        IN /\ view.known /\ observed'[i].at <= view.at
                           /\ (observed'[i].at = view.at
                               /\ \A j \in 1..(i - 1) :
                                     \/ observed'[j].room # observed'[i].room
                                     \/ observed'[j].at # observed'[i].at)
                                => observed'[i].present = view.present
      BY <1>3 DEF OccupancyIsNewest
    <3>1. CASE i \in 1..n /\ observed[i].room = r
      <4>1. observed'[i].at < o.at /\ observed'[i].room = r /\ observed'[i].at \in Nat
        BY <1>3, <1>7, <2>2, <3>1
      <4>2. occupancy'[r].known /\ occupancy'[r].at = o.at
        BY <2>1
      <4> QED BY <1>2, <4>1, <4>2
    <3>2. CASE i \in 1..n /\ observed[i].room # r
      <4>1. \A j \in 1..(i - 1) : j \in 1..n
        BY <1>2, <3>2
      <4>2. occupancy'[observed'[i].room] = occupancy[observed[i].room]
        BY <1>3, <1>7, <2>1, <3>2
      <4> QED BY <1>3, <1>8, <3>2, <4>1, <4>2
    <3>3. CASE i = n + 1
      <4>1. observed'[i] = o /\ o.room = r
        BY <1>3, <3>3 DEF r
      <4> QED BY <1>2, <2>1, <4>1
    <3> QED BY <1>2, <3>1, <3>2, <3>3
  <2>4. ASSUME NEW q \in Rooms, occupancy'[q].known
        PROVE  \E i \in 1..Len(observed') :
                  observed'[i].room = q /\ observed'[i].at = occupancy'[q].at
    <3>1. CASE q = r
      <4>1. n + 1 \in 1..Len(observed')
        BY <1>2, <1>3
      <4> QED BY <1>3, <2>1, <3>1, <4>1 DEF r
    <3>2. CASE q # r
      <4>1. PICK i \in 1..n : observed[i].room = q /\ observed[i].at = occupancy[q].at
        BY <1>9, <2>1, <2>4, <3>2
      <4>2. i \in 1..(n + 1) /\ observed'[i] = observed[i]
        BY <1>2, <1>3
      <4> QED BY <1>3, <2>1, <3>2, <4>1, <4>2
    <3> QED BY <3>1, <3>2
  <2> QED BY <1>5, <1>6, <2>3, <2>4 DEF IInv, OccupancyOK
<1> QED BY <1>10, <1>11

(* A door.state replaces a view that is not newer. *)
LEMMA ReceiveDoorStateInv ==
  ASSUME IInv, NEW s \in States, ReceiveDoorState(s)
  PROVE  IInv'
<1>1. /\ pc = "idle" /\ UNCHANGED <<pc, seen, occupancy, decision, command, minted, decisions,
                                    commands, admitted, booted, observed>>
      /\ heard' = heard \cup {s} /\ applyDoorState(s)
  BY DEF ReceiveDoorState
<1>2. /\ doors \in [Doors -> [known : BOOLEAN, version : Nat, lock : Locks]]
      /\ s.door \in Doors /\ s.version \in Nat /\ s.lock \in Locks
      /\ heard \in SUBSET States
  BY StatesTyped DEF IInv, TypeOK, Doors
<1>3. TypeOK'
  <2>1. doors' \in [Doors -> [known : BOOLEAN, version : Nat, lock : Locks]]
    BY <1>1, <1>2 DEF applyDoorState
  <2>2. budget' \in [BudgetKinds -> Nat]
    BY SpendType DEF IInv, ReceiveDoorState, BudgetKinds
  <2> QED BY <1>1, <2>1, <2>2 DEF IInv, TypeOK
<1>4. PendingOK' /\ CommandsFollowDecisions' /\ DedupeOK' /\ OccupancyOK'
  BY <1>1, ViewOnly DEF IInv, OccupancyOK, OccupancyIsNewest
<1>5. ViewIsNewest'
  <2> SUFFICES ASSUME NEW door \in Doors
               PROVE  LET about == {t \in heard' : t.door = door}
                      IN /\ about = {} => doors'[door] = NoView
                         /\ about # {} => /\ doors'[door].known
                                          /\ \E t \in about : t.version = doors'[door].version
                         /\ \A t \in about : /\ t.version <= doors'[door].version
                                             /\ t.version = doors'[door].version =>
                                                 t.lock = doors'[door].lock
    BY DEF ViewIsNewest
  <2> DEFINE old == {t \in heard : t.door = door}
             about == {t \in heard' : t.door = door}
  <2>1. /\ old = {} => doors[door] = NoView
        /\ old # {} => doors[door].known /\ \E t \in old : t.version = doors[door].version
        /\ \A t \in old : /\ t.version <= doors[door].version
                          /\ t.version = doors[door].version => t.lock = doors[door].lock
    BY DEF IInv, ViewIsNewest
  <2>2. CASE door # s.door
    <3>1. about = old /\ doors'[door] = doors[door]
      BY <1>1, <1>2, <2>2 DEF applyDoorState
    <3> QED BY <2>1, <3>1
  <2>3. CASE door = s.door
    <3>1. about = old \cup {s} /\ about # {}
      BY <1>1, <2>3
    <3>2. \A t \in about : /\ t.version \in Nat
                           /\ t.version = s.version => t.lock = s.lock
      BY <1>2, <2>3, <3>1, StatesTyped, StatesAreFacts
    <3>3. doors[door].version \in Nat
      BY <1>2
    <3>4. CASE doors[door].known /\ s.version < doors[door].version
      <4>1. doors'[door] = doors[door] /\ old # {}
        BY <1>1, <2>1, <2>3, <3>4 DEF applyDoorState, NoView
      <4> QED BY <1>2, <2>1, <3>1, <3>3, <3>4, <4>1
    <3>5. CASE ~(doors[door].known /\ s.version < doors[door].version)
      <4>1. doors'[door].known /\ doors'[door].version = s.version /\ doors'[door].lock = s.lock
        BY <1>1, <1>2, <2>3, <3>5 DEF applyDoorState
      <4>2. \A t \in old : t.version <= s.version
        BY <1>2, <2>1, <3>1, <3>2, <3>3, <3>5
      <4> QED BY <1>2, <3>1, <3>2, <4>1, <4>2
    <3> QED BY <3>4, <3>5
  <2> QED BY <2>2, <2>3
<1> QED BY <1>3, <1>4, <1>5 DEF IInv

(* A restart forgets the view and what was about to be published. *)
LEMMA RestartInv == IInv /\ Restart => IInv'
<1> SUFFICES ASSUME IInv, Restart PROVE IInv'
  OBVIOUS
<1>1. /\ pc' = "idle" /\ decision' \in Decision /\ command' \in Command
      /\ budget' \in [BudgetKinds -> Nat]
  BY ReturnTypes, SpendType DEF IInv, Restart, BudgetKinds
<1>2. New \in SetOver(BadgeIds) /\ Consistent(New, SeenCapacity)
      /\ Newest(New, <<>>, SeenCapacity)
      /\ Since(admitted', booted') = <<>> /\ booted' \in 0..Len(admitted')
  BY CapacityIsPositive, NewConsistent, NewNewest DEF IInv, TypeOK, Restart, Since
<1>3. TypeOK'
  BY <1>1, <1>2, ZeroTypes DEF IInv, TypeOK, Restart, SetOver
<1>4. PendingOK' /\ CommandsFollowDecisions' /\ ViewIsNewest' /\ DedupeOK'
  BY <1>1, <1>2 DEF IInv, Restart, PendingOK, CommandsFollowDecisions, ViewIsNewest, DedupeOK
<1>5. OccupancyOK'
  BY DEF Restart, OccupancyOK, OccupancyIsNewest, NoObservation
<1> QED BY <1>3, <1>4, <1>5 DEF IInv

-----------------------------------------------------------------------------
(* The invariant: the types, what is about to be published and is on the   *)
(* bus, the views of doors and rooms, and the set of handled ids.          *)
THEOREM IInvHolds == Spec => []IInv
<1>1. Init => IInv
  BY InitInv
<1>2. IInv /\ [Next]_vars => IInv'
  <2> SUFFICES ASSUME IInv, [Next]_vars PROVE IInv'
    OBVIOUS
  <2>1. CASE \E b \in Badges : ReceiveBadge(b)
    BY <2>1, ReceiveBadgeInv
  <2>2. CASE \E o \in Observations : ReceiveOccupancy(o)
    BY <2>2, ReceiveOccupancyInv
  <2>3. CASE \E s \in States : ReceiveDoorState(s)
    BY <2>3, ReceiveDoorStateInv
  <2>4. CASE PublishDecision
    BY <2>4, PublishDecisionInv
  <2>5. CASE PublishCommand
    BY <2>5, PublishCommandInv
  <2>6. CASE Restart
    BY <2>6, RestartInv
  <2>7. CASE UNCHANGED vars
    <3>1. TypeOK'
      BY <2>7 DEF vars, world, history, IInv, TypeOK
    <3>2. PendingOK' /\ CommandsFollowDecisions' /\ ViewIsNewest' /\ OccupancyOK' /\ DedupeOK'
      BY <2>7 DEF vars, world, history, IInv, PendingOK, CommandsFollowDecisions,
                  ViewIsNewest, OccupancyOK, OccupancyIsNewest, DedupeOK
    <3> QED BY <3>1, <3>2 DEF IInv
  <2> QED BY <2>1, <2>2, <2>3, <2>4, <2>5, <2>6, <2>7 DEF Next, Silent
<1> QED BY <1>1, <1>2, PTL DEF Spec

(* Every variable of the agent keeps its type. *)
THEOREM TypeCorrect == Spec => []TypeOK
<1>1. IInv => TypeOK
  BY DEF IInv
<1> QED BY <1>1, IInvHolds, PTL

(* No door.command without its access.decision, and no unlock that the     *)
(* policy does not grant to a badge.read.                                  *)
THEOREM CommandsFollowDecisionsHolds == Spec => []CommandsFollowDecisions
<1>1. IInv => CommandsFollowDecisions
  BY DEF IInv
<1> QED BY <1>1, IInvHolds, PTL

(* The view of every door is the newest door.state heard, in whatever      *)
(* order and however often door.states are delivered.                      *)
THEOREM ViewIsNewestHolds == Spec => []ViewIsNewest
<1>1. IInv => ViewIsNewest
  BY DEF IInv
<1> QED BY <1>1, IInvHolds, PTL

(* The view of every room is its newest observation by event time, the     *)
(* first delivered among equals.                                           *)
THEOREM OccupancyIsNewestHolds == Spec => []OccupancyIsNewest
<1>1. IInv => OccupancyIsNewest
  BY DEF IInv, OccupancyOK
<1> QED BY <1>1, IInvHolds, PTL

(* A redelivered badge.read leads to no second decision before             *)
(* SeenCapacity other reads were handled or the process was started again. *)
THEOREM DuplicateNeverDecidesHolds == Spec => DuplicateNeverDecides
<1> DEFINE A == pc = "idle" /\ pc' = "decision" =>
                  ForgottenOrLongAgo(decision'.badge, admitted, booted, SeenCapacity)
<1>1. IInv /\ [Next]_vars => [A]_vars
  <2> SUFFICES ASSUME IInv, [Next]_vars, pc = "idle", pc' = "decision"
               PROVE  ForgottenOrLongAgo(decision'.badge, admitted, booted, SeenCapacity)
    OBVIOUS
  <2>1. PICK b \in Badges : ReceiveBadge(b)
    BY DEF vars, Next, ReceiveOccupancy, ReceiveDoorState, PublishDecision, PublishCommand,
           Restart, Return, Silent
  <2>2. ~Seen(seen, b.id) /\ decision'.badge = b.id
    BY <2>1 DEF ReceiveBadge, Deliberate, Conclude
  <2>3. /\ seen \in SetOver(BadgeIds) /\ admitted \in Seq(BadgeIds) /\ b.id \in BadgeIds
        /\ SeenCapacity \in Nat \ {0}
        /\ Consistent(seen, SeenCapacity) /\ booted \in 0..Len(admitted)
        /\ Newest(seen, Since(admitted, booted), SeenCapacity)
    BY CapacityIsPositive DEF IInv, TypeOK, DedupeOK, SetOver, BadgeIds
  <2> QED BY <2>2, <2>3, UnseenIsForgotten
<1> QED BY <1>1, IInvHolds, PTL DEF Spec, DuplicateNeverDecides
=============================================================================
