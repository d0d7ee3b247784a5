--------------------------- MODULE DecisionAgent ----------------------------
(***************************************************************************)
(* The decision agent (internal/decisionagent, cmd/decision-agent): one    *)
(* goroutine that folds occupancy.observed and door.state events into its  *)
(* view of the building and answers every badge.read with an               *)
(* access.decision and, if the door has to change, a door.command.         *)
(*                                                                         *)
(* Handling a badge is split where the goroutine waits for the bus to take *)
(* an event: there the process may be killed and the publish may fail.     *)
(* Events that do not decode, are of another schema version or of another  *)
(* type are skipped without an effect and have no action here, except a    *)
(* badge.read, whose id is remembered before it is decoded.                *)
(***************************************************************************)
EXTENDS Policy, Dedupe

CONSTANTS Config,        \* the policy the agent was built with
          Badges,        \* the badge.read events the bus may deliver
          Observations,  \* the occupancy.observed events
          States,        \* the door.state events
          SeenCapacity,  \* capacity of the set of handled badge.read ids
          Budget         \* bounds: deliveries and crashes

BudgetKinds == {"deliver", "crash"}
Locks       == {"locked", "unlocked"}

BadgeIds == {b.id : b \in Badges}
Doors    == {b.door : b \in Badges} \cup {s.door : s \in States}
Rooms    == {b.room : b \in Badges} \cup {o.room : o \in Observations}

ASSUME ConfigIsValid == ValidConfig(Config)   \* or New refuses to build the agent
ASSUME BadgesIdentified == \A b, c \in Badges : b.id = c.id => b = c
ASSUME BadgesTyped == \A b \in Badges : b.decodes \in BOOLEAN /\ b.at \in Int
ASSUME ObservationsTyped == \A o \in Observations : o.at \in Nat /\ o.present \in BOOLEAN
ASSUME StatesTyped == \A s \in States : s.version \in Nat /\ s.lock \in Locks
(* One version, one lock: see ReportsAreFacts of DoorActuator. *)
ASSUME StatesAreFacts ==
  \A s, t \in States : s.door = t.door /\ s.version = t.version => s.lock = t.lock
ASSUME CapacityIsPositive == SeenCapacity \in Nat \ {0}
ASSUME BudgetIsNatural == Budget \in [BudgetKinds -> Nat]

VARIABLES
  pc,                \* waiting for an event, or publishing
  seen,              \* handled badge.read ids
  occupancy, doors,  \* world: the latest observation of each room and door
  decision, command, \* handleBadge: what is about to be published
  minted,            \* NewID: the last decision and command id given out
  decisions, commands,  \* what the bus has accepted
  admitted, booted,  \* history: the badge.read ids ever taken as new, by
                     \* whatever process, and how many before this one started
  observed, heard,   \* history since the start: what was delivered of the
                     \* observations and door.states
  budget

world   == <<occupancy, doors>>
history == <<admitted, booted, observed, heard>>
vars    == <<pc, seen, world, decision, command, minted, decisions, commands, history, budget>>

(* A missing map entry. *)
NoObservation == [known |-> FALSE, at |-> 0, present |-> FALSE]
NoView        == [known |-> FALSE, version |-> 0, lock |-> "locked"]

NoDecision == [id |-> 0, badge |-> "", door |-> "", action |-> "none", evidence |-> NoObservation]
NoCommand  == [id |-> 0, door |-> "", desired |-> "locked"]

Spend(kind) == budget[kind] > 0 /\ budget' = [budget EXCEPT ![kind] = @ - 1]

-----------------------------------------------------------------------------
(* A new process knows nothing. *)
Init ==
  /\ pc = "idle" /\ seen = New
  /\ occupancy = [r \in Rooms |-> NoObservation] /\ doors = [d \in Doors |-> NoView]
  /\ decision = NoDecision /\ command = NoCommand
  /\ minted = 0 /\ decisions = {} /\ commands = {}
  /\ admitted = <<>> /\ booted = 0 /\ observed = <<>> /\ heard = {}
  /\ budget = Budget

(* handleBadge has returned. *)
Return == pc' = "idle" /\ decision' = NoDecision /\ command' = NoCommand

(* doorLock: a door nobody has reported on counts as locked. *)
doorLock(door) == IF doors[door].known THEN doors[door].lock ELSE "locked"

(* The decision and the command for a badge.read; one number stands for    *)
(* the two ids NewID mints.                                                *)
Conclude(b, action, lock) ==
  /\ pc' = "decision"
  /\ minted' = minted + 1
  /\ decision' = [id |-> minted + 1, badge |-> b.id, door |-> b.door,
                  action |-> action, evidence |-> occupancy[b.room]]
  /\ command' = [id |-> minted + 1, door |-> b.door, desired |-> lock]

Deliberate_LockOnlyOnAllow(b) ==
  LET outcome == Decide(Config, b)
  IN Conclude(b, outcome.action, IF outcome.action = "allow" THEN "unlocked" ELSE "")
Deliberate(b) ==
  LET outcome == Decide(Config, b) IN Conclude(b, outcome.action, outcome.lock)

Remember_Skipped(b) == UNCHANGED seen
Remember(b) == seen' = Add(seen, b.id, SeenCapacity)

(* handleBadge up to the first publish: a duplicate is ignored; an event   *)
(* that does not decode or is incomplete is an error, its id used up.      *)
ReceiveBadge(b) ==
  /\ pc = "idle"
  /\ Spend("deliver")
  /\ Remember(b)
  /\ \/ Seen(seen, b.id) /\ UNCHANGED <<pc, decision, command, minted, admitted>>
     \/ /\ ~Seen(seen, b.id) /\ ~(b.decodes /\ CompleteRequest(b))
        /\ admitted' = Append(admitted, b.id)
        /\ UNCHANGED <<pc, decision, command, minted>>
     \/ /\ ~Seen(seen, b.id) /\ b.decodes /\ CompleteRequest(b)
        /\ admitted' = Append(admitted, b.id)
        /\ Deliberate(b)
  /\ UNCHANGED <<world, decisions, commands, booted, observed, heard>>

(* A publish that returned an error ends the handling; the bus may have    *)
(* taken the event all the same.                                           *)
DecisionRefused_Continues == pc' = "command" /\ UNCHANGED <<decision, command>>
DecisionRefused == Return

(* handleBadge, the access.decision and the question whether the door has  *)
(* to change, answered from the view.                                      *)
PublishDecision ==
  /\ pc = "decision"
  /\ \/ /\ decisions' = decisions \cup {decision}
        /\ \/ command.desired = doorLock(command.door) /\ Return
           \/ /\ command.desired # doorLock(command.door)
              /\ pc' = "command" /\ UNCHANGED <<decision, command>>
     \/ /\ decisions' \in {decisions, decisions \cup {decision}}
        /\ DecisionRefused
  /\ UNCHANGED <<seen, world, minted, commands, history, budget>>

(* handleBadge, the door.command. *)
PublishCommand ==
  /\ pc = "command"
  /\ commands' \in {commands, commands \cup {command}}
  /\ Return
  /\ UNCHANGED <<seen, world, minted, decisions, history, budget>>

-----------------------------------------------------------------------------
(* applyOccupancy: only a strictly newer observation replaces another. *)
applyOccupancy_NotOlder(o) ==
  occupancy' = IF occupancy[o.room].known /\ o.at < occupancy[o.room].at THEN occupancy
               ELSE [occupancy EXCEPT ![o.room] =
                       [known |-> TRUE, at |-> o.at, present |-> o.present]]
applyOccupancy(o) ==
  occupancy' = IF occupancy[o.room].known /\ o.at <= occupancy[o.room].at THEN occupancy
               ELSE [occupancy EXCEPT ![o.room] =
                       [known |-> TRUE, at |-> o.at, present |-> o.present]]

ReceiveOccupancy(o) ==
  /\ pc = "idle"
  /\ Spend("deliver")
  /\ applyOccupancy(o)
  /\ observed' = Append(observed, o)
  /\ UNCHANGED <<pc, seen, doors, decision, command, minted, decisions, commands,
                 admitted, booted, heard>>

(* applyDoorState: an older version is rejected. *)
applyDoorState_Latest(s) ==
  doors' = [doors EXCEPT ![s.door] = [known |-> TRUE, version |-> s.version, lock |-> s.lock]]
applyDoorState(s) ==
  doors' = IF doors[s.door].known /\ s.version < doors[s.door].version THEN doors
           ELSE [doors EXCEPT ![s.door] =
                   [known |-> TRUE, version |-> s.version, lock |-> s.lock]]

ReceiveDoorState(s) ==
  /\ pc = "idle"
  /\ Spend("deliver")
  /\ applyDoorState(s)
  /\ heard' = heard \cup {s}
  /\ UNCHANGED <<pc, seen, occupancy, decision, command, minted, decisions, commands,
                 admitted, booted, observed>>

(* The process is killed, or stopped in the middle of a publish, and       *)
(* started again; what the bus has taken stays.                            *)
Restart ==
  /\ Spend("crash")
  /\ Return /\ seen' = New
  /\ occupancy' = [r \in Rooms |-> NoObservation] /\ doors' = [d \in Doors |-> NoView]
  /\ booted' = Len(admitted) /\ observed' = <<>> /\ heard' = {}
  /\ UNCHANGED <<admitted, minted, decisions, commands>>

Silent == pc = "idle" /\ budget["deliver"] = 0 /\ UNCHANGED vars

Next ==
  \/ \E b \in Badges : ReceiveBadge(b)
  \/ \E o \in Observations : ReceiveOccupancy(o)
  \/ \E s \in States : ReceiveDoorState(s)
  \/ PublishDecision \/ PublishCommand
  \/ Restart \/ Silent

Spec == Init /\ [][Next]_vars

-----------------------------------------------------------------------------
Actions == {"none", "allow", "restrict", "alert"}
Evidence == [known : BOOLEAN, at : Nat, present : BOOLEAN]
Decision ==
  [id : Nat, badge : BadgeIds \cup {""}, door : Doors \cup {""}, action : Actions,
   evidence : Evidence]
Command == [id : Nat, door : Doors \cup {""}, desired : Locks]

TypeOK ==
  /\ pc \in {"idle", "decision", "command"}
  /\ seen \in [order : Seq(BadgeIds), members : SUBSET BadgeIds]
  /\ occupancy \in [Rooms -> Evidence]
  /\ doors \in [Doors -> [known : BOOLEAN, version : Nat, lock : Locks]]
  /\ decision \in Decision /\ command \in Command
  /\ minted \in Nat
  /\ decisions \in SUBSET Decision /\ commands \in SUBSET Command
  /\ admitted \in Seq(BadgeIds) /\ booted \in 0..Len(admitted)
  /\ observed \in Seq(Observations) /\ heard \in SUBSET States
  /\ budget \in [BudgetKinds -> Nat]

(* The read asks for a door the policy opens to its card at its moment. *)
Earned(b) ==
  /\ b.decodes /\ CompleteRequest(b)
  /\ CardPermitted(Config, b.card, b.room) /\ WithinWindow(Config, b.room, b.at)

(* Every door.command on the bus has its access.decision on the bus, for   *)
(* the same door, taken on a real badge.read; and it says unlock exactly   *)
(* when that read earned it.  A failed publish or a crash between the two  *)
(* events may lose the command but never its justification.                *)
CommandsFollowDecisions ==
  \A c \in commands : \E d \in decisions, b \in Badges :
     /\ d.id = c.id /\ d.badge = b.id /\ d.door = c.door /\ b.door = c.door
     /\ c.desired = "unlocked" <=> Earned(b)
     /\ d.action = "allow" <=> Earned(b)

(* Redelivering a badge.read never leads to a second decision (ADR 0003:   *)
(* "a duplicate badge.read yields no second decision"), over all the reads *)
(* ever taken as new, but for two exceptions, neither of which the ADR     *)
(* names: the id was pushed out of the set by SeenCapacity other reads, or *)
(* it was last taken as new by an earlier process, whose set is gone with  *)
(* it.  So a badge.read redelivered after a restart is decided again.      *)
DuplicateNeverDecides ==
  [][pc = "idle" /\ pc' = "decision" =>
       ForgottenOrLongAgo(decision'.badge, admitted, booted, SeenCapacity)]_vars

(* Whatever order door.states arrive in and however often, the view of a   *)
(* door is the one with the highest BuildSim version heard since the start,*)
(* so that any order and number of deliveries leads to the same view.      *)
ViewIsNewest ==
  \A door \in Doors :
     LET about == {s \in heard : s.door = door}
     IN /\ about = {} => doors[door] = NoView
        /\ about # {} => /\ doors[door].known
                         /\ \E s \in about : s.version = doors[door].version
        /\ \A s \in about : /\ s.version <= doors[door].version
                            /\ s.version = doors[door].version => s.lock = doors[door].lock

(* The observation of a room is the first delivered of the newest by event *)
(* time, in whatever order the sensors' events arrive.                     *)
OccupancyIsNewest ==
  \A i \in 1..Len(observed) :
     LET view == occupancy[observed[i].room]
     IN /\ view.known /\ observed[i].at <= view.at
        /\ (observed[i].at = view.at
            /\ \A j \in 1..(i - 1) :
                  observed[j].room # observed[i].room \/ observed[j].at # observed[i].at)
             => observed[i].present = view.present
=============================================================================
