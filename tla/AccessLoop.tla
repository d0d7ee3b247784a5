----------------------------- MODULE AccessLoop -----------------------------
(***************************************************************************)
(* The loop from a badge.read to the lock in BuildSim and back: the        *)
(* decision agent and the actuator of one door, joined by the bus.         *)
(*                                                                         *)
(* The bus is what eventbus/doc.go promises of it: an event it has         *)
(* accepted may be delivered at any later time, repeatedly, in any order,  *)
(* or be dropped by fault injection, which is never to be delivered.       *)
(***************************************************************************)
EXTENDS DoorActuator

CONSTANTS KnownRooms, Config, Badges, AgentBudget   \* see DecisionAgent

VARIABLES
  agentPc, agentSeen, occupancy, doors, decision, command, minted, decisions, commands,
  agentAdmitted, agentBooted, observed, heard, agentBudget

agentVars == <<agentPc, agentSeen, occupancy, doors, decision, command, minted, decisions,
               commands, agentAdmitted, agentBooted, observed, heard, agentBudget>>
loopVars  == <<agentVars, vars>>

(* The commands the agent can come to issue, one per badge.read handled. *)
MaxCommands == AgentBudget["deliver"]
AllCommands == [id : 1..MaxCommands, door : {b.door : b \in Badges}, desired : Locks]

ASSUME AgentBudgetIsNatural == AgentBudget \in [{"deliver", "crash"} -> Nat]
ASSUME CommandsAreTheAgents == AllCommands \subseteq Commands
ASSUME DoorHasAReader == \E b \in Badges : b.door = Door

(* The door.states of the loop come from the actuator, not from a constant.*)
Agent == INSTANCE DecisionAgent WITH
           pc <- agentPc, seen <- agentSeen, admitted <- agentAdmitted,
           booted <- agentBooted, budget <- agentBudget, Budget <- AgentBudget,
           Observations <- {}, States <- {}

LoopInit == Agent!Init /\ Init

-----------------------------------------------------------------------------
(* model.DoorState as the agent decodes it. *)
Decoded(s) == [door |-> Door, version |-> s.version, lock |-> s.lock]

DeliverState == \E s \in published : Agent!ReceiveDoorState(Decoded(s))

AgentStep ==
  /\ \/ \E b \in Badges : Agent!ReceiveBadge(b)
     \/ DeliverState
     \/ Agent!PublishDecision \/ Agent!PublishCommand
     \/ Agent!Restart
  /\ UNCHANGED vars

DeliverCommand == \E c \in commands : ReceiveCommand(c)

DoorStep ==
  /\ DeliverCommand \/ Step \/ Restart \/ BuildSimForgets \/ BuildSimExecutes
  /\ UNCHANGED agentVars

Quiet == agentPc = "idle" /\ pc = "idle" /\ UNCHANGED loopVars

LoopNext == AgentStep \/ DoorStep \/ Quiet

LoopSpec == LoopInit /\ [][LoopNext]_loopVars

-----------------------------------------------------------------------------
(* d lets the bearer of a card in through this door who has earned it. *)
Admits(d) ==
  /\ d.action = "allow" /\ d.door = Door
  /\ \E b \in Badges : d.badge = b.id /\ b.door = Door /\ Agent!Earned(b)

(* The lock is opened only for somebody the policy has let in: every write *)
(* of an unlocked lock to BuildSim is preceded by an access.decision       *)
(* "allow" on the bus for a badge.read at this door that earned it, and a  *)
(* write that is answered by the very decision its command came from;      *)
(* through lost and late calls, redeliveries, restarts of either service   *)
(* and equipment that BuildSim forgot.                                     *)
DoorOpensOnlyOnAllow ==
  [][Len(log') > Len(log) /\ log'[Len(log')].lock = "unlocked" =>
       \E d \in decisions : Admits(d) /\ (UNCHANGED inflight => d.id = cmd.id)]_loopVars

(* The whole loop is a DoorLock as well, one for which a position counts   *)
(* as asked for only while it is being carried out and only if it was      *)
(* decided: the command in hand has its own access.decision on the bus,    *)
(* which wants the position it is about to set; and a PUT nobody waits for *)
(* any more sets one that some published decision for this door wanted.    *)
(* So an abandoned PUT, a redelivered command or one that was overtaken    *)
(* may still move the lock, but nothing undecided does, and when neither   *)
(* is there, nothing at all: an open door stays open, whatever time to     *)
(* live its command had.                                                   *)
WantedBy(d) == IF d.action = "allow" THEN "unlocked" ELSE "locked"
ForThisDoor == {d \in decisions : d.door = Door}

Handling == pc # "idle" /\ cmd.id # 0 /\ cmd.door = Door
DecidedNow == {WantedBy(d) : d \in {e \in ForThisDoor : e.id = cmd.id}}
Wanted     == {WantedBy(d) : d \in ForThisDoor}

Sanctioned ==
  (IF Handling THEN {cmd.desired} \cap DecidedNow ELSE {})
  \cup (Wanted \cap {req.eq.lock : req \in {r \in inflight : r.op = "PUT"}})

LoopLock == INSTANCE DoorLock WITH
              history   <- [v \in 1..Len(log) |-> log[v].lock],
              fitted    <- present,
              asked     <- Sanctioned,
              announced <- {[n |-> s.version, position |-> s.lock] :
                              s \in {r \in published : r.version # 0}}

LoopIsADoorLock == LoopLock!Spec

(* The agent's view of the door may be old but never wrong: it is the lock *)
(* BuildSim had at the version the view quotes.                            *)
AgentViewIsPast ==
  LET view == doors[Door]
  IN view.version # 0 => view.version <= Len(log) /\ log[view.version].lock = view.lock

(* eventbus/doc.go: every consumer "must order events by their occurred_at *)
(* / version fields, never by arrival".  So a command does not undo one    *)
(* that was issued after it and is handled already.                        *)
NewestCommandWins ==
  [][pc = "dedupe" /\ pc' = "put" =>
       \A c \in commands :
          c.id > cmd.id /\ (\E i \in 1..Len(admitted) : admitted[i] = c.id) =>
            c.desired = cmd.desired]_loopVars
=============================================================================
