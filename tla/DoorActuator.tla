---------------------------- MODULE DoorActuator ----------------------------
(***************************************************************************)
(* One door actuator process (internal/dooractuator, cmd/door-actuator):   *)
(* it receives door.commands from the bus, drives the lock in BuildSim and *)
(* publishes a door.state after every command.                             *)
(*                                                                         *)
(* The process is a single goroutine; its steps are separated where it     *)
(* waits for BuildSim or the bus, because there BuildSim may forget the    *)
(* equipment, execute an old request, or the process may be killed.        *)
(***************************************************************************)
EXTENDS BuildSim, Dedupe

CONSTANTS Door,          \* the door this actuator serves
          Commands,      \* the door.commands the decision agent may publish
          Retries,       \* further attempts after a failed write
          SeenCapacity,  \* capacity of the set of handled command ids
          Budget         \* bounds: deliveries, forgets and crashes

BudgetKinds == {"deliver", "forget", "crash"}

ASSUME CommandsHaveALock == \A c \in Commands : c.desired \in Locks
ASSUME CommandIdsArePositive == \A c \in Commands : c.id \in Nat \ {0}
ASSUME RetriesIsPositive == Retries \in Nat \ {0}
ASSUME SeenCapacityIsPositive == SeenCapacity \in Nat \ {0}
ASSUME BudgetIsNatural == Budget \in [BudgetKinds -> Nat]

VARIABLES
  pc,        \* where the goroutine stands
  why,       \* what EnsureEquipment was called for
  ready, current, seen,   \* the fields of Actuator
  cmd,       \* the command being handled
  want,      \* applyLock: the object to PUT
  attempt,   \* applyLock: the loop counter
  report,    \* the door.state about to be published
  published, \* every door.state the bus has accepted
  admitted,  \* history: the ids ever taken as new, by whatever process
  booted,    \* history: how many of them before the process started
  budget     \* what is left of Budget

actVars == <<pc, why, ready, current, seen, cmd, want, attempt, report>>
ids     == <<admitted, booted>>
vars    == <<bsVars, actVars, published, ids, budget>>

CommandIds == {c.id : c \in Commands}
DoorState  == [lock : Locks, contact : Contacts, version : Nat, applied : BOOLEAN]

(* Equipment{}, read through currentLock and state: locked and closed.     *)
ZeroEquipment == [lock |-> "locked", contact |-> "closed", version |-> 0]

(* blank: the equipment as the actuator first creates it. *)
Blank_Unlocked == [lock |-> "unlocked", contact |-> "closed", version |-> 0]
Blank == [lock |-> "locked", contact |-> "closed", version |-> 0]

(* The ids of commands are numbers above 0. *)
NoCommand == [id |-> 0, door |-> Door, desired |-> "locked"]
NoReport  == [lock |-> "locked", contact |-> "closed", version |-> 0, applied |-> FALSE]

Spend(kind) == budget[kind] > 0 /\ budget' = [budget EXCEPT ![kind] = @ - 1]

-----------------------------------------------------------------------------
(* The variables that are local to Handle and the calls it makes. *)
Cleared ==
  /\ why' = "warmup" /\ cmd' = NoCommand /\ want' = ZeroEquipment
  /\ attempt' = 0 /\ report' = NoReport

(* A new process: New, then the warm-up call of EnsureReady in main. *)
Boot ==
  /\ pc' = "create" /\ Cleared
  /\ ready' = FALSE /\ current' = ZeroEquipment /\ seen' = New
  /\ booted' = Len(admitted) /\ UNCHANGED admitted

Init ==
  /\ BuildSimInit
  /\ pc = "create" /\ why = "warmup"
  /\ ready = FALSE /\ current = ZeroEquipment /\ seen = New
  /\ cmd = NoCommand /\ want = ZeroEquipment /\ attempt = 0 /\ report = NoReport
  /\ published = {} /\ admitted = <<>> /\ booted = 0 /\ budget = Budget

(* state and stateWithError: the report always describes current. *)
Report(applied, eq) ==
  /\ report' = [lock |-> eq.lock, contact |-> eq.contact, version |-> eq.version,
                applied |-> applied]
  /\ pc' = "emit"

(* The bus delivers a door.command: any of them, at any time, any number   *)
(* of times.                                                               *)
ReceiveCommand(c) ==
  /\ pc = "idle"
  /\ Spend("deliver")
  /\ cmd' = c
  /\ pc' = "dispatch"
  /\ UNCHANGED <<bsVars, why, ready, current, seen, want, attempt, report, published, ids>>

Receive == \E c \in Commands : ReceiveCommand(c)

(* Handle, first part: refuse another door's command, make sure the        *)
(* equipment is registered.                                                *)
Dispatch ==
  /\ pc = "dispatch"
  /\ \/ cmd.door # Door /\ Report(FALSE, current) /\ UNCHANGED why
     \/ cmd.door = Door /\ ~ready /\ pc' = "create" /\ why' = "ready" /\ UNCHANGED report
     \/ cmd.door = Door /\ ready /\ pc' = "dedupe" /\ UNCHANGED <<why, report>>
  /\ UNCHANGED <<bsVars, ready, current, seen, cmd, want, attempt, published, ids, budget>>

(* SeenOrAdd of the command id. *)
Remember_Skipped == UNCHANGED seen
Remember == seen' = Add(seen, cmd.id, SeenCapacity)

(* Handle, second part: a duplicate and a command for the state the door   *)
(* is believed to be in are only reported; anything else starts applyLock. *)
Admit ==
  /\ pc = "dedupe"
  /\ Remember
  /\ \/ Seen(seen, cmd.id) /\ Report(TRUE, current) /\ UNCHANGED <<want, attempt, admitted>>
     \/ /\ ~Seen(seen, cmd.id) /\ current.lock = cmd.desired
        /\ Report(TRUE, current)
        /\ admitted' = Append(admitted, cmd.id)
        /\ UNCHANGED <<want, attempt>>
     \/ /\ ~Seen(seen, cmd.id) /\ current.lock # cmd.desired
        /\ want' = [current EXCEPT !.lock = cmd.desired]
        /\ attempt' = 0 /\ pc' = "put"
        /\ admitted' = Append(admitted, cmd.id)
        /\ UNCHANGED report
  /\ UNCHANGED <<bsVars, why, ready, current, cmd, published, booted, budget>>

(* The end of one turn of the retry loop. *)
NextAttempt_OneTooMany ==
  \/ attempt <= Retries /\ attempt' = attempt + 1 /\ pc' = "put" /\ UNCHANGED report
  \/ attempt > Retries /\ Report(FALSE, current) /\ UNCHANGED attempt
NextAttempt ==
  \/ attempt < Retries /\ attempt' = attempt + 1 /\ pc' = "put" /\ UNCHANGED report
  \/ attempt = Retries /\ Report(FALSE, current) /\ UNCHANGED attempt

-----------------------------------------------------------------------------
(* The recreated equipment with the commanded lock put back on it. *)
Recreated_AsFound(eq) == eq
Recreated(eq) == [eq EXCEPT !.lock = cmd.desired]

(* EnsureEquipment returned eq: EnsureReady adopts it, the 404 branch of   *)
(* applyLock rebuilds the desired object on it.                            *)
Ensured(eq) ==
  \/ /\ why # "recreate"
     /\ current' = eq /\ ready' = TRUE
     /\ pc' = IF why = "warmup" THEN "idle" ELSE "dedupe"
     /\ UNCHANGED <<want, attempt, report>>
  \/ /\ why = "recreate"
     /\ want' = Recreated(eq)
     /\ NextAttempt
     /\ UNCHANGED <<current, ready>>

EnsureFailed_TriesAgain ==
  /\ \/ why = "warmup" /\ pc' = "idle" /\ UNCHANGED <<attempt, report>>
     \/ why # "warmup" /\ pc' = "create" /\ UNCHANGED <<attempt, report>>
  /\ UNCHANGED <<current, ready, want>>
EnsureFailed ==
  /\ \/ why = "warmup" /\ pc' = "idle" /\ UNCHANGED <<attempt, report>>
     \/ why = "ready" /\ Report(FALSE, current) /\ UNCHANGED attempt
     \/ why = "recreate" /\ NextAttempt
  /\ UNCHANGED <<current, ready, want>>

(* EnsureEquipment, the POST: a conflict leads to a GET. *)
CreateEquipment ==
  /\ pc = "create"
  /\ \/ Post(Blank, "ok") /\ Ensured(Stamp(Blank))
     \/ /\ Post(Blank, "conflict")
        /\ pc' = "get" /\ UNCHANGED <<ready, current, want, attempt, report>>
     \/ Post(Blank, "error") /\ EnsureFailed
  /\ UNCHANGED <<why, seen, cmd, published, ids, budget>>

(* EnsureEquipment, the GET after a conflict. *)
FetchExisting_KeepsBlank == Ensured(Blank)
FetchExisting == Ensured(Stored)

GetEquipment ==
  /\ pc = "get"
  /\ \/ Get("ok") /\ FetchExisting
     \/ (Get("notfound") \/ Get("error")) /\ EnsureFailed
  /\ UNCHANGED <<why, seen, cmd, published, ids, budget>>

(* The object Handle keeps after a successful write. *)
Written_AsSent(eq) == eq
Written(eq) == Stamp(eq)

(* One attempt of applyLock: success ends it, 404 recreates the equipment, *)
(* anything else is retried.                                               *)
PutEquipment ==
  /\ pc = "put"
  /\ \/ /\ Put(want, "ok")
        /\ current' = Written(want) /\ Report(TRUE, Written(want))
        /\ UNCHANGED <<why, attempt>>
     \/ /\ Put(want, "notfound")
        /\ pc' = "create" /\ why' = "recreate" /\ UNCHANGED <<current, attempt, report>>
     \/ Put(want, "error") /\ NextAttempt /\ UNCHANGED <<current, why>>
  /\ UNCHANGED <<ready, seen, cmd, want, published, ids, budget>>

(* emit: the bus accepts the door.state, or the publish fails and is only  *)
(* logged.  Handle returns and its locals are gone.                        *)
Emit ==
  /\ pc = "emit"
  /\ published' \in {published \cup {report}, published}
  /\ pc' = "idle" /\ Cleared
  /\ UNCHANGED <<bsVars, ready, current, seen, ids, budget>>

-----------------------------------------------------------------------------
(* The process is killed (or shut down, which abandons a command the same  *)
(* way) and started again.                                                 *)
Restart == Spend("crash") /\ Boot /\ UNCHANGED <<bsVars, published>>

BuildSimForgets ==
  Spend("forget") /\ Forget /\ UNCHANGED <<actVars, published, ids>>

BuildSimExecutes == ExecuteLate /\ UNCHANGED <<actVars, published, ids, budget>>

(* The subscription stays silent once the deliveries are used up. *)
Silent == pc = "idle" /\ budget["deliver"] = 0 /\ UNCHANGED vars

Step == Dispatch \/ Admit \/ CreateEquipment \/ GetEquipment \/ PutEquipment \/ Emit

Next == Receive \/ Step \/ Restart \/ BuildSimForgets \/ BuildSimExecutes \/ Silent

Spec     == Init /\ [][Next]_vars
(* Every call carries a time-out, so the goroutine never stops mid-command. *)
FairSpec == Spec /\ WF_vars(Step)

-----------------------------------------------------------------------------
TypeOK ==
  /\ BuildSimTypeOK
  /\ pc \in {"idle", "dispatch", "dedupe", "create", "get", "put", "emit"}
  /\ why \in {"warmup", "ready", "recreate"}
  /\ ready \in BOOLEAN
  /\ current \in Equipment /\ want \in Equipment
  /\ seen \in [order : Seq(CommandIds), members : SUBSET CommandIds]
  /\ cmd \in Commands \cup {NoCommand}
  /\ attempt \in 0..Retries
  /\ report \in DoorState /\ published \in SUBSET DoorState
  /\ admitted \in Seq(CommandIds) /\ booted \in 0..Len(admitted)
  /\ budget \in [BudgetKinds -> Nat]

(* A door.state never invents a history: the lock and contact it reports   *)
(* are those BuildSim stored under the version it quotes, whatever failed, *)
(* was retried or was recreated on the way.  The agent's rule "higher      *)
(* version wins" (world.go) is meaningful only because of this.            *)
ReportsAreFacts ==
  \A s \in published :
     \/ /\ s.version \in 1..Len(log)
        /\ log[s.version] = [lock |-> s.lock, contact |-> s.contact, version |-> s.version]
     \/ s.version = 0 /\ s.lock = "locked" /\ ~s.applied

(* A door.state published later never carries an older version than one    *)
(* already on the bus, across restarts and recreation.  Only an actuator   *)
(* that has not reached BuildSim yet quotes 0, the version of no write.    *)
VersionsNeverGoBack ==
  [][published' # published =>
       \A s \in published : report.version >= s.version \/ (report.version = 0 /\ ~ready)]_vars

(* BuildSim's lock is set to unlocked only because an unlock command for   *)
(* this door was delivered: a request to unlock is sent only while one is  *)
(* being handled, and nothing but such a request, answered or abandoned,   *)
(* writes unlocked.  Recreating forgotten equipment, redeliveries and      *)
(* commands for other doors never open the door.                           *)
UnlocksOnlyOnCommand ==
  [][LET asked == cmd.door = Door /\ cmd.desired = "unlocked"
     IN /\ Len(log') > Len(log) /\ log'[Len(log')].lock = "unlocked" =>
             asked \/ \E req \in inflight \ inflight' : req.eq.lock = "unlocked"
        /\ \A req \in inflight' \ inflight : req.eq.lock = "unlocked" => asked]_vars

(* Redelivering a command never starts a second write (ADR 0003: "assert   *)
(* single decision / single BuildSim write"), over all the commands ever   *)
(* taken as new, but for two exceptions, neither of which the ADR names:   *)
(* the id was pushed out of the set by SeenCapacity newer ones, or it was  *)
(* last taken as new by an earlier process, whose set is gone with it.  So *)
(* a command redelivered after a restart may be carried out again.         *)
DuplicateNeverWrites ==
  [][pc = "dedupe" /\ pc' = "put" =>
       ForgottenOrLongAgo(cmd.id, admitted, booted, SeenCapacity)]_vars

(* ADR 0003: "commanding locked when already locked is a no-op", which     *)
(* dooractuator/doc.go decides on "the door equipment's full state in      *)
(* memory" of the only writer.  So a new command is answered without a     *)
(* write only if BuildSim's lock is as commanded.                          *)
NoOpOnlyWhenInState ==
  [][pc = "dedupe" /\ pc' = "emit" /\ ~Seen(seen, cmd.id) /\ present =>
       Stored.lock = cmd.desired]_vars

(* events.go: "Applied=false with Error set is how an actuator failure is  *)
(* surfaced".  So applied is claimed for a command only if the door is, or *)
(* once was, as that command asked.                                        *)
AppliedNeedsAnEffect ==
  pc = "emit" /\ report.applied =>
     \/ report.lock = cmd.desired
     \/ \E v \in 1..Len(log) : log[v].lock = cmd.desired

(* What the door itself sees of the actuator.  A position is asked for     *)
(* while a command for it is being handled, and as long as a PUT nobody    *)
(* waits for is on its way.                                                *)
AskedFor ==
  (IF pc # "idle" /\ cmd.id # 0 /\ cmd.door = Door THEN {cmd.desired} ELSE {})
  \cup {req.eq.lock : req \in {r \in inflight : r.op = "PUT"}}

Lock == INSTANCE DoorLock WITH
          history   <- [v \in 1..Len(log) |-> log[v].lock],
          fitted    <- present,
          asked     <- AskedFor,
          announced <- {[n |-> s.version, position |-> s.lock] :
                          s \in {r \in published : r.version # 0}}

(* The actuator is a DoorLock: it turns the lock both ways only for a      *)
(* command it is handling or has just abandoned, creates the equipment     *)
(* locked, never relocks by itself, and announces only what was.           *)
ImplementsDoorLock == Lock!Spec

(* Whatever BuildSim does, the goroutine comes back to its subscription:   *)
(* the retry loop ends even if every attempt answers 404.                  *)
HandlingEnds == pc # "idle" ~> pc = "idle"
=============================================================================
