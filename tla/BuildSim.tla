------------------------------ MODULE BuildSim ------------------------------
(***************************************************************************)
(* The building simulator as one door's actuator sees it: the external     *)
(* REST service (modelled from what internal/buildsim/equipment.go sends   *)
(* it and makes of its answers) and the outcomes one HTTP call can have    *)
(* for the client.  Only this door's equipment is modelled; writes to      *)
(* other equipment would leave gaps in the versions and nothing else.      *)
(*                                                                         *)
(* Every write is stamped with the next value of BuildSim's version        *)
(* counter, so the log of writes is indexed by version.                    *)
(***************************************************************************)
EXTENDS Naturals, Sequences, FiniteSets

CONSTANT MaxInFlight   \* bound on timed-out requests the server may still execute

ASSUME MaxInFlightIsNatural == MaxInFlight \in Nat

VARIABLES log,       \* log[v] is the equipment as written at version v
          present,   \* BuildSim holds the equipment (it may forget it)
          inflight   \* requests whose caller has given up waiting

bsVars == <<log, present, inflight>>

Locks    == {"locked", "unlocked"}
Contacts == {"closed", "open"}

(* The fields of Equipment that matter here; a version of 0 is the zero    *)
(* value, which the server never assigns.                                  *)
Equipment == [lock : Locks, contact : Contacts, version : Nat]
Request   == [op : {"POST", "PUT"}, eq : Equipment]

BuildSimTypeOK ==
  /\ log \in Seq(Equipment)
  /\ present \in BOOLEAN
  /\ inflight \in SUBSET Request

(* BuildSim starts empty or with the equipment an earlier run left behind. *)
BuildSimInit ==
  /\ \/ log = <<>> /\ present = FALSE
     \/ /\ \E l \in Locks, c \in Contacts :
             log = <<[lock |-> l, contact |-> c, version |-> 1]>>
        /\ present \in BOOLEAN
  /\ inflight = {}

-----------------------------------------------------------------------------
Stamp(eq) == [eq EXCEPT !.version = Len(log) + 1]
Stored    == log[Len(log)]

Write(eq) == log' = Append(log, Stamp(eq)) /\ present' = TRUE

(* A call that ends in a transport error or a time-out: the request never  *)
(* reached BuildSim, or it did and is executed at some later moment.       *)
GiveUp(req) ==
  /\ UNCHANGED <<log, present>>
  /\ \/ UNCHANGED inflight
     \/ Cardinality(inflight) < MaxInFlight /\ inflight' = inflight \cup {req}

(* CreateEquipment: 201 with the stamped object, 409, or no answer. *)
Post(eq, status) ==
  \/ status = "ok"       /\ ~present /\ Write(eq) /\ UNCHANGED inflight
  \/ status = "conflict" /\ present  /\ UNCHANGED bsVars
  \/ status = "error"    /\ GiveUp([op |-> "POST", eq |-> eq])

(* GetEquipment: 200 with the stored object, 404, or no answer. *)
Get(status) ==
  /\ \/ status = "ok" /\ present
     \/ status = "notfound" /\ ~present
     \/ status = "error"
  /\ UNCHANGED bsVars

(* PutEquipment, a whole-object replace: 200 with the stamped object, 404, *)
(* or no answer.                                                           *)
Put(eq, status) ==
  \/ status = "ok"       /\ present  /\ Write(eq) /\ UNCHANGED inflight
  \/ status = "notfound" /\ ~present /\ UNCHANGED bsVars
  \/ status = "error"    /\ GiveUp([op |-> "PUT", eq |-> eq])

(* The server executes a request nobody waits for any more: a PUT replaces *)
(* what is there, a POST creates what is not; otherwise it is refused.     *)
ExecuteLate ==
  \E req \in inflight :
     /\ inflight' = inflight \ {req}
     /\ IF (req.op = "PUT") = present THEN Write(req.eq) ELSE UNCHANGED <<log, present>>

(* BuildSim loses the equipment (the 404 case of actuator.go). *)
Forget == present /\ present' = FALSE /\ UNCHANGED <<log, inflight>>
=============================================================================
