--------------------------- MODULE MCDoorActuator ---------------------------
(* Model-checking instance of DoorActuator.                                *)
EXTENDS DoorActuator

Cmd(id, door, desired) == [id |-> id, door |-> door, desired |-> desired]

FaultCommands == {Cmd(1, "door-1", "unlocked"), Cmd(2, "door-1", "locked"),
                  Cmd(3, "door-2", "unlocked")}

(* Two deliveries: a command and another one or a redelivery. *)
FaultBudget == [deliver |-> 2, forget |-> 1, crash |-> 1]

(* Failing calls only: BuildSim keeps the equipment, the process lives. *)
CallBudget == [deliver |-> 2, forget |-> 0, crash |-> 0]
=============================================================================
