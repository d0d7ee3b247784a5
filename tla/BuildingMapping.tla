-------------------------- MODULE BuildingMapping ---------------------------
(***************************************************************************)
(* The static tables from logical ids to the building (model/mapping.go)   *)
(* and the check every service makes of them before it starts.             *)
(***************************************************************************)

Rooms == [r \in {"room-office", "room-lab"} |->
            [level |-> "level0", name |-> IF r = "room-office" THEN "A1006" ELSE "A1007"]]

Doors == [d \in {"door-1"} |->
            [doorId |-> d, readerId |-> "reader-1", controlsRoom |-> "room-lab",
             equipment |-> [level |-> "level0", name |-> "A1007"]]]

Placed(room) == room.level # "" /\ room.name # ""

LookupDoor(id) == id \in DOMAIN Doors

MappingValid ==
  /\ \A r \in DOMAIN Rooms : Placed(Rooms[r])
  /\ \A d \in DOMAIN Doors :
       /\ Doors[d].doorId = d /\ Doors[d].readerId # ""
       /\ Doors[d].controlsRoom \in DOMAIN Rooms
       /\ Placed(Doors[d].equipment)
=============================================================================
