------------------------------ MODULE DoorLock ------------------------------
(***************************************************************************)
(* What the system promises of one door, whatever happens to processes,    *)
(* calls and messages: the lock takes no position nobody asked for, and    *)
(* what is announced of it is true of the moment it is announced for.      *)
(*                                                                         *)
(* Nothing here turns the lock by itself.  In particular a door that was   *)
(* opened stays open until somebody asks for it to be locked, or until it  *)
(* is lost and fitted again: the time to live of a command (ttl_seconds)   *)
(* moves nothing.                                                          *)
(***************************************************************************)
EXTENDS Naturals, Sequences

VARIABLES
  history,    \* the positions of the lock, oldest first
  fitted,     \* the door is there
  asked,      \* the positions the lock may be turned to
  announced   \* what was said: the number of a position, and the position

lockVars == <<history, fitted, asked, announced>>

Positions == {"locked", "unlocked"}

Init ==
  /\ \/ history = <<>> /\ fitted = FALSE
     \/ \E p \in Positions : history = <<p>> /\ fitted \in BOOLEAN
  /\ asked = {} /\ announced = {}

(* Requests come and are settled or abandoned. *)
Ask ==
  /\ asked' \in SUBSET Positions
  /\ UNCHANGED <<history, fitted, announced>>

(* An answered request is settled by the very turn. *)
Turn ==
  /\ fitted
  /\ \E p \in asked : history' = Append(history, p)
  /\ asked' \in SUBSET asked
  /\ UNCHANGED <<fitted, announced>>

(* A door is fitted locked; the call that fits it may have been abandoned. *)
Fit ==
  /\ ~fitted /\ fitted' = TRUE
  /\ history' = Append(history, "locked")
  /\ UNCHANGED <<asked, announced>>

Lose == fitted /\ fitted' = FALSE /\ UNCHANGED <<history, asked, announced>>

Announce ==
  /\ \E n \in 1..Len(history) :
       announced' = announced \cup {[n |-> n, position |-> history[n]]}
  /\ asked' \in SUBSET asked
  /\ UNCHANGED <<history, fitted>>

Next == Ask \/ Turn \/ Fit \/ Lose \/ Announce

Spec == Init /\ [][Next]_lockVars
=============================================================================
