---------------------------- MODULE MCBusClient -----------------------------
(* Model-checking instance of BusClient.                                   *)
EXTENDS BusClient

(* The second event makes a record that is too long. *)
SecondTooLong == [e \in Events |-> IF e = 2 THEN 3 ELSE 1]

Plain ==
  [buffer |-> Unset, history |-> Unset, heartbeat |-> Unset, dropRate |-> Unset,
   duplicate |-> Unset, delayMs |-> Unset, reorder |-> FALSE, seed |-> Unset]

(* Unset, zero, negative, malformed and too large values; NaN; delays that *)
(* wrap around to a negative and to a positive one; a heartbeat as long as *)
(* the client's patience.                                                  *)
SomeBusEnvs ==
  {Plain,
   [Plain EXCEPT !.buffer = Num(-1), !.history = Num(0), !.heartbeat = Num(0)],
   [Plain EXCEPT !.heartbeat = Malformed], [Plain EXCEPT !.seed = Malformed],
   [Plain EXCEPT !.heartbeat = Num(2), !.dropRate = NaN],
   [Plain EXCEPT !.dropRate = Num(150)], [Plain EXCEPT !.duplicate = Num(-1)],
   [Plain EXCEPT !.delayMs = Num(13)],
   [Plain EXCEPT !.delayMs = Num(26), !.dropRate = Num(100), !.reorder = TRUE]}

Usual ==
  [busUrl |-> "unset", busTimeout |-> Unset, idleTimeout |-> Unset, doorId |-> "",
   buildSimUrl |-> "good", buildSimTimeout |-> Unset]

SomeServiceEnvs ==
  {Usual,
   [Usual EXCEPT !.idleTimeout = Num(0)], [Usual EXCEPT !.idleTimeout = Malformed],
   [Usual EXCEPT !.busUrl = "bad"], [Usual EXCEPT !.buildSimUrl = "unset"],
   [Usual EXCEPT !.buildSimTimeout = Num(0)], [Usual EXCEPT !.doorId = "door-9"]}
=============================================================================
