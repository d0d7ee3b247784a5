------------------------------- MODULE Policy -------------------------------
(***************************************************************************)
(* The deterministic baseline policy (internal/policy/baseline.go) and the *)
(* configuration it reads (internal/model/policy_config.go), as operators. *)
(*                                                                         *)
(* A configuration is [permissions, windows, restricted], three partial    *)
(* functions, as the Go maps are; a window is [start, end].  An endpoint   *)
(* "HH:MM" is the pair of numbers Sscanf reads from it, or Unreadable.  A  *)
(* time of day is its minute; an empty string and Zero are Go's zero       *)
(* values.                                                                 *)
(***************************************************************************)
EXTENDS Integers

CONSTANT KnownRooms   \* the keys of model.Rooms

Unreadable == <<>>
Zero       == -1      \* time.Time{}
Minutes    == 0..1439

Bad == -1             \* parseHM returns an error

parseHM(s) ==
  IF s # Unreadable /\ s[1] \in 0..24 /\ s[2] \in 0..59 /\ ~(s[1] = 24 /\ s[2] # 0)
  THEN s[1] * 60 + s[2] ELSE Bad

AllDay == [start |-> <<0, 0>>, end |-> <<24, 0>>]

Valid_AcceptsWrapping(w) == parseHM(w.start) # Bad /\ parseHM(w.end) # Bad

Valid(w) ==
  /\ parseHM(w.start) # Bad /\ parseHM(w.end) # Bad
  /\ parseHM(w.start) <= parseHM(w.end)

(* A malformed window contains nothing. *)
Contains_IgnoresBadStart(w, t) ==
  parseHM(w.end) # Bad /\ parseHM(w.start) <= t /\ t < parseHM(w.end)
Contains(w, t) ==
  /\ parseHM(w.start) # Bad /\ parseHM(w.end) # Bad
  /\ parseHM(w.start) <= t /\ t < parseHM(w.end)

CardPermitted(cfg, card, room) ==
  card \in DOMAIN cfg.permissions /\ room \in cfg.permissions[card]

WindowFor(cfg, room) ==
  IF room \in DOMAIN cfg.windows THEN cfg.windows[room] ELSE AllDay

WithinWindow(cfg, room, t) == Contains(WindowFor(cfg, room), t)

RoomRestricted(cfg, room) ==
  room \in DOMAIN cfg.restricted /\ cfg.restricted[room]

(* PolicyConfig.Validate: New refuses to start on anything else. *)
ValidConfig(cfg) ==
  /\ DOMAIN cfg.windows \subseteq KnownRooms
  /\ \A room \in DOMAIN cfg.windows : Valid(cfg.windows[room])
  /\ DOMAIN cfg.restricted \subseteq KnownRooms
  /\ \A card \in DOMAIN cfg.permissions : cfg.permissions[card] \subseteq KnownRooms

(* Request.Validate. *)
CompleteRequest(req) ==
  req.card # "" /\ req.door # "" /\ req.room # "" /\ req.at # Zero

-----------------------------------------------------------------------------
(* Decide: the access action with the rule that produced it, and what the  *)
(* door command asks for.                                                  *)
Outcome(action, rule, lock, ttl) ==
  [action |-> action, rule |-> rule, lock |-> lock, ttl |-> ttl]

Decide_RestrictedFirst(cfg, req) ==
  LET permitted  == CardPermitted(cfg, req.card, req.room)
      inWindow   == WithinWindow(cfg, req.room, req.at)
      restricted == RoomRestricted(cfg, req.room)
  IN CASE restricted                  -> Outcome("alert", "restricted-room-violation", "locked", 0)
       [] ~restricted /\ permitted /\ inWindow
                                      -> Outcome("allow", "permitted-in-window", "unlocked", 5)
       [] ~restricted /\ ~(permitted /\ inWindow)
                                      -> Outcome("restrict", "not-permitted", "locked", 0)

Decide(cfg, req) ==
  LET permitted  == CardPermitted(cfg, req.card, req.room)
      inWindow   == WithinWindow(cfg, req.room, req.at)
      restricted == RoomRestricted(cfg, req.room)
  IN CASE permitted /\ inWindow      -> Outcome("allow", "permitted-in-window", "unlocked", 5)
       [] permitted /\ ~inWindow     -> Outcome("restrict", "permitted-outside-window", "locked", 0)
       [] ~permitted /\ restricted   -> Outcome("alert", "restricted-room-violation", "locked", 0)
       [] ~permitted /\ ~restricted  -> Outcome("restrict", "not-permitted", "locked", 0)

-----------------------------------------------------------------------------
(* The phase-1 policy: the staff card may enter the office at any time;    *)
(* the lab is restricted, open 07:00-19:00, and nobody may enter it.       *)
MinimalLoopPolicy ==
  [permissions |-> [card \in {"CARD-001"} |-> {"room-office"}],
   windows     |-> [room \in {"room-lab"} |-> [start |-> <<7, 0>>, end |-> <<19, 0>>]],
   restricted  |-> [room \in {"room-lab"} |-> TRUE]]
=============================================================================
