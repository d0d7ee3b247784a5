-------------------------- MODULE PolicyDecisions ---------------------------
(***************************************************************************)
(* The policy under every configuration and request of a bounded set.  A   *)
(* state is a configuration, whether the agent would start on it (New      *)
(* calls Validate), and the last request with the outcome Decide gave it.  *)
(***************************************************************************)
EXTENDS Policy, FiniteSets

CONSTANTS Configs,    \* configurations an operator may hand to New
          Requests    \* requests a badge read may lead to

(* A request carries a time of day, or none. *)
ASSUME RequestsAreTyped == \A req \in Requests : req.at \in Minutes \cup {Zero}

VARIABLES cfg, accepted, request, outcome

vars == <<cfg, accepted, request, outcome>>

NoRequest == [card |-> "", door |-> "", room |-> "", at |-> Zero]
NoOutcome == Outcome("none", "none", "locked", 0)

Init ==
  /\ cfg \in Configs
  /\ accepted = ValidConfig(cfg)
  /\ request = NoRequest /\ outcome = NoOutcome

(* Decide does not ask whether the configuration was validated. *)
Ask(req) ==
  /\ CompleteRequest(req)
  /\ request' = req /\ outcome' = Decide(cfg, req)
  /\ UNCHANGED <<cfg, accepted>>

Next == \E req \in Requests : Ask(req)

Spec == Init /\ [][Next]_vars

-----------------------------------------------------------------------------
(* s is the time of day at minute t or an earlier one, as a clock shows.   *)
NotAfter(s, t) == \/ s[1] < t \div 60
                  \/ s[1] = t \div 60 /\ s[2] <= t % 60

OnClock(s) == s # Unreadable /\ ((s[1] \in 0..23 /\ s[2] \in 0..59) \/ (s[1] = 24 /\ s[2] = 0))

(* The door is unlocked only for a card listed for the room and at a       *)
(* moment from the window's start up to but not including its end, read as *)
(* clock times; a malformed, wrapping or closed window never unlocks, even *)
(* in a configuration nobody validated ("fail closed").                    *)
UnlockIsEarned ==
  outcome.lock = "unlocked" =>
    /\ request.card \in DOMAIN cfg.permissions
    /\ request.room \in cfg.permissions[request.card]
    /\ request.room \in DOMAIN cfg.windows =>
         LET w == cfg.windows[request.room]
         IN /\ OnClock(w.start) /\ OnClock(w.end)
            /\ NotAfter(w.start, request.at) /\ ~NotAfter(w.end, request.at)

(* "Restriction only escalates a violation to an alert": marking any rooms *)
(* restricted, or none, never changes the lock or the time to live, and    *)
(* changes the action only from restrict to alert for a card not permitted.*)
RestrictionOnlyEscalates ==
  request # NoRequest =>
    \A rooms \in SUBSET KnownRooms :
       LET other == Decide([cfg EXCEPT !.restricted = [r \in rooms |-> TRUE]], request)
       IN /\ other.lock = outcome.lock /\ other.ttl = outcome.ttl
          /\ other.action # outcome.action =>
               /\ {other.action, outcome.action} = {"restrict", "alert"}
               /\ ~CardPermitted(cfg, request.card, request.room)

(* In a configuration the agent accepts, a window is open for exactly as   *)
(* many minutes of the day as lie between its endpoints: Validate lets     *)
(* through no window that Contains would then treat as closed by mistake.  *)
WindowsOpenForTheirLength ==
  accepted =>
    \A room \in DOMAIN cfg.windows :
       LET w == cfg.windows[room]
       IN Cardinality({t \in Minutes : WithinWindow(cfg, room, t)})
            = (w.end[1] - w.start[1]) * 60 + w.end[2] - w.start[2]
=============================================================================
