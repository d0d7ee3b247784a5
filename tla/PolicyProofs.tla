---------------------------- MODULE PolicyProofs ----------------------------
(***************************************************************************)
(* The properties of the policy, for every configuration, validated or     *)
(* not, and every request.                                                 *)
(***************************************************************************)
EXTENDS PolicyDecisions, FiniteSetTheorems, TLAPS

(* The outcome is what Decide says of the last request. *)
IInv ==
  /\ cfg \in Configs /\ accepted = ValidConfig(cfg)
  /\ \/ request = NoRequest /\ outcome = NoOutcome
     \/ /\ request \in Requests /\ CompleteRequest(request)
        /\ outcome = Decide(cfg, request)

(* Every outcome the agent acts on is Decide's, whether or not the         *)
(* configuration was validated (baseline.go: Decide checks nothing).       *)
THEOREM IInvHolds == Spec => []IInv
<1>1. Init => IInv
  BY DEF Init, IInv
<1>2. IInv /\ [Next]_vars => IInv'
  <2> SUFFICES ASSUME IInv, [Next]_vars PROVE IInv'
    OBVIOUS
  <2>1. CASE UNCHANGED vars
    BY <2>1 DEF IInv, vars
  <2>2. ASSUME NEW req \in Requests, Ask(req) PROVE IInv'
    BY <2>2 DEF IInv, Ask
  <2> QED BY <2>1, <2>2 DEF Next
<1> QED BY <1>1, <1>2, PTL DEF Spec

-----------------------------------------------------------------------------
(* The table of Decide, row by row. *)
LEMMA DecideRows ==
  ASSUME NEW c, NEW req
  PROVE  LET permitted  == CardPermitted(c, req.card, req.room)
             inWindow   == WithinWindow(c, req.room, req.at)
             restricted == RoomRestricted(c, req.room)
         IN /\ permitted /\ inWindow =>
                 Decide(c, req) = Outcome("allow", "permitted-in-window", "unlocked", 5)
            /\ permitted /\ ~inWindow =>
                 Decide(c, req) = Outcome("restrict", "permitted-outside-window", "locked", 0)
            /\ ~permitted /\ restricted =>
                 Decide(c, req) = Outcome("alert", "restricted-room-violation", "locked", 0)
            /\ ~permitted /\ ~restricted =>
                 Decide(c, req) = Outcome("restrict", "not-permitted", "locked", 0)
BY DEF Decide

(* Arithmetic of hours and minutes. *)
LEMMA ClockOrder ==
  ASSUME NEW h \in Int, NEW m \in 0..59, NEW q \in Int, NEW r \in 0..59
  PROVE  (h < q \/ (h = q /\ m <= r)) <=> h * 60 + m <= q * 60 + r
OBVIOUS

(* A minute of the day is its hour and its minute of the hour. *)
LEMMA HourAndMinute ==
  ASSUME NEW t \in Minutes
  PROVE  t \div 60 \in Int /\ t % 60 \in 0..59 /\ t = ((t \div 60) * 60) + (t % 60)
BY DEF Minutes

(* The distance between two times of day. *)
LEMMA ClockDistance ==
  ASSUME NEW a \in Int, NEW b \in Int, NEW c \in Int, NEW d \in Int
  PROVE  (a * 60 + b) - (c * 60 + d) = (a - c) * 60 + b - d
OBVIOUS

(* The minutes of the day from a up to, not including, b. *)
MinutesFromTo(a, b) == {t \in Minutes : a <= t /\ t < b}

(* They are an interval, also when b is the end of the day. *)
LEMMA MinutesBetween ==
  ASSUME NEW a \in Int, NEW b \in Int, 0 <= a, b <= 1440
  PROVE  MinutesFromTo(a, b) = a..(b - 1)
<1>1. \A t : t \in MinutesFromTo(a, b) <=> t \in 0..1439 /\ a <= t /\ t < b
  BY DEF MinutesFromTo, Minutes
<1>2. ASSUME NEW t \in MinutesFromTo(a, b) PROVE t \in a..(b - 1)
  <2>1. t \in 0..1439 /\ a <= t /\ t < b
    BY <1>1
  <2> QED BY <2>1
<1>3. ASSUME NEW t \in a..(b - 1) PROVE t \in 0..1439 /\ a <= t /\ t < b
  <2>1. t \in Int /\ a <= t /\ t <= b - 1
    BY <1>3
  <2> QED BY <2>1
<1>4. ASSUME NEW t \in a..(b - 1) PROVE t \in MinutesFromTo(a, b)
  BY <1>1, <1>3
<1> DEFINE M == MinutesFromTo(a, b)
           R == a..(b - 1)
<1>5. (\A t \in M : t \in R) /\ \A t \in R : t \in M
  BY <1>2, <1>4
<1>6. M = R
  <2> HIDE DEF M, R
  <2> QED BY <1>5
<1> QED BY <1>6

(* An endpoint that parses is a time on the clock, and its number the      *)
(* minute of the day it stands for.                                        *)
LEMMA ParsedIsOnClock ==
  ASSUME NEW s, parseHM(s) # Bad
  PROVE  OnClock(s) /\ s[1] \in 0..24 /\ s[2] \in 0..59 /\ (s[1] = 24 => s[2] = 0)
<1>1. s # Unreadable /\ s[1] \in 0..24 /\ s[2] \in 0..59 /\ (s[1] = 24 => s[2] = 0)
  BY DEF parseHM
<1> QED BY <1>1 DEF OnClock

LEMMA ParsedNumber ==
  ASSUME NEW s, parseHM(s) # Bad
  PROVE  parseHM(s) = s[1] * 60 + s[2]
BY DEF parseHM

(* The comparison of minutes is the comparison of clock times. *)
LEMMA MinutesAreClockTimes ==
  ASSUME NEW s, s[1] \in 0..24, s[2] \in 0..59, NEW t \in Minutes
  PROVE  NotAfter(s, t) <=> s[1] * 60 + s[2] <= t
<1>1. NotAfter(s, t) <=> s[1] * 60 + s[2] <= ((t \div 60) * 60) + (t % 60)
  <2> DEFINE h == s[1]
             m == s[2]
             q == t \div 60
             r == t % 60
  <2>1. h \in Int /\ m \in 0..59 /\ q \in Int /\ r \in 0..59
    BY HourAndMinute
  <2>2. NotAfter(s, t) <=> (h < q \/ (h = q /\ m <= r))
    BY DEF NotAfter
  <2> HIDE DEF h, m, q, r
  <2>3. (h < q \/ (h = q /\ m <= r)) <=> h * 60 + m <= q * 60 + r
    BY <2>1, ClockOrder
  <2>4. NotAfter(s, t) <=> h * 60 + m <= q * 60 + r
    BY <2>2, <2>3
  <2> QED BY <2>4 DEF h, m, q, r
<1> QED BY <1>1, HourAndMinute

(* What parses is a minute of the day, or its end. *)
LEMMA ParsedIsMinute ==
  ASSUME NEW s, parseHM(s) # Bad
  PROVE  parseHM(s) \in 0..1440
<1>1. PICK h \in 0..24, m \in 0..59 : h = s[1] /\ m = s[2] /\ (h = 24 => m = 0)
  BY ParsedIsOnClock
<1>2. parseHM(s) = h * 60 + m
  BY <1>1, ParsedNumber
<1>3. h * 60 + m \in 0..1440
  <2>1. CASE h = 24
    BY <1>1, <2>1
  <2>2. CASE h \in 0..23
    <3> HIDE <1>1
    <3>1. h * 60 \in Int /\ 0 <= h * 60 /\ h * 60 <= 1380
      BY <2>2
    <3>2. m \in Int /\ 0 <= m /\ m <= 59
      OBVIOUS
    <3> QED BY <3>1, <3>2
  <2> QED BY <2>1, <2>2
<1> QED BY <1>2, <1>3

(* So the code compares minutes exactly as a clock orders times. *)
LEMMA ParsedComparesAsClock ==
  ASSUME NEW s, parseHM(s) # Bad, NEW t \in Minutes
  PROVE  (NotAfter(s, t) <=> parseHM(s) <= t) /\ (~NotAfter(s, t) <=> t < parseHM(s))
<1>1. s[1] \in 0..24 /\ s[2] \in 0..59 /\ parseHM(s) = s[1] * 60 + s[2]
  BY ParsedIsOnClock, ParsedNumber
<1>2. NotAfter(s, t) <=> parseHM(s) <= t
  BY <1>1, MinutesAreClockTimes
<1>3. ~(parseHM(s) <= t) <=> t < parseHM(s)
  <2> DEFINE p == parseHM(s)
  <2>1. p \in 0..1440 /\ t \in 0..1439
    BY ParsedIsMinute DEF Minutes
  <2> HIDE DEF p
  <2>2. ~(p <= t) <=> t < p
    BY <2>1
  <2> QED BY <2>2 DEF p
<1> QED BY <1>2, <1>3

(* Decide unlocks only for a listed card within a window that is read as a *)
(* clock shows it; a window that does not parse unlocks nothing.           *)
THEOREM UnlockIsEarnedHolds == Spec => []UnlockIsEarned
<1>1. IInv => UnlockIsEarned
  <2> SUFFICES ASSUME IInv, outcome.lock = "unlocked"
               PROVE  /\ request.card \in DOMAIN cfg.permissions
                      /\ request.room \in cfg.permissions[request.card]
                      /\ request.room \in DOMAIN cfg.windows =>
                           LET w == cfg.windows[request.room]
                           IN /\ OnClock(w.start) /\ OnClock(w.end)
                              /\ NotAfter(w.start, request.at) /\ ~NotAfter(w.end, request.at)
    BY DEF UnlockIsEarned
  <2>1. /\ request \in Requests /\ CompleteRequest(request) /\ outcome = Decide(cfg, request)
        /\ cfg \in Configs
    BY DEF IInv, NoOutcome, Outcome
  <2>2. request.at \in Minutes
    BY <2>1, RequestsAreTyped DEF CompleteRequest
  <2>3. CardPermitted(cfg, request.card, request.room) /\ WithinWindow(cfg, request.room, request.at)
    BY <2>1, DecideRows DEF Outcome
  <2>4. ASSUME request.room \in DOMAIN cfg.windows
        PROVE  LET w == cfg.windows[request.room]
               IN /\ OnClock(w.start) /\ OnClock(w.end)
                  /\ NotAfter(w.start, request.at) /\ ~NotAfter(w.end, request.at)
    <3> DEFINE w == cfg.windows[request.room]
    <3>1. /\ parseHM(w.start) # Bad /\ parseHM(w.end) # Bad
          /\ parseHM(w.start) <= request.at /\ request.at < parseHM(w.end)
      BY <2>3, <2>4 DEF WithinWindow, WindowFor, Contains
    <3> HIDE DEF w
    <3>2. OnClock(w.start) /\ OnClock(w.end)
      BY <3>1, ParsedIsOnClock
    <3>3. NotAfter(w.start, request.at)
      BY <2>2, <3>1, ParsedComparesAsClock
    <3>4. ~NotAfter(w.end, request.at)
      BY <2>2, <3>1, ParsedComparesAsClock
    <3> QED BY <3>2, <3>3, <3>4 DEF w
  <2> QED BY <2>3, <2>4 DEF CardPermitted
<1> QED BY <1>1, IInvHolds, PTL

(* Marking any rooms restricted never moves what Decide asks of the lock;  *)
(* at most it turns a restrict into an alert.                              *)
THEOREM RestrictionOnlyEscalatesHolds == Spec => []RestrictionOnlyEscalates
<1>1. IInv => RestrictionOnlyEscalates
  <2> SUFFICES ASSUME IInv, request # NoRequest, NEW rooms \in SUBSET KnownRooms
               PROVE  LET other == Decide([cfg EXCEPT !.restricted = [r \in rooms |-> TRUE]], request)
                      IN /\ other.lock = outcome.lock /\ other.ttl = outcome.ttl
                         /\ other.action # outcome.action =>
                              /\ {other.action, outcome.action} = {"restrict", "alert"}
                              /\ ~CardPermitted(cfg, request.card, request.room)
    BY DEF RestrictionOnlyEscalates
  <2> DEFINE marked == [cfg EXCEPT !.restricted = [r \in rooms |-> TRUE]]
             other  == Decide(marked, request)
  <2>1. outcome = Decide(cfg, request)
    BY DEF IInv
  <2>2. /\ CardPermitted(marked, request.card, request.room)
             = CardPermitted(cfg, request.card, request.room)
        /\ WithinWindow(marked, request.room, request.at)
             = WithinWindow(cfg, request.room, request.at)
    BY DEF CardPermitted, WithinWindow, WindowFor
  <2> HIDE DEF marked
  <2> DEFINE Escalates ==
               /\ other.lock = outcome.lock /\ other.ttl = outcome.ttl
               /\ other.action # outcome.action =>
                    /\ {other.action, outcome.action} = {"restrict", "alert"}
                    /\ ~CardPermitted(cfg, request.card, request.room)
  <2>3. ASSUME CardPermitted(cfg, request.card, request.room) PROVE other = outcome
    <3>1. CASE WithinWindow(cfg, request.room, request.at)
      BY <2>1, <2>2, <2>3, <3>1, DecideRows
    <3>2. CASE ~WithinWindow(cfg, request.room, request.at)
      BY <2>1, <2>2, <2>3, <3>2, DecideRows
    <3> QED BY <3>1, <3>2
  <2>4. ASSUME ~CardPermitted(cfg, request.card, request.room)
        PROVE  {other, outcome} \subseteq
                 {Outcome("alert", "restricted-room-violation", "locked", 0),
                  Outcome("restrict", "not-permitted", "locked", 0)}
    <3>1. outcome \in {Outcome("alert", "restricted-room-violation", "locked", 0),
                       Outcome("restrict", "not-permitted", "locked", 0)}
      BY <2>1, <2>4, DecideRows
    <3>2. other \in {Outcome("alert", "restricted-room-violation", "locked", 0),
                     Outcome("restrict", "not-permitted", "locked", 0)}
      BY <2>2, <2>4, DecideRows
    <3> QED BY <3>1, <3>2
  <2> HIDE DEF other
  <2>5. Escalates
    <3>1. CASE CardPermitted(cfg, request.card, request.room)
      BY <2>3, <3>1
    <3>2. CASE ~CardPermitted(cfg, request.card, request.room)
      BY <2>4, <3>2 DEF Outcome
    <3> QED BY <3>1, <3>2
  <2> QED BY <2>5 DEF other, marked
<1> QED BY <1>1, IInvHolds, PTL

(* WithinWindow holds, in a configuration Validate accepts, for exactly as *)
(* many minutes of the day as the window's endpoints are apart.            *)
THEOREM WindowsOpenForTheirLengthHolds == Spec => []WindowsOpenForTheirLength
<1>1. IInv => WindowsOpenForTheirLength
  <2> SUFFICES ASSUME IInv, accepted, NEW room \in DOMAIN cfg.windows
               PROVE  LET w == cfg.windows[room]
                      IN Cardinality({t \in Minutes : WithinWindow(cfg, room, t)})
                           = (w.end[1] - w.start[1]) * 60 + w.end[2] - w.start[2]
    BY DEF WindowsOpenForTheirLength
  <2> DEFINE w    == cfg.windows[room]
             from == parseHM(w.start)
             to   == parseHM(w.end)
  <2>1. from # Bad /\ to # Bad /\ from <= to
    BY DEF IInv, ValidConfig, Valid
  <2>2. {t \in Minutes : WithinWindow(cfg, room, t)} = MinutesFromTo(from, to)
    BY <2>1 DEF MinutesFromTo, WithinWindow, WindowFor, Contains
  <2>3. to - from = (w.end[1] - w.start[1]) * 60 + w.end[2] - w.start[2]
    <3> HIDE DEF w
    <3> DEFINE a == w.end[1]
               b == w.end[2]
               c == w.start[1]
               d == w.start[2]
    <3>1. from = c * 60 + d /\ to = a * 60 + b /\ c \in 0..24 /\ d \in 0..59 /\ a \in 0..24 /\ b \in 0..59
      BY <2>1, ParsedIsOnClock, ParsedNumber
    <3> HIDE DEF a, b, c, d, from, to
    <3>2. to - from = (a - c) * 60 + b - d
      BY <3>1, ClockDistance
    <3> QED BY <3>2 DEF a, b, c, d
  <2> HIDE DEF w
  <2>4. from \in 0..1440 /\ to \in 0..1440
    BY <2>1, ParsedIsMinute
  <2> HIDE DEF from, to
  <2>5. MinutesFromTo(from, to) = from..(to - 1)
    <3>1. from \in Int /\ to \in Int /\ 0 <= from /\ to <= 1440
      BY <2>4
    <3> QED BY <3>1, MinutesBetween
  <2>6. Cardinality(from..(to - 1)) = to - from
    <3>1. from \in Int /\ to - 1 \in Int
      BY <2>4
    <3>2. Cardinality(from..(to - 1)) = IF from > to - 1 THEN 0 ELSE (to - 1) - from + 1
      BY <3>1, FS_Interval
    <3> QED BY <2>1, <2>4, <3>2
  <2> QED BY <2>2, <2>3, <2>5, <2>6 DEF w
<1> QED BY <1>1, IInvHolds, PTL
=============================================================================
