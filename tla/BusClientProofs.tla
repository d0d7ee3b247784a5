--------------------------- MODULE BusClientProofs --------------------------
(***************************************************************************)
(* The safety properties of BusClient and its refinement of EventBus, for  *)
(* any events of any length, any environments of the bus and of the        *)
(* service, any defaults, retention window and limit on the length of a    *)
(* record, and any number of troubles.                                     *)
(***************************************************************************)
EXTENDS BusClient, TLAPS, WellFoundedInduction, FunctionTheorems, FiniteSetTheorems,
        SequenceTheorems

Lines ==
  [field : {"id", "event", "data", "comment", "blank"}, event : Events \cup {0}, upto : Nat]

(* What is on the way are lines; only an open stream has a handler, and    *)
(* somebody who reads it.                                                  *)
StreamOK ==
  /\ wire \in Seq(Lines)
  /\ end = "open" <=> handler
  /\ handler => bus \in {"up", "draining"} /\ sub \in {"read", "send"}

(* A running bus has a configuration it can run with.                      *)
ConfigOK ==
  /\ bus = "configured" =>
       /\ config.buffer > 0 /\ config.history > 0
       /\ config.faults.delay >= 0
       /\ \A rate \in {config.faults.dropRate, config.faults.duplicateRate} :
            rate.is = "number" => rate.n \in 0..100
  /\ bus # "down" => config.heartbeat \in Nat \ {0}

(* Events are numbered as they are accepted, and what is retained was.     *)
HistoryOK ==
  /\ \A i \in 1..Len(accepted) : accepted[i] = i
  /\ kept \subseteq 1..Len(accepted)

(* The watchdog runs while a stream is read.  The goroutine ends without   *)
(* an error, so that the main loop finds none.                             *)
SubOK ==
  /\ idleTimeout \in Nat /\ (sub # "none" => idleTimeout > 0)
  /\ sub \notin {"read", "send"} => idle = 0
  /\ sub = "done" => ~err
  /\ svc # "failing"

(* A stream that is read was opened at the first attempt since the last    *)
(* failure; while an attempt is under way the wait is doubled already.     *)
BackoffOK ==
  /\ sub \in {"read", "send"} => backoff = minBackoff /\ fails = 0
  /\ sub = "wait" => backoff = Min({2 ^ fails, maxBackoff})
  /\ sub = "open" => backoff = Min({2 * Min({2 ^ fails, maxBackoff}), maxBackoff})

(* Whatever time the watchdog has counted, the broker has counted towards  *)
(* its next heartbeat, unless something has arrived since.                 *)
BeatOK == handler => idle <= beat \/ next(wire) # {}

IInv ==
  TypeOK /\ StreamOK /\ ConfigOK /\ HistoryOK /\ SubOK /\ BackoffOK /\ BeatOK

-----------------------------------------------------------------------------
(* Every set of numbers that is not empty has a least one. *)
LEMMA Least ==
  ASSUME NEW T \in SUBSET Nat, T # {}
  PROVE  \E n \in T : \A m \in T : n <= m
<1>1. PICK n \in T : \A m \in T : ~(<<m, n>> \in OpToRel(<, Nat))
  BY NatLessThanWellFounded, WFMin
<1>2. \A m \in T : ~(m < n)
  BY <1>1 DEF OpToRel
<1> QED BY <1>2

LEMMA MinOfTwo ==
  ASSUME NEW a \in Int, NEW b \in Int
  PROVE  Min({a, b}) = IF a <= b THEN a ELSE b
BY DEF Min

LEMMA Remainder ==
  ASSUME NEW n \in Nat, NEW m \in Nat \ {0}
  PROVE  n % m \in 0..(m - 1) /\ (n < m => n % m = n)
OBVIOUS

-----------------------------------------------------------------------------
(* The history: what is retained is at most as much as there is room for,  *)
(* the events after which fewer than that have come.                       *)
LEMMA RetainBound ==
  ASSUME NEW S \in SUBSET Nat, IsFiniteSet(S), NEW e \in Nat
  PROVE  /\ retain(S, e) \subseteq S \cup {e}
         /\ Cardinality(retain(S, e)) <= DefaultHistory
<1> DEFINE U == S \cup {e}
           R == retain(S, e)
<1>1. \A d \in R : d \in U /\ Cardinality({x \in U : x > d}) < DefaultHistory
  BY DEF retain, Quantify
<1>2. IsFiniteSet(U)
  BY FS_AddElement
<1>3. R \subseteq U
  BY <1>1
<1> HIDE DEF U, R
<1>4. IsFiniteSet(R) /\ Cardinality(R) \in Nat
  BY <1>2, <1>3, FS_Subset, FS_CardinalityType
<1>5. DefaultHistory \in Nat
  BY DefaultsArePositive
<1>6. ASSUME Cardinality(R) > DefaultHistory PROVE FALSE
  <2>1. R # {} /\ R \in SUBSET Nat
    BY <1>3, <1>4, <1>5, <1>6, FS_EmptySet DEF U
  <2>2. PICK m \in R : \A n \in R : m <= n
    BY <2>1, Least
  <2> DEFINE A == {x \in U : x > m}
  <2>3. R \ {m} \in SUBSET A
    BY <1>3, <2>1, <2>2
  <2>4. IsFiniteSet(A)
    BY <1>2, FS_Subset
  <2> HIDE DEF A
  <2>5. Cardinality(R \ {m}) <= Cardinality(A)
    BY <2>3, <2>4, FS_Subset
  <2>6. Cardinality(R \ {m}) = Cardinality(R) - 1
    BY <1>4, <2>2, FS_RemoveElement
  <2>7. Cardinality(A) < DefaultHistory /\ Cardinality(A) \in Nat
    BY <1>1, <2>2, <2>4, FS_CardinalityType DEF A
  <2> QED BY <1>4, <1>5, <1>6, <2>5, <2>6, <2>7
<1> QED BY <1>3, <1>4, <1>5, <1>6 DEF U, R

HistoryType ==
  accepted \in Seq(Events) /\ kept \subseteq Events /\ Cardinality(kept) <= DefaultHistory

(* The history changes when an event is accepted, or is lost with the bus. *)
LEMMA HistoryFrame ==
  ASSUME [Next]_vars
  PROVE  \/ Publish
         \/ kept' = {} /\ accepted' = accepted
         \/ UNCHANGED <<accepted, kept>>
<1>1. CASE BusStep
  BY <1>1 DEF BusStep, BusConfigures, BusListens, BusKilled, BusTerminated, BusDrained, BusGone
<1>2. CASE NetworkStep
  BY <1>2 DEF NetworkStep, ConnectionLost, NetworkStalls, NetworkRecovers, busVarsOnly
<1>3. CASE ServiceStarts \/ Handled \/ ServiceTerminated \/ ServiceKilled \/ MainLoop
           \/ WatchdogFires \/ Tick
  BY <1>3 DEF ServiceStarts, Handled, ServiceTerminated, ServiceKilled, MainLoop, Leaves,
              ServiceExits, WatchdogFires, Tick, busVarsOnly
<1>4. CASE Goroutine
  BY <1>4 DEF Goroutine, ReadRecord, StreamEnds, PumpCancelled, PumpReturns, HandOver, Retry,
              Reopen, busVarsOnly
<1>5. CASE UNCHANGED vars
  BY <1>5 DEF vars, busVarsOnly
<1> QED BY <1>1, <1>2, <1>3, <1>4, <1>5 DEF Next, ServiceStep

LEMMA HistoryStep ==
  ASSUME HistoryType, HistoryOK, [Next]_vars
  PROVE  HistoryType' /\ HistoryOK'
<1>1. CASE Publish
  <2> DEFINE e == Len(accepted) + 1
  <2>1. e \in Events /\ accepted' = Append(accepted, e) /\ kept' = retain(kept, e)
    BY <1>1 DEF Publish
  <2>2. Len(accepted) \in Nat /\ accepted \in Seq(Events) /\ kept \subseteq 1..Len(accepted)
    BY DEF HistoryType, HistoryOK
  <2>3. IsFiniteSet(1..Len(accepted))
    BY <2>2, FS_Interval
  <2>4. IsFiniteSet(kept) /\ kept \in SUBSET Nat
    <3> DEFINE I == 1..Len(accepted)
    <3>1. kept \in SUBSET I /\ IsFiniteSet(I) /\ I \in SUBSET Nat
      BY <2>2, <2>3
    <3> HIDE DEF I
    <3> QED BY <3>1, FS_Subset
  <2>5. kept' \subseteq kept \cup {e} /\ Cardinality(kept') <= DefaultHistory
    BY <2>1, <2>2, <2>4, RetainBound
  <2>6. /\ accepted' \in Seq(Events) /\ Len(accepted') = e /\ accepted'[e] = e
        /\ \A i \in 1..Len(accepted) : accepted'[i] = accepted[i]
    BY <2>1, <2>2
  <2> HIDE DEF e
  <2>7. e = Len(accepted) + 1
    BY DEF e
  <2>8. \A i \in 1..Len(accepted') : accepted'[i] = i
    BY <2>2, <2>6, <2>7 DEF HistoryOK
  <2>9. kept' \subseteq 1..Len(accepted')
    BY <2>2, <2>5, <2>6, <2>7
  <2> QED BY <2>1, <2>5, <2>6, <2>8, <2>9 DEF HistoryType, HistoryOK
<1>2. CASE kept' = {} /\ accepted' = accepted
  BY <1>2, FS_EmptySet, DefaultsArePositive DEF HistoryType, HistoryOK
<1>3. CASE UNCHANGED <<accepted, kept>>
  BY <1>3 DEF HistoryType, HistoryOK
<1> QED BY <1>1, <1>2, <1>3, HistoryFrame

-----------------------------------------------------------------------------
(* The configuration: NewBroker makes a usable one of any environment that *)
(* BrokerConfigFromEnv lets through.                                       *)
LEMMA SettingValue ==
  ASSUME NEW text \in Setting, NEW n \in Int
  PROVE  Value(text, n) \in Setting
BY DEF Value, Num, Setting

LEMMA PositiveIsPositive ==
  ASSUME NEW n \in Int, NEW default \in Nat \ {0}
  PROVE  Positive(n, default) \in Nat \ {0}
BY DEF Positive

Usable(cfg) ==
  /\ cfg.buffer > 0 /\ cfg.history > 0 /\ cfg.heartbeat \in Nat \ {0}
  /\ cfg.faults.delay >= 0
  /\ \A rate \in {cfg.faults.dropRate, cfg.faults.duplicateRate} :
       rate.is = "number" => rate.n \in 0..100

LEMMA NewBrokerUsable ==
  ASSUME NEW env \in BusEnvs, BrokerConfigFromEnv(env)
  PROVE  Usable(NewBroker(env))
<1> DEFINE f == FaultConfig(env)
           cfg == NewBroker(env)
<1>1. env \in BrokerEnv
  BY EnvsAreTyped
<1>2. /\ DefaultBuffer \in Nat \ {0} /\ DefaultHistory \in Nat \ {0}
      /\ DefaultHeartbeat \in Nat \ {0}
  BY DefaultsArePositive
<1>3. cfg.buffer \in Nat \ {0}
  <2>1. Value(env.buffer, DefaultBuffer) \in Setting
    BY <1>1, <1>2, SettingValue DEF BrokerEnv
  <2>2. Value(env.buffer, DefaultBuffer).n \in Int
    BY <2>1 DEF Setting
  <2> QED BY <1>2, <2>2, PositiveIsPositive DEF NewBroker
<1>4. cfg.history \in Nat \ {0}
  <2>1. Value(env.history, DefaultHistory) \in Setting
    BY <1>1, <1>2, SettingValue DEF BrokerEnv
  <2>2. Value(env.history, DefaultHistory).n \in Int
    BY <2>1 DEF Setting
  <2> QED BY <1>2, <2>2, PositiveIsPositive DEF NewBroker
<1>5. cfg.heartbeat \in Nat \ {0}
  <2>1. Value(env.heartbeat, DefaultHeartbeat) \in Setting
    BY <1>1, <1>2, SettingValue DEF BrokerEnv
  <2>2. Value(env.heartbeat, DefaultHeartbeat).n \in Int
    BY <2>1 DEF Setting
  <2> QED BY <1>2, <2>2, PositiveIsPositive DEF NewBroker
<1>6. f.delay >= 0 /\ \A rate \in {f.dropRate, f.duplicateRate} : ~Below(rate, 0) /\ ~Above(rate, 100)
  BY DEF BrokerConfigFromEnv, Validate
<1>7. f.dropRate \in Setting /\ f.duplicateRate \in Setting
  BY <1>1, SettingValue DEF BrokerEnv, FaultConfig
<1>8. ASSUME NEW rate \in Setting, ~Below(rate, 0), ~Above(rate, 100), rate.is = "number"
      PROVE  rate.n \in 0..100
  BY <1>8 DEF Setting, Below, Above
<1>9. cfg.faults = f
  BY DEF NewBroker
<1> HIDE DEF f, cfg
<1>10. \A rate \in {f.dropRate, f.duplicateRate} : rate.is = "number" => rate.n \in 0..100
  BY <1>6, <1>7, <1>8
<1>11. Usable(cfg)
  BY <1>3, <1>4, <1>5, <1>6, <1>9, <1>10 DEF Usable
<1> QED BY <1>11 DEF cfg

(* The process of the bus: configured, listening, draining, gone. *)
LEMMA ConfigFrame ==
  ASSUME [Next]_vars
  PROVE  \/ BusConfigures
         \/ bus' = "down"
         \/ bus = "configured" /\ bus' = "up" /\ UNCHANGED config
         \/ bus = "up" /\ bus' = "draining" /\ UNCHANGED config
         \/ UNCHANGED <<bus, config>>
<1>1. CASE BusStep
  BY <1>1 DEF BusStep, BusListens, BusKilled, BusTerminated, BusDrained, BusGone, Publish
<1>2. CASE NetworkStep
  BY <1>2 DEF NetworkStep, ConnectionLost, NetworkStalls, NetworkRecovers, busVarsOnly
<1>3. CASE ServiceStarts \/ Handled \/ ServiceTerminated \/ ServiceKilled \/ MainLoop
           \/ WatchdogFires \/ Tick
  BY <1>3 DEF ServiceStarts, Handled, ServiceTerminated, ServiceKilled, MainLoop, Leaves,
              ServiceExits, WatchdogFires, Tick, busVarsOnly
<1>4. CASE Goroutine
  BY <1>4 DEF Goroutine, ReadRecord, StreamEnds, PumpCancelled, PumpReturns, HandOver, Retry,
              Reopen, busVarsOnly
<1>5. CASE UNCHANGED vars
  BY <1>5 DEF vars, busVarsOnly
<1> QED BY <1>1, <1>2, <1>3, <1>4, <1>5 DEF Next, ServiceStep

LEMMA ConfigStep ==
  ASSUME ConfigOK, [Next]_vars
  PROVE  ConfigOK'
<1>1. CASE BusConfigures
  <2>1. PICK env \in BusEnvs : BrokerConfigFromEnv(env) /\ config' = NewBroker(env)
    BY <1>1 DEF BusConfigures
  <2>2. Usable(config')
    BY <2>1, NewBrokerUsable
  <2> QED BY <2>2 DEF ConfigOK, Usable
<1>2. CASE bus' = "down"
  BY <1>2 DEF ConfigOK
<1>3. CASE ~BusConfigures /\ bus' # "down"
  BY <1>3, ConfigFrame DEF ConfigOK
<1> QED BY <1>1, <1>2, <1>3

-----------------------------------------------------------------------------
(* The lines on the way. *)
LEMMA CutType ==
  ASSUME wire \in Seq(Lines), NEW ends, Cut(ends)
  PROVE  wire' \in Seq(Lines) /\ end' \in ends
<1>1. PICK l \in 0..Len(wire) : wire' = SubSeq(wire, 1, l)
  BY DEF Cut, Prefixes
<1>2. wire' \in Seq(Lines)
  BY <1>1, SubSeqProperties
<1> QED BY <1>2 DEF Cut

LEMMA Joined ==
  ASSUME NEW s \in Seq(Lines), NEW t \in Seq(Lines)
  PROVE  /\ s \o t \in Seq(Lines) /\ Len(s \o t) = Len(s) + Len(t)
         /\ \A i \in 1..Len(s) : (s \o t)[i] = s[i]
         /\ \A i \in 1..Len(t) : (s \o t)[Len(s) + i] = t[i]
OBVIOUS

LEMMA EventLines ==
  ASSUME NEW e \in Events
  PROVE  /\ writeSSEEvent(e) \in Seq(Lines) /\ Len(writeSSEEvent(e)) = 4
         /\ \A k \in 1..4 : writeSSEEvent(e)[k] \in Lines
<1>1. 2 + DataBytes[e] \in Nat
  BY LengthsAreNatural
<1>2. /\ Line("id", e, 1) \in Lines /\ Line("event", e, 2) \in Lines
      /\ Line("data", e, 2 + DataBytes[e]) \in Lines /\ Blank \in Lines
  BY <1>1 DEF Line, Blank, Lines
<1> QED BY <1>2 DEF writeSSEEvent

LEMMA CommentLines == writeSSEComment \in Seq(Lines) /\ Len(writeSSEComment) = 2
<1>1. Line("comment", 0, 1) \in Lines /\ Blank \in Lines
  BY DEF Line, Blank, Lines
<1> QED BY <1>1 DEF writeSSEComment

LEMMA StreamLines ==
  ASSUME NEW es \in Seq(Events)
  PROVE  writeSSEEvents(es) \in Seq(Lines) /\ Len(writeSSEEvents(es)) = 4 * Len(es)
<1>1. Len(es) \in Nat /\ 4 * Len(es) \in Nat
  OBVIOUS
<1>2. ASSUME NEW i \in 1..(4 * Len(es))
      PROVE  (i + 3) \div 4 \in 1..Len(es) /\ ((i + 3) % 4) + 1 \in 1..4
  BY <1>1
<1>3. ASSUME NEW i \in 1..(4 * Len(es))
      PROVE  writeSSEEvent(es[(i + 3) \div 4])[((i + 3) % 4) + 1] \in Lines
  BY <1>2, EventLines
<1>4. writeSSEEvents(es) \in [1..(4 * Len(es)) -> Lines]
  BY <1>3 DEF writeSSEEvents
<1> QED BY <1>1, <1>4, SeqDef

LEMMA UpTo ==
  ASSUME NEW n \in Nat
  PROVE  IsFiniteSet(1..n) /\ Cardinality(1..n) = n
<1>1. Cardinality(1..n) = IF 1 > n THEN 0 ELSE n - 1 + 1
  BY FS_Interval
<1> QED BY <1>1, FS_Interval

(* What is replayed is the end of what was accepted. *)
LEMMA ReplayedEnd ==
  ASSUME HistoryType, HistoryOK, NEW from, NEW n, n = Cardinality(Replayed(from))
  PROVE  /\ IsFiniteSet(Replayed(from)) /\ n \in Nat /\ n <= Len(accepted)
         /\ SubSeq(accepted, Len(accepted) - n + 1, Len(accepted)) \in Seq(Events)
<1> DEFINE I == 1..Len(accepted)
<1>1. Len(accepted) \in Nat /\ accepted \in Seq(Events)
  BY DEF HistoryType
<1>2. IsFiniteSet(I) /\ Cardinality(I) = Len(accepted)
  BY <1>1, UpTo
<1>3. Replayed(from) \in SUBSET I
  BY DEF HistoryOK, Replayed
<1> HIDE DEF I
<1>4. IsFiniteSet(Replayed(from)) /\ n \in Nat /\ n <= Len(accepted)
  BY <1>1, <1>2, <1>3, FS_Subset, FS_CardinalityType
<1>5. SubSeq(accepted, Len(accepted) - n + 1, Len(accepted)) \in Seq(Events)
  BY <1>1, <1>4, SubSeqProperties
<1> QED BY <1>4, <1>5

LEMMA OpenType ==
  ASSUME HistoryType, HistoryOK, NEW from, OpenSucceeds(from)
  PROVE  wire' \in Seq(Lines)
<1> DEFINE n == Cardinality(Replayed(from))
           es == SubSeq(accepted, Len(accepted) - n + 1, Len(accepted))
<1>1. es \in Seq(Events)
  BY ReplayedEnd
<1>2. wire' = writeSSEEvents(es)
  BY DEF OpenSucceeds
<1> HIDE DEF n, es
<1> QED BY <1>1, <1>2, StreamLines

(* A record read takes lines that are there, and its event is one.         *)
LEMMA RecordType ==
  ASSUME wire \in Seq(Lines), NEW r \in next(wire)
  PROVE  /\ r.lines \in 1..Len(wire) /\ r.data \in Events \cup {0}
         /\ SubSeq(wire, r.lines + 1, Len(wire)) \in Seq(Lines)
<1>1. PICK k \in 1..Len(wire) : r.lines = k /\ r.data = Data(wire, k)
  BY DEF next
<1>2. Data(wire, k) \in Events \cup {0}
  <2> DEFINE found == {i \in 1..k : wire[i].field = "data"}
  <2>1. CASE found = {}
    BY <2>1 DEF Data
  <2>2. CASE found # {}
    <3>1. (CHOOSE i \in found : TRUE) \in found
      BY <2>2
    <3>2. \A i \in found : wire[i] \in Lines
      OBVIOUS
    <3>3. wire[CHOOSE i \in found : TRUE].event \in Events \cup {0}
      BY <3>1, <3>2 DEF Lines
    <3> QED BY <2>2, <3>3 DEF Data
  <2> QED BY <2>1, <2>2
<1>3. SubSeq(wire, k + 1, Len(wire)) \in Seq(Lines)
  BY SubSeqProperties
<1> QED BY <1>1, <1>2, <1>3

(* Whoever ends a connection, no open stream is left without a handler.    *)
LEMMA CutStream ==
  ASSUME StreamOK, NEW ends, "open" \notin ends, Cut(ends), handler' = FALSE
  PROVE  StreamOK'
BY CutType DEF StreamOK

LEMMA NoStream ==
  ASSUME handler' = FALSE, wire' = <<>>, end' = "eof"
  PROVE  StreamOK'
<1>1. <<>> \in Seq(Lines)
  OBVIOUS
<1> QED BY <1>1 DEF StreamOK

LEMMA SameStream ==
  ASSUME StreamOK, UNCHANGED <<wire, end, handler>>, handler => bus' \in {"up", "draining"},
         handler => sub' \in {"read", "send"}
  PROVE  StreamOK'
BY DEF StreamOK

LEMMA BusStream ==
  ASSUME StreamOK, BusStep
  PROVE  StreamOK'
<1>1. CASE BusConfigures \/ BusListens \/ BusTerminated
  <2>1. UNCHANGED <<wire, end, handler, sub>> /\ (handler => bus' \in {"up", "draining"})
    BY <1>1 DEF BusConfigures, BusListens, BusTerminated, streamVars, subVars, StreamOK
  <2> QED BY <2>1 DEF StreamOK
<1>2. CASE BusKilled \/ BusDrained
  <2>1. HandlerEnds
    BY <1>2 DEF BusKilled, BusDrained, BusGone
  <2>2. CASE handler /\ end = "open"
    BY <2>1, <2>2, CutStream DEF HandlerEnds
  <2>3. CASE ~(handler /\ end = "open")
    BY <2>1, <2>3 DEF HandlerEnds, StreamOK
  <2> QED BY <2>2, <2>3
<1>3. CASE Publish
  <2> DEFINE e == Len(accepted) + 1
  <2>1. /\ e \in Events /\ UNCHANGED <<bus, handler, end, sub>>
        /\ wire' = wire \/ wire' = wire \o writeSSEEvent(e)
    BY <1>3 DEF Publish, subVars
  <2> HIDE DEF e
  <2>2. wire' \in Seq(Lines)
    BY <2>1, EventLines, Joined DEF StreamOK
  <2> QED BY <2>1, <2>2 DEF StreamOK
<1> QED BY <1>1, <1>2, <1>3 DEF BusStep

LEMMA NetworkStream ==
  ASSUME StreamOK, NetworkStep
  PROVE  StreamOK'
<1>1. CASE ConnectionLost
  BY <1>1, CutStream DEF ConnectionLost
<1>2. CASE NetworkStalls \/ NetworkRecovers
  BY <1>2 DEF NetworkStalls, NetworkRecovers, busVarsOnly, subVars, StreamOK
<1> QED BY <1>1, <1>2 DEF NetworkStep

LEMMA OpenStream ==
  ASSUME StreamOK, HistoryType, HistoryOK, NEW from, OpenSucceeds(from), sub' = "read",
         UNCHANGED bus
  PROVE  StreamOK'
BY OpenType DEF OpenSucceeds, StreamOK

LEMMA GoroutineStream ==
  ASSUME StreamOK, HistoryType, HistoryOK, Goroutine
  PROVE  StreamOK'
<1>1. CASE ReadRecord
  <2>1. PICK r \in next(wire) : /\ wire' = SubSeq(wire, r.lines + 1, Len(wire))
                                /\ sub' \in {"read", "send"}
    BY <1>1 DEF ReadRecord
  <2>2. wire' \in Seq(Lines)
    BY <2>1, RecordType DEF StreamOK
  <2> QED BY <1>1, <2>1, <2>2 DEF ReadRecord, busVarsOnly, StreamOK
<1>2. CASE StreamEnds \/ PumpCancelled
  BY <1>2, NoStream DEF StreamEnds, PumpCancelled, PumpReturns, BodyClosed
<1>3. CASE HandOver
  BY <1>3, SameStream DEF HandOver, busVarsOnly, streamVars, StreamOK
<1>4. CASE Retry
  BY <1>4, SameStream DEF Retry, busVarsOnly, streamVars, StreamOK
<1>5. CASE Reopen
  <2>1. UNCHANGED bus /\ ~handler
    BY <1>5 DEF Reopen, StreamOK
  <2>2. CASE OpenSucceeds(ResumePoint) /\ sub' = "read"
    BY <2>1, <2>2, OpenStream
  <2>3. CASE UNCHANGED <<wire, end, handler>>
    BY <2>1, <2>3, SameStream
  <2> QED BY <1>5, <2>2, <2>3 DEF Reopen, OpenFails
<1> QED BY <1>1, <1>2, <1>3, <1>4, <1>5 DEF Goroutine

LEMMA ServiceStream ==
  ASSUME TypeOK, StreamOK, HistoryType, HistoryOK, ServiceStep
  PROVE  StreamOK'
<1>1. CASE ServiceStarts
  <2>1. UNCHANGED bus /\ ~handler
    BY <1>1 DEF ServiceStarts, TypeOK, StreamOK
  <2>2. CASE OpenSucceeds(0) /\ sub' = "read"
    BY <2>1, <2>2, OpenStream
  <2>3. CASE UNCHANGED <<wire, end, handler>>
    BY <2>1, <2>3, SameStream
  <2> QED BY <1>1, <2>2, <2>3 DEF ServiceStarts, OpenFails, Refused
<1>2. CASE Handled \/ ServiceTerminated \/ Leaves
  BY <1>2 DEF Handled, ServiceTerminated, Leaves, busVarsOnly, streamVars, subVars, StreamOK
<1>3. CASE ServiceKilled
  BY <1>3, NoStream DEF ServiceKilled, BodyClosed
<1>4. CASE ServiceExits
  BY <1>4, SameStream DEF ServiceExits, busVarsOnly, streamVars, StreamOK
<1>5. CASE Goroutine
  BY <1>5, GoroutineStream
<1>6. CASE WatchdogFires
  BY <1>6, CutStream DEF WatchdogFires, BodyClosed
<1>7. CASE Tick
  <2>1. UNCHANGED <<bus, handler, end, sub>> /\ (wire' = wire \/ wire' = wire \o writeSSEComment)
    BY <1>7 DEF Tick
  <2>2. wire' \in Seq(Lines)
    BY <2>1, CommentLines, Joined DEF StreamOK
  <2> QED BY <2>1, <2>2 DEF StreamOK
<1> QED BY <1>1, <1>2, <1>3, <1>4, <1>5, <1>6, <1>7 DEF ServiceStep, MainLoop

LEMMA StreamStep ==
  ASSUME TypeOK, StreamOK, HistoryType, HistoryOK, [Next]_vars
  PROVE  StreamOK'
<1>1. CASE UNCHANGED vars
  BY <1>1 DEF vars, busVarsOnly, streamVars, subVars, StreamOK
<1> QED BY <1>1, BusStream, NetworkStream, ServiceStream DEF Next

-----------------------------------------------------------------------------
(* The back-off. *)
Wait(n) == Min({2 ^ n, maxBackoff})

LEMMA WaitValues ==
  /\ Wait(0) = 1 /\ Wait(1) = 2 /\ Wait(2) = 4 /\ Wait(3) = 8 /\ Wait(4) = 16
  /\ Wait(5) = 32 /\ Wait(6) = 50
<1>1. 2 ^ 0 = 1 /\ 2 ^ 1 = 2 /\ 2 ^ 2 = 4 /\ 2 ^ 3 = 8
  OBVIOUS
<1>2. 2 ^ 4 = 16 /\ 2 ^ 5 = 32 /\ 2 ^ 6 = 64
  OBVIOUS
<1> QED BY <1>1, <1>2, MinOfTwo DEF Wait, maxBackoff

(* The wait doubles with every failure, up to the longest.                 *)
LEMMA Doubling ==
  ASSUME NEW n \in 0..FailsCounted
  PROVE  /\ Wait(n) \in minBackoff..maxBackoff
         /\ Min({n + 1, FailsCounted}) \in 0..FailsCounted
         /\ Min({2 * Wait(n), maxBackoff}) \in minBackoff..maxBackoff
         /\ Wait(Min({n + 1, FailsCounted})) = Min({2 * Wait(n), maxBackoff})
<1>1. Min({n + 1, FailsCounted}) = IF n = 6 THEN 6 ELSE n + 1
  BY MinOfTwo DEF FailsCounted
<1>2. Wait(n) \in 1..50
  BY WaitValues DEF FailsCounted
<1>3. Min({2 * Wait(n), maxBackoff}) = IF 2 * Wait(n) <= 50 THEN 2 * Wait(n) ELSE 50
  BY <1>2, MinOfTwo DEF maxBackoff
<1>4. CASE n = 6
  BY <1>1, <1>3, <1>4, WaitValues DEF FailsCounted, minBackoff, maxBackoff
<1>5. CASE n # 6
  <2>1. Wait(n + 1) = IF 2 * Wait(n) <= 50 THEN 2 * Wait(n) ELSE 50
    BY <1>5, WaitValues DEF FailsCounted
  <2> QED BY <1>1, <1>2, <1>3, <1>5, <2>1 DEF FailsCounted, minBackoff, maxBackoff
<1> QED BY <1>4, <1>5

BackoffType == backoff \in minBackoff..maxBackoff /\ fails \in 0..FailsCounted

LEMMA BackoffInit ==
  ASSUME backoff' = minBackoff, fails' = 0, sub' \in {"none", "read"}
  PROVE  BackoffType' /\ BackoffOK'
BY DEF BackoffType, BackoffOK, minBackoff, maxBackoff, FailsCounted

LEMMA BackoffStep ==
  ASSUME TypeOK, BackoffOK, [Next]_vars
  PROVE  BackoffType' /\ BackoffOK'
<1> USE DEF Wait
<1>1. /\ sub = "wait" => backoff = Wait(fails)
      /\ sub = "open" => backoff = Min({2 * Wait(fails), maxBackoff})
      /\ sub \in {"read", "send"} => backoff = minBackoff /\ fails = 0
      /\ backoff \in minBackoff..maxBackoff /\ fails \in 0..FailsCounted
      /\ svc = "down" <=> sub = "none"
  BY DEF TypeOK, BackoffOK
<1>2. /\ minBackoff \in minBackoff..maxBackoff /\ 0 \in 0..FailsCounted /\ Wait(0) = minBackoff
  BY WaitValues DEF minBackoff, maxBackoff, FailsCounted
<1> HIDE DEF Wait
<1>3. ASSUME BackoffType',
             sub' \in {"read", "send"} => backoff' = minBackoff /\ fails' = 0,
             sub' = "wait" => backoff' = Wait(fails'),
             sub' = "open" => backoff' = Min({2 * Wait(fails'), maxBackoff})
      PROVE  BackoffType' /\ BackoffOK'
  BY <1>3 DEF BackoffOK, Wait
<1>4. CASE UNCHANGED <<sub, backoff, fails>>
  BY <1>4 DEF BackoffType, BackoffOK, TypeOK
<1>5. CASE BusStep \/ NetworkStep \/ UNCHANGED vars
  BY <1>4, <1>5 DEF BusStep, BusConfigures, BusListens, BusKilled, BusTerminated, BusDrained,
     BusGone, Publish, NetworkStep, ConnectionLost, NetworkStalls, NetworkRecovers, vars, subVars
<1>6. CASE Handled \/ ServiceTerminated \/ Leaves \/ WatchdogFires \/ Tick
  BY <1>4, <1>6 DEF Handled, ServiceTerminated, Leaves, WatchdogFires, Tick, subVars
<1>7. CASE ServiceStarts \/ ServiceKilled \/ ServiceExits
  <2>1. /\ backoff' = minBackoff /\ fails' = 0
        /\ sub' \in {"none", "read"} \/ (sub' = sub /\ svc = "down")
    BY <1>7 DEF ServiceStarts, ServiceKilled, ServiceExits, Fresh
  <2> QED BY <1>1, <2>1, BackoffInit
<1>8. CASE ReadRecord \/ HandOver
  <2>1. /\ UNCHANGED <<backoff, fails>> /\ sub \in {"read", "send"} /\ sub' \in {"read", "send"}
    BY <1>8 DEF ReadRecord, CanRead, HandOver
  <2> QED BY <1>1, <1>3, <2>1 DEF BackoffType
<1>9. CASE StreamEnds
  <2>1. /\ sub = "read" /\ sub' = "wait" /\ fails' = fails
        /\ backoff' = backoff \/ backoff' = minBackoff
    BY <1>9 DEF StreamEnds, CanRead, PumpReturns
  <2> QED BY <1>1, <1>2, <1>3, <2>1 DEF BackoffType
<1>10. CASE PumpCancelled
  <2>1. sub' = "done" /\ UNCHANGED <<backoff, fails>>
    BY <1>10 DEF PumpCancelled, Ended, PumpReturns
  <2> QED BY <1>1, <1>3, <2>1 DEF BackoffType
<1>11. CASE Retry
  <2>1. CASE sub = "wait" /\ sub' = "open" /\ backoff' = Min({2 * backoff, maxBackoff}) /\ fails' = fails
    <3>1. backoff' = Min({2 * Wait(fails), maxBackoff})
      BY <1>1, <2>1
    <3>2. backoff' \in minBackoff..maxBackoff
      BY <1>1, <3>1, Doubling
    <3> QED BY <1>1, <1>3, <2>1, <3>1, <3>2 DEF BackoffType
  <2>2. CASE sub' = "done" /\ UNCHANGED <<backoff, fails>>
    BY <1>1, <1>3, <2>2 DEF BackoffType
  <2> QED BY <1>11, <2>1, <2>2 DEF Retry, Ended
<1>12. CASE Reopen
  <2>1. CASE sub' = "read" /\ fails' = 0 /\ backoff' = minBackoff
    BY <2>1, BackoffInit
  <2>2. CASE /\ sub = "open" /\ sub' = "wait" /\ fails' = Min({fails + 1, FailsCounted})
             /\ backoff' = backoff
    <3>1. fails' \in 0..FailsCounted /\ backoff' = Wait(fails')
      BY <1>1, <2>2, Doubling
    <3> QED BY <1>1, <1>3, <2>2, <3>1 DEF BackoffType
  <2>3. CASE sub' = "done" /\ UNCHANGED <<backoff, fails>>
    BY <1>1, <1>3, <2>3 DEF BackoffType
  <2> QED BY <1>12, <2>1, <2>2, <2>3 DEF Reopen, Recovered, Ended
<1> QED BY <1>5, <1>6, <1>7, <1>8, <1>9, <1>10, <1>11, <1>12
        DEF Next, ServiceStep, MainLoop, Goroutine

-----------------------------------------------------------------------------
(* The subscription and its watchdog. *)
SubType ==
  /\ svc \in {"down", "running", "closing", "failing"}
  /\ sub \in {"none", "read", "send", "wait", "open", "done"}
  /\ svc = "down" <=> sub = "none"
  /\ idle \in 0..idleTimeout /\ err \in BOOLEAN

LEMMA IdleTimeoutPositive ==
  ASSUME NEW env \in ServiceEnvs
  PROVE  IdleTimeout(env) \in Nat \ {0}
<1>1. env \in ServiceEnv /\ DefaultIdleTimeout \in Nat \ {0}
  BY EnvsAreTyped, DefaultsArePositive
<1>2. Value(env.idleTimeout, DefaultIdleTimeout) \in Setting
  BY <1>1, SettingValue DEF ServiceEnv
<1>3. Value(env.idleTimeout, DefaultIdleTimeout).n \in Int
  BY <1>2 DEF Setting
<1> QED BY <1>1, <1>3, PositiveIsPositive DEF IdleTimeout

LEMMA SubStep ==
  ASSUME SubType, SubOK, [Next]_vars
  PROVE  SubType' /\ SubOK'
<1> USE DEF SubType, SubOK
<1>1. CASE UNCHANGED <<svc, sub, idle, idleTimeout, err>>
  BY <1>1
<1>2. CASE BusStep \/ NetworkStep \/ UNCHANGED vars
  BY <1>1, <1>2 DEF BusStep, BusConfigures, BusListens, BusKilled, BusTerminated, BusDrained,
     BusGone, Publish, NetworkStep, ConnectionLost, NetworkStalls, NetworkRecovers, vars,
     svcVars, subVars
<1>3. CASE Handled \/ ServiceTerminated \/ WatchdogFires
  BY <1>1, <1>3 DEF Handled, ServiceTerminated, WatchdogFires, svcVars, subVars
<1>4. CASE Tick
  BY <1>4 DEF Tick, svcVars
<1>5. CASE ServiceStarts
  <2>1. svc = "down" /\ err' = FALSE
    BY <1>5 DEF ServiceStarts, Fresh
  <2>2. CASE UNCHANGED <<svc, sub, idle, idleTimeout>>
    BY <2>1, <2>2
  <2>3. CASE /\ idleTimeout' \in Nat \ {0} /\ idle' = 0
             /\ svc' = "running" /\ sub' = "read"
    <3>1. 0 \in 0..idleTimeout' /\ idleTimeout' > 0
      BY <2>3
    <3> QED BY <2>1, <2>3, <3>1
  <2> QED BY <1>5, <2>2, <2>3, IdleTimeoutPositive DEF ServiceStarts, Refused, OpenFails, OpenSucceeds
<1>6. CASE ServiceKilled \/ ServiceExits
  <2>1. svc' = "down" /\ sub' = "none" /\ idleTimeout' = 0 /\ err' = FALSE /\ idle' = 0
    BY <1>6 DEF ServiceKilled, ServiceExits, Fresh
  <2>2. idle' \in 0..idleTimeout' /\ idleTimeout' \in Nat
    BY <2>1
  <2> QED BY <2>1, <2>2
<1>7. CASE Leaves
  BY <1>7 DEF Leaves, subVars
<1>8. CASE ReadRecord \/ HandOver
  BY <1>8 DEF ReadRecord, CanRead, Reset, HandOver, svcVars
<1>9. CASE StreamEnds \/ PumpCancelled
  <2>1. /\ svc' = svc /\ idleTimeout' = idleTimeout /\ idle' = 0
        /\ sub \in {"read", "send"}
        /\ \/ sub' = "wait" /\ (err' = TRUE \/ err' = err)
           \/ sub' = "done" /\ err' = FALSE
    BY <1>9 DEF StreamEnds, CanRead, PumpCancelled, MayCancel, PumpReturns, Ended, svcVars
  <2>2. 0 \in 0..idleTimeout
    OBVIOUS
  <2> QED BY <2>1, <2>2
<1>10. CASE Retry
  BY <1>10 DEF Retry, Ended, svcVars
<1>11. CASE Reopen
  BY <1>11 DEF Reopen, OpenSucceeds, OpenFails, Ended, svcVars
<1> QED BY <1>2, <1>3, <1>4, <1>5, <1>6, <1>7, <1>8, <1>9, <1>10, <1>11
        DEF Next, ServiceStep, MainLoop, Goroutine

-----------------------------------------------------------------------------
(* The heartbeat. *)
BeatType == beat \in Nat /\ (handler => beat < config.heartbeat)

(* A call of next returns if anything among the lines ends a record, and   *)
(* then it does so when more lines have come.                              *)
LEMMA NextReturns ==
  ASSUME NEW lines \in Seq(Lines)
  PROVE  next(lines) # {} <=> \E k \in 1..Len(lines) : Stops(lines, k)
<1> DEFINE T == {k \in 1..Len(lines) : Stops(lines, k)}
<1>1. ASSUME T # {} PROVE next(lines) # {}
  <2>1. T \in SUBSET Nat
    OBVIOUS
  <2> HIDE DEF T
  <2>2. PICK k \in T : \A m \in T : k <= m
    BY <1>1, <2>1, Least
  <2>3. k \in 1..Len(lines) /\ Stops(lines, k) /\ Len(lines) \in Nat
    BY <2>2 DEF T
  <2>4. ASSUME NEW j \in 1..(k - 1) PROVE ~Stops(lines, j)
    BY <2>2, <2>3 DEF T
  <2> QED BY <2>3, <2>4 DEF next
<1>2. ASSUME next(lines) # {} PROVE T # {}
  BY <1>2 DEF next
<1> QED BY <1>1, <1>2

LEMMA StopsLonger ==
  ASSUME NEW s \in Seq(Lines), NEW t \in Seq(Lines), NEW k \in 1..Len(s), Stops(s, k)
  PROVE  k \in 1..Len(s \o t) /\ Stops(s \o t, k)
<1> DEFINE u == s \o t
<1>1. \A i \in 1..Len(s) : u[i] = s[i]
  BY Joined
<1>2. Len(u) = Len(s) + Len(t) /\ Len(s) \in Nat /\ Len(t) \in Nat
  BY Joined
<1> HIDE DEF u
<1>3. \A i \in 1..k : u[i] = s[i]
  BY <1>1
<1>4. k \in 1..Len(u)
  BY <1>2
<1>5. Stops(u, k)
  BY <1>3 DEF Stops, EndsRecord, TooLong
<1> QED BY <1>4, <1>5 DEF u

LEMMA NextLonger ==
  ASSUME NEW s \in Seq(Lines), NEW t \in Seq(Lines), next(s) # {}
  PROVE  next(s \o t) # {}
<1>1. PICK k \in 1..Len(s) : Stops(s, k)
  BY NextReturns
<1>2. s \o t \in Seq(Lines)
  BY Joined
<1>3. k \in 1..Len(s \o t) /\ Stops(s \o t, k)
  BY <1>1, StopsLonger
<1> QED BY <1>2, <1>3, NextReturns

(* A heartbeat is something to return. *)
LEMMA CommentReturns ==
  ASSUME NEW s \in Seq(Lines)
  PROVE  next(s \o writeSSEComment) # {}
<1> DEFINE t == writeSSEComment
           u == s \o t
           n == Len(s)
<1>1. t \in Seq(Lines) /\ Len(t) = 2 /\ t[1].field = "comment" /\ t[2].field = "blank"
  BY CommentLines DEF writeSSEComment, Line, Blank
<1> HIDE DEF t
<1>2. /\ u \in Seq(Lines) /\ n \in Nat /\ Len(u) = n + 2
      /\ u[n + 1] = t[1] /\ u[n + 2] = t[2]
  <2>1. /\ u \in Seq(Lines) /\ Len(u) = n + Len(t)
        /\ \A i \in 1..Len(t) : u[n + i] = t[i]
    BY <1>1, Joined
  <2>2. 1 \in 1..Len(t) /\ 2 \in 1..Len(t)
    BY <1>1
  <2> HIDE DEF u
  <2> QED BY <1>1, <2>1, <2>2
<1> HIDE DEF u, n
<1>3. n + 1 \in 1..(n + 2) /\ n + 2 \in 1..Len(u)
  BY <1>2
<1>4. EndsRecord(u, n + 2)
  BY <1>1, <1>2, <1>3 DEF EndsRecord, Noted
<1>5. next(u) # {}
  BY <1>2, <1>3, <1>4, NextReturns DEF Stops
<1> QED BY <1>5 DEF u, t

LEMMA BeatSame ==
  ASSUME BeatType, BeatOK, UNCHANGED <<beat, config, idle, wire>>, handler' => handler
  PROVE  BeatType' /\ BeatOK'
BY DEF BeatType, BeatOK

LEMMA BeatNoHandler ==
  ASSUME beat' \in Nat, handler' = FALSE
  PROVE  BeatType' /\ BeatOK'
BY DEF BeatType, BeatOK

LEMMA BusBeat ==
  ASSUME BeatType, BeatOK, StreamOK, BusStep
  PROVE  BeatType' /\ BeatOK'
<1>1. CASE BusConfigures \/ BusListens
  <2>1. handler' = FALSE /\ beat' = beat
    BY <1>1 DEF BusConfigures, BusListens, StreamOK
  <2> QED BY <2>1, BeatNoHandler DEF BeatType
<1>2. CASE BusKilled \/ BusDrained
  <2>1. handler' = FALSE /\ beat' = 0
    BY <1>2 DEF BusKilled, BusDrained, BusGone, HandlerEnds
  <2> QED BY <2>1, BeatNoHandler
<1>3. CASE BusTerminated
  BY <1>3, BeatSame DEF BusTerminated, streamVars, subVars
<1>4. CASE Publish
  <2> DEFINE e == Len(accepted) + 1
  <2>1. /\ e \in Events /\ UNCHANGED <<beat, config, idle, handler>>
        /\ wire' = wire \/ wire' = wire \o writeSSEEvent(e)
    BY <1>4 DEF Publish, subVars
  <2> HIDE DEF e
  <2>2. next(wire) # {} => next(wire') # {}
    BY <2>1, EventLines, NextLonger DEF StreamOK
  <2> QED BY <2>1, <2>2 DEF BeatType, BeatOK
<1> QED BY <1>1, <1>2, <1>3, <1>4 DEF BusStep

LEMMA OpenBeat ==
  ASSUME ConfigOK, NEW from, OpenSucceeds(from), UNCHANGED config
  PROVE  BeatType' /\ BeatOK'
<1>1. beat' = 0 /\ idle' = 0 /\ config.heartbeat \in Nat \ {0}
  BY DEF OpenSucceeds, ConfigOK
<1> QED BY <1>1 DEF BeatType, BeatOK

LEMMA TickBeat ==
  ASSUME BeatType, BeatOK, StreamOK, ConfigOK, SubType, SubOK, Tick
  PROVE  BeatType' /\ BeatOK'
<1>1. CASE ~handler
  <2>1. handler' = FALSE /\ beat' = beat
    BY <1>1 DEF Tick
  <2> QED BY <2>1, BeatNoHandler DEF BeatType
<1>2. CASE handler
  <2> DEFINE hb == config.heartbeat
  <2>1. hb \in Nat \ {0} /\ beat \in Nat /\ beat < hb /\ idle \in Nat
    BY <1>2 DEF ConfigOK, StreamOK, BeatType, SubType, SubOK
  <2>2. /\ config' = config /\ handler' = handler /\ idle' = idle + 1
        /\ beat' = (beat + 1) % hb
        /\ wire' = IF beat' = 0 THEN wire \o writeSSEComment ELSE wire
    BY <1>2 DEF Tick
  <2> HIDE DEF hb
  <2>3. beat' \in 0..(hb - 1)
    BY <2>1, <2>2, Remainder
  <2>4. BeatType'
    BY <2>1, <2>2, <2>3 DEF BeatType, hb
  <2>5. CASE beat' = 0
    <3>1. next(wire') # {}
      BY <2>2, <2>5, CommentReturns DEF StreamOK
    <3> QED BY <2>4, <3>1 DEF BeatOK
  <2>6. CASE beat' # 0
    <3>1. beat + 1 # hb
      BY <2>1, <2>2, <2>6
    <3>2. beat + 1 \in Nat /\ beat + 1 < hb
      BY <2>1, <3>1
    <3>3. beat' = beat + 1
      BY <2>1, <2>2, <3>2, Remainder
    <3> QED BY <1>2, <2>1, <2>2, <2>4, <2>6, <3>3 DEF BeatOK
  <2> QED BY <2>5, <2>6
<1> QED BY <1>1, <1>2

LEMMA ServiceBeat ==
  ASSUME BeatType, BeatOK, StreamOK, ConfigOK, SubType, SubOK, ServiceStep
  PROVE  BeatType' /\ BeatOK'
<1>1. CASE Tick
  BY <1>1, TickBeat
<1>2. CASE \E from : OpenSucceeds(from) /\ UNCHANGED config
  BY <1>2, OpenBeat
<1>3. CASE ReadRecord
  <2>1. idle' = 0 /\ UNCHANGED <<beat, config, handler>>
    BY <1>3 DEF ReadRecord, Reset, busVarsOnly
  <2> QED BY <2>1 DEF BeatType, BeatOK
<1>4. CASE UNCHANGED <<beat, config, handler, idle, wire>>
  BY <1>4, BeatSame
<1>5. CASE handler' = FALSE /\ beat' = beat
  BY <1>5, BeatNoHandler DEF BeatType
<1>6. CASE ServiceStarts
  <2>1. ~handler
    BY <1>6 DEF ServiceStarts, SubType, StreamOK
  <2> QED BY <1>2, <1>4, <1>6 DEF ServiceStarts, Refused, OpenFails
<1>7. CASE Handled \/ ServiceTerminated \/ Leaves \/ ServiceExits \/ HandOver \/ Retry
  BY <1>4, <1>7 DEF Handled, ServiceTerminated, Leaves, ServiceExits, HandOver, Retry,
     busVarsOnly, streamVars, subVars
<1>8. CASE ServiceKilled \/ StreamEnds \/ PumpCancelled \/ WatchdogFires
  BY <1>5, <1>8 DEF ServiceKilled, StreamEnds, PumpCancelled, PumpReturns, WatchdogFires, BodyClosed
<1>9. CASE Reopen
  BY <1>2, <1>4, <1>9 DEF Reopen, OpenFails
<1> QED BY <1>1, <1>3, <1>6, <1>7, <1>8, <1>9 DEF ServiceStep, MainLoop, Goroutine

LEMMA BeatStep ==
  ASSUME BeatType, BeatOK, StreamOK, ConfigOK, SubType, SubOK, [Next]_vars
  PROVE  BeatType' /\ BeatOK'
<1>1. CASE NetworkStep
  <2>1. (handler' = FALSE /\ beat' = beat) \/ UNCHANGED <<beat, config, handler, idle, wire>>
    BY <1>1 DEF NetworkStep, ConnectionLost, NetworkStalls, NetworkRecovers, busVarsOnly, subVars
  <2>2. CASE handler' = FALSE /\ beat' = beat
    BY <2>2, BeatNoHandler DEF BeatType
  <2>3. CASE UNCHANGED <<beat, config, handler, idle, wire>>
    BY <2>3, BeatSame
  <2> QED BY <2>1, <2>2, <2>3
<1>2. CASE UNCHANGED vars
  BY <1>2, BeatSame DEF vars, busVarsOnly, streamVars, subVars
<1> QED BY <1>1, <1>2, BusBeat, ServiceBeat DEF Next

-----------------------------------------------------------------------------
(* What an event is handed over from, and the other variables.             *)
HandType ==
  /\ hand \in Events \cup {0} /\ (hand # 0 <=> sub = "send")
  /\ lastID \in Events \cup {0} /\ got \in Seq(Events)

SwitchType ==
  /\ bus \in {"down", "configured", "up", "draining"}
  /\ end \in {"open", "eof", "error", "closed"} /\ net \in {"ok", "stalled"}
  /\ handler \in BOOLEAN /\ cancelled \in BOOLEAN /\ busy \in BOOLEAN
  /\ troubles \in 0..Troubles

LEMMA TypeParts ==
  ASSUME StreamOK
  PROVE  TypeOK <=> /\ HistoryType /\ SubType /\ BackoffType /\ BeatType
                    /\ HandType /\ SwitchType
BY DEF StreamOK, TypeOK, HistoryType, SubType, BackoffType, BeatType, HandType, SwitchType

LEMMA ZeroIsNoEvent == 0 \notin Events
BY EventsAreRanks

LEMMA Emptied ==
  ASSUME hand' = 0, sub' # "send", lastID' \in Events \cup {0}, got' \in Seq(Events)
  PROVE  HandType'
BY DEF HandType

LEMMA HandStep ==
  ASSUME HandType, SubType, StreamOK, [Next]_vars
  PROVE  HandType'
<1>1. CASE UNCHANGED <<sub, hand, lastID, got>>
  BY <1>1 DEF HandType
<1>2. CASE BusStep \/ NetworkStep \/ UNCHANGED vars
  BY <1>1, <1>2 DEF BusStep, BusConfigures, BusListens, BusKilled, BusTerminated, BusDrained,
     BusGone, Publish, NetworkStep, ConnectionLost, NetworkStalls, NetworkRecovers, vars, subVars
<1>3. CASE Handled \/ ServiceTerminated \/ Leaves \/ WatchdogFires \/ Tick
  BY <1>1, <1>3 DEF Handled, ServiceTerminated, Leaves, WatchdogFires, Tick, subVars
<1>4. CASE ServiceStarts \/ ServiceExits \/ ServiceKilled
  <2>1. hand' = 0 /\ lastID' = 0 /\ got' = <<>> /\ sub' # "send"
    BY <1>4 DEF ServiceStarts, ServiceExits, ServiceKilled, Fresh, SubType
  <2>2. <<>> \in Seq(Events)
    OBVIOUS
  <2> QED BY <2>1, <2>2, Emptied
<1>5. CASE ReadRecord
  <2>1. PICK r \in next(wire) : hand' = r.data /\ sub' = IF r.data = 0 THEN "read" ELSE "send"
    BY <1>5 DEF ReadRecord
  <2>2. r.data \in Events \cup {0}
    BY RecordType DEF StreamOK
  <2>3. UNCHANGED <<lastID, got>>
    BY <1>5 DEF ReadRecord
  <2> QED BY <2>1, <2>2, <2>3 DEF HandType
<1>6. CASE StreamEnds \/ PumpCancelled
  <2>1. hand' = 0 /\ UNCHANGED <<lastID, got>> /\ sub' \in {"wait", "done"}
    BY <1>6 DEF StreamEnds, PumpCancelled, PumpReturns, Ended
  <2> QED BY <2>1, Emptied DEF HandType
<1>7. CASE HandOver
  <2>1. /\ hand \in Events /\ got' = Append(got, hand) /\ lastID' = hand
        /\ hand' = 0 /\ sub' = "read"
    BY <1>7 DEF HandOver, HandType
  <2>2. got' \in Seq(Events)
    BY <2>1 DEF HandType
  <2> QED BY <2>1, <2>2, Emptied
<1>8. CASE Retry \/ Reopen
  <2>1. hand' = hand /\ UNCHANGED <<lastID, got>> /\ sub # "send" /\ sub' # "send"
    BY <1>8 DEF Retry, Reopen, Ended
  <2>2. hand = 0
    BY <2>1 DEF HandType
  <2> QED BY <2>1, <2>2, Emptied DEF HandType
<1> QED BY <1>2, <1>3, <1>4, <1>5, <1>6, <1>7, <1>8 DEF Next, ServiceStep, MainLoop, Goroutine

LEMMA TroubleStep ==
  ASSUME troubles \in 0..Troubles, Trouble \/ UNCHANGED troubles
  PROVE  troubles' \in 0..Troubles
BY TroublesAreNatural DEF Trouble

LEMMA TroubleFrame ==
  ASSUME [Next]_vars
  PROVE  Trouble \/ UNCHANGED troubles
<1>1. CASE BusStep \/ NetworkStep \/ UNCHANGED vars
  BY <1>1 DEF BusStep, BusConfigures, BusListens, BusKilled, BusTerminated, BusDrained, Publish,
     NetworkStep, ConnectionLost, NetworkStalls, NetworkRecovers, vars
<1>2. CASE ServiceStarts \/ Handled \/ ServiceTerminated \/ ServiceKilled \/ MainLoop
           \/ WatchdogFires \/ Tick
  BY <1>2 DEF ServiceStarts, Refused, OpenFails, OpenSucceeds, Handled, ServiceTerminated,
     ServiceKilled, MainLoop, Leaves, ServiceExits, WatchdogFires, Tick
<1>3. CASE Goroutine
  BY <1>3 DEF Goroutine, ReadRecord, StreamEnds, PumpCancelled, PumpReturns, HandOver, Retry,
     Reopen, OpenFails, OpenSucceeds
<1> QED BY <1>1, <1>2, <1>3 DEF Next, ServiceStep

LEMMA SwitchFrame ==
  ASSUME SwitchType, [Next]_vars
  PROVE  /\ bus' \in {"down", "configured", "up", "draining"}
         /\ end' \in {"open", "eof", "error", "closed"} /\ net' \in {"ok", "stalled"}
         /\ handler' \in {TRUE, FALSE, handler} /\ cancelled' \in {TRUE, FALSE, cancelled}
         /\ busy' \in {TRUE, FALSE, busy}
<1> USE DEF SwitchType
<1>1. CASE BusStep
  BY <1>1 DEF BusStep, BusConfigures, BusListens, BusKilled, BusTerminated, BusDrained,
     BusGone, HandlerEnds, Cut, Publish, streamVars, svcVars
<1>2. CASE NetworkStep \/ UNCHANGED vars
  BY <1>2 DEF NetworkStep, ConnectionLost, NetworkStalls, NetworkRecovers, Cut, vars,
     busVarsOnly, streamVars, svcVars
<1>3. CASE ServiceStarts
  BY <1>3 DEF ServiceStarts, Refused, OpenFails, OpenSucceeds, Fresh
<1>4. CASE Handled \/ ServiceTerminated \/ ServiceKilled \/ MainLoop
  BY <1>4 DEF Handled, ServiceTerminated, ServiceKilled, BodyClosed, MainLoop, Leaves,
     ServiceExits, Fresh, busVarsOnly, streamVars
<1>5. CASE WatchdogFires \/ Tick
  BY <1>5 DEF WatchdogFires, Cut, BodyClosed, Tick, svcVars
<1>6. CASE ReadRecord \/ HandOver \/ Retry
  BY <1>6 DEF ReadRecord, HandOver, Retry, busVarsOnly, streamVars, svcVars
<1>7. CASE StreamEnds \/ PumpCancelled
  BY <1>7 DEF StreamEnds, PumpCancelled, PumpReturns, BodyClosed, svcVars
<1>8. CASE Reopen
  BY <1>8 DEF Reopen, OpenFails, OpenSucceeds, svcVars
<1> QED BY <1>1, <1>2, <1>3, <1>4, <1>5, <1>6, <1>7, <1>8 DEF Next, ServiceStep, Goroutine

LEMMA SwitchStep ==
  ASSUME SwitchType, [Next]_vars
  PROVE  SwitchType'
<1>1. troubles' \in 0..Troubles
  BY TroubleFrame, TroubleStep DEF SwitchType
<1>2. handler \in BOOLEAN /\ cancelled \in BOOLEAN /\ busy \in BOOLEAN
  BY DEF SwitchType
<1>3. handler' \in BOOLEAN /\ cancelled' \in BOOLEAN /\ busy' \in BOOLEAN
  BY <1>2, SwitchFrame
<1> QED BY <1>1, <1>3, SwitchFrame DEF SwitchType

-----------------------------------------------------------------------------
(* The invariant holds at the start, and every step keeps it.              *)
LEMMA InitInv == Init => IInv
<1> SUFFICES ASSUME Init PROVE IInv
  OBVIOUS
<1>1. StreamOK
  <2>1. <<>> \in Seq(Lines)
    OBVIOUS
  <2> QED BY <2>1 DEF Init, StreamOK
<1>2. ConfigOK /\ SubOK /\ BeatOK
  BY DEF Init, ConfigOK, SubOK, BeatOK
<1>3. BackoffOK /\ BackoffType
  BY DEF Init, BackoffOK, BackoffType, minBackoff, maxBackoff, FailsCounted
<1>4. HistoryOK /\ HistoryType
  <2>1. <<>> \in Seq(Events)
    OBVIOUS
  <2>2. Cardinality({}) <= DefaultHistory
    BY FS_EmptySet, DefaultsArePositive
  <2> QED BY <2>1, <2>2 DEF Init, HistoryOK, HistoryType
<1>5. SubType /\ BeatType
  <2>1. idle \in 0..idleTimeout /\ beat \in Nat
    BY DEF Init
  <2> QED BY <2>1 DEF Init, SubType, BeatType
<1>6. HandType
  <2>1. <<>> \in Seq(Events)
    OBVIOUS
  <2> QED BY <2>1 DEF Init, HandType
<1>7. SwitchType
  <2>1. troubles \in 0..Troubles
    BY TroublesAreNatural DEF Init
  <2> QED BY <2>1 DEF Init, SwitchType
<1>8. TypeOK
  BY <1>1, <1>3, <1>4, <1>5, <1>6, <1>7, TypeParts
<1> QED BY <1>1, <1>2, <1>3, <1>4, <1>8 DEF IInv

LEMMA StepInv == IInv /\ [Next]_vars => IInv'
<1> SUFFICES ASSUME IInv, [Next]_vars PROVE IInv'
  OBVIOUS
<1>1. TypeOK /\ StreamOK /\ ConfigOK /\ HistoryOK /\ SubOK /\ BackoffOK /\ BeatOK
  BY DEF IInv
<1>2. /\ HistoryType /\ SubType /\ BackoffType /\ BeatType
      /\ HandType /\ SwitchType
  BY <1>1, TypeParts
<1>3. StreamOK'
  BY <1>1, <1>2, StreamStep
<1>4. ConfigOK'
  BY <1>1, ConfigStep
<1>5. HistoryType' /\ HistoryOK'
  BY <1>1, <1>2, HistoryStep
<1>6. SubType' /\ SubOK'
  BY <1>1, <1>2, SubStep
<1>7. BackoffType' /\ BackoffOK'
  BY <1>1, BackoffStep
<1>8. BeatType' /\ BeatOK'
  BY <1>1, <1>2, BeatStep
<1>9. HandType' /\ SwitchType'
  BY <1>1, <1>2, HandStep, SwitchStep
<1>10. TypeOK'
  BY <1>3, <1>5, <1>6, <1>7, <1>8, <1>9
     DEF StreamOK, TypeOK, HistoryType, SubType, BackoffType, BeatType, HandType, SwitchType
<1> QED BY <1>3, <1>4, <1>5, <1>6, <1>7, <1>8, <1>10 DEF IInv

THEOREM IInvHolds == Spec => []IInv
<1>1. QED BY InitInv, StepInv, PTL DEF Spec

(* However the bus, the network and the service fail and start again, every *)
(* variable of the stream and the subscription keeps its range: the history *)
(* stays within the window, and only an open stream has a handler.          *)
THEOREM TypeCorrect == Spec => []TypeOK
<1>1. IInv => TypeOK
  BY DEF IInv
<1> QED BY <1>1, IInvHolds, PTL

(* A service that has subscribed once does not exit with an error, whatever *)
(* becomes of the stream: run clears the error before it closes the channel *)
(* that the main loop takes it for.                                         *)
THEOREM OnlyStartUpFailsHolds == Spec => []OnlyStartUpFails
<1>1. IInv => OnlyStartUpFails
  BY DEF IInv, SubOK, OnlyStartUpFails
<1> QED BY <1>1, IInvHolds, PTL

(* Whatever the environment says, what NewBroker and the client take from   *)
(* it has lengths, intervals and rates that they can run with.              *)
THEOREM RunningIsUsableHolds == Spec => []RunningIsUsable
<1>1. IInv => RunningIsUsable
  <2> SUFFICES ASSUME IInv PROVE RunningIsUsable
    OBVIOUS
  <2>1. svc # "down" => idleTimeout > 0
    BY DEF IInv, TypeOK, SubOK
  <2>2. bus = "configured" => config.heartbeat > 0
    BY DEF IInv, ConfigOK
  <2> QED BY <2>1, <2>2 DEF IInv, ConfigOK, RunningIsUsable
<1> QED BY <1>1, IInvHolds, PTL

(* The client waits min(100 ms * 2^n, 5 s) after the n-th failed attempt to *)
(* connect in a row, for every n and every order of failures and restarts.  *)
THEOREM BackoffFollowsFailuresHolds == Spec => []BackoffFollowsFailures
<1>1. IInv => BackoffFollowsFailures
  BY DEF IInv, BackoffOK, BackoffFollowsFailures
<1> QED BY <1>1, IInvHolds, PTL

(* The watchdog closes no quiet but healthy stream: by the time it fires,   *)
(* the broker has counted as far towards its next heartbeat.                *)
THEOREM WatchdogHasACauseHolds == Spec => WatchdogHasACause
<1> DEFINE Cause ==
      end' = "closed" /\ end # "closed" =>
        \/ sub = "send" \/ net = "stalled" \/ next(wire) # {} \/ end # "open"
        \/ config.heartbeat >= idleTimeout
<1>1. ASSUME IInv, [Next]_vars, end' = "closed", end # "closed" PROVE WatchdogFires
  <2>1. CASE BusStep
    BY <1>1, <2>1 DEF BusStep, BusConfigures, BusListens, BusKilled, BusTerminated, BusDrained,
       BusGone, HandlerEnds, Cut, Publish, streamVars
  <2>2. CASE NetworkStep \/ UNCHANGED vars
    BY <1>1, <2>2 DEF NetworkStep, ConnectionLost, NetworkStalls, NetworkRecovers, Cut, vars,
       streamVars
  <2>3. CASE ServiceStarts \/ Reopen
    BY <1>1, <2>3 DEF ServiceStarts, Refused, Reopen, OpenFails, OpenSucceeds
  <2>4. CASE Handled \/ ServiceTerminated \/ ServiceKilled \/ MainLoop \/ Tick
    BY <1>1, <2>4 DEF Handled, ServiceTerminated, ServiceKilled, MainLoop, Leaves,
       ServiceExits, Tick, streamVars
  <2>5. CASE ReadRecord \/ HandOver \/ Retry \/ StreamEnds \/ PumpCancelled
    BY <1>1, <2>5 DEF ReadRecord, HandOver, Retry, StreamEnds, PumpCancelled, PumpReturns,
       streamVars
  <2> QED BY <1>1, <2>1, <2>2, <2>3, <2>4, <2>5 DEF Next, ServiceStep, Goroutine
<1>2. ASSUME IInv, [Next]_vars, end' = "closed", end # "closed" PROVE Cause
  <2>1. sub \in {"read", "send"} /\ idle = idleTimeout
    BY <1>1, <1>2 DEF WatchdogFires
  <2>2. ASSUME end = "open", next(wire) = {} PROVE config.heartbeat >= idleTimeout
    <3>1. handler /\ idle <= beat /\ beat < config.heartbeat /\ beat \in Nat
      BY <1>2, <2>2 DEF IInv, TypeOK, StreamOK, BeatOK
    <3>2. config.heartbeat \in Nat /\ idle \in Nat
      BY <1>2, <3>1 DEF IInv, TypeOK, StreamOK, ConfigOK, SubOK
    <3> QED BY <2>1, <3>1, <3>2
  <2> QED BY <2>2
<1>3. IInv /\ [Next]_vars => [Cause]_vars
  BY <1>2
<1> QED BY <1>3, IInvHolds, PTL DEF Spec, WatchdogHasACause

-----------------------------------------------------------------------------
(* Lines as the broker writes them: an event is its id, its type, its data *)
(* and a blank line, a heartbeat a comment and a blank line.               *)
Begins(line) == line.field \in {"id", "comment"}

Follows(a, b) ==
  /\ a.field = "id" => b.field = "event" /\ b.event = a.event
  /\ a.field = "event" => b.field = "data" /\ b.event = a.event
  /\ a.field \in {"data", "comment"} => b.field = "blank"
  /\ a.field = "blank" => Begins(b)

Framed(w) ==
  /\ w # <<>> => Begins(w[1])
  /\ \A i, j \in 1..Len(w) : j = i + 1 => Follows(w[i], w[j])

(* The events come in their order, and lie between two others.             *)
Carries(w, i) == i \in 1..Len(w) /\ w[i].field = "data"

Ascending(w) ==
  \A i, j \in 1..Len(w) : Carries(w, i) /\ Carries(w, j) /\ i < j => w[i].event < w[j].event

Within(w, low, high) ==
  \A i \in 1..Len(w) : Carries(w, i) => low < w[i].event /\ w[i].event <= high

(* No record of it is cut.                                                 *)
Whole(w) == w # <<>> => w[Len(w)].field = "blank"

Brought(w) == {w[i].event : i \in {j \in 1..(Len(w) - 1) : w[j].field = "data"}}

(* The event that the consumer or the goroutine has got as far as.         *)
Reached == IF hand # 0 THEN hand ELSE lastID

(* What is on the way comes after what was handed over, and was accepted;  *)
(* a stream that was not cut consists of whole records.                    *)
WireOK ==
  /\ Framed(wire) /\ Ascending(wire) /\ Within(wire, Reached, Len(accepted))
  /\ handler => Whole(wire)
  /\ sub \notin {"read", "send"} => wire = <<>>

ResumeOK ==
  /\ lastID = IF got = <<>> THEN 0 ELSE got[Len(got)]
  /\ lastID <= Reached /\ Reached <= Len(accepted)
  /\ hand # 0 => lastID < hand
  /\ svc = "down" => got = <<>>

(* The broker retains the newest events.                                   *)
KeptOK == \A d, e \in 1..Len(accepted) : d \in kept /\ d < e => e \in kept

ArrivalOK == WireOK /\ ResumeOK /\ KeptOK

-----------------------------------------------------------------------------
LEMMA LineEvent ==
  ASSUME NEW line \in Lines
  PROVE  line.event \in Nat
<1>1. line.event \in Events \cup {0}
  BY DEF Lines
<1>2. \A e \in Events \cup {0} : e \in Nat
  BY EventsAreRanks
<1> QED BY <1>1, <1>2

(* What is left of a stream that is cut. *)
LEMMA FirstLines ==
  ASSUME NEW w \in Seq(Lines), NEW l \in 0..Len(w)
  PROVE  /\ SubSeq(w, 1, l) \in Seq(Lines) /\ Len(SubSeq(w, 1, l)) = l
         /\ \A i \in 1..l : SubSeq(w, 1, l)[i] = w[i] /\ i \in 1..Len(w)
<1>1. l \in Nat /\ Len(w) \in Nat /\ l <= Len(w)
  OBVIOUS
<1>2. SubSeq(w, 1, l) \in Seq(Lines) /\ Len(SubSeq(w, 1, l)) = l
  BY <1>1, SubSeqProperties
<1>3. ASSUME NEW i \in 1..l PROVE SubSeq(w, 1, l)[i] = w[i] /\ i \in 1..Len(w)
  BY <1>1
<1> QED BY <1>2, <1>3

LEMMA CutKeepsOrder ==
  ASSUME NEW w \in Seq(Lines), NEW low \in Nat, NEW high \in Nat,
         Framed(w), Ascending(w), Within(w, low, high),
         NEW l \in 0..Len(w), NEW v, v = SubSeq(w, 1, l)
  PROVE  Framed(v) /\ Ascending(v) /\ Within(v, low, high)
<1>1. Len(v) = l /\ \A i \in 1..l : v[i] = w[i] /\ i \in 1..Len(w)
  BY FirstLines
<1>2. l \in Nat /\ (v # <<>> => 1 \in 1..l)
  <2>1. v \in Seq(Lines)
    BY FirstLines
  <2>2. v # <<>> => Len(v) # 0
    BY <2>1
  <2> QED BY <1>1, <2>2
<1>3. Framed(v)
  <2>1. v # <<>> => Begins(v[1])
    <3>1. CASE v # <<>>
      <4>1. w # <<>> /\ v[1] = w[1]
        BY <1>1, <1>2, <3>1
      <4> QED BY <4>1 DEF Framed
    <3> QED BY <3>1
  <2> QED BY <1>1, <2>1 DEF Framed
<1>4. \A i \in 1..l : Carries(v, i) => Carries(w, i) /\ v[i] = w[i] /\ i \in 1..Len(w)
  BY <1>1 DEF Carries
<1>5. Ascending(v)
  <2> SUFFICES ASSUME NEW i \in 1..l, NEW j \in 1..l, Carries(v, i), Carries(v, j), i < j
               PROVE  v[i].event < v[j].event
    BY <1>1 DEF Ascending
  <2>1. Carries(w, i) /\ v[i] = w[i] /\ i \in 1..Len(w)
    BY <1>4
  <2>2. Carries(w, j) /\ v[j] = w[j] /\ j \in 1..Len(w)
    BY <1>4
  <2>3. w[i].event < w[j].event
    BY <2>1, <2>2 DEF Ascending
  <2> QED BY <2>1, <2>2, <2>3
<1>6. Within(v, low, high)
  BY <1>1, <1>4 DEF Within
<1> QED BY <1>3, <1>5, <1>6

(* All that the cut has left, or what is before the first event it took.   *)
LEMMA CutBrings ==
  ASSUME NEW w \in Seq(Lines), NEW low \in Nat, NEW high \in Nat,
         Ascending(w), Within(w, low, high),
         NEW l \in 0..Len(w), NEW v, v = SubSeq(w, 1, l)
  PROVE  \/ Brought(v) = Brought(w)
         \/ \E b \in Brought(w) : Brought(v) = {e \in Brought(w) : e < b}
<1> DEFINE T == {i \in 1..(Len(w) - 1) : w[i].field = "data" /\ i > l - 1}
<1>1. /\ Len(v) = l /\ \A i \in 1..l : v[i] = w[i] /\ i \in 1..Len(w)
      /\ l \in Nat /\ Len(w) \in Nat /\ l <= Len(w)
  BY FirstLines
<1>2. CASE T = {}
  <2>1. \A i \in 1..(Len(w) - 1) : w[i].field = "data" => i \in 1..(l - 1)
    <3> SUFFICES ASSUME NEW i \in 1..(Len(w) - 1), w[i].field = "data"
                 PROVE  i \in 1..(l - 1)
      OBVIOUS
    <3>1. ~(i > l - 1)
      BY <1>2
    <3> QED BY <1>1, <3>1
  <2>2. \A i \in 1..(l - 1) : i \in 1..(Len(w) - 1) /\ v[i] = w[i]
    BY <1>1
  <2>3. {i \in 1..(l - 1) : v[i].field = "data"} = {i \in 1..(Len(w) - 1) : w[i].field = "data"}
    BY <2>1, <2>2
  <2>4. Brought(v) = Brought(w)
    BY <1>1, <2>2, <2>3 DEF Brought
  <2> QED BY <2>4
<1>3. CASE T # {}
  <2>1. T \in SUBSET Nat
    OBVIOUS
  <2>2. PICK m \in T : \A i \in T : m <= i
    BY <1>3, <2>1, Least
  <2>3. m \in 1..(Len(w) - 1) /\ w[m].field = "data" /\ m > l - 1
    BY <2>2
  <2>4. w[m].event \in Brought(w)
    BY <2>3 DEF Brought
  <2>5. ASSUME NEW i \in 1..(Len(w) - 1), w[i].field = "data"
        PROVE  w[i].event < w[m].event <=> i \in 1..(l - 1)
    <3>1. Carries(w, i) /\ Carries(w, m) /\ i \in 1..Len(w) /\ m \in 1..Len(w)
      BY <1>1, <2>3, <2>5 DEF Carries
    <3>2. w[i].event \in Nat /\ w[m].event \in Nat
      BY <3>1, LineEvent
    <3>3. i < m => w[i].event < w[m].event
      BY <3>1 DEF Ascending
    <3>4. m < i => w[m].event < w[i].event
      BY <3>1 DEF Ascending
    <3>5. i \notin 1..(l - 1) => m <= i
      BY <1>1, <2>2, <2>5
    <3>6. i = m => ~(w[i].event < w[m].event)
      BY <3>2
    <3>7. i < m \/ i = m \/ m < i
      BY <3>1
    <3>8. i \in 1..(l - 1) => i < m
      BY <1>1, <2>3
    <3> QED BY <3>1, <3>2, <3>3, <3>4, <3>5, <3>6, <3>7, <3>8
  <2>6. \A i \in 1..(l - 1) : i \in 1..(Len(w) - 1) /\ v[i] = w[i]
    BY <1>1
  <2>7. ASSUME NEW e PROVE e \in Brought(v) <=> e \in Brought(w) /\ e < w[m].event
    <3>1. e \in Brought(v) <=> \E i \in 1..(l - 1) : v[i].field = "data" /\ e = v[i].event
      BY <1>1 DEF Brought
    <3>2. e \in Brought(w) <=> \E i \in 1..(Len(w) - 1) : w[i].field = "data" /\ e = w[i].event
      BY DEF Brought
    <3> QED BY <2>5, <2>6, <3>1, <3>2
  <2>8. Brought(v) = {e \in Brought(w) : e < w[m].event}
    BY <2>7
  <2> QED BY <2>4, <2>8
<1> QED BY <1>2, <1>3

(* Whole records bring all events whose data is in them.                   *)
LEMMA WholeBrings ==
  ASSUME NEW w \in Seq(Lines), Whole(w), NEW e
  PROVE  e \in Brought(w) <=> \E i \in 1..Len(w) : Carries(w, i) /\ e = w[i].event
<1>1. PICK n \in Nat : n = Len(w)
  OBVIOUS
<1>2. ASSUME NEW i \in 1..n, Carries(w, i) PROVE i \in 1..(n - 1)
  <2>1. w # <<>> /\ w[i].field # "blank"
    BY <1>1, <1>2 DEF Carries
  <2>2. i # n
    BY <1>1, <2>1 DEF Whole
  <2> QED BY <2>2
<1>3. \A i \in 1..(n - 1) : w[i].field = "data" => Carries(w, i) /\ i \in 1..n
  BY <1>1 DEF Carries
<1>4. \A i \in 1..n : Carries(w, i) => w[i].field = "data"
  BY DEF Carries
<1>5. e \in Brought(w) <=> \E i \in 1..(n - 1) : w[i].field = "data" /\ e = w[i].event
  BY <1>1 DEF Brought
<1> QED BY <1>1, <1>2, <1>3, <1>4, <1>5

(* What is written behind whole records.                                   *)
LEMMA JoinKeepsOrder ==
  ASSUME NEW s \in Seq(Lines), NEW t \in Seq(Lines), NEW low \in Nat, NEW mid \in Nat,
         NEW high \in Nat, low <= mid, mid <= high,
         Framed(s), Ascending(s), Within(s, low, mid), Whole(s),
         Framed(t), Ascending(t), Within(t, mid, high), Whole(t), t # <<>>,
         NEW u \in Seq(Lines), Len(u) = Len(s) + Len(t),
         \A i \in 1..Len(s) : u[i] = s[i],
         \A i \in 1..Len(t) : u[Len(s) + i] = t[i]
  PROVE  /\ Framed(u) /\ Ascending(u) /\ Within(u, low, high) /\ Whole(u)
         /\ Brought(u) = Brought(s) \cup Brought(t)
<1>1. PICK n \in Nat, m \in Nat : n = Len(s) /\ m = Len(t)
  OBVIOUS
<1>2. /\ u \in Seq(Lines) /\ Len(u) = n + m
      /\ \A i \in 1..n : u[i] = s[i]
      /\ \A i \in 1..m : u[n + i] = t[i]
  BY <1>1
<1>3. m # 0 /\ (s = <<>> <=> n = 0)
  BY <1>1
<1>4. ASSUME NEW i \in 1..(n + m), i \notin 1..n
      PROVE  i - n \in 1..m /\ u[i] = t[i - n]
  <2>1. i - n \in 1..m /\ n + (i - n) = i
    BY <1>4
  <2> QED BY <1>2, <2>1
<1>5. Framed(u)
  <2>1. Begins(u[1])
    <3>1. CASE n = 0
      <4>1. 1 \in 1..m /\ 1 \notin 1..n /\ 1 \in 1..(n + m) /\ 1 - n = 1
        BY <1>3, <3>1
      <4>2. u[1] = t[1]
        BY <1>4, <4>1
      <4> QED BY <4>2 DEF Framed
    <3>2. CASE n # 0
      <4>1. 1 \in 1..n
        BY <3>2
      <4> QED BY <1>2, <1>3, <3>2, <4>1 DEF Framed
    <3> QED BY <3>1, <3>2
  <2>2. ASSUME NEW i \in 1..(n + m), NEW j \in 1..(n + m), j = i + 1
        PROVE  Follows(u[i], u[j])
    <3>1. CASE j \in 1..n
      <4>1. i \in 1..n
        BY <2>2, <3>1
      <4> QED BY <1>1, <1>2, <2>2, <3>1, <4>1 DEF Framed
    <3>2. CASE i \notin 1..n
      <4>1. j \notin 1..n /\ j - n = (i - n) + 1
        BY <2>2, <3>2
      <4>2. u[i] = t[i - n] /\ u[j] = t[j - n] /\ i - n \in 1..m /\ j - n \in 1..m
        BY <1>4, <3>2, <4>1
      <4> QED BY <1>1, <4>1, <4>2 DEF Framed
    <3>3. CASE i \in 1..n /\ j \notin 1..n
      <4>1. i = n /\ j - n = 1 /\ n # 0
        BY <2>2, <3>3
      <4>2. u[i] = s[n] /\ u[j] = t[1]
        BY <1>2, <1>4, <3>3, <4>1
      <4>3. s[n].field = "blank" /\ Begins(t[1])
        BY <1>1, <1>3, <4>1 DEF Whole, Framed
      <4> QED BY <4>2, <4>3 DEF Follows
    <3> QED BY <3>1, <3>2, <3>3
  <2> QED BY <1>2, <2>1, <2>2 DEF Framed
<1>6. ASSUME NEW i, Carries(u, i)
      PROVE  /\ i \in 1..n => Carries(s, i) /\ u[i] = s[i]
             /\ i \notin 1..n => Carries(t, i - n) /\ u[i] = t[i - n]
  BY <1>1, <1>2, <1>4, <1>6 DEF Carries
<1>7. \A i \in 1..n : Carries(s, i) => s[i].event \in Nat /\ s[i].event <= mid /\ low < s[i].event
  <2> SUFFICES ASSUME NEW i \in 1..n, Carries(s, i)
               PROVE  s[i].event \in Nat /\ s[i].event <= mid /\ low < s[i].event
    OBVIOUS
  <2>1. s[i] \in Lines
    BY <1>1
  <2> QED BY <1>1, <2>1, LineEvent DEF Within
<1>8. \A i \in 1..m : Carries(t, i) => t[i].event \in Nat /\ t[i].event <= high /\ mid < t[i].event
  <2> SUFFICES ASSUME NEW i \in 1..m, Carries(t, i)
               PROVE  t[i].event \in Nat /\ t[i].event <= high /\ mid < t[i].event
    OBVIOUS
  <2>1. t[i] \in Lines
    BY <1>1
  <2> QED BY <1>1, <2>1, LineEvent DEF Within
<1>9. Within(u, low, high)
  <2> SUFFICES ASSUME NEW i \in 1..(n + m), Carries(u, i)
               PROVE  low < u[i].event /\ u[i].event <= high
    BY <1>2 DEF Within
  <2>1. CASE i \in 1..n
    <3>1. u[i].event \in Nat /\ u[i].event <= mid /\ low < u[i].event
      BY <1>6, <1>7, <2>1
    <3>2. \A x \in Nat : x <= mid => x <= high
      OBVIOUS
    <3> QED BY <3>1, <3>2
  <2>2. CASE i \notin 1..n
    <3>1. u[i].event \in Nat /\ u[i].event <= high /\ mid < u[i].event
      BY <1>4, <1>6, <1>8, <2>2
    <3>2. \A x \in Nat : mid < x => low < x
      OBVIOUS
    <3> QED BY <3>1, <3>2
  <2> QED BY <2>1, <2>2
<1>10. Ascending(u)
  <2> SUFFICES ASSUME NEW i \in 1..(n + m), NEW j \in 1..(n + m),
                      Carries(u, i), Carries(u, j), i < j
               PROVE  u[i].event < u[j].event
    BY <1>2 DEF Ascending
  <2>1. CASE j \in 1..n
    <3>1. i \in 1..n
      BY <2>1
    <3>2. Carries(s, i) /\ Carries(s, j) /\ u[i] = s[i] /\ u[j] = s[j]
      BY <1>6, <2>1, <3>1
    <3> QED BY <1>1, <2>1, <3>1, <3>2 DEF Ascending
  <2>2. CASE i \notin 1..n
    <3>1. j \notin 1..n /\ i - n < j - n
      BY <2>2
    <3>2. Carries(t, i - n) /\ Carries(t, j - n) /\ u[i] = t[i - n] /\ u[j] = t[j - n]
      BY <1>6, <2>2, <3>1
    <3>3. i - n \in 1..m /\ j - n \in 1..m
      BY <1>4, <2>2, <3>1
    <3> QED BY <1>1, <3>1, <3>2, <3>3 DEF Ascending
  <2>3. CASE i \in 1..n /\ j \notin 1..n
    <3>1. /\ u[i].event \in Nat /\ u[i].event <= mid
      BY <1>6, <1>7, <2>3
    <3>2. u[j].event \in Nat /\ mid < u[j].event
      BY <1>4, <1>6, <1>8, <2>3
    <3>3. \A x, y \in Nat : x <= mid /\ mid < y => x < y
      OBVIOUS
    <3> QED BY <3>1, <3>2, <3>3
  <2> QED BY <2>1, <2>2, <2>3
<1>11. Whole(u)
  <2>1. n + m \in 1..(n + m) /\ n + m \notin 1..n /\ (n + m) - n = m
    BY <1>3
  <2>2. u[n + m] = t[m]
    BY <1>4, <2>1
  <2> QED BY <1>1, <1>2, <2>2 DEF Whole
<1>12. ASSUME NEW e PROVE e \in Brought(u) <=> e \in Brought(s) \cup Brought(t)
  <2>1. e \in Brought(s) <=> \E i \in 1..n : Carries(s, i) /\ e = s[i].event
    BY <1>1, WholeBrings
  <2>2. e \in Brought(t) <=> \E i \in 1..m : Carries(t, i) /\ e = t[i].event
    BY <1>1, WholeBrings
  <2>3. e \in Brought(u) <=> \E i \in 1..(n + m) : Carries(u, i) /\ e = u[i].event
    <3>1. e \in Brought(u) <=> \E i \in 1..Len(u) : Carries(u, i) /\ e = u[i].event
      <4>1. PICK v \in Seq(Lines) : v = u
        OBVIOUS
      <4>2. Whole(v)
        BY <1>11, <4>1
      <4>3. e \in Brought(v) <=> \E i \in 1..Len(v) : Carries(v, i) /\ e = v[i].event
        BY <4>2, WholeBrings
      <4> QED BY <4>1, <4>3
    <3> QED BY <1>2, <3>1
  <2>4. ASSUME NEW i \in 1..n, Carries(s, i)
        PROVE  Carries(u, i) /\ u[i] = s[i] /\ i \in 1..(n + m)
    BY <1>2, <2>4 DEF Carries
  <2>5. ASSUME NEW i \in 1..m, Carries(t, i)
        PROVE  Carries(u, n + i) /\ u[n + i] = t[i] /\ n + i \in 1..(n + m)
    BY <1>2, <2>5 DEF Carries
  <2>6. ASSUME e \in Brought(s) \cup Brought(t) PROVE e \in Brought(u)
    BY <2>1, <2>2, <2>3, <2>4, <2>5, <2>6
  <2>7. ASSUME e \in Brought(u) PROVE e \in Brought(s) \cup Brought(t)
    <3>1. PICK i \in 1..(n + m) : Carries(u, i) /\ e = u[i].event
      BY <2>3, <2>7
    <3>2. CASE i \in 1..n
      BY <1>6, <2>1, <3>1, <3>2
    <3>3. CASE i \notin 1..n
      BY <1>4, <1>6, <2>2, <3>1, <3>3
    <3> QED BY <3>2, <3>3
  <2> QED BY <2>6, <2>7
<1> QED BY <1>5, <1>9, <1>10, <1>11, <1>12

(* What the broker writes: an event, a heartbeat, and what is replayed.    *)
Record(w, low, high) == Framed(w) /\ Ascending(w) /\ Within(w, low, high) /\ Whole(w)

LEMMA EventRecord ==
  ASSUME NEW e \in Events, NEW low \in Nat, low < e, NEW w, w = writeSSEEvent(e)
  PROVE  Record(w, low, e) /\ w # <<>> /\ Brought(w) = {e}
<1>1. e \in Nat
  BY EventsAreRanks
<1>2. /\ w \in Seq(Lines) /\ Len(w) = 4
      /\ w[1].field = "id" /\ w[2].field = "event" /\ w[3].field = "data" /\ w[4].field = "blank"
      /\ w[1].event = e /\ w[2].event = e /\ w[3].event = e
  BY EventLines DEF writeSSEEvent, Line, Blank
<1>3. \A i \in 1..4 : i = 1 \/ i = 2 \/ i = 3 \/ i = 4
  OBVIOUS
<1>4. w # <<>>
  <2>1. w \in Seq(Lines) /\ Len(w) # 0
    BY <1>2
  <2> QED BY <2>1
<1>5. \A i \in 1..4 : Carries(w, i) => i = 3
  BY <1>2, <1>3 DEF Carries
<1>6. Framed(w)
  <2>1. Follows(w[1], w[2]) /\ Follows(w[2], w[3]) /\ Follows(w[3], w[4])
    BY <1>2 DEF Follows
  <2>2. \A i, j \in 1..4 : j = i + 1 => \/ i = 1 /\ j = 2
                                        \/ i = 2 /\ j = 3
                                        \/ i = 3 /\ j = 4
    OBVIOUS
  <2> QED BY <1>2, <2>1, <2>2 DEF Framed, Begins
<1>7. Ascending(w)
  <2>1. \A i, j \in 1..4 : Carries(w, i) /\ Carries(w, j) => ~(i < j)
    BY <1>5
  <2> QED BY <1>2, <2>1 DEF Ascending
<1>8. Within(w, low, e)
  BY <1>1, <1>2, <1>5 DEF Within
<1>9. Whole(w)
  BY <1>2 DEF Whole
<1>10. Brought(w) = {e}
  <2>1. Carries(w, 3) /\ 3 \in 1..4
    BY <1>2 DEF Carries
  <2>2. ASSUME NEW d PROVE d \in Brought(w) <=> d = e
    <3>1. d \in Brought(w) <=> \E i \in 1..4 : Carries(w, i) /\ d = w[i].event
      BY <1>2, <1>9, WholeBrings
    <3> QED BY <1>2, <1>5, <2>1, <3>1
  <2> QED BY <2>2
<1> QED BY <1>4, <1>6, <1>7, <1>8, <1>9, <1>10 DEF Record

LEMMA CommentRecord ==
  ASSUME NEW low \in Nat, NEW high \in Nat, NEW w, w = writeSSEComment
  PROVE  Record(w, low, high) /\ w # <<>> /\ Brought(w) = {}
<1>1. /\ w \in Seq(Lines) /\ Len(w) = 2 /\ w[1].field = "comment" /\ w[2].field = "blank"
  BY CommentLines DEF writeSSEComment, Line, Blank
<1>2. \A i \in 1..2 : i = 1 \/ i = 2
  OBVIOUS
<1>3. \A i \in 1..2 : ~Carries(w, i)
  BY <1>1, <1>2 DEF Carries
<1>4. Framed(w)
  <2>1. Follows(w[1], w[2])
    BY <1>1 DEF Follows
  <2>2. \A i, j \in 1..2 : j = i + 1 => i = 1 /\ j = 2
    OBVIOUS
  <2> QED BY <1>1, <2>1, <2>2 DEF Framed, Begins
<1>5. Ascending(w) /\ Within(w, low, high)
  BY <1>1, <1>3 DEF Ascending, Within
<1>6. Whole(w) /\ w # <<>>
  <2>1. w \in Seq(Lines) /\ Len(w) # 0
    BY <1>1
  <2>2. w # <<>>
    BY <2>1
  <2> QED BY <1>1, <2>2 DEF Whole
<1>7. ASSUME NEW d PROVE d \notin Brought(w)
  BY <1>1, <1>3, <1>6, WholeBrings
<1> QED BY <1>4, <1>5, <1>6, <1>7 DEF Record

LEMMA EmptyRecord ==
  ASSUME NEW low, NEW high, NEW w, w = <<>>
  PROVE  w \in Seq(Lines) /\ Record(w, low, high) /\ Brought(w) = {}
<1>1. w \in Seq(Lines) /\ Len(w) = 0
  OBVIOUS
<1>2. \A i \in 1..Len(w) : FALSE
  BY <1>1
<1>3. \A i \in 1..(Len(w) - 1) : FALSE
  BY <1>1
<1>4. Brought(w) = {}
  BY <1>3 DEF Brought
<1> QED BY <1>1, <1>2, <1>4 DEF Record, Framed, Ascending, Within, Whole

LEMMA ReplayRecord ==
  ASSUME NEW es \in Seq(Events), NEW low \in Nat, \A i \in 1..Len(es) : es[i] = low + i,
         NEW w, w = writeSSEEvents(es)
  PROVE  /\ w \in Seq(Lines) /\ Record(w, low, low + Len(es))
         /\ \A e \in Nat : e \in Brought(w) <=> low < e /\ e <= low + Len(es)
<1>1. PICK n \in Nat : n = Len(es)
  OBVIOUS
<1>2. w \in Seq(Lines) /\ Len(w) = 4 * n
  BY <1>1, StreamLines
<1>3. ASSUME NEW e \in Events
      PROVE  LET t == writeSSEEvent(e)
             IN /\ t[1].field = "id" /\ t[2].field = "event" /\ t[3].field = "data"
                /\ t[4].field = "blank"
                /\ t[1].event = e /\ t[2].event = e /\ t[3].event = e
  BY DEF writeSSEEvent, Line, Blank
<1>4. ASSUME NEW q \in 1..n, NEW r \in 1..4
       PROVE  4 * (q - 1) + r \in 1..(4 * n) /\ w[4 * (q - 1) + r] = writeSSEEvent(es[q])[r]
  <2>1. PICK i : i = 4 * (q - 1) + r
    OBVIOUS
  <2>2. i \in 1..(4 * n) /\ (i + 3) \div 4 = q /\ ((i + 3) % 4) + 1 = r
    BY <2>1
  <2> QED BY <1>1, <2>1, <2>2 DEF writeSSEEvents
<1>5. ASSUME NEW i \in 1..(4 * n)
      PROVE  \E q \in 1..n, r \in 1..4 : /\ i = 4 * (q - 1) + r
                                         /\ w[i] = writeSSEEvent(es[q])[r] /\ es[q] \in Events
  <2>1. PICK q, r : q = (i + 3) \div 4 /\ r = ((i + 3) % 4) + 1
    OBVIOUS
  <2>2. q \in 1..n /\ r \in 1..4 /\ i = 4 * (q - 1) + r
    BY <2>1
  <2>3. w[i] = writeSSEEvent(es[q])[r]
    BY <2>2, <1>4
  <2>4. es[q] \in Events
    BY <1>1, <2>2
  <2> QED BY <2>2, <2>3, <2>4
<1>6. \A r \in 1..4 : r = 1 \/ r = 2 \/ r = 3 \/ r = 4
  OBVIOUS
<1>7. ASSUME NEW i \in 1..(4 * n), Carries(w, i)
      PROVE  \E q \in 1..n : i = 4 * (q - 1) + 3 /\ w[i].event = low + q
  <2>1. PICK q \in 1..n, r \in 1..4 : /\ i = 4 * (q - 1) + r
                                      /\ w[i] = writeSSEEvent(es[q])[r] /\ es[q] \in Events
    BY <1>5
  <2>2. w[i].field = "data"
    BY <1>7 DEF Carries
  <2>3. r = 3
    BY <1>3, <1>6, <2>1, <2>2
  <2>4. w[i].event = es[q]
    BY <1>3, <2>1, <2>3
  <2> QED BY <1>1, <2>1, <2>3, <2>4
<1>8. ASSUME NEW q \in 1..n
      PROVE  LET i == 4 * (q - 1) + 3 IN i \in 1..(4 * n) /\ Carries(w, i) /\ w[i].event = low + q
  <2>1. PICK i : i = 4 * (q - 1) + 3
    OBVIOUS
  <2>2. i \in 1..(4 * n) /\ w[i] = writeSSEEvent(es[q])[3]
    <3>1. 3 \in 1..4
      OBVIOUS
    <3>2. 4 * (q - 1) + 3 \in 1..(4 * n) /\ w[4 * (q - 1) + 3] = writeSSEEvent(es[q])[3]
      BY <1>4, <3>1
    <3> QED BY <2>1, <3>2
  <2>3. es[q] \in Events /\ es[q] = low + q
    BY <1>1
  <2>4. w[i].field = "data" /\ w[i].event = low + q
    BY <1>3, <2>2, <2>3
  <2> QED BY <1>2, <2>1, <2>2, <2>4 DEF Carries
<1>9. Framed(w)
  <2>1. ASSUME w # <<>> PROVE Begins(w[1])
    <3>1. n # 0
      BY <1>2, <2>1
    <3>2. 1 \in 1..n /\ 1 \in 1..4 /\ 1 = 4 * (1 - 1) + 1
      BY <3>1
    <3>3. w[1] = writeSSEEvent(es[1])[1] /\ es[1] \in Events
      <4>1. w[4 * (1 - 1) + 1] = writeSSEEvent(es[1])[1]
        BY <1>4, <3>2
      <4>2. es[1] \in Events
        BY <1>1, <3>2
      <4> QED BY <3>2, <4>1, <4>2
    <3> QED BY <1>3, <3>3 DEF Begins
  <2>2. ASSUME NEW i \in 1..(4 * n), NEW j \in 1..(4 * n), j = i + 1
        PROVE  Follows(w[i], w[j])
    <3>1. PICK q \in 1..n, r \in 1..4 : /\ i = 4 * (q - 1) + r
                                        /\ w[i] = writeSSEEvent(es[q])[r] /\ es[q] \in Events
      BY <1>5
    <3>2. PICK p \in 1..n, s \in 1..4 : /\ j = 4 * (p - 1) + s
                                        /\ w[j] = writeSSEEvent(es[p])[s] /\ es[p] \in Events
      BY <1>5
    <3>3. (r # 4 => p = q /\ s = r + 1) /\ (r = 4 => s = 1)
      BY <2>2, <3>1, <3>2
    <3>4. CASE r = 4
      <4>1. w[i].field = "blank" /\ w[j].field = "id"
        BY <1>3, <3>1, <3>2, <3>3, <3>4
      <4> QED BY <4>1 DEF Follows, Begins
    <3>5. CASE r = 1
      <4>1. w[i].field = "id" /\ w[j].field = "event" /\ w[j].event = w[i].event
        BY <1>3, <3>1, <3>2, <3>3, <3>5
      <4> QED BY <4>1 DEF Follows
    <3>6. CASE r = 2
      <4>1. w[i].field = "event" /\ w[j].field = "data" /\ w[j].event = w[i].event
        BY <1>3, <3>1, <3>2, <3>3, <3>6
      <4> QED BY <4>1 DEF Follows
    <3>7. CASE r = 3
      <4>1. w[i].field = "data" /\ w[j].field = "blank"
        BY <1>3, <3>1, <3>2, <3>3, <3>7
      <4> QED BY <4>1 DEF Follows
    <3> QED BY <1>6, <3>4, <3>5, <3>6, <3>7
  <2> QED BY <1>2, <2>1, <2>2 DEF Framed
<1>10. Ascending(w)
  <2> SUFFICES ASSUME NEW i \in 1..(4 * n), NEW j \in 1..(4 * n),
                      Carries(w, i), Carries(w, j), i < j
               PROVE  w[i].event < w[j].event
    BY <1>2 DEF Ascending
  <2>1. PICK q \in 1..n : i = 4 * (q - 1) + 3 /\ w[i].event = low + q
    BY <1>7
  <2>2. PICK p \in 1..n : j = 4 * (p - 1) + 3 /\ w[j].event = low + p
    BY <1>7
  <2>3. q < p
    BY <2>1, <2>2
  <2> QED BY <2>1, <2>2, <2>3
<1>11. Within(w, low, low + n)
  <2> SUFFICES ASSUME NEW i \in 1..(4 * n), Carries(w, i)
               PROVE  low < w[i].event /\ w[i].event <= low + n
    BY <1>2 DEF Within
  <2>1. PICK q \in 1..n : w[i].event = low + q
    BY <1>7
  <2> QED BY <2>1
<1>12. Whole(w)
  <2> SUFFICES ASSUME w # <<>> PROVE w[4 * n].field = "blank"
    BY <1>2 DEF Whole
  <2>1. n # 0
    BY <1>2
  <2>2. n \in 1..n /\ 4 \in 1..4 /\ 4 * n = 4 * (n - 1) + 4
    BY <2>1
  <2>3. w[4 * n] = writeSSEEvent(es[n])[4] /\ es[n] \in Events
    BY <1>1, <2>2, <1>4
  <2> QED BY <1>3, <2>3
<1>13. ASSUME NEW e \in Nat
       PROVE  e \in Brought(w) <=> low < e /\ e <= low + n
  <2>1. e \in Brought(w) <=> \E i \in 1..(4 * n) : Carries(w, i) /\ e = w[i].event
    <3>1. e \in Brought(w) <=> \E i \in 1..Len(w) : Carries(w, i) /\ e = w[i].event
      BY <1>2, <1>12, WholeBrings
    <3> QED BY <1>2, <3>1
  <2>2. ASSUME e \in Brought(w) PROVE low < e /\ e <= low + n
    <3>1. PICK i \in 1..(4 * n) : Carries(w, i) /\ e = w[i].event
      BY <2>1, <2>2
    <3>2. PICK q \in 1..n : w[i].event = low + q
      BY <1>7, <3>1
    <3> QED BY <3>1, <3>2
  <2>3. ASSUME low < e, e <= low + n PROVE e \in Brought(w)
    <3>1. PICK q \in 1..n : e = low + q
      <4>1. e - low \in 1..n /\ e = low + (e - low)
        BY <2>3
      <4> QED BY <4>1
    <3>2. PICK i : i = 4 * (q - 1) + 3
      OBVIOUS
    <3>3. i \in 1..(4 * n) /\ Carries(w, i) /\ w[i].event = low + q
      BY <1>8, <3>2
    <3> QED BY <2>1, <3>1, <3>3
  <2> QED BY <2>2, <2>3
<1> QED BY <1>1, <1>2, <1>9, <1>10, <1>11, <1>12, <1>13 DEF Record

(* One record is read: a heartbeat, or the first of the events.            *)
LEMMA RecordRead ==
  ASSUME NEW w \in Seq(Lines), Framed(w), NEW r \in next(w), r.is = "record"
  PROVE  /\ r.lines \in 1..Len(w) /\ w[r.lines].field = "blank"
         /\ \/ r.lines = 2 /\ r.data = 0 /\ \A i \in 1..2 : w[i].field # "data"
            \/ /\ r.lines = 4 /\ w[3].field = "data" /\ r.data = w[3].event
               /\ \A i \in 1..4 : w[i].field = "data" => i = 3
<1>1. PICK n \in Nat : n = Len(w)
  OBVIOUS
<1>2. PICK k \in 1..n : /\ r.lines = k /\ r.data = Data(w, k) /\ ~TooLong(w, k)
                        /\ Stops(w, k) /\ \A j \in 1..(k - 1) : ~Stops(w, j)
  BY <1>1 DEF next
<1>3. w[k].field = "blank"
  BY <1>2 DEF Stops, EndsRecord
<1>4. Begins(w[1]) /\ Noted(w[1].field)
  <2>1. w # <<>>
    BY <1>1, <1>2
  <2> QED BY <2>1 DEF Framed, Begins, Noted
<1>5. ASSUME NEW j \in 1..(k - 1) PROVE w[j].field # "blank"
  <2>1. 1 \in 1..j
    OBVIOUS
  <2>2. ~EndsRecord(w, j)
    BY <1>2 DEF Stops
  <2> QED BY <1>4, <2>1, <2>2 DEF EndsRecord
<1>6. k # 1
  BY <1>3, <1>4 DEF Begins
<1>7. 1 \in 1..n /\ 2 \in 1..n /\ Follows(w[1], w[2])
  <2>1. 1 \in 1..n /\ 2 \in 1..n
    BY <1>2, <1>6
  <2>2. 2 = 1 + 1
    OBVIOUS
  <2> QED BY <1>1, <2>1, <2>2 DEF Framed
<1>8. CASE w[1].field = "comment"
  <2>1. w[2].field = "blank"
    BY <1>7, <1>8 DEF Follows
  <2>2. k = 2
    <3>1. 2 \notin 1..(k - 1)
      BY <1>5, <2>1
    <3> QED BY <1>2, <1>6, <3>1
  <2>3. \A i \in 1..2 : w[i].field # "data"
    <3>1. \A i \in 1..2 : i = 1 \/ i = 2
      OBVIOUS
    <3> QED BY <1>8, <2>1, <3>1
  <2>4. {i \in 1..k : w[i].field = "data"} = {}
    BY <2>2, <2>3
  <2>5. r.data = 0
    BY <1>2, <2>4 DEF Data
  <2> QED BY <1>1, <1>2, <1>3, <2>2, <2>3, <2>5
<1>9. CASE w[1].field = "id"
  <2>1. w[2].field = "event"
    BY <1>7, <1>9 DEF Follows
  <2>2. k \notin {1, 2}
    BY <1>3, <1>6, <2>1
  <2>3. 3 \in 1..n /\ Follows(w[2], w[3])
    <3>1. 3 \in 1..n /\ 3 = 2 + 1
      BY <1>2, <2>2
    <3> QED BY <1>1, <1>7, <3>1 DEF Framed
  <2>4. w[3].field = "data"
    BY <2>1, <2>3 DEF Follows
  <2>5. k # 3
    BY <1>3, <2>4
  <2>6. 4 \in 1..n /\ Follows(w[3], w[4])
    <3>1. 4 \in 1..n /\ 4 = 3 + 1
      BY <1>2, <2>2, <2>5
    <3> QED BY <1>1, <2>3, <3>1 DEF Framed
  <2>7. w[4].field = "blank"
    BY <2>4, <2>6 DEF Follows
  <2>8. k = 4
    <3>1. 4 \notin 1..(k - 1)
      BY <1>5, <2>7
    <3> QED BY <1>2, <2>2, <2>5, <3>1
  <2>9. \A i \in 1..4 : w[i].field = "data" => i = 3
    <3>1. \A i \in 1..4 : i = 1 \/ i = 2 \/ i = 3 \/ i = 4
      OBVIOUS
    <3> QED BY <1>9, <2>1, <2>7, <3>1
  <2>10. {i \in 1..k : w[i].field = "data"} = {3}
    <3>1. 3 \in 1..4
      OBVIOUS
    <3> QED BY <2>4, <2>8, <2>9, <3>1
  <2>11. r.data = w[3].event
    <3>1. (CHOOSE i \in {3} : TRUE) = 3
      OBVIOUS
    <3> QED BY <1>2, <2>10, <3>1 DEF Data
  <2> QED BY <1>1, <1>2, <1>3, <2>4, <2>8, <2>9, <2>11
<1> QED BY <1>4, <1>8, <1>9 DEF Begins

LEMMA LastLines ==
  ASSUME NEW w \in Seq(Lines), NEW k \in 1..Len(w), NEW v, v = SubSeq(w, k + 1, Len(w))
  PROVE  v \in Seq(Lines) /\ Len(v) = Len(w) - k /\ \A i \in 1..Len(v) : v[i] = w[k + i]
<1>1. PICK n \in Nat : n = Len(w)
  OBVIOUS
<1>2. k \in 1..n
  BY <1>1
<1>3. v \in Seq(Lines) /\ Len(v) = n - k
  BY <1>1, <1>2, SubSeqProperties
<1>4. ASSUME NEW i \in 1..Len(v) PROVE v[i] = w[k + i]
  <2>1. i \in 1..(n - k)
    BY <1>3
  <2> QED BY <1>1, <1>2, <2>1
<1> QED BY <1>1, <1>3, <1>4

LEMMA RestKeepsOrder ==
  ASSUME NEW w \in Seq(Lines), NEW low \in Nat, NEW high \in Nat,
         Framed(w), Ascending(w), Within(w, low, high),
         NEW r \in next(w), r.is = "record",
         NEW v \in Seq(Lines), Len(v) = Len(w) - r.lines,
         \A i \in 1..Len(v) : v[i] = w[r.lines + i]
  PROVE  /\ Framed(v) /\ Ascending(v) /\ (Whole(w) => Whole(v))
         /\ r.data = 0 => Within(v, low, high) /\ Brought(v) = Brought(w)
         /\ r.data # 0 => /\ Within(v, r.data, high)
                          /\ low < r.data /\ r.data <= high
                          /\ Brought(w) = Brought(v) \cup {r.data}
<1>1. PICK n \in Nat, k \in Nat : n = Len(w) /\ k = r.lines
  BY RecordRead
<1>2. k \in 1..n /\ w[k].field = "blank" /\ k >= 2
  <2>1. k \in 1..n /\ w[k].field = "blank"
    BY <1>1, RecordRead
  <2>2. k = 2 \/ k = 4
    BY <1>1, RecordRead
  <2> QED BY <2>1, <2>2
<1>3. PICK m \in Nat : m = n - k
  BY <1>2
<1>4. Len(v) = m /\ \A i \in 1..m : v[i] = w[k + i] /\ k + i \in 1..n
  <2>1. Len(v) = m /\ \A i \in 1..m : v[i] = w[k + i]
    BY <1>1, <1>3
  <2>2. \A i \in 1..m : k + i \in 1..n
    BY <1>2, <1>3
  <2> QED BY <2>1, <2>2
<1>5. v # <<>> <=> m # 0
  <2>1. v = <<>> <=> Len(v) = 0
    OBVIOUS
  <2> QED BY <1>4, <2>1
<1>6. Framed(v)
  <2>1. ASSUME v # <<>> PROVE Begins(v[1])
    <3>1. 1 \in 1..m /\ k + 1 \in 1..n
      <4>1. m # 0
        BY <1>5, <2>1
      <4>2. 1 \in 1..m
        BY <4>1
      <4> QED BY <1>4, <4>2
    <3>2. Follows(w[k], w[k + 1])
      BY <1>1, <1>2, <3>1 DEF Framed
    <3>3. v[1] = w[k + 1]
      BY <1>4, <3>1
    <3> QED BY <1>2, <3>2, <3>3 DEF Follows
  <2>2. ASSUME NEW i \in 1..m, NEW j \in 1..m, j = i + 1 PROVE Follows(v[i], v[j])
    <3>1. k + j = (k + i) + 1
      BY <2>2
    <3>2. Follows(w[k + i], w[k + j])
      BY <1>1, <1>4, <3>1 DEF Framed
    <3> QED BY <1>4, <3>2
  <2> QED BY <1>4, <2>1, <2>2 DEF Framed
<1>7. ASSUME NEW i \in 1..m, Carries(v, i)
      PROVE  Carries(w, k + i) /\ v[i] = w[k + i] /\ k + i \in 1..n
  BY <1>1, <1>4, <1>7 DEF Carries
<1>8. Ascending(v)
  <2> SUFFICES ASSUME NEW i \in 1..m, NEW j \in 1..m, Carries(v, i), Carries(v, j), i < j
               PROVE  v[i].event < v[j].event
    BY <1>4 DEF Ascending
  <2>1. k + i < k + j
    OBVIOUS
  <2> QED BY <1>1, <1>7, <2>1 DEF Ascending
<1>9. ASSUME Whole(w) PROVE Whole(v)
  <2> SUFFICES ASSUME v # <<>> PROVE v[m].field = "blank"
    BY <1>4 DEF Whole
  <2>1. m \in 1..m /\ k + m = n /\ n # 0
    BY <1>2, <1>3, <1>5
  <2>2. v[m] = w[n]
    BY <1>4, <2>1
  <2>3. w # <<>>
    BY <1>1, <2>1
  <2> QED BY <1>1, <1>9, <2>2, <2>3 DEF Whole
<1>10. ASSUME NEW e
       PROVE  e \in Brought(v) <=>
                \E i \in 1..(n - 1) : w[i].field = "data" /\ e = w[i].event /\ i > k
  <2>1. e \in Brought(v) <=> \E i \in 1..(m - 1) : v[i].field = "data" /\ e = v[i].event
    BY <1>4 DEF Brought
  <2>2. ASSUME NEW i \in 1..(m - 1) PROVE v[i] = w[k + i] /\ k + i \in 1..(n - 1) /\ k + i > k
    BY <1>3, <1>4
  <2>3. ASSUME NEW i \in 1..(n - 1), i > k
        PROVE  i - k \in 1..(m - 1) /\ v[i - k] = w[i]
    <3>1. i - k \in 1..(m - 1) /\ i - k \in 1..m /\ k + (i - k) = i
      BY <1>3, <2>3
    <3> QED BY <1>4, <3>1
  <2>4. ASSUME e \in Brought(v)
        PROVE  \E i \in 1..(n - 1) : w[i].field = "data" /\ e = w[i].event /\ i > k
    <3>1. PICK i \in 1..(m - 1) : v[i].field = "data" /\ e = v[i].event
      BY <2>1, <2>4
    <3>2. PICK j \in 1..(n - 1) : j = k + i /\ j > k /\ v[i] = w[j]
      BY <2>2
    <3> QED BY <3>1, <3>2
  <2>5. ASSUME NEW i \in 1..(n - 1), w[i].field = "data", e = w[i].event, i > k
        PROVE  e \in Brought(v)
    <3>1. PICK j \in 1..(m - 1) : j = i - k /\ v[j] = w[i]
      BY <2>3, <2>5
    <3> QED BY <2>1, <2>5, <3>1
  <2> QED BY <2>4, <2>5
<1>11. \A e : e \in Brought(w) <=> \E i \in 1..(n - 1) : w[i].field = "data" /\ e = w[i].event
  BY <1>1 DEF Brought
<1>12. CASE k = 2 /\ r.data = 0 /\ \A i \in 1..2 : w[i].field # "data"
  <2>1. \A i \in 1..(n - 1) : w[i].field = "data" => i > k
    BY <1>12
  <2>2. ASSUME NEW e PROVE e \in Brought(v) <=> e \in Brought(w)
    <3>1. e \in Brought(v) <=>
            \E i \in 1..(n - 1) : w[i].field = "data" /\ e = w[i].event /\ i > k
      BY <1>10
    <3> QED BY <1>11, <2>1, <3>1
  <2>3. Within(v, low, high)
    BY <1>1, <1>4, <1>7 DEF Within
  <2> QED BY <1>6, <1>8, <1>9, <1>12, <2>2, <2>3
<1>13. CASE /\ k = 4 /\ w[3].field = "data" /\ r.data = w[3].event
            /\ \A i \in 1..4 : w[i].field = "data" => i = 3
  <2>1. 3 \in 1..n /\ 3 \in 1..(n - 1) /\ ~(3 > k)
    BY <1>2, <1>13
  <2>2. Carries(w, 3)
    BY <1>1, <1>13, <2>1 DEF Carries
  <2>3. r.data \in Nat /\ low < r.data /\ r.data <= high
    <3>1. w[3] \in Lines
      BY <1>1, <2>1
    <3>2. r.data \in Nat
      BY <1>13, <3>1, LineEvent
    <3> QED BY <1>1, <1>13, <2>1, <2>2, <3>2 DEF Within
  <2>4. r.data # 0
    BY <2>3
  <2>5. Within(v, r.data, high)
    <3> SUFFICES ASSUME NEW i \in 1..m, Carries(v, i)
                 PROVE  r.data < v[i].event /\ v[i].event <= high
      BY <1>4 DEF Within
    <3>1. Carries(w, k + i) /\ v[i] = w[k + i] /\ k + i \in 1..n
      BY <1>7
    <3>4. 3 < k + i
      BY <1>13
    <3>2. w[3].event < w[k + i].event
      BY <1>1, <2>1, <2>2, <3>1, <3>4 DEF Ascending
    <3>3. w[k + i].event <= high
      BY <1>1, <3>1 DEF Within
    <3> QED BY <1>13, <3>1, <3>2, <3>3
  <2>6. ASSUME NEW e PROVE e \in Brought(w) <=> e \in Brought(v) \cup {r.data}
    <3>1. ASSUME NEW i \in 1..(n - 1), w[i].field = "data", ~(i > k) PROVE i = 3
      <4>1. i \in 1..4
        BY <1>1, <1>13, <3>1
      <4> QED BY <1>13, <3>1, <4>1
    <3> QED BY <1>10, <1>11, <1>13, <2>1, <3>1
  <2>7. Brought(w) = Brought(v) \cup {r.data}
    BY <2>6
  <2> QED BY <1>6, <1>8, <1>9, <2>3, <2>4, <2>5, <2>7
<1> QED BY <1>1, <1>12, <1>13, RecordRead

-----------------------------------------------------------------------------
(* The history is the end of what was accepted.                            *)
LEMMA RetainKeepsNewest ==
  ASSUME NEW n \in Nat, NEW S \in SUBSET (1..n), NEW e, e = n + 1,
         \A d, x \in 1..n : d \in S /\ d < x => x \in S,
         NEW d \in 1..e, NEW x \in 1..e, d \in retain(S, e), d < x
  PROVE  x \in retain(S, e)
<1> DEFINE U == S \cup {e}
           A == {y \in U : y > d}
           B == {y \in U : y > x}
<1>1. d \in U /\ Cardinality(A) < DefaultHistory
  BY DEF retain, Quantify
<1>2. x \in U
  <2>1. d \in 1..n /\ d \in S
    BY <1>1
  <2>2. x = e \/ x \in 1..n
    OBVIOUS
  <2> QED BY <2>1, <2>2
<1>3. B \in SUBSET A
  <2> SUFFICES ASSUME NEW y \in U, y > x PROVE y > d
    OBVIOUS
  <2>1. y \in Nat /\ x \in Nat /\ d \in Nat
    OBVIOUS
  <2> QED BY <2>1
<1>4. IsFiniteSet(A)
  <2>1. IsFiniteSet(1..n)
    BY UpTo
  <2>2. IsFiniteSet(S)
    BY <2>1, FS_Subset
  <2>3. IsFiniteSet(U)
    BY <2>2, FS_AddElement
  <2> QED BY <2>3, FS_Subset
<1> HIDE DEF A
<1>5. Cardinality(B) <= Cardinality(A) /\ Cardinality(B) \in Nat /\ Cardinality(A) \in Nat
  <2> HIDE DEF B
  <2> QED BY <1>3, <1>4, FS_Subset, FS_CardinalityType
<1>6. Cardinality(B) < DefaultHistory
  BY <1>1, <1>5, DefaultsArePositive
<1> QED BY <1>2, <1>6 DEF retain, Quantify

LEMMA UpperEnd ==
  ASSUME NEW n \in Nat, NEW S \in SUBSET (1..n),
         \A d, x \in 1..n : d \in S /\ d < x => x \in S
  PROVE  \A x \in 1..n : x \in S <=> n - Cardinality(S) < x
<1>1. CASE S = {}
  BY <1>1, FS_EmptySet
<1>2. CASE S # {}
  <2>1. PICK m \in S : \A x \in S : m <= x
    <3>1. S \in SUBSET Nat
      OBVIOUS
    <3> QED BY <1>2, <3>1, Least
  <2>2. m \in 1..n
    BY <2>1
  <2>3. \A x \in 1..n : x \in S <=> m <= x
    BY <2>1, <2>2
  <2>4. S = m..n
    <3>1. \A x \in m..n : x \in 1..n /\ m <= x
      BY <2>2
    <3>2. \A x \in 1..n : m <= x => x \in m..n
      BY <2>2
    <3> QED BY <2>3, <3>1, <3>2
  <2>5. Cardinality(m..n) = n - m + 1
    BY <2>2, FS_Interval
  <2> QED BY <2>2, <2>3, <2>4, <2>5
<1> QED BY <1>1, <1>2

-----------------------------------------------------------------------------
(* The connection and what it is bound to bring, as the contract sees it. *)
Connection ==
  IF sub \notin {"read", "send"} THEN "none" ELSE IF end = "open" THEN "live" ELSE "broken"

Feed == Brought(wire) \cup ({hand} \ {0})

LEMMA SameCardinality == \A S : Contract!Cardinality(S) = Cardinality(S)
BY Zenon DEF Contract!Cardinality, Cardinality

LEMMA AcceptIs ==
  ASSUME NEW e \in Events, \A d \in ToSet(accepted) : d < e, accepted' = Append(accepted, e),
         kept' = retain(kept, e), Connection' = Connection, got' = got,
         Feed' = IF Connection = "live" THEN Feed \cup {e} ELSE Feed
  PROVE  Contract!Accept
BY SameCardinality DEF retain, Quantify, Contract!Accept, Contract!Quantify, Contract!ToSet,
   ToSet, Connection, Feed, Complete, Brought

LEMMA ConnectIs ==
  ASSUME Connection = "none", Connection' = "live", UNCHANGED <<accepted, kept, got>>,
         Feed' = {e \in kept \cap Events : got # <<>> /\ e > got[Len(got)]}
  PROVE  Contract!Connect
BY DEF Contract!Connect, Contract!Last, Connection, Feed, Complete, Brought

LEMMA DeliverIs ==
  ASSUME NEW e \in Feed, Feed \subseteq Nat, \A d \in Feed : e <= d,
         got' = Append(got, e), Feed' = Feed \ {e}, UNCHANGED <<accepted, kept>>,
         Connection' = Connection
  PROVE  Contract!Deliver
<1>1. Contract!Min(Feed) = e
  <2>1. \A m \in Feed : (\A d \in Feed : m <= d) => m = e
    OBVIOUS
  <2> QED BY <2>1 DEF Contract!Min
<1> QED BY <1>1 DEF Contract!Deliver, Connection, Feed, Complete, Brought

LEMMA BreakIs ==
  ASSUME Connection # "none", Connection' = "broken", UNCHANGED <<accepted, kept, got>>,
         Feed' = Feed \/ \E b \in Feed : Feed' = {e \in Feed : e < b}
  PROVE  Contract!Break
BY DEF Contract!Break, Connection, Feed, Complete, Brought

LEMMA BusRestartsIs ==
  ASSUME kept' = {}, UNCHANGED <<accepted, got>>,
         Connection' = IF Connection = "live" THEN "broken" ELSE Connection,
         Feed' = Feed \/ \E b \in Feed : Feed' = {e \in Feed : e < b}
  PROVE  Contract!BusRestarts
BY DEF Contract!BusRestarts, Connection, Feed, Complete, Brought

LEMMA HangUpIs ==
  ASSUME Connection # "none", Connection' = "none", Feed' = {}, UNCHANGED <<accepted, kept, got>>
  PROVE  Contract!HangUp
BY DEF Contract!HangUp, Connection, Feed, Complete, Brought

LEMMA SubscriberRestartsIs ==
  ASSUME got' = <<>>, Connection' = "none", Feed' = {}, UNCHANGED <<accepted, kept>>
  PROVE  Contract!SubscriberRestarts
BY DEF Contract!SubscriberRestarts, Connection, Feed, Complete, Brought

LEMMA StutterIs ==
  ASSUME UNCHANGED <<accepted, kept, got>>, Connection' = Connection, Feed' = Feed
  PROVE  UNCHANGED Contract!busVars
BY DEF Contract!busVars, Connection, Feed, Complete, Brought

-----------------------------------------------------------------------------
(* What a step does to the stream and to the resume point.                 *)
LEMMA Ranges ==
  ASSUME IInv
  PROVE  /\ wire \in Seq(Lines) /\ Len(accepted) \in Nat /\ accepted \in Seq(Events)
         /\ hand \in Nat /\ lastID \in Nat /\ Reached \in Nat /\ got \in Seq(Events)
         /\ hand # 0 <=> sub = "send"
         /\ svc = "down" <=> sub = "none"
         /\ handler <=> end = "open"
         /\ handler => sub \in {"read", "send"}
         /\ kept \subseteq 1..Len(accepted) /\ kept \subseteq Events
         /\ \A i \in 1..Len(accepted) : accepted[i] = i
<1>1. TypeOK /\ StreamOK /\ HistoryOK
  BY DEF IInv
<1>2. \A e \in Events \cup {0} : e \in Nat
  BY EventsAreRanks
<1>3. hand \in Nat /\ lastID \in Nat
  BY <1>1, <1>2 DEF TypeOK
<1>4. Reached \in Nat
  BY <1>3 DEF Reached
<1>5. handler <=> end = "open"
  BY <1>1 DEF StreamOK, TypeOK
<1> QED BY <1>1, <1>3, <1>4, <1>5 DEF TypeOK, StreamOK, HistoryOK

LEMMA BroughtTyped ==
  ASSUME NEW w \in Seq(Lines)
  PROVE  Brought(w) \subseteq Nat
<1> SUFFICES ASSUME NEW i \in 1..(Len(w) - 1) PROVE w[i].event \in Nat
  BY DEF Brought
<1>1. i \in 1..Len(w)
  OBVIOUS
<1>2. w[i] \in Lines
  BY <1>1
<1> QED BY <1>2, LineEvent

LEMMA BroughtWithin ==
  ASSUME NEW w \in Seq(Lines), NEW low, NEW high, Within(w, low, high)
  PROVE  \A e \in Brought(w) : low < e /\ e <= high
<1> SUFFICES ASSUME NEW i \in 1..(Len(w) - 1), w[i].field = "data"
             PROVE  low < w[i].event /\ w[i].event <= high
  BY DEF Brought
<1>1. i \in 1..Len(w)
  OBVIOUS
<1> QED BY <1>1 DEF Within, Carries

(* An event is accepted: the newest, behind all that is on the way.        *)
LEMMA PublishAccepts ==
  ASSUME IInv, ArrivalOK, Publish
  PROVE  ArrivalOK' /\ Contract!Accept
<1>1. PICK n \in Nat, e \in Nat, w \in Seq(Lines) :
        n = Len(accepted) /\ e = n + 1 /\ w = wire
  BY Ranges
<1>2. /\ e \in Events /\ accepted' = Append(accepted, e) /\ kept' = retain(kept, e)
      /\ wire' = IF handler /\ end = "open" THEN w \o writeSSEEvent(e) ELSE w
      /\ UNCHANGED <<handler, end, sub, hand, lastID, got, svc>>
  BY <1>1 DEF Publish, svcVars, subVars
<1>3. PICK low \in Nat : low = Reached
  BY Ranges
<1>4. /\ w \in Seq(Lines) /\ Framed(w) /\ Ascending(w) /\ Within(w, low, n)
      /\ (handler => Whole(w)) /\ low <= n
      /\ handler <=> end = "open"
      /\ handler => sub \in {"read", "send"}
      /\ (sub \notin {"read", "send"} => w = <<>>)
  BY <1>1, <1>3, Ranges DEF ArrivalOK, WireOK, ResumeOK
<1>5. Reached' = low /\ n < e /\ e \in Nat
  BY <1>1, <1>2, <1>3 DEF Reached
<1>6. /\ Len(accepted') = e
      /\ \A d \in ToSet(accepted) : d < e
  <2>1. Len(accepted') = e
    BY <1>1, <1>2, Ranges
  <2>2. \A i \in 1..n : accepted[i] < e
    BY <1>1, Ranges
  <2>3. \A d \in ToSet(accepted) : \E i \in 1..n : d = accepted[i]
    BY <1>1 DEF ToSet
  <2> QED BY <2>1, <2>2, <2>3
<1>7. PICK v : v = wire'
  OBVIOUS
<1>8. /\ Framed(v) /\ Ascending(v) /\ Within(v, low, e) /\ (handler => Whole(v))
      /\ (sub \notin {"read", "send"} => v = <<>>)
      /\ Brought(v) = IF handler THEN Brought(w) \cup {e} ELSE Brought(w)
  <2>1. CASE handler
    <3>1. PICK t : t = writeSSEEvent(e)
      OBVIOUS
    <3>2. t \in Seq(Lines) /\ Record(t, n, e) /\ t # <<>> /\ Brought(t) = {e}
      BY <1>1, <1>2, <1>5, <3>1, EventRecord, EventLines
    <3>3. /\ v \in Seq(Lines) /\ Len(v) = Len(w) + Len(t)
          /\ \A i \in 1..Len(w) : v[i] = w[i]
          /\ \A i \in 1..Len(t) : v[Len(w) + i] = t[i]
      <4>1. v = w \o t
        BY <1>2, <1>4, <1>7, <2>1, <3>1
      <4> QED BY <1>4, <3>2, <4>1, Joined
    <3>4. n <= e /\ Framed(t) /\ Ascending(t) /\ Within(t, n, e) /\ Whole(t)
      BY <1>5, <3>2 DEF Record
    <3>5. /\ Framed(v) /\ Ascending(v) /\ Within(v, low, e) /\ Whole(v)
          /\ Brought(v) = Brought(w) \cup Brought(t)
      BY <1>4, <1>5, <2>1, <3>2, <3>3, <3>4, JoinKeepsOrder
    <3> QED BY <1>4, <2>1, <3>2, <3>5
  <2>2. CASE ~handler
    <3>1. v = w
      BY <1>2, <1>7, <2>2
    <3>2. Within(v, low, e)
      <4>1. \A i \in 1..Len(w) : Carries(w, i) => w[i].event \in Nat
        <5> SUFFICES ASSUME NEW i \in 1..Len(w) PROVE w[i].event \in Nat
          OBVIOUS
        <5>1. w[i] \in Lines
          BY <1>4
        <5> QED BY <5>1, LineEvent
      <4> QED BY <1>4, <1>5, <3>1, <4>1 DEF Within
    <3> QED BY <1>4, <2>2, <3>1, <3>2
  <2> QED BY <2>1, <2>2
<1>9. WireOK'
  BY <1>2, <1>5, <1>6, <1>7, <1>8 DEF WireOK
<1>10. ResumeOK'
  <2>1. low <= e
    BY <1>4, <1>5
  <2> QED BY <1>2, <1>3, <1>5, <1>6, <2>1 DEF ArrivalOK, ResumeOK
<1>11. KeptOK'
  <2>1. kept \in SUBSET (1..n) /\ \A d, x \in 1..n : d \in kept /\ d < x => x \in kept
    BY <1>1, Ranges DEF ArrivalOK, KeptOK
  <2>2. \A d, x \in 1..e : d \in retain(kept, e) /\ d < x => x \in retain(kept, e)
    BY <1>1, <2>1, RetainKeepsNewest
  <2> QED BY <1>2, <1>6, <2>2 DEF KeptOK
<1>12. Connection' = Connection /\ (Connection = "live" <=> handler)
  BY <1>2, <1>4 DEF Connection
<1>13. Feed' = IF Connection = "live" THEN Feed \cup {e} ELSE Feed
  BY <1>1, <1>2, <1>7, <1>8, <1>12 DEF Feed
<1> QED BY <1>2, <1>6, <1>9, <1>10, <1>11, <1>12, <1>13, AcceptIs DEF ArrivalOK

(* A stream is cut: its rest brings what is before the cut.                *)
LEMMA CutArrives ==
  ASSUME IInv, ArrivalOK, sub \in {"read", "send"}, NEW ends, "open" \notin ends, Cut(ends),
         handler' = FALSE, UNCHANGED <<accepted, sub, hand, lastID, got, svc>>
  PROVE  /\ WireOK' /\ ResumeOK'
         /\ Connection # "none" /\ Connection' = "broken"
         /\ Feed' = Feed \/ \E b \in Feed : Feed' = {e \in Feed : e < b}
<1>1. PICK w, v : w = wire /\ v = wire'
  OBVIOUS
<1>2. PICK l \in 0..Len(w) : v = SubSeq(w, 1, l)
  BY <1>1 DEF Cut, Prefixes
<1>3. PICK low \in Nat, high \in Nat : low = Reached /\ high = Len(accepted)
  BY Ranges
<1>4. w \in Seq(Lines) /\ Framed(w) /\ Ascending(w) /\ Within(w, low, high)
  BY <1>1, <1>3, Ranges DEF ArrivalOK, WireOK
<1>5. Framed(v) /\ Ascending(v) /\ Within(v, low, high)
  BY <1>2, <1>4, CutKeepsOrder
<1>6. Reached' = low /\ Len(accepted') = high
  BY <1>3 DEF Reached
<1>7. WireOK'
  BY <1>1, <1>5, <1>6 DEF WireOK
<1>8. ResumeOK'
  BY <1>3, <1>6 DEF ArrivalOK, ResumeOK
<1>9. Connection # "none" /\ Connection' = "broken"
  BY DEF Connection, Cut
<1>10. Brought(v) = Brought(w) \/ \E b \in Brought(w) : Brought(v) = {e \in Brought(w) : e < b}
  BY <1>2, <1>4, CutBrings
<1>11. Feed = Brought(w) \cup ({hand} \ {0}) /\ Feed' = Brought(v) \cup ({hand} \ {0})
  BY <1>1 DEF Feed
<1>12. ASSUME NEW b \in Brought(w), Brought(v) = {e \in Brought(w) : e < b}
       PROVE  b \in Feed /\ Feed' = {e \in Feed : e < b}
  <2>1. hand # 0 => hand < b
    <3>1. low < b
      BY <1>4, BroughtWithin
    <3> QED BY <1>3, <3>1 DEF Reached
  <2>2. ({hand} \ {0}) = {e \in {hand} \ {0} : e < b}
    BY <2>1
  <2> QED BY <1>11, <1>12, <2>2
<1> QED BY <1>7, <1>8, <1>9, <1>10, <1>11, <1>12

(* A connection is made: what is replayed are the retained events after    *)
(* the resume point, and these are the newest.                             *)
LEMMA OpenConnects ==
  ASSUME IInv, ArrivalOK, sub \notin {"read", "send"}, NEW from, from = lastID,
         OpenSucceeds(from), sub' = "read", svc' # "down", hand' = 0,
         UNCHANGED <<accepted, kept, lastID, got>>
  PROVE  ArrivalOK' /\ Contract!Connect
<1>1. PICK R : R = Replayed(from)
  OBVIOUS
<1>2. PICK N \in Nat : N = Len(accepted)
  BY Ranges
<1>3. PICK n \in Nat : n = Cardinality(R) /\ n <= N
  BY <1>1, <1>2, ReplayedEnd DEF IInv, TypeOK, HistoryType
<1>4. PICK low \in Nat : low = N - n
  BY <1>3
<1>5. PICK es : es = SubSeq(accepted, N - n + 1, N)
  OBVIOUS
<1>6. /\ es \in Seq(Events) /\ Len(es) = n
      /\ \A i \in 1..Len(es) : es[i] = low + i
  <2>1. accepted \in Seq(Events) /\ \A i \in 1..N : accepted[i] = i
    BY <1>2, Ranges
  <2>2. es \in Seq(Events)
    BY <1>1, <1>2, <1>3, <1>5, ReplayedEnd DEF IInv, TypeOK, HistoryType
  <2>3. Len(es) = n
    BY <1>2, <1>3, <1>5, <2>1, SubSeqProperties
  <2>4. ASSUME NEW i \in 1..n PROVE es[i] = low + i
    <3>1. low + i \in 1..N /\ i \in 1..(N - (N - n + 1) + 1)
      BY <1>3, <1>4
    <3>2. es[i] = accepted[low + i]
      <4>1. PICK a \in Seq(Events) : a = accepted /\ N = Len(a)
        BY <1>2, <2>1
      <4>2. es = SubSeq(a, low + 1, N) /\ low + 1 \in 1..(N + 1) /\ i \in 1..(N - low)
        <5>1. N - n + 1 = low + 1
          BY <1>4
        <5> QED BY <1>3, <1>4, <1>5, <4>1, <5>1
      <4>3. es[i] = a[low + 1 + i - 1]
        BY <4>1, <4>2
      <4>4. low + 1 + i - 1 = low + i
        OBVIOUS
      <4> QED BY <4>1, <4>3, <4>4
    <3> QED BY <2>1, <3>1, <3>2
  <2> QED BY <2>2, <2>3, <2>4
<1>7. PICK v : v = wire'
  OBVIOUS
<1>8. v = writeSSEEvents(es) /\ handler' = TRUE /\ end' = "open"
  BY <1>1, <1>2, <1>3, <1>5, <1>7 DEF OpenSucceeds
<1>9. low + Len(es) = N
  BY <1>3, <1>4, <1>6
<1>10. /\ v \in Seq(Lines) /\ Record(v, low, N)
       /\ \A e \in Nat : e \in Brought(v) <=> low < e /\ e <= N
  <2>1. /\ v \in Seq(Lines) /\ Record(v, low, low + Len(es))
        /\ \A e \in Nat : e \in Brought(v) <=> low < e /\ e <= low + Len(es)
    BY <1>6, <1>8, ReplayRecord
  <2> QED BY <1>9, <2>1
<1>11. \A x \in 1..N : x \in R <=> low < x
  <2>1. R \in SUBSET (1..N)
    BY <1>1, <1>2, Ranges DEF Replayed
  <2>2. \A d, x \in 1..N : d \in R /\ d < x => x \in R
    <3> SUFFICES ASSUME NEW d \in 1..N, NEW x \in 1..N, d \in R, d < x PROVE x \in R
      OBVIOUS
    <3>1. d \in kept /\ from # 0 /\ d > from /\ from \in Nat
      BY <1>1, Ranges DEF Replayed
    <3>2. x \in kept
      BY <1>2, <3>1 DEF ArrivalOK, KeptOK
    <3>3. x > from
      BY <3>1
    <3> QED BY <1>1, <3>1, <3>2, <3>3 DEF Replayed
  <2> QED BY <1>3, <1>4, <2>1, <2>2, UpperEnd
<1>12. Brought(v) = R
  <2>1. \A e \in Brought(v) : e \in Nat
    BY <1>10, BroughtTyped
  <2>2. \A e \in Nat : low < e /\ e <= N <=> e \in 1..N /\ low < e
    BY <1>4
  <2>3. \A e \in R : e \in 1..N /\ e \in Nat
    BY <1>1, <1>2, Ranges DEF Replayed
  <2>4. ASSUME NEW e PROVE e \in Brought(v) <=> e \in R
    <3>1. CASE e \in Nat
      BY <1>10, <1>11, <2>2, <2>3, <3>1
    <3>2. CASE e \notin Nat
      BY <2>1, <2>3, <3>2
    <3> QED BY <3>1, <3>2
  <2> QED BY <2>4
<1>13. hand = 0 /\ Reached' = from /\ Len(accepted') = N
  BY <1>2, Ranges DEF Reached
<1>14. Within(v, from, N)
  <2> SUFFICES ASSUME NEW i \in 1..Len(v), Carries(v, i)
               PROVE  from < v[i].event /\ v[i].event <= N
    BY DEF Within
  <2>1. low < v[i].event /\ v[i].event <= N
    BY <1>10 DEF Record, Within
  <2>2. v[i].event \in Nat
    <3>1. v[i] \in Lines
      BY <1>10
    <3> QED BY <3>1, LineEvent
  <2>3. v[i].event \in R
    <3>1. v[i].event \in 1..N
      BY <1>4, <2>1, <2>2
    <3> QED BY <1>11, <2>1, <3>1
  <2> QED BY <1>1, <2>1, <2>3 DEF Replayed
<1>15. WireOK'
  BY <1>7, <1>10, <1>13, <1>14 DEF WireOK, Record
<1>16. ResumeOK' /\ KeptOK'
  <2>1. Reached = from /\ from <= N
    BY <1>2, <1>13 DEF ArrivalOK, ResumeOK, Reached
  <2>2. from \in Nat /\ from <= from
    BY Ranges
  <2> QED BY <1>2, <1>13, <2>1, <2>2 DEF ArrivalOK, ResumeOK, KeptOK
<1>17. Connection = "none" /\ Connection' = "live"
  BY <1>8 DEF Connection
<1>18. Feed' = {e \in kept \cap Events : got # <<>> /\ e > got[Len(got)]}
  <2>1. Feed' = R
    BY <1>7, <1>12 DEF Feed
  <2>2. got # <<>> => lastID = got[Len(got)] /\ lastID # 0
    <3> SUFFICES ASSUME got # <<>> PROVE lastID = got[Len(got)] /\ lastID # 0
      OBVIOUS
    <3>1. got \in Seq(Events) /\ lastID = got[Len(got)]
      BY Ranges DEF ArrivalOK, ResumeOK
    <3>2. Len(got) \in 1..Len(got)
      BY <3>1
    <3>3. got[Len(got)] \in Events
      BY <3>1, <3>2
    <3> QED BY <3>1, <3>3, EventsAreRanks
  <2>3. got = <<>> => lastID = 0
    BY DEF ArrivalOK, ResumeOK
  <2>4. kept \subseteq Events
    BY Ranges
  <2> QED BY <1>1, <2>1, <2>2, <2>3, <2>4 DEF Replayed
<1> QED BY <1>15, <1>16, <1>17, <1>18, ConnectIs DEF ArrivalOK

(* A record is read: its event is the next of those on the way.            *)
LEMMA RecordArrives ==
  ASSUME IInv, ArrivalOK, ReadRecord
  PROVE  ArrivalOK' /\ UNCHANGED Contract!busVars
<1>1. PICK w \in Seq(Lines) : w = wire
  BY Ranges
<1>2. PICK r \in next(w) : /\ r.is = "record" /\ wire' = SubSeq(w, r.lines + 1, Len(w))
                           /\ hand' = r.data /\ sub' = IF r.data = 0 THEN "read" ELSE "send"
  BY <1>1 DEF ReadRecord
<1>3. /\ sub = "read" /\ UNCHANGED <<handler, accepted, kept, end, svc, lastID, got>>
  BY DEF ReadRecord, CanRead, busVarsOnly, svcVars
<1>4. PICK low \in Nat, high \in Nat : low = Reached /\ high = Len(accepted)
  BY Ranges
<1>5. hand = 0 /\ low = lastID /\ low <= high
  BY <1>3, <1>4, Ranges DEF Reached, ArrivalOK, ResumeOK
<1>6. Framed(w) /\ Ascending(w) /\ Within(w, low, high) /\ (handler => Whole(w))
  BY <1>1, <1>4 DEF ArrivalOK, WireOK
<1>7. PICK v : v = wire'
  OBVIOUS
<1>8. r.lines \in 1..Len(w)
  BY <1>2, <1>6, RecordRead
<1>9. v \in Seq(Lines) /\ Len(v) = Len(w) - r.lines /\ \A i \in 1..Len(v) : v[i] = w[r.lines + i]
  <2>1. PICK k \in 1..Len(w) : k = r.lines
    BY <1>8
  <2>2. v = SubSeq(w, k + 1, Len(w))
    BY <1>2, <1>7, <2>1
  <2>3. v \in Seq(Lines) /\ Len(v) = Len(w) - k /\ \A i \in 1..Len(v) : v[i] = w[k + i]
    BY <2>2, LastLines
  <2> QED BY <2>1, <2>3
<1>10. /\ Framed(v) /\ Ascending(v) /\ (Whole(w) => Whole(v))
       /\ r.data = 0 => Within(v, low, high) /\ Brought(v) = Brought(w)
       /\ r.data # 0 => /\ Within(v, r.data, high)
                        /\ low < r.data /\ r.data <= high
                        /\ Brought(w) = Brought(v) \cup {r.data}
  BY <1>2, <1>6, <1>9, RestKeepsOrder
<1>11. Reached' = (IF r.data = 0 THEN low ELSE r.data) /\ Len(accepted') = high
  BY <1>2, <1>3, <1>4, <1>5 DEF Reached
<1>12. WireOK'
  BY <1>2, <1>3, <1>6, <1>7, <1>10, <1>11 DEF WireOK
<1>13. ResumeOK'
  <2>1. r.data # 0 => r.data \in Nat
    <3>1. r.data \in Events \cup {0}
      BY <1>1, <1>2, RecordType
    <3> QED BY <3>1, EventsAreRanks
  <2>2. lastID' <= Reached' /\ Reached' <= Len(accepted')
    BY <1>3, <1>5, <1>10, <1>11, <2>1
  <2>3. lastID' = IF got' = <<>> THEN 0 ELSE got'[Len(got')]
    BY <1>3 DEF ArrivalOK, ResumeOK
  <2>4. hand' # 0 => lastID' < hand'
    BY <1>2, <1>3, <1>5, <1>10
  <2>5. svc' = "down" => got' = <<>>
    BY <1>3 DEF ArrivalOK, ResumeOK
  <2> QED BY <2>2, <2>3, <2>4, <2>5 DEF ResumeOK
<1>14. KeptOK'
  BY <1>3 DEF ArrivalOK, KeptOK
<1>15. Connection' = Connection
  BY <1>2, <1>3 DEF Connection
<1>16. Feed' = Feed
  <2>1. Feed = Brought(w) /\ Feed' = Brought(v) \cup ({r.data} \ {0})
    BY <1>1, <1>2, <1>5, <1>7 DEF Feed
  <2> QED BY <1>10, <2>1
<1> QED BY <1>3, <1>12, <1>13, <1>14, <1>15, <1>16, StutterIs DEF ArrivalOK

(* The event that is handed over is the least of those bound to arrive.    *)
LEMMA HandOverDelivers ==
  ASSUME IInv, ArrivalOK, HandOver
  PROVE  ArrivalOK' /\ Contract!Deliver
<1>1. /\ sub = "send" /\ svc # "down" /\ sub' = "read" /\ hand' = 0 /\ lastID' = hand
      /\ got' = Append(got, hand)
      /\ UNCHANGED <<handler, accepted, kept, wire, end, svc>>
  BY DEF HandOver, busVarsOnly, streamVars
<1>2. PICK h \in Nat : h = hand /\ h # 0 /\ h = Reached
  BY <1>1, Ranges DEF Reached
<1>3. PICK g \in Seq(Events) : g = got
  BY Ranges
<1>4. h \in Events
  BY <1>1, <1>2 DEF IInv, TypeOK
<1>5. Reached' = h
  BY <1>1, <1>2 DEF Reached
<1>6. \A e \in Brought(wire) : e \in Nat /\ h < e
  <2>1. wire \in Seq(Lines) /\ Within(wire, h, Len(accepted))
    BY <1>2, Ranges DEF ArrivalOK, WireOK
  <2> QED BY <2>1, BroughtTyped, BroughtWithin
<1>7. WireOK'
  BY <1>1, <1>2, <1>5 DEF ArrivalOK, WireOK
<1>8. got' # <<>> /\ got'[Len(got')] = h
  <2>1. got' = Append(g, h)
    BY <1>1, <1>2, <1>3
  <2> QED BY <1>4, <2>1
<1>9. ResumeOK'
  <2>1. h <= Len(accepted) /\ h <= h
    BY <1>2 DEF ArrivalOK, ResumeOK
  <2> QED BY <1>1, <1>2, <1>5, <1>8, <2>1 DEF ResumeOK
<1>10. KeptOK'
  BY <1>1 DEF ArrivalOK, KeptOK
<1>11. Connection' = Connection
  BY <1>1 DEF Connection
<1>12. Feed = Brought(wire) \cup {h} /\ Feed' = Brought(wire)
  BY <1>1, <1>2 DEF Feed
<1>13. h \in Feed /\ Feed \subseteq Nat /\ (\A d \in Feed : h <= d) /\ Feed' = Feed \ {h}
  BY <1>2, <1>6, <1>12
<1> QED BY <1>1, <1>2, <1>7, <1>9, <1>10, <1>11, <1>13, DeliverIs DEF ArrivalOK

(* No stream is left. *)
LEMMA NothingArrives ==
  ASSUME IInv, ArrivalOK, handler' = FALSE, wire' = <<>>, hand' = 0, UNCHANGED <<accepted, kept>>,
         sub' \notin {"read", "send"},
         \/ UNCHANGED <<lastID, got>> /\ svc' # "down"
         \/ lastID' = 0 /\ got' = <<>>
  PROVE  ArrivalOK' /\ Connection' = "none" /\ Feed' = {}
<1>1. PICK v : v = wire'
  OBVIOUS
<1>2. PICK low, high : low = Reached' /\ high = Len(accepted')
  OBVIOUS
<1>3. Record(v, low, high) /\ Brought(v) = {}
  BY <1>1, EmptyRecord
<1>4. WireOK'
  BY <1>1, <1>2, <1>3 DEF WireOK, Record
<1>5. Connection' = "none"
  BY DEF Connection
<1>6. Feed' = {}
  BY <1>1, <1>3 DEF Feed
<1>7. KeptOK'
  BY DEF ArrivalOK, KeptOK
<1>8. ResumeOK'
  <2>1. PICK l \in Nat, n \in Nat : l = lastID /\ n = Len(accepted) /\ l <= n
    <3>1. lastID \in Nat /\ Len(accepted) \in Nat /\ Reached \in Nat
      BY Ranges
    <3>2. lastID <= Reached /\ Reached <= Len(accepted)
      BY DEF ArrivalOK, ResumeOK
    <3>3. lastID <= Len(accepted)
      BY <3>1, <3>2
    <3> QED BY <3>1, <3>3
  <2>2. Reached' = lastID' /\ Len(accepted') = n
    BY <2>1 DEF Reached
  <2>3. CASE UNCHANGED <<lastID, got>> /\ svc' # "down"
    BY <2>1, <2>2, <2>3 DEF ArrivalOK, ResumeOK
  <2>4. CASE lastID' = 0 /\ got' = <<>>
    BY <2>1, <2>2, <2>4 DEF ResumeOK
  <2> QED BY <2>3, <2>4
<1> QED BY <1>4, <1>5, <1>6, <1>7, <1>8 DEF ArrivalOK

(* A step that leaves the stream and what was handed over alone.           *)
LEMMA NothingMoves ==
  ASSUME IInv, ArrivalOK, UNCHANGED <<accepted, kept, wire, end, handler, sub, hand, lastID, got>>,
         svc' = "down" => svc = "down"
  PROVE  ArrivalOK' /\ UNCHANGED Contract!busVars
<1>1. Reached' = Reached
  BY DEF Reached
<1>2. WireOK' /\ ResumeOK' /\ KeptOK'
  BY <1>1 DEF ArrivalOK, WireOK, ResumeOK, KeptOK
<1>3. Connection' = Connection /\ Feed' = Feed
  BY DEF Connection, Feed
<1> QED BY <1>2, <1>3, StutterIs DEF ArrivalOK

(* No stream before and none after it. *)
LEMMA NoneBefore ==
  ASSUME IInv, ArrivalOK, sub \notin {"read", "send"}
  PROVE  ~handler /\ wire = <<>> /\ hand = 0 /\ Connection = "none" /\ Feed = {}
<1>1. ~handler /\ wire = <<>> /\ hand = 0
  BY Ranges DEF ArrivalOK, WireOK
<1>2. PICK v : v = wire
  OBVIOUS
<1>3. Brought(v) = {}
  BY <1>1, <1>2, EmptyRecord
<1> QED BY <1>1, <1>2, <1>3 DEF Connection, Feed

(* A heartbeat brings nothing. *)
LEMMA TickArrives ==
  ASSUME IInv, ArrivalOK, Tick
  PROVE  ArrivalOK' /\ UNCHANGED Contract!busVars
<1>1. /\ UNCHANGED <<handler, accepted, kept, end, svc, sub, hand, lastID, got>>
      /\ wire' = wire \/ (handler /\ wire' = wire \o writeSSEComment)
  BY DEF Tick, svcVars
<1>2. CASE wire' = wire
  BY <1>1, <1>2, NothingMoves
<1>3. CASE handler /\ wire' = wire \o writeSSEComment
  <2>1. PICK w \in Seq(Lines) : w = wire
    BY Ranges
  <2>2. PICK t : t = writeSSEComment
    OBVIOUS
  <2>3. PICK v : v = wire'
    OBVIOUS
  <2>4. PICK low \in Nat, high \in Nat : low = Reached /\ high = Len(accepted) /\ low <= high
    BY Ranges DEF ArrivalOK, ResumeOK
  <2>5. Framed(w) /\ Ascending(w) /\ Within(w, low, high) /\ Whole(w)
    BY <1>3, <2>1, <2>4 DEF ArrivalOK, WireOK
  <2>6. t \in Seq(Lines) /\ Record(t, high, high) /\ t # <<>> /\ Brought(t) = {}
    BY <2>2, <2>4, CommentLines, CommentRecord
  <2>7. /\ v \in Seq(Lines) /\ Len(v) = Len(w) + Len(t)
        /\ \A i \in 1..Len(w) : v[i] = w[i]
        /\ \A i \in 1..Len(t) : v[Len(w) + i] = t[i]
    <3>1. v = w \o t
      BY <1>3, <2>1, <2>2, <2>3
    <3> QED BY <2>6, <3>1, Joined
  <2>8. high <= high /\ Framed(t) /\ Ascending(t) /\ Within(t, high, high) /\ Whole(t)
    BY <2>4, <2>6 DEF Record
  <2>9. /\ Framed(v) /\ Ascending(v) /\ Within(v, low, high) /\ Whole(v)
        /\ Brought(v) = Brought(w) \cup Brought(t)
    BY <2>4, <2>5, <2>6, <2>7, <2>8, JoinKeepsOrder
  <2>10. Reached' = low /\ Len(accepted') = high
    BY <1>1, <2>4 DEF Reached
  <2>11. sub \in {"read", "send"}
    BY <1>3, Ranges
  <2>12. WireOK'
    BY <1>1, <2>3, <2>9, <2>10, <2>11 DEF WireOK
  <2>13. ResumeOK' /\ KeptOK'
    BY <1>1, <2>4, <2>10 DEF ArrivalOK, ResumeOK, KeptOK
  <2>14. Connection' = Connection
    BY <1>1 DEF Connection
  <2>15. Feed' = Feed
    BY <1>1, <2>1, <2>3, <2>6, <2>9 DEF Feed
  <2> QED BY <1>1, <2>12, <2>13, <2>14, <2>15, StutterIs DEF ArrivalOK
<1> QED BY <1>1, <1>2, <1>3

-----------------------------------------------------------------------------
(* Every step is one of the contract's, or none.  It is never the overflow *)
(* of a queue, as the subscriber is served at once.                        *)
Steady ==
  \/ Contract!Accept \/ Contract!Connect \/ Contract!Deliver \/ Contract!Break
  \/ Contract!HangUp \/ Contract!BusRestarts \/ Contract!SubscriberRestarts

LEMMA BusArrives ==
  ASSUME IInv, ArrivalOK, BusStep
  PROVE  ArrivalOK' /\ (Steady \/ UNCHANGED Contract!busVars)
<1>1. CASE BusConfigures \/ BusListens \/ BusTerminated
  <2>1. UNCHANGED <<accepted, kept, wire, end, handler, sub, hand, lastID, got, svc>>
    BY <1>1 DEF BusConfigures, BusListens, BusTerminated, streamVars, svcVars, subVars
  <2> QED BY <2>1, NothingMoves
<1>2. CASE BusKilled \/ BusDrained
  <2>1. /\ HandlerEnds /\ kept' = {}
        /\ UNCHANGED <<accepted, sub, hand, lastID, got, svc>>
    BY <1>2 DEF BusKilled, BusDrained, BusGone, svcVars, subVars
  <2>2. KeptOK'
    BY <2>1 DEF KeptOK
  <2>3. CASE handler
    <3>1. end = "open" /\ sub \in {"read", "send"}
      BY <2>3, Ranges
    <3>2. handler' = FALSE /\ Cut({"eof", "error"})
      BY <2>1, <2>3, <3>1 DEF HandlerEnds
    <3>3. Connection = "live"
      BY <3>1 DEF Connection
    <3>4. /\ WireOK' /\ ResumeOK' /\ Connection' = "broken"
          /\ Feed' = Feed \/ \E b \in Feed : Feed' = {e \in Feed : e < b}
      BY <2>1, <3>1, <3>2, CutArrives
    <3>5. Contract!BusRestarts
      BY <2>1, <3>3, <3>4, BusRestartsIs
    <3> QED BY <2>2, <3>4, <3>5 DEF ArrivalOK, Steady
  <2>4. CASE ~handler
    <3>1. handler' = FALSE /\ UNCHANGED <<wire, end>>
      BY <2>1, <2>4 DEF HandlerEnds
    <3>2. end # "open"
      BY <2>4, Ranges
    <3>3. Connection # "live" /\ Connection' = Connection /\ Feed' = Feed
      BY <2>1, <3>1, <3>2 DEF Connection, Feed
    <3>4. Reached' = Reached
      BY <2>1 DEF Reached
    <3>5. WireOK' /\ ResumeOK'
      BY <2>1, <3>1, <3>4 DEF ArrivalOK, WireOK, ResumeOK
    <3>6. Contract!BusRestarts
      BY <2>1, <3>3, BusRestartsIs
    <3> QED BY <2>2, <3>5, <3>6 DEF ArrivalOK, Steady
  <2> QED BY <2>3, <2>4
<1>3. CASE Publish
  BY <1>3, PublishAccepts DEF Steady
<1> QED BY <1>1, <1>2, <1>3 DEF BusStep

LEMMA CutIsBreak ==
  ASSUME IInv, ArrivalOK, sub \in {"read", "send"}, NEW ends, "open" \notin ends, Cut(ends),
         handler' = FALSE, UNCHANGED <<accepted, kept, sub, hand, lastID, got, svc>>
  PROVE  ArrivalOK' /\ Contract!Break
<1>1. /\ WireOK' /\ ResumeOK' /\ Connection # "none" /\ Connection' = "broken"
      /\ Feed' = Feed \/ \E b \in Feed : Feed' = {e \in Feed : e < b}
  BY CutArrives
<1>2. KeptOK'
  BY DEF ArrivalOK, KeptOK
<1> QED BY <1>1, <1>2, BreakIs DEF ArrivalOK

LEMMA NetworkArrives ==
  ASSUME IInv, ArrivalOK, NetworkStep
  PROVE  ArrivalOK' /\ (Steady \/ UNCHANGED Contract!busVars)
<1>1. CASE ConnectionLost
  <2>1. /\ handler /\ handler' = FALSE /\ Cut({"eof", "error"})
        /\ UNCHANGED <<accepted, kept, sub, hand, lastID, got, svc>>
    BY <1>1 DEF ConnectionLost, svcVars, subVars
  <2>2. sub \in {"read", "send"}
    BY <2>1, Ranges
  <2> QED BY <2>1, <2>2, CutIsBreak DEF Steady
<1>2. CASE NetworkStalls \/ NetworkRecovers
  <2>1. UNCHANGED <<accepted, kept, wire, end, handler, sub, hand, lastID, got, svc>>
    BY <1>2 DEF NetworkStalls, NetworkRecovers, busVarsOnly, svcVars, subVars
  <2> QED BY <2>1, NothingMoves
<1> QED BY <1>1, <1>2 DEF NetworkStep

LEMMA PumpHangsUp ==
  ASSUME IInv, ArrivalOK, StreamEnds \/ PumpCancelled
  PROVE  ArrivalOK' /\ Contract!HangUp
<1>1. /\ sub \in {"read", "send"} /\ sub' \in {"wait", "done"}
      /\ handler' = FALSE /\ wire' = <<>> /\ hand' = 0
      /\ UNCHANGED <<accepted, kept, svc, lastID, got>>
  BY DEF StreamEnds, CanRead, PumpCancelled, MayCancel, Ended, PumpReturns, BodyClosed, svcVars
<1>2. svc' # "down"
  BY <1>1, Ranges
<1>3. ArrivalOK' /\ Connection' = "none" /\ Feed' = {}
  BY <1>1, <1>2, NothingArrives
<1>4. Connection # "none"
  BY <1>1 DEF Connection
<1> QED BY <1>1, <1>3, <1>4, HangUpIs

LEMMA GoroutineArrives ==
  ASSUME IInv, ArrivalOK, Goroutine
  PROVE  ArrivalOK' /\ (Steady \/ UNCHANGED Contract!busVars)
<1>1. CASE ReadRecord
  BY <1>1, RecordArrives
<1>2. CASE StreamEnds \/ PumpCancelled
  BY <1>2, PumpHangsUp DEF Steady
<1>3. CASE HandOver
  BY <1>3, HandOverDelivers DEF Steady
<1>4. ASSUME sub \in {"wait", "open"}, sub' \notin {"read", "send"},
             UNCHANGED <<accepted, kept, wire, handler, hand, lastID, got, svc>>
      PROVE  ArrivalOK' /\ UNCHANGED Contract!busVars
  <2>1. ~handler /\ wire = <<>> /\ hand = 0 /\ Connection = "none" /\ Feed = {}
    BY <1>4, NoneBefore
  <2>2. svc' # "down"
    BY <1>4, Ranges
  <2>3. handler' = FALSE /\ wire' = <<>> /\ hand' = 0
    <3>1. handler \in BOOLEAN
      BY DEF IInv, TypeOK
    <3> QED BY <1>4, <2>1, <3>1
  <2>4. ArrivalOK' /\ Connection' = "none" /\ Feed' = {}
    BY <1>4, <2>2, <2>3, NothingArrives
  <2> QED BY <1>4, <2>1, <2>4, StutterIs
<1>5. CASE Retry
  <2>1. /\ sub = "wait" /\ sub' \in {"open", "done"}
        /\ UNCHANGED <<accepted, kept, wire, handler, hand, lastID, got, svc>>
    BY <1>5 DEF Retry, Ended, busVarsOnly, streamVars, svcVars
  <2> QED BY <1>4, <2>1
<1>6. CASE Reopen
  <2>1. sub = "open" /\ UNCHANGED <<accepted, kept, hand, lastID, got, svc>>
    BY <1>6 DEF Reopen, svcVars
  <2>2. CASE OpenSucceeds(ResumePoint) /\ sub' = "read"
    <3>1. hand' = 0 /\ svc' # "down"
      BY <2>1, Ranges
    <3>2. ArrivalOK' /\ Contract!Connect
      BY <2>1, <2>2, <3>1, OpenConnects DEF ResumePoint
    <3> QED BY <3>2 DEF Steady
  <2>3. CASE ~(OpenSucceeds(ResumePoint) /\ sub' = "read")
    <3>1. sub' \in {"wait", "done"} /\ UNCHANGED <<wire, handler>>
      BY <1>6, <2>3 DEF Reopen, OpenFails, Ended
    <3> QED BY <1>4, <2>1, <3>1
  <2> QED BY <2>2, <2>3
<1> QED BY <1>1, <1>2, <1>3, <1>5, <1>6 DEF Goroutine

LEMMA ServiceArrives ==
  ASSUME IInv, ArrivalOK, ServiceStep
  PROVE  ArrivalOK' /\ (Steady \/ UNCHANGED Contract!busVars)
<1>1. ASSUME sub \notin {"read", "send"}, sub' \notin {"read", "send"}, hand' = 0,
             got' = <<>>, lastID' = 0, UNCHANGED <<accepted, kept, wire, handler>>
      PROVE  ArrivalOK' /\ Contract!SubscriberRestarts
  <2>1. ~handler /\ wire = <<>>
    BY <1>1, NoneBefore
  <2>2. handler' = FALSE /\ wire' = <<>>
    <3>1. handler \in BOOLEAN
      BY DEF IInv, TypeOK
    <3> QED BY <1>1, <2>1, <3>1
  <2>3. ArrivalOK' /\ Connection' = "none" /\ Feed' = {}
    BY <1>1, <2>2, NothingArrives
  <2> QED BY <1>1, <2>3, SubscriberRestartsIs
<1>2. CASE ServiceStarts
  <2>1. /\ svc = "down" /\ hand' = 0 /\ got' = <<>> /\ lastID' = 0
        /\ UNCHANGED <<accepted, kept>>
    BY <1>2 DEF ServiceStarts, Fresh
  <2>2. sub = "none"
    BY <2>1, Ranges
  <2>3. got = <<>> /\ lastID = 0
    BY <2>1 DEF ArrivalOK, ResumeOK
  <2>4. CASE OpenSucceeds(0) /\ svc' = "running" /\ sub' = "read"
    <3>1. ArrivalOK' /\ Contract!Connect
      BY <2>1, <2>2, <2>3, <2>4, OpenConnects
    <3> QED BY <3>1 DEF Steady
  <2>5. CASE ~(OpenSucceeds(0) /\ svc' = "running" /\ sub' = "read")
    <3>1. UNCHANGED <<wire, handler, sub>>
      BY <1>2, <2>5 DEF ServiceStarts, Refused, OpenFails
    <3>2. ArrivalOK' /\ Contract!SubscriberRestarts
      BY <1>1, <2>1, <2>2, <3>1
    <3> QED BY <3>2 DEF Steady
  <2> QED BY <2>4, <2>5
<1>3. CASE Handled \/ ServiceTerminated \/ Leaves
  <2>1. /\ UNCHANGED <<accepted, kept, wire, end, handler, sub, hand, lastID, got>>
        /\ svc' = "down" => svc = "down"
    BY <1>3 DEF Handled, ServiceTerminated, Leaves, busVarsOnly, streamVars, subVars
  <2> QED BY <2>1, NothingMoves
<1>4. CASE ServiceKilled
  <2>1. /\ handler' = FALSE /\ wire' = <<>> /\ hand' = 0 /\ sub' = "none"
        /\ lastID' = 0 /\ got' = <<>> /\ UNCHANGED <<accepted, kept>>
    BY <1>4 DEF ServiceKilled, Fresh, BodyClosed
  <2>2. ArrivalOK' /\ Connection' = "none" /\ Feed' = {}
    BY <2>1, NothingArrives
  <2> QED BY <2>1, <2>2, SubscriberRestartsIs DEF Steady
<1>5. CASE ServiceExits
  <2>1. /\ sub = "done" /\ sub' = "none" /\ hand' = 0 /\ lastID' = 0 /\ got' = <<>>
        /\ UNCHANGED <<accepted, kept, wire, handler>>
    BY <1>5 DEF ServiceExits, Fresh, busVarsOnly, streamVars
  <2> QED BY <1>1, <2>1 DEF Steady
<1>6. CASE WatchdogFires
  <2>1. /\ sub \in {"read", "send"} /\ handler' = FALSE /\ Cut({"closed"})
        /\ UNCHANGED <<accepted, kept, sub, hand, lastID, got, svc>>
    BY <1>6 DEF WatchdogFires, BodyClosed, svcVars, subVars
  <2> QED BY <2>1, CutIsBreak DEF Steady
<1>7. CASE Tick
  BY <1>7, TickArrives
<1> QED BY <1>2, <1>3, <1>4, <1>5, <1>6, <1>7, GoroutineArrives DEF ServiceStep, MainLoop

LEMMA ContractStep ==
  ASSUME IInv, ArrivalOK, [Next]_vars
  PROVE  ArrivalOK' /\ [Steady]_Contract!busVars
<1>1. CASE UNCHANGED vars
  <2>1. UNCHANGED <<accepted, kept, wire, end, handler, sub, hand, lastID, got, svc>>
    BY <1>1 DEF vars, busVarsOnly, streamVars, svcVars, subVars
  <2> QED BY <2>1, NothingMoves
<1> QED BY <1>1, BusArrives, NetworkArrives, ServiceArrives DEF Next

LEMMA ContractInit ==
  ASSUME Init
  PROVE  ArrivalOK /\ Contract!Init
<1>1. PICK w : w = wire
  OBVIOUS
<1>2. Record(w, 0, 0) /\ Brought(w) = {}
  BY <1>1, EmptyRecord DEF Init
<1>3. Reached = 0 /\ Len(accepted) = 0 /\ hand = 0
  BY DEF Init, Reached
<1>4. WireOK
  BY <1>1, <1>2, <1>3 DEF Init, WireOK, Record
<1>5. ResumeOK /\ KeptOK
  BY <1>3 DEF Init, ResumeOK, KeptOK
<1>6. Feed = {} /\ Connection = "none"
  BY <1>1, <1>2, <1>3 DEF Init, Feed, Connection
<1>7. Contract!Init
  BY <1>6 DEF Init, Contract!Init, Feed, Connection, Complete, Brought
<1> QED BY <1>4, <1>5, <1>7 DEF ArrivalOK

(* However the stream is cut, at whatever line, and however often the bus  *)
(* and the service fail and start again: the consumer is handed what the   *)
(* contract of the bus promises, in order, once and whole.                 *)
THEOREM ClientIsAnEventBus == Spec => ImplementsEventBus
<1>1. Init => ArrivalOK /\ Contract!Init
  BY ContractInit
<1>2. IInv /\ ArrivalOK /\ [Next]_vars => ArrivalOK' /\ [Contract!Next]_Contract!busVars
  BY ContractStep DEF Steady, Contract!Next
<1> QED BY <1>1, <1>2, IInvHolds, PTL DEF Spec, ImplementsEventBus, Contract!Spec
-----------------------------------------------------------------------------
(* What an event comes after: the one handed over last, or one that is on  *)
(* its way.  Every retained event after one of these is on its way itself, *)
(* unless it comes after everything a stream that has failed still brings. *)
After(d) == (got # <<>> /\ got[Len(got)] < d) \/ \E a \in Feed : a < d

NoGap == \A d \in kept : After(d) /\ (Connection = "live" \/ \E b \in Feed : d < b) => d \in Feed

(* The numbers of all the events meant here. *)
LEMMA FeedRanges ==
  ASSUME IInv, ArrivalOK
  PROVE  /\ kept \subseteq 1..Len(accepted) /\ Feed \subseteq 1..Len(accepted)
         /\ Len(accepted) \in Nat /\ ToSet(accepted) = 1..Len(accepted)
         /\ got # <<>> => /\ got[Len(got)] \in Nat
                          /\ \A a \in Feed : got[Len(got)] < a
<1>1. PICK n \in Nat, w \in Seq(Lines), h \in Nat, l \in Nat :
        n = Len(accepted) /\ w = wire /\ h = hand /\ l = lastID
  BY Ranges
<1>2. PICK low \in Nat : /\ low = Reached /\ l <= low /\ low <= n
                         /\ h # 0 => low = h /\ l < h
  BY <1>1, Ranges DEF Reached, ArrivalOK, ResumeOK
<1>3. Within(w, low, n)
  BY <1>1, <1>2 DEF ArrivalOK, WireOK
<1>4. \A e \in Brought(w) : e \in Nat /\ low < e /\ e <= n
  BY <1>1, <1>3, BroughtTyped, BroughtWithin
<1>5. \A e \in Feed : e \in 1..n /\ l < e
  <2> SUFFICES ASSUME NEW e \in Feed PROVE e \in 1..n /\ l < e
    OBVIOUS
  <2>1. e \in Brought(w) \/ (e = h /\ h # 0)
    BY <1>1 DEF Feed
  <2> QED BY <1>1, <1>2, <1>4, <2>1
<1>6. got # <<>> => got[Len(got)] = l
  BY <1>1 DEF ArrivalOK, ResumeOK
<1>7. ToSet(accepted) = 1..n
  <2>1. \A i \in 1..n : accepted[i] = i
    BY <1>1, Ranges
  <2> QED BY <1>1, <2>1 DEF ToSet
<1> QED BY <1>1, <1>5, <1>6, <1>7, Ranges

LEMMA AcceptGap ==
  ASSUME IInv, ArrivalOK, NoGap, Contract!Accept
  PROVE  NoGap'
<1>1. PICK e \in Nat :
        /\ \A d \in ToSet(accepted) : d < e
        /\ kept' \subseteq kept \cup {e} /\ got' = got
        /\ Connection' = Connection
        /\ Feed' = IF Connection = "live" THEN Feed \cup {e} ELSE Feed
  BY EventsAreRanks DEF Contract!Accept, Contract!ToSet, ToSet, Connection, Feed, Complete, Brought
<1>2. PICK n \in Nat : /\ kept \subseteq 1..n /\ Feed \subseteq 1..n
                       /\ \A d \in 1..n : d < e
  BY <1>1, FeedRanges
<1> SUFFICES ASSUME NEW d \in kept', After(d)', Connection' = "live" \/ \E b \in Feed' : d < b
             PROVE  d \in Feed'
  BY DEF NoGap
<1>3. CASE d = e
  BY <1>1, <1>2, <1>3
<1>4. CASE d \in kept
  <2>1. \A x \in Feed' : x < d \/ d < x => x \in Feed \/ x = e
    BY <1>1
  <2>2. After(d)
    BY <1>1, <1>2, <1>4 DEF After
  <2> QED BY <1>1, <1>4, <2>2 DEF NoGap
<1> QED BY <1>1, <1>3, <1>4

LEMMA ConnectGap ==
  ASSUME IInv, ArrivalOK, NoGap, Contract!Connect
  PROVE  NoGap'
<1>1. /\ UNCHANGED <<kept, got>>
      /\ Feed' = {e \in kept \cap Events : got # <<>> /\ e > got[Len(got)]}
  BY DEF Contract!Connect, Contract!Last, Feed, Complete, Brought
<1>2. PICK n \in Nat : kept \subseteq 1..n /\ kept \subseteq Events
  BY FeedRanges, Ranges
<1>3. PICK l : l = got[Len(got)] /\ (got # <<>> => l \in Nat)
  BY FeedRanges
<1> SUFFICES ASSUME NEW d \in kept, After(d)' PROVE d \in Feed'
  BY <1>1 DEF NoGap
<1>4. got # <<>> /\ l < d
  BY <1>1, <1>2, <1>3 DEF After
<1> QED BY <1>1, <1>2, <1>3, <1>4

(* What is delivered, as the contract sees it. *)
LEMMA Delivered ==
  ASSUME IInv, ArrivalOK, Contract!Deliver
  PROVE  \E m \in Feed :
           /\ \A x \in Feed : m <= x
           /\ got' = Append(got, m) /\ got' # <<>> /\ got'[Len(got')] = m
           /\ Feed' = Feed \ {m} /\ Connection' = Connection /\ UNCHANGED kept
<1>1. PICK n \in Nat : Feed \subseteq 1..n
  BY FeedRanges
<1>2. Feed # {} /\ got' = Append(got, Contract!Min(Feed)) /\ Feed' = Feed \ {Contract!Min(Feed)}
  BY DEF Contract!Deliver, Feed, Complete, Brought
<1>3. Connection' = Connection /\ UNCHANGED kept
  BY DEF Contract!Deliver, Connection
<1>4. PICK x \in Feed : \A y \in Feed : x <= y
  <2>1. Feed \subseteq Nat /\ Feed # {}
    BY <1>1, <1>2
  <2> QED BY <2>1, Least
<1>5. PICK m \in Feed : m = Contract!Min(Feed) /\ \A y \in Feed : m <= y
  BY <1>4 DEF Contract!Min
<1>6. PICK g \in Seq(Events) : g = got
  BY Ranges
<1>7. got' # <<>> /\ got'[Len(got')] = m
  <2>1. got' = Append(g, m)
    BY <1>2, <1>5, <1>6
  <2> QED BY <1>6, <2>1, AppendProperties
<1> QED BY <1>2, <1>3, <1>5, <1>7

LEMMA DeliverGap ==
  ASSUME IInv, ArrivalOK, NoGap, Contract!Deliver
  PROVE  NoGap'
<1>1. PICK m \in Feed :
           /\ \A x \in Feed : m <= x
           /\ got' # <<>> /\ got'[Len(got')] = m
           /\ Feed' = Feed \ {m} /\ Connection' = Connection /\ UNCHANGED kept
  BY Delivered
<1>2. PICK n \in Nat : kept \subseteq 1..n /\ Feed \subseteq 1..n
  BY FeedRanges
<1> SUFFICES ASSUME NEW d \in kept, After(d)', Connection = "live" \/ \E b \in Feed' : d < b
             PROVE  d \in Feed'
  BY <1>1 DEF NoGap
<1>3. m < d
  BY <1>1, <1>2 DEF After
<1>4. After(d)
  BY <1>1, <1>3 DEF After
<1>5. d \in Feed
  BY <1>1, <1>4 DEF NoGap
<1> QED BY <1>1, <1>2, <1>3, <1>5

LEMMA BreakGap ==
  ASSUME IInv, ArrivalOK, NoGap, Contract!Break
  PROVE  NoGap'
<1>1. /\ UNCHANGED <<kept, got>> /\ Connection' = "broken"
      /\ Feed' = Feed \/ \E b \in Feed : Feed' = {e \in Feed : e < b}
  BY DEF Contract!Break, Connection, Feed, Complete, Brought
<1>2. PICK n \in Nat : kept \subseteq 1..n /\ Feed \subseteq 1..n
  BY FeedRanges
<1> SUFFICES ASSUME NEW d \in kept, After(d)', NEW c \in Feed', d < c
             PROVE  d \in Feed'
  BY <1>1 DEF NoGap
<1>3. After(d) /\ c \in Feed
  BY <1>1 DEF After
<1>4. d \in Feed
  BY <1>3 DEF NoGap
<1>5. \A b \in Feed : c < b => d < b
  BY <1>2, <1>3
<1> QED BY <1>1, <1>4, <1>5

LEMMA GapStep ==
  ASSUME IInv, ArrivalOK, NoGap, [Steady]_Contract!busVars
  PROVE  NoGap'
<1>1. CASE Contract!HangUp \/ Contract!SubscriberRestarts
  <2>1. Feed' = {} /\ Connection' = "none"
    BY <1>1 DEF Contract!HangUp, Contract!SubscriberRestarts, Feed, Connection, Complete, Brought
  <2> QED BY <2>1 DEF NoGap
<1>2. CASE Contract!BusRestarts
  BY <1>2 DEF Contract!BusRestarts, NoGap
<1>3. CASE UNCHANGED Contract!busVars
  <2>1. UNCHANGED <<kept, got>> /\ Feed' = Feed /\ Connection' = Connection
    BY <1>3 DEF Contract!busVars, Feed, Connection, Complete, Brought
  <2> QED BY <2>1 DEF NoGap, After
<1> QED BY <1>1, <1>2, <1>3, AcceptGap, ConnectGap, DeliverGap, BreakGap DEF Steady

(* Whatever fails, for any events and any history: the event handed over   *)
(* is the next of those the bus still retains.                             *)
THEOREM NoneSkippedHolds == Spec => NoneSkipped
<1> DEFINE NextRetained ==
             got # <<>> /\ got' # <<>> /\ got' # got =>
               /\ Last(got) < Last(got')
               /\ \A d \in kept : d <= Last(got) \/ Last(got') <= d
<1>1. Init => ArrivalOK /\ NoGap
  BY ContractInit DEF Init, NoGap
<1>2. IInv /\ ArrivalOK /\ NoGap /\ [Next]_vars => ArrivalOK' /\ NoGap'
  BY ContractStep, GapStep
<1>3. ASSUME IInv, ArrivalOK, NoGap, [Next]_vars, got # <<>>, got' # <<>>, got' # got
      PROVE  /\ Last(got) < Last(got')
             /\ \A d \in kept : d <= Last(got) \/ Last(got') <= d
  <2>1. Contract!Deliver
    <3>1. [Steady]_Contract!busVars
      BY <1>3, ContractStep
    <3> QED BY <1>3, <3>1 DEF Steady, Contract!busVars, Contract!Accept, Contract!Connect,
          Contract!Break, Contract!HangUp, Contract!BusRestarts, Contract!SubscriberRestarts
  <2>2. PICK m \in Feed : (\A x \in Feed : m <= x) /\ got'[Len(got')] = m
    BY <1>3, <2>1, Delivered
  <2>3. PICK l \in Nat, n \in Nat :
          /\ l = got[Len(got)] /\ kept \subseteq 1..n /\ Feed \subseteq 1..n /\ l < m
    BY <1>3, <2>2, FeedRanges
  <2>4. ASSUME NEW d \in kept, l < d, d < m PROVE FALSE
    <3>1. d \in Feed
      BY <1>3, <2>2, <2>3, <2>4 DEF NoGap, After
    <3> QED BY <2>2, <2>3, <2>4, <3>1
  <2>5. \A d \in kept : d <= l \/ m <= d
    BY <2>2, <2>3, <2>4
  <2> QED BY <2>2, <2>3, <2>5 DEF Last
<1>4. IInv /\ ArrivalOK /\ NoGap /\ [Next]_vars => [NextRetained]_vars
  BY <1>3
<1> QED BY <1>1, <1>2, <1>4, IInvHolds, PTL DEF Spec, NoneSkipped
=============================================================================
