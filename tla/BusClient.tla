----------------------------- MODULE BusClient ------------------------------
(***************************************************************************)
(* One service and its subscription (internal/eventbus/client.go), the     *)
(* stream it reads and the process of the bus (cmd/eventbus): how they     *)
(* start and stop, how a stream ends, and how it is taken up again.        *)
(*                                                                         *)
(* The subscription is a goroutine of its own.  It hands every event to    *)
(* the main loop of the service over an unbuffered channel, so that it     *)
(* does not read the stream while the service is busy.                     *)
(*                                                                         *)
(* The broker is reduced to what this depends on: it retains events,       *)
(* replays those after the resume point and writes the others as they      *)
(* come.  Its queues and races are the subject of Broker.                  *)
(*                                                                         *)
(* Time passes in ticks, for the heartbeat and the idle watchdog only, and *)
(* not while there is something to do: reading what has arrived takes no   *)
(* time, handling an event takes any.                                      *)
(***************************************************************************)
EXTENDS Wire, EnvConfig, BuildingMapping, FiniteSets, FiniteSetsExt, SequencesExt

CONSTANTS Events,       \* 1..n: published in this order
          BusEnvs,      \* the environments the bus may be started in
          ServiceEnvs,  \* those the service may be started in
          Troubles      \* how often something goes wrong

ASSUME EventsAreRanks == Events \subseteq Nat \ {0}
ASSUME LengthsAreNatural == DataBytes \in [Events -> Nat] /\ MaxEventBytes \in Nat
ASSUME TroublesAreNatural == Troubles \in Nat
ASSUME EnvsAreTyped == BusEnvs \subseteq BrokerEnv /\ ServiceEnvs \subseteq ServiceEnv

VARIABLES
  bus, config,       \* the process of the bus; what NewBroker made of its environment
  handler, beat,     \* it serves the stream; ticks since its last heartbeat
  accepted, kept,    \* events in the order of publication; those retained
  wire, end, net,    \* lines not yet read; how the stream ends; the network
  svc,               \* the process of the service
  cancelled, busy,   \* its context; its main loop handles an event
  sub, hand,         \* the goroutine of the subscription; what it hands over
  lastID, backoff, err,    \* the locals of run
  idleTimeout, idle,       \* the watchdog: its length; ticks since its reset
  got, fails,        \* history: the events handed over; failed opens in a row
  troubles

busVarsOnly == <<bus, config, handler, beat, accepted, kept>>
streamVars  == <<wire, end, net>>
svcVars     == <<svc, cancelled, busy>>
subVars     == <<sub, hand, lastID, backoff, err, idleTimeout, idle, got, fails>>
vars        == <<busVarsOnly, streamVars, svcVars, subVars, troubles>>

minBackoff == 1     \* 100 ms
maxBackoff == 50    \* 5 s
FailsCounted == 6   \* more failures in a row make no difference

NoConfig ==
  [buffer |-> 0, history |-> 0, heartbeat |-> 0,
   faults |-> [dropRate |-> Unset, duplicateRate |-> Unset, delay |-> 0, reorder |-> FALSE]]

Trouble == troubles > 0 /\ troubles' = troubles - 1

Init ==
  /\ bus = "down" /\ config = NoConfig /\ handler = FALSE /\ beat = 0
  /\ accepted = <<>> /\ kept = {}
  /\ wire = <<>> /\ end = "eof" /\ net = "ok"
  /\ svc = "down" /\ cancelled = FALSE /\ busy = FALSE
  /\ sub = "none" /\ hand = 0 /\ lastID = 0 /\ backoff = minBackoff /\ err = FALSE
  /\ idleTimeout = 0 /\ idle = 0 /\ got = <<>> /\ fails = 0
  /\ troubles = Troubles

-----------------------------------------------------------------------------
(* What is left of a stream that is cut: its first lines. *)
Cut(ends) == end' \in ends /\ wire' \in Prefixes(wire)

(* The broker's handler returns, or its process is gone. *)
HandlerEnds ==
  /\ handler' = FALSE
  /\ IF handler /\ end = "open" THEN Cut({"eof", "error"}) ELSE UNCHANGED <<wire, end>>

(* The client closes the response body, which ends the handler as well. *)
BodyClosed_Leaks == UNCHANGED handler
BodyClosed == handler' = FALSE

-----------------------------------------------------------------------------
(* cmd/eventbus, run: the configuration and NewBroker.  A bad environment  *)
(* ends the process before it has done anything.                           *)
BusConfigures ==
  /\ bus = "down"
  /\ \E env \in BusEnvs : BrokerConfigFromEnv(env) /\ config' = NewBroker(env)
  /\ bus' = "configured"
  /\ UNCHANGED <<handler, beat, accepted, kept, streamVars, svcVars, subVars, troubles>>

(* ListenAndServe: the address may be taken.  A bus that injects faults or *)
(* retains another number of events is not followed any further here.      *)
Followed(cfg) == ~Enabled(cfg.faults) /\ cfg.history = DefaultHistory

BusListens ==
  /\ bus = "configured"
  /\ \/ bus' = "down" /\ config' = NoConfig
     \/ Followed(config) /\ bus' = "up" /\ UNCHANGED config
  /\ UNCHANGED <<handler, beat, accepted, kept, streamVars, svcVars, subVars, troubles>>

(* The history is in memory. *)
BusGone ==
  /\ bus' = "down" /\ config' = NoConfig /\ beat' = 0 /\ kept' = {}
  /\ HandlerEnds
  /\ UNCHANGED <<accepted, net, svcVars, subVars>>

BusKilled == bus \in {"up", "draining"} /\ Trouble /\ BusGone

(* SIGTERM: nothing new is accepted; streams go on. *)
BusTerminated ==
  /\ bus = "up" /\ Trouble /\ bus' = "draining"
  /\ UNCHANGED <<config, handler, beat, accepted, kept, streamVars, svcVars, subVars>>

(* Shutdown returns when no handler runs any more, or after 10 seconds,    *)
(* which are not counted here; the process ends, and its streams with it.  *)
BusDrained == bus = "draining" /\ BusGone /\ UNCHANGED troubles

(* The broker accepts an event; the subscriber is served at once. *)
retain(S, e) == {d \in S \cup {e} : Quantify(S \cup {e}, LAMBDA x : x > d) < DefaultHistory}

Publish ==
  /\ bus = "up"
  /\ Len(accepted) + 1 \in Events
  /\ LET e == Len(accepted) + 1
     IN /\ accepted' = Append(accepted, e) /\ kept' = retain(kept, e)
        /\ wire' = IF handler /\ end = "open" THEN wire \o writeSSEEvent(e) ELSE wire
  /\ UNCHANGED <<bus, config, handler, beat, end, net, svcVars, subVars, troubles>>

-----------------------------------------------------------------------------
(* The network loses the connection, or carries nothing for a while.       *)
ConnectionLost ==
  /\ handler /\ end = "open" /\ Trouble
  /\ handler' = FALSE /\ Cut({"eof", "error"})
  /\ UNCHANGED <<bus, config, beat, accepted, kept, net, svcVars, subVars>>

NetworkStalls ==
  /\ net = "ok" /\ Trouble /\ net' = "stalled"
  /\ UNCHANGED <<busVarsOnly, wire, end, svcVars, subVars>>

NetworkRecovers ==
  /\ net = "stalled" /\ net' = "ok"
  /\ UNCHANGED <<busVarsOnly, wire, end, svcVars, subVars, troubles>>

-----------------------------------------------------------------------------
(* open: GET /subscribe with the resume point.  The broker registers the   *)
(* stream and writes the history after that point, in the order of         *)
(* publication: the newest events, as many as are replayed.                *)
Replayed_All(from) == kept
Replayed(from) == {e \in kept : from # 0 /\ e > from}

OpenSucceeds(from) ==
  /\ bus = "up" /\ net = "ok"
  /\ handler' = TRUE /\ beat' = 0
  /\ LET n == Cardinality(Replayed(from))
     IN wire' = writeSSEEvents(SubSeq(accepted, Len(accepted) - n + 1, Len(accepted)))
  /\ end' = "open" /\ idle' = 0
  /\ UNCHANGED troubles

OpenFails ==
  /\ \/ (bus # "up" \/ net # "ok") /\ UNCHANGED troubles
     \/ Trouble
  /\ UNCHANGED <<handler, beat, wire, end, idle>>

(* run returns, and with it the channel is closed. *)
Ended_KeepsError == sub' = "done" /\ UNCHANGED err
Ended == sub' = "done" /\ err' = FALSE

-----------------------------------------------------------------------------
(* pump: one call of next.  The body is closed for reading by the watchdog *)
(* only; what the decoder has buffered can still be read then.             *)
CanRead == sub = "read" /\ (net = "ok" \/ end = "closed")

Reset_OnEventsOnly(e) == idle' = IF e = 0 THEN idle ELSE 0
Reset(e) == idle' = 0

ReadRecord ==
  /\ CanRead
  /\ \E r \in next(wire) :
       /\ r.is = "record"
       /\ wire' = SubSeq(wire, r.lines + 1, Len(wire))
       /\ Reset(r.data)
       /\ hand' = r.data /\ sub' = IF r.data = 0 THEN "read" ELSE "send"
  /\ UNCHANGED <<busVarsOnly, end, net, svcVars, lastID, backoff, err, idleTimeout, got, fails,
                 troubles>>

(* pump returns, run closes the body. *)
PumpReturns ==
  /\ BodyClosed /\ wire' = <<>> /\ end' = "eof" /\ hand' = 0 /\ idle' = 0
  /\ UNCHANGED <<bus, config, beat, accepted, kept, net, svcVars, lastID,
                 idleTimeout, got, fails, troubles>>

StreamEnds ==
  /\ CanRead /\ ~cancelled
  /\ \/ \E r \in next(wire) : r.is = "toolong" /\ err' = TRUE /\ UNCHANGED backoff
     \/ next(wire) = {} /\ end = "eof" /\ backoff' = minBackoff /\ UNCHANGED err
     \/ next(wire) = {} /\ end \in {"error", "closed"} /\ err' = TRUE /\ UNCHANGED backoff
  /\ sub' = "wait" /\ PumpReturns

(* The context is cancelled while the goroutine reads or hands over. *)
MayCancel_Reading == sub = "read"
MayCancel == sub \in {"read", "send"}

PumpCancelled == cancelled /\ MayCancel /\ Ended /\ UNCHANGED backoff /\ PumpReturns

(* The main loop receives; only now the resume point moves.                *)
HandOver ==
  /\ sub = "send" /\ svc = "running" /\ ~busy
  /\ got' = Append(got, hand) /\ lastID' = hand /\ busy' = TRUE
  /\ hand' = 0 /\ sub' = "read"
  /\ UNCHANGED <<busVarsOnly, streamVars, svc, cancelled, backoff, err, idleTimeout,
                 idle, fails, troubles>>

(* run: the back-off has passed, or the context ends it. *)
Retry ==
  /\ sub = "wait"
  /\ \/ sub' = "open" /\ backoff' = Min({2 * backoff, maxBackoff}) /\ UNCHANGED err
     \/ cancelled /\ Ended /\ UNCHANGED backoff
  /\ UNCHANGED <<busVarsOnly, streamVars, svcVars, hand, lastID, idleTimeout, idle, got, fails,
                 troubles>>

(* run: the next attempt to connect. *)
Recovered_KeepsBackoff == UNCHANGED backoff
Recovered == backoff' = minBackoff

ResumePoint_None == 0
ResumePoint == lastID

Reopen ==
  /\ sub = "open"
  /\ \/ OpenSucceeds(ResumePoint) /\ sub' = "read" /\ fails' = 0 /\ Recovered /\ UNCHANGED err
     \/ /\ OpenFails /\ ~cancelled /\ sub' = "wait" /\ err' = TRUE
        /\ fails' = Min({fails + 1, FailsCounted}) /\ UNCHANGED backoff
     \/ /\ cancelled /\ Ended
        /\ UNCHANGED <<handler, beat, wire, end, idle, fails, backoff, troubles>>
  /\ UNCHANGED <<bus, config, accepted, kept, net, svcVars, hand, lastID, idleTimeout, got>>

Goroutine == ReadRecord \/ StreamEnds \/ PumpCancelled \/ HandOver \/ Retry \/ Reopen

-----------------------------------------------------------------------------
(* The timer of the watchdog closes the body, whatever pump is doing. *)
WatchdogFires ==
  /\ sub \in {"read", "send"} /\ end # "closed" /\ idle = idleTimeout
  /\ Cut({"closed"}) /\ BodyClosed
  /\ UNCHANGED <<bus, config, beat, accepted, kept, net, svcVars, subVars, troubles>>

(* A tick passes with nothing to do; the broker may write a heartbeat. *)
Tick ==
  /\ sub \in {"read", "send"} /\ end # "closed" /\ ~cancelled
  /\ sub = "read" => ~CanRead \/ (next(wire) = {} /\ end = "open")
  /\ sub = "send" => busy
  /\ idle < idleTimeout /\ idle' = idle + 1
  /\ IF handler THEN /\ beat' = (beat + 1) % config.heartbeat
                     /\ wire' = IF beat' = 0 THEN wire \o writeSSEComment ELSE wire
     ELSE UNCHANGED <<beat, wire>>
  /\ UNCHANGED <<bus, config, handler, accepted, kept, end, net, svcVars, sub,
                 hand, lastID, backoff, err, idleTimeout, got, fails, troubles>>

-----------------------------------------------------------------------------
(* The service without a subscription, its memory gone. *)
Fresh ==
  /\ cancelled' = FALSE /\ busy' = FALSE /\ hand' = 0 /\ lastID' = 0
  /\ backoff' = minBackoff /\ err' = FALSE /\ got' = <<>> /\ fails' = 0

(* run of the service: the tables, the environment, the first connection.  *)
(* It asks for no history.                                                 *)
DoorID(env) == IF env.doorId = "" THEN "door-1" ELSE env.doorId

Accepted(env) ==
  /\ MappingValid /\ BuildSimConfigFromEnv(env) /\ BusConfigFromEnv(env)
  /\ LookupDoor(DoorID(env))

Refused == UNCHANGED <<handler, beat, wire, end, idle, troubles>>

ServiceStarts ==
  /\ svc = "down" /\ Fresh
  /\ \E env \in ServiceEnvs :
       \/ /\ \/ ~Accepted(env) /\ Refused
             \/ Accepted(env) /\ OpenFails
          /\ UNCHANGED <<svc, sub, idleTimeout>>
       \/ /\ Accepted(env) /\ OpenSucceeds(0)
          /\ idleTimeout' = IdleTimeout(env)
          /\ svc' = "running" /\ sub' = "read"
  /\ UNCHANGED <<bus, config, accepted, kept, net>>

(* The main loop has handled an event. *)
Handled ==
  /\ busy /\ busy' = FALSE
  /\ UNCHANGED <<busVarsOnly, streamVars, svc, cancelled, subVars, troubles>>

(* SIGTERM: the context of everything is cancelled. *)
ServiceTerminated ==
  /\ svc = "running" /\ ~cancelled /\ Trouble /\ cancelled' = TRUE
  /\ UNCHANGED <<busVarsOnly, streamVars, svc, busy, subVars>>

(* The main loop sees the context done, or the channel closed; the         *)
(* deferred Close waits for the goroutine.                                 *)
Leaves ==
  /\ svc = "running" /\ ~busy
  /\ \/ cancelled /\ svc' = "closing"
     \/ sub = "done" /\ svc' = IF err THEN "failing" ELSE "closing"
  /\ UNCHANGED <<busVarsOnly, streamVars, cancelled, busy, subVars, troubles>>

ServiceExits ==
  /\ svc \in {"closing", "failing"} /\ sub = "done"
  /\ svc' = "down" /\ sub' = "none" /\ idleTimeout' = 0 /\ Fresh
  /\ UNCHANGED <<busVarsOnly, streamVars, idle, troubles>>

ServiceKilled ==
  /\ svc # "down" /\ Trouble
  /\ svc' = "down" /\ sub' = "none" /\ idleTimeout' = 0 /\ Fresh
  /\ BodyClosed /\ wire' = <<>> /\ end' = "eof" /\ idle' = 0
  /\ UNCHANGED <<bus, config, beat, accepted, kept, net>>

MainLoop == Leaves \/ ServiceExits

-----------------------------------------------------------------------------
BusStep ==
  \/ BusConfigures \/ BusListens \/ BusKilled \/ BusTerminated \/ BusDrained
  \/ Publish

NetworkStep == ConnectionLost \/ NetworkStalls \/ NetworkRecovers

ServiceStep ==
  \/ ServiceStarts \/ Handled \/ ServiceTerminated \/ ServiceKilled \/ MainLoop
  \/ Goroutine \/ WatchdogFires \/ Tick

Next == BusStep \/ NetworkStep \/ ServiceStep

Spec == Init /\ [][Next]_vars

(* The goroutine and the main loop are scheduled, an event is handled in   *)
(* the end because every call it makes has a time-out, and time passes.    *)
FairSpec ==
  /\ Spec
  /\ WF_vars(Goroutine) /\ WF_vars(MainLoop) /\ WF_vars(Handled)
  /\ WF_vars(WatchdogFires \/ Tick)

-----------------------------------------------------------------------------
TypeOK ==
  /\ bus \in {"down", "configured", "up", "draining"}
  /\ beat \in Nat /\ (handler => beat < config.heartbeat)
  /\ accepted \in Seq(Events) /\ kept \subseteq Events /\ Cardinality(kept) <= DefaultHistory
  /\ {handler, cancelled, busy, err} \subseteq BOOLEAN
  /\ handler => end = "open"
  /\ end \in {"open", "eof", "error", "closed"} /\ net \in {"ok", "stalled"}
  /\ svc \in {"down", "running", "closing", "failing"}
  /\ sub \in {"none", "read", "send", "wait", "open", "done"}
  /\ svc = "down" <=> sub = "none"
  /\ hand \in Events \cup {0} /\ (hand # 0 <=> sub = "send")
  /\ lastID \in Events \cup {0} /\ got \in Seq(Events)
  /\ backoff \in minBackoff..maxBackoff /\ fails \in 0..FailsCounted
  /\ idle \in 0..idleTimeout /\ troubles \in 0..Troubles

(* However the stream is cut, restarted and resumed, at whatever line, and *)
(* however slow the service is: the client with its decoder, resume point  *)
(* and hand-over implements what the bus promises a subscriber.  No event  *)
(* is handed over twice, out of order or half read; a service that starts  *)
(* again starts from nothing.                                              *)
Complete == {wire[i].event : i \in {j \in 1..(Len(wire) - 1) : wire[j].field = "data"}}

Contract == INSTANCE EventBus WITH
  Wanted <- Events,
  Window <- DefaultHistory,
  open   <- IF sub \notin {"read", "send"} THEN "none"
            ELSE IF end = "open" THEN "live" ELSE "broken",
  feed   <- Complete \cup ({hand} \ {0})

ImplementsEventBus == Contract!Spec

(* The contract lets a full queue lose an event.  Apart from that nothing  *)
(* is lost, neither by a cut nor by a late hand-over nor by resuming       *)
(* (client.go:236-238): what is handed over next comes after what was      *)
(* handed over last, and nothing the bus still retains lies between them.  *)
NoneSkipped ==
  [][got # <<>> /\ got' # <<>> /\ got' # got =>
       /\ Last(got) < Last(got')
       /\ \A d \in kept : d <= Last(got) \/ Last(got') <= d]_vars

(* The watchdog closes a connection only for a reason: the service was     *)
(* busy, nothing came through, the stream had ended anyway, or the bus was *)
(* set to beat no faster than the client's patience lasts.  A quiet but    *)
(* healthy stream stays open.                                              *)
WatchdogHasACause ==
  [][end' = "closed" /\ end # "closed" =>
       \/ sub = "send" \/ net = "stalled" \/ next(wire) # {} \/ end # "open"
       \/ config.heartbeat >= idleTimeout]_vars

(* The wait before the next attempt doubles with every failed one, up to   *)
(* 5 s, and starts again from 100 ms once the bus was reached.             *)
BackoffFollowsFailures ==
  sub = "wait" => backoff = Min({2 ^ fails, maxBackoff})

(* Whatever becomes of the stream, a service that has once subscribed does *)
(* not exit with an error: the terminal error is always nil.               *)
OnlyStartUpFails == svc # "failing"

(* What a process runs with is usable, whatever the environment says: a    *)
(* ticker, a ring or a channel of no length would panic, a watchdog of     *)
(* none would close every connection.  A rate that is a number is one, and *)
(* no delay is negative, although the product it is computed as may wrap.  *)
RunningIsUsable ==
  /\ svc # "down" => idleTimeout > 0
  /\ bus = "configured" =>
       /\ config.buffer > 0 /\ config.history > 0 /\ config.heartbeat > 0
       /\ config.faults.delay >= 0
       /\ \A rate \in {config.faults.dropRate, config.faults.duplicateRate} :
            rate.is = "number" => rate.n \in 0..100

-----------------------------------------------------------------------------
(* The bus, the network and the service all stay up. *)
Healthy == bus = "up" /\ net = "ok" /\ svc = "running" /\ ~cancelled

Missed(e) == e \in kept /\ got # <<>> /\ e > Last(got)
Undecodable(e) == \E r \in next(writeSSEEvent(e)) : r.is = "toolong"

(* A retained event that was published after the last one handed over      *)
(* arrives, or leaves the history first - unless a retained event before   *)
(* it is too long for the decoder: then every connection breaks there, and *)
(* nothing after it arrives until it is evicted.                           *)
ResumedEventsArrive ==
  \A e \in Events :
    (Missed(e) /\ Healthy /\ ~\E d \in kept : d <= e /\ Missed(d) /\ Undecodable(d))
      ~> (e \in ToSet(got) \/ e \notin kept \/ ~Healthy)

(* SIGTERM ends the service, even while the goroutine holds an event that  *)
(* the main loop will not take any more.                                   *)
CancelEndsIt == cancelled ~> svc = "down"
=============================================================================
