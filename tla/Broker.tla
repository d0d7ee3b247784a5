------------------------------- MODULE Broker -------------------------------
(***************************************************************************)
(* The event bus server (internal/eventbus/broker.go, ring.go, faults.go): *)
(* every POST /publish and every GET /subscribe is served by a goroutine   *)
(* of its own.  They share the set of subscribers and the history, under a *)
(* mutex, and one buffered channel per subscriber.                         *)
(*                                                                         *)
(* An event is a positive number, its rank in the order of ids (ULIDs); 0  *)
(* is the empty id.  Which request reaches the broker first does not       *)
(* follow the order of ids, because publishers mint them independently.    *)
(***************************************************************************)
EXTENDS Naturals, Sequences, SequencesExt, FiniteSets

CONSTANTS Events,       \* the envelopes to be published, each by one request
          Connections,  \* the subscriptions, each served once
          Wants,        \* Wants[c]: the events whose type c asked for
          Buffer,       \* BrokerConfig.Buffer
          History,      \* BrokerConfig.History
          Faults,       \* the faults configured
          Sequential    \* publishers wait for one another, and each id is
                        \* greater than those before it

ASSUME EventsAreRanks == Events \subseteq Nat \ {0}
ASSUME WantsEvents == Wants \in [Connections -> SUBSET Events]
ASSUME BufferIsPositive == Buffer \in Nat \ {0}
ASSUME HistoryIsPositive == History \in Nat \ {0}
ASSUME FaultsAreKnown == Faults \subseteq {"drop", "duplicate", "reorder"}
ASSUME SequentialIsBoolean == Sequential \in BOOLEAN

VARIABLES
  hist, subs,             \* Broker, under its mutex
  count,                  \* the counters of /healthz
  pub, targets, goal,     \* per publish request: where it is, whom it still
                          \* has to reach, whose queue it found full
  serve, queue, replay,   \* per connection: where it is, the channel, the
                          \* history still to be sent
  cur, held,              \* the event being flushed and the one held back
  wire,                   \* everything written to the stream
  recorded,               \* history: the events in the order of publication
  since, snapshot,        \* history, at registration: how many were recorded
                          \* before, and what was to be replayed
  live, taken             \* history: what was offered live to a connection,
                          \* and what its goroutine has received

pubVars    == <<pub, targets, goal>>
brokerVars == <<hist, subs, count, pubVars, serve, queue, replay, cur, held, wire,
                recorded, since, snapshot, live, taken>>

Counters == {"published", "delivered", "dropped", "duplicated", "lagged"}
Nobody == "nobody"

Bump(name, by) == count' = [count EXCEPT ![name] = @ + by]

BrokerInit ==
  /\ hist = <<>> /\ subs = {} /\ count = [n \in Counters |-> 0]
  /\ pub = [e \in Events |-> "new"] /\ targets = [e \in Events |-> {}]
  /\ goal = [e \in Events |-> Nobody]
  /\ serve = [c \in Connections |-> "new"]
  /\ queue = [c \in Connections |-> <<>>] /\ replay = [c \in Connections |-> <<>>]
  /\ cur = [c \in Connections |-> 0] /\ held = [c \in Connections |-> 0]
  /\ wire = [c \in Connections |-> <<>>]
  /\ recorded = <<>>
  /\ since = [c \in Connections |-> 0] /\ snapshot = [c \in Connections |-> {}]
  /\ live = [c \in Connections |-> {}] /\ taken = [c \in Connections |-> <<>>]

-----------------------------------------------------------------------------
(* ring.go *)
add_NeverEvicts(r, e) == Append(r, e)
add_DropsNewest(r, e) == IF Len(r) = History THEN r ELSE Append(r, e)
add(r, e) == IF Len(r) = History THEN Append(Tail(r), e) ELSE Append(r, e)

(* The events of r that are in S, in their order: the loops over the       *)
(* buffer.  A recursive function, so that it can be reasoned about.        *)
Filter(r, S) ==
  LET out[n \in 0..Len(r)] ==
        IF n = 0 THEN <<>>
        ELSE IF r[n] \in S THEN Append(out[n - 1], r[n]) ELSE out[n - 1]
  IN out[Len(r)]

after_SkipsNext(r, id) ==
  IF id = 0 THEN <<>> ELSE Filter(r, {e \in Events : e > id + 1})
after_Inclusive(r, id) ==
  IF id = 0 THEN <<>> ELSE Filter(r, {e \in Events : e >= id})
after(r, id) == IF id = 0 THEN <<>> ELSE Filter(r, {e \in Events : e > id})

-----------------------------------------------------------------------------
(* publish, the critical section: the event enters the history and the     *)
(* subscribers that want it are noted, before any queue is touched.        *)
Publish(e) ==
  /\ pub[e] = "new"
  /\ Sequential => \A d \in Events : d < e => pub[d] = "done"
  /\ Bump("published", 1)
  /\ hist' = add(hist, e) /\ recorded' = Append(recorded, e)
  /\ LET reached == {c \in subs : e \in Wants[c]}
     IN /\ targets' = [targets EXCEPT ![e] = reached]
        /\ pub' = [pub EXCEPT ![e] = IF reached = {} THEN "done" ELSE "try"]
        /\ live' = [c \in Connections |-> IF c \in reached THEN live[c] \cup {e} ELSE live[c]]
  /\ UNCHANGED <<subs, goal, serve, queue, replay, cur, held, wire, since, snapshot, taken>>

HasRoom(c) == Len(queue[c]) < Buffer

Send(e, c) == queue' = [queue EXCEPT ![c] = Append(@, e)]

(* The request is through with connection c. *)
Advance(e, c) ==
  /\ targets' = [targets EXCEPT ![e] = @ \ {c}]
  /\ pub' = [pub EXCEPT ![e] = IF targets[e] = {c} THEN "done" ELSE "try"]
  /\ goal' = [goal EXCEPT ![e] = Nobody]

(* The first trySend. *)
TrySend(e, c) ==
  /\ pub[e] = "try" /\ c \in targets[e]
  /\ \/ HasRoom(c) /\ Send(e, c) /\ Advance(e, c)
     \/ /\ ~HasRoom(c)
        /\ pub' = [pub EXCEPT ![e] = "full"] /\ goal' = [goal EXCEPT ![e] = c]
        /\ UNCHANGED <<queue, targets>>
  /\ UNCHANGED <<hist, subs, count, serve, replay, cur, held, wire, recorded, since,
                 snapshot, live, taken>>

(* The queue was full: discard its oldest event, if it still has one. *)
DiscardOldest(e) ==
  /\ pub[e] = "full"
  /\ pub' = [pub EXCEPT ![e] = "retry"]
  /\ LET c == goal[e]
     IN \/ /\ queue[c] # <<>>
           /\ queue' = [queue EXCEPT ![c] = Tail(@)] /\ Bump("lagged", 1)
        \/ queue[c] = <<>> /\ UNCHANGED <<queue, count>>
  /\ UNCHANGED <<hist, subs, targets, goal, serve, replay, cur, held, wire, recorded,
                 since, snapshot, live, taken>>

(* The second trySend: another request may have taken the place. *)
GiveUpOn_NotCounted(e, c) == UNCHANGED <<queue, count>> /\ Advance(e, c)
GiveUpOn_Waits(e, c) == UNCHANGED <<queue, count, pubVars>>
GiveUpOn(e, c) == UNCHANGED queue /\ Bump("lagged", 1) /\ Advance(e, c)

Resend(e) ==
  /\ pub[e] = "retry"
  /\ LET c == goal[e]
     IN \/ HasRoom(c) /\ Send(e, c) /\ Advance(e, c) /\ UNCHANGED count
        \/ ~HasRoom(c) /\ GiveUpOn(e, c)
  /\ UNCHANGED <<hist, subs, serve, replay, cur, held, wire, recorded, since, snapshot,
                 live, taken>>

FanOut(e) == (\E c \in Connections : TrySend(e, c)) \/ DiscardOldest(e) \/ Resend(e)

-----------------------------------------------------------------------------
(* handleSubscribe, the critical section: register and snapshot. *)
Enlist_Forgets(c) == UNCHANGED subs
Enlist(c) == subs' = subs \cup {c}

Register(c, resumeFrom) ==
  /\ serve[c] = "new"
  /\ Enlist(c)
  /\ LET missed == Filter(after(hist, resumeFrom), Wants[c])
     IN /\ replay' = [replay EXCEPT ![c] = missed]
        /\ snapshot' = [snapshot EXCEPT ![c] = ToSet(missed)]
  /\ serve' = [serve EXCEPT ![c] = "replay"]
  /\ since' = [since EXCEPT ![c] = Len(recorded)]
  /\ UNCHANGED <<hist, count, pubVars, queue, cur, held, wire, recorded, live, taken>>

(* The handler has returned: the request context was cancelled, or a write *)
(* to the stream (an event or a heartbeat) failed.                         *)
Leave(c) == serve' = [serve EXCEPT ![c] = "gone"] /\ subs' = subs \ {c}

Disconnect(c) ==
  /\ serve[c] \notin {"new", "gone"}
  /\ Leave(c)
  /\ UNCHANGED <<hist, count, pubVars, queue, replay, cur, held, wire, recorded, since,
                 snapshot, live, taken>>

(* History is sent first, free of injected faults. *)
Replay(c) ==
  /\ serve[c] = "replay"
  /\ \/ /\ replay[c] # <<>>
        /\ wire' = [wire EXCEPT ![c] = Append(@, Head(replay[c]))]
        /\ replay' = [replay EXCEPT ![c] = Tail(@)]
        /\ Bump("delivered", 1)
        /\ UNCHANGED serve
     \/ /\ replay[c] = <<>>
        /\ serve' = [serve EXCEPT ![c] = "select"]
        /\ UNCHANGED <<wire, replay, count>>
  /\ UNCHANGED <<hist, subs, pubVars, queue, cur, held, recorded, since, snapshot, live, taken>>

(* The select loop takes an event and flushes it or, under the reorder     *)
(* fault and with empty hands, holds it back.                              *)
MayHold_Always(c) == "reorder" \in Faults
MayHold(c) == "reorder" \in Faults /\ held[c] = 0

Take(c) ==
  /\ serve[c] = "select" /\ queue[c] # <<>>
  /\ queue' = [queue EXCEPT ![c] = Tail(@)]
  /\ taken' = [taken EXCEPT ![c] = Append(@, Head(queue[c]))]
  /\ \/ /\ MayHold(c)
        /\ held' = [held EXCEPT ![c] = Head(queue[c])]
        /\ UNCHANGED <<cur, serve>>
     \/ /\ cur' = [cur EXCEPT ![c] = Head(queue[c])]
        /\ serve' = [serve EXCEPT ![c] = "flush"]
        /\ UNCHANGED held
  /\ UNCHANGED <<hist, subs, count, pubVars, replay, wire, recorded, since, snapshot, live>>

(* reorderMaxHold has passed. *)
HoldExpires_Never(c) == FALSE /\ UNCHANGED serve
HoldExpires(c) ==
  /\ serve[c] = "select" /\ held[c] # 0
  /\ serve' = [serve EXCEPT ![c] = "flushHeld"]

Release(c) ==
  /\ HoldExpires(c)
  /\ UNCHANGED <<hist, subs, count, pubVars, queue, replay, cur, held, wire, recorded,
                 since, snapshot, live, taken>>

(* flush returned nil: the event was dropped, written or written twice. *)
Flushed(c, e) ==
  \/ "drop" \in Faults /\ Bump("dropped", 1) /\ UNCHANGED wire
  \/ wire' = [wire EXCEPT ![c] = Append(@, e)] /\ Bump("delivered", 1)
  \/ /\ "duplicate" \in Faults
     /\ wire' = [wire EXCEPT ![c] = @ \o <<e, e>>]
     /\ count' = [count EXCEPT !["delivered"] = @ + 2, !["duplicated"] = @ + 1]

(* flush returned an error before the first write (then nothing but the    *)
(* connection is lost: see Disconnect) or at the second.                   *)
FlushFails(c, e) ==
  /\ "duplicate" \in Faults
  /\ wire' = [wire EXCEPT ![c] = Append(@, e)]
  /\ count' = [count EXCEPT !["delivered"] = @ + 1, !["duplicated"] = @ + 1]
  /\ Leave(c)

AfterFlush_KeepsHolding(c) == "select"
AfterFlush(c) == IF held[c] # 0 THEN "flushHeld" ELSE "select"

FlushCur(c) ==
  /\ serve[c] = "flush"
  /\ \/ /\ Flushed(c, cur[c])
        /\ serve' = [serve EXCEPT ![c] = AfterFlush(c)]
        /\ cur' = [cur EXCEPT ![c] = 0] /\ UNCHANGED subs
     \/ FlushFails(c, cur[c]) /\ UNCHANGED cur
  /\ UNCHANGED <<hist, pubVars, queue, replay, held, recorded, since, snapshot, live, taken>>

FlushHeld(c) ==
  /\ serve[c] = "flushHeld"
  /\ \/ /\ Flushed(c, held[c])
        /\ serve' = [serve EXCEPT ![c] = "select"]
        /\ held' = [held EXCEPT ![c] = 0] /\ UNCHANGED subs
     \/ FlushFails(c, held[c]) /\ UNCHANGED held
  /\ UNCHANGED <<hist, pubVars, queue, replay, cur, recorded, since, snapshot, live, taken>>

Serve(c) == Replay(c) \/ Take(c) \/ Release(c) \/ FlushCur(c) \/ FlushHeld(c)

-----------------------------------------------------------------------------
Finished ==
  /\ \A e \in Events : pub[e] = "done"
  /\ \A c \in Connections : serve[c] = "gone"
  /\ UNCHANGED brokerVars

BrokerStep ==
  \/ \E e \in Events : Publish(e) \/ FanOut(e)
  \/ \E c \in Connections : Disconnect(c) \/ Serve(c)

Next ==
  \/ BrokerStep
  \/ \E c \in Connections, id \in Events \cup {0} : Register(c, id)
  \/ Finished

Spec == BrokerInit /\ [][Next]_brokerVars

(* A publish request never waits for anyone; how fast the connections are  *)
(* served, and whether at all, is up to their readers.                     *)
FairSpec == Spec /\ \A e \in Events : WF_brokerVars(FanOut(e))

-----------------------------------------------------------------------------
TypeOK ==
  /\ hist \in Seq(Events) /\ Len(hist) <= History /\ recorded \in Seq(Events)
  /\ subs \subseteq Connections
  /\ count \in [Counters -> Nat]
  /\ pub \in [Events -> {"new", "try", "full", "retry", "done"}]
  /\ targets \in [Events -> SUBSET Connections]
  /\ goal \in [Events -> Connections \cup {Nobody}]
  /\ serve \in [Connections -> {"new", "replay", "select", "flush", "flushHeld", "gone"}]
  /\ queue \in [Connections -> Seq(Events)] /\ \A c \in Connections : Len(queue[c]) <= Buffer
  /\ replay \in [Connections -> Seq(Events)] /\ wire \in [Connections -> Seq(Events)]
  /\ taken \in [Connections -> Seq(Events)]
  /\ cur \in [Connections -> Events \cup {0}] /\ held \in [Connections -> Events \cup {0}]
  /\ since \in [Connections -> Nat]
  /\ snapshot \in [Connections -> SUBSET Events] /\ live \in [Connections -> SUBSET Events]

(* What is counted: the pairs of a connection and one of its events, the   *)
(* sends still to be tried, the places of the sequences the connections    *)
(* have, and the hands that are full.                                      *)
Pairs(f)  == {p \in Connections \X Events : p[2] \in f[p[1]]}
Sends(t)  == {p \in Connections \X Events : p[1] \in t[p[2]]}
Places(q) == UNION {{c} \X (1..Len(q[c])) : c \in Connections}
Full(h)   == {c \in Connections : h[c] # 0}

(* No event vanishes uncounted, however publishers race for the last place *)
(* in a queue: each event offered to a subscriber is still to be sent,     *)
(* queued, discarded as lag or received; and each one received or replayed *)
(* was delivered or dropped as the counters of /healthz say, or is still   *)
(* in hand.                                                                *)
CountersAddUp ==
  /\ Cardinality(Pairs(live))
       = Cardinality(Sends(targets)) + Cardinality(Places(queue))
         + Cardinality(Places(taken)) + count["lagged"]
  /\ Cardinality(Places(taken)) + Cardinality(Pairs(snapshot)) + count["duplicated"]
       = Cardinality(Places(replay)) + Cardinality(Full(cur)) + Cardinality(Full(held))
         + count["delivered"] + count["dropped"]

(* The comment on registration: an event published while a subscription is *)
(* being set up is "delivered live (possibly also replayed) rather than    *)
(* lost".  From its registration on, a connection is offered every event   *)
(* it wants; nothing is replayed to it but what was among the last History *)
(* events before that; and in fact no event reaches it by both ways.       *)
EveryEventByOneWay ==
  \A c \in Connections : serve[c] # "new" =>
    /\ snapshot[c] \cap live[c] = {}
    /\ \A i \in 1..Len(recorded) :
         LET e == recorded[i]
         IN /\ serve[c] # "gone" /\ i > since[c] /\ e \in Wants[c] => e \in live[c]
            /\ e \in live[c] => i > since[c]
            /\ e \in snapshot[c] => i \in (since[c] - History + 1)..since[c]

(* The history "lets a subscriber that reconnects with a Last-Event-ID     *)
(* resume without losing messages".  With a resume point a connection is   *)
(* replayed exactly those of the last History events published that it     *)
(* wants and whose id is after that point, each once, in whatever order    *)
(* they arrived and however many were evicted; without one, nothing.       *)
RetainedAfter(c, id) ==
  {e \in Wants[c] :
     /\ id # 0 /\ e > id
     /\ \E i \in 1..Len(recorded) : i > Len(recorded) - History /\ recorded[i] = e}

ReplayIsExact ==
  [][\A c \in Connections, id \in Events \cup {0} :
       Register(c, id) =>
         /\ ToSet(replay'[c]) = RetainedAfter(c, id) /\ snapshot'[c] = RetainedAfter(c, id)
         /\ \A k, l \in 1..Len(replay'[c]) : replay'[c][k] = replay'[c][l] => k = l]_brokerVars

(* The reorder fault "holds one message back and emits it after the        *)
(* following one": an event can be overtaken by its successor in the queue *)
(* and by no other.                                                        *)
OvertakenByOneAtMost ==
  \A c \in Connections : \A i, j \in 1..Len(taken[c]) :
    i + 1 < j =>
      \A k, l \in 1..Len(wire[c]) :
         wire[c][k] = taken[c][i] /\ wire[c][l] = taken[c][j] => k < l

(* publish "never blocks": whatever the subscribers do, even one that      *)
(* never reads, a request is answered.                                     *)
PublishNeverBlocks == \A e \in Events : pub[e] # "new" ~> pub[e] = "done"

(* "A trailing held event is never stranded": for a reader that keeps      *)
(* reading it leaves the broker even if nothing is published after it.     *)
HeldIsReleased ==
  \A c \in Connections :
     WF_brokerVars(Serve(c)) => (held[c] # 0 ~> held[c] = 0 \/ serve[c] = "gone")
=============================================================================
