----------------------- MODULE BusSubscriptionProofs ------------------------
(***************************************************************************)
(* The client over the broker, for any events, any connections and any     *)
(* sizes of queues and history.                                            *)
(*                                                                         *)
(* The subscription contains a behaviour of Broker (InsideBroker), so what *)
(* BrokerProofs says of it holds here.  What is added is the order of ids, *)
(* from the request through queue, hand and stream to the consumer.  It is *)
(* there only as long as publishers do not race and no fault repeats or    *)
(* reorders events (Calm).  From it follow NothingTwice,                   *)
(* ResumeLosesNothing and, without any fault, the contract EventBus.       *)
(***************************************************************************)
EXTENDS BusSubscription, BrokerProofs

Calm == Sequential /\ Faults \cap {"duplicate", "reorder"} = {}

Before(S, T) == \A x \in S, y \in T : x < y

(* One request at a time, in the order of ids.  When it comes to its       *)
(* second send, nobody has taken the place.                                *)
RequestsInOrder ==
  /\ \A d, e \in Events : pub[e] # "new" /\ d < e => pub[d] = "done"
  /\ \A e \in Events : pub[e] \in {"new", "done"} => targets[e] = {}
  /\ \A e \in Events : pub[e] = "retry" => HasRoom(goal[e])
  /\ Increasing(recorded)

(* What is on its way to a connection: written, about to be written,       *)
(* queued, and about to be queued.                                         *)
Sent(c)      == ToSet(wire[c])
InHand(c)    == IF serve[c] = "flush" THEN {cur[c]} ELSE {}
Writing(c)   == InHand(c) \cup ToSet(replay[c])
Queued(c)    == ToSet(queue[c])
Targeting(c) == {e \in Events : c \in targets[e]}

(* It is there in the order of ids. *)
Lined(W, F, Q, T) == Before(W, F \cup Q \cup T) /\ Before(F, Q \cup T) /\ Before(Q, T)

InOrder(c) ==
  /\ Increasing(wire[c]) /\ Increasing(replay[c]) /\ Increasing(queue[c])
  /\ Lined(Sent(c), Writing(c), Queued(c), Targeting(c))
  /\ serve[c] \in {"select", "flush"} => replay[c] = <<>>
  /\ held[c] = 0

AllInOrder == \A c \in Connections : InOrder(c)

(* The client is before everything that is still to reach it. *)
Unread(c, n) == {wire[c][k] : k \in (n + 1)..Len(wire[c])}

Ahead(c, n)  == Unread(c, n) \cup Writing(c) \cup Queued(c) \cup Targeting(c)

LastOK ==
  /\ link \in Connections \cup {Nobody} /\ read \in Nat /\ lastID \in Events \cup {0}

ClientOK ==
  /\ received \in Seq(Events) /\ Increasing(received)
  /\ lastID = IF received = <<>> THEN 0 ELSE received[Len(received)]
  /\ lastID # 0 => pub[lastID] # "new"
  /\ link # Nobody =>
       /\ serve[link] # "new" /\ read <= Len(wire[link])
       /\ Before({lastID}, Ahead(link, read))

-----------------------------------------------------------------------------
(* A step of the subscription is one of the broker. *)
LEMMA InsideStep ==
  ASSUME TypeInv, LastOK, [SubNext]_subVars
  PROVE  [Next]_brokerVars /\ LastOK'
<1>1. CASE \E c \in Connections : Open(c)
  BY <1>1 DEF Open, LastOK, Next
<1>2. CASE Forward
  <2>1. link \in Connections /\ read + 1 \in 1..Len(wire[link]) /\ wire[link] \in Seq(Events)
    BY <1>2 DEF Forward, LastOK, TypeInv, TypeOK
  <2>2. wire[link][read + 1] \in Events
    BY <2>1
  <2> QED BY <1>2, <2>2 DEF Forward, Cursor, LastOK
<1>3. CASE Lose
  BY <1>3 DEF Lose, LastOK
<1>4. CASE BrokerStep /\ UNCHANGED clientVars
  BY <1>4 DEF Next, clientVars, LastOK
<1>5. CASE AllUsed \/ UNCHANGED subVars
  BY <1>5 DEF AllUsed, subVars, clientVars, LastOK
<1> QED BY <1>1, <1>2, <1>3, <1>4, <1>5 DEF SubNext

LEMMA InsideBroker == SubSpec => Spec /\ []LastOK
<1>1. SubInit => BrokerInit /\ TypeInv /\ LastOK
  BY TypeInit DEF SubInit, LastOK
<1>2. TypeInv /\ LastOK /\ [SubNext]_subVars => TypeInv' /\ LastOK'
  BY InsideStep, TypeStep
<1>3. TypeInv /\ LastOK /\ [SubNext]_subVars => [Next]_brokerVars
  BY InsideStep
<1> QED BY <1>1, <1>2, <1>3, PTL DEF SubSpec, Spec

BrokerOK == TypeInv /\ HistoryOK /\ OffersOK /\ WayOK /\ StreamOK

LEMMA BrokerHolds == SubSpec => [](BrokerOK /\ LastOK)
<1> QED BY InsideBroker, TypeInvHolds, HistoryHolds, WayHolds, StreamHolds, PTL DEF BrokerOK

-----------------------------------------------------------------------------
(* Sequences and the sets of their values. *)
LEMMA InSet ==
  ASSUME NEW s \in Seq(Events)
  PROVE  /\ \A e : e \in ToSet(s) <=> Has(s, e)
         /\ ToSet(s) \subseteq Events
BY DEF ToSet, Has

LEMMA AppendSet ==
  ASSUME NEW s \in Seq(Events), NEW e \in Events, NEW t, t = Append(s, e)
  PROVE  /\ t \in Seq(Events) /\ ToSet(t) = ToSet(s) \cup {e}
         /\ (Increasing(s) /\ Before(ToSet(s), {e}) => Increasing(t))
<1>1. /\ t \in Seq(Events) /\ Len(s) \in Nat /\ Len(t) = Len(s) + 1
      /\ t[Len(s) + 1] = e /\ \A i \in 1..Len(s) : t[i] = s[i]
  BY Longer
<1>2. \A x : Has(t, x) <=> (Has(s, x) \/ x = e)
  <2>1. ASSUME NEW x, Has(t, x) PROVE Has(s, x) \/ x = e
    BY <1>1, <2>1 DEF Has
  <2>2. ASSUME NEW x, Has(s, x) PROVE Has(t, x)
    BY <1>1, <2>2 DEF Has
  <2>3. Has(t, e)
    BY <1>1 DEF Has
  <2> QED BY <2>1, <2>2, <2>3
<1>3. ToSet(t) = ToSet(s) \cup {e}
  BY <1>1, <1>2, InSet
<1>4. ASSUME Increasing(s), Before(ToSet(s), {e}) PROVE Increasing(t)
  <2> SUFFICES ASSUME NEW i \in 1..Len(t), NEW j \in 1..Len(t), i < j PROVE t[i] < t[j]
    BY DEF Increasing
  <2>1. i \in 1..Len(s) /\ t[i] = s[i] /\ s[i] \in ToSet(s)
    BY <1>1, InSet DEF Has
  <2>2. CASE j = Len(s) + 1
    BY <1>1, <1>4, <2>1, <2>2 DEF Before
  <2>3. CASE j # Len(s) + 1
    BY <1>1, <1>4, <2>1, <2>3 DEF Increasing
  <2> QED BY <2>2, <2>3
<1> QED BY <1>1, <1>3, <1>4

LEMMA TailSet ==
  ASSUME NEW s \in Seq(Events), s # <<>>, NEW t, t = Tail(s)
  PROVE  /\ t \in Seq(Events) /\ Head(s) \in Events
         /\ ToSet(s) = ToSet(t) \cup {Head(s)}
         /\ (Increasing(s) => Increasing(t) /\ Before({Head(s)}, ToSet(t)))
<1>1. /\ t \in Seq(Events) /\ Len(s) \in Nat /\ Len(s) >= 1 /\ Len(t) = Len(s) - 1
      /\ Head(s) = s[1] /\ s[1] \in Events /\ \A i \in 1..Len(t) : t[i] = s[i + 1]
  OBVIOUS
<1>2. ASSUME NEW x, Has(s, x) PROVE Has(t, x) \/ x = Head(s)
  <2>1. PICK i \in 1..Len(s) : s[i] = x
    BY <1>2 DEF Has
  <2>2. CASE i = 1
    BY <1>1, <2>1, <2>2
  <2>3. CASE i # 1
    <3>1. i - 1 \in 1..Len(t) /\ t[i - 1] = s[(i - 1) + 1] /\ (i - 1) + 1 = i
      BY <1>1, <2>3
    <3> QED BY <2>1, <3>1 DEF Has
  <2> QED BY <2>2, <2>3
<1>3. ASSUME NEW x, Has(t, x) PROVE Has(s, x)
  <2>1. PICK i \in 1..Len(t) : t[i] = x
    BY <1>3 DEF Has
  <2>2. i + 1 \in 1..Len(s) /\ s[i + 1] = x
    BY <1>1, <2>1
  <2> QED BY <2>2 DEF Has
<1>4. Has(s, Head(s))
  BY <1>1 DEF Has
<1>5. ToSet(s) = ToSet(t) \cup {Head(s)}
  BY <1>1, <1>2, <1>3, <1>4, InSet
<1>6. ASSUME Increasing(s) PROVE Increasing(t) /\ Before({Head(s)}, ToSet(t))
  <2>1. ASSUME NEW i \in 1..Len(t), NEW j \in 1..Len(t), i < j PROVE t[i] < t[j]
    <3>1. i + 1 \in 1..Len(s) /\ j + 1 \in 1..Len(s) /\ i + 1 < j + 1
      BY <1>1, <2>1
    <3> QED BY <1>1, <1>6, <3>1 DEF Increasing
  <2>2. ASSUME NEW i \in 1..Len(t) PROVE Head(s) < t[i]
    <3>1. 1 \in 1..Len(s) /\ i + 1 \in 1..Len(s) /\ 1 < i + 1
      BY <1>1
    <3> QED BY <1>1, <1>6, <3>1 DEF Increasing
  <2>3. \A x \in ToSet(t) : Head(s) < x
    BY <1>1, <2>2, InSet DEF Has
  <2> QED BY <2>1, <2>3 DEF Increasing, Before
<1> QED BY <1>1, <1>5, <1>6

LEMMA EmptySet == ToSet(<<>>) = {}
BY DEF ToSet

-----------------------------------------------------------------------------
(* What a step of the broker does to one connection. *)
Rest(c)       == serve'[c] = serve[c] /\ cur'[c] = cur[c]
NoWrite(c)    == wire'[c] = wire[c] /\ replay'[c] = replay[c]
NoQueueing(c) == queue'[c] = queue[c]
NoRequest(c)  == Targeting(c)' = Targeting(c)

Rests(c)      == Rest(c) /\ NoWrite(c) /\ NoQueueing(c) /\ NoRequest(c)
Offers(c, e)  == /\ Rest(c) /\ NoWrite(c) /\ NoQueueing(c)
                 /\ Targeting(c)' = Targeting(c) \cup {e}
Queues(c, e)  == /\ Rest(c) /\ NoWrite(c)
                 /\ Targeting(c) = {e} /\ Targeting(c)' = {}
                 /\ queue'[c] = Append(queue[c], e)
Overflows(c, e) == /\ Rest(c) /\ NoWrite(c) /\ NoRequest(c)
                   /\ Targeting(c) = {e}
                   /\ queue[c] # <<>> /\ queue'[c] = Tail(queue[c])
Ends(c)       == /\ serve[c] \notin {"new", "gone"} /\ serve'[c] = "gone" /\ cur'[c] = cur[c]
                 /\ NoWrite(c) /\ NoQueueing(c) /\ NoRequest(c)
Replays(c)    == /\ serve[c] = "replay" /\ Rest(c) /\ NoQueueing(c) /\ NoRequest(c)
                 /\ replay[c] # <<>> /\ replay'[c] = Tail(replay[c])
                 /\ wire'[c] = Append(wire[c], Head(replay[c]))
ReplayEnds(c) == /\ serve[c] = "replay" /\ serve'[c] = "select" /\ replay[c] = <<>>
                 /\ cur'[c] = cur[c] /\ NoWrite(c) /\ NoQueueing(c) /\ NoRequest(c)
Takes(c)      == /\ serve[c] = "select" /\ serve'[c] = "flush" /\ NoWrite(c) /\ NoRequest(c)
                 /\ queue[c] # <<>> /\ queue'[c] = Tail(queue[c])
                 /\ cur'[c] = Head(queue[c])
Flushes(c)    == /\ serve[c] = "flush" /\ serve'[c] = "select" /\ replay'[c] = replay[c]
                 /\ cur'[c] = 0 /\ NoQueueing(c) /\ NoRequest(c)
                 /\ \/ wire'[c] = Append(wire[c], cur[c])
                    \/ "drop" \in Faults /\ wire'[c] = wire[c]

ServedEffect(c) ==
  Rests(c) \/ Ends(c) \/ Replays(c) \/ ReplayEnds(c) \/ Takes(c) \/ Flushes(c)

(* The loop of the connection. *)
LEMMA ServeEffect ==
  ASSUME Calm, TypeInv, AllInOrder, NEW c \in Connections, NEW d \in Connections,
         Disconnect(d) \/ Serve(d)
  PROVE  ServedEffect(c) /\ held'[c] = 0 /\ UNCHANGED <<pub, targets, goal, recorded>>
<1>1. /\ serve \in [Connections -> {"new", "replay", "select", "flush", "flushHeld", "gone"}]
      /\ queue \in [Connections -> Seq(Events)] /\ replay \in [Connections -> Seq(Events)]
      /\ wire \in [Connections -> Seq(Events)]
      /\ cur \in [Connections -> Events \cup {0}] /\ held \in [Connections -> Events \cup {0}]
      /\ \A x \in Connections : held[x] = 0 /\ serve[x] # "flushHeld"
  BY DEF TypeInv, TypeOK, HandsOK, AllInOrder, InOrder
<1>2. "duplicate" \notin Faults /\ "reorder" \notin Faults
  BY DEF Calm
<1>3. CASE Disconnect(d)
  <2>1. /\ serve' = [serve EXCEPT ![d] = "gone"] /\ serve[d] \notin {"new", "gone"}
        /\ UNCHANGED <<pub, targets, goal, recorded, queue, replay, cur, held, wire>>
    BY <1>3 DEF Disconnect, Leave, pubVars
  <2> QED BY <1>1, <2>1 DEF ServedEffect, Rests, Ends, Rest, NoWrite, NoQueueing, NoRequest, Targeting
<1>4. CASE Replay(d)
  <2>1. /\ serve[d] = "replay" /\ UNCHANGED <<pub, targets, goal, recorded, queue, cur, held>>
        /\ \/ /\ replay[d] # <<>> /\ wire' = [wire EXCEPT ![d] = Append(wire[d], Head(replay[d]))]
              /\ replay' = [replay EXCEPT ![d] = Tail(replay[d])] /\ serve' = serve
           \/ /\ replay[d] = <<>> /\ serve' = [serve EXCEPT ![d] = "select"]
              /\ UNCHANGED <<wire, replay>>
    BY <1>4 DEF Replay, pubVars
  <2> QED BY <1>1, <2>1 DEF ServedEffect, Rests, Replays, ReplayEnds, Rest, NoWrite, NoQueueing,
             NoRequest, Targeting
<1>5. CASE Take(d)
  <2>1. /\ serve[d] = "select" /\ queue[d] # <<>> /\ queue' = [queue EXCEPT ![d] = Tail(queue[d])]
        /\ cur' = [cur EXCEPT ![d] = Head(queue[d])] /\ serve' = [serve EXCEPT ![d] = "flush"]
        /\ UNCHANGED <<pub, targets, goal, recorded, replay, held, wire>>
    BY <1>2, <1>5 DEF Take, MayHold, pubVars
  <2> QED BY <1>1, <2>1 DEF ServedEffect, Rests, Takes, Rest, NoWrite, NoQueueing, NoRequest, Targeting
<1>6. CASE FlushCur(d)
  <2>1. /\ serve[d] = "flush" /\ serve' = [serve EXCEPT ![d] = "select"]
        /\ cur' = [cur EXCEPT ![d] = 0]
        /\ \/ wire' = [wire EXCEPT ![d] = Append(wire[d], cur[d])]
           \/ "drop" \in Faults /\ wire' = wire
        /\ UNCHANGED <<pub, targets, goal, recorded, replay, held, queue>>
    BY <1>1, <1>2, <1>6 DEF FlushCur, Flushed, FlushFails, AfterFlush, pubVars
  <2> QED BY <1>1, <2>1 DEF ServedEffect, Rests, Flushes, Rest, NoWrite, NoQueueing, NoRequest, Targeting
<1>7. CASE Release(d) \/ FlushHeld(d)
  BY <1>1, <1>7 DEF Release, HoldExpires, FlushHeld
<1> QED BY <1>3, <1>4, <1>5, <1>6, <1>7 DEF Serve

-----------------------------------------------------------------------------
(* Only the request at work has somebody to reach. *)
LEMMA OneAtWork ==
  ASSUME TypeInv, RequestsInOrder, NEW e \in Events, pub[e] \notin {"new", "done"}
  PROVE  /\ \A d \in Events : d # e => pub[d] \in {"new", "done"} /\ targets[d] = {}
         /\ \A c \in Connections : c \in targets[e] => Targeting(c) = {e}
<1>1. ASSUME NEW d \in Events, d # e PROVE pub[d] \in {"new", "done"}
  <2>1. d \in Nat /\ e \in Nat
    BY EventsAreRanks
  <2>2. CASE d < e
    BY <2>2 DEF RequestsInOrder
  <2>3. CASE e < d
    BY <2>3 DEF RequestsInOrder
  <2> QED BY <1>1, <2>1, <2>2, <2>3
<1> QED BY <1>1 DEF RequestsInOrder, Targeting

(* A request to a queue: it is queued, takes the oldest event out, or      *)
(* notes that it has to.                                                   *)
LEMMA AdvanceEffect ==
  ASSUME TypeInv, RequestsInOrder, NEW e \in Events, NEW d \in Connections,
         pub[e] \in {"try", "retry"}, d \in targets[e], Advance(e, d)
  PROVE  /\ Targeting(d) = {e} /\ Targeting(d)' = {}
         /\ \A c \in Connections : c # d => Targeting(c)' = Targeting(c)
<1>1. /\ targets \in [Events -> SUBSET Connections]
      /\ targets' = [targets EXCEPT ![e] = targets[e] \ {d}]
  BY DEF TypeInv, TypeOK, Advance
<1>2. /\ \A x \in Events : x # e => targets[x] = {}
      /\ Targeting(d) = {e}
  BY OneAtWork
<1>3. \A x \in Events : targets'[x] = IF x = e THEN targets[e] \ {d} ELSE {}
  BY <1>1, <1>2
<1>4. Targeting(d)' = {}
  BY <1>3 DEF Targeting
<1>5. ASSUME NEW c \in Connections, c # d PROVE Targeting(c)' = Targeting(c)
  BY <1>2, <1>3, <1>5 DEF Targeting
<1> QED BY <1>2, <1>4, <1>5

LEMMA FanOutEffect ==
  ASSUME TypeInv, RequestsInOrder, NEW e \in Events, FanOut(e), NEW c \in Connections
  PROVE  /\ Rests(c) \/ Queues(c, e) \/ Overflows(c, e)
         /\ UNCHANGED <<held, recorded>>
<1>1. /\ UNCHANGED <<serve, wire, replay, cur, held, recorded>>
      /\ queue \in [Connections -> Seq(Events)]
  BY DEF FanOut, TrySend, DiscardOldest, Resend, TypeInv, TypeOK
<1>2. Rest(c) /\ NoWrite(c)
  BY <1>1 DEF Rest, NoWrite
<1>3. ASSUME NEW d \in Connections, d \in targets[e], pub[e] \in {"try", "retry"},
             Send(e, d), Advance(e, d)
      PROVE  Rests(c) \/ Queues(c, e)
  <2>1. /\ queue'[d] = Append(queue[d], e)
        /\ c # d => queue'[c] = queue[c]
    BY <1>1, <1>3 DEF Send
  <2>2. /\ Targeting(d) = {e} /\ Targeting(d)' = {}
        /\ c # d => Targeting(c)' = Targeting(c)
    BY <1>3, AdvanceEffect
  <2> QED BY <1>2, <2>1, <2>2 DEF Rests, Queues, NoQueueing, NoRequest
<1>4. CASE \E d \in Connections : TrySend(e, d)
  <2>1. PICK d \in Connections : TrySend(e, d)
    BY <1>4
  <2>2. CASE Send(e, d) /\ Advance(e, d)
    BY <1>1, <1>3, <2>1, <2>2 DEF TrySend
  <2>3. CASE UNCHANGED <<queue, targets>>
    BY <1>1, <1>2, <2>3 DEF Rests, NoQueueing, NoRequest, Targeting
  <2> QED BY <2>1, <2>2, <2>3 DEF TrySend
<1>5. CASE DiscardOldest(e)
  <2>1. /\ pub[e] = "full" /\ goal[e] \in targets[e] /\ goal[e] \in Connections /\ targets' = targets
    BY <1>5 DEF DiscardOldest, TypeInv, TypeOK, GoalsOK
  <2>2. NoRequest(c)
    BY <2>1 DEF NoRequest, Targeting
  <2>3. Targeting(goal[e]) = {e}
    BY <2>1, OneAtWork
  <2>4. CASE queue' = queue
    BY <1>1, <1>2, <2>2, <2>4 DEF Rests, NoQueueing
  <2>5. CASE queue[goal[e]] # <<>> /\ queue' = [queue EXCEPT ![goal[e]] = Tail(queue[goal[e]])]
    BY <1>1, <1>2, <2>1, <2>2, <2>3, <2>5 DEF Rests, Overflows, NoQueueing
  <2> QED BY <1>5, <2>4, <2>5 DEF DiscardOldest
<1>6. CASE Resend(e)
  <2>1. pub[e] = "retry" /\ goal[e] \in targets[e] /\ goal[e] \in Connections
    BY <1>6 DEF Resend, TypeInv, TypeOK, GoalsOK
  <2>2. HasRoom(goal[e])
    BY <2>1 DEF RequestsInOrder
  <2>3. Send(e, goal[e]) /\ Advance(e, goal[e])
    BY <1>6, <2>2 DEF Resend
  <2> QED BY <1>1, <1>3, <2>1, <2>3
<1> QED BY <1>1, <1>4, <1>5, <1>6 DEF FanOut

LEMMA PublishEffect ==
  ASSUME TypeInv, RequestsInOrder, NEW e \in Events, Publish(e), NEW c \in Connections
  PROVE  /\ IF c \in subs /\ e \in Wants[c] THEN Offers(c, e) ELSE Rests(c)
         /\ UNCHANGED held
<1>1. /\ UNCHANGED <<serve, wire, replay, cur, held, queue>> /\ pub[e] = "new"
      /\ targets' = [targets EXCEPT ![e] = {d \in subs : e \in Wants[d]}]
      /\ targets \in [Events -> SUBSET Connections]
  BY DEF Publish, TypeInv, TypeOK
<1>2. Rest(c) /\ NoWrite(c) /\ NoQueueing(c)
  BY <1>1 DEF Rest, NoWrite, NoQueueing
<1>3. targets[e] = {}
  BY <1>1 DEF RequestsInOrder
<1>4. Targeting(c)' = IF c \in subs /\ e \in Wants[c] THEN Targeting(c) \cup {e} ELSE Targeting(c)
  BY <1>1, <1>3 DEF Targeting
<1> QED BY <1>1, <1>2, <1>4 DEF Offers, Rests, NoRequest

-----------------------------------------------------------------------------
(* Requests stay in order. *)
LEMMA PublishedLater ==
  ASSUME Calm, TypeInv, HistoryOK, RequestsInOrder, NEW e \in Events, Publish(e)
  PROVE  \A d \in Events : pub[d] # "new" => d < e
<1> SUFFICES ASSUME NEW d \in Events, pub[d] # "new" PROVE d < e
  OBVIOUS
<1>1. d \in Nat /\ e \in Nat /\ d # e /\ pub[e] = "new"
  BY EventsAreRanks DEF Publish
<1>2. ~(e < d)
  BY <1>1 DEF RequestsInOrder
<1> QED BY <1>1, <1>2

LEMMA RequestsPublish ==
  ASSUME Calm, TypeInv, HistoryOK, RequestsInOrder, NEW e \in Events, Publish(e)
  PROVE  RequestsInOrder'
<1>1. /\ pub \in [Events -> {"new", "try", "full", "retry", "done"}] /\ pub[e] = "new"
      /\ targets \in [Events -> SUBSET Connections] /\ recorded \in Seq(Events)
      /\ \A d \in Events : d < e => pub[d] = "done"
      /\ UNCHANGED <<queue, goal>>
  BY DEF Calm, TypeInv, TypeOK, Publish
<1>2. PICK reached : /\ targets' = [targets EXCEPT ![e] = reached]
                     /\ pub' = [pub EXCEPT ![e] = IF reached = {} THEN "done" ELSE "try"]
                     /\ recorded' = Append(recorded, e)
  BY DEF Publish
<1>3. \A d \in Events : d # e => pub'[d] = pub[d] /\ targets'[d] = targets[d]
  BY <1>1, <1>2
<1>4. pub'[e] \in {"done", "try"} /\ (pub'[e] = "done" => targets'[e] = {})
  BY <1>1, <1>2
<1>5. ASSUME NEW d \in Events, NEW x \in Events, pub'[x] # "new", d < x PROVE pub'[d] = "done"
  <2>1. d \in Nat /\ x \in Nat
    BY EventsAreRanks
  <2>2. CASE x = e
    BY <1>1, <1>3, <1>5, <2>1, <2>2
  <2>3. CASE x # e
    <3>1. pub[d] = "done"
      BY <1>3, <1>5, <2>3 DEF RequestsInOrder
    <3> QED BY <1>1, <1>3, <3>1
  <2> QED BY <2>2, <2>3
<1>6. \A d \in Events : pub'[d] \in {"new", "done"} => targets'[d] = {}
  BY <1>3, <1>4 DEF RequestsInOrder
<1>7. ASSUME NEW d \in Events, pub'[d] = "retry" PROVE HasRoom(goal[d])'
  BY <1>1, <1>3, <1>4, <1>7 DEF RequestsInOrder, HasRoom
<1>8. Increasing(recorded')
  <2>1. ASSUME NEW x \in ToSet(recorded) PROVE x < e
    <3>1. x \in Events /\ Has(recorded, x)
      BY <1>1, InSet
    <3>2. pub[x] # "new"
      BY <3>1 DEF HistoryOK, Has
    <3> QED BY <3>1, <3>2, PublishedLater
  <2>2. Before(ToSet(recorded), {e})
    BY <2>1 DEF Before
  <2>3. Increasing(recorded)
    BY DEF RequestsInOrder
  <2> HIDE DEF Before
  <2> QED BY <1>1, <1>2, <2>2, <2>3, AppendSet
<1> QED BY <1>5, <1>6, <1>7, <1>8 DEF RequestsInOrder

LEMMA RequestsFanOut ==
  ASSUME TypeInv, RequestsInOrder, NEW e \in Events, FanOut(e)
  PROVE  RequestsInOrder'
<1>1. /\ pub \in [Events -> {"new", "try", "full", "retry", "done"}]
      /\ targets \in [Events -> SUBSET Connections] /\ queue \in [Connections -> Seq(Events)]
      /\ goal \in [Events -> Connections \cup {Nobody}]
      /\ UNCHANGED recorded /\ pub[e] \notin {"new", "done"}
  BY DEF TypeInv, TypeOK, FanOut, TrySend, DiscardOldest, Resend
<1>2. \A d \in Events : d # e => pub[d] \in {"new", "done"} /\ targets[d] = {}
  BY <1>1, OneAtWork
<1>3. ASSUME NEW s \in {"try", "full", "retry", "done"}, pub' = [pub EXCEPT ![e] = s],
             \A d \in Events : d # e => targets'[d] = targets[d],
             s = "done" => targets'[e] = {}, s = "retry" => HasRoom(goal[e])'
      PROVE  RequestsInOrder'
  <2>1. pub'[e] = s /\ \A d \in Events : d # e => pub'[d] = pub[d]
    BY <1>1, <1>3
  <2>2. ASSUME NEW d \in Events, NEW x \in Events, pub'[x] # "new", d < x PROVE pub'[d] = "done"
    <3>1. pub[x] # "new"
      BY <1>1, <2>1, <2>2
    <3>2. pub[d] = "done"
      BY <2>2, <3>1 DEF RequestsInOrder
    <3> QED BY <1>1, <2>1, <3>2
  <2>3. \A d \in Events : pub'[d] \in {"new", "done"} => targets'[d] = {}
    BY <1>2, <1>3, <2>1
  <2>4. \A d \in Events : pub'[d] = "retry" => HasRoom(goal[d])'
    BY <1>2, <1>3, <2>1
  <2>5. Increasing(recorded')
    BY <1>1 DEF RequestsInOrder
  <2> QED BY <2>2, <2>3, <2>4, <2>5 DEF RequestsInOrder
<1>4. ASSUME NEW d \in Connections, Advance(e, d) PROVE RequestsInOrder'
  <2>1. /\ targets' = [targets EXCEPT ![e] = targets[e] \ {d}]
        /\ pub' = [pub EXCEPT ![e] = IF targets[e] = {d} THEN "done" ELSE "try"]
    BY <1>4 DEF Advance
  <2>2. targets'[e] = targets[e] \ {d} /\ \A x \in Events : x # e => targets'[x] = targets[x]
    BY <1>1, <2>1
  <2>3. CASE targets[e] = {d}
    BY <1>3, <2>1, <2>2, <2>3
  <2>4. CASE targets[e] # {d}
    BY <1>3, <2>1, <2>2, <2>4
  <2> QED BY <2>3, <2>4
<1>5. CASE \E c \in Connections : TrySend(e, c)
  <2>1. PICK c \in Connections : TrySend(e, c)
    BY <1>5
  <2>2. CASE pub' = [pub EXCEPT ![e] = "full"] /\ targets' = targets
    BY <1>3, <2>2
  <2> QED BY <1>4, <2>1, <2>2 DEF TrySend
<1>6. CASE DiscardOldest(e)
  <2> DEFINE c == goal[e]
  <2>1. c \in Connections /\ pub' = [pub EXCEPT ![e] = "retry"] /\ UNCHANGED <<targets, goal>>
    BY <1>6 DEF DiscardOldest, TypeInv, TypeOK, GoalsOK
  <2>2. Len(queue[c]) \in Nat /\ Len(queue[c]) <= Buffer /\ Buffer \in Nat /\ Buffer > 0
    BY <2>1, BufferIsPositive DEF TypeInv, TypeOK
  <2>3. HasRoom(goal[e])'
    <3>1. CASE queue[c] # <<>> /\ queue' = [queue EXCEPT ![c] = Tail(queue[c])]
      <4>1. Len(queue'[c]) = Len(queue[c]) - 1
        BY <1>1, <2>1, <3>1, TailOf
      <4> QED BY <2>1, <2>2, <4>1 DEF HasRoom
    <3>2. CASE queue[c] = <<>> /\ queue' = queue
      BY <2>1, <2>2, <3>2 DEF HasRoom
    <3> QED BY <1>6, <3>1, <3>2 DEF DiscardOldest
  <2> QED BY <1>3, <2>1, <2>3
<1>7. CASE Resend(e)
  <2>1. goal[e] \in Connections
    BY <1>7 DEF Resend, TypeInv, TypeOK, GoalsOK
  <2>2. Advance(e, goal[e])
    BY <1>7 DEF Resend, GiveUpOn
  <2> QED BY <1>4, <2>1, <2>2
<1> QED BY <1>5, <1>6, <1>7 DEF FanOut

LEMMA RequestsStep ==
  ASSUME Calm, TypeInv, HistoryOK, RequestsInOrder, AllInOrder, [Next]_brokerVars
  PROVE  RequestsInOrder'
<1>1. ASSUME UNCHANGED <<pub, targets, goal, recorded>>,
             \A c \in Connections : Len(queue'[c]) <= Len(queue[c])
      PROVE  RequestsInOrder'
  <2>1. ASSUME NEW e \in Events, pub[e] = "retry" PROVE HasRoom(goal[e])'
    <3>1. goal[e] \in Connections /\ HasRoom(goal[e])
      BY <2>1 DEF RequestsInOrder, TypeInv, TypeOK, GoalsOK
    <3>2. goal'[e] = goal[e] /\ Len(queue[goal[e]]) \in Nat /\ Buffer \in Nat
      BY <1>1, <3>1, BufferIsPositive DEF TypeInv, TypeOK
    <3> QED BY <1>1, <3>1, <3>2 DEF HasRoom
  <2> QED BY <1>1, <2>1 DEF RequestsInOrder
<1>2. \A c \in Connections : Len(queue[c]) \in Nat /\ queue[c] \in Seq(Events)
  BY DEF TypeInv, TypeOK
<1>3. CASE \E d \in Connections : Disconnect(d) \/ Serve(d)
  <2>1. PICK d \in Connections : Disconnect(d) \/ Serve(d)
    BY <1>3
  <2>2. UNCHANGED <<pub, targets, goal, recorded>> /\ \A c \in Connections : ServedEffect(c)
    BY <2>1, ServeEffect
  <2>3. ASSUME NEW c \in Connections PROVE Len(queue'[c]) <= Len(queue[c])
    <3>1. queue'[c] = queue[c] \/ (queue[c] # <<>> /\ queue'[c] = Tail(queue[c]))
      BY <2>2 DEF ServedEffect, Rests, Ends, Replays, ReplayEnds, Takes, Flushes, NoQueueing
    <3>2. CASE queue'[c] = queue[c]
      BY <1>2, <3>2
    <3>3. CASE queue[c] # <<>> /\ queue'[c] = Tail(queue[c])
      <4>1. Len(Tail(queue[c])) = Len(queue[c]) - 1
        BY <1>2, <3>3
      <4> QED BY <1>2, <3>3, <4>1
    <3> QED BY <3>1, <3>2, <3>3
  <2> QED BY <1>1, <2>2, <2>3
<1>4. CASE \E c \in Connections, id \in Events \cup {0} : Register(c, id)
  <2>1. UNCHANGED <<pub, targets, goal, recorded, queue>>
    BY <1>4 DEF Register, pubVars
  <2> QED BY <1>1, <1>2, <2>1
<1>5. CASE UNCHANGED brokerVars
  BY <1>1, <1>2, <1>5 DEF brokerVars, pubVars
<1> QED BY <1>3, <1>4, <1>5, RequestsPublish, RequestsFanOut DEF Next, BrokerStep, Finished

-----------------------------------------------------------------------------
(* What is on its way has been published. *)
LEMMA KnownPublished ==
  ASSUME BrokerOK, NEW c \in Connections,
         NEW e \in Sent(c) \cup Writing(c) \cup Queued(c) \cup Targeting(c)
  PROVE  e \in Events /\ pub[e] # "new"
<1>1. /\ wire[c] \in Seq(Events) /\ replay[c] \in Seq(Events) /\ queue[c] \in Seq(Events)
      /\ taken[c] \in Seq(Events) /\ since[c] \in Nat /\ since[c] <= Len(recorded)
      /\ Len(recorded) \in Nat /\ live[c] \subseteq Events /\ snapshot[c] \subseteq Events
  BY DEF BrokerOK, TypeInv, TypeOK, OffersOK, OfferOK
<1>2. ASSUME NEW x \in live[c] \cup snapshot[c] PROVE x \in Events /\ pub[x] # "new"
  <2>1. \E i \in 1..Len(recorded) : recorded[i] = x
    <3>1. CASE x \in live[c]
      <4>1. PICK i \in (since[c] + 1)..Len(recorded) : recorded[i] = x
        BY <3>1 DEF BrokerOK, OffersOK, OfferOK
      <4> QED BY <1>1, <4>1
    <3>2. CASE x \in snapshot[c]
      <4>1. PICK i \in 1..since[c] : recorded[i] = x
        BY <3>2 DEF BrokerOK, OffersOK, OfferOK
      <4> QED BY <1>1, <4>1
    <3> QED BY <3>1, <3>2
  <2>2. x \in Events
    BY <1>1
  <2> QED BY <2>1, <2>2 DEF BrokerOK, HistoryOK
<1>3. ASSUME NEW x, Has(taken[c], x) PROVE x \in live[c]
  <2>1. x \in Events
    BY <1>1, <1>3 DEF Has
  <2> QED BY <1>3, <2>1 DEF BrokerOK, WayOK, OnItsWay
<1>4. CASE e \in Sent(c)
  <2>1. PICK k \in 1..Len(wire[c]) : wire[c][k] = e
    BY <1>1, <1>4, InSet DEF Sent, Has
  <2>2. wire[c][k] \in snapshot[c] \/ Has(taken[c], wire[c][k])
    BY DEF BrokerOK, StreamOK, Streamed
  <2> QED BY <1>2, <1>3, <2>1, <2>2
<1>5. CASE e \in ToSet(replay[c])
  <2>1. PICK k \in 1..Len(replay[c]) : replay[c][k] = e
    BY <1>1, <1>5, InSet DEF Has
  <2>2. replay[c][k] \in snapshot[c]
    BY DEF BrokerOK, StreamOK, Streamed
  <2> QED BY <1>2, <2>1, <2>2
<1>6. CASE e \in InHand(c)
  <2>1. serve[c] = "flush" /\ e = cur[c]
    BY <1>6 DEF InHand
  <2>2. Len(taken[c]) >= 1 /\ cur[c] = taken[c][Len(taken[c])]
    BY <2>1 DEF BrokerOK, StreamOK, Streamed
  <2>3. Has(taken[c], e)
    BY <1>1, <2>1, <2>2 DEF Has
  <2> QED BY <1>2, <1>3, <2>3
<1>7. CASE e \in Queued(c)
  <2>1. e \in Events /\ Has(queue[c], e)
    BY <1>1, <1>7, InSet DEF Queued
  <2> QED BY <1>2, <2>1 DEF BrokerOK, WayOK, OnItsWay
<1>8. CASE e \in Targeting(c)
  BY <1>2, <1>8 DEF Targeting, BrokerOK, WayOK, OnItsWay
<1> QED BY <1>4, <1>5, <1>6, <1>7, <1>8 DEF Writing

(* The sequences of a connection and what its goroutine has in hand. *)
LEMMA LineTypes ==
  ASSUME TypeInv, NEW c \in Connections
  PROVE  /\ wire[c] \in Seq(Events) /\ replay[c] \in Seq(Events) /\ queue[c] \in Seq(Events)
         /\ serve[c] = "flush" => cur[c] \in Events
         /\ Targeting(c) \subseteq Events
BY DEF TypeInv, TypeOK, HandsOK, Targeting

(* A request offers its event last of all. *)
LEMMA OfferInOrder ==
  ASSUME BrokerOK, NEW c \in Connections, InOrder(c), NEW e \in Events,
         \A d \in Events : pub[d] # "new" => d < e,
         Offers(c, e), held'[c] = 0
  PROVE  InOrder(c)'
<1>1. /\ Sent(c)' = Sent(c) /\ Writing(c)' = Writing(c) /\ Queued(c)' = Queued(c)
      /\ Targeting(c)' = Targeting(c) \cup {e}
  BY DEF Offers, Rest, NoWrite, NoQueueing, Sent, Writing, InHand, Queued
<1>2. \A x \in Sent(c) \cup Writing(c) \cup Queued(c) : x < e
  BY KnownPublished
<1>3. Lined(Sent(c), Writing(c), Queued(c), Targeting(c) \cup {e})
  BY <1>2 DEF InOrder, Lined, Before
<1> QED BY <1>1, <1>3 DEF InOrder, Offers, Rest, NoWrite, NoQueueing

LEMMA QueueInOrder ==
  ASSUME TypeInv, NEW c \in Connections, InOrder(c), NEW e \in Events,
         Queues(c, e), held'[c] = 0
  PROVE  InOrder(c)'
<1>1. /\ Sent(c)' = Sent(c) /\ Writing(c)' = Writing(c)
      /\ Targeting(c) = {e} /\ Targeting(c)' = {}
  BY DEF Queues, Rest, NoWrite, Sent, Writing, InHand
<1>2. Before(Queued(c), {e})
  BY <1>1 DEF InOrder, Lined
<1>3. Queued(c)' = Queued(c) \cup {e} /\ Increasing(queue'[c])
  BY <1>2, LineTypes, AppendSet DEF Queues, Queued, InOrder
<1>4. Lined(Sent(c), Writing(c), Queued(c) \cup {e}, {})
  BY <1>1 DEF InOrder, Lined, Before
<1> QED BY <1>1, <1>3, <1>4 DEF InOrder, Queues, Rest, NoWrite

LEMMA OverflowInOrder ==
  ASSUME TypeInv, NEW c \in Connections, InOrder(c), NEW e \in Events,
         Overflows(c, e), held'[c] = 0
  PROVE  InOrder(c)'
<1>1. /\ Sent(c)' = Sent(c) /\ Writing(c)' = Writing(c) /\ Targeting(c)' = Targeting(c)
  BY DEF Overflows, Rest, NoWrite, NoRequest, Sent, Writing, InHand
<1>2. Queued(c) = Queued(c)' \cup {Head(queue[c])} /\ Increasing(queue'[c])
  BY LineTypes, TailSet DEF Overflows, Queued, InOrder
<1>3. Lined(Sent(c), Writing(c), Queued(c)', Targeting(c))
  BY <1>2 DEF InOrder, Lined, Before
<1> QED BY <1>1, <1>2, <1>3 DEF InOrder, Overflows, Rest, NoWrite

LEMMA ServeInOrder ==
  ASSUME TypeInv, NEW c \in Connections, InOrder(c), ServedEffect(c), held'[c] = 0
  PROVE  InOrder(c)'
<1>1. CASE Rests(c)
  <2>1. /\ Sent(c)' = Sent(c) /\ Writing(c)' = Writing(c) /\ Queued(c)' = Queued(c)
        /\ Targeting(c)' = Targeting(c)
    BY <1>1 DEF Rests, Rest, NoWrite, NoQueueing, NoRequest, Sent, Writing, InHand, Queued
  <2> QED BY <1>1, <2>1 DEF InOrder, Rests, Rest, NoWrite, NoQueueing
<1>2. CASE Ends(c)
  <2>1. /\ Sent(c)' = Sent(c) /\ Queued(c)' = Queued(c) /\ Targeting(c)' = Targeting(c)
        /\ Writing(c)' \subseteq Writing(c)
    BY <1>2 DEF Ends, NoWrite, NoQueueing, NoRequest, Sent, Writing, InHand, Queued
  <2>2. Lined(Sent(c), Writing(c)', Queued(c), Targeting(c))
    BY <2>1 DEF InOrder, Lined, Before
  <2> QED BY <1>2, <2>1, <2>2 DEF InOrder, Ends, NoWrite, NoQueueing
<1>3. CASE Replays(c)
  <2> DEFINE h == Head(replay[c])
  <2>1. /\ replay'[c] \in Seq(Events) /\ h \in Events
        /\ ToSet(replay[c]) = ToSet(replay'[c]) \cup {h}
        /\ Increasing(replay'[c]) /\ Before({h}, ToSet(replay'[c]))
    BY <1>3, LineTypes, TailSet DEF Replays, InOrder
  <2>2. /\ Writing(c) = ToSet(replay[c]) /\ Writing(c)' = ToSet(replay'[c])
        /\ Queued(c)' = Queued(c) /\ Targeting(c)' = Targeting(c)
    BY <1>3 DEF Replays, Rest, NoQueueing, NoRequest, Writing, InHand, Queued
  <2>3. Before(Sent(c), {h})
    BY <2>1, <2>2 DEF InOrder, Lined, Before
  <2>4. Sent(c)' = Sent(c) \cup {h} /\ Increasing(wire'[c])
    BY <1>3, <2>1, <2>3, LineTypes, AppendSet DEF Replays, Sent, InOrder
  <2>5. Lined(Sent(c) \cup {h}, ToSet(replay'[c]), Queued(c), Targeting(c))
    <3>1. Lined(Sent(c), Writing(c), Queued(c), Targeting(c))
      BY DEF InOrder
    <3>2. Writing(c) = ToSet(replay'[c]) \cup {h}
      BY <2>1, <2>2
    <3>3. Before({h}, ToSet(replay'[c]))
      BY <2>1
    <3> HIDE DEF h
    <3> QED BY <3>1, <3>2, <3>3 DEF Lined, Before
  <2> QED BY <1>3, <2>1, <2>2, <2>4, <2>5 DEF InOrder, Replays, Rest, NoQueueing
<1>4. CASE ReplayEnds(c)
  <2>1. /\ Sent(c)' = Sent(c) /\ Queued(c)' = Queued(c) /\ Targeting(c)' = Targeting(c)
        /\ Writing(c)' = Writing(c)
    BY <1>4 DEF ReplayEnds, NoWrite, NoQueueing, NoRequest, Sent, Writing, InHand, Queued
  <2> QED BY <1>4, <2>1 DEF InOrder, ReplayEnds, NoWrite, NoQueueing
<1>5. CASE Takes(c)
  <2> DEFINE h == Head(queue[c])
  <2>1. /\ Queued(c) = Queued(c)' \cup {h} /\ Increasing(queue'[c]) /\ Before({h}, Queued(c)')
    BY <1>5, LineTypes, TailSet DEF Takes, Queued, InOrder
  <2>2. /\ Sent(c)' = Sent(c) /\ Targeting(c)' = Targeting(c) /\ replay'[c] = <<>>
        /\ Writing(c)' = {h}
    BY <1>5, EmptySet DEF Takes, NoWrite, NoRequest, Sent, Writing, InHand, InOrder
  <2>3. Lined(Sent(c), {h}, Queued(c)', Targeting(c))
    BY <2>1 DEF InOrder, Lined, Before
  <2> QED BY <1>5, <2>1, <2>2, <2>3 DEF InOrder, Takes, NoWrite
<1>6. CASE Flushes(c)
  <2>1. /\ Queued(c)' = Queued(c) /\ Targeting(c)' = Targeting(c)
        /\ Writing(c) = {cur[c]} /\ Writing(c)' = {}
    BY <1>6, EmptySet DEF Flushes, NoQueueing, NoRequest, Writing, InHand, Queued, InOrder
  <2>2. cur[c] \in Events /\ Before(Sent(c), {cur[c]})
    BY <1>6, <2>1, LineTypes DEF Flushes, InOrder, Lined, Before
  <2>3. CASE wire'[c] = Append(wire[c], cur[c])
    <3>1. Sent(c)' = Sent(c) \cup {cur[c]} /\ Increasing(wire'[c])
      BY <2>2, <2>3, LineTypes, AppendSet DEF Sent, InOrder
    <3>2. Lined(Sent(c) \cup {cur[c]}, {}, Queued(c), Targeting(c))
      BY <2>1 DEF InOrder, Lined, Before
    <3> QED BY <1>6, <2>1, <3>1, <3>2 DEF InOrder, Flushes, NoQueueing
  <2>4. CASE wire'[c] = wire[c]
    <3>1. Sent(c)' = Sent(c)
      BY <2>4 DEF Sent
    <3>2. Lined(Sent(c), {}, Queued(c), Targeting(c))
      BY <2>1 DEF InOrder, Lined, Before
    <3> QED BY <1>6, <2>1, <2>4, <3>1, <3>2 DEF InOrder, Flushes, NoQueueing
  <2> QED BY <1>6, <2>3, <2>4 DEF Flushes
<1> QED BY <1>1, <1>2, <1>3, <1>4, <1>5, <1>6 DEF ServedEffect

(* A connection starts empty, with the replay of what is retained, wanted  *)
(* and later than the resume point.                                        *)
Registers(c, id) ==
  /\ serve[c] = "new" /\ serve'[c] = "replay"
  /\ wire[c] = <<>> /\ wire'[c] = <<>> /\ queue'[c] = <<>>
  /\ Targeting(c)' = {}
  /\ replay'[c] \in Seq(Events) /\ Increasing(replay'[c])
  /\ ToSet(replay'[c]) = {e \in ToSet(hist) : e \in Wants[c] /\ e > id /\ id # 0}

LEMMA HistoryIncreases ==
  ASSUME TypeInv, HistoryOK, Increasing(recorded)
  PROVE  Increasing(hist)
<1>1. /\ Len(recorded) \in Nat /\ Len(hist) \in Nat /\ Len(hist) <= Len(recorded)
      /\ \A i \in 1..Len(hist) : hist[i] = recorded[Len(recorded) - Len(hist) + i]
  <2>1. Len(recorded) \in Nat /\ Len(hist) \in Nat /\ History \in Nat
    BY HistoryIsPositive DEF TypeInv, TypeOK
  <2>2. Len(hist) <= Len(recorded)
    BY <2>1 DEF HistoryOK
  <2> QED BY <2>1, <2>2 DEF HistoryOK
<1> SUFFICES ASSUME NEW i \in 1..Len(hist), NEW j \in 1..Len(hist), i < j PROVE hist[i] < hist[j]
  BY DEF Increasing
<1> DEFINE m == Len(recorded) - Len(hist)
<1>2. m + i \in 1..Len(recorded) /\ m + j \in 1..Len(recorded) /\ m + i < m + j
  BY <1>1
<1>3. recorded[m + i] < recorded[m + j]
  BY <1>2 DEF Increasing
<1> QED BY <1>1, <1>3

LEMMA RegisterEffect ==
  ASSUME BrokerOK, RequestsInOrder, AllInOrder, NEW d \in Connections, NEW id \in Events \cup {0},
         Register(d, id), NEW c \in Connections
  PROVE  /\ IF c = d THEN Registers(c, id) ELSE Rests(c)
         /\ held'[c] = 0
<1>1. /\ UNCHANGED <<pub, targets, goal, queue, cur, held, wire>> /\ serve[d] = "new"
      /\ serve' = [serve EXCEPT ![d] = "replay"]
      /\ replay' = [replay EXCEPT ![d] = Filter(after(hist, id), Wants[d])]
      /\ serve \in [Connections -> {"new", "replay", "select", "flush", "flushHeld", "gone"}]
      /\ replay \in [Connections -> Seq(Events)] /\ hist \in Seq(Events)
  BY DEF Register, pubVars, BrokerOK, TypeInv, TypeOK
<1>2. held'[c] = 0
  BY <1>1 DEF AllInOrder, InOrder
<1>3. Targeting(c)' = Targeting(c)
  BY <1>1 DEF Targeting
<1>4. CASE c # d
  BY <1>1, <1>2, <1>3, <1>4 DEF Rests, Rest, NoWrite, NoQueueing, NoRequest
<1>5. CASE c = d
  <2> DEFINE missed == Filter(after(hist, id), Wants[c])
  <2>1. /\ serve[c] = "new" /\ serve'[c] = "replay" /\ replay'[c] = missed
        /\ wire'[c] = wire[c] /\ queue'[c] = queue[c]
        /\ wire[c] \in Seq(Events) /\ queue[c] \in Seq(Events) /\ taken[c] \in Seq(Events)
    BY <1>1, <1>5 DEF BrokerOK, TypeInv, TypeOK
  <2>2. live[c] = {} /\ snapshot[c] = {}
    BY <2>1 DEF BrokerOK, OffersOK, OfferOK
  <2>3. \A e \in Events : ~Has(queue[c], e) /\ ~Has(taken[c], e) /\ c \notin targets[e]
    BY <2>2 DEF BrokerOK, WayOK, OnItsWay
  <2>4. queue[c] = <<>>
    BY <2>1, <2>3 DEF Has
  <2>5. wire[c] = <<>>
    <3>1. ASSUME NEW k \in 1..Len(wire[c]) PROVE FALSE
      <4>1. wire[c][k] \in Events /\ (wire[c][k] \in snapshot[c] \/ Has(taken[c], wire[c][k]))
        BY <2>1 DEF BrokerOK, StreamOK, Streamed
      <4> QED BY <2>2, <2>3, <4>1
    <3> QED BY <2>1, <3>1
  <2>6. Targeting(c) = {}
    BY <2>3 DEF Targeting
  <2>7. /\ missed \in Seq(Events)
        /\ \A k \in 1..Len(missed) :
             /\ missed[k] \in Wants[c] /\ missed[k] > id /\ id # 0
             /\ \E i \in 1..Len(hist) : hist[i] = missed[k]
        /\ \A i \in 1..Len(hist) : hist[i] \in Wants[c] /\ hist[i] > id /\ id # 0
             => \E k \in 1..Len(missed) : missed[k] = hist[i]
        /\ Increasing(hist) => Increasing(missed)
    <3>1. hist \in Seq(Events)
      BY <1>1
    <3>2. \E m : m = missed
      OBVIOUS
    <3> HIDE DEF missed
    <3> QED BY <3>1, <3>2, MissedProps DEF missed
  <2>8. Increasing(missed)
    BY <2>7, HistoryIncreases DEF BrokerOK, RequestsInOrder
  <2> HIDE DEF missed
  <2>9. ToSet(missed) = {e \in ToSet(hist) : e \in Wants[c] /\ e > id /\ id # 0}
    <3>1. /\ \A e : e \in ToSet(missed) <=> Has(missed, e)
          /\ \A e : e \in ToSet(hist) <=> Has(hist, e)
      BY <1>1, <2>7, InSet
    <3>2. ASSUME NEW e, Has(missed, e)
          PROVE  Has(hist, e) /\ e \in Wants[c] /\ e > id /\ id # 0
      BY <2>7, <3>2 DEF Has
    <3>3. ASSUME NEW e, Has(hist, e), e \in Wants[c], e > id, id # 0
          PROVE  Has(missed, e)
      BY <2>7, <3>3 DEF Has
    <3> QED BY <3>1, <3>2, <3>3
  <2> QED BY <1>2, <1>3, <1>5, <2>1, <2>4, <2>5, <2>6, <2>7, <2>8, <2>9 DEF Registers
<1> QED BY <1>4, <1>5

LEMMA RegisterInOrder ==
  ASSUME NEW c \in Connections, NEW id, Registers(c, id), held'[c] = 0
  PROVE  InOrder(c)'
<1>1. Sent(c)' = {} /\ Queued(c)' = {} /\ Targeting(c)' = {}
  BY EmptySet DEF Registers, Sent, Queued
<1>2. Increasing(<<>>)
  BY DEF Increasing
<1> QED BY <1>1, <1>2 DEF Registers, InOrder, Lined, Before

(* The order of every connection. *)
LEMMA InOrderStep ==
  ASSUME Calm, BrokerOK, RequestsInOrder, AllInOrder, [Next]_brokerVars
  PROVE  AllInOrder'
<1> SUFFICES ASSUME NEW c \in Connections PROVE InOrder(c)'
  BY DEF AllInOrder
<1>1. TypeInv /\ HistoryOK /\ InOrder(c) /\ held[c] = 0
  BY DEF BrokerOK, AllInOrder, InOrder
<1>2. ASSUME NEW e \in Events, Publish(e) PROVE InOrder(c)'
  <2>1. /\ IF c \in subs /\ e \in Wants[c] THEN Offers(c, e) ELSE Rests(c)
        /\ held'[c] = 0
    BY <1>1, <1>2, PublishEffect
  <2>2. CASE Offers(c, e)
    <3>1. \A d \in Events : pub[d] # "new" => d < e
      BY <1>1, <1>2, PublishedLater
    <3> QED BY <1>1, <2>1, <2>2, <3>1, OfferInOrder
  <2>3. CASE Rests(c)
    BY <1>1, <2>1, <2>3, ServeInOrder DEF ServedEffect
  <2> QED BY <2>1, <2>2, <2>3
<1>3. ASSUME NEW e \in Events, FanOut(e) PROVE InOrder(c)'
  <2>1. (Rests(c) \/ Queues(c, e) \/ Overflows(c, e)) /\ held'[c] = 0
    BY <1>1, <1>3, FanOutEffect
  <2> QED BY <1>1, <2>1, ServeInOrder, QueueInOrder, OverflowInOrder DEF ServedEffect
<1>4. ASSUME NEW d \in Connections, Disconnect(d) \/ Serve(d) PROVE InOrder(c)'
  BY <1>1, <1>4, ServeEffect, ServeInOrder
<1>5. ASSUME NEW d \in Connections, NEW id \in Events \cup {0}, Register(d, id) PROVE InOrder(c)'
  BY <1>1, <1>5, RegisterEffect, RegisterInOrder, ServeInOrder DEF ServedEffect
<1>6. CASE UNCHANGED brokerVars
  <2>1. Rests(c) /\ held'[c] = 0
    BY <1>1, <1>6 DEF brokerVars, pubVars, Rests, Rest, NoWrite, NoQueueing, NoRequest, Targeting
  <2> QED BY <1>1, <2>1, ServeInOrder DEF ServedEffect
<1> QED BY <1>2, <1>3, <1>4, <1>5, <1>6 DEF Next, BrokerStep, Finished

-----------------------------------------------------------------------------
(* What is unread of a stream, when it grows and when one event is read. *)
LEMMA UnreadGrows ==
  ASSUME NEW c \in Connections, wire[c] \in Seq(Events), NEW n \in Nat, n <= Len(wire[c]),
         NEW e \in Events, wire'[c] = Append(wire[c], e)
  PROVE  Unread(c, n)' = Unread(c, n) \cup {e} /\ n <= Len(wire'[c])
<1>1. /\ Len(wire[c]) \in Nat /\ Len(wire'[c]) = Len(wire[c]) + 1
      /\ wire'[c][Len(wire[c]) + 1] = e /\ \A i \in 1..Len(wire[c]) : wire'[c][i] = wire[c][i]
  BY Longer
<1>2. ASSUME NEW x, x \in Unread(c, n)' PROVE x \in Unread(c, n) \cup {e}
  <2>1. PICK k \in (n + 1)..Len(wire'[c]) : wire'[c][k] = x
    BY <1>2 DEF Unread
  <2> QED BY <1>1, <2>1 DEF Unread
<1>3. ASSUME NEW x, x \in Unread(c, n) PROVE x \in Unread(c, n)'
  <2>1. PICK k \in (n + 1)..Len(wire[c]) : wire[c][k] = x
    BY <1>3 DEF Unread
  <2>2. k \in (n + 1)..Len(wire'[c]) /\ wire'[c][k] = x
    BY <1>1, <2>1
  <2> QED BY <2>2 DEF Unread
<1>4. e \in Unread(c, n)'
  <2>1. Len(wire[c]) + 1 \in (n + 1)..Len(wire'[c])
    BY <1>1
  <2> QED BY <1>1, <2>1 DEF Unread
<1> QED BY <1>1, <1>2, <1>3, <1>4

LEMMA UnreadShrinks ==
  ASSUME NEW c \in Connections, wire[c] \in Seq(Events), Increasing(wire[c]),
         NEW n \in Nat, n < Len(wire[c])
  PROVE  /\ wire[c][n + 1] \in Sent(c) /\ wire[c][n + 1] \in Events
         /\ Unread(c, n) = Unread(c, n + 1) \cup {wire[c][n + 1]}
         /\ Before({wire[c][n + 1]}, Unread(c, n + 1))
<1>1. Len(wire[c]) \in Nat /\ n + 1 \in 1..Len(wire[c]) /\ (n + 1) + 1 = n + 2
  OBVIOUS
<1>2. wire[c][n + 1] \in Sent(c) /\ wire[c][n + 1] \in Events
  BY <1>1, InSet DEF Sent, Has
<1>3. \A k \in (n + 1)..Len(wire[c]) : k = n + 1 \/ k \in (n + 2)..Len(wire[c])
  BY <1>1
<1>4. \A k \in (n + 2)..Len(wire[c]) : k \in (n + 1)..Len(wire[c])
  BY <1>1
<1>5. n + 1 \in (n + 1)..Len(wire[c])
  BY <1>1
<1>6. Unread(c, n) = Unread(c, n + 1) \cup {wire[c][n + 1]}
  BY <1>1, <1>3, <1>4, <1>5 DEF Unread
<1>7. ASSUME NEW k \in (n + 2)..Len(wire[c]) PROVE wire[c][n + 1] < wire[c][k]
  <2>1. k \in 1..Len(wire[c]) /\ n + 1 < k
    BY <1>1
  <2> QED BY <1>1, <2>1 DEF Increasing
<1> QED BY <1>1, <1>2, <1>6, <1>7 DEF Unread, Before

(* Most steps only move forward what is on its way. *)
Moves(c) ==
  \/ Rests(c) \/ Replays(c) \/ ReplayEnds(c) \/ Takes(c) \/ \E e \in Events : Queues(c, e)
  \/ Flushes(c) /\ wire'[c] = Append(wire[c], cur[c])

(* An overflow, the end of the connection and a drop take something away. *)
Loses(c) ==
  \/ Ends(c) \/ \E e \in Events : Overflows(c, e)
  \/ Flushes(c) /\ wire'[c] = wire[c]

LEMMA StreamStays ==
  ASSUME NEW c \in Connections, NEW n, wire'[c] = wire[c]
  PROVE  Unread(c, n)' = Unread(c, n) /\ Len(wire'[c]) = Len(wire[c])
BY DEF Unread

LEMMA AheadMoves ==
  ASSUME TypeInv, NEW c \in Connections, InOrder(c), Moves(c), NEW n \in Nat, n <= Len(wire[c])
  PROVE  Ahead(c, n)' = Ahead(c, n) /\ n <= Len(wire'[c])
<1>1. CASE Rests(c)
  <2>1. /\ Writing(c)' = Writing(c) /\ Queued(c)' = Queued(c) /\ Targeting(c)' = Targeting(c)
        /\ wire'[c] = wire[c]
    BY <1>1 DEF Rests, Rest, NoWrite, NoQueueing, NoRequest, Writing, InHand, Queued
  <2> QED BY <2>1, StreamStays DEF Ahead
<1>2. CASE Replays(c)
  <2> DEFINE h == Head(replay[c])
  <2>1. h \in Events /\ ToSet(replay[c]) = ToSet(replay'[c]) \cup {h}
    BY <1>2, LineTypes, TailSet DEF Replays
  <2>2. /\ Writing(c) = ToSet(replay[c]) /\ Writing(c)' = ToSet(replay'[c])
        /\ Queued(c)' = Queued(c) /\ Targeting(c)' = Targeting(c)
    BY <1>2 DEF Replays, Rest, NoQueueing, NoRequest, Writing, InHand, Queued
  <2>3. Unread(c, n)' = Unread(c, n) \cup {h} /\ n <= Len(wire'[c])
    BY <1>2, <2>1, LineTypes, UnreadGrows DEF Replays
  <2> QED BY <2>1, <2>2, <2>3 DEF Ahead
<1>3. CASE ReplayEnds(c)
  <2>1. /\ Writing(c)' = Writing(c) /\ Queued(c)' = Queued(c) /\ Targeting(c)' = Targeting(c)
        /\ wire'[c] = wire[c]
    BY <1>3 DEF ReplayEnds, NoWrite, NoQueueing, NoRequest, Writing, InHand, Queued
  <2> QED BY <2>1, StreamStays DEF Ahead
<1>4. CASE Takes(c)
  <2>1. Queued(c) = Queued(c)' \cup {Head(queue[c])}
    BY <1>4, LineTypes, TailSet DEF Takes, Queued
  <2>2. /\ Targeting(c)' = Targeting(c) /\ Writing(c) = {} /\ Writing(c)' = {Head(queue[c])}
        /\ wire'[c] = wire[c]
    BY <1>4, EmptySet DEF Takes, NoWrite, NoRequest, Writing, InHand, InOrder
  <2> QED BY <2>1, <2>2, StreamStays DEF Ahead
<1>5. ASSUME NEW e \in Events, Queues(c, e)
      PROVE  Ahead(c, n)' = Ahead(c, n) /\ n <= Len(wire'[c])
  <2>1. /\ Writing(c)' = Writing(c) /\ Targeting(c) = {e} /\ Targeting(c)' = {}
        /\ wire'[c] = wire[c]
    BY <1>5 DEF Queues, Rest, NoWrite, Writing, InHand
  <2>2. Queued(c)' = Queued(c) \cup {e}
    BY <1>5, LineTypes, AppendSet DEF Queues, Queued
  <2> QED BY <2>1, <2>2, StreamStays DEF Ahead
<1>6. CASE Flushes(c) /\ wire'[c] = Append(wire[c], cur[c])
  <2>1. /\ Queued(c)' = Queued(c) /\ Targeting(c)' = Targeting(c)
        /\ Writing(c) = {cur[c]} /\ Writing(c)' = {}
    BY <1>6, EmptySet DEF Flushes, NoQueueing, NoRequest, Writing, InHand, Queued, InOrder
  <2>2. cur[c] \in Events
    BY <1>6, LineTypes DEF Flushes
  <2>3. Unread(c, n)' = Unread(c, n) \cup {cur[c]} /\ n <= Len(wire'[c])
    BY <1>6, <2>2, LineTypes, UnreadGrows
  <2> QED BY <2>1, <2>3 DEF Ahead
<1> QED BY <1>1, <1>2, <1>3, <1>4, <1>5, <1>6 DEF Moves

LEMMA AheadLoses ==
  ASSUME TypeInv, NEW c \in Connections, InOrder(c), Loses(c), NEW n \in Nat, n <= Len(wire[c])
  PROVE  Ahead(c, n)' \subseteq Ahead(c, n) /\ n <= Len(wire'[c])
<1>1. CASE Ends(c)
  <2>1. /\ Writing(c)' \subseteq Writing(c) /\ Queued(c)' = Queued(c)
        /\ Targeting(c)' = Targeting(c) /\ wire'[c] = wire[c]
    BY <1>1 DEF Ends, NoWrite, NoQueueing, NoRequest, Writing, InHand, Queued
  <2> QED BY <2>1, StreamStays DEF Ahead
<1>2. ASSUME NEW e \in Events, Overflows(c, e)
      PROVE  Ahead(c, n)' \subseteq Ahead(c, n) /\ n <= Len(wire'[c])
  <2>1. /\ Writing(c)' = Writing(c) /\ Targeting(c)' = Targeting(c) /\ wire'[c] = wire[c]
    BY <1>2 DEF Overflows, Rest, NoWrite, NoRequest, Writing, InHand
  <2>2. Queued(c) = Queued(c)' \cup {Head(queue[c])}
    BY <1>2, LineTypes, TailSet DEF Overflows, Queued
  <2> QED BY <2>1, <2>2, StreamStays DEF Ahead
<1>3. CASE Flushes(c) /\ wire'[c] = wire[c]
  <2>1. /\ Queued(c)' = Queued(c) /\ Targeting(c)' = Targeting(c)
        /\ Writing(c)' = {} /\ wire'[c] = wire[c]
    BY <1>3, EmptySet DEF Flushes, NoQueueing, NoRequest, Writing, InHand, Queued, InOrder
  <2> QED BY <2>1, StreamStays DEF Ahead
<1> QED BY <1>1, <1>2, <1>3 DEF Loses

LEMMA AheadOffered ==
  ASSUME NEW c \in Connections, NEW e \in Events, Offers(c, e), NEW n
  PROVE  Ahead(c, n)' = Ahead(c, n) \cup {e} /\ Len(wire'[c]) = Len(wire[c])
<1>1. /\ Writing(c)' = Writing(c) /\ Queued(c)' = Queued(c)
      /\ Targeting(c)' = Targeting(c) \cup {e} /\ wire'[c] = wire[c]
  BY DEF Offers, Rest, NoWrite, NoQueueing, Writing, InHand, Queued
<1> QED BY <1>1, StreamStays DEF Ahead

(* What any step of the broker means for one connection. *)
LEMMA BrokerEffect ==
  ASSUME Calm, BrokerOK, RequestsInOrder, AllInOrder, BrokerStep, NEW c \in Connections
  PROVE  /\ \/ Moves(c) /\ \A e \in Events : Publish(e) => ~(c \in subs /\ e \in Wants[c])
            \/ Loses(c) /\ \A e \in Events : ~Publish(e)
            \/ \E e \in Events : Publish(e) /\ c \in subs /\ e \in Wants[c] /\ Offers(c, e)
         /\ serve[c] # "new" => serve'[c] # "new"
<1>1. TypeInv /\ HistoryOK
  BY DEF BrokerOK
<1>2. ASSUME NEW e \in Events, Publish(e)
      PROVE  /\ \/ Moves(c) /\ ~(c \in subs /\ e \in Wants[c])
                \/ c \in subs /\ e \in Wants[c] /\ Offers(c, e)
             /\ serve[c] # "new" => serve'[c] # "new"
             /\ \A d \in Events : Publish(d) => d = e
  <2>1. IF c \in subs /\ e \in Wants[c] THEN Offers(c, e) ELSE Rests(c)
    BY <1>1, <1>2, PublishEffect
  <2>2. serve[c] # "new" => serve'[c] # "new"
    BY <1>2 DEF Publish
  <2>3. ASSUME NEW d \in Events, Publish(d) PROVE d = e
    <3>1. recorded' = Append(recorded, e) /\ recorded' = Append(recorded, d) /\ recorded \in Seq(Events)
      BY <1>1, <1>2, <2>3 DEF Publish, TypeInv, TypeOK
    <3>2. recorded'[Len(recorded) + 1] = e /\ recorded'[Len(recorded) + 1] = d
      BY <3>1, Longer
    <3> QED BY <3>2
  <2>4. Rests(c) => Moves(c)
    BY DEF Moves
  <2> QED BY <2>1, <2>2, <2>3, <2>4
<1>3. ASSUME \A e \in Events : ~Publish(e),
             Rests(c) \/ (\E e \in Events : Queues(c, e) \/ Overflows(c, e)) \/ ServedEffect(c)
      PROVE  /\ Moves(c) \/ Loses(c)
             /\ serve[c] # "new" => serve'[c] # "new"
  <2>1. CASE Rests(c)
    BY <2>1 DEF Rests, Rest, Moves
  <2>2. ASSUME NEW e \in Events, Queues(c, e) PROVE Moves(c) /\ serve'[c] = serve[c]
    BY <2>2 DEF Queues, Rest, Moves
  <2>3. ASSUME NEW e \in Events, Overflows(c, e) PROVE Loses(c) /\ serve'[c] = serve[c]
    BY <2>3 DEF Overflows, Rest, Loses
  <2>4. CASE Ends(c)
    BY <2>4 DEF Ends, Loses
  <2>5. CASE Replays(c) \/ ReplayEnds(c) \/ Takes(c)
    BY <2>5 DEF Replays, ReplayEnds, Takes, Rest, Moves
  <2>6. CASE Flushes(c)
    BY <2>6 DEF Flushes, Moves, Loses
  <2> QED BY <1>3, <2>1, <2>2, <2>3, <2>4, <2>5, <2>6 DEF ServedEffect
<1>4. CASE \E e \in Events : Publish(e)
  BY <1>2, <1>4
<1>5. CASE \A e \in Events : ~Publish(e)
  <2>1. ASSUME NEW e \in Events, FanOut(e)
        PROVE  Rests(c) \/ Queues(c, e) \/ Overflows(c, e)
    BY <1>1, <2>1, FanOutEffect
  <2>2. ASSUME NEW d \in Connections, Disconnect(d) \/ Serve(d) PROVE ServedEffect(c)
    BY <1>1, <2>2, ServeEffect
  <2>3. Rests(c) \/ (\E e \in Events : Queues(c, e) \/ Overflows(c, e)) \/ ServedEffect(c)
    BY <1>5, <2>1, <2>2 DEF BrokerStep
  <2> QED BY <1>3, <1>5, <2>3
<1> QED BY <1>4, <1>5

LEMMA PublishedStays ==
  ASSUME TypeInv, [Next]_brokerVars, NEW e \in Events, pub[e] # "new"
  PROVE  pub'[e] # "new"
<1>1. ASSUME NEW d \in Events, Publish(d) PROVE pub'[e] # "new"
  <2>1. \E s \in {"done", "try"} : pub' = [pub EXCEPT ![d] = s]
    BY <1>1 DEF Publish
  <2> QED BY <2>1 DEF TypeInv, TypeOK
<1>2. CASE \A d \in Events : ~Publish(d)
  BY <1>2, HistoryUntouched
<1> QED BY <1>1, <1>2

-----------------------------------------------------------------------------
(* The client. *)
LEMMA OpenClient ==
  ASSUME BrokerOK, LastOK, RequestsInOrder, AllInOrder, ClientOK, NEW c \in Connections, Open(c),
         lastID # 0 => pub'[lastID] # "new"
  PROVE  ClientOK'
<1>1. /\ link' = c /\ read' = 0 /\ UNCHANGED <<lastID, received>>
      /\ Register(c, lastID) /\ lastID \in Events \cup {0}
  BY DEF Open, LastOK
<1>2. Registers(c, lastID)
  BY <1>1, RegisterEffect
<1>3. Unread(c, 0)' = {}
  BY <1>2 DEF Unread, Registers
<1>4. Writing(c)' = ToSet(replay'[c]) /\ Queued(c)' = {} /\ Targeting(c)' = {}
  BY <1>2, EmptySet DEF Registers, Writing, InHand, Queued
<1>5. \A e \in ToSet(replay'[c]) : lastID < e
  <2>1. ASSUME NEW e \in ToSet(replay'[c]) PROVE lastID < e
    <3>1. e \in ToSet(hist) /\ e > lastID
      BY <1>2 DEF Registers
    <3>2. hist \in Seq(Events)
      BY DEF BrokerOK, TypeInv, TypeOK
    <3>3. e \in Events
      BY <3>1, <3>2, InSet
    <3>4. e \in Nat /\ lastID \in Nat
      BY <1>1, <3>3, EventsAreRanks
    <3> QED BY <3>1, <3>4
  <2> QED BY <2>1
<1>6. Before({lastID}, Ahead(c, 0)')
  BY <1>3, <1>4, <1>5 DEF Before, Ahead
<1>7. serve'[c] # "new" /\ 0 <= Len(wire'[c])
  BY <1>2 DEF Registers
<1> QED BY <1>1, <1>6, <1>7 DEF ClientOK

LEMMA ForwardClient ==
  ASSUME BrokerOK, LastOK, AllInOrder, ClientOK, Forward
  PROVE  ClientOK'
<1>1. PICK c \in Connections, n \in Nat : c = link /\ n = read
  BY DEF Forward, LastOK
<1>2. PICK e \in Events : e = wire[c][n + 1]
  BY <1>1 DEF Forward, BrokerOK, TypeInv, TypeOK
<1>3. /\ n < Len(wire[c]) /\ wire[c] \in Seq(Events) /\ Increasing(wire[c])
      /\ link' = c /\ read' = n + 1 /\ received' = Append(received, e) /\ lastID' = e
      /\ UNCHANGED brokerVars /\ InOrder(c)
      /\ serve[c] # "new" /\ Before({lastID}, Ahead(c, n))
  BY <1>1, <1>2 DEF Forward, Cursor, LastOK, BrokerOK, TypeInv, TypeOK, AllInOrder, InOrder, ClientOK
<1>4. /\ e \in Sent(c)
      /\ Unread(c, n) = Unread(c, n + 1) \cup {e} /\ Before({e}, Unread(c, n + 1))
  BY <1>2, <1>3, UnreadShrinks
<1>5. /\ received \in Seq(Events) /\ Increasing(received)
      /\ lastID = IF received = <<>> THEN 0 ELSE received[Len(received)]
  BY DEF ClientOK
<1>6. lastID < e
  BY <1>3, <1>4 DEF Before, Ahead
<1>7. Before(ToSet(received), {e})
  <2>1. ASSUME NEW x \in ToSet(received) PROVE x < e
    <3>1. PICK i \in 1..Len(received) : received[i] = x
      BY <1>5, <2>1, InSet DEF Has
    <3>2. /\ Len(received) \in Nat /\ received # <<>> /\ x \in Events
          /\ received[Len(received)] \in Events
      BY <1>5, <3>1
    <3>3. x \in Nat /\ e \in Nat /\ lastID \in Nat /\ lastID = received[Len(received)]
      BY <1>5, <3>2, EventsAreRanks
    <3>4. x = lastID \/ x < lastID
      BY <1>5, <3>1, <3>2, <3>3 DEF Increasing
    <3> QED BY <1>6, <3>3, <3>4
  <2> QED BY <2>1 DEF Before
<1>8. received' \in Seq(Events) /\ Increasing(received')
  <2> HIDE DEF Before
  <2> QED BY <1>3, <1>5, <1>7, AppendSet
<1>9. received' # <<>> /\ received'[Len(received')] = e
  BY <1>3, <1>5, Longer
<1>10. pub'[e] # "new"
  <2>1. pub[e] # "new"
    BY <1>4, KnownPublished
  <2> QED BY <1>3, <2>1 DEF brokerVars, pubVars
<1>11. Before({e}, Ahead(c, n + 1))
  BY <1>3, <1>4 DEF InOrder, Lined, Before, Ahead
<1>12. Ahead(c, n + 1)' = Ahead(c, n + 1) /\ wire'[c] = wire[c] /\ serve'[c] = serve[c]
  BY <1>3 DEF brokerVars, pubVars, Ahead, Unread, Writing, InHand, Queued, Targeting
<1>13. n + 1 <= Len(wire[c])
  BY <1>3
<1> QED BY <1>3, <1>8, <1>9, <1>10, <1>11, <1>12, <1>13 DEF ClientOK

LEMMA BrokerClient ==
  ASSUME Calm, BrokerOK, LastOK, RequestsInOrder, AllInOrder, ClientOK,
         BrokerStep, UNCHANGED clientVars, lastID # 0 => pub'[lastID] # "new"
  PROVE  ClientOK'
<1>1. UNCHANGED <<link, read, lastID, received>> /\ TypeInv /\ HistoryOK /\ lastID \in Events \cup {0}
  BY DEF clientVars, BrokerOK, LastOK
<1>2. ASSUME link # Nobody
      PROVE  /\ serve'[link] # "new" /\ read <= Len(wire'[link])
             /\ Before({lastID}, Ahead(link, read)')
  <2>0. PICK c \in Connections, n \in Nat : c = link /\ n = read
    BY <1>2 DEF LastOK
  <2>1. /\ InOrder(c) /\ serve[c] # "new"
        /\ n <= Len(wire[c]) /\ Before({lastID}, Ahead(c, n))
    BY <1>2, <2>0 DEF AllInOrder, ClientOK
  <2>2. /\ Moves(c) \/ Loses(c) \/ \E e \in Events : Publish(e) /\ Offers(c, e)
        /\ serve'[c] # "new"
    BY <2>1, BrokerEffect
  <2>3. ASSUME Moves(c) PROVE n <= Len(wire'[c]) /\ Before({lastID}, Ahead(c, n)')
    BY <1>1, <2>1, <2>3, AheadMoves
  <2>4. ASSUME Loses(c) PROVE n <= Len(wire'[c]) /\ Before({lastID}, Ahead(c, n)')
    BY <1>1, <2>1, <2>4, AheadLoses DEF Before
  <2>5. ASSUME NEW e \in Events, Publish(e), Offers(c, e)
        PROVE  n <= Len(wire'[c]) /\ Before({lastID}, Ahead(c, n)')
    <3>1. Ahead(c, n)' = Ahead(c, n) \cup {e} /\ Len(wire'[c]) = Len(wire[c])
      BY <2>1, <2>5, AheadOffered
    <3>2. lastID # 0 => lastID < e
      BY <1>1, <2>5, PublishedLater DEF ClientOK
    <3>3. lastID < e
      BY <3>2, EventsAreRanks
    <3> QED BY <2>1, <3>1, <3>3 DEF Before
  <2>6. n <= Len(wire'[c]) /\ Before({lastID}, Ahead(c, n)')
    BY <2>2, <2>3, <2>4, <2>5
  <2>7. link' = c /\ read' = n
    BY <1>1, <2>0
  <2> QED BY <2>0, <2>2, <2>6, <2>7
<1> QED BY <1>1, <1>2 DEF ClientOK

LEMMA ClientStep ==
  ASSUME Calm, BrokerOK, LastOK, RequestsInOrder, AllInOrder, ClientOK, [SubNext]_subVars
  PROVE  ClientOK'
<1>1. [Next]_brokerVars /\ TypeInv
  BY InsideStep DEF BrokerOK
<1>2. lastID # 0 => pub'[lastID] # "new"
  BY <1>1, PublishedStays DEF ClientOK, LastOK
<1>3. CASE Lose
  BY <1>2, <1>3 DEF Lose, ClientOK, brokerVars, pubVars
<1>4. CASE UNCHANGED subVars
  BY <1>4 DEF subVars, clientVars, brokerVars, pubVars, ClientOK, Ahead, Unread, Writing, InHand,
              Queued, Targeting
<1>5. CASE AllUsed
  BY <1>4, <1>5 DEF AllUsed
<1> QED BY <1>2, <1>3, <1>4, <1>5, OpenClient, ForwardClient, BrokerClient DEF SubNext

-----------------------------------------------------------------------------
LEMMA OrderInit ==
  ASSUME SubInit
  PROVE  RequestsInOrder /\ AllInOrder /\ ClientOK
<1>1. Increasing(<<>>)
  BY DEF Increasing
<1> QED BY <1>1, EmptySet DEF SubInit, BrokerInit, RequestsInOrder, AllInOrder, InOrder, Lined, Before,
            Sent, Writing, InHand, Queued, Targeting, ClientOK

OrderOK == BrokerOK /\ LastOK /\ RequestsInOrder /\ AllInOrder /\ ClientOK

LEMMA OrderHolds ==
  ASSUME Calm
  PROVE  SubSpec => []OrderOK
<1>1. SubInit => RequestsInOrder /\ AllInOrder /\ ClientOK
  BY OrderInit
<1>2. BrokerOK /\ LastOK /\ RequestsInOrder /\ AllInOrder /\ ClientOK /\ [SubNext]_subVars
        => RequestsInOrder' /\ AllInOrder' /\ ClientOK'
  <2> SUFFICES ASSUME BrokerOK, LastOK, RequestsInOrder, AllInOrder, ClientOK, [SubNext]_subVars
               PROVE  RequestsInOrder' /\ AllInOrder' /\ ClientOK'
    OBVIOUS
  <2>1. [Next]_brokerVars /\ TypeInv /\ HistoryOK
    BY InsideStep DEF BrokerOK
  <2> QED BY <2>1, RequestsStep, InOrderStep, ClientStep
<1> QED BY <1>1, <1>2, BrokerHolds, PTL DEF SubSpec, OrderOK

(* If publishers do not race and no fault repeats or reorders events, the  *)
(* client is never handed an event twice, however often it reconnects,     *)
(* whatever is dropped, discarded or evicted meanwhile.                    *)
THEOREM NothingTwiceHolds ==
  ASSUME Calm
  PROVE  SubSpec => []NothingTwice
<1>1. OrderOK => NothingTwice
  <2> SUFFICES ASSUME OrderOK, NEW i \in 1..Len(received), NEW j \in 1..Len(received), i # j
               PROVE  received[i] # received[j]
    BY DEF NothingTwice
  <2>1. received \in Seq(Events) /\ Increasing(received)
    BY DEF OrderOK, ClientOK
  <2>2. received[i] \in Events /\ received[j] \in Events /\ Len(received) \in Nat
    BY <2>1
  <2>3. received[i] < received[j] \/ received[j] < received[i]
    BY <2>1 DEF Increasing
  <2>4. received[i] \in Nat /\ received[j] \in Nat
    BY <2>2, EventsAreRanks
  <2> QED BY <2>3, <2>4
<1> QED BY <1>1, OrderHolds, PTL

-----------------------------------------------------------------------------
(* A sequence in the order of ids has as many events as places. *)
LEMMA CountsItsPlaces ==
  ASSUME NEW s \in Seq(Events), Increasing(s)
  PROVE  IsFiniteSet(ToSet(s)) /\ Cardinality(ToSet(s)) = Len(s)
<1> DEFINE f == [i \in 1..Len(s) |-> s[i]]
<1>1. Len(s) \in Nat /\ ToSet(s) \subseteq Events /\ \A x : x \in ToSet(s) <=> Has(s, x)
  BY InSet
<1>2. f \in [1..Len(s) -> ToSet(s)]
  BY <1>1 DEF Has
<1>3. ASSUME NEW i \in 1..Len(s), NEW j \in 1..Len(s), f[i] = f[j] PROVE i = j
  <2>1. s[i] \in Events /\ s[j] \in Events /\ s[i] = s[j]
    BY <1>3
  <2>2. s[i] \in Nat /\ s[j] \in Nat
    BY <2>1, EventsAreRanks
  <2> QED BY <1>1, <2>1, <2>2 DEF Increasing
<1>4. ASSUME NEW x \in ToSet(s) PROVE \E i \in 1..Len(s) : f[i] = x
  BY <1>1 DEF Has
<1> HIDE DEF f
<1>5. ExistsBijection(1..Len(s), ToSet(s))
  <2>1. f \in Injection(1..Len(s), ToSet(s))
    BY <1>2, <1>3, Fun_IsInj
  <2>2. f \in Surjection(1..Len(s), ToSet(s))
    BY <1>2, <1>4, Fun_IsSurj
  <2> QED BY <2>1, <2>2 DEF ExistsBijection, Bijection
<1>6. IsFiniteSet(1..Len(s)) /\ Cardinality(1..Len(s)) = Len(s)
  <2>1. Len(s) \in Nat /\ 1 \in Int /\ Len(s) \in Int
    BY <1>1
  <2>2. /\ IsFiniteSet(1..Len(s))
        /\ Cardinality(1..Len(s)) = IF 1 > Len(s) THEN 0 ELSE Len(s) - 1 + 1
    BY <2>1, FS_Interval
  <2> QED BY <2>1, <2>2
<1> QED BY <1>5, <1>6, FS_Bijection

(* Those of S that fewer than History of S come after. *)
Newest(S) == {d \in S : Cardinality({x \in S : x > d}) < History}

(* The ring keeps the newest. *)
LEMMA NewestKept ==
  ASSUME NEW s \in Seq(Events), Increasing(s), Len(s) <= History, NEW e \in Events,
         Before(ToSet(s), {e}), NEW S, S = ToSet(s) \cup {e}
  PROVE  ToSet(add(s, e)) = Newest(S)
<1> USE DEF Newest
<1> DEFINE Above(d) == {x \in S : x > d}
<1>1. /\ History \in Nat \ {0} /\ Len(s) \in Nat /\ S \subseteq Nat
      /\ IsFiniteSet(S) /\ Cardinality(S) = Len(s) + 1
  <2>1. PICK p : p = Append(s, e)
    OBVIOUS
  <2>2. p \in Seq(Events) /\ ToSet(p) = S /\ Increasing(p) /\ Len(p) = Len(s) + 1
    BY <2>1, AppendSet, Longer
  <2>3. S \subseteq Nat
    BY <2>2, InSet, EventsAreRanks
  <2>4. IsFiniteSet(S) /\ Cardinality(S) = Len(p)
    BY <2>2, CountsItsPlaces
  <2>5. Len(s) \in Nat
    OBVIOUS
  <2> QED BY <2>2, <2>3, <2>4, <2>5, HistoryIsPositive
<1>2. ASSUME NEW d \in S
      PROVE  IsFiniteSet(S \ {d}) /\ Cardinality(S \ {d}) = Len(s) /\ Above(d) \subseteq S \ {d}
  <2>1. IsFiniteSet(S \ {d}) /\ Cardinality(S \ {d}) = Cardinality(S) - 1
    BY <1>1, FS_RemoveElement
  <2>2. Above(d) \subseteq S \ {d}
    BY <1>1
  <2> QED BY <1>1, <2>1, <2>2
<1>3. CASE Len(s) < History
  <2>1. ASSUME NEW d \in S PROVE Cardinality(Above(d)) < History
    <3>1. /\ IsFiniteSet(Above(d)) /\ Cardinality(Above(d)) <= Len(s)
      <4>1. IsFiniteSet(S \ {d}) /\ Cardinality(S \ {d}) = Len(s) /\ Above(d) \in SUBSET (S \ {d})
        BY <1>2
      <4> HIDE DEF Above
      <4> QED BY <4>1, FS_Subset
    <3>2. Cardinality(Above(d)) \in Nat
      BY <3>1, FS_CardinalityType
    <3> QED BY <1>1, <1>3, <3>1, <3>2
  <2>2. ToSet(add(s, e)) = S
    <3>1. add(s, e) = Append(s, e)
      BY <1>1, <1>3 DEF add
    <3> QED BY <3>1, AppendSet
  <2> QED BY <2>1, <2>2
<1>4. CASE Len(s) = History
  <2> DEFINE h == Head(s)  r == add(s, e)
  <2>1. /\ s # <<>> /\ Tail(s) \in Seq(Events) /\ h \in Events
        /\ ToSet(s) = ToSet(Tail(s)) \cup {h} /\ Before({h}, ToSet(Tail(s)))
    <3>1. s # <<>>
      BY <1>1, <1>4
    <3> QED BY <3>1, TailSet
  <2>2. ToSet(r) = ToSet(Tail(s)) \cup {e}
    BY <1>4, <2>1, AppendSet DEF add
  <2>3. S = ToSet(r) \cup {h} /\ h \in S /\ \A d \in ToSet(r) : h < d /\ d # h
    BY <1>1, <2>1, <2>2 DEF Before
  <2> HIDE DEF r, h
  <2>4. Cardinality(Above(h)) = History
    <3>1. Above(h) = S \ {h}
      BY <1>1, <2>3
    <3> QED BY <1>2, <1>4, <2>3, <3>1
  <2>5. ASSUME NEW d \in ToSet(r) PROVE Cardinality(Above(d)) < History
    <3>1. /\ IsFiniteSet(S \ {h}) /\ Cardinality(S \ {h}) = History /\ d \in S \ {h}
      BY <1>2, <1>4, <2>3
    <3>2. IsFiniteSet((S \ {h}) \ {d}) /\ Cardinality((S \ {h}) \ {d}) = History - 1
      BY <3>1, FS_RemoveElement
    <3>3. Above(d) \subseteq (S \ {h}) \ {d}
      BY <1>1, <2>3
    <3>4. IsFiniteSet(Above(d)) /\ Cardinality(Above(d)) <= History - 1
      BY <3>2, <3>3, FS_Subset
    <3>5. Cardinality(Above(d)) \in Nat
      BY <3>4, FS_CardinalityType
    <3> QED BY <1>1, <3>4, <3>5
  <2> HIDE DEF Above
  <2>6. ASSUME NEW d \in S PROVE d \in ToSet(r) <=> Cardinality(Above(d)) < History
    <3>1. CASE d = h
      BY <1>1, <2>3, <2>4, <3>1
    <3>2. CASE d # h
      BY <2>3, <2>5, <3>2
    <3> QED BY <3>1, <3>2
  <2>7. ToSet(r) = {d \in S : Cardinality(Above(d)) < History}
    BY <2>3, <2>6
  <2> QED BY <2>7 DEF Above, r
<1>5. Len(s) < History \/ Len(s) = History
  BY <1>1
<1> QED BY <1>3, <1>4, <1>5

-----------------------------------------------------------------------------
(* What is to come of a connection: all that is on its way, or, when the   *)
(* broker has left it, what is still to be read.                           *)
Bound(c, n) == IF serve[c] = "gone" THEN Unread(c, n) ELSE Ahead(c, n)

ComingOK ==
  /\ link = Nobody => Coming = {}
  /\ \A c \in Connections, n \in Nat : link = c /\ c # Nobody /\ read = n => Coming = Bound(c, n)

LEMMA UnreadIs ==
  ASSUME NEW w \in Seq(Events), NEW n \in Nat, n <= Len(w)
  PROVE  ToSet(SubSeq(w, n + 1, Len(w))) = {w[k] : k \in (n + 1)..Len(w)}
<1> DEFINE u == SubSeq(w, n + 1, Len(w))
<1>1. /\ Len(w) \in Nat /\ u \in Seq(Events) /\ Len(u) = Len(w) - n
      /\ \A i \in 1..Len(u) : u[i] = w[n + i]
  OBVIOUS
<1> HIDE DEF u
<1>2. ASSUME NEW x, Has(u, x) PROVE \E k \in (n + 1)..Len(w) : w[k] = x
  <2>1. PICK i \in 1..Len(u) : u[i] = x
    BY <1>2 DEF Has
  <2>2. n + i \in (n + 1)..Len(w) /\ w[n + i] = x
    BY <1>1, <2>1
  <2> QED BY <2>2
<1>3. ASSUME NEW k \in (n + 1)..Len(w) PROVE Has(u, w[k])
  <2>1. k - n \in 1..Len(u) /\ u[k - n] = w[n + (k - n)] /\ n + (k - n) = k
    BY <1>1
  <2> QED BY <2>1 DEF Has
<1>4. \A x : x \in ToSet(u) <=> Has(u, x)
  BY <1>1, InSet
<1> QED BY <1>2, <1>3, <1>4 DEF u

LEMMA ComingIs == OrderOK => ComingOK
<1> SUFFICES ASSUME OrderOK, NEW c \in Connections, NEW n \in Nat,
                    link = c, c # Nobody, read = n
             PROVE  Coming = Bound(c, n)
  BY DEF ComingOK, Coming
<1>1. /\ wire[c] \in Seq(Events) /\ n <= Len(wire[c]) /\ held[c] = 0
      /\ serve[c] = "flush" => cur[c] # 0
      /\ serve[c] \notin {"flush", "gone"} => cur[c] = 0
  BY DEF OrderOK, BrokerOK, TypeInv, TypeOK, HandsOK, ClientOK, AllInOrder, InOrder
<1>2. ToSet(SubSeq(wire[c], n + 1, Len(wire[c]))) = Unread(c, n)
  BY <1>1, UnreadIs DEF Unread
<1>3. serve[c] # "gone" => {cur[c], held[c]} \ {0} = InHand(c)
  BY <1>1 DEF InHand
<1>4. Coming = Unread(c, n) \cup IF serve[c] = "gone" THEN {}
                                 ELSE ToSet(replay[c]) \cup ToSet(queue[c])
                                      \cup ({cur[c], held[c]} \ {0})
                                      \cup {e \in Events : c \in targets[e]}
  BY <1>2 DEF Coming
<1>5. CASE serve[c] = "gone"
  BY <1>4, <1>5 DEF Bound
<1>6. CASE serve[c] # "gone"
  <2>1. Ahead(c, n) = Unread(c, n) \cup ToSet(replay[c]) \cup ToSet(queue[c]) \cup InHand(c)
                      \cup {e \in Events : c \in targets[e]}
    BY DEF Ahead, Writing, Queued, Targeting
  <2> QED BY <1>3, <1>4, <1>6, <2>1 DEF Bound
<1> QED BY <1>5, <1>6

(* The connection, as the contract sees it. *)
Line == IF link = Nobody THEN "none" ELSE IF serve[link] = "gone" THEN "broken" ELSE "live"
Wanted == Wants[CHOOSE c \in Connections : TRUE]

LEMMA WantedIs ==
  ASSUME NEW c \in Connections
  PROVE  Wanted = Wants[c]
BY OneSubscription DEF Wanted

LEMMA SameCardinality == \A S : Contract!Cardinality(S) = Cardinality(S)
BY Zenon DEF Contract!Cardinality, Cardinality

(* The actions of the contract, in the terms of the subscription. *)
LEMMA AcceptIs ==
  ASSUME NEW e \in Events, \A d \in ToSet(recorded) : d < e, recorded' = Append(recorded, e),
         NEW S, S = ToSet(hist) \cup {e},
         ToSet(hist)' = Newest(S),
         Coming' = IF Line = "live" /\ e \in Wanted THEN Coming \cup {e} ELSE Coming,
         Line' = Line, received' = received
  PROVE  Contract!Accept
BY SameCardinality DEF Newest, Contract!Accept, Contract!Quantify, Contract!ToSet, ToSet, Line, Wanted

LEMMA ConnectIs ==
  ASSUME Line = "none", Line' = "live", recorded' = recorded, hist' = hist, received' = received,
         Coming' = {e \in ToSet(hist) \cap Wanted : received # <<>> /\ e > received[Len(received)]}
  PROVE  Contract!Connect
BY DEF Contract!Connect, Contract!Last, ToSet, Line, Wanted

LEMMA DeliverIs ==
  ASSUME NEW e \in Coming, Coming \subseteq Nat, \A d \in Coming : e <= d,
         received' = Append(received, e), Coming' = Coming \ {e},
         recorded' = recorded, hist' = hist, Line' = Line
  PROVE  Contract!Deliver
<1>1. Contract!Min(Coming) = e
  <2>1. \A m \in Coming : (\A d \in Coming : m <= d) => m = e
    OBVIOUS
  <2> QED BY <2>1 DEF Contract!Min
<1> QED BY <1>1 DEF Contract!Deliver, ToSet, Line

LEMMA LagIs ==
  ASSUME Line = "live", NEW e \in Coming, NEW t \in Coming, Coming \subseteq Nat,
         e < t, \A d \in Coming : d <= t, Coming' = Coming \ {e},
         recorded' = recorded, hist' = hist, Line' = Line, received' = received
  PROVE  Contract!Lag
<1>1. Contract!Max(Coming) # e
  <2>1. \E m \in Coming : \A d \in Coming : m >= d
    OBVIOUS
  <2>2. \A d \in Coming : Contract!Max(Coming) >= d
    BY <2>1 DEF Contract!Max
  <2> QED BY <2>2
<1> QED BY <1>1 DEF Contract!Lag, ToSet, Line

LEMMA BreakIs ==
  ASSUME Line # "none", Line' = "broken",
         Coming' = Coming \/ \E b \in Coming : Coming' = {e \in Coming : e < b},
         recorded' = recorded, hist' = hist, received' = received
  PROVE  Contract!Break
BY DEF Contract!Break, ToSet, Line

LEMMA HangUpIs ==
  ASSUME Line # "none", Line' = "none", Coming' = {},
         recorded' = recorded, hist' = hist, received' = received
  PROVE  Contract!HangUp
BY DEF Contract!HangUp, ToSet, Line

LEMMA StutterIs ==
  ASSUME recorded' = recorded, hist' = hist, received' = received, Line' = Line, Coming' = Coming
  PROVE  UNCHANGED Contract!busVars
BY DEF Contract!busVars, ToSet, Line

-----------------------------------------------------------------------------
(* Every step is one of the contract's, or none. *)
LEMMA PublishAccepts ==
  ASSUME Calm, OrderOK, ComingOK, ComingOK', NEW e \in Events, Publish(e), UNCHANGED clientVars
  PROVE  Contract!Accept
<1>1. /\ TypeInv /\ HistoryOK /\ RequestsInOrder /\ hist \in Seq(Events) /\ Len(hist) <= History
      /\ recorded \in Seq(Events) /\ hist' = add(hist, e) /\ recorded' = Append(recorded, e)
      /\ serve' = serve /\ link' = link /\ read' = read /\ received' = received
  BY DEF OrderOK, BrokerOK, TypeInv, TypeOK, Publish, clientVars
<1>2. \A d \in Events : pub[d] # "new" => d < e
  BY <1>1, PublishedLater
<1>3. ASSUME NEW d, Has(recorded, d) PROVE d < e
  <2>1. d \in Events
    BY <1>1, <1>3 DEF Has
  <2>2. pub[d] # "new"
    BY <1>1, <1>3, <2>1 DEF HistoryOK, Has
  <2> QED BY <1>2, <2>1, <2>2
<1>4. \A d \in ToSet(recorded) : d < e
  BY <1>1, <1>3, InSet
<1>5. Before(ToSet(hist), {e})
  <2>1. ASSUME NEW d \in ToSet(hist) PROVE d < e
    <3>1. PICK i \in 1..Len(hist) : hist[i] = d
      BY <1>1, <2>1, InSet DEF Has
    <3>2. \E j \in 1..Len(recorded) : recorded[j] = d
      BY <1>1, <3>1, HistoryProps
    <3> QED BY <1>3, <3>2 DEF Has
  <2> QED BY <2>1 DEF Before
<1>6. Increasing(hist)
  BY <1>1, HistoryIncreases DEF RequestsInOrder
<1>7. PICK S : S = ToSet(hist) \cup {e}
  OBVIOUS
<1>8. ToSet(hist') = Newest(S)
  <2>1. hist \in Seq(Events) /\ Len(hist) <= History
    BY <1>1
  <2>2. ToSet(add(hist, e)) = Newest(S)
    BY <2>1, <1>5, <1>6, <1>7, NewestKept
  <2> QED BY <1>1, <2>2
<1>9. Line' = Line
  BY <1>1 DEF Line
<1>10. Coming' = IF Line = "live" /\ e \in Wanted THEN Coming \cup {e} ELSE Coming
  <2>1. CASE link = Nobody
    BY <1>1, <2>1 DEF ComingOK, Line
  <2>2. CASE link # Nobody
    <3>1. PICK c \in Connections, n \in Nat : link = c /\ read = n
      BY <2>2 DEF OrderOK, LastOK
    <3>2. Coming = Bound(c, n) /\ Coming' = Bound(c, n)'
      BY <1>1, <2>2, <3>1 DEF ComingOK
    <3>3. /\ n <= Len(wire[c]) /\ serve[c] # "new" /\ InOrder(c)
          /\ c \in subs <=> serve[c] \notin {"new", "gone"}
      BY <2>2, <3>1 DEF OrderOK, ClientOK, BrokerOK, OffersOK, OfferOK, AllInOrder
    <3>4. IF c \in subs /\ e \in Wants[c] THEN Offers(c, e) ELSE Rests(c)
      BY <1>1, PublishEffect
    <3>5. Wanted = Wants[c]
      BY WantedIs
    <3>6. CASE c \in subs /\ e \in Wants[c]
      <4>1. Ahead(c, n)' = Ahead(c, n) \cup {e}
        BY <3>4, <3>6, AheadOffered
      <4> QED BY <1>1, <2>2, <3>1, <3>2, <3>3, <3>5, <3>6, <4>1 DEF Bound, Line
    <3>7. CASE ~(c \in subs /\ e \in Wants[c])
      <4>1. Rests(c) /\ wire'[c] = wire[c]
        BY <3>4, <3>7 DEF Rests, NoWrite
      <4>2. Ahead(c, n)' = Ahead(c, n)
        BY <1>1, <3>3, <4>1, AheadMoves DEF Moves
      <4>3. Unread(c, n)' = Unread(c, n)
        BY <4>1, StreamStays
      <4> QED BY <1>1, <2>2, <3>1, <3>2, <3>3, <3>5, <3>7, <4>2, <4>3 DEF Bound, Line
    <3> QED BY <3>6, <3>7
  <2> QED BY <2>1, <2>2
<1> QED BY <1>1, <1>4, <1>7, <1>8, <1>9, <1>10, AcceptIs

LEMMA BrokerMoves ==
  ASSUME Calm, Faults = {}, OrderOK, ComingOK, ComingOK', BrokerStep, UNCHANGED clientVars,
         \A e \in Events : ~Publish(e)
  PROVE  Contract!Lag \/ Contract!Break \/ UNCHANGED Contract!busVars
<1>1. /\ TypeInv /\ link' = link /\ read' = read /\ received' = received
      /\ hist' = hist /\ recorded' = recorded
  <2>1. TypeInv /\ [Next]_brokerVars
    BY DEF OrderOK, BrokerOK, Next
  <2> QED BY <2>1, HistoryUntouched DEF clientVars
<1>2. CASE link = Nobody
  BY <1>1, <1>2, StutterIs DEF ComingOK, Line
<1>3. CASE link # Nobody
  <2>1. PICK c \in Connections, n \in Nat : link = c /\ read = n
    BY <1>3 DEF OrderOK, LastOK
  <2>2. Coming = Bound(c, n) /\ Coming' = Bound(c, n)'
    BY <1>1, <1>3, <2>1 DEF ComingOK
  <2>3. /\ n <= Len(wire[c]) /\ serve[c] # "new" /\ InOrder(c)
        /\ wire[c] \in Seq(Events)
    BY <1>3, <2>1 DEF OrderOK, ClientOK, AllInOrder, BrokerOK, TypeInv, TypeOK
  <2>4. Line = (IF serve[c] = "gone" THEN "broken" ELSE "live") /\
        Line' = (IF serve'[c] = "gone" THEN "broken" ELSE "live")
    BY <1>1, <1>3, <2>1 DEF Line
  <2>5. Moves(c) \/ Loses(c)
    BY BrokerEffect DEF OrderOK
  <2>6. ASSUME serve'[c] = serve[c], Bound(c, n)' = Bound(c, n)
        PROVE  UNCHANGED Contract!busVars
    BY <1>1, <2>2, <2>4, <2>6, StutterIs
  <2>7. ASSUME Moves(c) PROVE UNCHANGED Contract!busVars
    <3>1. Ahead(c, n)' = Ahead(c, n)
      BY <1>1, <2>3, <2>7, AheadMoves
    <3>2. CASE Rests(c) \/ \E e \in Events : Queues(c, e)
      <4>1. serve'[c] = serve[c] /\ wire'[c] = wire[c]
        BY <3>2 DEF Rests, Queues, Rest, NoWrite
      <4>2. Unread(c, n)' = Unread(c, n)
        BY <4>1, StreamStays
      <4> QED BY <2>6, <3>1, <4>1, <4>2 DEF Bound
    <3>3. CASE Replays(c) \/ ReplayEnds(c) \/ Takes(c) \/ Flushes(c)
      <4>1. serve[c] # "gone" /\ serve'[c] # "gone"
        BY <3>3 DEF Replays, ReplayEnds, Takes, Flushes, Rest
      <4>2. Bound(c, n)' = Bound(c, n)
        BY <3>1, <4>1 DEF Bound
      <4> QED BY <1>1, <2>2, <2>4, <4>1, <4>2, StutterIs
    <3> QED BY <2>7, <3>2, <3>3 DEF Moves
  <2>8. ASSUME Ends(c) PROVE Contract!Break
    <3>1. serve[c] # "gone" /\ serve'[c] = "gone" /\ wire'[c] = wire[c]
      BY <2>8 DEF Ends, NoWrite
    <3>2. Coming = Ahead(c, n) /\ Coming' = Unread(c, n)
      BY <2>2, <3>1, StreamStays DEF Bound
    <3> DEFINE R == Writing(c) \cup Queued(c) \cup Targeting(c)
    <3>3. Ahead(c, n) = Unread(c, n) \cup R
      BY DEF Ahead
    <3>4. R \in SUBSET Nat
      <4>1. Writing(c) \subseteq Events /\ Queued(c) \subseteq Events /\ Targeting(c) \subseteq Events
        BY <1>1, LineTypes, InSet DEF Writing, InHand, Queued
      <4> QED BY <4>1, EventsAreRanks
    <3>5. \A x \in Unread(c, n), y \in R : x < y
      <4>1. Unread(c, n) \subseteq Sent(c)
        <5>1. \A k \in (n + 1)..Len(wire[c]) : Has(wire[c], wire[c][k])
          BY <2>3 DEF Has
        <5> QED BY <2>3, <5>1, InSet DEF Unread, Sent
      <4> QED BY <2>3, <4>1 DEF InOrder, Lined, Before
    <3> HIDE DEF R
    <3>6. CASE R = {}
      BY <1>1, <2>4, <3>1, <3>2, <3>3, <3>6, BreakIs
    <3>7. CASE R # {}
      <4>1. PICK b \in R : \A y \in R : b <= y
        BY <3>4, <3>7, Least
      <4>2. Unread(c, n) = {e \in Coming : e < b}
        <5>1. ASSUME NEW x \in Unread(c, n) PROVE x \in Coming /\ x < b
          BY <3>2, <3>3, <3>5, <4>1
        <5>2. ASSUME NEW x \in Coming, x < b PROVE x \in Unread(c, n)
          <6>1. ASSUME x \in R PROVE FALSE
            <7>1. x \in Nat /\ b \in Nat /\ b <= x
              BY <3>4, <4>1, <6>1
            <7> QED BY <5>2, <7>1
          <6> QED BY <3>2, <3>3, <6>1
        <5> QED BY <5>1, <5>2
      <4> QED BY <1>1, <2>4, <3>1, <3>2, <3>3, <4>2, BreakIs
    <3> QED BY <3>6, <3>7
  <2>9. ASSUME NEW t \in Events, Overflows(c, t)
        PROVE  Contract!Lag \/ UNCHANGED Contract!busVars
    <3> DEFINE h == Head(queue[c])
    <3>1. serve'[c] = serve[c] /\ wire'[c] = wire[c]
      BY <2>9 DEF Overflows, Rest, NoWrite
    <3>2. Unread(c, n)' = Unread(c, n)
      BY <3>1, StreamStays
    <3>3. CASE serve[c] = "gone"
      BY <2>6, <3>1, <3>2, <3>3 DEF Bound
    <3>4. CASE serve[c] # "gone"
      <4>1. Queued(c) = Queued(c)' \cup {h} /\ Before({h}, Queued(c)') /\ h \in Events
        BY <1>1, <2>3, <2>9, LineTypes, TailSet DEF Overflows, Queued, InOrder
      <4>2. /\ Targeting(c)' = Targeting(c) /\ Targeting(c) = {t} /\ Writing(c)' = Writing(c)
        BY <2>9 DEF Overflows, NoRequest, Rest, NoWrite, Writing, InHand
      <4>3. Unread(c, n) \subseteq Sent(c) /\ Sent(c) \subseteq Events
        <5>1. \A k \in (n + 1)..Len(wire[c]) : Has(wire[c], wire[c][k])
          BY <2>3 DEF Has
        <5> QED BY <2>3, <5>1, InSet DEF Unread, Sent
      <4>4. /\ Ahead(c, n) \subseteq Nat /\ h \in Ahead(c, n) /\ t \in Ahead(c, n)
        <5>1. Writing(c) \subseteq Events /\ Queued(c) \subseteq Events /\ Targeting(c) \subseteq Events
          BY <1>1, LineTypes, InSet DEF Writing, InHand, Queued
        <5>2. Ahead(c, n) \subseteq Events
          BY <4>3, <5>1 DEF Ahead
        <5> QED BY <4>1, <4>2, <5>2, EventsAreRanks DEF Ahead
      <4>5. /\ \A x \in Ahead(c, n) : x = t \/ x < t
            /\ \A x \in Unread(c, n) \cup Writing(c) : x < h
            /\ h < t
        BY <2>3, <4>1, <4>2, <4>3 DEF InOrder, Lined, Before, Ahead
      <4>6. Ahead(c, n)' = Ahead(c, n) \ {h}
        <5>1. Ahead(c, n)' = Unread(c, n) \cup Writing(c) \cup Queued(c)' \cup {t}
          BY <3>2, <4>2 DEF Ahead
        <5>2. Ahead(c, n) = Unread(c, n) \cup Writing(c) \cup Queued(c)' \cup {h} \cup {t}
          BY <4>1, <4>2 DEF Ahead
        <5>3. h \notin Unread(c, n) \cup Writing(c) \cup Queued(c)' \cup {t}
          <6>1. h \in Nat
            BY <4>4
          <6> QED BY <4>1, <4>5, <6>1 DEF Before
        <5> QED BY <5>1, <5>2, <5>3
      <4>7. Coming = Ahead(c, n) /\ Coming' = Ahead(c, n)'
        BY <2>2, <3>1, <3>4 DEF Bound
      <4>8. \A x \in Ahead(c, n) : x <= t
        BY <4>4, <4>5
      <4> HIDE DEF h
      <4> QED BY <1>1, <2>4, <3>1, <3>4, <4>4, <4>5, <4>6, <4>7, <4>8, LagIs
    <3> QED BY <3>3, <3>4
  <2>10. ASSUME Flushes(c) PROVE Moves(c)
    <3>1. wire'[c] = Append(wire[c], cur[c])
      BY <2>10 DEF Flushes
    <3> QED BY <2>10, <3>1 DEF Moves
  <2> QED BY <2>5, <2>7, <2>8, <2>9, <2>10 DEF Loses
<1> QED BY <1>2, <1>3

LEMMA OpenConnects ==
  ASSUME Calm, OrderOK, ComingOK, ComingOK', NEW c \in Connections, Open(c), c # Nobody
  PROVE  Contract!Connect
<1>1. /\ link = Nobody /\ link' = c /\ read' = 0 /\ received' = received
      /\ Register(c, lastID) /\ lastID \in Events \cup {0}
  BY DEF Open, OrderOK, LastOK
<1>2. Registers(c, lastID) /\ hist' = hist /\ recorded' = recorded
  <2>1. Registers(c, lastID)
    BY <1>1, RegisterEffect DEF OrderOK
  <2> QED BY <1>1, <2>1 DEF Register
<1>3. Line = "none" /\ Line' = "live"
  BY <1>1, <1>2 DEF Line, Registers
<1>4. Coming' = Ahead(c, 0)'
  BY <1>1, <1>2 DEF ComingOK, Bound, Registers
<1>5. Ahead(c, 0)' = ToSet(replay'[c])
  <2>1. Unread(c, 0)' = {}
    BY <1>2 DEF Unread, Registers
  <2>2. Writing(c)' = ToSet(replay'[c]) /\ Queued(c)' = {} /\ Targeting(c)' = {}
    BY <1>2, EmptySet DEF Registers, Writing, InHand, Queued
  <2> QED BY <2>1, <2>2 DEF Ahead
<1>6. /\ received \in Seq(Events)
      /\ lastID = IF received = <<>> THEN 0 ELSE received[Len(received)]
  BY DEF OrderOK, ClientOK
<1>7. received # <<>> => lastID # 0
  <2>1. ASSUME received # <<>> PROVE received[Len(received)] \in Events
    <3>1. Len(received) \in 1..Len(received)
      BY <1>6, <2>1
    <3> QED BY <1>6, <3>1
  <2> QED BY <1>6, <2>1, EventsAreRanks
<1>8. ToSet(replay'[c]) = {e \in ToSet(hist) \cap Wanted : received # <<>> /\ e > received[Len(received)]}
  <2>1. Wanted = Wants[c]
    BY WantedIs
  <2>2. ToSet(replay'[c]) = {e \in ToSet(hist) : e \in Wants[c] /\ e > lastID /\ lastID # 0}
    BY <1>2 DEF Registers
  <2>3. CASE received = <<>>
    BY <1>6, <2>2, <2>3
  <2>4. CASE received # <<>>
    BY <1>6, <1>7, <2>1, <2>2, <2>4
  <2> QED BY <2>3, <2>4
<1> QED BY <1>1, <1>2, <1>3, <1>4, <1>5, <1>8, ConnectIs

LEMMA ForwardDelivers ==
  ASSUME OrderOK, ComingOK, ComingOK', Forward
  PROVE  Contract!Deliver
<1>1. PICK c \in Connections, n \in Nat : link = c /\ read = n /\ c # Nobody
  BY DEF Forward, OrderOK, LastOK
<1>2. PICK e \in Events : e = wire[c][n + 1]
  BY <1>1 DEF Forward, OrderOK, BrokerOK, TypeInv, TypeOK
<1>3. /\ n < Len(wire[c]) /\ wire[c] \in Seq(Events) /\ InOrder(c) /\ Increasing(wire[c])
      /\ link' = c /\ read' = n + 1 /\ received' = Append(received, e) /\ UNCHANGED brokerVars
  BY <1>1, <1>2 DEF Forward, OrderOK, BrokerOK, TypeInv, TypeOK, AllInOrder, InOrder
<1>4. /\ e \in Sent(c)
      /\ Unread(c, n) = Unread(c, n + 1) \cup {e} /\ Before({e}, Unread(c, n + 1))
  BY <1>2, <1>3, UnreadShrinks
<1>5. Before({e}, Ahead(c, n + 1)) /\ Ahead(c, n) = Ahead(c, n + 1) \cup {e}
  BY <1>3, <1>4 DEF InOrder, Lined, Before, Ahead
<1>6. /\ Ahead(c, n + 1)' = Ahead(c, n + 1) /\ Unread(c, n + 1)' = Unread(c, n + 1)
      /\ serve' = serve /\ hist' = hist /\ recorded' = recorded
  BY <1>3 DEF brokerVars, pubVars, Ahead, Unread, Writing, InHand, Queued, Targeting
<1>7. Coming = Bound(c, n)
  BY <1>1 DEF ComingOK
<1>8. Coming' = Bound(c, n + 1)
  <2>1. Coming' = Bound(c, n + 1)'
    BY <1>1, <1>3 DEF ComingOK
  <2> QED BY <1>6, <2>1 DEF Bound
<1>9. Bound(c, n) = Bound(c, n + 1) \cup {e} /\ Before({e}, Bound(c, n + 1))
  BY <1>4, <1>5 DEF Bound
<1>10. Coming \subseteq Nat /\ e \in Nat
  <2>1. Bound(c, n) \subseteq Ahead(c, n)
    BY DEF Bound, Ahead
  <2>2. Ahead(c, n) \subseteq Events
    <3>1. Writing(c) \subseteq Events /\ Queued(c) \subseteq Events /\ Targeting(c) \subseteq Events
      BY LineTypes, InSet DEF OrderOK, BrokerOK, Writing, InHand, Queued
    <3>2. Unread(c, n) \subseteq Events
      <4>1. \A k \in (n + 1)..Len(wire[c]) : wire[c][k] \in Events
        BY <1>3
      <4> QED BY <4>1 DEF Unread
    <3> QED BY <3>1, <3>2 DEF Ahead
  <2> QED BY <1>7, <2>1, <2>2, EventsAreRanks
<1>11. e \in Coming /\ (\A d \in Coming : e <= d) /\ Coming' = Coming \ {e}
  <2>1. \A d \in Bound(c, n + 1) : e < d
    BY <1>9 DEF Before
  <2>2. e \notin Bound(c, n + 1)
    BY <1>10, <2>1
  <2> QED BY <1>7, <1>8, <1>9, <1>10, <2>1, <2>2
<1>12. Line' = Line
  BY <1>1, <1>3, <1>6 DEF Line
<1> QED BY <1>3, <1>6, <1>10, <1>11, <1>12, DeliverIs

LEMMA ContractStep ==
  ASSUME Calm, Faults = {}, OrderOK, ComingOK, ComingOK', [SubNext]_subVars
  PROVE  [Contract!Next]_Contract!busVars
<1>1. ASSUME NEW c \in Connections, Open(c) PROVE [Contract!Next]_Contract!busVars
  <2>1. CASE c = Nobody
    <3>1. UNCHANGED <<hist, recorded, received, link>> /\ link = Nobody
      BY <1>1, <2>1 DEF Open, Register
    <3> QED BY <3>1, StutterIs DEF ComingOK, Line
  <2>2. CASE c # Nobody
    BY <1>1, <2>2, OpenConnects DEF Contract!Next
  <2> QED BY <2>1, <2>2
<1>2. CASE Forward
  BY <1>2, ForwardDelivers DEF Contract!Next
<1>3. CASE Lose
  <2>1. /\ link # Nobody /\ link' = Nobody
        /\ UNCHANGED <<hist, recorded, received>>
    BY <1>3 DEF Lose, brokerVars
  <2>2. Line # "none" /\ Line' = "none" /\ Coming' = {}
    BY <2>1 DEF Line, ComingOK
  <2> QED BY <2>1, <2>2, HangUpIs DEF Contract!Next
<1>4. CASE BrokerStep /\ UNCHANGED clientVars
  <2>1. CASE \E e \in Events : Publish(e)
    BY <1>4, <2>1, PublishAccepts DEF Contract!Next
  <2>2. CASE \A e \in Events : ~Publish(e)
    BY <1>4, <2>2, BrokerMoves DEF Contract!Next
  <2> QED BY <2>1, <2>2
<1>5. CASE UNCHANGED subVars
  <2>1. /\ UNCHANGED <<hist, recorded, received, link, read, wire, serve, replay, queue, cur, held, targets>>
    BY <1>5 DEF subVars, brokerVars, pubVars, clientVars
  <2>2. Line' = Line /\ Coming' = Coming
    BY <2>1 DEF Line, Coming
  <2> QED BY <2>1, <2>2, StutterIs
<1>6. CASE AllUsed
  BY <1>5, <1>6 DEF AllUsed
<1> QED BY <1>1, <1>2, <1>3, <1>4, <1>5, <1>6 DEF SubNext

LEMMA ContractInit ==
  ASSUME SubInit
  PROVE  Contract!Init
BY EmptySet DEF SubInit, BrokerInit, Contract!Init, Coming, ToSet

(* If publishers do not race and no fault is injected, one subscription,   *)
(* over however many connections, is an EventBus: in order and once, with  *)
(* no gaps but those of lag, eviction and a connection without a resume    *)
(* point.                                                                  *)
THEOREM SubscriptionIsAnEventBus ==
  ASSUME Sequential, Faults = {}
  PROVE  SubSpec => ImplementsEventBus
<1>1. Calm
  BY DEF Calm
<1>2. SubInit => Contract!Init
  BY ContractInit
<1>3. OrderOK => ComingOK
  BY ComingIs
<1>4. ComingOK /\ ComingOK' /\ OrderOK /\ [SubNext]_subVars => [Contract!Next]_Contract!busVars
  BY <1>1, ContractStep
<1>5. SubSpec => []OrderOK
  BY <1>1, OrderHolds
<1> QED BY <1>2, <1>3, <1>4, <1>5, PTL DEF SubSpec, ImplementsEventBus, Contract!Spec

-----------------------------------------------------------------------------
(* What a connection was offered and nobody has any more: taken out of a   *)
(* full queue or dropped.                                                  *)
LostAt(c, e) ==
  /\ e \in live[c] /\ cur[c] # e /\ held[c] # e
  /\ e \notin Targeting(c) \cup Queued(c) \cup Sent(c)

LEMMA LostIsDiscarded ==
  ASSUME NEW c \in Connections, NEW e \in Events
  PROVE  /\ LostAt(c, e) => Discarded(e)
         /\ LostAt(c, e)' => Discarded(e)'
BY DEF LostAt, Discarded, Targeting, Queued, Sent

LEMMA DiscardedIsLost ==
  ASSUME NEW e \in Events, Discarded(e)
  PROVE  \E c \in Connections : LostAt(c, e)
BY DEF LostAt, Discarded, Targeting, Queued, Sent

(* It stays lost, whatever happens to the connection. *)
LEMMA StaysLost ==
  ASSUME BrokerOK, NEW c \in Connections, InOrder(c), NEW e \in Events, LostAt(c, e),
         e \in live'[c], held'[c] = 0,
         \/ ServedEffect(c)
         \/ \E d \in Events : Queues(c, d) \/ Overflows(c, d)
         \/ \E d \in Events : d # e /\ Offers(c, d)
  PROVE  LostAt(c, e)'
<1>1. /\ e # 0 /\ TypeInv /\ wire[c] \in Seq(Events) /\ replay[c] \in Seq(Events)
      /\ queue[c] \in Seq(Events)
      /\ serve[c] = "flush" => cur[c] \in Events
  BY EventsAreRanks, LineTypes DEF BrokerOK
<1>2. cur[c] # e /\ e \notin Targeting(c) /\ e \notin Queued(c) /\ e \notin Sent(c)
  BY DEF LostAt
<1>3. e \notin ToSet(replay[c])
  <2>1. serve[c] # "new" => snapshot[c] \cap live[c] = {}
    BY OneWay DEF BrokerOK, EveryEventByOneWay
  <2>2. serve[c] # "new" /\ e \in live[c]
    BY DEF LostAt, BrokerOK, OffersOK, OfferOK
  <2>3. ASSUME Has(replay[c], e) PROVE e \in snapshot[c]
    BY <2>3 DEF Has, BrokerOK, StreamOK, Streamed
  <2> QED BY <1>1, <2>1, <2>2, <2>3, InSet
<1>4. SUFFICES cur'[c] # e /\ e \notin Targeting(c)' /\ e \notin Queued(c)' /\ e \notin Sent(c)'
  BY <1>1 DEF LostAt
<1>5. CASE Rests(c)
  BY <1>2, <1>5 DEF Rests, Rest, NoWrite, NoQueueing, NoRequest, Queued, Sent
<1>6. CASE Ends(c) \/ ReplayEnds(c)
  BY <1>2, <1>6 DEF Ends, ReplayEnds, NoWrite, NoQueueing, NoRequest, Queued, Sent
<1>7. CASE Replays(c)
  <2> DEFINE h == Head(replay[c])
  <2>1. h \in Events /\ h # e
    BY <1>1, <1>3, <1>7, TailSet DEF Replays
  <2>2. Sent(c)' = Sent(c) \cup {h}
    BY <1>1, <1>7, <2>1, AppendSet DEF Replays, Sent
  <2> QED BY <1>2, <1>7, <2>1, <2>2 DEF Replays, Rest, NoQueueing, NoRequest, Queued
<1>8. CASE Takes(c)
  <2>1. Queued(c) = Queued(c)' \cup {Head(queue[c])}
    <3>1. queue[c] # <<>> /\ queue'[c] = Tail(queue[c])
      BY <1>8 DEF Takes
    <3> QED BY <1>1, <3>1, TailSet DEF Queued
  <2> QED BY <1>2, <1>8, <2>1 DEF Takes, NoWrite, NoRequest, Sent
<1>9. CASE Flushes(c)
  <2>1. cur[c] \in Events /\ cur'[c] # e
    <3>1. serve[c] = "flush" /\ cur'[c] = 0
      BY <1>9 DEF Flushes
    <3> QED BY <1>1, <3>1
  <2>2. Sent(c)' \subseteq Sent(c) \cup {cur[c]}
    BY <1>1, <1>9, <2>1, AppendSet DEF Flushes, Sent
  <2> QED BY <1>2, <1>9, <2>1, <2>2 DEF Flushes, NoQueueing, NoRequest, Queued
<1>10. ASSUME NEW d \in Events, Queues(c, d)
       PROVE  cur'[c] # e /\ e \notin Targeting(c)' /\ e \notin Queued(c)' /\ e \notin Sent(c)'
  <2>1. d # e /\ Targeting(c)' = {}
    BY <1>2, <1>10 DEF Queues
  <2>2. Queued(c)' = Queued(c) \cup {d}
    <3>1. queue'[c] = Append(queue[c], d)
      BY <1>10 DEF Queues
    <3> QED BY <1>1, <3>1, AppendSet DEF Queued
  <2> QED BY <1>2, <1>10, <2>1, <2>2 DEF Queues, Rest, NoWrite, Sent
<1>11. ASSUME NEW d \in Events, Overflows(c, d)
       PROVE  cur'[c] # e /\ e \notin Targeting(c)' /\ e \notin Queued(c)' /\ e \notin Sent(c)'
  <2>1. Queued(c) = Queued(c)' \cup {Head(queue[c])}
    <3>1. queue[c] # <<>> /\ queue'[c] = Tail(queue[c])
      BY <1>11 DEF Overflows
    <3> QED BY <1>1, <3>1, TailSet DEF Queued
  <2> QED BY <1>2, <1>11, <2>1 DEF Overflows, Rest, NoWrite, NoRequest, Sent
<1>12. ASSUME NEW d \in Events, d # e, Offers(c, d)
       PROVE  cur'[c] # e /\ e \notin Targeting(c)' /\ e \notin Queued(c)' /\ e \notin Sent(c)'
  BY <1>2, <1>12 DEF Offers, Rest, NoWrite, NoQueueing, Queued, Sent
<1> QED BY <1>5, <1>6, <1>7, <1>8, <1>9, <1>10, <1>11, <1>12 DEF ServedEffect

(* What was offered stays offered. *)
LEMMA LiveGrows ==
  ASSUME TypeInv, [Next]_brokerVars, NEW c \in Connections, NEW e \in live[c]
  PROVE  e \in live'[c]
<1>1. ASSUME NEW d \in Events, Publish(d) PROVE e \in live'[c]
  <2>1. PICK r : live' = [x \in Connections |-> IF x \in r THEN live[x] \cup {d} ELSE live[x]]
    BY <1>1 DEF Publish
  <2> QED BY <2>1
<1>2. CASE UNCHANGED live
  BY <1>2
<1>3. ASSUME NEW d \in Events, FanOut(d) PROVE UNCHANGED live
  BY <1>3 DEF FanOut, TrySend, DiscardOldest, Resend
<1>4. ASSUME NEW d \in Connections,
             Serve(d) \/ Disconnect(d) \/ \E id \in Events \cup {0} : Register(d, id)
      PROVE  UNCHANGED live
  BY <1>4 DEF Serve, Replay, Take, Release, FlushCur, FlushHeld, Disconnect, Register
<1> QED BY <1>1, <1>2, <1>3, <1>4 DEF Next, BrokerStep, Finished, brokerVars

LEMMA DiscardedStays ==
  ASSUME Calm, BrokerOK, RequestsInOrder, AllInOrder, [Next]_brokerVars,
         NEW e \in Events, Discarded(e)
  PROVE  Discarded(e)'
<1>1. PICK c \in Connections : LostAt(c, e)
  BY DiscardedIsLost
<1>2. /\ TypeInv /\ HistoryOK /\ OffersOK /\ WayOK /\ InOrder(c) /\ held[c] = 0
      /\ e \in live[c]
  BY <1>1 DEF BrokerOK, AllInOrder, InOrder, LostAt
<1>3. e \in live'[c] /\ pub[e] # "new" /\ serve[c] # "new"
  <2>1. pub[e] # "new"
    BY <1>2, NotYetOffered
  <2> QED BY <1>2, <2>1, LiveGrows DEF OffersOK, OfferOK
<1>4. SUFFICES LostAt(c, e)'
  BY LostIsDiscarded
<1>5. ASSUME NEW d \in Events, Publish(d) PROVE LostAt(c, e)'
  <2>1. (Offers(c, d) \/ Rests(c)) /\ held'[c] = 0
    BY <1>2, <1>5, PublishEffect
  <2>2. d # e
    BY <1>3, <1>5 DEF Publish
  <2> QED BY <1>1, <1>2, <1>3, <2>1, <2>2, StaysLost DEF ServedEffect
<1>6. ASSUME NEW d \in Events, FanOut(d) PROVE LostAt(c, e)'
  <2>1. (Rests(c) \/ Queues(c, d) \/ Overflows(c, d)) /\ held'[c] = 0
    BY <1>2, <1>6, FanOutEffect
  <2> QED BY <1>1, <1>2, <1>3, <2>1, StaysLost DEF ServedEffect
<1>7. ASSUME NEW d \in Connections, Disconnect(d) \/ Serve(d) PROVE LostAt(c, e)'
  <2>1. ServedEffect(c) /\ held'[c] = 0
    BY <1>2, <1>7, ServeEffect
  <2> QED BY <1>1, <1>2, <1>3, <2>1, StaysLost
<1>8. ASSUME NEW d \in Connections, NEW id \in Events \cup {0}, Register(d, id) PROVE LostAt(c, e)'
  <2>1. (IF c = d THEN Registers(c, id) ELSE Rests(c)) /\ held'[c] = 0
    BY <1>8, RegisterEffect
  <2>2. Rests(c)
    BY <1>3, <2>1 DEF Registers
  <2> QED BY <1>1, <1>2, <1>3, <2>1, <2>2, StaysLost DEF ServedEffect
<1>9. CASE UNCHANGED brokerVars
  BY <1>1, <1>9 DEF brokerVars, pubVars, LostAt, Targeting, Queued, Sent
<1> QED BY <1>5, <1>6, <1>7, <1>8, <1>9 DEF Next, BrokerStep, Finished

(* An overflow and a drop lose one event. *)
LEMMA OverflowLoses ==
  ASSUME BrokerOK, NEW c \in Connections, InOrder(c), NEW d \in Events, Overflows(c, d),
         serve[c] # "gone", [Next]_brokerVars, held'[c] = 0
  PROVE  \E h \in Events : LostAt(c, h)' /\ Queued(c) = Queued(c)' \cup {h}
<1>1. PICK h : h = Head(queue[c])
  OBVIOUS
<1>2. /\ h \in Events /\ Queued(c) = Queued(c)' \cup {h} /\ Before({h}, Queued(c)')
      /\ queue[c] \in Seq(Events) /\ TypeInv
  BY <1>1, LineTypes, TailSet DEF BrokerOK, Overflows, Queued, InOrder
<1>3. Has(queue[c], h)
  BY <1>2, InSet DEF Queued
<1>4. h \in live[c] /\ h \notin Targeting(c)
  BY <1>2, <1>3 DEF BrokerOK, WayOK, OnItsWay, Targeting
<1>5. h \in Nat /\ h # 0
  BY <1>2, EventsAreRanks
<1>6. h \notin Sent(c) /\ h \notin InHand(c) /\ h \notin Queued(c)'
  <2>1. Before(Sent(c) \cup InHand(c), {h})
    BY <1>2 DEF InOrder, Lined, Before, Writing
  <2>2. ~(h < h)
    BY <1>5
  <2> QED BY <1>2, <2>1, <2>2 DEF Before
<1>7. cur[c] # h
  <2>1. serve[c] # "flush" => cur[c] = 0
    BY <1>2 DEF TypeInv, HandsOK
  <2> QED BY <1>5, <1>6, <2>1 DEF InHand
<1>8. h \in live'[c]
  BY <1>2, <1>4, LiveGrows
<1>9. Targeting(c)' = Targeting(c) /\ Sent(c)' = Sent(c) /\ cur'[c] = cur[c]
  BY DEF Overflows, Rest, NoWrite, NoRequest, Sent
<1>10. LostAt(c, h)'
  BY <1>4, <1>5, <1>6, <1>7, <1>8, <1>9 DEF LostAt
<1> QED BY <1>2, <1>10

LEMMA DropLoses ==
  ASSUME BrokerOK, NEW c \in Connections, InOrder(c), Flushes(c), wire'[c] = wire[c],
         [Next]_brokerVars, held'[c] = 0
  PROVE  /\ \E h \in Events : LostAt(c, h)' /\ Writing(c) = {h}
         /\ Writing(c)' = {} /\ Queued(c)' = Queued(c) /\ Targeting(c)' = Targeting(c)
<1>1. PICK h : h = cur[c]
  OBVIOUS
<1>2. /\ serve[c] = "flush" /\ h \in Events /\ TypeInv /\ taken[c] \in Seq(Events)
      /\ cur'[c] = 0 /\ Queued(c)' = Queued(c) /\ Targeting(c)' = Targeting(c)
      /\ Sent(c)' = Sent(c)
  BY <1>1, LineTypes DEF Flushes, NoQueueing, NoRequest, Queued, Sent, BrokerOK, TypeInv, TypeOK
<1>3. Writing(c) = {h} /\ Writing(c)' = {}
  BY <1>1, EmptySet DEF Flushes, Writing, InHand, InOrder
<1>4. h \in Nat /\ h # 0
  BY <1>2, EventsAreRanks
<1>5. h \notin Sent(c) /\ h \notin Queued(c) /\ h \notin Targeting(c)
  <2>1. Before(Sent(c), {h}) /\ Before({h}, Queued(c) \cup Targeting(c))
    BY <1>3 DEF InOrder, Lined, Before
  <2>2. ~(h < h)
    BY <1>4
  <2> QED BY <2>1, <2>2 DEF Before
<1>6. Has(taken[c], h)
  <2>1. Len(taken[c]) >= 1 /\ h = taken[c][Len(taken[c])]
    BY <1>1, <1>2 DEF BrokerOK, StreamOK, Streamed
  <2> QED BY <1>2, <2>1 DEF Has
<1>7. h \in live[c]
  BY <1>2, <1>6 DEF BrokerOK, WayOK, OnItsWay
<1>8. h \in live'[c]
  BY <1>2, <1>7, LiveGrows
<1>9. LostAt(c, h)'
  BY <1>2, <1>4, <1>5, <1>8 DEF LostAt
<1> QED BY <1>1, <1>2, <1>3, <1>9

-----------------------------------------------------------------------------
(* What is retained for a connection, and what of it comes after something *)
(* that has arrived or is to arrive, and, once the broker has left, before *)
(* something that is to arrive.                                            *)
Kept(c) == {e \in ToSet(hist) : e \in Wants[c]}

Expected(c, n, e) ==
  /\ e \in Kept(c)
  /\ \E x \in Bound(c, n) \cup ({lastID} \ {0}) : x < e
  /\ serve[c] = "gone" => \E y \in Unread(c, n) : e < y

(* The open connection brings it, or it was discarded. *)
Gapless(c, n) == \A e \in Events : Expected(c, n, e) => e \in Bound(c, n) \/ Discarded(e)

AheadOK ==
  \A c \in Connections, n \in Nat : link = c /\ c # Nobody /\ read = n => Gapless(c, n)

(* What is retained and behind the client was handed over, or discarded,   *)
(* or is older than the first event handed over.                           *)
BehindOK ==
  received # <<>> =>
    \A c \in Connections : \A e \in Kept(c) :
      received[1] < e /\ e <= lastID => e \in ToSet(received) \/ Discarded(e)

CompleteOK == AheadOK /\ BehindOK

LEMMA KeptIs ==
  ASSUME TypeInv, [Next]_brokerVars, NEW c \in Connections
  PROVE  /\ Kept(c) \subseteq Events
         /\ (\A e \in Events : ~Publish(e)) => Kept(c)' = Kept(c)
         /\ \A e \in Events : Publish(e) => Kept(c)' \subseteq Kept(c) \cup ({e} \cap Wants[c])
<1>1. hist \in Seq(Events) /\ Len(hist) \in Nat /\ ToSet(hist) \subseteq Events
  BY InSet DEF TypeInv, TypeOK
<1>2. ASSUME \A e \in Events : ~Publish(e) PROVE Kept(c)' = Kept(c)
  BY <1>2, HistoryUntouched DEF Kept
<1>3. ASSUME NEW e \in Events, Publish(e) PROVE Kept(c)' \subseteq Kept(c) \cup ({e} \cap Wants[c])
  <2>1. hist' = add(hist, e)
    BY <1>3 DEF Publish
  <2>2. ASSUME NEW s \in Seq(Events), hist' = Append(s, e), ToSet(s) \subseteq ToSet(hist)
        PROVE  ToSet(hist') \subseteq ToSet(hist) \cup {e}
    <3>1. PICK t : t = Append(s, e)
      OBVIOUS
    <3>2. ToSet(t) = ToSet(s) \cup {e}
      BY <3>1, AppendSet
    <3> QED BY <2>2, <3>1, <3>2
  <2>3. ASSUME hist' = Append(hist, e)
        PROVE  ToSet(hist') \subseteq ToSet(hist) \cup {e}
    BY <1>1, <2>2, <2>3
  <2>4. ASSUME Len(hist) = History, hist' = Append(Tail(hist), e)
        PROVE  ToSet(hist') \subseteq ToSet(hist) \cup {e}
    <3>1. hist # <<>>
      BY <2>4, HistoryIsPositive
    <3>2. PICK t : t = Tail(hist)
      OBVIOUS
    <3>3. hist \in Seq(Events)
      BY <1>1
    <3>4. t \in Seq(Events) /\ ToSet(hist) = ToSet(t) \cup {Head(hist)}
      BY <3>1, <3>2, <3>3, TailSet
    <3> QED BY <2>2, <2>4, <3>2, <3>4
  <2>5. ToSet(hist') \subseteq ToSet(hist) \cup {e}
    BY <2>1, <2>3, <2>4 DEF add
  <2> QED BY <2>5 DEF Kept
<1> QED BY <1>1, <1>2, <1>3 DEF Kept

(* The connection stays without a gap when nothing new is retained and     *)
(* what it no longer brings was discarded, or comes after all that is left *)
(* of it.                                                                  *)
LEMMA GaplessStays ==
  ASSUME NEW c \in Connections, NEW n \in Nat, Gapless(c, n), UNCHANGED lastID,
         Kept(c)' \subseteq Kept(c),
         \A e \in Events : Discarded(e) => Discarded(e)',
         Bound(c, n)' \subseteq Bound(c, n),
         serve[c] = "gone" => serve'[c] = "gone" /\ Unread(c, n)' = Unread(c, n),
         \A e \in Bound(c, n) : \/ e \in Bound(c, n)' \/ Discarded(e)'
                                \/ serve'[c] = "gone" /\ \A y \in Unread(c, n)' : ~(e < y)
  PROVE  Gapless(c, n)'
<1> SUFFICES ASSUME NEW e \in Events, Expected(c, n, e)'
             PROVE  e \in Bound(c, n)' \/ Discarded(e)'
  BY DEF Gapless
<1>1. Expected(c, n, e)
  BY DEF Expected
<1>2. serve'[c] = "gone" => \E y \in Unread(c, n)' : e < y
  BY DEF Expected
<1>3. e \in Bound(c, n) \/ Discarded(e)
  BY <1>1 DEF Gapless
<1> QED BY <1>2, <1>3

(* The same with one more event, the greatest of all. *)
LEMMA GaplessGrows ==
  ASSUME NEW c \in Connections, NEW n \in Nat, Gapless(c, n), UNCHANGED lastID, NEW d \in Events,
         Kept(c)' \subseteq Kept(c) \cup {d},
         \A e \in Events : Discarded(e) => Discarded(e)',
         Bound(c, n)' = Bound(c, n) \cup {d},
         serve[c] # "gone", \A e \in Kept(c) \cup {d} : ~(d < e)
  PROVE  Gapless(c, n)'
<1> SUFFICES ASSUME NEW e \in Events, Expected(c, n, e)', e # d
             PROVE  e \in Bound(c, n)' \/ Discarded(e)'
  BY DEF Gapless
<1>1. Expected(c, n, e)
  BY DEF Expected
<1>2. e \in Bound(c, n) \/ Discarded(e)
  BY <1>1 DEF Gapless
<1> QED BY <1>2

LEMMA UnreadSent ==
  ASSUME TypeInv, NEW c \in Connections, NEW n \in Nat, n <= Len(wire[c])
  PROVE  Unread(c, n) \subseteq Sent(c)
<1>1. wire[c] \in Seq(Events)
  BY DEF TypeInv, TypeOK
<1>2. \A k \in (n + 1)..Len(wire[c]) : Has(wire[c], wire[c][k])
  BY <1>1 DEF Has
<1> QED BY <1>1, <1>2, InSet DEF Unread, Sent

LEMMA AllEvents ==
  ASSUME TypeInv, NEW c \in Connections, NEW n \in Nat, n <= Len(wire[c])
  PROVE  Ahead(c, n) \subseteq Events /\ Bound(c, n) \subseteq Ahead(c, n)
<1>1. Unread(c, n) \subseteq Sent(c) /\ Sent(c) \subseteq Events
  BY UnreadSent, LineTypes, InSet DEF Sent
<1>2. Writing(c) \subseteq Events /\ Queued(c) \subseteq Events /\ Targeting(c) \subseteq Events
  BY LineTypes, InSet DEF Writing, InHand, Queued
<1> QED BY <1>1, <1>2 DEF Ahead, Bound

(* The broker. *)
LEMMA BrokerGapless ==
  ASSUME Calm, OrderOK, NEW c \in Connections, NEW n \in Nat, link = c, c # Nobody, read = n,
         Gapless(c, n), BrokerStep, UNCHANGED clientVars
  PROVE  Gapless(c, n)'
<1>1. /\ BrokerOK /\ TypeInv /\ HistoryOK /\ RequestsInOrder /\ AllInOrder /\ InOrder(c)
      /\ [Next]_brokerVars /\ lastID' = lastID /\ held[c] = 0
      /\ n <= Len(wire[c]) /\ serve[c] # "new" /\ wire[c] \in Seq(Events)
  BY DEF OrderOK, BrokerOK, AllInOrder, InOrder, ClientOK, Next, clientVars, TypeInv, TypeOK
<1>2. \A e \in Events : Discarded(e) => Discarded(e)'
  BY <1>1, DiscardedStays
<1>3. held'[c] = 0
  BY <1>1, InOrderStep DEF AllInOrder, InOrder
<1>4. ASSUME Moves(c) PROVE Bound(c, n)' = Bound(c, n) /\ (serve'[c] = "gone" <=> serve[c] = "gone")
                            /\ (serve[c] = "gone" => Unread(c, n)' = Unread(c, n))
  <2>1. Ahead(c, n)' = Ahead(c, n)
    BY <1>1, <1>4, AheadMoves
  <2>2. CASE Rests(c) \/ \E e \in Events : Queues(c, e)
    <3>1. serve'[c] = serve[c] /\ wire'[c] = wire[c]
      BY <2>2 DEF Rests, Queues, Rest, NoWrite
    <3>2. Unread(c, n)' = Unread(c, n)
      BY <3>1, StreamStays
    <3> QED BY <2>1, <3>1, <3>2 DEF Bound
  <2>3. CASE Replays(c) \/ ReplayEnds(c) \/ Takes(c) \/ Flushes(c)
    <3>1. serve[c] # "gone" /\ serve'[c] # "gone"
      BY <2>3 DEF Replays, ReplayEnds, Takes, Flushes, Rest
    <3> QED BY <2>1, <3>1 DEF Bound
  <2> QED BY <1>4, <2>2, <2>3 DEF Moves
<1>5. ASSUME NEW d \in Events, Publish(d) PROVE Gapless(c, n)'
  <2>1. /\ Kept(c)' \subseteq Kept(c) \cup ({d} \cap Wants[c])
        /\ Kept(c) \subseteq Events
    BY <1>1, <1>5, KeptIs
  <2>2. \A e \in Events : pub[e] # "new" => e < d
    BY <1>1, <1>5, PublishedLater
  <2>3. \A e \in Kept(c) : e < d
    <3>1. ASSUME NEW e \in Kept(c) PROVE pub[e] # "new"
      <4>1. e \in Events /\ Has(hist, e)
        BY <1>1, <2>1, InSet DEF Kept, TypeInv, TypeOK
      <4>2. \E j \in 1..Len(recorded) : recorded[j] = e
        BY <1>1, <4>1, HistoryProps DEF Has
      <4> QED BY <1>1, <4>1, <4>2 DEF HistoryOK
    <3> QED BY <2>1, <2>2, <3>1
  <2>4. IF c \in subs /\ d \in Wants[c] THEN Offers(c, d) ELSE Rests(c)
    BY <1>1, <1>5, PublishEffect
  <2>5. CASE c \in subs /\ d \in Wants[c]
    <3>1. serve[c] # "gone" /\ serve'[c] = serve[c]
      BY <2>4, <2>5 DEF Offers, Rest, OrderOK, BrokerOK, OffersOK, OfferOK
    <3>2. Bound(c, n)' = Bound(c, n) \cup {d}
      BY <2>4, <2>5, <3>1, AheadOffered DEF Bound
    <3>3. \A e \in Kept(c) \cup {d} : ~(d < e)
      <4>1. \A e \in Kept(c) : e \in Nat /\ e < d
        BY <2>1, <2>3, EventsAreRanks
      <4>2. d \in Nat
        BY EventsAreRanks
      <4> QED BY <4>1, <4>2
    <3> QED BY <1>1, <1>2, <2>1, <3>1, <3>2, <3>3, GaplessGrows
  <2>6. CASE d \notin Wants[c] \/ c \notin subs
    <3>1. Rests(c)
      BY <2>4, <2>6
    <3>2. /\ Bound(c, n)' = Bound(c, n) /\ (serve'[c] = "gone" <=> serve[c] = "gone")
          /\ serve[c] = "gone" => Unread(c, n)' = Unread(c, n)
      BY <1>4, <3>1 DEF Moves
    <3>3. CASE Kept(c)' \subseteq Kept(c)
      BY <1>1, <1>2, <3>2, <3>3, GaplessStays
    <3>4. CASE ~(Kept(c)' \subseteq Kept(c))
      <4>1. c \notin subs
        BY <2>1, <2>6, <3>4
      <4>2. serve[c] = "gone"
        BY <1>1, <4>1 DEF OrderOK, BrokerOK, OffersOK, OfferOK
      <4>3. \A y \in Unread(c, n) : ~(d < y)
        <5>1. ASSUME NEW y \in Unread(c, n) PROVE y < d
          <6>1. y \in Sent(c)
            BY <1>1, UnreadSent
          <6> QED BY <1>1, <2>2, <6>1, KnownPublished
        <5>2. Unread(c, n) \subseteq Events
          <6>1. Ahead(c, n) \subseteq Events
            BY <1>1, AllEvents
          <6> QED BY <6>1 DEF Ahead
        <5>3. d \in Nat /\ \A y \in Unread(c, n) : y \in Nat
          BY <5>2, EventsAreRanks
        <5> QED BY <5>1, <5>3
      <4> SUFFICES ASSUME NEW e \in Events, Expected(c, n, e)'
                   PROVE  e \in Bound(c, n)' \/ Discarded(e)'
        BY DEF Gapless
      <4>4. e # d
        BY <3>2, <4>2, <4>3 DEF Expected
      <4>5. Expected(c, n, e)
        BY <1>1, <2>1, <3>2, <4>2, <4>4 DEF Expected
      <4> QED BY <1>2, <3>2, <4>5 DEF Gapless
    <3> QED BY <3>3, <3>4
  <2> QED BY <2>5, <2>6
<1>6. CASE \A e \in Events : ~Publish(e)
  <2>1. Kept(c)' = Kept(c)
    BY <1>1, <1>6, KeptIs
  <2>2. Moves(c) \/ Loses(c)
    BY <1>1, <1>6, BrokerEffect
  <2>3. CASE Moves(c)
    BY <1>1, <1>2, <1>4, <2>1, <2>3, GaplessStays
  <2>4. CASE Ends(c)
    <3>1. serve[c] # "gone" /\ serve'[c] = "gone" /\ wire'[c] = wire[c]
      BY <2>4 DEF Ends, NoWrite
    <3>2. Bound(c, n) = Ahead(c, n) /\ Bound(c, n)' = Unread(c, n) /\ Unread(c, n)' = Unread(c, n)
      BY <3>1, StreamStays DEF Bound
    <3>3. ASSUME NEW e \in Ahead(c, n) PROVE e \in Unread(c, n) \/ \A y \in Unread(c, n) : ~(e < y)
      <4>1. \A y \in Unread(c, n) : y \in Sent(c) /\ y \in Nat
        BY <1>1, UnreadSent, AllEvents, EventsAreRanks DEF Ahead
      <4>2. e \in Nat
        BY <1>1, AllEvents, EventsAreRanks
      <4>3. e \notin Unread(c, n) => \A y \in Unread(c, n) : y < e
        BY <1>1, <4>1 DEF InOrder, Lined, Before, Ahead
      <4> QED BY <4>1, <4>2, <4>3
    <3>4. Unread(c, n) \subseteq Ahead(c, n)
      BY DEF Ahead
    <3> QED BY <1>1, <1>2, <2>1, <3>1, <3>2, <3>3, <3>4, GaplessStays
  <2>5. ASSUME NEW d \in Events, Overflows(c, d) PROVE Gapless(c, n)'
    <3>1. serve'[c] = serve[c] /\ wire'[c] = wire[c]
      BY <2>5 DEF Overflows, Rest, NoWrite
    <3>2. Unread(c, n)' = Unread(c, n)
      BY <3>1, StreamStays
    <3>3. CASE serve[c] = "gone"
      <4>1. Bound(c, n)' = Bound(c, n)
        BY <3>1, <3>2, <3>3 DEF Bound
      <4> QED BY <1>1, <1>2, <2>1, <3>1, <3>2, <4>1, GaplessStays
    <3>4. CASE serve[c] # "gone"
      <4>1. PICK h \in Events : LostAt(c, h)' /\ Queued(c) = Queued(c)' \cup {h}
        BY <1>1, <1>3, <2>5, <3>4, OverflowLoses
      <4>2. Discarded(h)'
        BY <4>1, LostIsDiscarded
      <4>3. Writing(c)' = Writing(c) /\ Targeting(c)' = Targeting(c)
        BY <2>5 DEF Overflows, NoRequest, Rest, NoWrite, Writing, InHand
      <4>4. Bound(c, n) = Bound(c, n)' \cup {h}
        BY <3>1, <3>2, <3>4, <4>1, <4>3 DEF Bound, Ahead
      <4> QED BY <1>1, <1>2, <2>1, <3>1, <3>4, <4>2, <4>4, GaplessStays
    <3> QED BY <3>3, <3>4
  <2>6. CASE Flushes(c) /\ wire'[c] = wire[c]
    <3>1. serve[c] # "gone" /\ serve'[c] # "gone"
      BY <2>6 DEF Flushes
    <3>2. PICK h \in Events : LostAt(c, h)' /\ Writing(c) = {h}
      BY <1>1, <1>3, <2>6, DropLoses
    <3>3. Writing(c)' = {} /\ Queued(c)' = Queued(c) /\ Targeting(c)' = Targeting(c)
      BY <1>1, <1>3, <2>6, DropLoses
    <3>4. Discarded(h)'
      BY <3>2, LostIsDiscarded
    <3>5. Unread(c, n)' = Unread(c, n)
      BY <2>6, StreamStays
    <3>6. Bound(c, n) = Bound(c, n)' \cup {h}
      BY <3>1, <3>2, <3>3, <3>5 DEF Bound, Ahead
    <3> QED BY <1>1, <1>2, <2>1, <3>1, <3>4, <3>6, GaplessStays
  <2> QED BY <2>2, <2>3, <2>4, <2>5, <2>6 DEF Loses
<1> QED BY <1>5, <1>6

-----------------------------------------------------------------------------
(* The client. *)
LEMMA OpenGapless ==
  ASSUME Calm, OrderOK, NEW c \in Connections, Open(c)
  PROVE  Gapless(c, 0)'
<1>1. /\ UNCHANGED <<lastID, received>> /\ Register(c, lastID) /\ lastID \in Events \cup {0}
      /\ hist \in Seq(Events)
  BY DEF Open, OrderOK, LastOK, BrokerOK, TypeInv, TypeOK
<1>2. Registers(c, lastID) /\ hist' = hist
  <2>1. Registers(c, lastID)
    BY <1>1, RegisterEffect DEF OrderOK
  <2> QED BY <1>1, <2>1 DEF Register
<1>3. Kept(c)' = Kept(c) /\ Kept(c) \subseteq Events
  BY <1>1, <1>2, InSet DEF Kept
<1>4. Bound(c, 0)' = {e \in Kept(c) : e > lastID /\ lastID # 0}
  <2>1. Unread(c, 0)' = {}
    BY <1>2 DEF Unread, Registers
  <2>2. Writing(c)' = ToSet(replay'[c]) /\ Queued(c)' = {} /\ Targeting(c)' = {}
    BY <1>2, EmptySet DEF Registers, Writing, InHand, Queued
  <2>3. Bound(c, 0)' = Ahead(c, 0)'
    BY <1>2 DEF Bound, Registers
  <2>4. Ahead(c, 0)' = ToSet(replay'[c])
    BY <2>1, <2>2 DEF Ahead
  <2> QED BY <1>2, <2>3, <2>4 DEF Registers, Kept
<1> SUFFICES ASSUME NEW e \in Events, Expected(c, 0, e)'
             PROVE  e \in Bound(c, 0)'
  BY DEF Gapless
<1>5. PICK x \in Bound(c, 0)' \cup ({lastID} \ {0}) : x < e
  BY <1>1 DEF Expected
<1>6. e \in Kept(c) /\ e \in Nat
  BY <1>3, EventsAreRanks DEF Expected
<1>7. e > lastID /\ lastID # 0
  <2>1. CASE x = lastID /\ lastID # 0
    BY <1>5, <2>1
  <2>2. CASE x \in Bound(c, 0)'
    <3>1. x \in Nat /\ x > lastID /\ lastID # 0 /\ lastID \in Nat
      BY <1>1, <1>3, <1>4, <2>2, EventsAreRanks
    <3> QED BY <1>5, <1>6, <3>1
  <2> QED BY <1>5, <2>1, <2>2
<1> QED BY <1>4, <1>6, <1>7

(* What the client reads next is the least of what is bound for it. *)
LEMMA NextRead ==
  ASSUME OrderOK, Forward
  PROVE  \E c \in Connections, n \in Nat, f \in Events :
           /\ link = c /\ read = n /\ c # Nobody /\ link' = c /\ read' = n + 1
           /\ received' = Append(received, f) /\ lastID' = f /\ UNCHANGED brokerVars
           /\ Bound(c, n) = Bound(c, n + 1) \cup {f} /\ Bound(c, n) \subseteq Events
           /\ f \in Unread(c, n) /\ Unread(c, n + 1) \subseteq Unread(c, n)
           /\ \A x \in Bound(c, n) : f = x \/ f < x
           /\ Bound(c, n + 1)' = Bound(c, n + 1) /\ Unread(c, n + 1)' = Unread(c, n + 1)
<1>1. PICK c \in Connections, n \in Nat : link = c /\ read = n /\ c # Nobody
  BY DEF Forward, OrderOK, LastOK
<1>2. PICK f \in Events : f = wire[c][n + 1]
  BY <1>1 DEF Forward, OrderOK, BrokerOK, TypeInv, TypeOK
<1>3. /\ n < Len(wire[c]) /\ wire[c] \in Seq(Events) /\ InOrder(c) /\ Increasing(wire[c])
      /\ link' = c /\ read' = n + 1 /\ received' = Append(received, f) /\ lastID' = f
      /\ UNCHANGED brokerVars /\ TypeInv
  BY <1>1, <1>2 DEF Forward, Cursor, OrderOK, BrokerOK, TypeInv, TypeOK, AllInOrder, InOrder
<1>4. /\ f \in Sent(c)
      /\ Unread(c, n) = Unread(c, n + 1) \cup {f} /\ Before({f}, Unread(c, n + 1))
  BY <1>2, <1>3, UnreadShrinks
<1>5. Before({f}, Ahead(c, n + 1)) /\ Ahead(c, n) = Ahead(c, n + 1) \cup {f}
  BY <1>3, <1>4 DEF InOrder, Lined, Before, Ahead
<1>6. /\ Ahead(c, n + 1)' = Ahead(c, n + 1) /\ Unread(c, n + 1)' = Unread(c, n + 1)
      /\ serve' = serve
  BY <1>3 DEF brokerVars, pubVars, Ahead, Unread, Writing, InHand, Queued, Targeting
<1>7. Bound(c, n) = Bound(c, n + 1) \cup {f} /\ Before({f}, Bound(c, n + 1))
  BY <1>4, <1>5 DEF Bound
<1>8. Bound(c, n) \subseteq Events
  <2>1. n <= Len(wire[c])
    BY <1>3
  <2> QED BY <1>3, <2>1, AllEvents
<1>9. \A x \in Bound(c, n) : f = x \/ f < x
  BY <1>7 DEF Before
<1>10. Bound(c, n + 1)' = Bound(c, n + 1)
  BY <1>6 DEF Bound
<1> QED BY <1>1, <1>3, <1>4, <1>6, <1>7, <1>8, <1>9, <1>10

LEMMA ForwardComplete ==
  ASSUME Calm, OrderOK, CompleteOK, Forward
  PROVE  CompleteOK'
<1>1. PICK c \in Connections, n \in Nat, f \in Events :
           /\ link = c /\ read = n /\ c # Nobody /\ link' = c /\ read' = n + 1
           /\ received' = Append(received, f) /\ lastID' = f /\ UNCHANGED brokerVars
           /\ Bound(c, n) = Bound(c, n + 1) \cup {f} /\ Bound(c, n) \subseteq Events
           /\ f \in Unread(c, n) /\ Unread(c, n + 1) \subseteq Unread(c, n)
           /\ \A x \in Bound(c, n) : f = x \/ f < x
           /\ Bound(c, n + 1)' = Bound(c, n + 1) /\ Unread(c, n + 1)' = Unread(c, n + 1)
  BY NextRead
<1>2. /\ \A e \in Events : Discarded(e) => Discarded(e)'
      /\ \A d \in Connections : Kept(d)' = Kept(d) /\ Kept(d) \subseteq Events
      /\ serve' = serve
  <2>1. BrokerOK /\ RequestsInOrder /\ AllInOrder /\ [Next]_brokerVars /\ TypeInv
    BY <1>1 DEF OrderOK, BrokerOK
  <2>2. hist' = hist /\ serve' = serve
    BY <1>1 DEF brokerVars
  <2> QED BY <2>1, <2>2, DiscardedStays, KeptIs DEF Kept
<1>3. Gapless(c, n)
  BY <1>1 DEF CompleteOK, AheadOK
<1>4. f \in Nat /\ f # 0
  BY EventsAreRanks
<1>5. Gapless(c, n + 1)'
  <2> SUFFICES ASSUME NEW e \in Events, Expected(c, n + 1, e)'
               PROVE  e \in Bound(c, n + 1)' \/ Discarded(e)'
    BY DEF Gapless
  <2>1. PICK x \in Bound(c, n) : x < e
    BY <1>1 DEF Expected
  <2>2. Expected(c, n, e)
    <3>1. e \in Kept(c)
      BY <1>2 DEF Expected
    <3>2. serve[c] = "gone" => \E y \in Unread(c, n) : e < y
      BY <1>1, <1>2 DEF Expected
    <3> QED BY <2>1, <3>1, <3>2 DEF Expected
  <2>3. e # f
    <3>1. x \in Nat /\ e \in Nat /\ (f = x \/ f < x)
      BY <1>1, EventsAreRanks
    <3> QED BY <1>4, <2>1, <3>1
  <2>4. e \in Bound(c, n) \/ Discarded(e)
    BY <1>3, <2>2 DEF Gapless
  <2> QED BY <1>1, <1>2, <2>3, <2>4
<1>6. AheadOK'
  BY <1>1, <1>5 DEF AheadOK
<1>7. received \in Seq(Events) /\ lastID = IF received = <<>> THEN 0 ELSE received[Len(received)]
  BY DEF OrderOK, ClientOK
<1>8. /\ ToSet(received') = ToSet(received) \cup {f}
      /\ received = <<>> => received'[1] = f
      /\ received # <<>> => received'[1] = received[1]
  <2>1. ToSet(received') = ToSet(received) \cup {f}
    <3>1. PICK t : t = received'
      OBVIOUS
    <3>2. t = Append(received, f)
      BY <1>1, <3>1
    <3>3. ToSet(t) = ToSet(received) \cup {f}
      BY <1>7, <3>2, AppendSet
    <3> QED BY <3>1, <3>3
  <2>2. received = <<>> => received'[1] = f
    BY <1>1
  <2>3. received # <<>> => received'[1] = received[1]
    BY <1>1, <1>7
  <2> QED BY <2>1, <2>2, <2>3
<1>9. ASSUME NEW d \in Connections, NEW e \in Kept(d), received'[1] < e, e <= f
      PROVE  e \in ToSet(received') \/ Discarded(e)'
  <2>1. e \in Events /\ e \in Nat /\ e \in Kept(c)
    <3>1. e \in Events
      BY <1>2
    <3>2. Wants[c] = Wants[d]
      BY OneSubscription
    <3> QED BY <3>1, <3>2, EventsAreRanks DEF Kept
  <2>2. received # <<>>
    BY <1>4, <1>8, <1>9, <2>1
  <2>3. lastID \in Nat /\ lastID # 0
    <3>1. Len(received) \in 1..Len(received)
      BY <1>7, <2>2
    <3>2. lastID \in Events
      BY <1>7, <2>2, <3>1
    <3> QED BY <3>2, EventsAreRanks
  <2>4. CASE e <= lastID
    <3>1. e \in ToSet(received) \/ Discarded(e)
      BY <1>8, <1>9, <2>2, <2>4 DEF CompleteOK, BehindOK
    <3> QED BY <1>2, <1>8, <2>1, <3>1
  <2>5. CASE e = f
    BY <1>8, <2>5
  <2>6. CASE lastID < e /\ e < f
    <3>1. Expected(c, n, e)
      BY <1>1, <2>1, <2>3, <2>6 DEF Expected
    <3>2. e \notin Bound(c, n)
      <4>1. ~(f = e \/ f < e)
        BY <1>4, <2>1, <2>6
      <4> QED BY <1>1, <4>1
    <3> QED BY <1>2, <1>3, <2>1, <3>1, <3>2 DEF Gapless
  <2> QED BY <1>4, <1>9, <2>1, <2>3, <2>4, <2>5, <2>6
<1>10. BehindOK'
  BY <1>1, <1>2, <1>9 DEF BehindOK
<1> QED BY <1>6, <1>10 DEF CompleteOK

(* All steps but a read leave what is behind the client as it was. *)
LEMMA BehindStays ==
  ASSUME Calm, OrderOK, BehindOK, [Next]_brokerVars, UNCHANGED <<lastID, received>>
  PROVE  BehindOK'
<1>1. BrokerOK /\ RequestsInOrder /\ AllInOrder /\ TypeInv /\ HistoryOK
  BY DEF OrderOK, BrokerOK
<1>2. \A e \in Events : Discarded(e) => Discarded(e)'
  BY <1>1, DiscardedStays
<1> SUFFICES ASSUME received # <<>>, NEW c \in Connections, NEW e \in Kept(c)',
                    received[1] < e, e <= lastID
             PROVE  e \in ToSet(received) \/ Discarded(e)'
  BY DEF BehindOK
<1>3. lastID \in Events /\ pub[lastID] # "new"
  <2>1. received \in Seq(Events) /\ lastID = received[Len(received)]
    BY DEF OrderOK, ClientOK
  <2>2. Len(received) \in 1..Len(received)
    BY <2>1
  <2>3. lastID \in Events
    BY <2>1, <2>2
  <2> QED BY <2>3, EventsAreRanks DEF OrderOK, ClientOK
<1>4. ASSUME NEW d \in Events, Publish(d) PROVE Kept(c)' \subseteq Kept(c) \cup {d} /\ e # d
  <2>1. lastID < d
    BY <1>1, <1>3, <1>4, PublishedLater
  <2>2. lastID \in Nat /\ d \in Nat
    BY <1>3, EventsAreRanks
  <2>3. e # d
    BY <2>1, <2>2
  <2> QED BY <1>1, <1>4, <2>3, KeptIs
<1>5. e \in Kept(c)
  <2>1. CASE \A d \in Events : ~Publish(d)
    BY <1>1, <2>1, KeptIs
  <2> QED BY <1>4, <2>1
<1>6. e \in Events
  BY <1>1, <1>5, KeptIs
<1> QED BY <1>2, <1>5, <1>6 DEF BehindOK

LEMMA CompleteStep ==
  ASSUME Calm, OrderOK, CompleteOK, [SubNext]_subVars
  PROVE  CompleteOK'
<1>1. [Next]_brokerVars
  BY InsideStep DEF OrderOK, BrokerOK
<1>2. ASSUME UNCHANGED <<lastID, received>>, AheadOK' PROVE CompleteOK'
  BY <1>1, <1>2, BehindStays DEF CompleteOK
<1>3. ASSUME NEW c \in Connections, Open(c) PROVE CompleteOK'
  <2>1. Gapless(c, 0)' /\ link' = c /\ read' = 0 /\ UNCHANGED <<lastID, received>>
    BY <1>3, OpenGapless DEF Open
  <2> QED BY <1>2, <2>1 DEF AheadOK
<1>4. CASE Lose
  <2>1. link' = Nobody /\ UNCHANGED <<lastID, received>>
    BY <1>4 DEF Lose
  <2> QED BY <1>2, <2>1 DEF AheadOK
<1>5. CASE BrokerStep /\ UNCHANGED clientVars
  <2>1. UNCHANGED <<link, read, lastID, received>>
    BY <1>5 DEF clientVars
  <2>2. AheadOK'
    BY <1>5, <2>1, BrokerGapless DEF CompleteOK, AheadOK
  <2> QED BY <1>2, <2>1, <2>2
<1>6. CASE UNCHANGED subVars
  <2>1. UNCHANGED <<link, read, lastID, received>> /\ UNCHANGED brokerVars
    BY <1>6 DEF subVars, clientVars
  <2>2. AheadOK'
    BY <2>1 DEF CompleteOK, AheadOK, Gapless, Expected, Kept, Bound, Ahead, Unread, Writing, InHand,
                Queued, Targeting, Discarded, brokerVars, pubVars
  <2> QED BY <1>2, <2>1, <2>2
<1> QED BY <1>3, <1>4, <1>5, <1>6, ForwardComplete DEF SubNext, AllUsed

(* The events since the first one handed over are those with a greater id. *)
LEMMA SinceFirstIs ==
  ASSUME OrderOK, NEW e \in ToSet(hist), SinceFirst(e)
  PROVE  received # <<>> /\ received[1] < e
<1>1. PICK f : f = received[1]
  OBVIOUS
<1>2. /\ received # <<>> /\ Position(e) > Position(f)
      /\ received \in Seq(Events) /\ Increasing(received)
      /\ lastID = received[Len(received)]
      /\ hist \in Seq(Events) /\ TypeInv /\ HistoryOK /\ Increasing(recorded)
      /\ lastID # 0 => pub[lastID] # "new"
  BY <1>1 DEF SinceFirst, OrderOK, ClientOK, BrokerOK, TypeInv, TypeOK, RequestsInOrder
<1>3. 1 \in 1..Len(received) /\ Len(received) \in 1..Len(received)
  BY <1>2
<1>4. f \in Events /\ lastID \in Events /\ (f = lastID \/ f < lastID)
  BY <1>1, <1>2, <1>3 DEF Increasing
<1>5. pub[f] # "new"
  <2>1. pub[lastID] # "new"
    BY <1>2, <1>4, EventsAreRanks
  <2> QED BY <1>4, <2>1 DEF OrderOK, RequestsInOrder
<1>6. \E i \in 1..Len(recorded) : recorded[i] = f
  BY <1>2, <1>4, <1>5 DEF HistoryOK
<1>7. \E i \in 1..Len(recorded) : recorded[i] = e
  <2>1. Has(hist, e)
    BY <1>2, InSet
  <2> QED BY <1>2, <2>1, HistoryProps DEF Has
<1>8. /\ Position(f) \in 1..Len(recorded) /\ recorded[Position(f)] = f
      /\ Position(e) \in 1..Len(recorded) /\ recorded[Position(e)] = e
  BY <1>6, <1>7 DEF Position
<1>9. Position(f) < Position(e)
  BY <1>2, <1>8
<1>10. f < e
  BY <1>2, <1>8, <1>9 DEF Increasing
<1> QED BY <1>1, <1>2, <1>10

(* eventbus/doc.go: a subscriber that reconnects "resumes without losing   *)
(* messages inside the retention window".  If publishers do not race and   *)
(* no fault repeats or reorders events, every retained event since the     *)
(* client's first is handed over, discarded or dropped, or replayed when   *)
(* it reconnects, for any number of reconnections, any queues, history and *)
(* drops.                                                                  *)
THEOREM ResumeLosesNothingHolds ==
  ASSUME Calm
  PROVE  SubSpec => ResumeLosesNothing
<1>1. SubInit => CompleteOK
  BY DEF SubInit, CompleteOK, AheadOK, BehindOK
<1>2. OrderOK /\ CompleteOK /\ [SubNext]_subVars => CompleteOK'
  BY CompleteStep
<1>3. ASSUME OrderOK, CompleteOK, NEW c \in Connections, Open(c), lastID # 0,
             NEW e \in ToSet(hist), e \in Wants[c], SinceFirst(e), e \notin ToSet(received),
             ~Discarded(e)
      PROVE  e \in snapshot'[c]
  <2>1. received # <<>> /\ received[1] < e /\ e \in Kept(c)
    BY <1>3, SinceFirstIs DEF Kept
  <2>2. ~(e <= lastID)
    BY <1>3, <2>1 DEF CompleteOK, BehindOK
  <2>3. lastID \in Events /\ hist \in Seq(Events)
    BY <1>3 DEF OrderOK, LastOK, BrokerOK, TypeInv, TypeOK
  <2>4. e \in Events
    BY <2>3, InSet
  <2>5. e > lastID
    <3>1. e \in Nat /\ lastID \in Nat
      BY <2>3, <2>4, EventsAreRanks
    <3> QED BY <2>2, <3>1
  <2>6. Register(c, lastID)
    BY <1>3 DEF Open
  <2>7. e \in ToSet(replay'[c])
    <3>1. Registers(c, lastID)
      BY <2>3, <2>6, <1>3, RegisterEffect DEF OrderOK
    <3> QED BY <1>3, <2>5, <3>1 DEF Registers
  <2>8. snapshot'[c] = ToSet(replay'[c])
    BY <1>3, <2>6 DEF Register, OrderOK, BrokerOK, TypeInv, TypeOK
  <2> QED BY <2>7, <2>8
<1>4. ASSUME OrderOK, CompleteOK, [SubNext]_subVars, link = Nobody, link' # Nobody, lastID # 0,
             NEW e \in ToSet(hist), e \in Wants[link'], SinceFirst(e), e \notin ToSet(received),
             ~Discarded(e)
      PROVE  e \in snapshot'[link']
  <2>1. PICK c \in Connections : Open(c)
    BY <1>4 DEF SubNext, Forward, Lose, AllUsed, subVars, clientVars
  <2>2. link' = c
    BY <2>1 DEF Open
  <2> QED BY <1>3, <1>4, <2>1, <2>2
<1>5. OrderOK /\ CompleteOK /\ [SubNext]_subVars =>
        [link = Nobody /\ link' # Nobody /\ lastID # 0 =>
           \A e \in ToSet(hist) :
              e \in Wants[link'] /\ SinceFirst(e) /\ e \notin ToSet(received) /\ ~Discarded(e)
              => e \in snapshot'[link']]_subVars
  BY <1>4
<1>6. SubSpec => []OrderOK
  BY OrderHolds
<1> QED BY <1>1, <1>2, <1>5, <1>6, PTL DEF SubSpec, ResumeLosesNothing
=============================================================================
