-------------------------- MODULE BusSubscription ---------------------------
(***************************************************************************)
(* One client subscription over the broker (internal/eventbus/client.go):  *)
(* its goroutine reads the stream, hands every event to the consumer, and  *)
(* when the connection is gone opens another one, asking for what came     *)
(* after the last event it has handed over.                                *)
(*                                                                         *)
(* What the broker has written but the client has not read is lost with    *)
(* the connection.  The broker may notice the loss later than the client.  *)
(* Failed attempts to connect and the back-off between attempts only take  *)
(* time.                                                                   *)
(***************************************************************************)
EXTENDS Broker

ASSUME OneSubscription == \A c, d \in Connections : Wants[c] = Wants[d]

VARIABLES
  link,      \* the open connection, if any
  read,      \* how much of its stream has been read
  lastID,    \* the id of the last event handed over
  received   \* the events handed over, in order

clientVars == <<link, read, lastID, received>>
subVars    == <<brokerVars, clientVars>>

(* A fresh subscription without ResumeFrom, as both services make it. *)
SubInit == BrokerInit /\ link = Nobody /\ read = 0 /\ lastID = 0 /\ received = <<>>

(* Subscribe at first, run later: resume from the last id. *)
Open(c) ==
  /\ link = Nobody
  /\ Register(c, lastID)
  /\ link' = c /\ read' = 0
  /\ UNCHANGED <<lastID, received>>

(* One turn of pump. *)
Cursor(e) == lastID' = e

Forward ==
  /\ link # Nobody /\ read < Len(wire[link])
  /\ LET e == wire[link][read + 1]
     IN received' = Append(received, e) /\ Cursor(e)
  /\ read' = read + 1
  /\ UNCHANGED <<brokerVars, link>>

(* End of stream, a read error or the idle watchdog. *)
Lose ==
  /\ link # Nobody
  /\ link' = Nobody /\ read' = 0
  /\ UNCHANGED <<brokerVars, lastID, received>>

AllUsed ==
  /\ \A c \in Connections : serve[c] = "gone"
  /\ \A e \in Events : pub[e] = "done"
  /\ link = Nobody
  /\ UNCHANGED subVars

SubNext ==
  \/ \E c \in Connections : Open(c)
  \/ Forward \/ Lose
  \/ BrokerStep /\ UNCHANGED clientVars
  \/ AllUsed

SubSpec == SubInit /\ [][SubNext]_subVars

-----------------------------------------------------------------------------
Position(e) == CHOOSE i \in 1..Len(recorded) : recorded[i] = e

(* The first event ever handed over: what was published before it, the     *)
(* subscription may never have been there for.                             *)
SinceFirst(e) == received # <<>> /\ Position(e) > Position(received[1])

(* The event was taken from a connection's queue to make room or dropped   *)
(* by fault injection.                                                     *)
Discarded(e) ==
  \E c \in Connections :
     /\ e \in live[c] /\ c \notin targets[e] /\ e \notin ToSet(queue[c])
     /\ e \notin ToSet(wire[c]) /\ e \notin {cur[c], held[c]}

(* eventbus/doc.go: a subscriber that reconnects "resumes without losing   *)
(* messages inside the retention window".  So when a connection is opened  *)
(* with a resume point, every retained event published since the client's  *)
(* first one that it has not received, and that was not discarded, is      *)
(* going to be replayed.                                                   *)
ResumeLosesNothing ==
  [][link = Nobody /\ link' # Nobody /\ lastID # 0 =>
       \A e \in ToSet(hist) :
          e \in Wants[link'] /\ SinceFirst(e) /\ e \notin ToSet(received) /\ ~Discarded(e)
          => e \in snapshot'[link']]_subVars

(* Without the duplicate fault, reconnecting does not deliver an event     *)
(* again: the resume point is exactly the last event handed over.          *)
NothingTwice ==
  \A i, j \in 1..Len(received) : received[i] = received[j] => i = j

(* What the open connection will still bring: what its goroutine holds at  *)
(* the broker, what a publisher is about to queue for it, and what is      *)
(* written but not read.                                                   *)
Coming ==
  IF link = Nobody THEN {}
  ELSE ToSet(SubSeq(wire[link], read + 1, Len(wire[link])))
       \cup IF serve[link] = "gone" THEN {}
            ELSE ToSet(replay[link]) \cup ToSet(queue[link])
                 \cup ({cur[link], held[link]} \ {0})
                 \cup {e \in Events : link \in targets[e]}

Contract == INSTANCE EventBus WITH
  Wanted   <- Wants[CHOOSE c \in Connections : TRUE],
  Window   <- History,
  accepted <- recorded,
  kept     <- ToSet(hist),
  open     <- IF link = Nobody THEN "none"
              ELSE IF serve[link] = "gone" THEN "broken" ELSE "live",
  feed     <- Coming,
  got      <- received

(* With publishers that do not race, one subscription is an EventBus,      *)
(* however publishing, fan-out, replay and reconnecting interleave: order  *)
(* and resumption as eventbus/doc.go describes them, and no loss beyond    *)
(* lag, eviction and a connection without a resume point.                  *)
ImplementsEventBus == Contract!Spec
=============================================================================
