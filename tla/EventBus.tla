------------------------------ MODULE EventBus ------------------------------
(***************************************************************************)
(* What the event bus promises one subscriber, if publishers do not race   *)
(* and no fault is injected: events arrive in the order of their ids and   *)
(* once.  What is missing between two of them was taken out of a full      *)
(* queue, or had left the retention window by the time of a reconnect; on  *)
(* an open connection the newest event is never the one taken out.         *)
(*                                                                         *)
(* It does not promise to make up for a connection that fails before an    *)
(* event was handed over: there is nothing to resume after then, and the   *)
(* next connection starts with what is published after it was made.        *)
(***************************************************************************)
EXTENDS Naturals, Sequences, SequencesExt, FiniteSetsExt

CONSTANTS Events,   \* what can be published, as ranks in the order of ids
          Wanted,   \* the events of the types subscribed to
          Window    \* how many events the bus retains

VARIABLES
  accepted,   \* every event the bus has accepted, in that order
  kept,       \* those it retains
  open,       \* the connection: "none", "live", or "broken" at the far end
  feed,       \* what is bound to arrive over it
  got         \* what the subscriber was handed, in that order

busVars == <<accepted, kept, open, feed, got>>

Init == accepted = <<>> /\ kept = {} /\ open = "none" /\ feed = {} /\ got = <<>>

Accept ==
  /\ \E e \in Events :
       /\ \A d \in ToSet(accepted) : d < e
       /\ accepted' = Append(accepted, e)
       /\ kept' = {d \in kept \cup {e} : Quantify(kept \cup {e}, LAMBDA x : x > d) < Window}
       /\ feed' = IF open = "live" /\ e \in Wanted THEN feed \cup {e} ELSE feed
  /\ UNCHANGED <<open, got>>

(* The resume point is the last event handed over. *)
Connect ==
  /\ open = "none" /\ open' = "live"
  /\ feed' = {e \in kept \cap Wanted : got # <<>> /\ e > Last(got)}
  /\ UNCHANGED <<accepted, kept, got>>

Deliver ==
  /\ feed # {}
  /\ got' = Append(got, Min(feed)) /\ feed' = feed \ {Min(feed)}
  /\ UNCHANGED <<accepted, kept, open>>

(* A full queue: never its newest event. *)
Lag ==
  /\ open = "live"
  /\ \E e \in feed : e # Max(feed) /\ feed' = feed \ {e}
  /\ UNCHANGED <<accepted, kept, open, got>>

(* The stream is cut; what was sent before may still be read. *)
Break ==
  /\ open # "none" /\ open' = "broken"
  /\ feed' \in {{e \in feed : e < bound} : bound \in feed} \cup {feed}
  /\ UNCHANGED <<accepted, kept, got>>

HangUp ==
  /\ open # "none" /\ open' = "none" /\ feed' = {}
  /\ UNCHANGED <<accepted, kept, got>>

(* The history of the bus and the resume point of the subscriber live in   *)
(* memory.                                                                 *)
BusRestarts ==
  /\ kept' = {}
  /\ open' = IF open = "live" THEN "broken" ELSE open
  /\ feed' \in {{e \in feed : e < bound} : bound \in feed} \cup {feed}
  /\ UNCHANGED <<accepted, got>>

SubscriberRestarts ==
  /\ got' = <<>> /\ open' = "none" /\ feed' = {}
  /\ UNCHANGED <<accepted, kept>>

Next ==
  \/ Accept \/ Connect \/ Deliver \/ Lag \/ Break \/ HangUp
  \/ BusRestarts \/ SubscriberRestarts

Spec == Init /\ [][Next]_busVars
=============================================================================
