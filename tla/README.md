# Verification of the building access control

TLA+ models of the services in this repository, TLC runs that check them on
small instances, and TLAPS proofs of what matters most for every instance.
`PROJECT.json` lists the runs, the source lines of every definition, the
hazards and the theorems.

## The system

A badge read at a door becomes a decision, a command, a write to the building
simulator and a report back:

    badge.read ──> decision agent ──access.decision, door.command──> bus
    bus ──door.command──> door actuator ──POST/GET/PUT──> BuildSim
    door actuator ──door.state──> bus ──> decision agent

| Component (source) | State | Operations | Correct if |
|---|---|---|---|
| dedupe set (`internal/dedupe`) | FIFO slice and map of ids | Seen, Add, SeenOrAdd | both fields agree; an id is forgotten only because `capacity` newer ones came |
| baseline policy (`internal/policy`, `model/policy_config.go`) | none; reads a configuration | Decide, Validate, Contains | a door is unlocked only for a listed card inside its window; restriction changes nothing but the alert |
| decision agent (`internal/decisionagent`, `cmd/decision-agent`) | handled ids, newest occupancy per room, newest door.state per door | one handler per event type, two publishes | one decision per read while the id is remembered; no command without its decision; views do not depend on arrival order |
| door actuator (`internal/dooractuator`, `cmd/door-actuator`) | `ready`, `current` (the whole equipment), handled ids | EnsureReady, Handle, applyLock with retries and recreation | reports are facts; versions do not go back; the door opens only on command; handling ends |
| BuildSim client (`internal/buildsim`) | none; the external server holds the equipment | Create, Get, Put, Ensure | see the actuator |
| broker (`internal/eventbus/broker.go`, `ring.go`, `faults.go`) | subscribers, history ring, a queue per subscriber, counters, a held event per subscriber | publish, subscribe, injected faults | publishing never blocks; no event vanishes uncounted or falls between history and queue; the reorder fault is bounded |
| bus client (`internal/eventbus/client.go`) | connection, last id, back-off, watchdog, terminal error | Publish, Subscribe, run and pump, Close | a reconnect loses nothing retained and repeats nothing; a quiet stream stays open; a cancelled service ends |
| SSE framing (`internal/eventbus/sse.go`) | the decoder's record in progress | writeSSEEvent, writeSSEComment, next | a heartbeat counts, half a record does not |
| bus process (`cmd/eventbus`) | running, draining | start, SIGTERM, being killed | what it runs with is usable; its restart takes the history and breaks no promise |
| configuration (`eventbus/brokerconfig.go`, `eventbus/config.go`, `buildsim/config.go`) | none after start-up | one reader per process | what runs is usable |
| building mapping (`model/mapping.go`) | constant tables | LookupDoor, Validate | the tables agree |
| ULIDs (`model/ulid.go`) | none | NewULID, ValidULID, ULIDTime | valid, distinct, sorted by time |
| envelope (`model/envelope.go`), probe (`cmd/buildsim-probe`) | none | | see Not modelled |

Goroutines: the agent and the actuator are one goroutine each, so their hard
behaviours come from what happens between two calls they make: the bus
redelivers and reorders, a publish fails or succeeds unnoticed, BuildSim
executes a request that timed out or forgets the equipment, the process is
killed. The broker runs one goroutine per request; its publishers and
subscription loops meet in bounded channels outside the mutex. A service that
subscribes has a second goroutine, which reads the stream and hands events to
the main loop one by one, a timer that closes the stream behind its back, and
a context that is cancelled at any moment.

## Modules

| Module | Models | Uses |
|---|---|---|
| `DoorLock` | abstract: what is promised of a door | |
| `EventBus` | abstract: what the bus promises a subscriber | |
| `Dedupe` | the operations of the set, as operators on a record | |
| `DedupeSet` | one set under an arbitrary stream of ids | `Dedupe` |
| `Policy` | `Decide` and the configuration, as operators | |
| `PolicyDecisions` | every request against every configuration | `Policy` |
| `BuildSim` | the server's equipment of one door and the outcomes of one HTTP call | |
| `DoorActuator` | the actuator process | `BuildSim`, `Dedupe`; implements `DoorLock` |
| `DecisionAgent` | the agent process | `Policy`, `Dedupe` |
| `Broker` | the bus server | |
| `BusSubscription` | one client subscription over the broker | `Broker`; implements `EventBus` |
| `Ulid` | minting, encoding and reading ids, bit by bit | |
| `MintedIds` | a dedupe set under the ids that producers mint | `DedupeSet`, `Ulid` |
| `Wire` | the lines of the event stream and their decoder | |
| `EnvConfig` | what each process makes of its environment | |
| `BuildingMapping` | the tables of rooms and doors | |
| `BusClient` | a service's life with its subscription, the stream, the bus process | `Wire`, `EnvConfig`, `BuildingMapping`; implements `EventBus` |
| `AccessLoop` | agent, actuator and BuildSim over the bus as `eventbus/doc.go` specifies it | extends `DoorActuator`, an INSTANCE of `DecisionAgent`; implements `DoorLock` |
| `*Proofs` | theorems | the module they are named after; `PolicyProofs` is about `PolicyDecisions`, and `AccessLoopProofs` begins with the theorems of `DoorActuator` |
| `MC*` | constants for TLC | the module they are named after |

Faulty variants of a definition (`Add_EvictsEarly`, `Blank_Unlocked`, ...)
stand before the definition. No specification uses them: they are plausible
bugs, and replacing the definition by its variant makes the property listed
with it in `PROJECT.json` fail.

### DoorActuator and BuildSim

`pc` says where the goroutine waits. `Handle` is cut at every call to BuildSim
or the bus: `Dispatch` (actuator.go:141-150), `Admit` (152-171: SeenOrAdd, the
no-op test, the start of applyLock), `CreateEquipment` and `GetEquipment`
(EnsureEquipment, called for warm-up, for readiness or after a 404: `why`),
`PutEquipment` with `NextAttempt` (one turn of the loop 189-219), `Emit`.
`Restart` is a killed or cancelled process: memory is lost, BuildSim and the
bus keep what they have; `Boot` includes the warm-up call of `main`. The set of
handled ids starts empty, but the history `admitted` of all commands ever taken
as new goes on, and `booted` marks where the present process began in it: what
is said of redeliveries is said across restarts, with the restart as a named
exception. The agent has the same two. A back-off
wait is no step, since nothing but time passes.

An equipment is its lock, its contact and its version. The server's `log` holds
what was written at each version. A call is answered, refused, or given up; a
request given up was lost or sits in `inflight` until the server executes it,
or never. `Forget` is the 404 case `actuator.go:205` handles. How the server
stamps and answers is not in this repository and is taken from what the client
does with it. Only this door's writes are counted as versions; gaps would
change nothing that is stated.

### DecisionAgent

`ReceiveBadge` is `handleBadge` up to its first publish, `PublishDecision` and
`PublishCommand` the two calls of the bus with what follows them. A failed
publish may have reached the bus. The decision goes out before the door's
state is looked at, and the view cannot change meanwhile because the goroutine
is busy. `ReceiveOccupancy` and `ReceiveDoorState` are the other handlers.
`minted` is one number for the two ids the handler mints.

### Broker and BusSubscription

`Publish` is the critical section of `publish`; `TrySend`, `DiscardOldest` and
`Resend` are the channel operations after it, one step each, so that requests
race for a queue the way goroutines do. `targets` is the slice each request
works off, in any order, as ranging over the map yields it. `Register` is the
critical section of `handleSubscribe`; `Replay`, `Take`, `Release`,
`FlushCur` and `FlushHeld` are its loop. An event is the rank of its id. A
request can carry any id regardless of when it reaches the broker: publishers
mint ids on their own. `live`, `taken`, `since`, `snapshot` and `recorded` are
history variables. `ReplayIsExact` compares what a registration with a resume
point is replayed with `recorded`, everything ever published, and not with the
ring. With `Sequential` a publisher waits until the request before it is done and
its id is greater than those before. That is more than not racing: two ids minted
in the same millisecond are not in the order of their requests.

What was retained and what a connection asked for is picked out of the history by
`Filter`, written as a recursive function because the prover loses its main
backend in a module with a RECURSIVE operator. `CountersAddUp` counts pairs of a
connection and an event, not sums over queues, for the same reason: facts about
cardinalities can be cited, an induction over a fold cannot.

The client adds the connection it reads, how far it has read, and the cursor.
A connection is lost at any moment, and the broker may notice later.

### BusClient, Wire and EnvConfig

`BusSubscription` looks at the broker's races and lets a connection be lost at
any moment. `BusClient` looks at why it is lost and what the rest of the
process does meanwhile; its broker only retains, replays and writes.

`wire` holds the lines written and not yet read. `Cut` leaves a prefix of
them, so that a connection breaks between any two lines of a record. `ReadRecord`
is one successful `next` (client.go:214-235), `StreamEnds` an unsuccessful one,
`HandOver` the send to the main loop with the move of the resume point
(236-238), `PumpCancelled` the other branch of that select and the cancelled
read, `Retry` the wait (174-183), `Reopen` the attempt to connect (185-195).
`Leaves` and `ServiceExits` are the main loop of `run` and the deferred
`Close`, which waits for the goroutine. The bus is `BusConfigures`,
`BusListens`, `BusTerminated` and `BusDrained` (cmd/eventbus/main.go:43-89; the ten
seconds of `Shutdown` are not counted), or is killed; its history goes with it.

A replay is written as the newest events accepted, as many as are replayed:
`kept` is always the end of `accepted`, and the order is that of publication.

`Wire` keeps what is needed to tell a record from a heartbeat, half a record
and too long a record: the field of each line and the length of the record up
to it. `next` is the loop of `sseDecoder.next` as a search for the first line
that ends it.

`EnvConfig` keeps for each setting whether it is unset, malformed, NaN or a
number, and every refusal and replacement. `Wrapped` is the multiplication in
`FAULT_DELAY_MS`, with the width scaled down.

Time is a count of ticks since the last heartbeat and since the watchdog's
last reset. `Tick` is enabled only when the goroutine has nothing to do:
reading what has arrived takes no time compared with a heartbeat interval,
handling an event may take any.

### The abstract modules

`EventBus` is one subscriber's view: the events accepted and retained, whether
a connection is live, what is bound to arrive over it, and what was handed
over. `Lag` says what a full queue may lose (never the newest event), `Break`
what a cut may lose (the later part), `BusRestarts` and `SubscriberRestarts`
what a crash forgets. `BusSubscription` implements it with the detailed broker
(queues, publishers between two steps, replay), `BusClient` with the stream
(half-written records, the event in hand). `DoorLock` is the door's view: the
positions of the lock, who may ask for one, what was announced. The actuator
implements it with the command in hand and abandoned requests as the asking;
the loop implements it with what is `Sanctioned`: the position of the command in
hand, if the decision with its id is on the bus, is for this door and wants that
position, and the positions of abandoned PUTs, if some published decision for
this door wanted them. So the lock may still be moved by an abandoned write, a
redelivery or a command that was overtaken (see Findings), but by nothing
undecided, and when none of these is there it does not move. That an open door is
ever locked again is not promised.

### Ulid

Ids are made of bytes, and the bytes written in base 32 by the shifting loop of
`encodeBase32` over two 64-bit words. A word is the sequence of its 64 bits, so
that a shift is one of bits and what it pushes out is lost. The two loops of the
code are recursive functions over their turns (`Turn` is one turn of the first).
`MintedIds` makes the ids of `DedupeSet` such ULIDs, of any instant and any
randomness.

### AccessLoop

The bus is its contract: what it accepted may be delivered any time later, any
number of times, in any order or never. It contains every behaviour of the
broker with its faults; the detailed broker is checked by itself.

The actuator's variables are those of `DoorActuator`; the agent's are renamed.
A step is a step of one service with the other's state unchanged: the two meet
in `commands` (delivered to the actuator) and `published` (delivered to the
agent). A badge.read may be at another door than the actuator's, so that there
are decisions and commands which are none of its business.

## Runs

| Run | Question | Bounds |
|---|---|---|
| `dedupe` | do slice, map and window hold for every stream, and do ids sort by time? | 4 ids (2 instants, smallest and largest randomness), capacity 2, 6 insertions |
| `actuator_faults` | facts, versions, unlocks, duplicates, termination and the abstract door under every failure | 3 commands (one of another door), 2 deliveries, 1 retry, 1 request in flight, 1 forget, 1 crash |
| `actuator_memory` | finding 1 | 2 deliveries |
| `actuator_applied` | finding 2 | 2 deliveries |
| `policy` | boundaries and malformed windows | 10 endpoints (valid, out of range, unreadable) in every pairing, 8 times around the boundaries |
| `agent` | order and repetition of events, partial failure, crash | 5 deliveries, 1 crash |
| `broker_faults` | races of publishers, registration and loss of the connection, with drop, duplicate and reorder together; is a replay exact; does a request end without a reader, does a held event leave? | 4 requests, 1 connection, queue of 1, history of 2 |
| `subscription_ordered` | is resuming exact when ids arrive in order; do broker and client implement `EventBus`? | 4 events, 2 connections, history of 2 |
| `subscription_resume` | finding 3 | 3 events, 2 connections |
| `stream` | do stream, client and restarts implement `EventBus`, and skip nothing that is retained; does the service recover, does it end when cancelled, do settings do no harm? | 3 events (the second too long), history of 2, 2 troubles, heartbeat of 1 tick, patience of 2, 9 bus and 7 service environments |
| `loop_faults` | is every opening of the door justified? is the agent's view a fact? does the loop implement `DoorLock`? | 3 badges (an allowed one, a refused one, an allowed one at another door), 2 deliveries to each service, 1 crash each, 1 retry, 1 request in flight, 1 forget |
| `loop_order` | finding 4 | 4 deliveries to the agent, 3 to the actuator |

The bounds are the smallest with which each case the code distinguishes occurs:
with one retry there is an attempt that another follows and a last one, and
either may fail in every way; two deliveries are a command and its redelivery or its opposite; queues of one place make every
send a race; a history of two is full when the third event comes; a set of two
ids, and one of one id, evict in the middle of the stream. The budgets only
limit how often the environment acts, never what the program does. Four
requests on one queue of one place include the request that loses its second
send. In `stream` two troubles are a cut or a kill and another during the
recovery; the watchdog, clean ends and every start and end of the service and
the bus that is not forced are not counted. A heartbeat of one tick and a patience of two keep the order of the
defaults (15 s, 45 s), and an environment with a heartbeat of two reverses it.
The second event, at which every connection breaks, leaves the history only with
the process of the bus; with a fourth event, which would evict it, the run takes
too long.
`FailsCounted` ends the count of failed attempts where the back-off has reached
its maximum. A run's deadlock check is on: the end of a bounded behaviour is an explicit action
(`Silent`, `Finished`, `AllUsed`, `Quiet`), except in `stream`, where
processes can always be started again.

### Fairness

- `DoorActuator`: weak fairness of the goroutine's own steps. Each waits for a
  call that carries a time-out (`BUILDSIM_TIMEOUT`, the bus client's). Nothing
  is assumed of deliveries, BuildSim, or restarts.
- `Broker`: only the publish goroutines are sure to run; readers may stop for
  ever. `HeldIsReleased` assumes in its own statement that the loop of the
  connection runs, which its timer and a reader that keeps reading justify.
- `BusClient`: the goroutine of the subscription, the main loop and the timers
  are scheduled; an event is handled in the end, as every call in a handler has
  a time-out. Nothing is assumed of publishers, of the end of `Shutdown`, of the
  network, of whoever starts processes, or of the bus coming back: `ResumedEventsArrive` speaks of times at which bus, network and service
  stay up.

## Findings

Where the code and what the repository says about it part ways, each with a run
that ends in a counterexample.

1. `actuator_memory` - `dooractuator/actuator.go:164` takes a command for a
   no-op by comparing it with memory. When the answer to a PUT is lost, or the
   PUT is executed after the retry loop has ended, memory and BuildSim differ,
   and the command that would repair it is answered `applied=true`.
2. `actuator_applied` - a redelivery of a command all of whose writes failed is
   answered `applied=true` (`actuator.go:154`), though `events.go:109` gives
   `applied=false` the meaning of a failure.
3. `subscription_resume` - the history is replayed by id and filled by arrival
   (`ring.go:42`). With concurrent publishers an event can be inside the
   retention window and be lost on a reconnect.
4. `loop_order` - commands act in the order of arrival (`actuator.go:152`). An
   unlock that is delayed past a later lock opens the door again. The
   `command_id` is a ULID and would tell which was minted first; the actuator
   only looks it up among the handled ones. Those are in memory (`actuator.go:94`),
   so that an unlock delivered again to a restarted actuator undoes a lock in the
   same way; the run stops at the shorter trace, which has no restart.

Three more effects are known and have no run. Whether a command is needed is
decided from the last `door.state` heard (`decisionagent/agent.go:140`), so a
card allowed while a lock command is on its way gets a decision and no unlock.
And no code acts on `ttl_seconds`: a door unlocked for an allow stays so until
a refused badge locks it, which `dooractuator/doc.go` calls deferred although
`baseline.go:10` speaks of a door that relocks on its own.

The third is what a restart does to idempotence. ADR 0003 says that "a duplicate
`badge.read` yields no second decision" (lines 180-181), that the actuator is
"idempotent on `command_id`" (192), and has the tests "assert single decision /
single BuildSim write" (306), without an exception. Both services keep the handled
ids in memory (`agent.go:78`, `actuator.go:94`), so that what is delivered again
after a restart is decided, or carried out, again. `DuplicateNeverDecides` and
`DuplicateNeverWrites` therefore name two exceptions, the restart and the capacity
of the set, and look across restarts otherwise. The second delivery is what the
bus may do by its contract, at-least-once and unordered (`eventbus/doc.go:12`); with
the broker of this repository alone it needs a publisher that sends the same
envelope again, or an old and a new process that overlap, because a restarted
service subscribes without a resume point.

## Proofs

`tlapm` proves, with the assumptions on the constants that the modules state
(no bound on ids, commands, capacities, retries, deliveries, crashes or
requests in flight):

- `DedupeProofs`: lemmas on `Add`. A set whose fields agree keeps them so
  (`AddConsistent`), and holds the newest of the insertions (`AddNewest`). Both
  process proofs reuse them. A set that was made anew holds the newest of the
  insertions since (`Since`, `SinceAppend`); an id it takes as new was inserted
  before that or long ago (`UnseenIsForgotten`), which is what the two properties
  on redeliveries say of the whole history.
- `DedupeSetProofs`: all properties of run `dedupe`. The
  invariant is the conjunction of those about the set with the type invariant: that no
  id repeats within the window follows only from knowing that the set is exactly
  the newest insertions.

  That ids tell their instant (`IdsTellTheirInstant`) is proved for every
  instant that fits 48 bits and every randomness (`InstantsAreBytes`,
  `RandomsAreBytes`), under the hypothesis that the ids are minted ones
  (`IdsAreMinted`, which TLC evaluates on the instance). The two loops are recursive
  functions over data, and the library's induction is out of reach; so the state
  of a loop after any number of turns is given in closed form, a turn is shown to
  lead from one to the next (`TurnIs`, `ReadNext`), and the functions have these
  values because there is no least turn at which they have not (`EncodeIs`,
  `TimeIs`). The carry between the words is what makes `TurnIs` true. The digits are
  then the groups of five of the 130 bits (`IdBitsAre`), and the rest follows from
  bits: an id can be read back, so it has one origin; the first bit in
  which two instants differ decides which id sorts first (`IdsSort`), the
  randomness behind it cannot.
- `AccessLoopProofs`, first part: all safety properties of run `actuator_faults`
  (it cites nothing that `AccessLoop` adds to `DoorActuator`). The
  invariant adds what they rest on: BuildSim's log carries its index as version
  (`BuildSimOK`), memory is an entry of the log once `ready` (`MemoryOK`),
  nothing on the bus is newer than memory (`PublishedOK`, without which a
  version could go back), the locals belong to the command handled
  (`HandlerOK`, in particular `want.lock = cmd.desired` through the recreation
  branch), the pending report describes memory (`ReportOK`). The action
  properties follow from it step by step.
  The actuator implements `DoorLock` (`ImplementsDoorLock`),
  step by step: creating the equipment is `Fit`, an answered or late PUT is
  `Turn`, a report is `Announce`, everything else at most asks. The
  invariant gets two more parts for it: the warm-up call is made for no command
  (`WarmupOK`), and every abandoned POST carries a locked door (`PostsOK`).
  `CommandIdsArePositive` keeps commands apart from the absence of one.
- `PolicyProofs`: all properties of run `policy`, for every configuration,
  validated or not, and every request that carries a minute of the day or none
  (`RequestsAreTyped`). They rest on what `parseHM` lets through: its numbers
  are minutes of the day or its end, and comparing them is comparing clock
  times (`ParsedComparesAsClock`).
- `DecisionAgentProofs`: all properties of run `agent`. The invariant adds that
  the pending decision and command answer one badge.read as the policy says,
  and that the decision is on the bus while the command is pending
  (`PendingOK`).
- `BrokerProofs`: all safety properties of run `broker_faults`, for any number
  of connections and requests, any filters, queue and history length and any of
  the faults. The invariant, part by part:
  - `TypeInv`: a request that found a queue full still has that connection to
    reach (`GoalsOK`); a goroutine has an event in hand exactly while it flushes
    one (`HandsOK`).
  - `HistoryOK`: every request is recorded once, and the history is the last
    `History` of them. `OfferOK`: what was offered live was recorded after the
    registration, what is replayed was recorded before and within the history.
    `EveryEventByOneWay` follows, as an event is recorded once. `ReplayIsExact`
    takes both inclusions through the history: what is replayed is from it
    (`HistoryProps`) and all of the last events are in it (`HistoryIsTheEnd`).
  - `OnItsWay`: an offered event is in exactly one of the sends left to do, the
    queue, and what was received, unless it was discarded. `Streamed`: the
    stream so far keeps the order received but for neighbours, and the event in
    hand or held back is one of the last two received. The reorder fault is
    bounded only because both are true at once: a held event is written before
    the next one is taken.
  - `CountInv`: the two equations of `CountersAddUp`, with the finiteness of
    what they count. Each step moves one element between two of the sets or
    from one into a counter.

  What `Filter` returns (`FilterCollects`: the events of the set, in their
  order, and no others) is an induction over data which the prover cannot take
  from its library; it is proved here by a least counterexample in the natural
  numbers.
- `BusSubscriptionProofs`: `ResumeLosesNothing` and the refinement
  `ImplementsEventBus` of run `subscription_ordered`, for any events, connections, queue
  and history length, and `NothingTwice`, which without faults is part of the contract
  but holds under drops too. A step of the subscription is a step of `Broker`
  (`InsideBroker`), so the broker's invariant holds. All three have a hypothesis, the one under
  which the property is meant: publishers wait for one another and no fault
  repeats or reorders events (`Calm`; drops are allowed), and for the refinement
  no fault at all. Without it the resume point of the client, the id handed over
  last, is not the greatest, and an event may come again or be lost: the cause of
  the finding on `subscription_resume`.
  The invariant, part by part:
  - `RequestsInOrder`: only one request is at work; it finds the place it has
    made in a full queue still free, so the newest event is never the one given
    up.
  - `InOrder`: what is written, about to be written, queued, and still to be
    queued for a connection follow one another in the order of ids.
  - `ClientOK`: the id handed over last is before all that is still to reach the
    client over the open connection, which a reconnection restores because the
    replay is exactly what is retained after that id (`MissedProps`).
  - `AheadOK`: after any event that has arrived or is bound to arrive, the open
    connection brings every retained event asked for, unless it was discarded by
    a full queue or dropped (`OverflowLoses`, `DropLoses`; what is lost stays
    lost, `StaysLost`). A stream the broker has left is complete up to the last
    event in it that is not yet read. A reconnection starts it anew: the replay
    is complete after the resume point (`OpenGapless`).
  - `BehindOK`: what is retained, not after the resume point and not older than
    the first event handed over, was handed over or discarded. The read that
    moves the resume point over an event needs `AheadOK` to know that nothing
    retained lies between (`NextRead`).

  What a broker step means for one connection is worked out once
  (`FanOutEffect`, `ServeEffect`, `PublishEffect`, `RegisterEffect`), and each
  effect is then a step of the contract: a publication is `Accept`, an overflow
  `Lag`, the end of a handler `Break`, a registration `Connect`; the others only
  move forward what is bound to arrive (`AheadMoves`) and change nothing in the
  contract. That the ring holds the newest, as `Accept` says, is counted in
  `NewestKept`.
- `BusClientProofs`: all invariants of run `stream`, `WatchdogHasACause`,
  `NoneSkipped` and the refinement `ImplementsEventBus`, for any events and record lengths, any environments whose settings are numbers,
  unset, malformed or NaN (`EnvsAreTyped`), any number of troubles and any
  width of a duration. The invariant, part by part:
  - `StreamOK`: a stream is open exactly while it has a handler and somebody who
    reads it. `HistoryOK` with the type invariant: what is retained was accepted
    and fits the window (`RetainBound`, which needs the least of the retained
    events), so that a replay is the end of what was accepted (`ReplayedEnd`).
  - `ConfigOK`: `NewBroker` makes something usable of every environment that is
    let through (`NewBrokerUsable`). A delay is not bounded but only not
    negative, because the refusal looks at the product after it has wrapped.
  - `SubOK`: the goroutine never ends with an error set, on which
    `OnlyStartUpFails` rests, as the main loop may look at it much later.
  - `BackoffOK`: the wait as a function of the failures in each state of the
    goroutine, doubled already while an attempt is under way (`Doubling`).
  - `BeatOK`: the watchdog has never counted more than the broker has towards its
    next heartbeat, unless there is something left to read. It is inductive
    because a heartbeat ends a record by itself (`CommentReturns`) and more lines
    never take a record away (`NextLonger`).

  For the refinement a second invariant, `ArrivalOK`, follows the stream line by
  line, because it may be cut at any of them:
  - `WireOK`: every line is one that may follow the line before it (`Framed`), so
    that a record read is exactly a heartbeat or the four lines of one event
    (`RecordRead`), whatever has been cut; the events on the way ascend, come
    after the one in hand and were accepted; an open stream ends with a whole
    record, on which the next one is written (`JoinKeepsOrder`).
  - `ResumeOK`: the resume point is the event handed over last, and less than the
    one in hand. `KeptOK`: the history is the end of what was accepted, so that
    the replay, taken by its number, is what is retained after the resume point
    (`UpperEnd`, `ReplayRecord`).

  A cut then is a `Break` of the contract, as an event whose data is in the last
  line left never ends (`CutBrings`); a record read is no step of the contract,
  its event moves from the stream into the hand (`RestKeepsOrder`), and the
  hand-over is `Deliver`.

  No step is a `Lag` (`Steady`), which is why more can be said than the contract
  does: `NoGap` is a third invariant, in the contract's terms. A retained event that
  comes after the one handed over last, or after one on its way, is on its way
  itself; on a stream that has failed this is so only for those before its last
  event. It needs both clauses to be inductive: before the first hand-over only
  the second one speaks of anything. `NoneSkipped` follows, since what is
  handed over is the least on its way.
- `AccessLoopProofs`, second part: the properties of run `loop_faults`. A step of the loop is
  a step of `DoorActuator` (`InsideActuator`), so the actuator's invariant and
  its theorems hold in the loop. `TiedOK` joins the two services: every command
  on the bus has the decision it came with on the bus, and a badge.read that
  answers both (`CommandsOK`); the actuator handles no command but these
  (`HandledOK`); a request given up that would unlock was sent for an admitted
  card, and each position in flight was wanted (`RequestsOK`). That an unlock
  needs an earned allow, and the refinement of `DoorLock` by the loop, follow
  from the actuator's own refinement: in the loop what it is asked for and what is
  sanctioned by decisions are the same (`AskedIsSanctioned`).
  `ViewOK` is inductive with `PublishedOK` and `ReportsAreFacts` of the actuator.

Only model-checked:

- liveness (`HandlingEnds`, `PublishNeverBlocks`, `HeldIsReleased`,
  `ResumedEventsArrive`, `CancelEndsIt`): the prover does not reason
  about fairness and ENABLED.

## Not modelled

- The text forms: field names and spacing of SSE lines, JSON, and the parsing
  of "HH:MM" by `Sscanf` (only the check of the numbers it yields is modelled).
- The envelope's `Validate` refuses a publish before it changes anything; an
  envelope of another schema version, or a payload that does not decode, is
  skipped by its consumer before it changes anything. Both are events that do
  not happen in these models. A record that is not an envelope is skipped by the
  client (client.go:230-235); this broker writes none.
- Time, where only its passing matters: retry waits, the delay fault, the
  time-outs of calls, the 10 s of `Shutdown` and the 500 ms for which an event is
  held back appear as steps that may happen at any moment. In particular a
  delay fault longer than the client's idle timeout, which keeps heartbeats
  back (broker.go:273), is not followed.
- The composition of the two services with the detailed broker: the state space
  is the product of three models of 10^5 states and more. `AccessLoop` uses a bus
  that may do more than `EventBus` with faults allows, and the detailed broker and
  client are shown to implement `EventBus`.
- `cmd/buildsim-probe`: two reads and an exit code, no state. `ListEquipment`,
  `DeleteEquipment`, `LookupRoom`: no service calls them.

## Plan

Done: the inventory, the two processes, the broker, the client over the broker
and over the stream, start and end of the processes with their configuration,
the two abstract specifications with their refinements, the closed loop, and the
proofs about the dedupe set, the policy, the two processes, the broker, both
clients with the contract of the bus, the abstract door, and the closed loop.

All safety and action properties of the passing runs are proved, and the
refinements. What is left is the liveness, which stays with TLC; a clock for the
broker, which the delay fault against the idle timeout needs; and the detailed
broker in the closed loop, which is too large to check and would have to be
composed by its contract.
