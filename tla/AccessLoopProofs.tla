-------------------------- MODULE AccessLoopProofs --------------------------
(***************************************************************************)
(* The safety properties of DoorActuator and of the whole loop around it,  *)
(* for any policy, any commands or badge reads, any number of retries, any *)
(* capacity of the dedupe set, and any budget of deliveries, restarts of   *)
(* either service, forgotten equipment and requests in flight.             *)
(*                                                                         *)
(* The actuator comes first, on its own; nothing AccessLoop assumes is     *)
(* cited there.  The loop contains a behaviour of DoorActuator             *)
(* (InsideActuator), so these theorems hold in it, too.  What is added for *)
(* the loop is how the two services are tied to each other.                *)
(***************************************************************************)
EXTENDS AccessLoop, DedupeProofs

USE DEF ids

(* eq is what the log l holds under the version eq quotes. *)
LoggedIn(l, eq) == eq.version \in 1..Len(l) /\ l[eq.version] = eq

(* l was only appended to on the way to m. *)
Extends(l, m) == Len(l) <= Len(m) /\ \A v \in 1..Len(l) : m[v] = l[v]

(* BuildSim stamps every write with its place in the log. *)
BuildSimOK ==
  /\ BuildSimTypeOK
  /\ \A v \in 1..Len(log) : log[v].version = v
  /\ present => Len(log) > 0

(* What the actuator holds in memory was in BuildSim at that version. *)
MemoryOK == IF ready THEN LoggedIn(log, current) ELSE current = ZeroEquipment

(* Nothing on the bus is newer than what the actuator holds in memory. *)
PublishedOK ==
  /\ ReportsAreFacts
  /\ ready => \A s \in published : s.version <= current.version

(* The locals of Handle and applyLock belong to the command handled. *)
HandlerOK ==
  /\ pc \in {"dispatch", "dedupe", "put", "emit"} \/ why # "warmup" => cmd \in Commands
  /\ pc \in {"dedupe", "put"} \/ why = "recreate" => ready
  /\ pc \in {"dedupe", "put"} \/ why # "warmup" => cmd.door = Door
  /\ pc = "put" \/ why = "recreate" => want.lock = cmd.desired
  /\ pc = "idle" => why = "warmup"

(* The report about to be published describes current. *)
ReportOK ==
  pc = "emit" =>
    /\ report.lock = current.lock /\ report.contact = current.contact
    /\ report.version = current.version
    /\ report.applied => ready

(* The set holds the newest of the ids taken as new by this process. *)
DedupeOK ==
  Consistent(seen, SeenCapacity) /\ Newest(seen, Since(admitted, booted), SeenCapacity)

IInv == TypeOK /\ BuildSimOK /\ MemoryOK /\ PublishedOK /\ HandlerOK /\ ReportOK /\ DedupeOK

-----------------------------------------------------------------------------
(* The records the code starts from are equipment and reports. *)
LEMMA RecordTypes ==
  /\ ZeroEquipment \in Equipment /\ Blank \in Equipment
  /\ NoReport \in DoorState /\ NoCommand.desired \in Locks
BY DEF ZeroEquipment, Blank, Equipment, NoReport, DoorState, NoCommand, Locks, Contacts

(* Stamping gives the next version and leaves the lock alone. *)
LEMMA StampType ==
  ASSUME BuildSimOK, NEW eq \in Equipment
  PROVE  /\ Stamp(eq) \in Equipment
         /\ Stamp(eq).version = Len(log) + 1
         /\ Stamp(eq).lock = eq.lock
BY DEF BuildSimOK, BuildSimTypeOK, Stamp, Equipment

(* A write puts the stamped object at the end of the log. *)
LEMMA WriteStep ==
  ASSUME BuildSimOK, NEW eq \in Equipment, Write(eq), inflight' \in SUBSET Request
  PROVE  /\ BuildSimOK'
         /\ Extends(log, log')
         /\ Len(log') = Len(log) + 1
         /\ log'[Len(log')] = Stamp(eq)
         /\ LoggedIn(log', Stamp(eq))
<1>1. log \in Seq(Equipment) /\ Stamp(eq) \in Equipment
      /\ Stamp(eq).version = Len(log) + 1 /\ log' = Append(log, Stamp(eq))
      /\ present' = TRUE
  BY StampType DEF BuildSimOK, BuildSimTypeOK, Write
<1>2. /\ log' \in Seq(Equipment) /\ Len(log) \in Nat /\ Len(log') = Len(log) + 1
      /\ log'[Len(log) + 1] = Stamp(eq)
      /\ \A v \in 1..Len(log) : log'[v] = log[v]
  BY <1>1
<1>3. \A v \in 1..Len(log') : log'[v].version = v
  BY <1>1, <1>2 DEF BuildSimOK
<1> QED
  BY <1>1, <1>2, <1>3 DEF BuildSimOK, BuildSimTypeOK, Extends, LoggedIn

(* Leaving BuildSim alone keeps its part of the invariant. *)
LEMMA QuietStep ==
  ASSUME BuildSimOK, UNCHANGED <<log, present>>, inflight' \in SUBSET Request
  PROVE  BuildSimOK' /\ Extends(log, log')
BY DEF BuildSimOK, BuildSimTypeOK, Extends

(* Whatever a call answers, BuildSim stays well formed and its log grows   *)
(* at the end only.                                                        *)
LEMMA GiveUpStep ==
  ASSUME BuildSimOK, NEW req \in Request, GiveUp(req)
  PROVE  BuildSimOK' /\ Extends(log, log') /\ log' = log
<1>1. UNCHANGED <<log, present>> /\ inflight' \in SUBSET Request
  BY DEF GiveUp, BuildSimOK, BuildSimTypeOK
<1> QED BY <1>1, QuietStep

(* CreateEquipment: a success is a write of the stamped object. *)
LEMMA PostStep ==
  ASSUME BuildSimOK, NEW eq \in Equipment, NEW status, Post(eq, status)
  PROVE  /\ BuildSimOK' /\ Extends(log, log')
         /\ status = "ok" => LoggedIn(log', Stamp(eq)) /\ Write(eq)
<1>1. inflight \in SUBSET Request /\ [op |-> "POST", eq |-> eq] \in Request
  BY DEF BuildSimOK, BuildSimTypeOK, Request
<1>2. CASE status = "ok" /\ Write(eq) /\ UNCHANGED inflight
  BY <1>1, <1>2, WriteStep
<1>3. CASE status = "conflict" /\ UNCHANGED bsVars
  BY <1>1, <1>3, QuietStep DEF bsVars
<1>4. CASE status = "error" /\ GiveUp([op |-> "POST", eq |-> eq])
  BY <1>1, <1>4, GiveUpStep
<1> QED BY <1>2, <1>3, <1>4 DEF Post

(* PutEquipment: a success is a write of the stamped object. *)
LEMMA PutStep ==
  ASSUME BuildSimOK, NEW eq \in Equipment, NEW status, Put(eq, status)
  PROVE  /\ BuildSimOK' /\ Extends(log, log')
         /\ status = "ok" => LoggedIn(log', Stamp(eq)) /\ Write(eq)
<1>1. inflight \in SUBSET Request /\ [op |-> "PUT", eq |-> eq] \in Request
  BY DEF BuildSimOK, BuildSimTypeOK, Request
<1>2. CASE status = "ok" /\ Write(eq) /\ UNCHANGED inflight
  BY <1>1, <1>2, WriteStep
<1>3. CASE status = "notfound" /\ UNCHANGED bsVars
  BY <1>1, <1>3, QuietStep DEF bsVars
<1>4. CASE status = "error" /\ GiveUp([op |-> "PUT", eq |-> eq])
  BY <1>1, <1>4, GiveUpStep
<1> QED BY <1>2, <1>3, <1>4 DEF Put

(* GetEquipment: a success answers with the newest object of the log. *)
LEMMA GetStep ==
  ASSUME BuildSimOK, NEW status, Get(status)
  PROVE  /\ BuildSimOK' /\ Extends(log, log') /\ UNCHANGED bsVars
         /\ status = "ok" => /\ LoggedIn(log', Stored) /\ Stored \in Equipment
                             /\ Stored.version = Len(log)
<1>1. UNCHANGED bsVars /\ inflight' \in SUBSET Request /\ log \in Seq(Equipment)
  BY DEF Get, bsVars, BuildSimOK, BuildSimTypeOK
<1>2. ASSUME status = "ok"
      PROVE  LoggedIn(log', Stored) /\ Stored \in Equipment /\ Stored.version = Len(log)
  <2>1. Len(log) \in 1..Len(log) /\ log' = log
    BY <1>1, <1>2 DEF Get, BuildSimOK, bsVars
  <2>2. log[Len(log)] \in Equipment /\ log[Len(log)].version = Len(log)
    BY <1>1, <2>1 DEF BuildSimOK
  <2> QED BY <2>1, <2>2 DEF Stored, LoggedIn
<1> QED BY <1>1, <1>2, QuietStep DEF bsVars

(* A request nobody waits for leaves BuildSim well formed, too. *)
LEMMA ExecuteLateStep ==
  ASSUME BuildSimOK, ExecuteLate
  PROVE  BuildSimOK' /\ Extends(log, log')
<1>1. PICK req \in inflight :
        /\ inflight' = inflight \ {req}
        /\ IF (req.op = "PUT") = present THEN Write(req.eq) ELSE UNCHANGED <<log, present>>
  BY DEF ExecuteLate
<1>2. inflight' \in SUBSET Request /\ req.eq \in Equipment
  BY <1>1 DEF BuildSimOK, BuildSimTypeOK, Request
<1> QED BY <1>1, <1>2, WriteStep, QuietStep

-----------------------------------------------------------------------------
(* What is true of the past stays true while the log grows. *)
LEMMA LoggedStays ==
  ASSUME log \in Seq(Equipment), log' \in Seq(Equipment), Extends(log, log'),
         NEW eq, LoggedIn(log, eq)
  PROVE  LoggedIn(log', eq)
BY DEF Extends, LoggedIn

(* The door.states on the bus stay facts (what emit published). *)
LEMMA FactsStay ==
  ASSUME log \in Seq(Equipment), log' \in Seq(Equipment), Extends(log, log'),
         ReportsAreFacts, published' = published
  PROVE  ReportsAreFacts'
<1>1. Len(log) \in Nat /\ Len(log') \in Nat /\ Len(log) <= Len(log')
  BY DEF Extends
<1>2. \A v \in 1..Len(log) : v \in 1..Len(log') /\ log'[v] = log[v]
  BY <1>1 DEF Extends
<1> QED BY <1>2 DEF ReportsAreFacts

(* Every report on the bus quotes a version BuildSim has reached. *)
LEMMA PublishedBounded ==
  ASSUME log \in Seq(Equipment), ReportsAreFacts
  PROVE  \A s \in published : s.version <= Len(log)
<1>1. Len(log) \in Nat
  OBVIOUS
<1>2. \A v \in 1..Len(log) : v <= Len(log)
  BY <1>1
<1>3. 0 <= Len(log)
  BY <1>1
<1> QED BY <1>2, <1>3 DEF ReportsAreFacts

(* The steps in which the memory of the actuator stays as it is: the       *)
(* parts about memory and bus follow from the growth of the log alone.     *)
LEMMA MemoryStays ==
  ASSUME MemoryOK, PublishedOK, log \in Seq(Equipment), log' \in Seq(Equipment),
         Extends(log, log'), UNCHANGED <<ready, current, published>>
  PROVE  MemoryOK' /\ PublishedOK'
<1>1. ReportsAreFacts'
  BY FactsStay DEF PublishedOK
<1>2. MemoryOK'
  BY LoggedStays DEF MemoryOK
<1> QED BY <1>1, <1>2 DEF PublishedOK

(* The actuator adopts the object of BuildSim's answer, which is the       *)
(* newest one.                                                             *)
LEMMA MemoryAdopts ==
  ASSUME PublishedOK, log \in Seq(Equipment), log' \in Seq(Equipment),
         Extends(log, log'), published' = published,
         NEW eq, LoggedIn(log', eq), eq.version >= Len(log), eq.version \in Nat,
         \A s \in published : s.version \in Nat,
         current' = eq, ready' = TRUE
  PROVE  MemoryOK' /\ PublishedOK'
<1>1. ReportsAreFacts'
  BY FactsStay DEF PublishedOK
<1>2. \A s \in published : s.version <= eq.version
  BY PublishedBounded DEF PublishedOK
<1> QED BY <1>1, <1>2 DEF MemoryOK, PublishedOK

-----------------------------------------------------------------------------
(* A report made of the memory is typed and describes it. *)
LEMMA ReportMade ==
  ASSUME NEW applied \in BOOLEAN, NEW eq \in Equipment, Report(applied, eq),
         current' = eq, applied => ready'
  PROVE  ReportOK' /\ report' \in DoorState /\ pc' = "emit"
BY DEF Report, ReportOK, DoorState, Equipment

(* The retry loop goes on within its bound or reports the failure. *)
LEMMA NextAttemptMade ==
  ASSUME TypeOK, NextAttempt, UNCHANGED <<current, ready>>
  PROVE  /\ attempt' \in 0..Retries
         /\ report' \in DoorState /\ ReportOK'
         /\ pc' \in {"put", "emit"}
<1>1. attempt \in 0..Retries /\ Retries \in Nat /\ report \in DoorState /\ current \in Equipment
  BY RetriesIsPositive DEF TypeOK
<1>2. CASE attempt < Retries /\ attempt' = attempt + 1 /\ pc' = "put" /\ UNCHANGED report
  BY <1>1, <1>2 DEF ReportOK
<1>3. CASE attempt = Retries /\ Report(FALSE, current) /\ UNCHANGED attempt
  BY <1>1, <1>3, ReportMade
<1> QED BY <1>2, <1>3 DEF NextAttempt

(* EnsureEquipment answers with the newest object of the log. *)
LEMMA EnsuredInv ==
  ASSUME IInv, pc \in {"create", "get"}, BuildSimOK', Extends(log, log'),
         NEW eq \in Equipment, LoggedIn(log', eq), eq.version >= Len(log),
         Ensured(eq), UNCHANGED <<why, seen, cmd, published, ids, budget>>
  PROVE  IInv'
<1>1. /\ log \in Seq(Equipment) /\ log' \in Seq(Equipment)
      /\ eq.version \in Nat /\ \A s \in published : s.version \in Nat
      /\ [eq EXCEPT !.lock = cmd.desired] \in Equipment
      /\ [eq EXCEPT !.lock = cmd.desired].lock = cmd.desired
  <2>1. cmd.desired \in Locks
    BY RecordTypes, CommandsHaveALock DEF IInv, TypeOK
  <2> QED BY <2>1 DEF IInv, BuildSimOK, BuildSimTypeOK, TypeOK, Equipment, DoorState
<1>2. DedupeOK'
  BY DEF IInv, DedupeOK
<1>3. CASE why # "recreate" /\ current' = eq /\ ready' = TRUE
           /\ pc' = (IF why = "warmup" THEN "idle" ELSE "dedupe")
           /\ UNCHANGED <<want, attempt, report>>
  <2>1. TypeOK'
    BY <1>3 DEF IInv, TypeOK, BuildSimOK
  <2>2. MemoryOK' /\ PublishedOK'
    BY <1>1, <1>3, MemoryAdopts DEF IInv
  <2>3. HandlerOK'
    BY <1>3 DEF IInv, HandlerOK, TypeOK
  <2>4. ReportOK'
    BY <1>3 DEF ReportOK
  <2> QED BY <1>2, <2>1, <2>2, <2>3, <2>4 DEF IInv
<1>4. CASE why = "recreate" /\ want' = [eq EXCEPT !.lock = cmd.desired]
           /\ NextAttempt /\ UNCHANGED <<current, ready>>
  <2>1. /\ attempt' \in 0..Retries /\ report' \in DoorState /\ ReportOK'
        /\ pc' \in {"put", "emit"}
    BY <1>4, NextAttemptMade DEF IInv
  <2>2. TypeOK'
    BY <1>1, <1>4, <2>1 DEF IInv, TypeOK, BuildSimOK
  <2>3. MemoryOK' /\ PublishedOK'
    BY <1>1, <1>4, MemoryStays DEF IInv
  <2>4. HandlerOK'
    BY <1>1, <1>4, <2>1 DEF IInv, HandlerOK
  <2> QED BY <1>2, <2>1, <2>2, <2>3, <2>4 DEF IInv
<1> QED BY <1>3, <1>4 DEF Ensured, Recreated

(* EnsureEquipment failed: nothing is adopted. *)
LEMMA EnsureFailedInv ==
  ASSUME IInv, pc \in {"create", "get"}, BuildSimOK', Extends(log, log'),
         EnsureFailed, UNCHANGED <<why, seen, cmd, published, ids, budget>>
  PROVE  IInv'
<1>1. /\ log \in Seq(Equipment) /\ log' \in Seq(Equipment) /\ current \in Equipment
      /\ UNCHANGED <<current, ready, want>>
  BY DEF IInv, BuildSimOK, BuildSimTypeOK, TypeOK, EnsureFailed
<1>2. DedupeOK' /\ MemoryOK' /\ PublishedOK'
  BY <1>1, MemoryStays DEF IInv, DedupeOK
<1>3. /\ attempt' \in 0..Retries /\ report' \in DoorState /\ ReportOK'
      /\ pc' \in {"idle", "put", "emit"}
      /\ why = "warmup" => pc' = "idle"
      /\ why = "ready" => pc' = "emit"
      /\ why = "recreate" => pc' \in {"put", "emit"}
  <2>1. CASE why = "warmup" /\ pc' = "idle" /\ UNCHANGED <<attempt, report>>
    BY <2>1 DEF IInv, TypeOK, ReportOK
  <2>2. CASE why = "ready" /\ Report(FALSE, current) /\ UNCHANGED attempt
    BY <1>1, <2>2, ReportMade DEF IInv, TypeOK
  <2>3. CASE why = "recreate" /\ NextAttempt
    BY <1>1, <2>3, NextAttemptMade DEF IInv
  <2> QED BY <2>1, <2>2, <2>3 DEF EnsureFailed
<1>4. TypeOK'
  BY <1>1, <1>3 DEF IInv, TypeOK, BuildSimOK
<1>5. HandlerOK'
  BY <1>1, <1>3 DEF IInv, HandlerOK, TypeOK
<1> QED BY <1>2, <1>3, <1>4, <1>5 DEF IInv

(* The POST of EnsureEquipment. *)
LEMMA CreateEquipmentInv == IInv /\ CreateEquipment => IInv'
<1> SUFFICES ASSUME IInv, CreateEquipment PROVE IInv'
  OBVIOUS
<1>1. pc = "create" /\ UNCHANGED <<why, seen, cmd, published, ids, budget>>
      /\ BuildSimOK /\ Blank \in Equipment
  BY RecordTypes DEF CreateEquipment, IInv
<1>2. CASE Post(Blank, "ok") /\ Ensured(Stamp(Blank))
  <2>1. /\ BuildSimOK' /\ Extends(log, log') /\ LoggedIn(log', Stamp(Blank))
        /\ Stamp(Blank) \in Equipment /\ Stamp(Blank).version = Len(log) + 1
        /\ Len(log) \in Nat
    BY <1>1, <1>2, PostStep, StampType DEF BuildSimOK, BuildSimTypeOK
  <2>2. Stamp(Blank).version >= Len(log)
    BY <2>1
  <2> QED BY <1>1, <1>2, <2>1, <2>2, EnsuredInv
<1>3. CASE Post(Blank, "conflict") /\ pc' = "get"
           /\ UNCHANGED <<ready, current, want, attempt, report>>
  <2>1. BuildSimOK' /\ Extends(log, log')
    BY <1>1, <1>3, PostStep
  <2>2. MemoryOK' /\ PublishedOK'
    BY <1>1, <1>3, <2>1, MemoryStays DEF IInv, BuildSimOK, BuildSimTypeOK
  <2>3. TypeOK'
    BY <1>1, <1>3, <2>1 DEF IInv, TypeOK, BuildSimOK
  <2>4. HandlerOK' /\ ReportOK' /\ DedupeOK'
    BY <1>1, <1>3 DEF IInv, HandlerOK, ReportOK, DedupeOK
  <2> QED BY <2>1, <2>2, <2>3, <2>4 DEF IInv
<1>4. CASE Post(Blank, "error") /\ EnsureFailed
  <2>1. BuildSimOK' /\ Extends(log, log')
    BY <1>1, <1>4, PostStep
  <2> QED BY <1>1, <1>4, <2>1, EnsureFailedInv
<1> QED BY <1>2, <1>3, <1>4 DEF CreateEquipment

(* The GET of EnsureEquipment after a conflict. *)
LEMMA GetEquipmentInv == IInv /\ GetEquipment => IInv'
<1> SUFFICES ASSUME IInv, GetEquipment PROVE IInv'
  OBVIOUS
<1>1. pc = "get" /\ UNCHANGED <<why, seen, cmd, published, ids, budget>>
      /\ BuildSimOK /\ Len(log) \in Nat
  BY DEF GetEquipment, IInv, BuildSimOK, BuildSimTypeOK
<1>2. CASE Get("ok") /\ FetchExisting
  <2>1. /\ BuildSimOK' /\ Extends(log, log') /\ LoggedIn(log', Stored)
        /\ Stored \in Equipment /\ Stored.version >= Len(log)
    BY <1>1, <1>2, GetStep
  <2> QED BY <1>1, <1>2, <2>1, EnsuredInv DEF FetchExisting
<1>3. ASSUME NEW status, Get(status), EnsureFailed PROVE IInv'
  <2>1. BuildSimOK' /\ Extends(log, log')
    BY <1>1, <1>3, GetStep
  <2> QED BY <1>1, <1>3, <2>1, EnsureFailedInv
<1> QED BY <1>2, <1>3 DEF GetEquipment

(* One attempt of applyLock. *)
LEMMA PutEquipmentInv == IInv /\ PutEquipment => IInv'
<1> SUFFICES ASSUME IInv, PutEquipment PROVE IInv'
  OBVIOUS
<1>1. /\ pc = "put" /\ UNCHANGED <<ready, seen, cmd, want, published, ids, budget>>
      /\ BuildSimOK /\ want \in Equipment /\ current \in Equipment /\ ready
      /\ cmd \in Commands /\ cmd.door = Door /\ want.lock = cmd.desired
      /\ log \in Seq(Equipment) /\ Len(log) \in Nat
  BY DEF PutEquipment, IInv, TypeOK, HandlerOK, BuildSimOK, BuildSimTypeOK
<1>2. DedupeOK'
  BY <1>1 DEF IInv, DedupeOK
<1>3. CASE Put(want, "ok") /\ current' = Written(want) /\ Report(TRUE, Written(want))
           /\ UNCHANGED <<why, attempt>>
  <2>1. /\ BuildSimOK' /\ Extends(log, log') /\ LoggedIn(log', Stamp(want))
        /\ Stamp(want) \in Equipment /\ Stamp(want).version = Len(log) + 1
    BY <1>1, <1>3, PutStep, StampType
  <2>2. ReportOK' /\ report' \in DoorState /\ pc' = "emit" /\ ready' = TRUE
    BY <1>1, <1>3, <2>1, ReportMade DEF Written, IInv, TypeOK
  <2>3. MemoryOK' /\ PublishedOK'
    <3>1. Stamp(want).version >= Len(log) /\ Stamp(want).version \in Nat
      BY <1>1, <2>1
    <3>2. \A s \in published : s.version \in Nat
      BY DEF IInv, TypeOK, DoorState
    <3>3. log' \in Seq(Equipment)
      BY <2>1 DEF BuildSimOK, BuildSimTypeOK
    <3> QED BY <1>1, <1>3, <2>1, <2>2, <3>1, <3>2, <3>3, MemoryAdopts DEF Written, IInv
  <2>4. TypeOK'
    BY <1>1, <1>3, <2>1, <2>2 DEF IInv, TypeOK, BuildSimOK, Written
  <2>5. HandlerOK'
    BY <1>1, <1>3, <2>2 DEF IInv, HandlerOK
  <2> QED BY <1>2, <2>1, <2>2, <2>3, <2>4, <2>5 DEF IInv
<1>4. CASE Put(want, "notfound") /\ pc' = "create" /\ why' = "recreate"
           /\ UNCHANGED <<current, attempt, report>>
  <2>1. BuildSimOK' /\ Extends(log, log')
    BY <1>1, <1>4, PutStep
  <2>2. MemoryOK' /\ PublishedOK'
    BY <1>1, <1>4, <2>1, MemoryStays DEF IInv, BuildSimOK, BuildSimTypeOK
  <2>3. TypeOK'
    BY <1>1, <1>4, <2>1 DEF IInv, TypeOK, BuildSimOK
  <2>4. HandlerOK' /\ ReportOK'
    BY <1>1, <1>4 DEF IInv, HandlerOK, ReportOK
  <2> QED BY <1>2, <2>1, <2>2, <2>3, <2>4 DEF IInv
<1>5. CASE Put(want, "error") /\ NextAttempt /\ UNCHANGED <<current, why>>
  <2>1. BuildSimOK' /\ Extends(log, log')
    BY <1>1, <1>5, PutStep
  <2>2. MemoryOK' /\ PublishedOK'
    BY <1>1, <1>5, <2>1, MemoryStays DEF IInv, BuildSimOK, BuildSimTypeOK
  <2>3. /\ attempt' \in 0..Retries /\ report' \in DoorState /\ ReportOK'
        /\ pc' \in {"put", "emit"}
    BY <1>1, <1>5, NextAttemptMade DEF IInv
  <2>4. TypeOK'
    BY <1>1, <1>5, <2>1, <2>3 DEF IInv, TypeOK, BuildSimOK
  <2>5. HandlerOK'
    BY <1>1, <1>5, <2>3 DEF IInv, HandlerOK
  <2> QED BY <1>2, <2>1, <2>2, <2>3, <2>4, <2>5 DEF IInv
<1> QED BY <1>3, <1>4, <1>5 DEF PutEquipment

-----------------------------------------------------------------------------
(* The steps between two calls leave BuildSim, memory and bus alone. *)
LEMMA LocalStep ==
  ASSUME IInv, UNCHANGED <<bsVars, ready, current, published>>
  PROVE  BuildSimOK' /\ MemoryOK' /\ PublishedOK'
<1>1. /\ BuildSimOK /\ UNCHANGED <<log, present>> /\ inflight' \in SUBSET Request
      /\ log \in Seq(Equipment)
  BY DEF IInv, BuildSimOK, BuildSimTypeOK, bsVars
<1>2. BuildSimOK' /\ Extends(log, log')
  BY <1>1, QuietStep
<1> QED BY <1>1, <1>2, MemoryStays DEF IInv

(* Spending from the budget leaves natural numbers. *)
LEMMA SpendType ==
  ASSUME TypeOK, NEW kind \in BudgetKinds, Spend(kind)
  PROVE  budget' \in [BudgetKinds -> Nat]
<1>1. budget \in [BudgetKinds -> Nat] /\ budget[kind] \in Nat \ {0}
  BY DEF TypeOK, Spend
<1>2. budget[kind] - 1 \in Nat
  BY <1>1
<1> QED BY <1>1, <1>2 DEF Spend

(* A door.command is delivered. *)
LEMMA ReceiveInv == IInv /\ Receive => IInv'
<1> SUFFICES ASSUME IInv, Receive PROVE IInv'
  OBVIOUS
<1>1. BuildSimOK' /\ MemoryOK' /\ PublishedOK'
  BY LocalStep DEF Receive, ReceiveCommand
<1>2. TypeOK'
  BY <1>1, SpendType DEF IInv, Receive, ReceiveCommand, TypeOK, BuildSimOK, BudgetKinds
<1>3. HandlerOK' /\ ReportOK' /\ DedupeOK'
  <2>1. pc' = "dispatch" /\ why' = "warmup" /\ cmd' \in Commands
    BY DEF Receive, ReceiveCommand, IInv, HandlerOK
  <2> QED BY <2>1 DEF IInv, Receive, ReceiveCommand, HandlerOK, ReportOK, DedupeOK
<1> QED BY <1>1, <1>2, <1>3 DEF IInv

(* Handle looks at the door and at ready. *)
LEMMA DispatchInv == IInv /\ Dispatch => IInv'
<1> SUFFICES ASSUME IInv, Dispatch PROVE IInv'
  OBVIOUS
<1>1. /\ pc = "dispatch"
      /\ UNCHANGED <<bsVars, ready, current, seen, cmd, want, attempt, published, ids, budget>>
      /\ cmd \in Commands /\ current \in Equipment
  BY DEF Dispatch, IInv, HandlerOK, TypeOK
<1>2. BuildSimOK' /\ MemoryOK' /\ PublishedOK' /\ DedupeOK'
  BY <1>1, LocalStep DEF IInv, DedupeOK
<1>3. CASE cmd.door # Door /\ Report(FALSE, current) /\ UNCHANGED why
  <2>1. ReportOK' /\ report' \in DoorState /\ pc' = "emit"
    BY <1>1, <1>3, ReportMade
  <2>2. TypeOK'
    BY <1>1, <1>2, <1>3, <2>1 DEF IInv, TypeOK, BuildSimOK
  <2>3. HandlerOK'
    BY <1>1, <1>3, <2>1 DEF IInv, HandlerOK
  <2> QED BY <1>2, <2>1, <2>2, <2>3 DEF IInv
<1>4. CASE cmd.door = Door /\ ~ready /\ pc' = "create" /\ why' = "ready" /\ UNCHANGED report
  BY <1>1, <1>2, <1>4 DEF IInv, TypeOK, BuildSimOK, HandlerOK, ReportOK
<1>5. CASE cmd.door = Door /\ ready /\ pc' = "dedupe" /\ UNCHANGED <<why, report>>
  BY <1>1, <1>2, <1>5 DEF IInv, TypeOK, BuildSimOK, HandlerOK, ReportOK
<1> QED BY <1>3, <1>4, <1>5 DEF Dispatch

(* Handle looks the command id up and compares the lock. *)
LEMMA AdmitInv == IInv /\ Admit => IInv'
<1> SUFFICES ASSUME IInv, Admit PROVE IInv'
  OBVIOUS
<1>1. /\ pc = "dedupe" /\ seen' = Add(seen, cmd.id, SeenCapacity)
      /\ UNCHANGED <<bsVars, why, ready, current, cmd, published, booted, budget>>
      /\ cmd \in Commands /\ cmd.desired \in Locks /\ ready /\ current \in Equipment
      /\ cmd.door = Door
  BY CommandsHaveALock DEF Admit, Remember, IInv, HandlerOK, TypeOK
<1>2. /\ seen \in SetOver(CommandIds) /\ admitted \in Seq(CommandIds)
      /\ cmd.id \in CommandIds /\ SeenCapacity \in Nat \ {0}
      /\ Consistent(seen, SeenCapacity)
      /\ Newest(seen, Since(admitted, booted), SeenCapacity)
      /\ booted \in 0..Len(admitted)
  BY <1>1, SeenCapacityIsPositive DEF IInv, TypeOK, DedupeOK, SetOver, CommandIds
<1>3. BuildSimOK' /\ MemoryOK' /\ PublishedOK'
  BY <1>1, LocalStep
<1>4. seen' \in SetOver(CommandIds) /\ Consistent(seen', SeenCapacity)
  BY <1>1, <1>2, AddType, AddConsistent
<1>5. CASE Seen(seen, cmd.id) /\ Report(TRUE, current) /\ UNCHANGED <<want, attempt, admitted>>
  <2>1. ReportOK' /\ report' \in DoorState /\ pc' = "emit"
    BY <1>1, <1>5, ReportMade DEF IInv, TypeOK
  <2>2. TypeOK'
    BY <1>1, <1>3, <1>4, <1>5, <2>1 DEF IInv, TypeOK, BuildSimOK, SetOver
  <2>3. HandlerOK'
    BY <1>1, <1>5, <2>1 DEF IInv, HandlerOK
  <2>4. DedupeOK'
    BY <1>1, <1>2, <1>4, <1>5 DEF DedupeOK, Add
  <2> QED BY <1>3, <2>1, <2>2, <2>3, <2>4 DEF IInv
<1>6. ASSUME ~Seen(seen, cmd.id), admitted' = Append(admitted, cmd.id)
      PROVE  admitted' \in Seq(CommandIds) /\ booted' \in 0..Len(admitted') /\ DedupeOK'
  <2> DEFINE own == Since(admitted, booted)
  <2>1. /\ own \in Seq(CommandIds)
        /\ Since(Append(admitted, cmd.id), booted) = Append(own, cmd.id)
    BY <1>2, SinceAppend
  <2>2. Newest(seen', Append(own, cmd.id), SeenCapacity)
    BY <1>1, <1>2, <1>6, <2>1, AddNewest
  <2>3. admitted' \in Seq(CommandIds) /\ booted' = booted /\ booted \in 0..Len(admitted')
    BY <1>1, <1>2, <1>6
  <2> QED BY <1>4, <1>6, <2>1, <2>2, <2>3 DEF DedupeOK
<1>7. CASE /\ ~Seen(seen, cmd.id) /\ current.lock = cmd.desired /\ Report(TRUE, current)
           /\ admitted' = Append(admitted, cmd.id) /\ UNCHANGED <<want, attempt>>
  <2>1. ReportOK' /\ report' \in DoorState /\ pc' = "emit"
    BY <1>1, <1>7, ReportMade DEF IInv, TypeOK
  <2>2. TypeOK'
    BY <1>1, <1>3, <1>4, <1>6, <1>7, <2>1 DEF IInv, TypeOK, BuildSimOK, SetOver
  <2>3. HandlerOK'
    BY <1>1, <1>7, <2>1 DEF IInv, HandlerOK
  <2> QED BY <1>3, <1>6, <1>7, <2>1, <2>2, <2>3 DEF IInv
<1>8. CASE /\ ~Seen(seen, cmd.id) /\ current.lock # cmd.desired
           /\ want' = [current EXCEPT !.lock = cmd.desired]
           /\ attempt' = 0 /\ pc' = "put"
           /\ admitted' = Append(admitted, cmd.id) /\ UNCHANGED report
  <2>1. want' \in Equipment /\ want'.lock = cmd.desired
    BY <1>1, <1>8 DEF Equipment
  <2>2. 0 \in 0..Retries
    BY RetriesIsPositive
  <2>3. TypeOK'
    BY <1>1, <1>3, <1>4, <1>6, <1>8, <2>1, <2>2 DEF IInv, TypeOK, BuildSimOK, SetOver
  <2>4. HandlerOK' /\ ReportOK'
    BY <1>1, <1>8, <2>1 DEF IInv, HandlerOK, ReportOK
  <2> QED BY <1>3, <1>6, <1>8, <2>3, <2>4 DEF IInv
<1> QED BY <1>5, <1>7, <1>8 DEF Admit

(* Publishing a report that describes the memory publishes a fact. *)
LEMMA EmitInv == IInv /\ Emit => IInv'
<1> SUFFICES ASSUME IInv, Emit PROVE IInv'
  OBVIOUS
<1>1. /\ pc = "emit" /\ pc' = "idle" /\ why' = "warmup" /\ cmd' = NoCommand
      /\ want' = ZeroEquipment /\ attempt' = 0 /\ report' = NoReport
      /\ published' \in {published \cup {report}, published}
      /\ UNCHANGED <<bsVars, ready, current, seen, ids, budget>>
  BY DEF Emit, Cleared
<1>2. /\ report.lock = current.lock /\ report.contact = current.contact
      /\ report.version = current.version
      /\ report.applied => ready
      /\ current \in Equipment /\ report \in DoorState
  BY <1>1 DEF IInv, ReportOK, TypeOK
<1>3. BuildSimOK' /\ MemoryOK'
  BY <1>1 DEF IInv, BuildSimOK, BuildSimTypeOK, MemoryOK, bsVars
<1>4. published' \subseteq published \cup {report}
  BY <1>1
<1>5. PublishedOK'
  <2>1. CASE ready
    <3>1. current = [lock |-> report.lock, contact |-> report.contact, version |-> report.version]
      BY <1>2 DEF Equipment
    <3>2. report.version \in 1..Len(log) /\ log[report.version] = current
      BY <1>2, <2>1 DEF IInv, MemoryOK, LoggedIn
    <3>3. ReportsAreFacts'
      BY <1>1, <1>4, <3>1, <3>2 DEF IInv, PublishedOK, ReportsAreFacts, bsVars
    <3>4. report.version <= current.version
      BY <1>2 DEF DoorState
    <3> QED BY <1>1, <1>4, <3>3, <3>4 DEF IInv, PublishedOK
  <2>2. CASE ~ready
    <3>1. report.version = 0 /\ report.lock = "locked" /\ ~report.applied
      BY <1>2, <2>2 DEF IInv, MemoryOK, ZeroEquipment
    <3> QED BY <1>1, <1>4, <2>2, <3>1 DEF IInv, PublishedOK, ReportsAreFacts, bsVars
  <2> QED BY <2>1, <2>2
<1>6. TypeOK'
  <2>1. 0 \in 0..Retries /\ published' \in SUBSET DoorState
    BY <1>2, <1>4, RetriesIsPositive DEF IInv, TypeOK
  <2> QED BY <1>1, <1>3, <2>1, RecordTypes DEF IInv, TypeOK, BuildSimOK
<1>7. HandlerOK' /\ ReportOK' /\ DedupeOK'
  BY <1>1 DEF IInv, HandlerOK, ReportOK, DedupeOK, NoCommand
<1> QED BY <1>3, <1>5, <1>6, <1>7 DEF IInv

(* A new process starts from an empty memory; BuildSim and bus remain. *)
LEMMA RestartInv == IInv /\ Restart => IInv'
<1> SUFFICES ASSUME IInv, Restart PROVE IInv'
  OBVIOUS
<1>1. /\ pc' = "create" /\ why' = "warmup" /\ ready' = FALSE /\ current' = ZeroEquipment
      /\ seen' = New /\ admitted' = admitted /\ booted' = Len(admitted) /\ cmd' = NoCommand /\ want' = ZeroEquipment
      /\ attempt' = 0 /\ report' = NoReport /\ UNCHANGED <<bsVars, published>>
      /\ budget' \in [BudgetKinds -> Nat]
  BY SpendType DEF Restart, Boot, Cleared, IInv, BudgetKinds
<1>2. BuildSimOK' /\ MemoryOK'
  BY <1>1 DEF IInv, BuildSimOK, BuildSimTypeOK, MemoryOK, bsVars
<1>3. PublishedOK'
  BY <1>1 DEF IInv, PublishedOK, ReportsAreFacts, bsVars
<1>4. seen' \in SetOver(CommandIds) /\ DedupeOK'
  <2>1. SeenCapacity \in Nat
    BY SeenCapacityIsPositive
  <2>2. Since(admitted, Len(admitted)) = <<>>
    BY DEF IInv, TypeOK, Since
  <2> QED BY <1>1, <2>1, <2>2, NewConsistent, NewNewest DEF DedupeOK
<1>5. TypeOK'
  <2>1. 0 \in 0..Retries /\ booted' \in 0..Len(admitted')
    BY <1>1, RetriesIsPositive DEF IInv, TypeOK
  <2> QED BY <1>1, <1>2, <1>4, <2>1, RecordTypes DEF IInv, TypeOK, BuildSimOK, SetOver
<1>6. HandlerOK' /\ ReportOK'
  BY <1>1 DEF HandlerOK, ReportOK
<1> QED BY <1>2, <1>3, <1>4, <1>5, <1>6 DEF IInv

(* What BuildSim does on its own touches nothing of the actuator. *)
LEMMA OutsideInv ==
  ASSUME IInv, BuildSimOK', Extends(log, log'), UNCHANGED <<actVars, published, ids>>,
         budget' \in [BudgetKinds -> Nat]
  PROVE  IInv'
<1>1. MemoryOK' /\ PublishedOK'
  BY MemoryStays DEF IInv, BuildSimOK, BuildSimTypeOK, actVars
<1>2. TypeOK'
  BY DEF IInv, TypeOK, BuildSimOK, actVars
<1>3. HandlerOK' /\ ReportOK' /\ DedupeOK'
  BY DEF IInv, HandlerOK, ReportOK, DedupeOK, actVars
<1> QED BY <1>1, <1>2, <1>3 DEF IInv

(* BuildSim loses the equipment: its log does not change. *)
LEMMA BuildSimForgetsInv == IInv /\ BuildSimForgets => IInv'
<1> SUFFICES ASSUME IInv, BuildSimForgets PROVE IInv'
  OBVIOUS
<1>1. BuildSimOK' /\ Extends(log, log')
  <2>1. log \in Seq(Equipment) /\ Len(log) \in Nat /\ log' = log
        /\ present' = FALSE /\ inflight' = inflight
    BY DEF IInv, BuildSimOK, BuildSimTypeOK, BuildSimForgets, Forget
  <2>2. present' \in BOOLEAN
    BY <2>1, Zenon
  <2>5. BuildSimTypeOK' /\ Extends(log, log')
    <3>1. log' \in Seq(Equipment) /\ inflight' \in SUBSET Request
      BY <2>1 DEF IInv, BuildSimOK, BuildSimTypeOK
    <3>2. Extends(log, log')
      BY <2>1 DEF Extends
    <3> QED BY <2>2, <3>1, <3>2 DEF BuildSimTypeOK
  <2>3. \A v \in 1..Len(log') : log'[v].version = v
    BY <2>1 DEF IInv, BuildSimOK
  <2>4. ~present'
    BY <2>1
  <2> QED BY <2>3, <2>4, <2>5 DEF BuildSimOK
<1>2. budget' \in [BudgetKinds -> Nat]
  BY SpendType DEF BuildSimForgets, IInv, BudgetKinds
<1> QED BY <1>1, <1>2, OutsideInv DEF BuildSimForgets

(* BuildSim executes an abandoned request: its log grows. *)
LEMMA BuildSimExecutesInv == IInv /\ BuildSimExecutes => IInv'
<1> SUFFICES ASSUME IInv, BuildSimExecutes PROVE IInv'
  OBVIOUS
<1>1. BuildSimOK' /\ Extends(log, log')
  BY ExecuteLateStep DEF IInv, BuildSimExecutes
<1>2. budget' \in [BudgetKinds -> Nat]
  BY DEF BuildSimExecutes, IInv, TypeOK
<1> QED BY <1>1, <1>2, OutsideInv DEF BuildSimExecutes

(* The invariant holds when the process starts for the first time. *)
LEMMA InitInv == Init => IInv
<1> SUFFICES ASSUME Init PROVE IInv
  OBVIOUS
<1>1. BuildSimOK
  <2>1. CASE log = <<>> /\ present = FALSE
    <3>1. present \in BOOLEAN /\ ~present
      BY <2>1, Zenon
    <3>2. log \in Seq(Equipment) /\ \A v \in 1..Len(log) : log[v].version = v
      BY <2>1
    <3>3. inflight \in SUBSET Request
      BY DEF Init, BuildSimInit
    <3> QED BY <3>1, <3>2, <3>3 DEF BuildSimOK, BuildSimTypeOK
  <2>2. ASSUME NEW l \in Locks, NEW c \in Contacts, present \in BOOLEAN,
               log = <<[lock |-> l, contact |-> c, version |-> 1]>>
        PROVE  BuildSimOK
    <3>1. [lock |-> l, contact |-> c, version |-> 1] \in Equipment
      BY DEF Equipment
    <3>2. log \in Seq(Equipment) /\ Len(log) = 1 /\ log[1].version = 1
      BY <2>2, <3>1
    <3>3. \A v \in 1..Len(log) : log[v].version = v
      BY <3>2
    <3>4. inflight = {}
      BY DEF Init, BuildSimInit
    <3>5. Len(log) > 0 /\ inflight \in SUBSET Request
      BY <3>2, <3>4
    <3>6. BuildSimTypeOK
      BY <2>2, <3>2, <3>5 DEF BuildSimTypeOK
    <3> QED BY <3>3, <3>5, <3>6 DEF BuildSimOK
  <2> QED BY <2>1, <2>2 DEF Init, BuildSimInit
<1>2. MemoryOK /\ PublishedOK /\ HandlerOK /\ ReportOK
  BY DEF Init, MemoryOK, PublishedOK, ReportsAreFacts, HandlerOK, ReportOK, NoCommand
<1>3. seen \in SetOver(CommandIds) /\ DedupeOK
  <2>1. SeenCapacity \in Nat
    BY SeenCapacityIsPositive
  <2>2. Since(<<>>, 0) = <<>>
    BY DEF Since
  <2> QED BY <2>1, <2>2, NewConsistent, NewNewest DEF Init, DedupeOK
<1>4. TypeOK
  <2>1. 0 \in 0..Retries /\ <<>> \in Seq(CommandIds) /\ 0 \in 0..Len(<<>>)
    BY RetriesIsPositive
  <2> QED BY <1>1, <1>3, <2>1, RecordTypes, BudgetIsNatural
          DEF Init, TypeOK, BuildSimOK, SetOver
<1> QED BY <1>1, <1>2, <1>3, <1>4 DEF IInv

(* Every step of the actuator or of BuildSim preserves the invariant. *)
LEMMA NextInv == IInv /\ [Next]_vars => IInv'
<1> SUFFICES ASSUME IInv, [Next]_vars PROVE IInv'
  OBVIOUS
<1>1. CASE UNCHANGED vars
  <2>1. BuildSimOK' /\ Extends(log, log') /\ budget' \in [BudgetKinds -> Nat]
        /\ UNCHANGED <<actVars, published, ids>>
    BY <1>1 DEF vars, bsVars, IInv, TypeOK, BuildSimOK, BuildSimTypeOK, Extends
  <2> QED BY <2>1, OutsideInv
<1>2. CASE Step
  BY <1>2, DispatchInv, AdmitInv, CreateEquipmentInv, GetEquipmentInv, PutEquipmentInv,
     EmitInv DEF Step
<1>3. CASE Next
  BY <1>1, <1>2, <1>3, ReceiveInv, RestartInv, BuildSimForgetsInv, BuildSimExecutesInv
     DEF Next, Silent
<1> QED BY <1>1, <1>3

-----------------------------------------------------------------------------
(* The inductive invariant holds in every behaviour. *)
THEOREM IInvHolds == Spec => []IInv
BY InitInv, NextInv, PTL DEF Spec

(* The variables keep their types. *)
THEOREM TypeCorrect == Spec => []TypeOK
<1>1. IInv => TypeOK
  BY DEF IInv
<1> QED BY <1>1, IInvHolds, PTL

(* Every door.state on the bus tells what BuildSim stored at the version   *)
(* it quotes.                                                              *)
THEOREM ReportsAreFactsHolds == Spec => []ReportsAreFacts
<1>1. IInv => ReportsAreFacts
  BY DEF IInv, PublishedOK
<1> QED BY <1>1, IInvHolds, PTL

-----------------------------------------------------------------------------
(* Only Emit puts a door.state on the bus. *)
LEMMA OnlyEmitPublishes ==
  ASSUME [Next]_vars, published' # published
  PROVE  Emit
BY DEF vars, Next, Step, Receive, ReceiveCommand, Dispatch, Admit, CreateEquipment, GetEquipment,
       PutEquipment, Restart, BuildSimForgets, BuildSimExecutes, Silent

(* A door.state never carries an older version than one already on the     *)
(* bus, whatever was restarted or recreated in between.                    *)
THEOREM VersionsNeverGoBackHolds == Spec => VersionsNeverGoBack
<1> DEFINE A == published' # published =>
                  \A s \in published :
                     report.version >= s.version \/ (report.version = 0 /\ ~ready)
<1>1. IInv /\ [Next]_vars => [A]_vars
  <2> SUFFICES ASSUME IInv, [Next]_vars, published' # published,
                      NEW s \in published
               PROVE  report.version >= s.version \/ (report.version = 0 /\ ~ready)
    OBVIOUS
  <2>1. pc = "emit"
    BY OnlyEmitPublishes DEF Emit
  <2>2. report.version = current.version /\ current.version \in Nat /\ s.version \in Nat
    BY <2>1 DEF IInv, ReportOK, TypeOK, Equipment, DoorState
  <2>3. CASE ready
    BY <2>2, <2>3 DEF IInv, PublishedOK
  <2>4. CASE ~ready
    BY <2>2, <2>4 DEF IInv, MemoryOK, ZeroEquipment
  <2> QED BY <2>3, <2>4
<1> QED BY <1>1, IInvHolds, PTL DEF Spec, VersionsNeverGoBack

(* A redelivered command starts no second write before SeenCapacity other  *)
(* commands were handled or the process was started again.                 *)
THEOREM DuplicateNeverWritesHolds == Spec => DuplicateNeverWrites
<1> DEFINE A == pc = "dedupe" /\ pc' = "put" =>
                  ForgottenOrLongAgo(cmd.id, admitted, booted, SeenCapacity)
<1>1. IInv /\ [Next]_vars => [A]_vars
  <2> SUFFICES ASSUME IInv, [Next]_vars, pc = "dedupe", pc' = "put"
               PROVE  ForgottenOrLongAgo(cmd.id, admitted, booted, SeenCapacity)
    OBVIOUS
  <2>1. Admit
    BY DEF vars, Next, Step, Receive, ReceiveCommand, Dispatch, CreateEquipment, GetEquipment, PutEquipment,
           Emit, Restart, Boot, BuildSimForgets, BuildSimExecutes, actVars, Silent
  <2>2. ~Seen(seen, cmd.id)
    BY <2>1 DEF Admit, Report
  <2>3. /\ seen \in SetOver(CommandIds) /\ admitted \in Seq(CommandIds)
        /\ cmd.id \in CommandIds /\ SeenCapacity \in Nat \ {0}
        /\ Consistent(seen, SeenCapacity) /\ booted \in 0..Len(admitted)
        /\ Newest(seen, Since(admitted, booted), SeenCapacity)
    BY SeenCapacityIsPositive DEF IInv, HandlerOK, TypeOK, DedupeOK, SetOver, CommandIds
  <2> QED BY <2>2, <2>3, UnseenIsForgotten
<1> QED BY <1>1, IInvHolds, PTL DEF Spec, DuplicateNeverWrites

-----------------------------------------------------------------------------
(* A request to unlock is sent, and an unlocked lock is written, only for  *)
(* an unlock command of this door or by a request sent for one.            *)
Asked == cmd.door = Door /\ cmd.desired = "unlocked"

UnlockCaused ==
  /\ Len(log') > Len(log) /\ log'[Len(log')].lock = "unlocked" =>
       Asked \/ \E req \in inflight \ inflight' : req.eq.lock = "unlocked"
  /\ \A req \in inflight' \ inflight : req.eq.lock = "unlocked" => Asked

(* Without a write and without a new abandoned request nothing unlocks. *)
LEMMA QuietUnlocks ==
  ASSUME BuildSimOK, UNCHANGED <<log, inflight>>
  PROVE  UnlockCaused
<1>1. Len(log) \in Nat
  BY DEF BuildSimOK, BuildSimTypeOK
<1> QED BY <1>1 DEF UnlockCaused

(* A call that sends eq unlocks only if eq is unlocked, which is asked for. *)
LEMMA CallUnlocks ==
  ASSUME BuildSimOK, NEW eq \in Equipment, NEW op \in {"POST", "PUT"},
         eq.lock = "unlocked" => Asked,
         \/ Write(eq) /\ UNCHANGED inflight
         \/ UNCHANGED bsVars
         \/ GiveUp([op |-> op, eq |-> eq])
  PROVE  UnlockCaused
<1>1. Len(log) \in Nat
  BY DEF BuildSimOK, BuildSimTypeOK
<1>2. CASE Write(eq) /\ UNCHANGED inflight
  <2>1. inflight' \in SUBSET Request
    BY <1>2 DEF BuildSimOK, BuildSimTypeOK
  <2>2. log'[Len(log')].lock = eq.lock
    BY <1>2, <2>1, WriteStep, StampType
  <2> QED BY <1>2, <2>2 DEF UnlockCaused
<1>3. CASE UNCHANGED bsVars
  BY <1>3, QuietUnlocks DEF bsVars
<1>4. CASE GiveUp([op |-> op, eq |-> eq])
  <2>1. log' = log /\ inflight' \subseteq inflight \cup {[op |-> op, eq |-> eq]}
    BY <1>4 DEF GiveUp
  <2> QED BY <1>1, <2>1 DEF UnlockCaused
<1> QED BY <1>2, <1>3, <1>4

(* An abandoned request unlocks only if it asked to. *)
LEMMA LateUnlocks ==
  ASSUME BuildSimOK, ExecuteLate
  PROVE  UnlockCaused
<1>1. PICK req \in inflight :
        /\ inflight' = inflight \ {req}
        /\ IF (req.op = "PUT") = present THEN Write(req.eq) ELSE UNCHANGED <<log, present>>
  BY DEF ExecuteLate
<1>2. inflight' \in SUBSET Request /\ req.eq \in Equipment /\ Len(log) \in Nat
      /\ req \in inflight \ inflight' /\ inflight' \ inflight = {}
  BY <1>1 DEF BuildSimOK, BuildSimTypeOK, Request
<1>3. CASE Write(req.eq)
  <2>1. log'[Len(log')].lock = req.eq.lock
    BY <1>2, <1>3, WriteStep, StampType
  <2> QED BY <1>2, <2>1 DEF UnlockCaused
<1>4. CASE UNCHANGED <<log, present>>
  BY <1>2, <1>4 DEF UnlockCaused
<1> QED BY <1>1, <1>3, <1>4

(* The door's lock is opened only on command. *)
THEOREM UnlocksOnlyOnCommandHolds == Spec => UnlocksOnlyOnCommand
<1>1. IInv /\ [Next]_vars => [UnlockCaused]_vars
  <2> SUFFICES ASSUME IInv, [Next]_vars PROVE UnlockCaused
    OBVIOUS
  <2>1. BuildSimOK
    BY DEF IInv
  <2>2. CASE UNCHANGED <<log, inflight>>
    BY <2>1, <2>2, QuietUnlocks
  <2>3. CASE CreateEquipment
    <3>1. Blank \in Equipment /\ Blank.lock # "unlocked"
      BY RecordTypes DEF Blank
    <3>2. PICK status : Post(Blank, status)
      BY <2>3 DEF CreateEquipment
    <3> QED BY <2>1, <3>1, <3>2, CallUnlocks DEF Post
  <2>4. CASE PutEquipment
    <3>1. want \in Equipment /\ want.lock = cmd.desired /\ cmd.door = Door
      BY <2>4 DEF PutEquipment, IInv, TypeOK, HandlerOK
    <3>2. PICK status : Put(want, status)
      BY <2>4 DEF PutEquipment
    <3>3. want.lock = "unlocked" => Asked
      BY <3>1 DEF Asked
    <3> QED BY <2>1, <3>1, <3>2, <3>3, CallUnlocks DEF Put
  <2>5. CASE BuildSimExecutes
    BY <2>1, <2>5, LateUnlocks DEF BuildSimExecutes
  <2> QED BY <2>2, <2>3, <2>4, <2>5
          DEF vars, bsVars, Next, Step, Receive, ReceiveCommand, Dispatch, Admit, GetEquipment, Get, Emit,
              Restart, BuildSimForgets, Forget, Silent
<1> QED BY <1>1, IInvHolds, PTL DEF Spec, UnlocksOnlyOnCommand, UnlockCaused, Asked

-----------------------------------------------------------------------------
(* The actuator implements DoorLock.                                       *)

(* The invariant of the actuator, and what its requests look like: the     *)
(* warm-up call is made for no command, and whatever creates equipment     *)
(* creates it locked.                                                      *)
WarmupOK == why = "warmup" /\ pc \in {"create", "get"} => cmd = NoCommand
PostsOK  == \A req \in inflight : req.op = "POST" => req.eq.lock = "locked"

RInv == IInv /\ WarmupOK /\ PostsOK

LEMMA RInvHolds == Spec => []RInv
<1>1. Init => RInv
  BY InitInv DEF Init, BuildSimInit, RInv, WarmupOK, PostsOK
<1>2. RInv /\ [Next]_vars => RInv'
  <2> SUFFICES ASSUME RInv, [Next]_vars PROVE RInv'
    OBVIOUS
  <2>1. IInv'
    BY NextInv DEF RInv
  <2>2. WarmupOK'
    <3>1. CASE CreateEquipment \/ GetEquipment
      BY <3>1 DEF RInv, WarmupOK, CreateEquipment, GetEquipment
    <3>2. CASE ~(CreateEquipment \/ GetEquipment)
      BY <3>2 DEF RInv, WarmupOK, vars, actVars, Next, Step, Receive, ReceiveCommand, Dispatch,
                  Admit, Report, PutEquipment, NextAttempt, Emit, Cleared, Boot, Restart,
                  BuildSimForgets, BuildSimExecutes, Silent
    <3> QED BY <3>1, <3>2
  <2>3. PostsOK'
    <3>1. CASE UNCHANGED inflight
      BY <3>1 DEF RInv, PostsOK
    <3>2. CASE CreateEquipment
      <4>1. inflight' \subseteq inflight \cup {[op |-> "POST", eq |-> Blank]}
        BY <3>2 DEF CreateEquipment, Post, GiveUp, bsVars
      <4> QED BY <4>1 DEF RInv, PostsOK, Blank
    <3>3. CASE PutEquipment
      <4>1. inflight' \subseteq inflight \cup {[op |-> "PUT", eq |-> want]}
        BY <3>3 DEF PutEquipment, Put, GiveUp, bsVars
      <4> QED BY <4>1 DEF RInv, PostsOK
    <3>4. CASE BuildSimExecutes
      BY <3>4 DEF RInv, PostsOK, BuildSimExecutes, ExecuteLate
    <3> QED BY <3>1, <3>2, <3>3, <3>4
            DEF vars, bsVars, Next, Step, Receive, ReceiveCommand, Dispatch, Admit, GetEquipment,
                Get, Emit, Restart, BuildSimForgets, Forget, Silent
  <2> QED BY <2>1, <2>2, <2>3 DEF RInv
<1> QED BY <1>1, <1>2, PTL DEF Spec

-----------------------------------------------------------------------------
(* The mapped variables, by names of their own. *)
Positions == [v \in 1..Len(log) |-> log[v].lock]
Announced == {[n |-> s.version, position |-> s.lock] : s \in {r \in published : r.version # 0}}

(* Only positions are ever asked for. *)
LEMMA AskedType == IInv => AskedFor \subseteq Locks
<1> SUFFICES ASSUME IInv PROVE AskedFor \subseteq Locks
  OBVIOUS
<1>1. cmd.desired \in Locks
  BY RecordTypes, CommandsHaveALock DEF IInv, TypeOK
<1>2. \A req \in inflight : req.eq.lock \in Locks
  BY DEF IInv, BuildSimOK, BuildSimTypeOK, Request, Equipment
<1> QED BY <1>1, <1>2 DEF AskedFor

(* A write appends its lock to the positions. *)
LEMMA WriteTurns ==
  ASSUME BuildSimOK, NEW eq \in Equipment, Write(eq), inflight' \in SUBSET Request
  PROVE  Positions' = Append(Positions, eq.lock)
<1>1. /\ log \in Seq(Equipment) /\ log' = Append(log, Stamp(eq))
      /\ Stamp(eq) \in Equipment /\ Stamp(eq).lock = eq.lock
  BY StampType DEF BuildSimOK, BuildSimTypeOK, Write
<1>2. Len(log) \in Nat /\ Len(log') = Len(log) + 1
      /\ \A v \in 1..Len(log) : log'[v] = log[v]
  BY <1>1
<1>3. log'[Len(log) + 1].lock = eq.lock
  BY <1>1
<1>4. Positions \in Seq(Locks) /\ Len(Positions) = Len(log) /\ eq.lock \in Locks
  <2>1. \A v \in 1..Len(log) : log[v] \in Equipment
    BY <1>1
  <2>2. eq.lock \in Locks /\ \A v \in 1..Len(log) : log[v].lock \in Locks
    BY <2>1 DEF Equipment
  <2> QED BY <1>2, <2>2 DEF Positions
<1>5. Append(Positions, eq.lock)
        = [v \in 1..(Len(log) + 1) |-> IF v <= Len(log) THEN Positions[v] ELSE eq.lock]
  BY <1>2, <1>4
<1>6. \A v \in 1..(Len(log) + 1) :
        log'[v].lock = IF v <= Len(log) THEN Positions[v] ELSE eq.lock
  BY <1>2, <1>3 DEF Positions
<1> QED BY <1>2, <1>5, <1>6 DEF Positions

-----------------------------------------------------------------------------
(* A step that moves nothing is, for the door, at most a new request. *)
LEMMA QuietIsAsk ==
  ASSUME IInv', UNCHANGED <<log, present, published>>
  PROVE  Lock!Ask
<1>1. (AskedFor \subseteq Locks)'
  BY AskedType, PTL
<1> QED BY <1>1 DEF Lock!Ask, Lock!Positions, Locks

(* The equipment is created: fitted locked, and nobody asks anew. *)
LEMMA CreateIsFit ==
  ASSUME RInv, IInv', CreateEquipment
  PROVE  Lock!Next
<1>1. IInv /\ BuildSimOK /\ Blank \in Equipment /\ UNCHANGED <<cmd, published>>
  BY RecordTypes DEF RInv, IInv, CreateEquipment
<1>2. CASE Post(Blank, "ok") /\ Ensured(Stamp(Blank))
  <2>1. /\ ~present /\ present' = TRUE /\ UNCHANGED inflight /\ Write(Blank)
        /\ inflight' \in SUBSET Request
    BY <1>1, <1>2 DEF Post, Write, BuildSimOK, BuildSimTypeOK
  <2>2. Positions' = Append(Positions, "locked")
    BY <1>1, <2>1, WriteTurns DEF Blank
  <2>3. AskedFor' = AskedFor
    BY <1>2, <2>1 DEF RInv, WarmupOK, CreateEquipment, Ensured, NextAttempt, Report, AskedFor, NoCommand
  <2>4. Lock!Fit
    BY <1>1, <2>1, <2>2, <2>3 DEF Lock!Fit, Positions
  <2> QED BY <2>4 DEF Lock!Next
<1>3. CASE UNCHANGED <<log, present>>
  BY <1>1, <1>3, QuietIsAsk DEF Lock!Next
<1> QED BY <1>2, <1>3 DEF CreateEquipment, Post, GiveUp, bsVars

(* A PUT is answered: the lock turns to where the command wants it. *)
LEMMA PutIsTurn ==
  ASSUME RInv, IInv', PutEquipment
  PROVE  Lock!Next
<1>1. /\ IInv /\ BuildSimOK /\ want \in Equipment /\ want.lock = cmd.desired
      /\ cmd \in Commands /\ cmd.door = Door /\ pc = "put" /\ UNCHANGED <<cmd, published>>
  BY DEF RInv, IInv, HandlerOK, TypeOK, PutEquipment
<1>2. CASE Put(want, "ok") /\ pc' = "emit"
  <2>1. /\ present /\ present' = TRUE /\ UNCHANGED inflight /\ Write(want)
        /\ inflight' \in SUBSET Request
    BY <1>1, <1>2 DEF Put, Write, BuildSimOK, BuildSimTypeOK
  <2>2. Positions' = Append(Positions, want.lock)
    BY <1>1, <2>1, WriteTurns
  <2>3. want.lock \in AskedFor /\ AskedFor' = AskedFor
    BY <1>1, <1>2, <2>1, CommandIdsArePositive DEF AskedFor
  <2>4. Lock!Turn
    BY <1>1, <2>1, <2>2, <2>3 DEF Lock!Turn, Positions
  <2> QED BY <2>4 DEF Lock!Next
<1>3. CASE UNCHANGED <<log, present>>
  BY <1>1, <1>3, QuietIsAsk DEF Lock!Next
<1> QED BY <1>2, <1>3 DEF PutEquipment, Put, GiveUp, bsVars, Report

(* A request nobody waits for is executed: a PUT turns the lock to a       *)
(* position still asked for, a POST fits the door locked.                  *)
LEMMA LateIsTurnOrFit ==
  ASSUME RInv, IInv', BuildSimExecutes
  PROVE  Lock!Next
<1>1. IInv /\ BuildSimOK /\ UNCHANGED <<pc, cmd, published>>
  BY DEF RInv, IInv, BuildSimExecutes, actVars
<1>2. PICK req \in inflight :
        /\ inflight' = inflight \ {req}
        /\ IF (req.op = "PUT") = present THEN Write(req.eq) ELSE UNCHANGED <<log, present>>
  BY DEF BuildSimExecutes, ExecuteLate
<1>3. /\ req.eq \in Equipment /\ req.op \in {"POST", "PUT"} /\ present \in BOOLEAN
      /\ inflight' \in SUBSET Request
  BY <1>1, <1>2 DEF BuildSimOK, BuildSimTypeOK, Request
<1>4. CASE UNCHANGED <<log, present>>
  BY <1>1, <1>4, QuietIsAsk DEF Lock!Next
<1>5. CASE Write(req.eq) /\ req.op = "PUT" /\ present
  <2>1. Positions' = Append(Positions, req.eq.lock) /\ present' = TRUE
    BY <1>1, <1>3, <1>5, WriteTurns DEF Write
  <2>2. req.eq.lock \in AskedFor /\ AskedFor' \subseteq AskedFor
    BY <1>1, <1>2, <1>5 DEF AskedFor
  <2>3. Lock!Turn
    BY <1>1, <1>5, <2>1, <2>2 DEF Lock!Turn, Positions
  <2> QED BY <2>3 DEF Lock!Next
<1>6. CASE Write(req.eq) /\ req.op = "POST" /\ ~present
  <2>1. req.eq.lock = "locked"
    BY <1>2, <1>6 DEF RInv, PostsOK
  <2>2. Positions' = Append(Positions, "locked") /\ present' = TRUE
    BY <1>1, <1>3, <1>6, <2>1, WriteTurns DEF Write
  <2>3. AskedFor' = AskedFor
    BY <1>1, <1>2, <1>6 DEF AskedFor
  <2>4. Lock!Fit
    BY <1>1, <1>6, <2>2, <2>3 DEF Lock!Fit, Positions
  <2> QED BY <2>4 DEF Lock!Next
<1> QED BY <1>2, <1>3, <1>4, <1>5, <1>6

(* A report is an announcement of what the lock was at its version. *)
LEMMA EmitIsAnnounce ==
  ASSUME IInv, IInv', Emit
  PROVE  Lock!Next
<1>1. UNCHANGED <<log, present, inflight>> /\ pc = "emit" /\ pc' = "idle"
      /\ published' \in {published \cup {report}, published}
  BY DEF Emit, bsVars
<1>2. CASE published' = published
  BY <1>1, <1>2, QuietIsAsk DEF Lock!Next
<1>3. CASE published' = published \cup {report} /\ report.version = 0
  <2>1. Announced' = Announced
    BY <1>3 DEF Announced
  <2>2. (AskedFor \subseteq Locks)'
    BY AskedType, PTL
  <2>3. Lock!Ask
    BY <1>1, <2>1, <2>2 DEF Lock!Ask, Lock!Positions, Locks, Announced
  <2> QED BY <2>3 DEF Lock!Next
<1>4. CASE published' = published \cup {report} /\ report.version # 0
  <2>1. /\ report.version \in 1..Len(log) /\ log[report.version].lock = report.lock
    <3>1. ready
      BY <1>1, <1>4 DEF IInv, ReportOK, MemoryOK, ZeroEquipment
    <3> QED BY <1>1, <3>1 DEF IInv, ReportOK, MemoryOK, LoggedIn
  <2>2. Announced' = Announced \cup {[n |-> report.version, position |-> report.lock]}
    BY <1>4 DEF Announced
  <2>3. AskedFor' \subseteq AskedFor
    BY <1>1 DEF AskedFor
  <2>4. /\ Positions' = Positions /\ Len(Positions) = Len(log)
        /\ Positions[report.version] = report.lock
    BY <1>1, <2>1 DEF Positions, IInv, BuildSimOK, BuildSimTypeOK
  <2>5. \E n \in 1..Len(Positions) :
           Announced' = Announced \cup {[n |-> n, position |-> Positions[n]]}
    BY <2>1, <2>2, <2>4
  <2>6. Lock!Announce
    BY <1>1, <2>3, <2>4, <2>5 DEF Lock!Announce, Positions, Announced
  <2> QED BY <2>6 DEF Lock!Next
<1> QED BY <1>1, <1>2, <1>3, <1>4

-----------------------------------------------------------------------------
(* The actuator starts as the abstract door does. *)
LEMMA LockInit == Init => Lock!Init
<1> SUFFICES ASSUME Init PROVE Lock!Init
  OBVIOUS
<1>1. AskedFor = {} /\ Announced = {}
  BY DEF Init, BuildSimInit, AskedFor, NoCommand, Announced
<1>2. CASE log = <<>> /\ present = FALSE
  <2>1. Positions = <<>>
    BY <1>2 DEF Positions
  <2> QED BY <1>1, <1>2, <2>1 DEF Lock!Init, Positions, Announced
<1>3. CASE /\ \E l \in Locks, c \in Contacts :
                log = <<[lock |-> l, contact |-> c, version |-> 1]>>
           /\ present \in BOOLEAN
  <2>1. PICK l \in Locks : Positions = <<l>>
    BY <1>3 DEF Positions
  <2> QED BY <1>1, <1>3, <2>1 DEF Lock!Init, Lock!Positions, Locks, Positions, Announced
<1> QED BY <1>2, <1>3 DEF Init, BuildSimInit

(* The lock takes no position nobody asked for, is fitted locked, and what *)
(* is announced of it is true: the actuator with its retries, recreation,  *)
(* restarts and abandoned calls is a DoorLock.                             *)
THEOREM ImplementsDoorLockHolds == Spec => ImplementsDoorLock
<1>1. Init => Lock!Init
  BY LockInit
<1>2. RInv /\ RInv' /\ [Next]_vars => [Lock!Next]_(Lock!lockVars)
  <2> SUFFICES ASSUME RInv, RInv', [Next]_vars PROVE [Lock!Next]_(Lock!lockVars)
    OBVIOUS
  <2>1. IInv /\ IInv'
    BY DEF RInv
  <2>2. CASE UNCHANGED <<log, present, published>>
    BY <2>1, <2>2, QuietIsAsk DEF Lock!Next
  <2>3. CASE CreateEquipment
    BY <2>1, <2>3, CreateIsFit
  <2>4. CASE PutEquipment
    BY <2>1, <2>4, PutIsTurn
  <2>5. CASE BuildSimExecutes
    BY <2>1, <2>5, LateIsTurnOrFit
  <2>6. CASE Emit
    BY <2>1, <2>6, EmitIsAnnounce
  <2>7. CASE BuildSimForgets
    <3>1. Lock!Lose
      BY <2>7 DEF BuildSimForgets, Forget, actVars, Lock!Lose, AskedFor
    <3> QED BY <3>1 DEF Lock!Next
  <2> QED BY <2>2, <2>3, <2>4, <2>5, <2>6, <2>7
          DEF vars, bsVars, Next, Step, Receive, ReceiveCommand, Dispatch, Admit, GetEquipment,
              Get, Restart, Silent
<1> QED BY <1>1, <1>2, RInvHolds, PTL DEF Spec, ImplementsDoorLock, Lock!Spec

-----------------------------------------------------------------------------
(* d and c are the decision and the command the policy gives for b. *)
Answers(d, c, b) ==
  /\ d.badge = b.id /\ d.door = b.door /\ c.door = b.door /\ d.id = c.id
  /\ c.desired = "unlocked" <=> Agent!Earned(b)
  /\ d.action = "allow" <=> Agent!Earned(b)

(* A command the agent can issue, and the bus has the decision for it. *)
Justified(c) ==
  \E d \in decisions, b \in Badges : Answers(d, c, b)

(* Ids are minted one per delivery. *)
MintOK ==
  /\ minted \in Nat /\ agentBudget \in [{"deliver", "crash"} -> Nat]
  /\ minted + agentBudget["deliver"] <= MaxCommands

(* handleBadge publishes what the policy said, the command second. *)
PendingOK ==
  /\ agentPc \in {"idle", "decision", "command"}
  /\ agentPc # "idle" =>
       command \in AllCommands /\ \E b \in Badges : Answers(decision, command, b)
  /\ agentPc = "command" => decision \in decisions

CommandsOK == \A c \in commands : c \in AllCommands /\ Justified(c)

AgentOK == MintOK /\ PendingOK /\ CommandsOK

(* What the actuator handles came over the bus, and so did what its        *)
(* abandoned requests were sent for.                                       *)
HandledOK == cmd = NoCommand \/ cmd \in commands
RequestsOK ==
  \A req \in inflight :
     /\ req.eq.lock = "unlocked" => \E d \in decisions : Admits(d)
     /\ req.op = "PUT" => req.eq.lock \in Wanted

-----------------------------------------------------------------------------
(* The agent's locks and its own typing. *)
LEMMA DecideSound ==
  ASSUME NEW b \in Badges, b.decodes, Agent!CompleteRequest(b)
  PROVE  /\ Agent!Decide(Config, b).lock \in Locks
         /\ Agent!Decide(Config, b).lock = "unlocked" <=> Agent!Earned(b)
         /\ Agent!Decide(Config, b).action = "allow" <=> Agent!Earned(b)
<1> DEFINE permitted == Agent!CardPermitted(Config, b.card, b.room)
           inWindow  == Agent!WithinWindow(Config, b.room, b.at)
<1>1. CASE permitted /\ inWindow
  BY <1>1 DEF Agent!Decide, Agent!Outcome, Locks, Agent!Earned
<1>2. CASE permitted /\ ~inWindow
  BY <1>2 DEF Agent!Decide, Agent!Outcome, Locks, Agent!Earned
<1>3. CASE ~permitted /\ Agent!RoomRestricted(Config, b.room)
  BY <1>3 DEF Agent!Decide, Agent!Outcome, Locks, Agent!Earned
<1>4. CASE ~permitted /\ ~Agent!RoomRestricted(Config, b.room)
  BY <1>4 DEF Agent!Decide, Agent!Outcome, Locks, Agent!Earned
<1> QED BY <1>1, <1>2, <1>3, <1>4

(* A delivery or a restart is taken from the budget. *)
LEMMA SpendStep ==
  ASSUME MintOK, NEW kind \in {"deliver", "crash"}, Agent!Spend(kind)
  PROVE  /\ agentBudget' \in [{"deliver", "crash"} -> Nat]
         /\ agentBudget'["deliver"] = agentBudget["deliver"] - (IF kind = "deliver" THEN 1 ELSE 0)
BY DEF MintOK, Agent!Spend

(* Decisions are never taken back: what justified a command still does. *)
LEMMA JustifiedStays ==
  ASSUME decisions \subseteq decisions', CommandsOK, commands' = commands
  PROVE  CommandsOK'
BY DEF CommandsOK, Justified, Answers

(* A badge.read is answered as the policy says, with a fresh number. *)
LEMMA ReceiveBadgeOK ==
  ASSUME AgentOK, NEW b \in Badges, Agent!ReceiveBadge(b)
  PROVE  AgentOK'
<1>1. /\ agentPc = "idle" /\ UNCHANGED <<decisions, commands>>
      /\ agentBudget' \in [{"deliver", "crash"} -> Nat]
      /\ agentBudget'["deliver"] = agentBudget["deliver"] - 1
  BY SpendStep DEF AgentOK, Agent!ReceiveBadge
<1>2. CommandsOK'
  BY <1>1, JustifiedStays DEF AgentOK
<1>3. CASE UNCHANGED <<agentPc, decision, command, minted>>
  <2>1. MintOK'
    BY <1>1, <1>3, AgentBudgetIsNatural DEF AgentOK, MintOK, MaxCommands
  <2>2. PendingOK'
    BY <1>1, <1>3 DEF AgentOK, PendingOK
  <2> QED BY <1>2, <2>1, <2>2 DEF AgentOK
<1>4. CASE b.decodes /\ Agent!CompleteRequest(b) /\ Agent!Deliberate(b)
  <2> DEFINE outcome == Agent!Decide(Config, b)
  <2>1. /\ agentPc' = "decision" /\ minted' = minted + 1
        /\ decision' = [id |-> minted + 1, badge |-> b.id, door |-> b.door,
                        action |-> outcome.action, evidence |-> occupancy[b.room]]
        /\ command' = [id |-> minted + 1, door |-> b.door, desired |-> outcome.lock]
    BY <1>4 DEF Agent!Deliberate, Agent!Conclude
  <2>2. /\ outcome.lock \in Locks
        /\ outcome.lock = "unlocked" <=> Agent!Earned(b)
        /\ outcome.action = "allow" <=> Agent!Earned(b)
    BY <1>4, DecideSound
  <2> HIDE DEF outcome
  <2>3. MintOK' /\ minted + 1 \in 1..MaxCommands
    BY <1>1, <2>1, AgentBudgetIsNatural DEF AgentOK, MintOK, MaxCommands
  <2>4. command' \in AllCommands
    BY <2>1, <2>2, <2>3 DEF AllCommands
  <2>5. Answers(decision', command', b)
    BY <2>1, <2>2 DEF Answers
  <2>6. PendingOK'
    BY <2>1, <2>4, <2>5 DEF PendingOK, Answers
  <2> QED BY <1>2, <2>3, <2>6 DEF AgentOK
<1> QED BY <1>3, <1>4 DEF Agent!ReceiveBadge

(* The decision goes out before its command. *)
LEMMA PublishDecisionOK ==
  ASSUME AgentOK, Agent!PublishDecision
  PROVE  AgentOK'
<1>1. /\ agentPc = "decision" /\ UNCHANGED <<minted, commands, agentBudget>>
      /\ decisions \subseteq decisions'
      /\ \/ agentPc' = "idle"
         \/ agentPc' = "command" /\ UNCHANGED <<decision, command>> /\ decision \in decisions'
  BY DEF Agent!PublishDecision, Agent!DecisionRefused, Agent!Return, Agent!history
<1>2. CommandsOK'
  BY <1>1, JustifiedStays DEF AgentOK
<1>3. MintOK' /\ PendingOK'
  BY <1>1 DEF AgentOK, MintOK, PendingOK, Answers
<1> QED BY <1>2, <1>3 DEF AgentOK

(* The command goes out with its decision on the bus. *)
LEMMA PublishCommandOK ==
  ASSUME AgentOK, Agent!PublishCommand
  PROVE  AgentOK'
<1>1. /\ agentPc = "command" /\ agentPc' = "idle" /\ UNCHANGED <<minted, decisions, agentBudget>>
      /\ commands' \in {commands, commands \cup {command}}
  BY DEF Agent!PublishCommand, Agent!Return, Agent!history
<1>2. command \in AllCommands /\ Justified(command)
  BY <1>1 DEF AgentOK, PendingOK, Justified
<1>3. CommandsOK'
  BY <1>1, <1>2 DEF AgentOK, CommandsOK, Justified
<1>4. MintOK' /\ PendingOK'
  BY <1>1 DEF AgentOK, MintOK, PendingOK
<1> QED BY <1>3, <1>4 DEF AgentOK

(* Every step of the loop keeps the agent's part. *)
LEMMA AgentStepOK ==
  ASSUME AgentOK, [LoopNext]_loopVars
  PROVE  AgentOK'
<1>1. CASE UNCHANGED agentVars
  BY <1>1 DEF AgentOK, MintOK, PendingOK, CommandsOK, Justified, Answers, agentVars
<1>2. CASE DeliverState
  <2>1. agentPc = "idle" /\ Agent!Spend("deliver")
        /\ UNCHANGED <<agentPc, decision, command, minted, decisions, commands>>
    BY <1>2 DEF DeliverState, Agent!ReceiveDoorState
  <2>2. MintOK'
    BY <2>1, SpendStep, AgentBudgetIsNatural DEF AgentOK, MintOK, MaxCommands
  <2>3. CommandsOK'
    BY <2>1, JustifiedStays DEF AgentOK
  <2> QED BY <2>1, <2>2, <2>3 DEF AgentOK, PendingOK
<1>3. CASE Agent!Restart
  <2>1. agentPc' = "idle" /\ Agent!Spend("crash") /\ UNCHANGED <<minted, decisions, commands>>
    BY <1>3 DEF Agent!Restart, Agent!Return
  <2>2. MintOK'
    BY <2>1, SpendStep, AgentBudgetIsNatural DEF AgentOK, MintOK, MaxCommands
  <2>3. CommandsOK'
    BY <2>1, JustifiedStays DEF AgentOK
  <2> QED BY <2>1, <2>2, <2>3 DEF AgentOK, PendingOK
<1> QED BY <1>1, <1>2, <1>3, ReceiveBadgeOK, PublishDecisionOK, PublishCommandOK
        DEF LoopNext, AgentStep, DoorStep, Quiet, loopVars

LEMMA AgentOKHolds == LoopSpec => []AgentOK
<1>1. LoopInit => AgentOK
  BY AgentBudgetIsNatural
     DEF LoopInit, Agent!Init, AgentOK, MintOK, PendingOK, CommandsOK, MaxCommands
<1> QED BY <1>1, AgentStepOK, PTL DEF LoopSpec

-----------------------------------------------------------------------------
(* Every step of the loop is a step of DoorActuator or leaves its          *)
(* variables alone: a command it is given is one of Commands.              *)
LEMMA ActuatorStep == AgentOK /\ [LoopNext]_loopVars => [Next]_vars
<1> SUFFICES ASSUME AgentOK, [LoopNext]_loopVars PROVE [Next]_vars
  OBVIOUS
<1>1. CASE DeliverCommand
  <2>1. PICK c \in commands : ReceiveCommand(c)
    BY <1>1 DEF DeliverCommand
  <2>2. c \in Commands
    BY CommandsAreTheAgents DEF AgentOK, CommandsOK
  <2> QED BY <2>1, <2>2 DEF Next, Receive
<1> QED BY <1>1 DEF LoopNext, AgentStep, DoorStep, Quiet, Next, loopVars

(* The actuator in the loop behaves as the actuator by itself may. *)
LEMMA InsideActuator == LoopSpec => Spec
<1>1. LoopInit => Init
  BY DEF LoopInit
<1> QED BY <1>1, AgentOKHolds, ActuatorStep, PTL DEF LoopSpec, Spec

-----------------------------------------------------------------------------
(* The command handled is one of this door's decisions. *)
LEMMA HandledIsWanted ==
  ASSUME AgentOK, HandledOK, cmd # NoCommand, cmd.door = Door
  PROVE  /\ cmd.desired \in Wanted /\ cmd.desired \in DecidedNow
         /\ cmd.desired = "unlocked" => \E d \in decisions : Admits(d) /\ d.id = cmd.id
<1>1. cmd \in AllCommands /\ Justified(cmd)
  BY DEF HandledOK, AgentOK, CommandsOK
<1>2. PICK d \in decisions, b \in Badges : Answers(d, cmd, b)
  BY <1>1 DEF Justified
<1>3. cmd.desired \in {"locked", "unlocked"}
  BY <1>1 DEF AllCommands, Locks
<1>4. d.door = Door /\ d.id = cmd.id /\ (d.action = "allow" <=> cmd.desired = "unlocked")
  BY <1>2 DEF Answers
<1>5. cmd.desired \in Wanted /\ cmd.desired \in DecidedNow
  <2>1. cmd.desired = WantedBy(d)
    BY <1>3, <1>4 DEF WantedBy
  <2> QED BY <1>4, <2>1 DEF Wanted, DecidedNow, ForThisDoor
<1>6. cmd.desired = "unlocked" => Admits(d) /\ d.id = cmd.id
  BY <1>2, <1>4 DEF Admits, Answers
<1> QED BY <1>5, <1>6

(* Whatever the actuator is asked for was decided: the position of the     *)
(* command in hand by its own decision, that of a request nobody waits for *)
(* by some decision.                                                       *)
AllDecided == Sanctioned = AskedFor

LEMMA AskedIsSanctioned ==
  ASSUME AgentOK, HandledOK, RequestsOK
  PROVE  AllDecided
<1>1. Handling => cmd.desired \in DecidedNow
  BY HandledIsWanted DEF Handling, NoCommand
<1>2. {req.eq.lock : req \in {r \in inflight : r.op = "PUT"}} \subseteq Wanted
  BY DEF RequestsOK
<1> QED BY <1>1, <1>2 DEF AllDecided, Sanctioned, AskedFor, Handling

(* A call that is given up leaves at most the request it made: equipment   *)
(* created locked, or what the command handled asks for.                   *)
LEMMA NewRequests ==
  ASSUME IInv, [Next]_vars, NEW req \in inflight' \ inflight
  PROVE  \/ req.op = "POST" /\ req.eq.lock = "locked"
         \/ req.op = "PUT" /\ req.eq.lock = cmd.desired /\ cmd # NoCommand /\ cmd.door = Door
<1>1. CASE CreateEquipment
  <2>1. req = [op |-> "POST", eq |-> Blank]
    BY <1>1 DEF CreateEquipment, Post, GiveUp, bsVars
  <2> QED BY <2>1 DEF Blank
<1>2. CASE PutEquipment
  <2>1. req = [op |-> "PUT", eq |-> want] /\ pc = "put"
    BY <1>2 DEF PutEquipment, Put, GiveUp, bsVars
  <2>2. want.lock = cmd.desired /\ cmd \in Commands /\ cmd.door = Door
    BY <2>1 DEF IInv, HandlerOK
  <2> QED BY <2>1, <2>2, CommandIdsArePositive DEF NoCommand
<1>3. CASE BuildSimExecutes
  BY <1>3 DEF BuildSimExecutes, ExecuteLate
<1> QED BY <1>1, <1>2, <1>3
        DEF vars, bsVars, Next, Step, Receive, ReceiveCommand, Dispatch, Admit, GetEquipment, Get,
            Emit, Restart, BuildSimForgets, Forget, Silent

(* The decisions for the door only get more. *)
LEMMA DecisionsStay ==
  ASSUME [LoopNext]_loopVars
  PROVE  /\ decisions \subseteq decisions' /\ commands \subseteq commands'
         /\ Wanted \subseteq Wanted'
         /\ (\E d \in decisions : Admits(d)) => (\E d \in decisions' : Admits(d))
<1>1. decisions \subseteq decisions' /\ commands \subseteq commands'
  BY DEF LoopNext, loopVars, agentVars, AgentStep, DoorStep, Quiet, DeliverState, Agent!ReceiveBadge,
         Agent!ReceiveDoorState, Agent!PublishDecision, Agent!PublishCommand, Agent!Restart
<1> QED BY <1>1 DEF Wanted, ForThisDoor, WantedBy, Admits

LEMMA RequestsStep ==
  ASSUME AgentOK, HandledOK, RequestsOK, IInv, [LoopNext]_loopVars
  PROVE  RequestsOK'
<1>1. [Next]_vars
  BY ActuatorStep
<1> SUFFICES ASSUME NEW req \in inflight'
             PROVE  /\ req.eq.lock = "unlocked" => \E d \in decisions' : Admits(d)
                    /\ req.op = "PUT" => req.eq.lock \in Wanted'
  BY DEF RequestsOK, Admits
<1>2. CASE req \in inflight
  BY <1>2, DecisionsStay DEF RequestsOK
<1>3. CASE req \notin inflight
  <2>1. CASE req.op = "POST" /\ req.eq.lock = "locked"
    BY <2>1
  <2>2. CASE req.op = "PUT" /\ req.eq.lock = cmd.desired /\ cmd # NoCommand /\ cmd.door = Door
    BY <2>2, HandledIsWanted, DecisionsStay
  <2> QED BY <1>1, <1>3, <2>1, <2>2, NewRequests
<1> QED BY <1>2, <1>3

(* The command handled was taken from the bus. *)
LEMMA HandledStep ==
  ASSUME HandledOK, [LoopNext]_loopVars
  PROVE  HandledOK'
<1>1. cmd' \in {cmd, NoCommand} \/ cmd' \in commands
  BY DEF loopVars, vars, bsVars, actVars, LoopNext, AgentStep, DoorStep, Quiet, DeliverCommand,
         ReceiveCommand, Step, Dispatch, Admit, CreateEquipment, GetEquipment, PutEquipment, Emit,
         Cleared, Restart, Boot, BuildSimForgets, BuildSimExecutes
<1>2. NoCommand' = NoCommand
  BY DEF NoCommand
<1> QED BY <1>1, <1>2, DecisionsStay DEF HandledOK

(* The two services are tied to each other as the invariants say. *)
TiedOK == AgentOK /\ HandledOK /\ RequestsOK

LEMMA TiedHolds == LoopSpec => []TiedOK
<1>1. LoopInit => HandledOK /\ RequestsOK
  BY DEF LoopInit, Init, BuildSimInit, HandledOK, RequestsOK
<1>2. AgentOK /\ IInv /\ HandledOK /\ RequestsOK /\ [LoopNext]_loopVars
        => (HandledOK /\ RequestsOK)'
  BY HandledStep, RequestsStep
<1>3. LoopSpec => []IInv
  BY InsideActuator, IInvHolds, PTL
<1> QED BY <1>1, <1>2, <1>3, AgentOKHolds, PTL DEF LoopSpec, TiedOK

-----------------------------------------------------------------------------
(* The door opens only for a card the policy admits: what unlocks is a     *)
(* command at hand or an abandoned request, and both were decided.         *)
THEOREM DoorOpensOnlyOnAllowHolds == LoopSpec => DoorOpensOnlyOnAllow
<1> DEFINE A == Len(log') > Len(log) /\ log'[Len(log')].lock = "unlocked" =>
                  \E d \in decisions : Admits(d) /\ (UNCHANGED inflight => d.id = cmd.id)
           U == LET asked == cmd.door = Door /\ cmd.desired = "unlocked"
                IN /\ Len(log') > Len(log) /\ log'[Len(log')].lock = "unlocked" =>
                        asked \/ \E req \in inflight \ inflight' : req.eq.lock = "unlocked"
                   /\ \A req \in inflight' \ inflight : req.eq.lock = "unlocked" => asked
<1>1. TiedOK /\ U => A
  <2> SUFFICES ASSUME TiedOK, U, Len(log') > Len(log), log'[Len(log')].lock = "unlocked"
               PROVE  \E d \in decisions : Admits(d) /\ (UNCHANGED inflight => d.id = cmd.id)
    OBVIOUS
  <2>1. CASE cmd.door = Door /\ cmd.desired = "unlocked"
    <3>1. cmd # NoCommand
      BY <2>1 DEF NoCommand
    <3> QED BY <2>1, <3>1, HandledIsWanted DEF TiedOK
  <2>2. CASE \E req \in inflight \ inflight' : req.eq.lock = "unlocked"
    BY <2>2 DEF TiedOK, RequestsOK
  <2> QED BY <2>1, <2>2
<1>2. TiedOK /\ IInv /\ [U]_vars => [A]_loopVars
  <2>1. IInv => Len(log) \in Nat
    BY DEF IInv, BuildSimOK, BuildSimTypeOK
  <2>2. IInv /\ UNCHANGED vars => A
    BY <2>1 DEF vars, bsVars
  <2> QED BY <1>1, <2>2
<1>3. LoopSpec => [][U]_vars /\ []IInv
  BY InsideActuator, UnlocksOnlyOnCommandHolds, IInvHolds, PTL DEF UnlocksOnlyOnCommand
<1> QED BY <1>2, <1>3, TiedHolds, PTL DEF DoorOpensOnlyOnAllow

-----------------------------------------------------------------------------
(* A step of the abstract door that serves what the actuator is asked for  *)
(* is a step of the one that serves only what was decided.                 *)
LEMMA SanctionedLock ==
  ASSUME AllDecided, AllDecided', Lock!Next
  PROVE  LoopLock!Next
<1> USE DEF AllDecided
<1>1. CASE Lock!Ask
  <2>1. LoopLock!Ask
    BY <1>1 DEF Lock!Ask, LoopLock!Ask, Lock!Positions, LoopLock!Positions
  <2> QED BY <2>1 DEF LoopLock!Next
<1>2. CASE Lock!Turn
  <2>1. LoopLock!Turn
    BY <1>2 DEF Lock!Turn, LoopLock!Turn
  <2> QED BY <2>1 DEF LoopLock!Next
<1>3. CASE Lock!Fit
  <2>1. LoopLock!Fit
    BY <1>3 DEF Lock!Fit, LoopLock!Fit
  <2> QED BY <2>1 DEF LoopLock!Next
<1>4. CASE Lock!Lose
  <2>1. LoopLock!Lose
    BY <1>4 DEF Lock!Lose, LoopLock!Lose
  <2> QED BY <2>1 DEF LoopLock!Next
<1>5. CASE Lock!Announce
  <2>1. LoopLock!Announce
    BY <1>5 DEF Lock!Announce, LoopLock!Announce
  <2> QED BY <2>1 DEF LoopLock!Next
<1> QED BY <1>1, <1>2, <1>3, <1>4, <1>5 DEF Lock!Next

(* The loop is a DoorLock for which a position counts as asked for only    *)
(* while it is carried out, and only if it was decided.                    *)
THEOREM LoopIsADoorLockHolds == LoopSpec => LoopIsADoorLock
<1>1. LoopInit => LoopLock!Init
  <2> SUFFICES ASSUME LoopInit PROVE LoopLock!Init
    OBVIOUS
  <2>1. Lock!Init
    BY LockInit DEF LoopInit
  <2>2. Sanctioned = {}
    BY DEF LoopInit, Init, BuildSimInit, Sanctioned, Handling, NoCommand
  <2> QED BY <2>1, <2>2 DEF Lock!Init, LoopLock!Init, Lock!Positions, LoopLock!Positions
<1>2. AllDecided /\ AllDecided' /\ [Lock!Next]_(Lock!lockVars)
        => [LoopLock!Next]_(LoopLock!lockVars)
  <2> SUFFICES ASSUME AllDecided, AllDecided', [Lock!Next]_(Lock!lockVars)
               PROVE  [LoopLock!Next]_(LoopLock!lockVars)
    OBVIOUS
  <2>1. CASE Lock!Next
    BY <2>1, SanctionedLock
  <2>2. CASE UNCHANGED Lock!lockVars
    BY <2>2 DEF AllDecided, Lock!lockVars, LoopLock!lockVars
  <2> QED BY <2>1, <2>2
<1>3. LoopSpec => [][Lock!Next]_(Lock!lockVars)
  BY InsideActuator, ImplementsDoorLockHolds, PTL DEF ImplementsDoorLock, Lock!Spec
<1>4. TiedOK => AllDecided
  BY AskedIsSanctioned DEF TiedOK
<1> QED BY <1>1, <1>2, <1>3, <1>4, TiedHolds, PTL DEF LoopSpec, LoopIsADoorLock, LoopLock!Spec

-----------------------------------------------------------------------------
(* Nothing BuildSim has stored is ever changed. *)
LEMMA LogGrows == IInv /\ [Next]_vars => Extends(log, log')
<1> SUFFICES ASSUME IInv, [Next]_vars PROVE Extends(log, log')
  OBVIOUS
<1>1. BuildSimOK /\ Blank \in Equipment /\ want \in Equipment
  BY RecordTypes DEF IInv, TypeOK
<1>2. CASE UNCHANGED log
  BY <1>1, <1>2 DEF Extends, BuildSimOK, BuildSimTypeOK
<1>3. CASE CreateEquipment
  BY <1>1, <1>3, PostStep DEF CreateEquipment
<1>4. CASE PutEquipment
  BY <1>1, <1>4, PutStep DEF PutEquipment
<1>5. CASE BuildSimExecutes
  BY <1>1, <1>5, ExecuteLateStep DEF BuildSimExecutes
<1> QED BY <1>2, <1>3, <1>4, <1>5
        DEF vars, bsVars, Next, Step, Receive, ReceiveCommand, Dispatch, Admit, GetEquipment, Get,
            Emit, Restart, BuildSimForgets, Forget, Silent

(* The view holds what the actuator told, which BuildSim stored.           *)
ViewOK ==
  /\ doors \in [Agent!Doors -> [known : BOOLEAN, version : Nat, lock : Locks]]
  /\ doors[Door].version # 0 =>
       doors[Door].version \in 1..Len(log) /\ log[doors[Door].version].lock = doors[Door].lock

LEMMA DoorKnown == Door \in Agent!Doors
BY DoorHasAReader DEF Agent!Doors

LEMMA ViewStep ==
  ASSUME ViewOK, IInv, [LoopNext]_loopVars, [Next]_vars
  PROVE  ViewOK'
<1>1. Extends(log, log') /\ Len(log) \in Nat /\ Len(log') \in Nat
  <2>1. BuildSimTypeOK'
    BY NextInv DEF IInv, BuildSimOK
  <2> QED BY <2>1, LogGrows DEF IInv, BuildSimOK, BuildSimTypeOK
<1>2. CASE UNCHANGED doors
  BY <1>1, <1>2 DEF ViewOK, Extends
<1>3. CASE DeliverState /\ UNCHANGED vars
  <2>1. PICK s \in published : Agent!ReceiveDoorState(Decoded(s))
    BY <1>3 DEF DeliverState
  <2>2. s.version \in Nat /\ s.lock \in Locks /\ log' = log
    BY <1>3 DEF IInv, TypeOK, DoorState, vars, bsVars
  <2>3. s.version # 0 => s.version \in 1..Len(log) /\ log[s.version].lock = s.lock
    <3> DEFINE told == [lock |-> s.lock, contact |-> s.contact, version |-> s.version]
    <3>1. told.lock = s.lock
      OBVIOUS
    <3>2. s.version # 0 => s.version \in 1..Len(log) /\ log[s.version] = told
      BY DEF IInv, PublishedOK, ReportsAreFacts
    <3> HIDE DEF told
    <3> QED BY <3>1, <3>2
  <2> QED BY <2>1, <2>2, <2>3, DoorKnown DEF ViewOK, Agent!ReceiveDoorState, Agent!applyDoorState, Decoded
<1>4. CASE Agent!Restart
  BY <1>4, DoorKnown DEF ViewOK, Agent!Restart, Agent!NoView, Locks
<1> QED BY <1>2, <1>3, <1>4
        DEF LoopNext, loopVars, agentVars, AgentStep, DoorStep, Quiet, Agent!ReceiveBadge, Agent!world,
            Agent!PublishDecision, Agent!PublishCommand

(* The agent's view of the door may be old but never wrong. *)
THEOREM AgentViewIsPastHolds == LoopSpec => []AgentViewIsPast
<1>1. LoopInit => ViewOK
  BY DoorKnown DEF LoopInit, Agent!Init, ViewOK, Agent!NoView, Locks
<1>2. ViewOK => AgentViewIsPast
  BY DEF ViewOK, AgentViewIsPast
<1>3. LoopSpec => [][Next]_vars /\ []IInv
  BY InsideActuator, IInvHolds, PTL DEF Spec
<1> QED BY <1>1, <1>2, <1>3, ViewStep, PTL DEF LoopSpec
=============================================================================
