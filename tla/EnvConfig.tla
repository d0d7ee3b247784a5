----------------------------- MODULE EnvConfig ------------------------------
(***************************************************************************)
(* What the processes make of their environment at start-up                *)
(* (eventbus/brokerconfig.go, faults.go and config.go, buildsim/config.go, *)
(* the defaults of NewBroker).                                             *)
(*                                                                         *)
(* A setting is unset, malformed, a number in its unit, or, for a rate,    *)
(* NaN.  Rates are in percent, durations in ticks, addresses good or bad.  *)
(***************************************************************************)
EXTENDS Integers

CONSTANTS DefaultBuffer, DefaultHistory, DefaultHeartbeat, DefaultIdleTimeout,
          UnitsPerMs,     \* time.Millisecond: 10^6 units
          DurationBits    \* the width of a time.Duration: 64

ASSUME DefaultsArePositive ==
  {DefaultBuffer, DefaultHistory, DefaultHeartbeat, DefaultIdleTimeout} \subseteq Nat \ {0}

Unset     == [is |-> "unset", n |-> 0]
Malformed == [is |-> "malformed", n |-> 0]
NaN       == [is |-> "nan", n |-> 0]
Num(n)    == [is |-> "number", n |-> n]

Setting == [is : {"unset", "malformed", "nan", "number"}, n : Int]

(* The settings of the bus and of a service. *)
BrokerEnv ==
  [buffer : Setting, history : Setting, heartbeat : Setting, dropRate : Setting,
   duplicate : Setting, delayMs : Setting, reorder : BOOLEAN, seed : Setting]
ServiceEnv ==
  [busUrl : {"unset", "good", "bad"}, busTimeout : Setting, idleTimeout : Setting,
   doorId : STRING, buildSimUrl : {"unset", "good", "bad"}, buildSimTimeout : Setting]

(* envInt, envFloat, envDuration. *)
Parses(text)   == text.is # "malformed"
Value(text, n) == IF text.is = "unset" THEN Num(n) ELSE text

(* No comparison with NaN is true. *)
Below(x, n) == x.is = "number" /\ x.n < n
Above(x, n) == x.is = "number" /\ x.n > n

Wrapped(n) ==
  LET half == 2 ^ (DurationBits - 1) IN ((n + half) % (2 * half)) - half

-----------------------------------------------------------------------------
FaultConfig(env) ==
  [dropRate |-> Value(env.dropRate, 0), duplicateRate |-> Value(env.duplicate, 0),
   delay |-> Wrapped(Value(env.delayMs, 0).n * UnitsPerMs), reorder |-> env.reorder]

Validate_AnyRate(f) == f.delay >= 0
Validate(f) ==
  /\ \A rate \in {f.dropRate, f.duplicateRate} : ~Below(rate, 0) /\ ~Above(rate, 100)
  /\ f.delay >= 0

Enabled(f) ==
  Above(f.dropRate, 0) \/ Above(f.duplicateRate, 0) \/ f.delay > 0 \/ f.reorder

BrokerConfigFromEnv(env) ==
  /\ \A text \in {env.buffer, env.history, env.heartbeat, env.dropRate, env.duplicate,
                  env.delayMs, env.seed} : Parses(text)
  /\ Validate(FaultConfig(env))

(* What is not positive takes the default. *)
Positive_OrZero(n, default) == IF n < 0 THEN default ELSE n
Positive(n, default) == IF n <= 0 THEN default ELSE n

NewBroker(env) ==
  [buffer    |-> Positive(Value(env.buffer, DefaultBuffer).n, DefaultBuffer),
   history   |-> Positive(Value(env.history, DefaultHistory).n, DefaultHistory),
   heartbeat |-> Positive(Value(env.heartbeat, DefaultHeartbeat).n, DefaultHeartbeat),
   faults    |-> FaultConfig(env)]

-----------------------------------------------------------------------------
(* The bus client: its address has a default, the one of BuildSim has not, *)
(* and a BuildSim timeout that is not positive is refused.                 *)
BusConfigFromEnv(env) ==
  env.busUrl \in {"unset", "good"} /\ Parses(env.busTimeout) /\ Parses(env.idleTimeout)

IdleTimeout(env) ==
  Positive(Value(env.idleTimeout, DefaultIdleTimeout).n, DefaultIdleTimeout)

BuildSimConfigFromEnv(env) ==
  /\ env.buildSimUrl = "good"
  /\ Parses(env.buildSimTimeout) /\ ~Below(env.buildSimTimeout, 1)
=============================================================================
