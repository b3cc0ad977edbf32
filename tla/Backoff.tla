------------------------------ MODULE Backoff ------------------------------
(***************************************************************************)
(* BackoffPolicy of platform/runtime: withDefaults and duration, as in     *)
(* supervisor_gen.go and again in process_runner_gen.go, and the two loops *)
(* that use it: runWorker, whose attempt counter only grows, and the       *)
(* forwarder, which starts again from 1 after a successful dial.           *)
(*                                                                         *)
(* A time.Duration is an integer of Width bits.  A float64 is exact here,  *)
(* and its conversion to a Duration it does not fit in is what the         *)
(* hardware makes of it: the least Duration on amd64, the nearest one on   *)
(* arm64.  Factor is a fraction, Jitter a number of quarters.              *)
(***************************************************************************)
EXTENDS Integers

CONSTANTS
  BackoffPolicies,  (* the BackoffPolicy values callers give                *)
  Width,            (* bits of a time.Duration, 64 in the code              *)
  DefaultMin,       (* 100 ms                                               *)
  DefaultMax,       (* 30 s                                                 *)
  MaxRetries        (* bound of the model: the attempt counter stops there  *)

MaxDuration == 2 ^ (Width - 1) - 1
MinDuration == -(2 ^ (Width - 1))

Duration == MinDuration .. MaxDuration

ASSUME BackoffPoliciesAssumption ==
  \A b \in BackoffPolicies :
    /\ b.min \in Duration /\ b.max \in Duration
    /\ b.num \in Int /\ b.den \in Nat \ {0} /\ b.jitter \in Int
ASSUME DefaultsAssumption ==
  DefaultMin \in Nat \ {0} /\ DefaultMax \in Nat \ {0} /\ DefaultMin <= DefaultMax
ASSUME WidthAssumption ==
  /\ MaxRetries \in Nat
  /\ 2 ^ Width \in Int
  /\ MinDuration \in Int /\ MaxDuration \in Int
  /\ MinDuration <= 0 /\ DefaultMax <= MaxDuration

WithDefaults(b) ==
  [min    |-> IF b.min <= 0 THEN DefaultMin ELSE b.min,
   max    |-> IF b.max <= 0 THEN DefaultMax ELSE b.max,
   num    |-> IF b.num <= 0 THEN 2 ELSE b.num,
   den    |-> IF b.num <= 0 THEN 1 ELSE b.den,
   jitter |-> IF b.jitter < 0 THEN 0 ELSE IF b.jitter > 4 THEN 4 ELSE b.jitter]

(* pow(a, n) for an integer a: one multiplication per attempt.             *)
Pow(a) ==
  LET p[n \in Nat] == IF n = 0 THEN 1 ELSE a * p[n - 1]
  IN  p

(* float64(Min) * pow(Factor, attempt - 1), without its fraction.          *)
Exponential(b, attempt) ==
  (b.min * Pow(b.num)[attempt - 1]) \div Pow(b.den)[attempt - 1]

(* time.Duration(x).                                                       *)
ToDuration(x) ==
  IF x \in Duration THEN {x} ELSE {MinDuration, MaxDuration}

(* d + delta, as a Duration wraps.                                         *)
Wrap(x) ==
  IF x > MaxDuration THEN x - 2 ^ Width
  ELSE IF x < MinDuration THEN x + 2 ^ Width ELSE x

(* The integer part of d * k / 4, for either sign.                         *)
Quarters(d, k) == IF d * k >= 0 THEN (d * k) \div 4 ELSE -((-(d * k)) \div 4)

AtLeast(d, low) == IF d < low THEN low ELSE d
AtMost(d, high) == IF d > high THEN high ELSE d

(* Fault: the lower clamp after the jitter is missing.                     *)
JitteredNoMin(b, d) ==
  {AtMost(Wrap(d + delta), b.max) :
     delta \in UNION {ToDuration(Quarters(d, k)) : k \in -b.jitter .. b.jitter}}

(* The jitter is drawn from the whole interval, then clamped twice.        *)
Jittered(b, d) ==
  {AtMost(AtLeast(Wrap(d + delta), b.min), b.max) :
     delta \in UNION {ToDuration(Quarters(d, k)) : k \in -b.jitter .. b.jitter}}

(* The durations duration(attempt) may return for a policy with defaults.  *)
Durations(b, attempt) ==
  LET capped == {AtMost(d, b.max) : d \in ToDuration(Exponential(b, attempt))}
  IN  IF b.jitter = 0 THEN capped ELSE UNION {Jittered(b, d) : d \in capped}

-----------------------------------------------------------------------------
VARIABLES
  backoff,  (* b: the policy, with its defaults                             *)
  attempt,  (* w.attempts, or attempt of the forwarder                      *)
  sleep     (* the last duration slept                                      *)

backoffVars == <<backoff, attempt, sleep>>

BackoffTypeOK ==
  /\ backoff \in {WithDefaults(b) : b \in BackoffPolicies}
  /\ attempt \in 0 .. MaxRetries
  /\ sleep \in Duration

(* Nothing was slept yet; sleep holds the least a policy promises.         *)
BackoffInit ==
  /\ backoff \in {WithDefaults(b) : b \in BackoffPolicies}
  /\ attempt = 0
  /\ sleep = AtMost(backoff.min, backoff.max)

(* A worker to be restarted, or a dial or a send that failed.              *)
Retry ==
  /\ attempt < MaxRetries
  /\ attempt' = attempt + 1
  /\ sleep' \in Durations(backoff, attempt')
  /\ UNCHANGED backoff

(* The forwarder after a successful dial; runWorker never does it.         *)
Reset ==
  /\ attempt' = 0
  /\ UNCHANGED <<backoff, sleep>>

BackoffNext == Retry \/ Reset

BackoffSpec == BackoffInit /\ [][BackoffNext]_backoffVars

-----------------------------------------------------------------------------
(* "Max: the maximal delay": whatever overflows on the way.                *)
NeverAboveMax == sleep <= backoff.max

(* With jitter the last clamps keep the delay between Min and Max, even    *)
(* when the conversion or the sum has overflowed.                          *)
JitterWithinBounds ==
  backoff.jitter > 0 /\ backoff.min <= backoff.max => sleep >= backoff.min

(* The bounds that hold past the overflow.                                 *)
WithinBounds == NeverAboveMax /\ JitterWithinBounds

(* "Min: the minimal delay", for a policy that asks for nothing strange.   *)
NeverBelowMin ==
  backoff.num >= backoff.den /\ backoff.min <= backoff.max => sleep >= backoff.min
=============================================================================
