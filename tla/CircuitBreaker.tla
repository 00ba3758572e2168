--------------------------- MODULE CircuitBreaker ---------------------------
(***************************************************************************)
(* A circuit breaker and the calls that run through it:                    *)
(* go/orchestrator/internal/circuitbreaker.                                *)
(*                                                                         *)
(* beforeRequest and afterRequest run under cb.mutex and are one step each;*)
(* the call itself runs between them, outside the lock, so that a result   *)
(* may arrive when the breaker has changed state, more than once, since    *)
(* the call was admitted.  The generation tells such results apart.        *)
(*                                                                         *)
(* Abstractions.  Generations are only compared for equality: a new one is *)
(* any value that neither the breaker nor a call in flight holds.  Of the  *)
(* clock only expiry.Before(now) matters: cb.elapsed.  TotalSuccesses and  *)
(* TotalFailures are read by no decision and left out.                     *)
(***************************************************************************)
EXTENDS Naturals, FiniteSets

CONSTANTS
    Requests,          \* callers; each runs one call at a time, for ever
    Wrapper,           \* the wrapper a caller goes through
    OwnErrors,         \* how calls may fail although the dependency answers
    Generations,
    MaxRequests, FailureThreshold, SuccessThreshold,
    HasInterval,       \* Interval # 0
    CountWidth,        \* 2^32: Counts.Requests is a uint32
    NotAdmitted        \* no generation

ASSUME BreakerAssumption ==
    /\ IsFiniteSet(Requests)
    /\ Wrapper \in [Requests -> {"database", "row", "redis", "grpc", "http"}]
    /\ OwnErrors \subseteq {"client", "cancelled"}
    /\ NotAdmitted \notin Generations
    /\ MaxRequests \in Nat \ {0} /\ MaxRequests < CountWidth
    /\ FailureThreshold \in Nat \ {0} /\ SuccessThreshold \in Nat \ {0}
    /\ HasInterval \in BOOLEAN
    /\ CountWidth \in Nat

(* A breaker lets as many probes through as it needs successes.  The        *)
(* defaults of config.go do; environment variables could break this.        *)
ASSUME ThresholdAssumption == SuccessThreshold <= MaxRequests

Defaults ==
    [redis      |-> [probes |-> 5, successes |-> 2],
     database   |-> [probes |-> 3, successes |-> 2],
     grpc       |-> [probes |-> 5, successes |-> 2],
     connection |-> [probes |-> 3, successes |-> 1],
     http       |-> [probes |-> 5, successes |-> 2]]

ASSUME DefaultsAssumption ==
    \A w \in DOMAIN Defaults : Defaults[w].successes <= Defaults[w].probes

VARIABLES
    cb,        \* the breaker
    admitted,  \* the generation a call in flight was admitted in, or NotAdmitted
    up         \* the dependency answers

breakerVars == <<cb, admitted, up>>

States == {"closed", "half-open", "open"}

Breaker == [state      : States,
            generation : Generations,
            requests   : 0 .. CountWidth - 1,
            successes  : Nat,       \* ConsecutiveSuccesses
            failures   : Nat,       \* ConsecutiveFailures
            elapsed    : BOOLEAN]   \* expiry is set and before now

(* Without an interval the first expiry is set all the same, to now.        *)
NewBreaker(g) == [state |-> "closed", generation |-> g, requests |-> 0,
                  successes |-> 0, failures |-> 0, elapsed |-> ~HasInterval]

BreakerInit ==
    /\ \E g \in Generations : cb = NewBreaker(g)
    /\ admitted = [r \in Requests |-> NotAdmitted]
    /\ up = TRUE

-----------------------------------------------------------------------------
(* The breaker.                                                             *)

(* toNewGeneration.                                                         *)
NewGeneration(b, s, g) ==
    [state |-> s, generation |-> g, requests |-> 0,
     successes |-> 0, failures |-> 0, elapsed |-> FALSE]

SetState(b, s, g) == IF b.state = s THEN b ELSE NewGeneration(b, s, g)

(* currentState.                                                            *)
CurrentState(b, g) ==
    IF ~b.elapsed THEN b
    ELSE CASE b.state = "closed"    -> NewGeneration(b, "closed", g)
           [] b.state = "open"      -> SetState(b, "half-open", g)
           [] b.state = "half-open" -> b

OnSuccess_OneTooMany(b, g) ==
    IF b.state = "half-open"
      THEN LET c == [b EXCEPT !.successes = @ + 1]
           IN  IF c.successes > SuccessThreshold THEN SetState(c, "closed", g) ELSE c
      ELSE b

OnSuccess(b, g) ==
    CASE b.state = "closed"    -> [b EXCEPT !.failures = 0]
      [] b.state = "half-open" ->
            LET c == [b EXCEPT !.successes = @ + 1]
            IN  IF c.successes >= SuccessThreshold THEN SetState(c, "closed", g) ELSE c
      [] b.state = "open"      -> b

OnFailure(b, g) ==
    CASE b.state = "closed"    ->
            LET c == [b EXCEPT !.failures = @ + 1]
            IN  IF c.failures >= FailureThreshold THEN SetState(c, "open", g) ELSE c
      [] b.state = "half-open" -> SetState(b, "open", g)
      [] b.state = "open"      -> b

(* The check of beforeRequest, on an up-to-date breaker.                    *)
Rejects(b) ==
    b.state = "open" \/ (b.state = "half-open" /\ b.requests >= MaxRequests)

(* afterRequest: a result of an older generation is dropped.                *)
Outdated_Counted(b, before) == before = NotAdmitted

Outdated(b, before) == b.generation # before

AfterRequest(b, before, success, g) ==
    LET c == CurrentState(b, g)
    IN  IF Outdated(c, before) THEN c
        ELSE IF success THEN OnSuccess(c, g) ELSE OnFailure(c, g)

-----------------------------------------------------------------------------
(* Execute.                                                                 *)

Fresh(g) == g # cb.generation /\ \A r \in Requests : admitted[r] # g

(* Requests++ of a uint32.                                                  *)
Increment(n) == (n + 1) % CountWidth

Admit(r) ==
    /\ admitted[r] = NotAdmitted
    /\ \E g \in Generations :
          /\ Fresh(g)
          /\ LET c == CurrentState(cb, g)
             IN  /\ ~Rejects(c)
                 /\ cb' = [c EXCEPT !.requests = Increment(@)]
                 /\ admitted' = [admitted EXCEPT ![r] = c.generation]
    /\ UNCHANGED up

(* The caller gets ErrCircuitBreakerOpen or ErrTooManyRequests.              *)
Reject(r) ==
    /\ admitted[r] = NotAdmitted
    /\ \E g \in Generations :
          /\ Fresh(g)
          /\ Rejects(CurrentState(cb, g))
          /\ cb' = CurrentState(cb, g)
    /\ UNCHANGED <<admitted, up>>

(* How a call may end: the dependency is down, it answers, it answers that  *)
(* the request is wrong (a 4xx status, a violated constraint, a missing     *)
(* key), or the caller gives up or panics, which is reported as a failure.  *)
Outcomes == IF up THEN {"ok"} \cup OwnErrors
                  ELSE {"down"} \cup (OwnErrors \cap {"cancelled"})

(* What the wrappers report.  To the database wrapper every error is a      *)
(* failure, but a row query knows of none: only Scan sees it.  The Redis    *)
(* wrapper forgives a missing key, the gRPC and HTTP wrappers forgive the   *)
(* errors of the client.                                                    *)
DatabaseSucceeds(o) == o = "ok"
RowSucceeds(o)      == TRUE
RedisSucceeds(o)    == o \in {"ok", "client"}

HTTPSucceeds_Strict(o) == o = "ok"

GRPCSucceeds(o)     == o \in {"ok", "client"}
HTTPSucceeds(o)     == o \in {"ok", "client"}

Succeeds(r, o) ==
    CASE Wrapper[r] = "database" -> DatabaseSucceeds(o)
      [] Wrapper[r] = "row"      -> RowSucceeds(o)
      [] Wrapper[r] = "redis"    -> RedisSucceeds(o)
      [] Wrapper[r] = "grpc"     -> GRPCSucceeds(o)
      [] Wrapper[r] = "http"     -> HTTPSucceeds(o)

Return(r, o) ==
    /\ admitted[r] # NotAdmitted
    /\ o \in Outcomes
    /\ \E g \in Generations :
          /\ Fresh(g)
          /\ cb' = AfterRequest(cb, admitted[r], Succeeds(r, o), g)
    /\ admitted' = [admitted EXCEPT ![r] = NotAdmitted]
    /\ UNCHANGED up

-----------------------------------------------------------------------------
(* The clock and the dependency.                                            *)

Elapse ==
    /\ ~cb.elapsed
    /\ cb.state = "open" \/ (cb.state = "closed" /\ HasInterval)
    /\ cb' = [cb EXCEPT !.elapsed = TRUE]
    /\ UNCHANGED <<admitted, up>>

Outage   == up /\ up' = FALSE /\ UNCHANGED <<cb, admitted>>
Recovery == ~up /\ up' = TRUE /\ UNCHANGED <<cb, admitted>>

CallStep(r) == Admit(r) \/ Reject(r) \/ \E o \in Outcomes : Return(r, o)

BreakerNext == (\E r \in Requests : CallStep(r)) \/ Elapse \/ Outage \/ Recovery

BreakerSpec == BreakerInit /\ [][BreakerNext]_breakerVars

(* Callers keep calling, calls return (the wrapped clients have timeouts)   *)
(* and the clock runs.                                                      *)
FairBreakerSpec ==
    /\ BreakerSpec /\ WF_breakerVars(Elapse)
    /\ \A r \in Requests : WF_breakerVars(CallStep(r))

-----------------------------------------------------------------------------
(* Properties.                                                              *)

(* Every variable has its type.                                             *)
BreakerTypeOK ==
    /\ cb \in Breaker
    /\ admitted \in [Requests -> Generations \cup {NotAdmitted}]
    /\ up \in BOOLEAN

(* Calls in flight that were admitted in the present generation.            *)
InFlight == {r \in Requests : admitted[r] = cb.generation}

(* The books balance: in the half-open state every admitted probe is either *)
(* still in flight or one of the consecutive successes, although results of *)
(* calls admitted earlier keep coming in between.                           *)
ProbesAccounted ==
    cb.state = "half-open" => cb.requests = Cardinality(InFlight) + cb.successes

(* A recovering dependency sees at most MaxRequests probes.                 *)
ProbesLimited ==
    cb.state = "half-open" => Cardinality(InFlight) + cb.successes <= MaxRequests

(* The breaker cannot wedge half-open, which no timer leaves: when it       *)
(* rejects calls there, a probe that will decide its fate is in flight.     *)
NeverWedged ==
    cb.state = "half-open" /\ Rejects(cb) => InFlight # {}

(* A breaker that is not open has seen fewer failures in a row than the     *)
(* threshold, all in its present generation.                                *)
FailuresBelowThreshold ==
    /\ cb.state = "closed" => cb.failures < FailureThreshold
    /\ cb.state # "closed" => cb.failures = 0

(* When the dependency stays up, the breaker closes in the end, though      *)
(* clients keep sending wrong requests through a wrapper that forgives them.*)
ClosesAgain == <>[]up => []<>(cb.state = "closed")
=============================================================================
