---------------------------- MODULE CircuitBreaker ----------------------------
(***************************************************************************)
(* The circuit breaker of one route (plugins/circuit-breaker/breaker.go)    *)
(* with the requests that go through it at the same time.  A request reads  *)
(* the clock, takes the lock in admit, is served without the lock, reads    *)
(* the clock again and takes the lock in recordResult: everything between   *)
(* these steps may happen to other requests.                                *)
(*                                                                          *)
(* Time is kept relative to now: `age` is now - openedAt and a request's    *)
(* lag is now - the reading it holds, so the code's elapsed is their        *)
(* difference.                                                              *)
(***************************************************************************)
EXTENDS Integers, FiniteSets

CONSTANTS Requests,            \* requests that may be in flight together
          FailureThreshold, SuccessThreshold, HalfOpenRequests,
          Timeout,             \* TimeoutSeconds
          MaxLag,              \* bound: time between reading the clock and the lock
          MaxLost              \* bound: probes of a half-open period whose handler
                               \* panics (http.ErrAbortHandler)

ASSUME RequestsAssumption == IsFiniteSet(Requests)
ASSUME ThresholdsAssumption ==
  /\ FailureThreshold \in Nat \ {0} /\ SuccessThreshold \in Nat \ {0}
  /\ HalfOpenRequests \in Nat \ {0}
ASSUME TimeAssumption ==
  Timeout \in Nat \ {0} /\ MaxLag \in Nat \ {0} /\ MaxLost \in Nat

VARIABLES curState, consecFailures, consecSuccesses, halfOpenInFlight,
          age,      \* time since openedAt, up to LongAgo
          req,      \* request -> where it is and what it holds
          fresh,    \* probes admitted since the breaker last became half-open
                    \* and still in flight (history variable)
          lost      \* probes that panicked since halfOpenInFlight was last reset
                    \* (history variable)

breaker == <<curState, consecFailures, consecSuccesses, halfOpenInFlight>>
history == <<fresh, lost>>
vars == <<breaker, age, req, history>>

LongAgo == Timeout + MaxLag   \* longer ago makes no difference to elapsed >= Timeout

Idle == [pc |-> "idle", probe |-> FALSE, failed |-> FALSE, lag |-> 0]

Init ==
  /\ curState = "closed" /\ consecFailures = 0 /\ consecSuccesses = 0
  /\ halfOpenInFlight = 0
  /\ age = LongAgo
  /\ req = [r \in Requests |-> Idle] /\ fresh = {} /\ lost = 0

-----------------------------------------------------------------------------
\* ServeHTTP reads the clock for admit.
Arrive(r) ==
  /\ req[r].pc = "idle"
  /\ req' = [req EXCEPT ![r].pc = "arriving"]
  /\ UNCHANGED <<breaker, age, history>>

Elapsed(r) == age - req[r].lag

Serve(r, probe) ==
  req' = [req EXCEPT ![r] = [pc |-> "serving", probe |-> probe, failed |-> FALSE, lag |-> 0]]

\* admit, closed: the request passes.
AdmitClosed(r) ==
  /\ req[r].pc = "arriving" /\ curState = "closed"
  /\ Serve(r, FALSE)
  /\ UNCHANGED <<breaker, age, history>>

\* admit, open and cooled down: half-open, with this request as first probe.
Promote(r) ==
  /\ req[r].pc = "arriving" /\ curState = "open" /\ Elapsed(r) >= Timeout
  /\ curState' = "half_open" /\ consecSuccesses' = 0 /\ halfOpenInFlight' = 1
  /\ Serve(r, TRUE)
  /\ fresh' = {r} /\ lost' = 0
  /\ UNCHANGED <<consecFailures, age>>

\* Mutant: the slots are not counted before one is taken.
AdmitAnyProbe(r) ==
  /\ req[r].pc = "arriving" /\ curState = "half_open"
  /\ halfOpenInFlight' = halfOpenInFlight + 1
  /\ Serve(r, TRUE)
  /\ fresh' = fresh \cup {r}
  /\ UNCHANGED <<curState, consecFailures, consecSuccesses, age, lost>>

\* admit, half-open with a free slot: one more probe.
AdmitProbe(r) ==
  /\ req[r].pc = "arriving" /\ curState = "half_open"
  /\ halfOpenInFlight < HalfOpenRequests
  /\ halfOpenInFlight' = halfOpenInFlight + 1
  /\ Serve(r, TRUE)
  /\ fresh' = fresh \cup {r}
  /\ UNCHANGED <<curState, consecFailures, consecSuccesses, age, lost>>

\* Mutant: a rejection starts the cooldown again.
RejectRestartingCooldown(r) ==
  /\ req[r].pc = "arriving"
  /\ \/ curState = "open" /\ Elapsed(r) < Timeout
     \/ curState = "half_open" /\ halfOpenInFlight >= HalfOpenRequests
  /\ req' = [req EXCEPT ![r] = Idle]
  /\ age' = 0
  /\ UNCHANGED <<breaker, history>>

\* admit, open and cooling down or every slot taken: 503.
Reject(r) ==
  /\ req[r].pc = "arriving"
  /\ \/ curState = "open" /\ Elapsed(r) < Timeout
     \/ curState = "half_open" /\ halfOpenInFlight >= HalfOpenRequests
  /\ req' = [req EXCEPT ![r] = Idle]
  /\ UNCHANGED <<breaker, age, history>>

\* The next handler returns, with an error or a 5xx or without, and ServeHTTP
\* reads the clock for recordResult.
Respond(r) ==
  /\ req[r].pc = "serving"
  /\ \E failed \in BOOLEAN :
       req' = [req EXCEPT ![r].pc = "recording", ![r].failed = failed]
  /\ UNCHANGED <<breaker, age, history>>

\* It panics: ServeHTTP has no deferred call, so recordResult does not run.
Panic(r) ==
  /\ req[r].pc = "serving" /\ lost < MaxLost
  /\ req' = [req EXCEPT ![r] = Idle]
  /\ fresh' = fresh \ {r}
  /\ lost' = IF req[r].probe THEN lost + 1 ELSE lost
  /\ UNCHANGED <<breaker, age>>

\* Mutant: a slot is given back only while the breaker is still half-open.
ReleasedIfHalfOpen(r) ==
  IF req[r].probe /\ halfOpenInFlight > 0 /\ curState = "half_open"
  THEN halfOpenInFlight - 1 ELSE halfOpenInFlight

\* The slot a probe gives back, whatever became of the breaker since.
Released(r) ==
  IF req[r].probe /\ halfOpenInFlight > 0 THEN halfOpenInFlight - 1 ELSE halfOpenInFlight

\* recordResult's transition to open; openedAt is the reading the request holds.
Open(r, failures) ==
  /\ curState' = "open" /\ consecFailures' = failures /\ consecSuccesses' = 0
  /\ halfOpenInFlight' = Released(r)
  /\ age' = req[r].lag
  /\ fresh' = {} /\ UNCHANGED lost

\* Mutant: one failure too many before the breaker trips.
RecordClosedLate(r) ==
  /\ curState = "closed"
  /\ \/ /\ req[r].failed /\ consecFailures + 1 > FailureThreshold
        /\ Open(r, consecFailures + 1)
     \/ /\ ~(req[r].failed /\ consecFailures + 1 > FailureThreshold)
        /\ consecFailures' = IF req[r].failed THEN consecFailures + 1 ELSE 0
        /\ halfOpenInFlight' = Released(r)
        /\ fresh' = fresh \ {r}
        /\ UNCHANGED <<curState, consecSuccesses, age, lost>>

RecordClosed(r) ==
  /\ curState = "closed"
  /\ \/ /\ req[r].failed /\ consecFailures + 1 >= FailureThreshold
        /\ Open(r, consecFailures + 1)
     \/ /\ ~(req[r].failed /\ consecFailures + 1 >= FailureThreshold)
        /\ consecFailures' = IF req[r].failed THEN consecFailures + 1 ELSE 0
        /\ halfOpenInFlight' = Released(r)
        /\ fresh' = fresh \ {r}
        /\ UNCHANGED <<curState, consecSuccesses, age, lost>>

\* Mutant: successes are not counted.
RecordHalfOpenUncounted(r) ==
  /\ curState = "half_open"
  /\ \/ req[r].failed /\ Open(r, FailureThreshold)
     \/ /\ ~req[r].failed
        /\ halfOpenInFlight' = Released(r)
        /\ fresh' = fresh \ {r}
        /\ UNCHANGED <<curState, consecFailures, consecSuccesses, age, lost>>

RecordHalfOpen(r) ==
  /\ curState = "half_open"
  /\ \/ req[r].failed /\ Open(r, FailureThreshold)
     \/ /\ ~req[r].failed /\ consecSuccesses + 1 >= SuccessThreshold
        /\ curState' = "closed" /\ consecFailures' = 0 /\ consecSuccesses' = 0
        /\ halfOpenInFlight' = 0
        /\ fresh' = {} /\ lost' = 0
        /\ UNCHANGED age
     \/ /\ ~req[r].failed /\ consecSuccesses + 1 < SuccessThreshold
        /\ consecSuccesses' = consecSuccesses + 1
        /\ halfOpenInFlight' = Released(r)
        /\ fresh' = fresh \ {r}
        /\ UNCHANGED <<curState, consecFailures, age, lost>>

\* A late result while open: only its slot is given back.
RecordOpen(r) ==
  /\ curState = "open"
  /\ halfOpenInFlight' = Released(r)
  /\ fresh' = fresh \ {r}
  /\ UNCHANGED <<curState, consecFailures, consecSuccesses, age, lost>>

Record(r) ==
  /\ req[r].pc = "recording"
  /\ RecordClosed(r) \/ RecordHalfOpen(r) \/ RecordOpen(r)
  /\ req' = [req EXCEPT ![r] = Idle]

\* Time passes for the breaker and for the requests that hold a reading.
Holding == {r \in Requests : req[r].pc \in {"arriving", "recording"}}

Tick ==
  /\ \A r \in Holding : req[r].lag < MaxLag
  /\ age' = IF age < LongAgo THEN age + 1 ELSE age
  /\ req' = [r \in Requests |->
               IF r \in Holding THEN [req[r] EXCEPT !.lag = @ + 1] ELSE req[r]]
  /\ UNCHANGED <<breaker, history>>

Admit(r) == AdmitClosed(r) \/ Promote(r) \/ AdmitProbe(r) \/ Reject(r)

Next ==
  \/ \E r \in Requests : Arrive(r) \/ Admit(r) \/ Respond(r) \/ Panic(r) \/ Record(r)
  \/ Tick

Spec == Init /\ [][Next]_vars

\* Clients keep coming, handlers return, goroutines get the lock, time passes.
FairSpec ==
  /\ Spec /\ WF_vars(Tick)
  /\ \A r \in Requests : /\ WF_vars(Arrive(r)) /\ WF_vars(Admit(r))
                         /\ WF_vars(Respond(r)) /\ WF_vars(Record(r))
-----------------------------------------------------------------------------
Probes == {r \in Requests : req[r].pc \in {"serving", "recording"} /\ req[r].probe}

TypeOK ==
  /\ curState \in {"closed", "open", "half_open"}
  /\ consecFailures \in 0..FailureThreshold /\ consecSuccesses \in 0..SuccessThreshold
  /\ halfOpenInFlight \in 0..HalfOpenRequests
  /\ age \in 0..LongAgo
  /\ req \in [Requests -> [pc : {"idle", "arriving", "serving", "recording"},
                           probe : BOOLEAN, failed : BOOLEAN, lag : 0..MaxLag]]
  /\ fresh \subseteq Requests /\ lost \in 0..MaxLost

(* The counters and the state agree, through late results of requests that  *)
(* were admitted in another state: a closed breaker has a failure to spare, *)
(* a half-open one still needs a success, an open one has seen enough.      *)
CountersFitState ==
  /\ curState = "closed" => consecFailures < FailureThreshold
  /\ curState = "half_open" => consecSuccesses < SuccessThreshold
  /\ curState = "open" => consecFailures = FailureThreshold

(* Every taken slot is held by a probe in flight, which will give it back,  *)
(* or was lost to a panic: no other interleaving of probes of this and of   *)
(* earlier half-open periods leaks a slot.                                  *)
SlotsAccounted == halfOpenInFlight <= Cardinality(Probes) + lost

(* "The caller must pair every (admit=true, probe=true) result with exactly *)
(* one call to recordResult so the in-flight counter stays balanced": every *)
(* taken slot is held by a probe in flight.                                 *)
SlotsHeldByProbes == halfOpenInFlight <= Cardinality(Probes)

(* "SuccessThreshold is the number of consecutive successful probes         *)
(* required in the half-open state before the breaker returns to closed":   *)
(* the result that closes the breaker is that of a probe of this period.    *)
ClosesOnProbe ==
  [][curState = "half_open" /\ curState' = "closed" =>
       \E r \in fresh : req[r].pc = "recording" /\ req'[r].pc = "idle"]_vars

(* While requests come, an open breaker is probed after its timeout ...     *)
OpenIsProbed == curState = "open" ~> curState = "half_open"

(* ... and a half-open one decides: enough successes, or a failure; unless  *)
(* a panic took a slot with it.                                             *)
HalfOpenDecides ==
  curState = "half_open" ~> curState # "half_open" \/ lost > 0
=============================================================================
