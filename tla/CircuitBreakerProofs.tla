------------------------- MODULE CircuitBreakerProofs -------------------------
(***************************************************************************)
(* Proofs about CircuitBreaker, for any number of requests in flight and    *)
(* any thresholds.                                                          *)
(***************************************************************************)
EXTENDS CircuitBreaker, FiniteSetTheorems, TLAPS

BreakerInv == TypeOK /\ CountersFitState

LEMMA BreakerInit == Init => BreakerInv
BY ThresholdsAssumption, TimeAssumption
   DEF Init, Idle, LongAgo, BreakerInv, TypeOK, CountersFitState

LEMMA ArrivePreserves ==
  ASSUME BreakerInv, NEW r \in Requests, Arrive(r)
  PROVE  BreakerInv'
BY DEF BreakerInv, TypeOK, CountersFitState, Arrive, breaker, history

LEMMA AdmitPreserves ==
  ASSUME BreakerInv, NEW r \in Requests, Admit(r)
  PROVE  BreakerInv'
<1>. USE ThresholdsAssumption, TimeAssumption DEF BreakerInv, TypeOK, CountersFitState
<1>1. CASE AdmitClosed(r)
  BY <1>1 DEF AdmitClosed, Serve, breaker, history
<1>2. CASE Promote(r)
  BY <1>2 DEF Promote, Serve
<1>3. CASE AdmitProbe(r)
  BY <1>3 DEF AdmitProbe, Serve
<1>4. CASE Reject(r)
  BY <1>4 DEF Reject, Idle, breaker, history
<1>. QED
  BY <1>1, <1>2, <1>3, <1>4 DEF Admit

LEMMA RespondPreserves ==
  ASSUME BreakerInv, NEW r \in Requests, Respond(r) \/ Panic(r)
  PROVE  BreakerInv'
<1>. USE TimeAssumption DEF BreakerInv, TypeOK, CountersFitState, breaker, history
<1>1. CASE Respond(r)
  <2>1. PICK failed \in BOOLEAN :
          req' = [req EXCEPT ![r] = [@ EXCEPT !.pc = "recording", !.failed = failed]]
    BY <1>1 DEF Respond
  <2>2. [req[r] EXCEPT !.pc = "recording", !.failed = failed]
          \in [pc : {"idle", "arriving", "serving", "recording"},
              probe : BOOLEAN, failed : BOOLEAN, lag : 0..MaxLag]
    OBVIOUS
  <2>. QED
    BY <1>1, <2>1, <2>2 DEF Respond
<1>2. CASE Panic(r)
  BY <1>2 DEF Panic, Idle
<1>. QED
  BY <1>1, <1>2

LEMMA ReleasedBound ==
  ASSUME BreakerInv, NEW r \in Requests
  PROVE  Released(r) \in 0..halfOpenInFlight /\ Released(r) \in 0..HalfOpenRequests
BY ThresholdsAssumption DEF BreakerInv, TypeOK, Released

LEMMA RecordPreserves ==
  ASSUME BreakerInv, NEW r \in Requests, Record(r)
  PROVE  BreakerInv'
<1>. USE ThresholdsAssumption, TimeAssumption DEF BreakerInv, TypeOK, CountersFitState
<1>1. /\ req' \in [Requests -> [pc : {"idle", "arriving", "serving", "recording"},
                                probe : BOOLEAN, failed : BOOLEAN, lag : 0..MaxLag]]
      /\ req[r].lag \in 0..LongAgo
      /\ Released(r) \in 0..HalfOpenRequests
  BY ReleasedBound DEF Record, Idle, LongAgo
<1>2. CASE RecordClosed(r)
  BY <1>1, <1>2 DEF RecordClosed, Open
<1>3. CASE RecordHalfOpen(r)
  BY <1>1, <1>3 DEF RecordHalfOpen, Open
<1>4. CASE RecordOpen(r)
  BY <1>1, <1>4 DEF RecordOpen
<1>. QED
  BY <1>2, <1>3, <1>4 DEF Record

LEMMA TickPreserves == BreakerInv /\ Tick => BreakerInv'
BY TimeAssumption DEF BreakerInv, TypeOK, CountersFitState, Tick, Holding, LongAgo, breaker, history

LEMMA BreakerStep == BreakerInv /\ [Next]_vars => BreakerInv'
<1>. SUFFICES ASSUME BreakerInv, [Next]_vars PROVE BreakerInv'
  OBVIOUS
<1>1. CASE UNCHANGED vars
  BY <1>1 DEF vars, breaker, history, BreakerInv, TypeOK, CountersFitState
<1>. QED
  BY <1>1, ArrivePreserves, AdmitPreserves, RespondPreserves, RecordPreserves,
     TickPreserves DEF Next

(* The breaker's counters stay in range in every interleaving of requests.  *)
THEOREM BreakerTypeCorrect == Spec => []TypeOK
<1>1. BreakerInv => TypeOK
  BY DEF BreakerInv
<1>. QED
  BY <1>1, BreakerInit, BreakerStep, PTL DEF Spec

(* Counters and state agree, late results included.                         *)
THEOREM CountersFitStateThm == Spec => []CountersFitState
<1>1. BreakerInv => CountersFitState
  BY DEF BreakerInv
<1>. QED
  BY <1>1, BreakerInit, BreakerStep, PTL DEF Spec

-----------------------------------------------------------------------------
(* The slots.  Only Promote and AdmitProbe take one and make a probe of the *)
(* request; only Record ends a probe and gives one back, and only Panic     *)
(* ends a probe without.                                                    *)

LEMMA ProbesFinite == IsFiniteSet(Probes) /\ Cardinality(Probes) \in Nat
BY RequestsAssumption, FS_Subset, FS_CardinalityType DEF Probes

LEMMA SlotsInit == Init => SlotsAccounted
BY ProbesFinite DEF Init, SlotsAccounted

\* A step that leaves the probes alone and takes no slot.
LEMMA SlotsKept ==
  ASSUME SlotsAccounted, Probes' = Probes, halfOpenInFlight' = halfOpenInFlight,
         lost' = lost
  PROVE  SlotsAccounted'
BY DEF SlotsAccounted

\* A step that makes r a probe and takes at most one slot more.
LEMMA SlotTaken ==
  ASSUME BreakerInv, SlotsAccounted, NEW r \in Requests,
         r \notin Probes, Probes' = Probes \cup {r},
         \/ halfOpenInFlight' = 1 /\ lost' = 0
         \/ halfOpenInFlight' = halfOpenInFlight + 1 /\ lost' = lost
  PROVE  SlotsAccounted'
<1>1. Cardinality(Probes \cup {r}) = Cardinality(Probes) + 1
  BY ProbesFinite, FS_AddElement
<1>2. halfOpenInFlight \in Nat /\ lost \in Nat
  BY ThresholdsAssumption, TimeAssumption DEF BreakerInv, TypeOK
<1>. QED
  BY <1>1, <1>2, ProbesFinite DEF SlotsAccounted

\* The cardinality of the probes when r is one no longer.
LEMMA OneProbeLess ==
  ASSUME NEW r \in Requests, Probes' = Probes \ {r}
  PROVE  /\ r \in Probes =>
              Cardinality(Probes) # 0 /\ Cardinality(Probes') = Cardinality(Probes) - 1
         /\ r \notin Probes => Cardinality(Probes') = Cardinality(Probes)
<1>1. CASE r \in Probes
  BY <1>1, ProbesFinite, FS_RemoveElement, FS_EmptySet
<1>2. CASE r \notin Probes
  <2>1. Probes' = Probes
    BY <1>2
  <2>. QED
    BY <1>2, <2>1
<1>. QED
  BY <1>1, <1>2

\* A step that ends the probe r and gives its slot back if any is taken.
LEMMA SlotGivenBack ==
  ASSUME BreakerInv, SlotsAccounted, NEW r \in Requests,
         Probes' = Probes \ {r}, r \in Probes <=> req[r].probe,
         \/ halfOpenInFlight' = 0 /\ lost' = 0
         \/ halfOpenInFlight' = Released(r) /\ lost' = lost
  PROVE  SlotsAccounted'
<1>1. halfOpenInFlight \in Nat /\ lost \in Nat
  BY ThresholdsAssumption, TimeAssumption DEF BreakerInv, TypeOK
<1>2. CASE r \in Probes
  <2>1. \/ halfOpenInFlight' = 0
        \/ halfOpenInFlight' = halfOpenInFlight - 1 /\ lost' = lost
    BY <1>1, <1>2 DEF Released
  <2>2. Cardinality(Probes) # 0 /\ Cardinality(Probes') = Cardinality(Probes) - 1
    BY <1>2, OneProbeLess
  <2>. QED
    BY <1>1, <2>1, <2>2, ProbesFinite DEF SlotsAccounted
<1>3. CASE r \notin Probes
  <2>1. halfOpenInFlight' = 0 \/ (halfOpenInFlight' = halfOpenInFlight /\ lost' = lost)
    BY <1>3 DEF Released
  <2>2. Cardinality(Probes') = Cardinality(Probes)
    BY <1>3, OneProbeLess
  <2>. QED
    BY <1>1, <2>1, <2>2, ProbesFinite DEF SlotsAccounted
<1>. QED
  BY <1>2, <1>3

\* A panic ends the probe r, and its slot is lost.
LEMMA SlotLost ==
  ASSUME BreakerInv, SlotsAccounted, NEW r \in Requests,
         Probes' = Probes \ {r}, r \in Probes <=> req[r].probe,
         halfOpenInFlight' = halfOpenInFlight,
         lost' = IF req[r].probe THEN lost + 1 ELSE lost
  PROVE  SlotsAccounted'
<1>1. halfOpenInFlight \in Nat /\ lost \in Nat
  BY ThresholdsAssumption, TimeAssumption DEF BreakerInv, TypeOK
<1>2. \/ lost' = lost + 1 /\ Cardinality(Probes') = Cardinality(Probes) - 1
      \/ lost' = lost /\ Cardinality(Probes') = Cardinality(Probes)
  BY OneProbeLess
<1>. QED
  BY <1>1, <1>2, ProbesFinite DEF SlotsAccounted

LEMMA SlotsStep == BreakerInv /\ SlotsAccounted /\ [Next]_vars => SlotsAccounted'
<1>. SUFFICES ASSUME BreakerInv, SlotsAccounted, [Next]_vars
              PROVE  SlotsAccounted'
  OBVIOUS
<1>0. DOMAIN req = Requests
  BY DEF BreakerInv, TypeOK
<1>1. ASSUME NEW r \in Requests, Arrive(r) \/ Respond(r) \/ AdmitClosed(r) \/ Reject(r)
      PROVE  SlotsAccounted'
  <2>1. Probes' = Probes /\ halfOpenInFlight' = halfOpenInFlight /\ lost' = lost
    BY <1>0, <1>1 DEF BreakerInv, TypeOK, Probes, Arrive, Respond, AdmitClosed, Reject, Serve, Idle,
                      breaker, history
  <2>. QED
    BY <2>1, SlotsKept
<1>2. ASSUME NEW r \in Requests, Promote(r) \/ AdmitProbe(r)
      PROVE  SlotsAccounted'
  <2>1. /\ Probes' = Probes \cup {r} /\ r \notin Probes
        /\ \/ halfOpenInFlight' = 1 /\ lost' = 0
           \/ halfOpenInFlight' = halfOpenInFlight + 1 /\ lost' = lost
    BY <1>0, <1>2 DEF BreakerInv, TypeOK, Probes, Promote, AdmitProbe, Serve
  <2>. QED
    BY <2>1, SlotTaken
<1>3. ASSUME NEW r \in Requests, Record(r)
      PROVE  SlotsAccounted'
  <2>1. Probes' = Probes \ {r} /\ (r \in Probes <=> req[r].probe)
    BY <1>0, <1>3 DEF BreakerInv, TypeOK, Probes, Record, Idle
  <2>2. \/ halfOpenInFlight' = 0 /\ lost' = 0
        \/ halfOpenInFlight' = Released(r) /\ lost' = lost
    BY <1>3 DEF Record, RecordClosed, RecordHalfOpen, RecordOpen, Open
  <2>. QED
    BY <2>1, <2>2, SlotGivenBack
<1>4. ASSUME NEW r \in Requests, Panic(r)
      PROVE  SlotsAccounted'
  <2>1. Probes' = Probes \ {r} /\ (r \in Probes <=> req[r].probe)
    BY <1>0, <1>4 DEF BreakerInv, TypeOK, Probes, Panic, Idle
  <2>2. /\ halfOpenInFlight' = halfOpenInFlight
        /\ lost' = IF req[r].probe THEN lost + 1 ELSE lost
    BY <1>4 DEF Panic, breaker
  <2>. QED
    BY <2>1, <2>2, SlotLost
<1>5. CASE Tick
  <2>1. Probes' = Probes /\ halfOpenInFlight' = halfOpenInFlight /\ lost' = lost
    BY <1>0, <1>5 DEF BreakerInv, TypeOK, Probes, Tick, Holding, breaker, history
  <2>. QED
    BY <2>1, SlotsKept
<1>6. CASE UNCHANGED vars
  BY <1>6, SlotsKept DEF vars, breaker, history, Probes
<1>. QED
  BY <1>1, <1>2, <1>3, <1>4, <1>5, <1>6 DEF Next, Admit

(* Every slot taken is held by a probe that is still in flight, or was lost *)
(* to a panic: nothing else leaks the slots of a half-open breaker.         *)
THEOREM SlotsAccountedThm == Spec => []SlotsAccounted
<1>1. BreakerInv /\ SlotsAccounted /\ [Next]_vars => SlotsAccounted'
  BY SlotsStep
<1>. QED
  BY <1>1, BreakerInit, BreakerStep, SlotsInit, PTL DEF Spec

(* The pairing that recordResult's comment asks for holds of ServeHTTP as   *)
(* long as no handler panics.                                               *)
THEOREM SlotsHeldByProbesThm == MaxLost = 0 => (Spec => []SlotsHeldByProbes)
<1>. SUFFICES ASSUME MaxLost = 0 PROVE Spec => []SlotsHeldByProbes
  OBVIOUS
<1>1. BreakerInv /\ SlotsAccounted => SlotsHeldByProbes
  BY ProbesFinite, ThresholdsAssumption
     DEF BreakerInv, TypeOK, SlotsAccounted, SlotsHeldByProbes
<1>2. BreakerInv /\ SlotsAccounted /\ [Next]_vars => SlotsAccounted'
  BY SlotsStep
<1>. QED
  BY <1>1, <1>2, BreakerInit, BreakerStep, SlotsInit, PTL DEF Spec
=============================================================================
