------------------------------ MODULE Aggregator ------------------------------
(***************************************************************************)
(* The aggregator of the trace store (tracestore/aggregator.go): once in an *)
(* interval it takes the traces that the ring buffer holds from the start   *)
(* of its last cycle on, and writes them and their sums to the database     *)
(* (tracestore/sqlite).  The sums of a batch are modelled by the traces     *)
(* they count: one row for all of them ("stats"), and one row for each      *)
(* class, which stands for the route, status and model buckets.             *)
(*                                                                          *)
(* A trace carries the time Caddy logged it at; it reaches the buffer some  *)
(* time later, through the ingester's socket.                               *)
(***************************************************************************)
EXTENDS Naturals, Sequences, FiniteSets, SequencesExt

CONSTANTS Classes,      \* routes, status classes or models
          Capacity,     \* of the ring buffer, at least 1
          Interval,     \* between two ticks, and length of a bucket
          Phase,        \* of the ticker within a bucket, below Interval
          TraceId,      \* trace number -> its trace_id: that of the distributed trace, if any
          MaxTime, MaxTraces, MaxRestarts   \* bounds

VARIABLES now,
          socket,       \* traces on their way to the ingester, in order
          ring,         \* traces in the buffer, oldest first
          due,          \* a tick waits in the ticker's channel
          since,        \* lastAggregated
          cycle,        \* the cycle that runs: step, start, batch, classes to write
          raw,          \* raw_traces: the trace of each row
          stats,        \* stats_buckets: bucket -> traces counted
          rows,         \* the other buckets: <<bucket, class>> -> traces counted
          logged, restarts,   \* traces and restarts so far
          excused       \* traces that need not be counted once (history)

database == <<raw, stats, rows>>
vars == <<now, socket, ring, due, since, cycle, database, logged, restarts, excused>>

Buckets == {b \in 0..MaxTime : b % Interval = 0}
Idle == [step |-> "idle", start |-> 0, batch |-> {}, left |-> {}]

Init ==
  /\ now = 1 /\ socket = <<>> /\ ring = <<>> /\ due = FALSE
  /\ since = 0 /\ cycle = Idle
  /\ raw = {} /\ stats = [b \in Buckets |-> {}] /\ rows = [r \in Buckets \X Classes |-> {}]
  /\ logged = 0 /\ restarts = 0 /\ excused = {}

\* Time passes; the ticker drops a tick that finds another one waiting.
Tick ==
  /\ now < MaxTime
  /\ now' = now + 1
  /\ due' = (due \/ now' % Interval = Phase)
  /\ UNCHANGED <<socket, ring, since, cycle, database, logged, restarts, excused>>

\* Caddy logs a request.
Log(class) ==
  /\ logged < MaxTraces
  /\ logged' = logged + 1
  /\ socket' = Append(socket, [id |-> logged', at |-> now, class |-> class])
  /\ UNCHANGED <<now, ring, due, since, cycle, database, restarts, excused>>

\* A full buffer overwrites its oldest trace: it is lost unless a cycle has
\* it.  One that arrives after a later cycle has begun is never drained.
Push ==
  LET trace == Head(socket)
      dropped == IF Len(ring) = Capacity THEN {Head(ring)} ELSE {} IN
  /\ socket # <<>>
  /\ socket' = Tail(socket)
  /\ ring' = Append(IF dropped = {} THEN ring ELSE Tail(ring), trace)
  /\ excused' = excused \cup {x \in dropped : x.at >= since /\ x \notin cycle.batch}
                        \cup {x \in {trace} : x.at < since}
  /\ UNCHANGED <<now, due, since, cycle, database, logged, restarts>>

-----------------------------------------------------------------------------
(* RunCycle.                                                                *)

DrainSince == {x \in Range(ring) : x.at >= since}

Begin ==
  /\ due /\ cycle = Idle
  /\ due' = FALSE
  /\ cycle' = [Idle EXCEPT !.step = "drain", !.start = now]
  /\ UNCHANGED <<now, socket, ring, since, database, logged, restarts, excused>>

\* A trace logged after the cycle began will be drained by the next one too.
Drain ==
  /\ cycle.step = "drain"
  /\ IF DrainSince = {}
     THEN cycle' = Idle /\ since' = cycle.start
     ELSE cycle' = [cycle EXCEPT !.step = "raw", !.batch = DrainSince] /\ UNCHANGED since
  /\ excused' = excused \cup {x \in DrainSince : x.at >= cycle.start}
  /\ UNCHANGED <<now, socket, ring, due, database, logged, restarts>>

SameId(x, y) == TraceId[x.id] = TraceId[y.id]
Stored(x) == \E y \in raw : SameId(x, y)

\* trace_id is the primary key: of the traces with one id the first is inserted.
Inserted ==
  {x \in cycle.batch : ~Stored(x) /\ \A y \in cycle.batch : SameId(x, y) => x.id <= y.id}

\* WriteBatch is one transaction, and ignores traces whose id it has.
WriteBatch ==
  /\ cycle.step = "raw"
  /\ raw' = raw \cup Inserted
  /\ cycle' = [cycle EXCEPT !.step = "stats"]
  /\ UNCHANGED <<now, socket, ring, due, since, stats, rows, logged, restarts, excused>>

Bucket == cycle.start - (cycle.start % Interval)

\* A row that is there is replaced: two cycles can begin in one bucket, when
\* the first was late.
WriteStats ==
  /\ cycle.step = "stats"
  /\ stats' = [stats EXCEPT ![Bucket] = cycle.batch]
  /\ cycle' = [cycle EXCEPT !.step = "rows", !.left = {x.class : x \in cycle.batch}]
  /\ excused' = excused \cup (stats[Bucket] \ cycle.batch)
  /\ UNCHANGED <<now, socket, ring, due, since, raw, rows, logged, restarts>>

\* The maps are walked in any order.
WriteRow(class) ==
  /\ cycle.step = "rows" /\ class \in cycle.left
  /\ rows' = [rows EXCEPT ![<<Bucket, class>>] = {x \in cycle.batch : x.class = class}]
  /\ cycle' = [cycle EXCEPT !.left = @ \ {class}]
  /\ UNCHANGED <<now, socket, ring, due, since, raw, stats, logged, restarts, excused>>

\* What arrived in the meantime but was logged before the cycle is passed over.
PassedOver == {x \in DrainSince \ cycle.batch : x.at < cycle.start}

\* Mutant: the next cycle goes on from the end of this one.
FinishAtEnd ==
  /\ cycle.step = "rows" /\ cycle.left = {}
  /\ since' = now
  /\ cycle' = Idle
  /\ excused' = excused \cup PassedOver
  /\ UNCHANGED <<now, socket, ring, due, database, logged, restarts>>

Finish ==
  /\ cycle.step = "rows" /\ cycle.left = {}
  /\ since' = cycle.start
  /\ cycle' = Idle
  /\ excused' = excused \cup PassedOver
  /\ UNCHANGED <<now, socket, ring, due, database, logged, restarts>>

\* A write fails: the next cycle takes the same traces again, if it still can,
\* and counts them in another bucket, even if they are counted in this one.
WriteFails ==
  /\ cycle.step \in {"raw", "stats"} \/ cycle.left # {}
  /\ cycle' = Idle
  /\ excused' = excused \cup (IF cycle.step = "rows" THEN cycle.batch
                              ELSE cycle.batch \ Range(ring))
  /\ UNCHANGED <<now, socket, ring, due, since, database, logged, restarts>>

\* The daemon stops, at any step, and starts again: Stop runs no last cycle,
\* and buffer and lastAggregated are in memory only.
Restart ==
  /\ restarts < MaxRestarts
  /\ restarts' = restarts + 1
  /\ socket' = <<>> /\ ring' = <<>> /\ due' = FALSE /\ since' = 0 /\ cycle' = Idle
  /\ excused' = excused \cup DrainSince \cup cycle.batch
  /\ UNCHANGED <<now, database, logged>>

Next ==
  \/ Tick \/ Push \/ Begin \/ Drain \/ WriteBatch \/ WriteStats \/ Finish \/ WriteFails \/ Restart
  \/ \E class \in Classes : Log(class) \/ WriteRow(class)

Spec == Init /\ [][Next]_vars
-----------------------------------------------------------------------------
Trace == [id : 1..MaxTraces, at : 0..MaxTime, class : Classes]

TypeOK ==
  /\ now \in 0..MaxTime /\ since \in 0..now
  /\ socket \in Seq(Trace) /\ ring \in Seq(Trace) /\ Len(ring) <= Capacity
  /\ due \in BOOLEAN
  /\ cycle.step \in {"idle", "drain", "raw", "stats", "rows"}
  /\ cycle.start <= now /\ cycle.batch \subseteq Trace /\ cycle.left \subseteq Classes
  /\ raw \subseteq Trace /\ excused \subseteq Trace
  /\ stats \in [Buckets -> SUBSET Trace] /\ rows \in [Buckets \X Classes -> SUBSET Trace]
  /\ logged \in 0..MaxTraces /\ restarts \in 0..MaxRestarts

Seen == Range(ring) \cup raw \cup excused \cup UNION {stats[b] : b \in Buckets}

\* Between two cycles: still to be counted, and counted.
Waiting(x) == x \in DrainSince /\ \A b \in Buckets : x \notin stats[b]
CountedOnce(x) ==
  /\ Stored(x)
  /\ Cardinality({b \in Buckets : x \in stats[b]}) = 1
  /\ \A b \in Buckets : x \in stats[b] <=> x \in rows[<<b, x.class>>]

(* The cycles tile the time: a trace that has reached the buffer waits for  *)
(* the next cycle or is counted, in one bucket and there both in the total  *)
(* and in its class, whatever comes between the steps of the cycles, and    *)
(* the raw traces hold a row with its id: its own, or that of another trace *)
(* with the same id, for then its own is ignored.  The exceptions:          *)
(* overwritten in the buffer before it was drained; pushed after a cycle    *)
(* that began after it was logged; logged while a cycle began, and drained  *)
(* by it; in a bucket that was replaced, or half written; or in the buffer  *)
(* when the daemon stopped.                                                 *)
CountedInOneBucket ==
  cycle = Idle => \A x \in Seen \ excused : Waiting(x) \/ CountedOnce(x)
=============================================================================
