----------------------------- MODULE DaemonServices -----------------------------
(***************************************************************************)
(* Six components of the daemon that share no state, side by side: their    *)
(* parameters, with what the code says of them, their variables, and the    *)
(* properties that the modules state and explain, under one name each.      *)
(*                                                                          *)
(* The session cache is extended, and so its names stand for themselves;    *)
(* the others are instances.                                                *)
(***************************************************************************)
EXTENDS SessionCache, Sequences

CONSTANTS Capacity, ChanCap, Resuming, Plain, MaxPushes, MaxConns,  \* ring buffer
          TraceId,                                                  \* of the traces of both
          Classes, Interval, Phase, MaxTime, MaxTraces, MaxRestarts, \* aggregator
          Resolvers, SecretTTL, MaxUpdates,                         \* secret cache
          Nodes, MaxUps, MaxDowns, MaxGossip,                       \* counters
          RestWriters, GrpcWriters, Agent, NotifyCap, InboxCap, MaxChanges \* sync

\* NewRingBuffer and Subscribe take no buffer without room; the bounds are numbers.
ASSUME RingAssumption ==
  /\ Capacity \in Nat \ {0} /\ ChanCap \in Nat \ {0}
  /\ MaxPushes \in Nat /\ MaxConns \in Nat
  /\ Resuming \cap Plain = {}

ASSUME SumsAssumption ==
  /\ Interval \in Nat \ {0} /\ Phase \in 0..Interval - 1
  /\ MaxTime \in Nat \ {0} /\ MaxTraces \in Nat /\ MaxRestarts \in Nat

ASSUME VaultAssumption == SecretTTL \in Nat /\ MaxUpdates \in Nat

\* The agent is no writer.
ASSUME SyncAssumption ==
  /\ RestWriters \cap GrpcWriters = {} /\ Agent \notin RestWriters \cup GrpcWriters
  /\ NotifyCap \in Nat \ {0} /\ InboxCap \in Nat \ {0} /\ MaxChanges \in Nat

VARIABLES buf, head, count, pushed, todo, conn, reader, queue, closed, crashed, got, base, missed, gone
VARIABLES now, socket, ring, due, since, cycle, raw, stats, tallies, logged, restarts, excused
VARIABLES secret, entry, resolve, value, late, flushed
VARIABLES P, N, idle, gossip, taken, ups, downs, collected
VARIABLES version, begun, notify, inbox, at, built, caddy, running, reasons

Ring == INSTANCE TraceRing WITH at <- reader
Sums == INSTANCE Aggregator WITH rows <- tallies
Vault == INSTANCE SecretCache WITH Calls <- Resolvers, TTL <- SecretTTL, at <- resolve
Counter == INSTANCE CounterSet
Sync == INSTANCE SyncPipeline
-----------------------------------------------------------------------------
(* Every component keeps its types.                                         *)
TypesOK == /\ TypeOK /\ Ring!TypeOK /\ Sums!TypeOK
           /\ Vault!TypeOK /\ Counter!TypeOK /\ Sync!TypeOK

(* The properties, as the modules state and explain them, beside            *)
(* StaleOnlyIfSpared: what a returning SSE client is sent,                  *)
ResumeHasNoGap == Ring!ResumeHasNoGap
(* what a client without a replay sees,                                     *)
InOrderOnce == Ring!InOrderOnce
(* when a send meets a closed channel,                                      *)
PanicOnlyInWindow == Ring!PanicOnlyInWindow
(* which bucket counts a trace,                                             *)
CountedInOneBucket == Sums!CountedInOneBucket
(* which old secrets are still answered,                                    *)
FreshAfterFlush == Vault!FreshAfterFlush
(* what nodes believe of each other's counts and of their own,              *)
CountsExact == Counter!CountsExact
(* what leaves Caddy behind the store,                                      *)
StaleHasReason == Sync!StaleHasReason
(* and that it catches up when nothing does.                                *)
ConvergesWhenHealthy == Sync!ConvergesWhenHealthy
=============================================================================
