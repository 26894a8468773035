------------------------------ MODULE RaftStore ------------------------------
(***************************************************************************)
(* The replicated configuration store: every node keeps its own fsm.db and  *)
(* applies the entries of one raft log to it.  hashicorp/raft is external:  *)
(* `log` is what it has committed, in order, and it hands the entries to    *)
(* each node one after the other (Propose, ApplyNext).                      *)
(*                                                                          *)
(* fsm.db survives a crash; how far raft had applied the log does not.  A   *)
(* restarting node starts again after its latest raft snapshot, and from    *)
(* the first entry if it has none, on the fsm.db it left behind.            *)
(***************************************************************************)
EXTENDS ConfigFsm, FiniteSets

CONSTANTS Nodes, Batches,
          MaxLog,       \* bound: entries in the raft log
          MaxCrashes    \* bound: crashes in a behaviour

ASSUME BatchesAssumption == Batches \subseteq Seq(Command)
ASSUME NodesAssumption == IsFiniteSet(Nodes)
ASSUME BoundsAssumption == MaxLog \in Nat /\ MaxCrashes \in Nat

VARIABLES log,      \* entries committed by raft
          history,  \* history[i + 1]: the database after the first i entries, once each
          db,       \* node -> content of its fsm.db
          applied,  \* node -> entries raft has applied since the node started
          snap,     \* node -> its latest raft snapshot (index 0: none)
          up,       \* nodes that are running
          replayed, \* nodes whose fsm.db took some entry twice (history variable)
          crashes

vars == <<log, history, db, applied, snap, up, replayed, crashes>>

NoSnap == [index |-> 0, db |-> EmptyDb, replayed |-> FALSE]

Init ==
  /\ log = <<>> /\ history = <<EmptyDb>>
  /\ db = [n \in Nodes |-> EmptyDb]
  /\ applied = [n \in Nodes |-> 0]
  /\ snap = [n \in Nodes |-> NoSnap]
  /\ up = Nodes /\ replayed = {} /\ crashes = 0

\* Driver.apply on the leader: a majority stores the entry and raft commits it.
Propose(batch) ==
  /\ 2 * Cardinality(up) > Cardinality(Nodes)
  /\ Len(log) < MaxLog
  /\ log' = Append(log, batch)
  /\ history' = Append(history, ApplyBatch(history[Len(history)], batch).db)
  /\ UNCHANGED <<db, applied, snap, up, replayed, crashes>>

\* Mutant: the last entry waits for another one.
ApplyNextButLast(n) ==
  /\ n \in up /\ applied[n] + 1 < Len(log)
  /\ db' = [db EXCEPT ![n] = ApplyBatch(@, log[applied[n] + 1]).db]
  /\ applied' = [applied EXCEPT ![n] = @ + 1]
  /\ UNCHANGED <<log, history, snap, up, replayed, crashes>>

\* fsm.Apply on the next entry, in one bbolt transaction.
ApplyNext(n) ==
  /\ n \in up /\ applied[n] < Len(log)
  /\ db' = [db EXCEPT ![n] = ApplyBatch(@, log[applied[n] + 1]).db]
  /\ applied' = [applied EXCEPT ![n] = @ + 1]
  /\ UNCHANGED <<log, history, snap, up, replayed, crashes>>

\* fsm.Snapshot and Persist: the whole fsm.db, labelled with the applied index.
TakeSnapshot(n) ==
  /\ n \in up /\ applied[n] > snap[n].index
  /\ snap' = [snap EXCEPT ![n] = [index |-> applied[n], db |-> db[n],
                                  replayed |-> n \in replayed]]
  /\ UNCHANGED <<log, history, db, applied, up, replayed, crashes>>

\* Mutants: the old fsm.db stays open; the snapshot counts for one entry more.
RestoreKeepingDb(n, s) ==
  /\ db' = [db EXCEPT ![n] = RebuildUpstreamIndex(@)]
  /\ applied' = [applied EXCEPT ![n] = s.index]
  /\ replayed' = IF s.replayed THEN replayed \cup {n} ELSE replayed \ {n}

RestoreOneAhead(n, s) ==
  /\ db' = [db EXCEPT ![n] = RebuildUpstreamIndex(s.db)]
  /\ applied' = [applied EXCEPT ![n] = s.index + 1]
  /\ replayed' = IF s.replayed THEN replayed \cup {n} ELSE replayed \ {n}

\* What fsm.Restore does with a snapshot: swap fsm.db, rebuild the index.
RestoreFrom(n, s) ==
  /\ db' = [db EXCEPT ![n] = RebuildUpstreamIndex(s.db)]
  /\ applied' = [applied EXCEPT ![n] = s.index]
  /\ replayed' = IF s.replayed THEN replayed \cup {n} ELSE replayed \ {n}

\* The leader m sends its snapshot to a node that is behind it.
InstallSnapshot(n, m) ==
  /\ n \in up /\ m \in up /\ snap[m].index > applied[n]
  /\ RestoreFrom(n, snap[m])
  /\ snap' = [snap EXCEPT ![n] = snap[m]]
  /\ UNCHANGED <<log, history, up, crashes>>

Crash(n) ==
  /\ n \in up /\ crashes < MaxCrashes
  /\ up' = up \ {n} /\ crashes' = crashes + 1
  /\ UNCHANGED <<log, history, db, applied, snap, replayed>>

\* Mutant: the replay leaves out the first entry.
RestartAtSecondEntry(n) ==
  /\ n \notin up /\ snap[n].index = 0
  /\ db' = [db EXCEPT ![n] = RebuildUpstreamIndex(@)]
  /\ applied' = [applied EXCEPT ![n] = IF log = <<>> THEN 0 ELSE 1]
  /\ replayed' = IF applied[n] > 0 THEN replayed \cup {n} ELSE replayed
  /\ up' = up \cup {n}
  /\ UNCHANGED <<log, history, snap, crashes>>

\* Driver.Open without a snapshot: fsm.db is opened as it is (its index
\* rebuilt) and raft starts again at the first entry.
RestartFromLog(n) ==
  /\ n \notin up /\ snap[n].index = 0
  /\ db' = [db EXCEPT ![n] = RebuildUpstreamIndex(@)]
  /\ applied' = [applied EXCEPT ![n] = 0]
  /\ replayed' = IF applied[n] > 0 THEN replayed \cup {n} ELSE replayed
  /\ up' = up \cup {n}
  /\ UNCHANGED <<log, history, snap, crashes>>

\* Driver.Open with one: raft restores it over the fsm.db that was there.
RestartFromSnapshot(n) ==
  /\ n \notin up /\ snap[n].index > 0
  /\ RestoreFrom(n, snap[n])
  /\ up' = up \cup {n}
  /\ UNCHANGED <<log, history, snap, crashes>>

NodeStep(n) ==
  \/ ApplyNext(n)
  \/ TakeSnapshot(n)
  \/ \E m \in Nodes : InstallSnapshot(n, m)
  \/ Crash(n)
  \/ RestartFromLog(n)
  \/ RestartFromSnapshot(n)

Next == (\E batch \in Batches : Propose(batch)) \/ (\E n \in Nodes : NodeStep(n))

Spec == Init /\ [][Next]_vars

\* Running nodes keep applying, and a crashed node is started again.
FairSpec ==
  Spec /\ \A n \in Nodes : /\ WF_vars(ApplyNext(n))
                           /\ WF_vars(RestartFromLog(n) \/ RestartFromSnapshot(n))
-----------------------------------------------------------------------------
TypeOK ==
  /\ log \in Seq(Batches) /\ Len(log) <= MaxLog
  /\ Len(history) = Len(log) + 1
  /\ applied \in [Nodes -> 0..Len(log)]
  /\ DOMAIN db = Nodes
  /\ DOMAIN snap = Nodes
  /\ \A n \in Nodes : snap[n].index \in 0..Len(log) /\ snap[n].replayed \in BOOLEAN
  /\ up \subseteq Nodes /\ replayed \subseteq Nodes /\ crashes \in 0..MaxCrashes

(* A node that never took an entry twice shows a database the whole cluster *)
(* went through: the one after the entries it has applied.  It holds        *)
(* whatever crashes, restarts from snapshots and installed snapshots mix.   *)
FollowsHistory ==
  \A n \in Nodes : n \notin replayed => db[n] = history[applied[n] + 1]

(* Whatever was replayed, restored or installed, every fsm.db is consistent *)
(* in itself: no upstream is missing from the index (so the rebuild at      *)
(* startup and after a restore has nothing to add), the hash bucket finds   *)
(* the stored keys, and config versions are numbered without gaps.          *)
ReplicasConsistent ==
  \A n \in Nodes :
    IndexCompleteIn(db[n]) /\ KeyIndexIn(db[n]) /\ VersionsGaplessIn(db[n])

(* "Multi-node uses raft for config replication" (cluster-sync.md): nodes   *)
(* that have applied the same log hold the same configuration.              *)
ReplicasAgree ==
  \A n, m \in up : applied[n] = Len(log) /\ applied[m] = Len(log) => db[n] = db[m]

(* What the gateway is configured from: everything but the numbered copies. *)
Config(d) == <<d.routes, d.services, d.owner, d.index, d.policies, d.bindings, d.keys>>

\* The commands that may be refused.
Refusable == {"delete_route", "update_service", "delete_service", "delete_policy",
              "detach_policy", "revoke_api_key"}

\* The row that a command creates, or without which it is refused.
Named(c) ==
  CASE c.op \in {"put_route", "delete_route"} -> <<"route", c.id>>
    [] c.op \in {"create_service", "update_service", "delete_service"} -> <<"service", c.id>>
    [] c.op \in {"put_policy", "delete_policy"} -> <<"policy", c.id>>
    [] c.op \in {"attach_policy", "detach_policy"} -> <<"binding", <<c.id, c.target>>>>
    [] c.op \in {"create_api_key", "revoke_api_key"} -> <<"key", c.id>>
    [] c.op = "append_audit_entry" -> <<"audit", c.id>>
    [] OTHER -> <<"none">>

Makes(c, x) ==
  \/ /\ c.op \in {"put_route", "create_service", "put_policy", "attach_policy", "create_api_key",
                  "append_audit_entry"}
     /\ x = Named(c)
  \/ \E e \in Carries(c) : x = <<"listed", e>>

\* The first nodes to take the i-th entry accepted it.
Stored(i) == ApplyBatch(history[i], log[i]).ok

\* Row x is made by one of the entries i to j.
Made(i, j, x) == \E k \in i..j : Stored(k) /\ \E a \in DOMAIN log[k] : Makes(log[k][a], x)

(* "id := uuid.New().String()" (tx.go, in every Create): an id is drawn     *)
(* when its row is made, so that nobody names it before.  A command that    *)
(* is refused without its row comes after some command that makes the row,  *)
(* or the row is never made.  A binding has no id of its own; the handler   *)
(* that detaches a policy from a route is free to name any.                 *)
KnownIds ==
  \A i \in DOMAIN log : \A b \in DOMAIN log[i] :
    LET c == log[i][b]
        x == Named(c)
    IN  c.op \in Refusable /\ (c.op = "detach_policy" => Len(log[i]) > 1) =>
          \/ Made(1, i - 1, x) \/ \E e \in 1..(b - 1) : Makes(log[i][e], x)
          \/ ~Made(i, Len(log), x)

(* Replaying the log over the fsm.db it already went into is harmless for   *)
(* the configuration once the node has caught up, also when the node        *)
(* crashes while it replays: every entry is accepted again, or refused      *)
(* again, and overwrites the rows it names.                                 *)
ReplayConverges ==
  KnownIds => \A n \in up : applied[n] = Len(log) =>
    Config(db[n]) = Config(history[Len(history)])

(* A revocation holds on every node that has taken it: whatever the node    *)
(* crashed, replayed or restored, a key that is revoked after the entries   *)
(* it has applied is revoked in its fsm.db.  Before that it may be active   *)
(* again: a replay that is at the key's creation makes it so.               *)
RevocationsHold ==
  KnownIds => \A n \in Nodes, k \in Keys :
    history[applied[n] + 1].keys[k] = "revoked" => db[n].keys[k] = "revoked"

(* A node that was started again ends up with the cluster's configuration.  *)
EventuallyCaughtUp ==
  \A n \in Nodes : n \notin up ~>
    (n \in up /\ Config(db[n]) = Config(history[Len(history)]))
=============================================================================
