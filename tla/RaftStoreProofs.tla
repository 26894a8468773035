---------------------------- MODULE RaftStoreProofs ----------------------------
(***************************************************************************)
(* Proofs about RaftStore, for any number of nodes, any log and any number  *)
(* of crashes.  Two facts are kept by every step: the recorded history is   *)
(* what the log produces, and every database, replayed or not, is sound.    *)
(* Soundness is what makes a restored node follow the history: the rebuild  *)
(* of the index, which runs on every start, has nothing to add.             *)
(*                                                                          *)
(* A replica that replays is at no point of the history.  What can be said  *)
(* of it is said row by row (Ahead): rows that the entries so far make are  *)
(* those of the history, and the others were made by entries still to come. *)
(***************************************************************************)
EXTENDS RaftStore, ConfigFsmProofs

TypeInv ==
  /\ log \in Seq(Batches) /\ Len(log) <= MaxLog
  /\ history \in Seq(Db) /\ Len(history) = Len(log) + 1
  /\ applied \in [Nodes -> 0..Len(log)]
  /\ db \in [Nodes -> Db]
  /\ snap \in [Nodes -> [index : 0..Len(log), db : Db, replayed : BOOLEAN]]
  /\ up \subseteq Nodes /\ replayed \subseteq Nodes /\ crashes \in 0..MaxCrashes

\* Every database there is, past, present or in a snapshot, is sound.
AllSound ==
  /\ \A i \in 1..Len(history) : Sound(history[i])
  /\ \A n \in Nodes : Sound(db[n]) /\ Sound(snap[n].db)

\* history[i + 1] is the database after the first i entries.
HistoryOfLog ==
  \A i \in 1..Len(log) : history[i + 1] = ApplyBatch(history[i], log[i]).db

\* Databases and snapshots that no replay went into are in the history.
Follows ==
  /\ FollowsHistory
  /\ \A n \in Nodes : ~snap[n].replayed => snap[n].db = history[snap[n].index + 1]

RaftInv == TypeInv /\ AllSound /\ HistoryOfLog /\ Follows

LEMMA RaftInit == Init => RaftInv
<1>. SUFFICES ASSUME Init PROVE RaftInv
  OBVIOUS
<1>. USE DEF Init, NoSnap
<1>1. Sound(EmptyDb) /\ EmptyDb \in Db
  BY EmptySound DEF Sound
<1>2. TypeInv
  BY <1>1, BoundsAssumption DEF TypeInv
<1>3. AllSound
  BY <1>1 DEF AllSound
<1>4. HistoryOfLog /\ Follows
  BY DEF HistoryOfLog, Follows, FollowsHistory
<1>. QED
  BY <1>2, <1>3, <1>4 DEF RaftInv

\* Applying an entry to a sound database gives a sound database.
LEMMA EntrySound ==
  ASSUME NEW d, Sound(d), NEW batch \in Batches
  PROVE  Sound(ApplyBatch(d, batch).db) /\ ApplyBatch(d, batch).db \in Db
<1>1. Sound(ApplyBatch(d, batch).db)
  BY BatchSound, BatchesAssumption
<1>. QED
  BY <1>1 DEF Sound

LEMMA ProposeStep ==
  ASSUME RaftInv, NEW batch \in Batches, Propose(batch)
  PROVE  RaftInv'
<1>. DEFINE last == history[Len(history)]
            new  == ApplyBatch(last, batch).db
<1>1. /\ Len(log) \in Nat /\ Len(history) = Len(log) + 1
      /\ history \in Seq(Db) /\ log \in Seq(Batches)
  BY DEF RaftInv, TypeInv
<1>2. Sound(new) /\ new \in Db
  BY <1>1, EntrySound DEF RaftInv, AllSound
<1>. HIDE DEF new
<1>3. /\ log' = Append(log, batch) /\ history' = Append(history, new)
      /\ UNCHANGED <<db, applied, snap, up, replayed, crashes>>
  BY DEF Propose, new
<1>4. /\ Len(log') = Len(log) + 1 /\ Len(history') = Len(log) + 2
      /\ \A i \in 1..Len(log) : log'[i] = log[i]
      /\ \A i \in 1..Len(history) : history'[i] = history[i]
      /\ log'[Len(log) + 1] = batch /\ history'[Len(log) + 2] = new
  BY <1>1, <1>3
<1>5. TypeInv'
  <2>1. log' \in Seq(Batches) /\ history' \in Seq(Db) /\ Len(log') <= MaxLog
    BY <1>1, <1>2, <1>3, <1>4, BoundsAssumption DEF Propose
  <2>2. 0..Len(log) \subseteq 0..Len(log')
    BY <1>1, <1>4
  <2>. QED
    BY <1>1, <1>3, <1>4, <2>1, <2>2 DEF RaftInv, TypeInv
<1>6. AllSound'
  BY <1>1, <1>2, <1>3, <1>4 DEF RaftInv, AllSound
<1>7. HistoryOfLog'
  <2>. SUFFICES ASSUME NEW i \in 1..Len(log')
                PROVE  history'[i + 1] = ApplyBatch(history'[i], log'[i]).db
    BY DEF HistoryOfLog
  <2>1. CASE i \in 1..Len(log)
    <3>1. i + 1 \in 1..Len(history) /\ i \in 1..Len(history)
      BY <1>1, <2>1
    <3>. QED
      BY <1>4, <2>1, <3>1 DEF RaftInv, HistoryOfLog
  <2>2. CASE i = Len(log) + 1
    <3>1. i + 1 = Len(log) + 2 /\ i \in 1..Len(history) /\ i = Len(history)
      BY <1>1, <2>2
    <3>2. history'[i] = last
      BY <1>4, <3>1
    <3>. QED
      BY <1>4, <2>2, <3>1, <3>2 DEF new
  <2>. QED
    BY <1>1, <1>4, <2>1, <2>2
<1>8. Follows'
  <2>1. \A n \in Nodes : /\ applied[n] + 1 \in 1..Len(history)
                         /\ snap[n].index + 1 \in 1..Len(history)
    BY <1>1 DEF RaftInv, TypeInv
  <2>. QED
    BY <1>3, <1>4, <2>1 DEF RaftInv, Follows, FollowsHistory
<1>. QED
  BY <1>5, <1>6, <1>7, <1>8 DEF RaftInv

LEMMA ApplyStep ==
  ASSUME RaftInv, NEW n \in Nodes, ApplyNext(n)
  PROVE  RaftInv'
<1>. DEFINE entry == log[applied[n] + 1]
            new   == ApplyBatch(db[n], entry).db
<1>1. /\ Len(log) \in Nat /\ applied[n] \in 0..Len(log) /\ applied[n] < Len(log)
      /\ applied \in [Nodes -> 0..Len(log)] /\ db \in [Nodes -> Db]
      /\ entry \in Batches
  BY DEF RaftInv, TypeInv, ApplyNext
<1>2. Sound(new) /\ new \in Db
  BY <1>1, EntrySound DEF RaftInv, AllSound
<1>3. n \notin replayed => new = history[(applied[n] + 1) + 1]
  <2>1. applied[n] + 1 \in 1..Len(log)
    BY <1>1
  <2>. QED
    BY <2>1 DEF RaftInv, HistoryOfLog, Follows, FollowsHistory
<1>. HIDE DEF new
<1>4. /\ db' = [db EXCEPT ![n] = new]
      /\ applied' = [applied EXCEPT ![n] = @ + 1]
      /\ UNCHANGED <<log, history, snap, up, replayed, crashes>>
  BY DEF ApplyNext, new
<1>5. TypeInv'
  BY <1>1, <1>2, <1>4 DEF RaftInv, TypeInv
<1>6. AllSound'
  BY <1>1, <1>2, <1>4 DEF RaftInv, AllSound
<1>7. HistoryOfLog'
  BY <1>4 DEF RaftInv, HistoryOfLog
<1>8. Follows'
  BY <1>1, <1>3, <1>4 DEF RaftInv, Follows, FollowsHistory
<1>. QED
  BY <1>5, <1>6, <1>7, <1>8 DEF RaftInv

LEMMA SnapshotStep ==
  ASSUME RaftInv, NEW n \in Nodes, TakeSnapshot(n)
  PROVE  RaftInv'
<1>1. /\ snap' = [snap EXCEPT ![n] = [index |-> applied[n], db |-> db[n],
                                      replayed |-> n \in replayed]]
      /\ UNCHANGED <<log, history, db, applied, up, replayed, crashes>>
  BY DEF TakeSnapshot
<1>2. [index |-> applied[n], db |-> db[n], replayed |-> n \in replayed]
        \in [index : 0..Len(log), db : Db, replayed : BOOLEAN]
  BY DEF RaftInv, TypeInv
<1>3. TypeInv'
  BY <1>1, <1>2 DEF RaftInv, TypeInv
<1>4. AllSound'
  BY <1>1 DEF RaftInv, TypeInv, AllSound
<1>5. HistoryOfLog' /\ Follows'
  BY <1>1 DEF RaftInv, TypeInv, HistoryOfLog, Follows, FollowsHistory
<1>. QED
  BY <1>3, <1>4, <1>5 DEF RaftInv

\* Restoring a snapshot in the history puts the node back into the history.
LEMMA RestoreStep ==
  ASSUME RaftInv, NEW n \in Nodes, NEW m \in Nodes, RestoreFrom(n, snap[m]),
         snap' = [snap EXCEPT ![n] = snap[m]],
         up' \subseteq Nodes, UNCHANGED <<log, history, crashes>>
  PROVE  RaftInv'
<1>1. RebuildUpstreamIndex(snap[m].db) = snap[m].db
  BY RebuildSound DEF RaftInv, AllSound
<1>2. /\ db' = [db EXCEPT ![n] = snap[m].db]
      /\ applied' = [applied EXCEPT ![n] = snap[m].index]
      /\ replayed' = IF snap[m].replayed THEN replayed \cup {n} ELSE replayed \ {n}
  BY <1>1 DEF RestoreFrom
<1>3. TypeInv'
  BY <1>2 DEF RaftInv, TypeInv
<1>4. AllSound'
  BY <1>2 DEF RaftInv, TypeInv, AllSound
<1>5. HistoryOfLog' /\ Follows'
  BY <1>2 DEF RaftInv, TypeInv, HistoryOfLog, Follows, FollowsHistory
<1>. QED
  BY <1>3, <1>4, <1>5 DEF RaftInv

LEMMA RestartStep ==
  ASSUME RaftInv, NEW n \in Nodes, RestartFromLog(n)
  PROVE  RaftInv'
<1>1. RebuildUpstreamIndex(db[n]) = db[n]
  BY RebuildSound DEF RaftInv, AllSound
<1>2. /\ db' = db /\ applied' = [applied EXCEPT ![n] = 0]
      /\ replayed' = IF applied[n] > 0 THEN replayed \cup {n} ELSE replayed
      /\ up' = up \cup {n}
      /\ UNCHANGED <<log, history, snap, crashes>>
  BY <1>1 DEF RestartFromLog, RaftInv, TypeInv
<1>3. TypeInv'
  BY <1>2 DEF RaftInv, TypeInv
<1>4. AllSound'
  BY <1>2 DEF RaftInv, AllSound
<1>5. HistoryOfLog' /\ Follows'
  BY <1>2 DEF RaftInv, TypeInv, HistoryOfLog, Follows, FollowsHistory
<1>. QED
  BY <1>3, <1>4, <1>5 DEF RaftInv

LEMMA RaftStep == RaftInv /\ [Next]_vars => RaftInv'
<1>. SUFFICES ASSUME RaftInv, [Next]_vars PROVE RaftInv'
  OBVIOUS
<1>1. ASSUME NEW batch \in Batches, Propose(batch) PROVE RaftInv'
  BY <1>1, ProposeStep
<1>2. ASSUME NEW n \in Nodes, NodeStep(n) PROVE RaftInv'
  <2>1. CASE ApplyNext(n)
    BY <2>1, ApplyStep
  <2>2. CASE TakeSnapshot(n)
    BY <2>2, SnapshotStep
  <2>3. ASSUME NEW m \in Nodes, InstallSnapshot(n, m) PROVE RaftInv'
    BY <2>3, RestoreStep DEF InstallSnapshot, RaftInv, TypeInv
  <2>4. CASE Crash(n)
    <3>1. TypeInv'
      BY <2>4, BoundsAssumption DEF Crash, RaftInv, TypeInv
    <3>. QED
      BY <2>4, <3>1 DEF Crash, RaftInv, AllSound, HistoryOfLog, Follows, FollowsHistory
  <2>5. CASE RestartFromLog(n)
    BY <2>5, RestartStep
  <2>6. CASE RestartFromSnapshot(n)
    <3>1. snap' = [snap EXCEPT ![n] = snap[n]] /\ up' \subseteq Nodes
      BY <2>6 DEF RestartFromSnapshot, RaftInv, TypeInv
    <3>. QED
      BY <2>6, <3>1, RestoreStep DEF RestartFromSnapshot
  <2>. QED
    BY <1>2, <2>1, <2>2, <2>3, <2>4, <2>5, <2>6 DEF NodeStep
<1>3. CASE UNCHANGED vars
  BY <1>3 DEF vars, RaftInv, TypeInv, AllSound, HistoryOfLog, Follows, FollowsHistory
<1>. QED
  BY <1>1, <1>2, <1>3 DEF Next

(* Type correctness of the cluster.                                         *)
THEOREM RaftTypeCorrect == Spec => []TypeOK
<1>1. RaftInv => TypeOK
  BY DEF RaftInv, TypeInv, TypeOK
<1>. QED
  BY <1>1, RaftInit, RaftStep, PTL DEF Spec

(* A node that never took an entry twice is at a point of the history,      *)
(* through crashes, restarts and installed snapshots.                       *)
THEOREM FollowsHistoryThm == Spec => []FollowsHistory
<1>1. RaftInv => FollowsHistory
  BY DEF RaftInv, Follows
<1>. QED
  BY <1>1, RaftInit, RaftStep, PTL DEF Spec

(* Every replica, also a replayed one, keeps its own indexes and version    *)
(* numbers consistent.                                                      *)
THEOREM ReplicasConsistentThm == Spec => []ReplicasConsistent
<1>1. RaftInv => ReplicasConsistent
  BY DEF RaftInv, AllSound, Sound, ReplicasConsistent
<1>. QED
  BY <1>1, RaftInit, RaftStep, PTL DEF Spec

-----------------------------------------------------------------------------
(* ReplayConverges.  Entry by entry, the replaying node does what the nodes *)
(* before it did: what it holds of rows that no entry has made yet (its     *)
(* fsm.db is ahead) decides nothing, because nobody names them yet.         *)

Rows == ({"route"} \X Routes) \cup ({"service"} \X Services) \cup ({"policy"} \X Policies)
          \cup ({"key"} \X Keys) \cup ({"binding"} \X (Policies \X Targets))
          \cup ({"listed"} \X (Services \X Upstreams)) \cup ({"audit"} \X Audits)

\* Row x is in database d.
Holds(d, x) ==
  \/ x[1] = "route" /\ x[2] \in d.routes
  \/ x[1] = "service" /\ x[2] \in d.services
  \/ x[1] = "policy" /\ x[2] \in d.policies
  \/ x[1] = "key" /\ d.keys[x[2]] # "absent"
  \/ x[1] = "binding" /\ x[2] \in d.bindings
  \/ x[1] = "listed" /\ x[2] \in d.index
  \/ x[1] = "audit" /\ x[2] \in d.audit

\* Databases d and e hold the same in row x (an index entry is a row; owners are compared apart).
Alike(d, e, x) ==
  /\ Holds(d, x) <=> Holds(e, x)
  /\ x[1] = "key" => d.keys[x[2]] = e.keys[x[2]]

(* What an accepted command leaves in each row.                             *)
LEMMA EffectNames ==
  ASSUME NEW d \in Db, NEW c \in Command
  PROVE  LET e == Effect(d, c)
         IN  /\ \A r \in Routes : (r \in e.routes <=>
                  \/ c.op = "put_route" /\ c.id = r
                  \/ r \in d.routes /\ ~(c.op = "delete_route" /\ c.id = r))
             /\ \A p \in Policies : (p \in e.policies <=>
                  \/ c.op = "put_policy" /\ c.id = p
                  \/ p \in d.policies /\ ~(c.op = "delete_policy" /\ c.id = p))
             /\ \A s \in Services : (s \in e.services <=>
                  \/ c.op = "create_service" /\ c.id = s
                  \/ s \in d.services /\ ~(c.op = "delete_service" /\ c.id = s))
<1>. DEFINE e == Effect(d, c)
<1>1. CASE c.op \in {"put_route", "delete_route"}
  BY <1>1 DEF Effect, PutRoute, DeleteRoute, Db
<1>2. CASE c.op \in {"put_policy", "delete_policy"}
  BY <1>2 DEF Effect, PutPolicy, DeletePolicy, Db
<1>3. CASE c.op \in {"create_service", "update_service", "delete_service"}
  BY <1>3 DEF Effect, CreateService, UpdateService, DeleteService, StoreUpstreams,
              DropUpstreams, Db
<1>4. CASE c.op \notin {"put_route", "delete_route", "put_policy", "delete_policy",
                        "create_service", "update_service", "delete_service"}
  <2>1. e.routes = d.routes /\ e.policies = d.policies /\ e.services = d.services
    BY <1>4 DEF Effect, Command, AttachPolicy, DetachPolicy, CreateAPIKey, RevokeAPIKey,
                SaveConfigVersion, AppendAuditEntry, Db
  <2>. HIDE DEF e
  <2>2. /\ \A r \in Routes : (r \in e.routes <=>
              \/ c.op = "put_route" /\ c.id = r
              \/ r \in d.routes /\ ~(c.op = "delete_route" /\ c.id = r))
        /\ \A p \in Policies : (p \in e.policies <=>
              \/ c.op = "put_policy" /\ c.id = p
              \/ p \in d.policies /\ ~(c.op = "delete_policy" /\ c.id = p))
        /\ \A s \in Services : (s \in e.services <=>
              \/ c.op = "create_service" /\ c.id = s
              \/ s \in d.services /\ ~(c.op = "delete_service" /\ c.id = s))
    BY <1>4, <2>1
  <2>. QED
    BY <2>2 DEF e
<1>. QED
  BY <1>1, <1>2, <1>3, <1>4

LEMMA EffectKeys ==
  ASSUME NEW d \in Db, NEW c \in Command, NEW k \in Keys
  PROVE  Effect(d, c).keys[k] = IF c.op = "create_api_key" /\ c.id = k THEN "active"
                                ELSE IF c.op = "revoke_api_key" /\ c.id = k THEN "revoked"
                                ELSE d.keys[k]
<1>. DEFINE e == Effect(d, c)
<1>1. CASE c.op \in {"create_api_key", "revoke_api_key"}
  <2>1. /\ c.id \in Keys
        /\ c.op = "create_api_key" => e.keys = [d.keys EXCEPT ![c.id] = "active"]
        /\ c.op = "revoke_api_key" => e.keys = [d.keys EXCEPT ![c.id] = "revoked"]
    BY <1>1 DEF Effect, Command, CreateAPIKey, RevokeAPIKey, Db
  <2>2. d.keys \in [Keys -> {"absent", "active", "revoked"}]
    BY DEF Db
  <2>. HIDE DEF e
  <2>3. e.keys[k] = IF c.op = "create_api_key" /\ c.id = k THEN "active"
                    ELSE IF c.op = "revoke_api_key" /\ c.id = k THEN "revoked" ELSE d.keys[k]
    BY <1>1, <2>1, <2>2
  <2>. QED
    BY <2>3 DEF e
<1>2. CASE c.op \notin {"create_api_key", "revoke_api_key"}
  <2>1. e.keys = d.keys
    BY <1>2 DEF Effect, Command, PutRoute, DeleteRoute, PutPolicy, DeletePolicy, AttachPolicy,
                DetachPolicy, SaveConfigVersion, AppendAuditEntry, CreateService,
                UpdateService, DeleteService, StoreUpstreams, DropUpstreams, Db
  <2>. QED
    BY <1>2, <2>1
<1>. QED
  BY <1>1, <1>2

LEMMA EffectBindings ==
  ASSUME NEW d \in Db, NEW c \in Command, NEW p \in Policies, NEW t \in Targets
  PROVE  <<p, t>> \in Effect(d, c).bindings <=>
           \/ c.op = "attach_policy" /\ c.id = p /\ c.target = t
           \/ /\ <<p, t>> \in d.bindings
              /\ ~(c.op = "detach_policy" /\ c.id = p /\ c.target = t)
              /\ ~(c.op \in {"delete_route", "delete_service"} /\ c.id = t)
<1>. DEFINE e == Effect(d, c)
<1>1. CASE c.op = "attach_policy"
  <2>1. e.bindings = d.bindings \cup {<<c.id, c.target>>}
    BY <1>1 DEF Effect, AttachPolicy, Db
  <2>. QED
    BY <1>1, <2>1
<1>2. CASE c.op = "detach_policy"
  <2>1. e.bindings = d.bindings \ {<<c.id, c.target>>}
    BY <1>2 DEF Effect, DetachPolicy, Db
  <2>. QED
    BY <1>2, <2>1
<1>3. CASE c.op \in {"delete_route", "delete_service"}
  <2>1. e.bindings = {b \in d.bindings : b[2] # c.id}
    BY <1>3 DEF Effect, DeleteRoute, DeleteService, DropUpstreams, Db
  <2>. QED
    BY <1>3, <2>1
<1>4. CASE c.op \notin {"attach_policy", "detach_policy", "delete_route", "delete_service"}
  <2>1. e.bindings = d.bindings
    BY <1>4 DEF Effect, Command, PutRoute, PutPolicy, DeletePolicy, CreateAPIKey, RevokeAPIKey,
                SaveConfigVersion, AppendAuditEntry, CreateService, UpdateService,
                StoreUpstreams, DropUpstreams, Db
  <2>. QED
    BY <1>4, <2>1
<1>. QED
  BY <1>1, <1>2, <1>3, <1>4

LEMMA EffectAudit ==
  ASSUME NEW d \in Db, NEW c \in Command, NEW a \in Audits
  PROVE  a \in Effect(d, c).audit <=> (c.op = "append_audit_entry" /\ c.id = a) \/ a \in d.audit
<1>. DEFINE e == Effect(d, c)
<1>1. CASE c.op = "append_audit_entry"
  <2>1. e.audit = d.audit \cup {c.id}
    BY <1>1 DEF Effect, AppendAuditEntry, Db
  <2>. QED
    BY <1>1, <2>1
<1>2. CASE c.op # "append_audit_entry"
  <2>1. e.audit = d.audit
    BY <1>2 DEF Effect, Command, PutRoute, DeleteRoute, PutPolicy, DeletePolicy, AttachPolicy,
                DetachPolicy, CreateAPIKey, RevokeAPIKey, SaveConfigVersion, CreateService,
                UpdateService, DeleteService, StoreUpstreams, DropUpstreams, Db
  <2>. QED
    BY <1>2, <2>1
<1>. QED
  BY <1>1, <1>2

\* The row a command names.
LEMMA NamedRow ==
  ASSUME NEW c \in Command
  PROVE  /\ c.op \in {"put_route", "delete_route"} =>
              c.id \in Routes /\ Named(c) = <<"route", c.id>>
         /\ c.op \in {"create_service", "update_service", "delete_service"} =>
              c.id \in Services /\ Named(c) = <<"service", c.id>>
         /\ c.op \in {"put_policy", "delete_policy"} =>
              c.id \in Policies /\ Named(c) = <<"policy", c.id>>
         /\ c.op \in {"attach_policy", "detach_policy"} =>
              /\ c.id \in Policies /\ c.target \in Targets
              /\ Named(c) = <<"binding", <<c.id, c.target>>>>
         /\ c.op \in {"create_api_key", "revoke_api_key"} =>
              c.id \in Keys /\ Named(c) = <<"key", c.id>>
         /\ c.op = "append_audit_entry" => c.id \in Audits /\ Named(c) = <<"audit", c.id>>
BY DEF Command, Named

\* A command that may be refused is accepted in databases alike in its row, and
\* refused without it.
LEMMA AcceptedByRow ==
  ASSUME NEW c \in Command
  PROVE  /\ c.op \notin Refusable => \A d : Accepted(d, c)
         /\ c.op \in Refusable =>
              /\ Named(c) \in Rows
              /\ \A d : ~Holds(d, Named(c)) => ~Accepted(d, c)
              /\ \A d, e : Alike(d, e, Named(c)) => (Accepted(d, c) <=> Accepted(e, c))
<1>1. c.op \notin Refusable => \A d : Accepted(d, c)
  BY DEF Refusable, Accepted
<1>2. CASE c.op = "delete_route"
  BY <1>2, NamedRow DEF Refusable, Accepted, Rows, Holds, Alike
<1>3. CASE c.op \in {"update_service", "delete_service"}
  BY <1>3, NamedRow DEF Refusable, Accepted, Rows, Holds, Alike
<1>4. CASE c.op = "delete_policy"
  BY <1>4, NamedRow DEF Refusable, Accepted, Rows, Holds, Alike
<1>5. CASE c.op = "detach_policy"
  BY <1>5, NamedRow DEF Refusable, Accepted, Rows, Holds, Alike
<1>6. CASE c.op = "revoke_api_key"
  BY <1>6, NamedRow DEF Refusable, Accepted, Rows, Holds, Alike
<1>. QED
  BY <1>1, <1>2, <1>3, <1>4, <1>5, <1>6 DEF Refusable

\* A row is of one of seven kinds.
LEMMA RowKinds ==
  ASSUME NEW x \in Rows
  PROVE  \/ \E r \in Routes : x = <<"route", r>>
         \/ \E s \in Services : x = <<"service", s>>
         \/ \E p \in Policies : x = <<"policy", p>>
         \/ \E k \in Keys : x = <<"key", k>>
         \/ \E p \in Policies, t \in Targets : x = <<"binding", <<p, t>>>>
         \/ \E v \in Services, u \in Upstreams : x = <<"listed", <<v, u>>>>
         \/ \E a \in Audits : x = <<"audit", a>>
BY DEF Rows

(* An accepted command keeps two databases alike where they were, and makes *)
(* them alike in the rows it makes; and it makes all that is new.           *)
LEMMA EffectAlike ==
  ASSUME NEW d, NEW e, Sound(d), Sound(e),
         NEW c \in Command, NEW x \in Rows, Alike(d, e, x) \/ Makes(c, x)
  PROVE  Alike(Effect(d, c), Effect(e, c), x)
<1>0. d \in Db /\ e \in Db
  BY DEF Sound
<1>1. ASSUME NEW r \in Routes, x = <<"route", r>>
      PROVE  Alike(Effect(d, c), Effect(e, c), x)
  <2>1. (r \in d.routes <=> r \in e.routes) \/ (c.op = "put_route" /\ c.id = r)
    BY <1>1, NamedRow DEF Alike, Holds, Makes
  <2>2. r \in Effect(d, c).routes <=> r \in Effect(e, c).routes
    BY <1>0, <2>1, EffectNames
  <2>. QED
    BY <1>1, <2>2 DEF Alike, Holds
<1>2. ASSUME NEW s \in Services, x = <<"service", s>>
      PROVE  Alike(Effect(d, c), Effect(e, c), x)
  <2>1. (s \in d.services <=> s \in e.services) \/ (c.op = "create_service" /\ c.id = s)
    BY <1>2, NamedRow DEF Alike, Holds, Makes
  <2>2. s \in Effect(d, c).services <=> s \in Effect(e, c).services
    BY <1>0, <2>1, EffectNames
  <2>. QED
    BY <1>2, <2>2 DEF Alike, Holds
<1>3. ASSUME NEW p \in Policies, x = <<"policy", p>>
      PROVE  Alike(Effect(d, c), Effect(e, c), x)
  <2>1. (p \in d.policies <=> p \in e.policies) \/ (c.op = "put_policy" /\ c.id = p)
    BY <1>3, NamedRow DEF Alike, Holds, Makes
  <2>2. p \in Effect(d, c).policies <=> p \in Effect(e, c).policies
    BY <1>0, <2>1, EffectNames
  <2>. QED
    BY <1>3, <2>2 DEF Alike, Holds
<1>4. ASSUME NEW k \in Keys, x = <<"key", k>>
      PROVE  Alike(Effect(d, c), Effect(e, c), x)
  <2>1. d.keys[k] = e.keys[k] \/ (c.op = "create_api_key" /\ c.id = k)
    BY <1>4, NamedRow DEF Alike, Makes
  <2>2. Effect(d, c).keys[k] = Effect(e, c).keys[k]
    BY <1>0, <2>1, EffectKeys
  <2>. QED
    BY <1>4, <2>2 DEF Alike, Holds
<1>5. ASSUME NEW p \in Policies, NEW t \in Targets, x = <<"binding", <<p, t>>>>
      PROVE  Alike(Effect(d, c), Effect(e, c), x)
  <2>1. \/ <<p, t>> \in d.bindings <=> <<p, t>> \in e.bindings
        \/ c.op = "attach_policy" /\ c.id = p /\ c.target = t
    BY <1>5, NamedRow DEF Alike, Holds, Makes
  <2>2. <<p, t>> \in Effect(d, c).bindings <=> <<p, t>> \in Effect(e, c).bindings
    BY <1>0, <2>1, EffectBindings
  <2>. QED
    BY <1>5, <2>2 DEF Alike, Holds
<1>6. ASSUME NEW s \in Services, NEW u \in Upstreams, x = <<"listed", <<s, u>>>>
      PROVE  Alike(Effect(d, c), Effect(e, c), x)
  <2>1. \/ <<s, u>> \in d.index <=> <<s, u>> \in e.index
        \/ <<s, u>> \in Carries(c)
    <3>1. Makes(c, x) => <<s, u>> \in Carries(c)
      BY <1>6, NamedRow DEF Makes
    <3>. QED
      BY <1>6, <3>1 DEF Alike, Holds
  <2>2. <<s, u>> \in Effect(d, c).index <=> <<s, u>> \in Effect(e, c).index
    BY <1>0, <2>1, EffectIndex
  <2>. QED
    BY <1>6, <2>2 DEF Alike, Holds
<1>7. ASSUME NEW a \in Audits, x = <<"audit", a>>
      PROVE  Alike(Effect(d, c), Effect(e, c), x)
  <2>1. (a \in d.audit <=> a \in e.audit) \/ (c.op = "append_audit_entry" /\ c.id = a)
    BY <1>7, NamedRow DEF Alike, Holds, Makes
  <2>2. a \in Effect(d, c).audit <=> a \in Effect(e, c).audit
    BY <1>0, <2>1, EffectAudit
  <2>. QED
    BY <1>7, <2>2 DEF Alike, Holds
<1>. QED
  BY <1>1, <1>2, <1>3, <1>4, <1>5, <1>6, <1>7, RowKinds

LEMMA EffectMakes ==
  ASSUME NEW d, Sound(d),
         NEW c \in Command, Accepted(d, c),
         NEW x \in Rows, Holds(Effect(d, c), x)
  PROVE  Holds(d, x) \/ Makes(c, x)
<1>0. d \in Db
  BY DEF Sound
<1>. USE DEF Holds, Makes
<1>1. ASSUME NEW r \in Routes, x = <<"route", r>> PROVE Holds(d, x) \/ Makes(c, x)
  <2>1. r \in d.routes \/ (c.op = "put_route" /\ c.id = r)
    BY <1>0, <1>1, EffectNames
  <2>. QED
    BY <1>1, <2>1, NamedRow
<1>2. ASSUME NEW s \in Services, x = <<"service", s>> PROVE Holds(d, x) \/ Makes(c, x)
  <2>1. s \in d.services \/ (c.op = "create_service" /\ c.id = s)
    BY <1>0, <1>2, EffectNames
  <2>. QED
    BY <1>2, <2>1, NamedRow
<1>3. ASSUME NEW p \in Policies, x = <<"policy", p>> PROVE Holds(d, x) \/ Makes(c, x)
  <2>1. p \in d.policies \/ (c.op = "put_policy" /\ c.id = p)
    BY <1>0, <1>3, EffectNames
  <2>. QED
    BY <1>3, <2>1, NamedRow
<1>4. ASSUME NEW k \in Keys, x = <<"key", k>> PROVE Holds(d, x) \/ Makes(c, x)
  <2>1. d.keys[k] # "absent" \/ (c.op = "create_api_key" /\ c.id = k)
    <3>1. c.op = "revoke_api_key" /\ c.id = k => d.keys[k] # "absent"
      BY DEF Accepted
    <3>2. Effect(d, c).keys[k] # "absent"
      BY <1>4
    <3>. QED
      BY <1>0, <3>1, <3>2, EffectKeys
  <2>. QED
    BY <1>4, <2>1, NamedRow
<1>5. ASSUME NEW p \in Policies, NEW t \in Targets, x = <<"binding", <<p, t>>>>
      PROVE  Holds(d, x) \/ Makes(c, x)
  <2>1. <<p, t>> \in d.bindings \/ (c.op = "attach_policy" /\ c.id = p /\ c.target = t)
    BY <1>0, <1>5, EffectBindings
  <2>. QED
    BY <1>5, <2>1, NamedRow
<1>6. ASSUME NEW s \in Services, NEW u \in Upstreams, x = <<"listed", <<s, u>>>>
      PROVE  Holds(d, x) \/ Makes(c, x)
  <2>1. <<s, u>> \in d.index \/ <<s, u>> \in Carries(c)
    BY <1>0, <1>6, EffectIndex
  <2>. QED
    BY <1>6, <2>1
<1>7. ASSUME NEW a \in Audits, x = <<"audit", a>> PROVE Holds(d, x) \/ Makes(c, x)
  <2>1. a \in d.audit \/ (c.op = "append_audit_entry" /\ c.id = a)
    BY <1>0, <1>7, EffectAudit
  <2>. QED
    BY <1>7, <2>1, NamedRow
<1>. QED
  BY <1>1, <1>2, <1>3, <1>4, <1>5, <1>6, <1>7, RowKinds

(* The entry as a whole.                                                    *)

\* A run of the commands of a batch on d: accepted so far, or d again.
RunOf(d, batch, out) ==
  /\ out[0] = [ok |-> TRUE, db |-> d]
  /\ \A i \in 0..(Len(batch) - 1) :
       /\ i + 1 \in DOMAIN batch /\ batch[i + 1] \in Command
       /\ out[i + 1].ok <=> out[i].ok /\ Accepted(out[i].db, batch[i + 1])
       /\ out[i + 1].db = IF out[i + 1].ok THEN Effect(out[i].db, batch[i + 1]) ELSE d

LEMMA AcceptedRun ==
  ASSUME NEW d, NEW batch \in Seq(Command)
  PROVE  RunOf(d, batch, Outcomes(d, batch))
<1>. DEFINE out == Outcomes(d, batch)
<1>1. Len(batch) \in Nat /\ \A i \in 1..Len(batch) : batch[i] \in Command /\ i \in DOMAIN batch
  OBVIOUS
<1>2. /\ out[0] = [ok |-> TRUE, db |-> d]
      /\ \A i \in 1..Len(batch) : out[i] = Step(d, out[i - 1], batch[i])
  BY <1>1, OutcomesUnfold
<1>. HIDE DEF out
<1>3. ASSUME NEW i \in 0..(Len(batch) - 1)
      PROVE  /\ i + 1 \in DOMAIN batch /\ batch[i + 1] \in Command
             /\ out[i + 1].ok <=> out[i].ok /\ Accepted(out[i].db, batch[i + 1])
             /\ out[i + 1].db = IF out[i + 1].ok THEN Effect(out[i].db, batch[i + 1]) ELSE d
  <2>1. i + 1 \in 1..Len(batch) /\ (i + 1) - 1 = i
    BY <1>1
  <2>2. out[i + 1] = Step(d, out[i], batch[i + 1])
    BY <1>2, <2>1
  <2>3. CASE out[i].ok /\ Accepted(out[i].db, batch[i + 1])
    <3>1. out[i + 1] = [ok |-> TRUE, db |-> Effect(out[i].db, batch[i + 1])]
      BY <2>2, <2>3, Zenon DEF Step
    <3>. QED
      BY <1>1, <2>1, <2>3, <3>1
  <2>4. CASE ~(out[i].ok /\ Accepted(out[i].db, batch[i + 1]))
    <3>1. out[i + 1] = [ok |-> FALSE, db |-> d]
      BY <2>2, <2>4, Zenon DEF Step
    <3>. QED
      BY <1>1, <2>1, <2>4, <3>1
  <2>. QED
    BY <2>3, <2>4
<1>4. RunOf(d, batch, out)
  BY <1>2, <1>3 DEF RunOf
<1>. QED
  BY <1>4 DEF out

LEMMA BatchAllSound ==
  ASSUME NEW d, Sound(d),
         NEW batch \in Seq(Command)
  PROVE  \A i \in 0..Len(batch) : Sound(Outcomes(d, batch)[i].db)
<1>. DEFINE out == Outcomes(d, batch)
            good == {i \in 0..Len(batch) : Sound(out[i].db)}
<1>1. RunOf(d, batch, out)
  BY AcceptedRun
<1>. HIDE DEF out
<1>2. Len(batch) \in Nat /\ 0 \in 0..Len(batch) /\ 0 \in good
  BY <1>1 DEF RunOf
<1>3. ASSUME NEW i \in 0..(Len(batch) - 1), i \in good PROVE i + 1 \in good
  BY <1>1, <1>2, <1>3, EffectSound DEF RunOf
<1>4. 0..Len(batch) \subseteq good
  <2>. HIDE DEF good
  <2>. QED
    BY <1>2, <1>3, Upward
<1>. QED
  BY <1>4 DEF out

\* What an accepted entry, or a part of it, adds is made by its commands.
LEMMA BatchMakes ==
  ASSUME NEW d, Sound(d),
         NEW batch \in Seq(Command)
  PROVE  LET out == Outcomes(d, batch)
         IN  \A i \in 0..Len(batch), x \in Rows :
               out[i].ok /\ Holds(out[i].db, x) =>
                 Holds(d, x) \/ \E j \in 1..i : Makes(batch[j], x)
<1>. DEFINE out == Outcomes(d, batch)
            made(i, x) == \E j \in 1..i : Makes(batch[j], x)
            good == {i \in 0..Len(batch) : \A x \in Rows :
                       out[i].ok /\ Holds(out[i].db, x) => Holds(d, x) \/ made(i, x)}
<1>1. RunOf(d, batch, out)
  BY AcceptedRun
<1>2. \A i \in 0..Len(batch) : Sound(out[i].db)
  BY BatchAllSound
<1>. HIDE DEF out
<1>3. Len(batch) \in Nat /\ 0 \in 0..Len(batch) /\ 0 \in good
  BY <1>1 DEF RunOf
<1>4. ASSUME NEW i \in 0..(Len(batch) - 1), i \in good PROVE i + 1 \in good
  <2>1. i \in 0..Len(batch) /\ i + 1 \in 0..Len(batch) /\ i + 1 \in 1..(i + 1)
        /\ 1..i \subseteq 1..(i + 1)
    BY <1>3
  <2>2. ASSUME NEW x \in Rows, out[i + 1].ok, Holds(out[i + 1].db, x)
        PROVE  Holds(d, x) \/ made(i + 1, x)
    <3>1. Holds(out[i].db, x) \/ Makes(batch[i + 1], x)
      BY <1>1, <1>2, <2>1, <2>2, EffectMakes DEF RunOf
    <3>2. Holds(out[i].db, x) => Holds(d, x) \/ made(i, x)
      BY <1>1, <1>4, <2>2 DEF RunOf
    <3>. QED
      BY <2>1, <3>1, <3>2
  <2>. QED
    BY <2>1, <2>2
<1>5. 0..Len(batch) \subseteq good
  <2>. HIDE DEF good
  <2>. QED
    BY <1>3, <1>4, Upward
<1>. QED
  BY <1>5 DEF out

\* An entry that is refused leaves the database as it was.
LEMMA RolledBack ==
  ASSUME NEW d, NEW batch \in Seq(Command), ~ApplyBatch(d, batch).ok
  PROVE  ApplyBatch(d, batch).db = d
<1>. DEFINE out == Outcomes(d, batch)
<1>1. RunOf(d, batch, out)
  BY AcceptedRun
<1>2. ApplyBatch(d, batch) = out[Len(batch)]
  BY DEF ApplyBatch
<1>. HIDE DEF out
<1>3. CASE Len(batch) = 0
  BY <1>1, <1>2, <1>3 DEF RunOf
<1>4. CASE Len(batch) # 0
  <2>. DEFINE k == Len(batch) - 1
  <2>1. k \in 0..(Len(batch) - 1) /\ k + 1 = Len(batch)
    BY <1>4
  <2>. HIDE DEF k
  <2>2. out[k + 1].db = IF out[k + 1].ok THEN Effect(out[k].db, batch[k + 1]) ELSE d
    BY <1>1, <2>1 DEF RunOf
  <2>. QED
    BY <1>2, <2>1, <2>2
<1>. QED
  BY <1>3, <1>4

\* After i commands of a batch on two databases: both or neither are still
\* accepted, and they are alike in the rows M and what the commands have made.
InStep(d, e, batch, M, i) ==
  LET f == Outcomes(d, batch)[i]
      g == Outcomes(e, batch)[i]
  IN  /\ f.ok <=> g.ok
      /\ f.ok => \A x \in Rows : x \in M \/ (\E j \in 1..i : Makes(batch[j], x)) =>
                   Alike(f.db, g.db, x)

(* Two databases that are alike in the rows made so far take an entry in    *)
(* step: it is accepted by both or by neither, and leaves them alike in     *)
(* what it has made, too.                                                   *)
LEMMA CommandsInStep ==
  ASSUME NEW d, NEW e, Sound(d), Sound(e),
         NEW batch \in Seq(Command),
         NEW M \in SUBSET Rows, \A x \in M : Alike(d, e, x),
         \A b \in DOMAIN batch : batch[b].op \in Refusable =>
           \/ Named(batch[b]) \in M
           \/ \E j \in 1..(b - 1) : Makes(batch[j], Named(batch[b]))
           \/ ~Holds(d, Named(batch[b])) /\ ~Holds(e, Named(batch[b]))
  PROVE  \A i \in 0..Len(batch) : InStep(d, e, batch, M, i)
<1>. DEFINE f == Outcomes(d, batch)
            g == Outcomes(e, batch)
            made(i, x) == \E j \in 1..i : Makes(batch[j], x)
            same(i) == /\ f[i].ok <=> g[i].ok
                       /\ f[i].ok => \A x \in Rows : x \in M \/ made(i, x) =>
                                       Alike(f[i].db, g[i].db, x)
            good == {i \in 0..Len(batch) : same(i)}
<1>1. RunOf(d, batch, f)
  BY AcceptedRun
<1>2. RunOf(e, batch, g)
  BY AcceptedRun
<1>3. \A i \in 0..Len(batch) : Sound(f[i].db) /\ Sound(g[i].db)
  BY BatchAllSound
<1>4. \A i \in 0..Len(batch), x \in Rows :
        /\ f[i].ok /\ Holds(f[i].db, x) => Holds(d, x) \/ made(i, x)
        /\ g[i].ok /\ Holds(g[i].db, x) => Holds(e, x) \/ made(i, x)
  BY BatchMakes
<1>. HIDE DEF f, g
<1>6. Len(batch) \in Nat /\ DOMAIN batch = 1..Len(batch)
  OBVIOUS
<1>7. 0 \in 0..Len(batch) /\ 0 \in good
  BY <1>1, <1>2, <1>6 DEF RunOf
<1>8. ASSUME NEW i \in 0..(Len(batch) - 1), same(i) PROVE same(i + 1)
  <2>. DEFINE c == batch[i + 1]
  <2>1. /\ i \in 0..Len(batch) /\ i + 1 \in DOMAIN batch /\ c \in Command
        /\ (i + 1) - 1 = i
    BY <1>1, <1>6 DEF RunOf
  <2>2. ASSUME f[i].ok PROVE Accepted(f[i].db, c) <=> Accepted(g[i].db, c)
    <3>1. CASE c.op \notin Refusable
      BY <2>1, <3>1, AcceptedByRow
    <3>2. CASE c.op \in Refusable
      <4>1. Named(c) \in Rows
        BY <2>1, <3>2, AcceptedByRow
      <4>2. CASE Named(c) \in M \/ made(i, Named(c))
        <5>1. Alike(f[i].db, g[i].db, Named(c))
          BY <1>8, <2>2, <4>1, <4>2
        <5>. QED
          BY <2>1, <3>2, <5>1, AcceptedByRow
      <4>3. CASE ~(Named(c) \in M \/ made(i, Named(c)))
        <5>1. ~Holds(d, Named(c)) /\ ~Holds(e, Named(c))
          BY <2>1, <3>2, <4>3
        <5>2. ~Holds(f[i].db, Named(c)) /\ ~Holds(g[i].db, Named(c))
          BY <1>4, <1>8, <2>1, <2>2, <4>1, <4>3, <5>1
        <5>. QED
          BY <2>1, <3>2, <5>2, AcceptedByRow
      <4>. QED
        BY <4>2, <4>3
    <3>. QED
      BY <3>1, <3>2
  <2>3. f[i + 1].ok <=> g[i + 1].ok
    BY <1>1, <1>2, <1>8, <2>2 DEF RunOf
  <2>4. ASSUME f[i + 1].ok, NEW x \in Rows, x \in M \/ made(i + 1, x)
        PROVE  Alike(f[i + 1].db, g[i + 1].db, x)
    <3>1. /\ f[i].ok
          /\ f[i + 1].db = Effect(f[i].db, c) /\ g[i + 1].db = Effect(g[i].db, c)
      BY <1>1, <1>2, <2>3, <2>4 DEF RunOf
    <3>2. x \in M \/ made(i, x) \/ Makes(c, x)
      <4>1. \A j \in 1..(i + 1) : j \in 1..i \/ j = i + 1
        OBVIOUS
      <4>. QED
        BY <2>4, <4>1
    <3>3. Alike(f[i].db, g[i].db, x) \/ Makes(c, x)
      BY <1>8, <3>1, <3>2
    <3>. QED
      BY <1>3, <2>1, <3>1, <3>3, EffectAlike
  <2>. QED
    BY <2>3, <2>4
<1>9. 0..Len(batch) \subseteq good
  <2>1. ASSUME NEW i \in 0..(Len(batch) - 1), i \in good PROVE i + 1 \in good
    BY <1>6, <1>8, <2>1
  <2>. HIDE DEF good
  <2>. QED
    BY <1>6, <1>7, <2>1, Upward
<1>. QED
  BY <1>9 DEF InStep, f, g

LEMMA BatchInStep ==
  ASSUME NEW d, NEW e, NEW batch \in Seq(Command), NEW M \in SUBSET Rows,
         \A i \in 0..Len(batch) : InStep(d, e, batch, M, i), \A x \in M : Alike(d, e, x)
  PROVE  /\ ApplyBatch(d, batch).ok <=> ApplyBatch(e, batch).ok
         /\ \A x \in Rows :
              \/ x \in M
              \/ ApplyBatch(d, batch).ok /\ \E j \in DOMAIN batch : Makes(batch[j], x)
              => Alike(ApplyBatch(d, batch).db, ApplyBatch(e, batch).db, x)
<1>1. Len(batch) \in 0..Len(batch) /\ DOMAIN batch = 1..Len(batch)
  OBVIOUS
<1>2. InStep(d, e, batch, M, Len(batch))
  BY <1>1
<1>3. /\ ApplyBatch(d, batch).ok <=> ApplyBatch(e, batch).ok
      /\ ApplyBatch(d, batch).ok =>
           \A x \in Rows : x \in M \/ (\E j \in 1..Len(batch) : Makes(batch[j], x)) =>
             Alike(ApplyBatch(d, batch).db, ApplyBatch(e, batch).db, x)
  BY <1>2 DEF InStep, ApplyBatch
<1>4. ~ApplyBatch(d, batch).ok => ApplyBatch(d, batch).db = d /\ ApplyBatch(e, batch).db = e
  BY <1>3, RolledBack
<1>. QED
  BY <1>1, <1>3, <1>4

\* The listing of upstream u under service v.
Listing(v, u) == <<"listed", <<v, u>>>>

LEMMA ListingHeld ==
  ASSUME NEW d, NEW v \in Services, NEW u \in Upstreams
  PROVE  Listing(v, u) \in Rows /\ (Holds(d, Listing(v, u)) <=> <<v, u>> \in d.index)
BY DEF Rows, Holds, Listing

LEMMA MakesListing ==
  ASSUME NEW c \in Command, NEW v \in Services, NEW u \in Upstreams
  PROVE  /\ Listing(v, u) \in Rows
         /\ Makes(c, Listing(v, u)) <=> <<v, u>> \in Carries(c)
         /\ <<v, u>> \in Carries(c) => c.id = v
         /\ \A d : Holds(d, Listing(v, u)) <=> <<v, u>> \in d.index
<1>1. Listing(v, u) \in Rows
  BY DEF Rows, Listing
<1>2. Makes(c, Listing(v, u)) <=> <<v, u>> \in Carries(c)
  BY NamedRow DEF Makes, Listing
<1>3. <<v, u>> \in Carries(c) => c.id = v
  BY DEF Carries
<1>4. \A d : Holds(d, Listing(v, u)) <=> <<v, u>> \in d.index
  BY DEF Holds, Listing
<1>. QED
  BY <1>1, <1>2, <1>3, <1>4

\* A listing of u is among the rows `later`, or some command after the i-th
\* makes one.
Pending(later, batch, u, i) ==
  \E v \in Services : \/ Listing(v, u) \in later
                      \/ \E j \in (i + 1)..Len(batch) : Makes(batch[j], Listing(v, u))

(* Databases taking an entry in step may differ in who owns an upstream, as *)
(* long as some later entry lists the upstream again: what the one that is  *)
(* ahead drops, because it lists more, is listed by an entry to come.       *)
LEMMA OwnersInStep ==
  ASSUME NEW d, NEW e, Sound(d), Sound(e), NEW batch \in Seq(Command),
         NEW M \in SUBSET Rows, \A i \in 0..Len(batch) : InStep(d, e, batch, M, i),
         \A x \in Rows : Holds(e, x) => x \in M,
         NEW later,
         \A x \in Rows : Holds(d, x) =>
           x \in M \/ x \in later \/ \E j \in DOMAIN batch : Makes(batch[j], x),
         NEW u \in Upstreams, d.owner[u] = e.owner[u] \/ Pending(later, batch, u, 0),
         ApplyBatch(d, batch).ok
  PROVE  \/ ApplyBatch(d, batch).db.owner[u] = ApplyBatch(e, batch).db.owner[u]
         \/ \E v \in Services : Listing(v, u) \in later
<1>. DEFINE f == Outcomes(d, batch)
            g == Outcomes(e, batch)
            good == {i \in 0..Len(batch) : f[i].ok =>
                       f[i].db.owner[u] = g[i].db.owner[u] \/ Pending(later, batch, u, i)}
<1>1. RunOf(d, batch, f)
  BY AcceptedRun
<1>2. RunOf(e, batch, g)
  BY AcceptedRun
<1>3. \A i \in 0..Len(batch) : Sound(f[i].db) /\ Sound(g[i].db)
  BY BatchAllSound
<1>4. \A i \in 0..Len(batch), x \in Rows :
        /\ f[i].ok /\ Holds(f[i].db, x) => Holds(d, x) \/ \E j \in 1..i : Makes(batch[j], x)
        /\ g[i].ok /\ Holds(g[i].db, x) => Holds(e, x) \/ \E j \in 1..i : Makes(batch[j], x)
  BY BatchMakes
<1>5. \A i \in 0..Len(batch) :
        /\ f[i].ok <=> g[i].ok
        /\ f[i].ok => \A x \in Rows : x \in M \/ (\E j \in 1..i : Makes(batch[j], x)) =>
                        Alike(f[i].db, g[i].db, x)
  BY DEF InStep
<1>6. ApplyBatch(d, batch) = f[Len(batch)] /\ ApplyBatch(e, batch) = g[Len(batch)]
  BY DEF ApplyBatch
<1>. HIDE DEF f, g
<1>7. Len(batch) \in Nat /\ DOMAIN batch = 1..Len(batch) /\ 0 \in 0..Len(batch) /\ 0 \in good
  BY <1>1, <1>2 DEF RunOf
<1>8. ASSUME NEW i \in 0..(Len(batch) - 1), i \in good PROVE i + 1 \in good
  <2>. DEFINE c == batch[i + 1]
  <2>1. /\ i \in Nat /\ i \in 0..Len(batch) /\ i + 1 \in 0..Len(batch) /\ i + 1 \in DOMAIN batch
        /\ c \in Command /\ i + 1 \in (i + 1)..Len(batch)
    BY <1>1, <1>7 DEF RunOf
  <2>. SUFFICES ASSUME f[i + 1].ok
                PROVE  \/ f[i + 1].db.owner[u] = g[i + 1].db.owner[u]
                       \/ Pending(later, batch, u, i + 1)
    BY <2>1
  <2>2. f[i + 1].ok <=> g[i + 1].ok
    BY <1>5, <2>1
  <2>3. /\ f[i].ok /\ f[i + 1].db = Effect(f[i].db, c)
        /\ g[i].ok /\ g[i + 1].db = Effect(g[i].db, c)
    BY <1>1, <1>2, <2>2 DEF RunOf
  <2>. DEFINE Owns(b) == IF <<c.id, u>> \in Carries(c) THEN c.id
                         ELSE IF Renews(c) /\ <<c.id, u>> \in b.index THEN NoService
                         ELSE b.owner[u]
  <2>4. f[i + 1].db.owner[u] = Owns(f[i].db) /\ g[i + 1].db.owner[u] = Owns(g[i].db)
    <3>1. f[i].db \in Db /\ IndexCompleteIn(f[i].db) /\ g[i].db \in Db /\ IndexCompleteIn(g[i].db)
      BY <1>3, <2>1 DEF Sound
    <3>. QED
      BY <2>1, <2>3, <3>1, EffectOwner
  <2>5. CASE <<c.id, u>> \in Carries(c)
    BY <2>4, <2>5
  <2>6. CASE <<c.id, u>> \notin Carries(c)
    <3>1. ASSUME NEW v \in Services, NEW j \in (i + 1)..Len(batch), Makes(batch[j], Listing(v, u))
          PROVE  Pending(later, batch, u, i + 1)
      <4>1. j # i + 1
        BY <2>1, <2>6, <3>1, MakesListing
      <4>2. j \in ((i + 1) + 1)..Len(batch)
        BY <1>7, <2>1, <4>1
      <4>. QED
        BY <3>1, <4>2 DEF Pending
    <3>2. Pending(later, batch, u, i) => Pending(later, batch, u, i + 1)
      BY <3>1 DEF Pending
    <3>3. CASE f[i].db.owner[u] # g[i].db.owner[u]
      BY <1>8, <2>3, <3>2, <3>3
    <3>4. CASE /\ f[i].db.owner[u] = g[i].db.owner[u]
               /\ ~Renews(c) \/ (<<c.id, u>> \in f[i].db.index <=> <<c.id, u>> \in g[i].db.index)
      BY <2>4, <2>6, <3>4
    <3>5. CASE /\ Renews(c)
               /\ ~(<<c.id, u>> \in f[i].db.index <=> <<c.id, u>> \in g[i].db.index)
      <4>. DEFINE x == Listing(c.id, u)
      <4>1. c.id \in Services
        BY <2>1, <3>5 DEF Renews, Command
      <4>2. /\ x \in Rows
            /\ \A b : Holds(b, x) <=> <<c.id, u>> \in b.index
        BY <2>1, <4>1, MakesListing
      <4>. HIDE DEF x
      <4>3. ~Alike(f[i].db, g[i].db, x)
        BY <3>5, <4>2 DEF Alike
      <4>4. x \notin M /\ ~ \E j \in 1..i : Makes(batch[j], x)
        BY <1>5, <2>1, <2>3, <4>2, <4>3
      <4>5. ~Holds(g[i].db, x)
        BY <1>4, <2>1, <2>3, <4>2, <4>4
      <4>6. Holds(d, x)
        BY <1>4, <2>1, <2>3, <3>5, <4>2, <4>4, <4>5
      <4>7. CASE x \in later
        BY <4>1, <4>7 DEF Pending, x
      <4>8. CASE \E j \in DOMAIN batch : Makes(batch[j], x)
        <5>1. PICK j \in DOMAIN batch : Makes(batch[j], x)
          BY <4>8
        <5>2. j \in (i + 1)..Len(batch)
          BY <1>7, <2>1, <4>4, <5>1
        <5>. QED
          BY <3>1, <4>1, <5>1, <5>2 DEF x
      <4>. QED
        BY <4>2, <4>4, <4>6, <4>7, <4>8
    <3>. QED
      BY <3>3, <3>4, <3>5
  <2>. QED
    BY <2>5, <2>6
<1>9. 0..Len(batch) \subseteq good
  <2>. HIDE DEF good
  <2>. QED
    BY <1>7, <1>8, Upward
<1>10. \/ f[Len(batch)].db.owner[u] = g[Len(batch)].db.owner[u]
       \/ Pending(later, batch, u, Len(batch))
  BY <1>6, <1>7, <1>9
<1>11. (Len(batch) + 1)..Len(batch) = {}
  BY <1>7
<1>. QED
  BY <1>6, <1>10, <1>11 DEF Pending

\* An entry that only detaches a policy touches no other row.
LEMMA DetachAlone ==
  ASSUME NEW d \in Db, NEW batch \in Seq(Command), Len(batch) = 1,
         batch[1].op = "detach_policy", NEW x \in Rows
  PROVE  LET new == ApplyBatch(d, batch)
         IN  /\ Holds(new.db, x) => Holds(d, x)
             /\ x # Named(batch[1]) => \A e : Alike(d, e, x) => Alike(new.db, e, x)
             /\ new.db.owner = d.owner
<1>. DEFINE c == batch[1]
            out == Outcomes(d, batch)
<1>1. c \in Command /\ out[1].db \in {Effect(d, c), d}
  <2>1. RunOf(d, batch, out)
    BY AcceptedRun
  <2>. HIDE DEF out
  <2>2. 0 \in 0..(Len(batch) - 1) /\ 0 + 1 = 1
    OBVIOUS
  <2>. QED
    BY <2>1, <2>2 DEF RunOf
<1>2. ApplyBatch(d, batch) = out[1]
  BY DEF ApplyBatch
<1>. HIDE DEF out
<1>3. Effect(d, c) = [d EXCEPT !.bindings = @ \ {<<c.id, c.target>>}]
  BY DEF Effect, DetachPolicy
<1>4. Named(c) = <<"binding", <<c.id, c.target>>>>
  BY <1>1, NamedRow
<1>. DEFINE n == Effect(d, c)
<1>5. /\ n.routes = d.routes /\ n.services = d.services /\ n.policies = d.policies
      /\ n.keys = d.keys /\ n.owner = d.owner /\ n.index = d.index /\ n.audit = d.audit
      /\ n.bindings = d.bindings \ {<<c.id, c.target>>}
  BY <1>3 DEF Db
<1>. HIDE DEF n
<1>6. Holds(n, x) => Holds(d, x)
  BY <1>5 DEF Holds
<1>7. ASSUME x # Named(c), NEW e, Alike(d, e, x) PROVE Alike(n, e, x)
  <2>1. x[1] = "binding" => x[2] # <<c.id, c.target>>
    <3>1. x[1] = "binding" => x = <<"binding", x[2]>>
      BY DEF Rows
    <3>. QED
      BY <1>4, <1>7, <3>1
  <2>. QED
    BY <1>5, <1>7, <2>1 DEF Alike, Holds
<1>. QED
  BY <1>1, <1>2, <1>5, <1>6, <1>7 DEF n

\* What an accepted entry adds is made by its commands.
LEMMA EntryMakes ==
  ASSUME NEW d, Sound(d),
         NEW batch \in Seq(Command),
         NEW x \in Rows, ApplyBatch(d, batch).ok, Holds(ApplyBatch(d, batch).db, x)
  PROVE  Holds(d, x) \/ \E j \in DOMAIN batch : Makes(batch[j], x)
<1>. DEFINE out == Outcomes(d, batch)
<1>1. \A i \in 0..Len(batch), y \in Rows :
        out[i].ok /\ Holds(out[i].db, y) => Holds(d, y) \/ \E j \in 1..i : Makes(batch[j], y)
  BY BatchMakes
<1>2. ApplyBatch(d, batch) = out[Len(batch)]
  BY DEF ApplyBatch
<1>. HIDE DEF out
<1>3. Len(batch) \in 0..Len(batch) /\ DOMAIN batch = 1..Len(batch)
  OBVIOUS
<1>. QED
  BY <1>1, <1>2, <1>3

-----------------------------------------------------------------------------
(* The cluster.                                                             *)

\* A row that is in the history was made by some entry before.
HistoryMade ==
  \A i \in 1..Len(history) : \A x \in Rows : Holds(history[i], x) => Made(1, i - 1, x)

\* A database after `a` entries of the log, some of them taken more often: it is
\* the history in every row that these have made, what else it holds was made by
\* later ones, and a later one lists every upstream whose owner is not the history's.
Ahead(d, a) ==
  /\ \A x \in Rows : /\ Made(1, a, x) => Alike(d, history[a + 1], x)
                     /\ Holds(d, x) => Made(1, Len(log), x)
  /\ \A u \in Upstreams :
       d.owner[u] # history[a + 1].owner[u] =>
         \E v \in Services : Made(a + 1, Len(log), Listing(v, u))

AllAhead == \A n \in Nodes : Ahead(db[n], applied[n]) /\ Ahead(snap[n].db, snap[n].index)

ReplayInv == RaftInv /\ HistoryMade /\ (KnownIds => AllAhead)

LEMMA EmptyHoldsNothing == \A x \in Rows : ~Holds(EmptyDb, x)
<1>1. /\ EmptyDb.routes = {} /\ EmptyDb.services = {} /\ EmptyDb.policies = {}
      /\ EmptyDb.index = {} /\ EmptyDb.bindings = {} /\ EmptyDb.audit = {}
      /\ \A u \in Upstreams : EmptyDb.owner[u] = NoService
      /\ \A k \in Keys : EmptyDb.keys[k] = "absent"
  BY DEF EmptyDb
<1>. QED
  BY <1>1 DEF Rows, Holds

\* No entry makes nothing.
LEMMA MadeByNone == ASSUME NEW x PROVE ~Made(1, 0, x)
BY DEF Made

\* What one entry more has made.
LEMMA MadeByNext ==
  ASSUME NEW a \in Nat, NEW x
  PROVE  Made(1, a + 1, x) <=>
           \/ Made(1, a, x)
           \/ Stored(a + 1) /\ \E j \in DOMAIN log[a + 1] : Makes(log[a + 1][j], x)
<1>1. \A k \in 1..(a + 1) : k \in 1..a \/ k = a + 1
  OBVIOUS
<1>2. 1..a \subseteq 1..(a + 1) /\ a + 1 \in 1..(a + 1)
  OBVIOUS
<1>. QED
  BY <1>1, <1>2 DEF Made

\* What the entries from a + 1 on make.
LEMMA MadeFrom ==
  ASSUME NEW a \in Nat, NEW n \in Nat, a < n, NEW x
  PROVE  Made(a + 1, n, x) <=>
           \/ Stored(a + 1) /\ \E j \in DOMAIN log[a + 1] : Makes(log[a + 1][j], x)
           \/ Made((a + 1) + 1, n, x)
<1>1. \A k \in (a + 1)..n : k = a + 1 \/ k \in ((a + 1) + 1)..n
  OBVIOUS
<1>2. ((a + 1) + 1)..n \subseteq (a + 1)..n /\ a + 1 \in (a + 1)..n
  OBVIOUS
<1>. QED
  BY <1>1, <1>2 DEF Made

LEMMA MadeAround ==
  ASSUME NEW a \in Nat, NEW n \in Nat, a < n, NEW x
  PROVE  Made(1, n, x) <=> Made(1, a, x) \/ Made(a + 1, n, x)
<1>1. \A k \in 1..n : k \in 1..a \/ k \in (a + 1)..n
  OBVIOUS
<1>2. 1..a \subseteq 1..n /\ (a + 1)..n \subseteq 1..n
  OBVIOUS
<1>. QED
  BY <1>1, <1>2 DEF Made

LEMMA ReplayInit ==
  ASSUME Init
  PROVE  ReplayInv
<1>1. RaftInv
  BY RaftInit
<1>2. /\ history[1] = EmptyDb /\ Len(history) = 1
      /\ \A n \in Nodes : db[n] = EmptyDb /\ applied[n] = 0
                          /\ snap[n].db = EmptyDb /\ snap[n].index = 0
  BY DEF Init, NoSnap
<1>3. HistoryMade /\ AllAhead
  BY <1>2, EmptyHoldsNothing, MadeByNone DEF HistoryMade, AllAhead, Ahead
<1>. QED
  BY <1>1, <1>3 DEF ReplayInv

LEMMA ReplayPropose ==
  ASSUME ReplayInv,
         NEW batch \in Batches, Propose(batch)
  PROVE  ReplayInv'
<1>. DEFINE last == history[Len(history)]
            out  == ApplyBatch(last, batch)
<1>. PICK L \in Nat : L = Len(log)
  BY DEF ReplayInv, RaftInv, TypeInv
<1>1. RaftInv'
  BY ProposeStep DEF ReplayInv
<1>2. /\ L \in Nat /\ Len(history) = L + 1
      /\ history \in Seq(Db) /\ log \in Seq(Batches)
      /\ applied \in [Nodes -> 0..L]
      /\ \A n \in Nodes : snap[n].index \in 0..L
      /\ batch \in Seq(Command) /\ Len(batch) \in 0..Len(batch)
      /\ Sound(last)
  BY BatchesAssumption DEF ReplayInv, RaftInv, TypeInv, AllSound
<1>3. Sound(out.db)
  BY <1>2, BatchAllSound DEF ApplyBatch
<1>4. \A x \in Rows : out.ok /\ Holds(out.db, x) =>
        Holds(last, x) \/ \E j \in DOMAIN batch : Makes(batch[j], x)
  BY <1>2, EntryMakes
<1>5. ~out.ok => out.db = last
  BY <1>2, RolledBack
<1>6. /\ log' = Append(log, batch) /\ history' = Append(history, out.db)
      /\ UNCHANGED <<db, applied, snap>>
  BY DEF Propose
<1>. HIDE DEF out
<1>7. /\ Len(log') = L + 1 /\ Len(history') = L + 2
      /\ \A i \in 1..L : log'[i] = log[i]
      /\ \A i \in 1..(L + 1) : history'[i] = history[i]
      /\ log'[L + 1] = batch /\ history'[L + 1] = last /\ history'[L + 2] = out.db
  BY <1>2, <1>6
<1>8. /\ \A i \in 1..L : Stored(i)' <=> Stored(i)
      /\ Stored(L + 1)' <=> out.ok
  <2>1. \A i \in 1..L : i \in 1..(L + 1)
    BY <1>2
  <2>. QED
    BY <1>7, <2>1 DEF Stored, out
<1>9. ASSUME NEW i \in Nat \ {0}, NEW j \in 0..L
      PROVE  \A x : Made(i, j, x)' <=> Made(i, j, x)
  <2>1. \A k \in i..j : k \in 1..L
    BY <1>2
  <2>. QED
    BY <1>7, <1>8, <2>1 DEF Made
<1>10. \A x : Made(1, L + 1, x)' <=>
         Made(1, L, x) \/ (out.ok /\ \E j \in DOMAIN batch : Makes(batch[j], x))
  <2>1. \A k \in 1..(L + 1) : k \in 1..L \/ k = L + 1
    BY <1>2
  <2>2. 1..L \subseteq 1..(L + 1) /\ L + 1 \in 1..(L + 1)
    BY <1>2
  <2>. QED
    BY <1>7, <1>8, <2>1, <2>2 DEF Made
<1>12. HistoryMade'
  <2>. SUFFICES ASSUME NEW i \in 1..(L + 2), NEW x \in Rows, Holds(history'[i], x)
                PROVE  Made(1, i - 1, x)'
    BY <1>7 DEF HistoryMade
  <2>1. CASE i \in 1..(L + 1)
    <3>1. i - 1 \in 0..L /\ history'[i] = history[i] /\ i \in 1..Len(history)
      BY <1>2, <1>7, <2>1
    <3>2. Made(1, i - 1, x)
      BY <3>1 DEF ReplayInv, HistoryMade
    <3>. QED
      BY <1>9, <3>1, <3>2
  <2>2. CASE i = L + 2
    <3>1. i - 1 = L + 1 /\ history'[i] = out.db /\ L + 1 \in 1..Len(history) /\ (L + 1) - 1 = L
      BY <1>2, <1>7, <2>2
    <3>2. Holds(last, x) => Made(1, L, x)
      BY <1>2, <3>1 DEF ReplayInv, HistoryMade
    <3>3. Made(1, L + 1, x)'
      BY <1>4, <1>5, <1>10, <3>1, <3>2
    <3>. QED
      BY <3>1, <3>3
  <2>. QED
    BY <1>2, <2>1, <2>2
<1>13. KnownIds' => KnownIds
  <2>. SUFFICES ASSUME KnownIds', NEW i \in DOMAIN log, NEW b \in DOMAIN log[i],
                       log[i][b].op \in Refusable,
                       log[i][b].op = "detach_policy" => Len(log[i]) > 1
                PROVE  LET x == Named(log[i][b])
                       IN  \/ Made(1, i - 1, x) \/ \E e \in 1..(b - 1) : Makes(log[i][e], x)
                           \/ ~Made(i, L, x)
    BY DEF KnownIds
  <2>. PICK x : x = Named(log[i][b])
    OBVIOUS
  <2>1. i \in 1..L /\ i - 1 \in 0..L /\ i \in Nat \ {0} /\ L \in 0..L /\ L + 1 \in Nat
        /\ i \in DOMAIN log' /\ log'[i] = log[i] /\ i..L \subseteq i..(L + 1)
    BY <1>2, <1>6, <1>7
  <2>2. \/ Made(1, i - 1, x)' \/ \E e \in 1..(b - 1) : Makes(log[i][e], x)
        \/ ~Made(i, L + 1, x)'
    BY <1>7, <2>1 DEF KnownIds
  <2>3. Made(i, L, x)' => Made(i, L + 1, x)'
    BY <2>1 DEF Made
  <2>4. \/ Made(1, i - 1, x) \/ \E e \in 1..(b - 1) : Makes(log[i][e], x)
        \/ ~Made(i, L, x)
    BY <1>9, <2>1, <2>2, <2>3
  <2>. QED
    BY <2>4
<1>14. ASSUME AllAhead PROVE AllAhead'
  <2>1. ASSUME NEW d, NEW a \in 0..L, Ahead(d, a)
        PROVE  /\ \A x \in Rows : /\ Made(1, a, x)' => Alike(d, history'[a + 1], x)
                                  /\ Holds(d, x) => Made(1, L + 1, x)'
               /\ \A u \in Upstreams : d.owner[u] # history'[a + 1].owner[u] =>
                    \E v \in Services : Made(a + 1, L + 1, Listing(v, u))'
    <3>1. a + 1 \in 1..(L + 1) /\ history'[a + 1] = history[a + 1] /\ L \in 0..L
      BY <1>2, <1>7
    <3>2. \A x : Made(1, a, x)' <=> Made(1, a, x)
      BY <1>9
    <3>3. \A x : Made(1, L, x) => Made(1, L + 1, x)'
      BY <1>10
    <3>4. \A x \in Rows : /\ Made(1, a, x) => Alike(d, history[a + 1], x)
                          /\ Holds(d, x) => Made(1, L, x)
      BY <2>1 DEF Ahead
    <3>5. \A x : Made(a + 1, L, x) => Made(a + 1, L + 1, x)'
      <4>1. a + 1 \in Nat \ {0} /\ (a + 1)..L \subseteq (a + 1)..(L + 1)
        BY <1>2
      <4>2. \A x : Made(a + 1, L, x)' <=> Made(a + 1, L, x)
        BY <1>9, <3>1, <4>1
      <4>. QED
        BY <4>1, <4>2 DEF Made
    <3>6. \A u \in Upstreams : d.owner[u] # history[a + 1].owner[u] =>
            \E v \in Services : Made(a + 1, L, Listing(v, u))
      BY <2>1 DEF Ahead
    <3>7. ASSUME NEW u \in Upstreams, d.owner[u] # history'[a + 1].owner[u]
          PROVE  \E v \in Services : Made(a + 1, L + 1, Listing(v, u))'
      <4>1. PICK v \in Services : Made(a + 1, L, Listing(v, u))
        BY <3>1, <3>6, <3>7
      <4>2. Made(a + 1, L + 1, Listing(v, u))'
        BY <3>5, <4>1 DEF Listing
      <4>. QED
        BY <4>2
    <3>. QED
      BY <3>1, <3>2, <3>3, <3>4, <3>7
  <2>2. /\ UNCHANGED <<db, applied, snap>> /\ Len(log') = L + 1
        /\ \A n \in Nodes : applied[n] \in 0..L /\ snap[n].index \in 0..L
    BY <1>2, <1>6, <1>7
  <2>3. ASSUME NEW n \in Nodes PROVE Ahead(db[n], applied[n])'
    <3>. PICK d : d = db[n]
      OBVIOUS
    <3>. PICK a : a = applied[n]
      OBVIOUS
    <3>1. d = (db[n])' /\ a = (applied[n])' /\ a \in 0..L
      BY <2>2
    <3>2. Ahead(d, a)
      BY <1>14 DEF AllAhead
    <3>3. /\ \A x \in Rows : /\ Made(1, a, x)' => Alike(d, history'[a + 1], x)
                             /\ Holds(d, x) => Made(1, L + 1, x)'
          /\ \A u \in Upstreams : d.owner[u] # history'[a + 1].owner[u] =>
               \E v \in Services : Made(a + 1, L + 1, Listing(v, u))'
      BY <2>1, <3>1, <3>2
    <3>4. Ahead(d, a)'
      BY <2>2, <3>3 DEF Ahead
    <3>. QED
      BY <3>1, <3>4 DEF Ahead
  <2>4. ASSUME NEW n \in Nodes PROVE Ahead(snap[n].db, snap[n].index)'
    <3>. PICK d : d = snap[n].db
      OBVIOUS
    <3>. PICK a : a = snap[n].index
      OBVIOUS
    <3>1. d = (snap[n].db)' /\ a = (snap[n].index)' /\ a \in 0..L
      BY <2>2
    <3>2. Ahead(d, a)
      BY <1>14 DEF AllAhead
    <3>3. /\ \A x \in Rows : /\ Made(1, a, x)' => Alike(d, history'[a + 1], x)
                             /\ Holds(d, x) => Made(1, L + 1, x)'
          /\ \A u \in Upstreams : d.owner[u] # history'[a + 1].owner[u] =>
               \E v \in Services : Made(a + 1, L + 1, Listing(v, u))'
      BY <2>1, <3>1, <3>2
    <3>4. Ahead(d, a)'
      BY <2>2, <3>3 DEF Ahead
    <3>. QED
      BY <3>1, <3>4 DEF Ahead
  <2>. QED
    BY <2>3, <2>4 DEF AllAhead
<1>. QED
  BY <1>1, <1>12, <1>13, <1>14 DEF ReplayInv

(* The step the argument is about.                                          *)
LEMMA ReplayApply ==
  ASSUME ReplayInv,
         NEW n \in Nodes, ApplyNext(n)
  PROVE  ReplayInv'
<1>. DEFINE a     == applied[n]
            L     == Len(log)
            entry == log[a + 1]
            h     == history[a + 1]
            new   == ApplyBatch(db[n], entry)
            M     == {x \in Rows : Made(1, a, x)}
<1>1. RaftInv'
  BY ApplyStep DEF ReplayInv
<1>2. /\ L \in Nat /\ Len(history) = L + 1
      /\ a \in 0..L /\ a < L /\ a \in Nat /\ a + 1 \in 1..L /\ (a + 1) - 1 = a
      /\ a + 1 \in DOMAIN log /\ a + 1 \in 1..Len(history)
      /\ applied \in [Nodes -> 0..L] /\ db \in [Nodes -> Db]
      /\ entry \in Batches /\ entry \in Seq(Command) /\ Len(entry) \in 0..Len(entry)
      /\ Sound(db[n]) /\ Sound(h)
  <2>1. /\ L \in Nat /\ Len(history) = L + 1 /\ log \in Seq(Batches)
        /\ a \in 0..L /\ a < L /\ applied \in [Nodes -> 0..L] /\ db \in [Nodes -> Db]
    BY DEF ReplayInv, RaftInv, TypeInv, ApplyNext
  <2>2. /\ a \in Nat /\ a + 1 \in 1..L /\ (a + 1) - 1 = a /\ a + 1 \in 1..Len(history)
    BY <2>1
  <2>3. a + 1 \in DOMAIN log /\ entry \in Batches
    BY <2>1, <2>2
  <2>4. /\ entry \in Seq(Command) /\ Len(entry) \in 0..Len(entry)
      BY <2>3, BatchesAssumption
  <2>5. Sound(db[n]) /\ Sound(h)
    BY <2>2 DEF ReplayInv, RaftInv, AllSound
  <2>. QED
    BY <2>1, <2>2, <2>3, <2>4, <2>5
<1>3. /\ history[(a + 1) + 1] = ApplyBatch(h, entry).db
      /\ Stored(a + 1) <=> ApplyBatch(h, entry).ok
  BY <1>2 DEF ReplayInv, RaftInv, HistoryOfLog, Stored
<1>4. Sound(new.db)
  BY <1>2, BatchAllSound DEF ApplyBatch
<1>5. \A x : Made(1, a + 1, x) <=>
        \/ Made(1, a, x)
        \/ Stored(a + 1) /\ \E j \in DOMAIN entry : Makes(entry[j], x)
  BY <1>2, MadeByNext
<1>6. ASSUME KnownIds PROVE Ahead(new.db, a + 1)
  <2>1. \A x \in Rows : /\ Made(1, a, x) => Alike(db[n], h, x)
                        /\ Holds(db[n], x) => Made(1, L, x)
                        /\ Holds(h, x) => Made(1, a, x)
    BY <1>2, <1>6 DEF ReplayInv, AllAhead, Ahead, HistoryMade
  <2>2. \A x : Made(1, L, x) <=> Made(1, a, x) \/ Made(a + 1, L, x)
    BY <1>2, MadeAround
  <2>3. CASE \A b \in DOMAIN entry : entry[b].op \in Refusable =>
               \/ Named(entry[b]) \in M
               \/ \E j \in 1..(b - 1) : Makes(entry[j], Named(entry[b]))
               \/ ~Holds(db[n], Named(entry[b])) /\ ~Holds(h, Named(entry[b]))
    <3>1. M \in SUBSET Rows /\ \A x \in M : Alike(db[n], h, x)
      BY <2>1
    <3>. HIDE DEF M, new
    <3>2. \A i \in 0..Len(entry) : InStep(db[n], h, entry, M, i)
      BY <1>2, <2>3, <3>1, CommandsInStep
    <3>3. /\ ApplyBatch(db[n], entry).ok <=> ApplyBatch(h, entry).ok
          /\ \A x \in Rows :
               \/ x \in M
               \/ ApplyBatch(db[n], entry).ok /\ \E j \in DOMAIN entry : Makes(entry[j], x)
               => Alike(ApplyBatch(db[n], entry).db, ApplyBatch(h, entry).db, x)
      BY <1>2, <3>1, <3>2, BatchInStep
    <3>4. ASSUME NEW x \in Rows, Made(1, a + 1, x)
          PROVE  Alike(new.db, history[(a + 1) + 1], x)
      BY <1>3, <1>5, <3>3, <3>4 DEF M, new
    <3>5. ASSUME NEW x \in Rows, Holds(new.db, x) PROVE Made(1, L, x)
      <4>1. CASE new.ok
        <5>1. Holds(db[n], x) \/ \E j \in DOMAIN entry : Makes(entry[j], x)
          BY <1>2, <3>5, <4>1, EntryMakes DEF new
        <5>2. Stored(a + 1)
          BY <1>3, <3>3, <4>1 DEF new
        <5>3. Made(1, a + 1, x) => Made(1, L, x)
          <6>1. 1..(a + 1) \subseteq 1..L
            BY <1>2
          <6>. QED
            BY <6>1 DEF Made
        <5>. QED
          BY <1>5, <2>1, <5>1, <5>2, <5>3
      <4>2. CASE ~new.ok
        <5>1. new.db = db[n]
          BY <1>2, <4>2, RolledBack DEF new
        <5>. QED
          BY <2>1, <3>5, <5>1
      <4>. QED
        BY <4>1, <4>2
    <3>6. ASSUME NEW u \in Upstreams, new.db.owner[u] # history[(a + 1) + 1].owner[u]
          PROVE  \E v \in Services : Made((a + 1) + 1, L, Listing(v, u))
      <4>. DEFINE later == {x \in Rows : Made((a + 1) + 1, L, x)}
      <4>1. \A x : Made(a + 1, L, x) <=>
              \/ Stored(a + 1) /\ \E j \in DOMAIN entry : Makes(entry[j], x)
              \/ Made((a + 1) + 1, L, x)
        BY <1>2, MadeFrom
      <4>2. \A v \in Services : Listing(v, u) \in Rows
        BY DEF Rows, Listing
      <4>3. db[n].owner[u] # h.owner[u] => \E v \in Services : Made(a + 1, L, Listing(v, u))
        BY <1>6, <1>2 DEF ReplayInv, AllAhead, Ahead
      <4>4. CASE new.ok
        <5>1. \A x \in Rows : Holds(h, x) => x \in M
          BY <2>1 DEF M
        <5>2. \A x \in Rows : Holds(db[n], x) =>
                x \in M \/ x \in later \/ \E j \in DOMAIN entry : Makes(entry[j], x)
          BY <2>1, <2>2, <4>1 DEF M
        <5>3. db[n].owner[u] = h.owner[u] \/ Pending(later, entry, u, 0)
          <6>1. DOMAIN entry = (0 + 1)..Len(entry)
            BY <1>2
          <6>. QED
            BY <4>1, <4>2, <4>3, <6>1 DEF Pending
        <5>4. ApplyBatch(db[n], entry).ok
          BY <4>4 DEF new
        <5>. HIDE DEF later
        <5>5. \/ ApplyBatch(db[n], entry).db.owner[u] = ApplyBatch(h, entry).db.owner[u]
              \/ \E v \in Services : Listing(v, u) \in later
          BY <1>2, <3>1, <3>2, <5>1, <5>2, <5>3, <5>4, OwnersInStep
        <5>. QED
          BY <1>3, <3>6, <5>5 DEF new, later
      <4>5. CASE ~new.ok
        <5>1. ~ApplyBatch(h, entry).ok
          BY <3>3, <4>5 DEF new
        <5>2. new.db = db[n] /\ ApplyBatch(h, entry).db = h
          BY <1>2, <4>5, <5>1, RolledBack DEF new
        <5>3. \E v \in Services : Made(a + 1, L, Listing(v, u))
          BY <1>3, <3>6, <4>3, <5>2
        <5>. QED
          BY <1>3, <4>1, <5>1, <5>3
      <4>. QED
        BY <4>4, <4>5
    <3>. QED
      BY <3>4, <3>5, <3>6 DEF Ahead
  <2>4. CASE ~ \A b \in DOMAIN entry : entry[b].op \in Refusable =>
               \/ Named(entry[b]) \in M
               \/ \E j \in 1..(b - 1) : Makes(entry[j], Named(entry[b]))
               \/ ~Holds(db[n], Named(entry[b])) /\ ~Holds(h, Named(entry[b]))
    <3>1. PICK b \in DOMAIN entry :
            /\ entry[b].op \in Refusable /\ Named(entry[b]) \notin M
            /\ ~ \E j \in 1..(b - 1) : Makes(entry[j], Named(entry[b]))
            /\ Holds(db[n], Named(entry[b])) \/ Holds(h, Named(entry[b]))
      BY <2>4
    <3>2. entry[b] \in Command /\ Named(entry[b]) \in Rows
      <4>1. entry[b] \in Command
        BY <1>2
      <4>. QED
        BY <3>1, <4>1, AcceptedByRow
    <3>3. ~Made(1, a, Named(entry[b])) /\ Made(a + 1, L, Named(entry[b]))
      BY <2>1, <2>2, <3>1, <3>2
    <3>4. entry[b].op = "detach_policy" /\ ~(Len(entry) > 1)
      BY <1>2, <1>6, <3>1, <3>3 DEF KnownIds
    <3>5. Len(entry) = 1 /\ b = 1
      <4>1. DOMAIN entry = 1..Len(entry) /\ Len(entry) \in Nat
        BY <1>2
      <4>2. b \in 1..Len(entry)
        BY <4>1
      <4>3. \A k \in Nat : \A j \in 1..k : ~(k > 1) => k = 1 /\ j = 1
        OBVIOUS
      <4>. QED
        BY <3>4, <4>1, <4>2, <4>3
    <3>6. ~Holds(h, Named(entry[1]))
      BY <2>1, <3>2, <3>3, <3>5
    <3>7. ~ApplyBatch(h, entry).ok /\ ApplyBatch(h, entry).db = h
      <4>1. ~Accepted(h, entry[1])
        BY <3>1, <3>2, <3>5, <3>6, AcceptedByRow
      <4>. DEFINE out == Outcomes(h, entry)
      <4>2. RunOf(h, entry, out) /\ ApplyBatch(h, entry) = out[1]
        BY <1>2, <3>5, AcceptedRun DEF ApplyBatch
      <4>. HIDE DEF out
      <4>3. 0 \in 0..(Len(entry) - 1) /\ 0 + 1 = 1
        BY <3>5
      <4>4. ~ApplyBatch(h, entry).ok
        BY <4>1, <4>2, <4>3 DEF RunOf
      <4>. QED
        BY <1>2, <4>4, RolledBack
    <3>8. \A x \in Rows : /\ Holds(new.db, x) => Holds(db[n], x)
                          /\ x # Named(entry[1]) /\ Alike(db[n], h, x) => Alike(new.db, h, x)
      BY <1>2, <3>4, <3>5, DetachAlone
    <3>10. new.db.owner = db[n].owner
      <4>1. Named(entry[1]) \in Rows
        BY <3>2, <3>5
      <4>. QED
        BY <1>2, <3>4, <3>5, <4>1, DetachAlone
    <3>11. ASSUME NEW u \in Upstreams, new.db.owner[u] # h.owner[u]
           PROVE  \E v \in Services : Made((a + 1) + 1, L, Listing(v, u))
      <4>1. \A x : Made(a + 1, L, x) <=>
              \/ Stored(a + 1) /\ \E j \in DOMAIN entry : Makes(entry[j], x)
              \/ Made((a + 1) + 1, L, x)
        BY <1>2, MadeFrom
      <4>2. \E v \in Services : Made(a + 1, L, Listing(v, u))
        BY <1>2, <1>6, <3>10, <3>11 DEF ReplayInv, AllAhead, Ahead
      <4>. QED
        BY <1>3, <3>7, <4>1, <4>2
    <3>. HIDE DEF new
    <3>9. ASSUME NEW x \in Rows, Made(1, a + 1, x) PROVE Alike(new.db, h, x)
      BY <1>3, <1>5, <2>1, <3>3, <3>5, <3>7, <3>8, <3>9
    <3>. QED
      BY <1>3, <2>1, <3>7, <3>8, <3>9, <3>11 DEF Ahead
  <2>. QED
    BY <2>3, <2>4
<1>. HIDE DEF new
<1>7. /\ db' = [db EXCEPT ![n] = new.db]
      /\ applied' = [applied EXCEPT ![n] = a + 1]
      /\ UNCHANGED <<log, history, snap>>
  BY DEF ApplyNext, new
<1>9. /\ \A d, i : Ahead(d, i)' <=> Ahead(d, i)
      /\ HistoryMade' <=> HistoryMade
      /\ KnownIds' <=> KnownIds
  BY <1>7 DEF Ahead, HistoryMade, KnownIds, Made, Stored
<1>10. KnownIds' => AllAhead'
  BY <1>2, <1>6, <1>7, <1>9 DEF ReplayInv, AllAhead
<1>. QED
  BY <1>1, <1>9, <1>10 DEF ReplayInv

\* Steps after which every node's database and position were already those of
\* some node or snapshot, or stand at the first entry.
LEMMA ReplayCopy ==
  ASSUME ReplayInv, RaftInv',
         UNCHANGED <<log, history>>,
         \A n \in Nodes :
           \/ db'[n] = db[n] /\ applied'[n] \in {applied[n], 0}
           \/ \E m \in Nodes : db'[n] = snap[m].db /\ applied'[n] = snap[m].index,
         \A n \in Nodes :
           \/ \E m \in Nodes : snap'[n] = snap[m]
           \/ snap'[n].db = db[n] /\ snap'[n].index = applied[n]
  PROVE  ReplayInv'
<1>2. /\ \A d, i : Ahead(d, i)' <=> Ahead(d, i)
      /\ HistoryMade' <=> HistoryMade
      /\ KnownIds' <=> KnownIds
  BY DEF Ahead, HistoryMade, KnownIds, Made, Stored
<1>3. ASSUME NEW d, Sound(d), NEW i, Ahead(d, i) PROVE Ahead(d, 0)
  <2>1. ASSUME NEW u \in Upstreams, d.owner[u] # history[0 + 1].owner[u]
        PROVE  \E v \in Services : Made(0 + 1, Len(log), Listing(v, u))
    <3>1. history[1].owner[u] = NoService
      <4>. DEFINE v == history[1].owner[u]
      <4>1. 1 \in 1..Len(history) /\ 1 - 1 = 0
        BY DEF ReplayInv, RaftInv, TypeInv
      <4>2. Sound(history[1]) /\ \A x \in Rows : ~Holds(history[1], x)
        BY <4>1, MadeByNone DEF ReplayInv, RaftInv, AllSound, HistoryMade
      <4>3. v # NoService => v \in Services /\ <<v, u>> \in history[1].index
        BY <4>2 DEF Sound, IndexCompleteIn, Db
      <4>. HIDE DEF v
      <4>4. v = NoService
        BY <4>2, <4>3, ListingHeld
      <4>. QED
        BY <4>4 DEF v
    <3>2. /\ d.owner[u] \in Services
          /\ <<d.owner[u], u>> \in d.index
      BY <1>3, <2>1, <3>1 DEF Sound, IndexCompleteIn, Db
    <3>3. /\ Listing(d.owner[u], u) \in Rows
          /\ Holds(d, Listing(d.owner[u], u))
      BY <3>2, ListingHeld
    <3>. QED
      BY <1>3, <3>2, <3>3 DEF Ahead
  <2>. QED
    BY <1>3, <2>1, MadeByNone DEF Ahead
<1>4. ASSUME AllAhead PROVE AllAhead'
  <2>1. ASSUME NEW n \in Nodes PROVE Ahead(db'[n], applied'[n])
    BY <1>3, <1>4 DEF AllAhead, ReplayInv, RaftInv, AllSound
  <2>2. ASSUME NEW n \in Nodes PROVE Ahead(snap'[n].db, snap'[n].index)
    BY <1>4 DEF AllAhead
  <2>. QED
    BY <1>2, <2>1, <2>2 DEF AllAhead
<1>. QED
  BY <1>2, <1>4 DEF ReplayInv

LEMMA ReplayStep ==
  ASSUME ReplayInv, [Next]_vars
  PROVE  ReplayInv'
<1>0. /\ RaftInv /\ RaftInv'
      /\ DOMAIN db = Nodes /\ DOMAIN applied = Nodes /\ DOMAIN snap = Nodes
  BY RaftStep DEF ReplayInv, RaftInv, TypeInv
<1>1. \A n \in Nodes : /\ RebuildUpstreamIndex(db[n]) = db[n]
                       /\ RebuildUpstreamIndex(snap[n].db) = snap[n].db
  BY <1>0, RebuildSound DEF RaftInv, AllSound
<1>2. ASSUME NEW batch \in Batches, Propose(batch) PROVE ReplayInv'
  BY <1>2, ReplayPropose
<1>3. ASSUME NEW n \in Nodes, NodeStep(n) PROVE ReplayInv'
  <2>1. CASE ApplyNext(n)
    BY <2>1, ReplayApply
  <2>2. CASE TakeSnapshot(n)
    <3>1. /\ UNCHANGED <<log, history, db, applied>>
          /\ \A m \in Nodes : \/ snap'[m] = snap[m]
                              \/ snap'[m].db = db[m] /\ snap'[m].index = applied[m]
      BY <1>0, <2>2 DEF TakeSnapshot
    <3>. QED
      BY <1>0, <3>1, ReplayCopy
  <2>3. ASSUME NEW m \in Nodes, InstallSnapshot(n, m) PROVE ReplayInv'
    <3>1. /\ UNCHANGED <<log, history>>
          /\ \A k \in Nodes : \/ db'[k] = db[k] /\ applied'[k] = applied[k]
                              \/ db'[k] = snap[m].db /\ applied'[k] = snap[m].index
          /\ \A k \in Nodes : snap'[k] \in {snap[k], snap[m]}
      BY <1>0, <1>1, <2>3 DEF InstallSnapshot, RestoreFrom
    <3>. QED
      BY <1>0, <3>1, ReplayCopy
  <2>4. CASE Crash(n)
    <3>1. UNCHANGED <<log, history, db, applied, snap>>
      BY <2>4 DEF Crash
    <3>. QED
      BY <1>0, <3>1, ReplayCopy
  <2>5. CASE RestartFromLog(n)
    <3>1. /\ UNCHANGED <<log, history, snap>>
          /\ \A k \in Nodes : db'[k] = db[k] /\ applied'[k] \in {applied[k], 0}
      BY <1>0, <1>1, <2>5 DEF RestartFromLog
    <3>. QED
      BY <1>0, <3>1, ReplayCopy
  <2>6. CASE RestartFromSnapshot(n)
    <3>1. /\ UNCHANGED <<log, history, snap>>
          /\ \A k \in Nodes : \/ db'[k] = db[k] /\ applied'[k] = applied[k]
                              \/ db'[k] = snap[n].db /\ applied'[k] = snap[n].index
      BY <1>0, <1>1, <2>6 DEF RestartFromSnapshot, RestoreFrom
    <3>. QED
      BY <1>0, <3>1, ReplayCopy
  <2>. QED
    BY <1>3, <2>1, <2>2, <2>3, <2>4, <2>5, <2>6 DEF NodeStep
<1>4. CASE UNCHANGED vars
  <2>1. UNCHANGED <<log, history, db, applied, snap>>
    BY <1>4 DEF vars
  <2>. QED
    BY <1>0, <2>1, ReplayCopy
<1>. QED
  BY <1>2, <1>3, <1>4 DEF Next

\* Databases d and e are the same but for their numbered versions.
Agree(d, e) == Config(d) = Config(e) /\ d.byHash = e.byHash /\ d.audit = e.audit

\* Those are that are alike in every row.
LEMMA SameRows ==
  ASSUME NEW d, NEW e, Sound(d), Sound(e),
         \A x \in Rows : Alike(d, e, x), d.owner = e.owner
  PROVE  Agree(d, e)
<1>0. d \in Db /\ e \in Db
  BY DEF Sound
<1>1. d.routes = e.routes
  <2>1. ASSUME NEW r \in Routes PROVE r \in d.routes <=> r \in e.routes
    <3>1. <<"route", r>> \in Rows
      BY DEF Rows
    <3>. QED
      BY <3>1 DEF Alike, Holds
  <2>. QED
    BY <1>0, <2>1 DEF Db
<1>2. d.services = e.services
  <2>1. ASSUME NEW s \in Services PROVE s \in d.services <=> s \in e.services
    <3>1. <<"service", s>> \in Rows
      BY DEF Rows
    <3>. QED
      BY <3>1 DEF Alike, Holds
  <2>. QED
    BY <1>0, <2>1 DEF Db
<1>4. d.policies = e.policies
  <2>1. ASSUME NEW p \in Policies PROVE p \in d.policies <=> p \in e.policies
    <3>1. <<"policy", p>> \in Rows
      BY DEF Rows
    <3>. QED
      BY <3>1 DEF Alike, Holds
  <2>. QED
    BY <1>0, <2>1 DEF Db
<1>5. d.keys = e.keys
  <2>1. ASSUME NEW k \in Keys PROVE d.keys[k] = e.keys[k]
    <3>1. <<"key", k>> \in Rows
      BY DEF Rows
    <3>. QED
      BY <3>1 DEF Alike, Holds
  <2>. QED
    BY <1>0, <2>1 DEF Db
<1>6. d.bindings = e.bindings
  <2>1. ASSUME NEW p \in Policies, NEW t \in Targets
        PROVE  <<p, t>> \in d.bindings <=> <<p, t>> \in e.bindings
    <3>1. <<"binding", <<p, t>>>> \in Rows
      BY DEF Rows
    <3>. QED
      BY <3>1 DEF Alike, Holds
  <2>2. d.bindings \subseteq Policies \X Targets /\ e.bindings \subseteq Policies \X Targets
    BY <1>0 DEF Db
  <2>3. \A b \in Policies \X Targets : b \in d.bindings <=> b \in e.bindings
    BY <2>1
  <2>. QED
    BY <2>2, <2>3
<1>7. d.index = e.index
  <2>1. ASSUME NEW v \in Services, NEW u \in Upstreams
        PROVE  <<v, u>> \in d.index <=> <<v, u>> \in e.index
    BY ListingHeld DEF Alike
  <2>2. d.index \subseteq Services \X Upstreams /\ e.index \subseteq Services \X Upstreams
    BY <1>0 DEF Db
  <2>3. \A i \in Services \X Upstreams : i \in d.index <=> i \in e.index
    BY <2>1
  <2>. QED
    BY <2>2, <2>3
<1>8. d.byHash = e.byHash
  BY <1>5 DEF Sound, KeyIndexIn
<1>9. d.audit = e.audit
  <2>1. ASSUME NEW a \in Audits PROVE a \in d.audit <=> a \in e.audit
    <3>1. <<"audit", a>> \in Rows
      BY DEF Rows
    <3>. QED
      BY <3>1 DEF Alike, Holds
  <2>. QED
    BY <1>0, <2>1 DEF Db
<1>. QED
  BY <1>1, <1>2, <1>4, <1>5, <1>6, <1>7, <1>8, <1>9 DEF Agree, Config

\* A replica that has caught up is the history in every row.
LEMMA CaughtUp ==
  ASSUME ReplayInv, KnownIds,
         NEW n \in up, applied[n] = Len(log)
  PROVE  Agree(db[n], history[Len(history)])
<1>1. /\ n \in Nodes /\ Len(log) \in Nat /\ Len(history) = Len(log) + 1
      /\ Len(history) \in 1..Len(history) /\ Len(history) - 1 = Len(log)
  BY DEF ReplayInv, RaftInv, TypeInv
<1>2. Sound(db[n]) /\ Sound(history[Len(history)])
  BY <1>1 DEF ReplayInv, RaftInv, AllSound
<1>3. Ahead(db[n], Len(log))
  BY <1>1 DEF ReplayInv, AllAhead
<1>4. \A x \in Rows : Holds(history[Len(history)], x) => Made(1, Len(log), x)
  BY <1>1 DEF ReplayInv, HistoryMade
<1>5. ASSUME NEW x \in Rows PROVE Alike(db[n], history[Len(history)], x)
  <2>1. CASE Made(1, Len(log), x)
    BY <1>1, <1>3, <2>1 DEF Ahead
  <2>2. CASE ~Made(1, Len(log), x)
    <3>1. ~Holds(db[n], x) /\ ~Holds(history[Len(history)], x)
      BY <1>3, <1>4, <2>2 DEF Ahead
    <3>. QED
      BY <3>1 DEF Alike, Holds
  <2>. QED
    BY <2>1, <2>2
<1>6. db[n].owner = history[Len(history)].owner
  <2>1. ASSUME NEW u \in Upstreams PROVE db[n].owner[u] = history[Len(history)].owner[u]
    <3>1. \A x : ~Made(Len(log) + 1, Len(log), x)
      <4>1. (Len(log) + 1)..Len(log) = {}
        BY <1>1
      <4>. QED
        BY <4>1 DEF Made
    <3>. QED
      BY <1>1, <1>3, <3>1 DEF Ahead
  <2>. QED
    BY <1>2, <2>1 DEF Sound, Db
<1>. QED
  BY <1>2, <1>5, <1>6, SameRows

(* A replica that has caught up holds the cluster's configuration, however  *)
(* often it crashed and took the log again over the fsm.db it left behind,  *)
(* if ids are named only once their row is made (KnownIds).  Upstreams may  *)
(* move between services: an upstream that the replay takes from its owner  *)
(* is listed again by a later entry.                                        *)
THEOREM ReplayConvergesThm == Spec => []ReplayConverges
<1>1. Init => ReplayInv
  BY ReplayInit
<1>2. ReplayInv /\ [Next]_vars => ReplayInv'
  BY ReplayStep
<1>3. ReplayInv => ReplayConverges
  <2>. SUFFICES ASSUME ReplayInv, KnownIds, NEW n \in up, applied[n] = Len(log)
                PROVE  Config(db[n]) = Config(history[Len(history)])
    BY DEF ReplayConverges
  <2>. QED
    BY CaughtUp DEF Agree
<1>. QED
  BY <1>1, <1>2, <1>3, PTL DEF Spec

(* A key that is revoked after the entries a node has applied is revoked in *)
(* its fsm.db, also while it replays and whatever its fsm.db is ahead by:   *)
(* no entry still to come can name the key without being known already.     *)
THEOREM RevocationsHoldThm == Spec => []RevocationsHold
<1>1. ReplayInv => RevocationsHold
  <2>. SUFFICES ASSUME ReplayInv, KnownIds, NEW n \in Nodes, NEW k \in Keys,
                       history[applied[n] + 1].keys[k] = "revoked"
                PROVE  db[n].keys[k] = "revoked"
    BY DEF RevocationsHold
  <2>. DEFINE x == <<"key", k>>
  <2>1. /\ applied[n] \in 0..Len(log) /\ Len(log) \in Nat /\ Len(history) = Len(log) + 1
        /\ applied[n] + 1 \in 1..Len(history) /\ (applied[n] + 1) - 1 = applied[n]
    BY DEF ReplayInv, RaftInv, TypeInv
  <2>2. x \in Rows /\ Holds(history[applied[n] + 1], x)
    BY DEF Rows, Holds
  <2>. HIDE DEF x
  <2>3. Made(1, applied[n], x)
    BY <2>1, <2>2 DEF ReplayInv, HistoryMade
  <2>4. Alike(db[n], history[applied[n] + 1], x)
    BY <2>2, <2>3 DEF ReplayInv, AllAhead, Ahead
  <2>. QED
    BY <2>4 DEF Alike, x
<1>. QED
  BY <1>1, ReplayInit, ReplayStep, PTL DEF Spec

-----------------------------------------------------------------------------
(* What is left of "replicas agree" (cluster-sync.md) once replay is        *)
(* reckoned with: all but the numbered versions.                            *)

\* A database without its config versions.
ButVersions(d) == [d EXCEPT !.counter = 0, !.versions = {}]

AgreeButVersions ==
  \A n, m \in up : applied[n] = Len(log) /\ applied[m] = Len(log) =>
    ButVersions(db[n]) = ButVersions(db[m])

LEMMA SameButVersions ==
  ASSUME NEW d \in Db, NEW e \in Db, Agree(d, e)
  PROVE  ButVersions(d) = ButVersions(e)
<1>1. /\ d.routes = e.routes /\ d.services = e.services /\ d.owner = e.owner
      /\ d.index = e.index /\ d.policies = e.policies /\ d.bindings = e.bindings
      /\ d.keys = e.keys /\ d.byHash = e.byHash /\ d.audit = e.audit
  BY DEF Agree, Config
<1>2. ASSUME NEW x \in Db
      PROVE  x = [routes |-> x.routes, services |-> x.services, owner |-> x.owner,
                  index |-> x.index, policies |-> x.policies, bindings |-> x.bindings,
                  keys |-> x.keys, byHash |-> x.byHash, counter |-> x.counter,
                  versions |-> x.versions, audit |-> x.audit]
  BY DEF Db
<1>3. ASSUME NEW x \in Db
      PROVE  ButVersions(x) =
                 [routes |-> x.routes, services |-> x.services, owner |-> x.owner,
                  index |-> x.index, policies |-> x.policies, bindings |-> x.bindings,
                  keys |-> x.keys, byHash |-> x.byHash, counter |-> 0,
                  versions |-> {}, audit |-> x.audit]
  <2>. DEFINE y == ButVersions(x)
  <2>1. /\ y \in Db /\ y.counter = 0 /\ y.versions = {}
        /\ y.routes = x.routes /\ y.services = x.services /\ y.owner = x.owner
        /\ y.index = x.index /\ y.policies = x.policies /\ y.bindings = x.bindings
        /\ y.keys = x.keys /\ y.byHash = x.byHash /\ y.audit = x.audit
    BY DEF Db, ButVersions
  <2>. HIDE DEF y
  <2>2. y = [routes |-> y.routes, services |-> y.services, owner |-> y.owner,
             index |-> y.index, policies |-> y.policies, bindings |-> y.bindings,
             keys |-> y.keys, byHash |-> y.byHash, counter |-> y.counter,
             versions |-> y.versions, audit |-> y.audit]
    BY <1>2, <2>1
  <2>. QED
    BY <2>1, <2>2 DEF y
<1>. QED
  BY <1>1, <1>3

(* Nodes that have caught up agree on every row of every bucket, the audit  *)
(* trail included, whatever they replayed; only the numbers and copies of   *)
(* the config versions may differ between them.                             *)
THEOREM AgreeButVersionsThm == Spec => [](KnownIds => AgreeButVersions)
<1>1. Init => ReplayInv
  BY ReplayInit
<1>2. ReplayInv /\ [Next]_vars => ReplayInv'
  BY ReplayStep
<1>3. ReplayInv => (KnownIds => AgreeButVersions)
  <2>. SUFFICES ASSUME ReplayInv, KnownIds, NEW n \in up, NEW m \in up,
                       applied[n] = Len(log), applied[m] = Len(log)
                PROVE  ButVersions(db[n]) = ButVersions(db[m])
    BY DEF AgreeButVersions
  <2>1. Agree(db[n], db[m])
    <3>1. Agree(db[n], history[Len(history)]) /\ Agree(db[m], history[Len(history)])
      BY CaughtUp
    <3>. QED
      BY <3>1 DEF Agree
  <2>2. db[n] \in Db /\ db[m] \in Db
    BY DEF ReplayInv, RaftInv, TypeInv
  <2>. QED
    BY <2>1, <2>2, SameButVersions
<1>. QED
  BY <1>1, <1>2, <1>3, PTL DEF Spec

-----------------------------------------------------------------------------
(* The replicated store as its clients know it: what the log has committed. *)
Committed == INSTANCE ConfigStore WITH db <- history[Len(history)]

(* Crashes, replays, snapshots and restores of the nodes do not show in     *)
(* what is committed: the cluster implements the abstract store, every log  *)
(* entry one atomic step and a refused one none.                            *)
THEOREM CommittedRefinement == Spec => Committed!Spec
<1>1. Init => Committed!Init
  BY DEF Init, Committed!Init
<1>2. RaftInv /\ [Next]_vars => [Committed!Next]_(history[Len(history)])
  <2>. SUFFICES ASSUME RaftInv, [Next]_vars
                PROVE  [Committed!Next]_(history[Len(history)])
    OBVIOUS
  <2>1. ASSUME NEW batch \in Batches, Propose(batch)
        PROVE  [Committed!Next]_(history[Len(history)])
    <3>. DEFINE out == ApplyBatch(history[Len(history)], batch)
    <3>1. history' = Append(history, out.db) /\ history \in Seq(Db) /\ Len(history) \in Nat
      BY <2>1 DEF Propose, RaftInv, TypeInv
    <3>. HIDE DEF out
    <3>2. history'[Len(history')] = out.db
      BY <3>1
    <3>3. CASE out.ok
      BY <3>2, <3>3 DEF out, Committed!Next, Committed!Entry
    <3>4. CASE ~out.ok
      BY <3>2, <3>4, RolledBack, BatchesAssumption DEF out
    <3>. QED
      BY <3>3, <3>4
  <2>2. ASSUME NEW n \in Nodes, NodeStep(n) PROVE UNCHANGED history
    BY <2>2 DEF NodeStep, ApplyNext, TakeSnapshot, InstallSnapshot, Crash, RestartFromLog,
                RestartFromSnapshot
  <2>3. CASE UNCHANGED vars
    BY <2>3 DEF vars
  <2>. QED
    BY <2>1, <2>2, <2>3 DEF Next
<1>. QED
  BY <1>1, <1>2, RaftInit, RaftStep, PTL DEF Spec, Committed!Spec
=============================================================================
