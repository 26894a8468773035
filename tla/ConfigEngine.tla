----------------------------- MODULE ConfigEngine -----------------------------
(***************************************************************************)
(* The config engine on top of the raft store: ApplyChange of               *)
(* config/engine.go over the transactions of store/raft/tx.go, and the HTTP *)
(* handler that rewrites a route without asking the engine.                 *)
(*                                                                          *)
(* A raft transaction reads its node's own fsm.db, which may lag behind the *)
(* log, and never its own writes: they wait in `pending` until a flush.  An *)
(* ApplyChange ends in three log entries (the change, the config version,   *)
(* the audit entry), and leadership may move between them.                  *)
(*                                                                          *)
(* Changes are route changes, the only ones with policies to keep in step.  *)
(***************************************************************************)
EXTENDS ConfigFsm, FiniteSets

CONSTANTS Requests,      \* ApplyChange calls and reorder requests, each made once
          Nodes,
          Changes,       \* what clients ask for
          StartDb,       \* what the store holds at the beginning
          NoRoute,       \* the id of a route that is not created yet
          NoRequest,     \* the mutex is free
          MaxElections   \* bound: changes of leader

\* What a client asks for.  expected 0: no expected_version.
Change ==
  [action : {"upsert"}, id : Routes \cup {NoRoute}, policies : SUBSET Policies, expected : Nat]
    \cup [action : {"delete"}, id : Routes, policies : {{}}, expected : Nat]
    \cup [action : {"reorder"}, id : Routes, policies : {{}}, expected : {0}]

\* What a config version shows: the routes and their policies.
Snapshot == [routes : SUBSET Routes, bindings : SUBSET (Policies \X Targets)]

ASSUME RequestsAssumption == Requests \subseteq Audits /\ NoRequest \notin Requests
ASSUME ChangesAssumption == Changes \subseteq Change
ASSUME StartAssumption ==
  StartDb \in Db /\ IndexCompleteIn(StartDb) /\ KeyIndexIn(StartDb) /\ VersionsGaplessIn(StartDb)
ASSUME IdsAssumption ==
  NoRoute \notin Routes /\ IsFiniteSet(Policies) /\ Snapshot \subseteq Snapshots
ASSUME ElectionsAssumption == MaxElections \in Nat

VARIABLES log,        \* committed entries: who submitted which, and was it accepted
          history,    \* history[i + 1]: the database after the first i entries
          seen,       \* node -> entries its fsm.db has applied
          leader,
          elections,  \* changes of leader so far: the raft term
          mutex,      \* node -> the request that holds Engine.mu
          req         \* request -> where it is and what it holds

store == <<log, history, seen, leader, elections>>
vars == <<store, mutex, req>>

NoChange == [action |-> "none", id |-> NoRoute, policies |-> {}, expected |-> 0]

Idle == [pc |-> "idle", node |-> CHOOSE n \in Nodes : TRUE, change |-> NoChange,
         target |-> NoRoute, pending |-> <<>>, snap |-> [routes |-> {}, bindings |-> {}],
         unread |-> {}, version |-> 0, fresh |-> FALSE, term |-> 0, looked |-> 0, synced |-> 0]

\* The database after every committed entry.
Latest == history[Len(history)]

Init ==
  /\ log = <<>> /\ history = <<StartDb>>
  /\ seen = [n \in Nodes |-> 0]
  /\ leader \in Nodes /\ elections = 0
  /\ mutex = [n \in Nodes |-> NoRequest]
  /\ req = [r \in Requests |-> Idle]

\* readFSM on the node of request r.
View(r) == history[seen[req[r].node] + 1]

-----------------------------------------------------------------------------
(* The cluster.                                                             *)

Append1(r, kind, batch) ==
  LET outcome == ApplyBatch(Latest, batch)
  IN  /\ log' = Append(log, [by |-> r, kind |-> kind, ok |-> outcome.ok])
      /\ history' = Append(history, outcome.db)

\* Driver.apply on the leader: the entry is committed, and by the time the
\* result is there this node has applied every entry up to it.
Submit(r, kind, batch) ==
  /\ leader = req[r].node
  /\ Append1(r, kind, batch)
  /\ seen' = [seen EXCEPT ![req[r].node] = Len(log')]
  /\ UNCHANGED <<leader, elections>>

SubmitAccepted(r, kind, batch) ==
  ApplyBatch(Latest, batch).ok /\ Submit(r, kind, batch)

SubmitRefused(r, kind, batch) ==
  ~ApplyBatch(Latest, batch).ok /\ Submit(r, kind, batch)

\* Driver.apply fails and nothing is appended (ErrNotLeader; on the leader a
\* shutdown, or ErrEnqueueTimeout after ten seconds), or it fails with
\* ErrLeadershipLost although the entry will be committed.
SubmitFails(r, kind, batch) ==
  \/ UNCHANGED store
  \/ /\ leader = req[r].node /\ elections < MaxElections
     /\ Append1(r, kind, batch)
     /\ leader' \in Nodes \ {leader} /\ elections' = elections + 1
     /\ UNCHANGED seen

\* A node's fsm applies the next entry.
Replicate(n) ==
  /\ seen[n] < Len(log)
  /\ seen' = [seen EXCEPT ![n] = @ + 1]
  /\ UNCHANGED <<log, history, leader, elections, mutex, req>>

Elect(n) ==
  /\ n # leader /\ elections < MaxElections
  /\ leader' = n /\ elections' = elections + 1
  /\ UNCHANGED <<log, history, seen, mutex, req>>

-----------------------------------------------------------------------------
(* ApplyChange, step by step.  It holds Engine.mu of its node throughout.   *)

At(r, pc) == req[r].pc = pc

\* Mutant: a failing call keeps the mutex.
ReturnLocked(r, pc) ==
  /\ req' = [req EXCEPT ![r].pc = pc, ![r].pending = <<>>]
  /\ mutex' = [n \in Nodes |-> IF mutex[n] = r /\ pc = "done" THEN NoRequest ELSE mutex[n]]

\* Where every return of ApplyChange ends: the deferred Rollback drops what is
\* pending, and the mutex is released.
Return(r, pc) ==
  /\ req' = [req EXCEPT ![r].pc = pc, ![r].pending = <<>>]
  /\ mutex' = [n \in Nodes |-> IF mutex[n] = r THEN NoRequest ELSE mutex[n]]

\* A call comes in on some node.
Call(r, n, change) ==
  /\ At(r, "idle") /\ change.action # "reorder"
  /\ req' = [req EXCEPT ![r] = [Idle EXCEPT !.pc = "waiting", !.node = n, !.change = change]]
  /\ UNCHANGED <<store, mutex>>

\* Mutant: the mutex is not looked at.
LockAnyway(r) ==
  /\ At(r, "waiting")
  /\ mutex' = [mutex EXCEPT ![req[r].node] = r]
  /\ req' = [req EXCEPT ![r].pc = "check"]
  /\ UNCHANGED store

Lock(r) ==
  /\ At(r, "waiting") /\ mutex[req[r].node] = NoRequest
  /\ mutex' = [mutex EXCEPT ![req[r].node] = r]
  /\ req' = [req EXCEPT ![r].pc = "check"]
  /\ UNCHANGED store

\* Optimistic locking: the expected version is the latest this node knows of.
CheckVersion(r) ==
  LET expected == req[r].change.expected
  IN  /\ At(r, "check")
      /\ \/ /\ expected > 0 => View(r).counter = expected
            /\ req' = [req EXCEPT ![r].pc = "look", ![r].term = elections,
                                  ![r].fresh = (seen[req[r].node] = Len(log))]
            /\ UNCHANGED mutex
         \/ expected > 0 /\ View(r).counter # expected /\ Return(r, "failed")
      /\ UNCHANGED store

\* Mutant: the route is updated without a look whether it is there.
LookupNothing(r) ==
  /\ At(r, "look") /\ req[r].change.action = "upsert" /\ req[r].change.id # NoRoute
  /\ req' = [req EXCEPT ![r].pc = "sync", ![r].looked = seen[req[r].node],
                        ![r].target = req[r].change.id,
                        ![r].pending = <<[op |-> "put_route", id |-> req[r].change.id]>>]
  /\ UNCHANGED <<store, mutex>>

\* applyRouteOp, UPSERT of a route that GetRoute finds.
UpdateExisting(r) ==
  /\ At(r, "look") /\ req[r].change.action = "upsert"
  /\ req[r].change.id \in View(r).routes
  /\ req' = [req EXCEPT ![r].pc = "sync", ![r].looked = seen[req[r].node],
                        ![r].target = req[r].change.id,
                        ![r].pending = <<[op |-> "put_route", id |-> req[r].change.id]>>]
  /\ UNCHANGED <<store, mutex>>

\* Ids uuid.New() may draw.
Unused ==
  {x \in Routes : /\ \A i \in DOMAIN history : x \notin history[i].routes
                  /\ \A q \in Requests : req[q].target # x}

\* Mutant: CreateRoute keeps the id it is given.
CreateUnderGivenId(r) ==
  /\ At(r, "look") /\ req[r].change.action = "upsert"
  /\ req[r].change.id \notin View(r).routes
  /\ req' = [req EXCEPT ![r].pc = "sync", ![r].looked = seen[req[r].node],
                        ![r].target = req[r].change.id,
                        ![r].pending = <<[op |-> "put_route", id |-> req[r].change.id]>>]
  /\ UNCHANGED <<store, mutex>>

\* applyRouteOp, UPSERT of a route it does not find: CreateRoute draws a new id.
CreateNew(r) ==
  /\ At(r, "look") /\ req[r].change.action = "upsert"
  /\ req[r].change.id \notin View(r).routes
  /\ \E x \in Unused :
       req' = [req EXCEPT ![r].pc = "sync", ![r].looked = seen[req[r].node],
                          ![r].target = x,
                          ![r].pending = <<[op |-> "put_route", id |-> x]>>]
  /\ UNCHANGED <<store, mutex>>

\* applyRouteOp, DELETE: no look, the fsm decides.
DeleteById(r) ==
  /\ At(r, "look") /\ req[r].change.action = "delete"
  /\ req' = [req EXCEPT ![r].pc = "list", ![r].looked = seen[req[r].node],
                        ![r].target = req[r].change.id,
                        ![r].pending = <<[op |-> "delete_route", id |-> req[r].change.id]>>]
  /\ UNCHANGED <<store, mutex>>

\* The commands that attach or detach the policies ps of the target.  They
\* commute, so one order stands for all.
BindingOps(r, op, ps) ==
  LET order == CHOOSE f \in [1..Cardinality(ps) -> ps] : \A p \in ps : \E i \in DOMAIN f : f[i] = p
  IN  [i \in 1..Cardinality(ps) |-> [op |-> op, id |-> order[i], target |-> req[r].target]]

Bound(r) == {p \in Policies : <<p, req[r].target>> \in View(r).bindings}

\* Mutant: policies the route no longer has stay bound.
SyncAttachOnly(r) ==
  /\ At(r, "sync")
  /\ req' = [req EXCEPT ![r].pc = "list", ![r].synced = seen[req[r].node],
       ![r].pending = @ \o BindingOps(r, "attach_policy", req[r].change.policies \ Bound(r))]
  /\ UNCHANGED <<store, mutex>>

\* syncRoutePolicyIds: attach what is missing, detach what is too much.
SyncPolicies(r) ==
  /\ At(r, "sync")
  /\ req' = [req EXCEPT ![r].pc = "list", ![r].synced = seen[req[r].node],
       ![r].pending = @ \o BindingOps(r, "attach_policy", req[r].change.policies \ Bound(r))
                        \o BindingOps(r, "detach_policy", Bound(r) \ req[r].change.policies)]
  /\ UNCHANGED <<store, mutex>>

\* buildSnapshot: the routes first, then the bindings of one route after the
\* other, each read in a bbolt transaction of its own.
ListRoutes(r) ==
  /\ At(r, "list")
  /\ req' = [req EXCEPT ![r].pc = IF View(r).routes = {} THEN "flush" ELSE "bindings",
                        ![r].snap.routes = View(r).routes, ![r].unread = View(r).routes]
  /\ UNCHANGED <<store, mutex>>

ListBindings(r) ==
  /\ At(r, "bindings")
  /\ \E x \in req[r].unread :
       req' = [req EXCEPT ![r].pc = IF req[r].unread = {x} THEN "flush" ELSE "bindings",
                          ![r].unread = @ \ {x},
                          ![r].snap.bindings = @ \cup {b \in View(r).bindings : b[2] = x}]
  /\ UNCHANGED <<store, mutex>>

\* Mutant: SaveConfigVersion leaves the buffered writes to Commit.
FlushLater(r) ==
  /\ At(r, "flush")
  /\ req' = [req EXCEPT ![r].pc = "save"]
  /\ UNCHANGED <<store, mutex>>

\* SaveConfigVersion, first half: the buffered change becomes a log entry.
Flush(r) ==
  /\ At(r, "flush")
  /\ \/ /\ SubmitAccepted(r, "change", req[r].pending)
        /\ req' = [req EXCEPT ![r].pc = "save", ![r].pending = <<>>]
        /\ UNCHANGED mutex
     \/ /\ \/ SubmitRefused(r, "change", req[r].pending)
           \/ SubmitFails(r, "change", req[r].pending)
        /\ Return(r, "failed")

\* Second half: the snapshot is saved under the next version number.
Saving(r) == <<[op |-> "save_config_version", id |-> req[r].snap]>>

SaveVersion(r) ==
  /\ At(r, "save")
  /\ \/ /\ SubmitAccepted(r, "version", Saving(r))
        /\ req' = [req EXCEPT ![r].pc = "commit",
                              ![r].version = Latest'.counter]
        /\ UNCHANGED mutex
     \/ SubmitFails(r, "version", Saving(r)) /\ Return(r, "failed")

\* AppendAuditEntry and Commit.
Auditing(r) == <<[op |-> "append_audit_entry", id |-> r]>>

CommitAudit(r) ==
  /\ At(r, "commit")
  /\ \/ SubmitAccepted(r, "audit", Auditing(r)) /\ Return(r, "done")
     \/ SubmitFails(r, "audit", Auditing(r)) /\ Return(r, "failed")

-----------------------------------------------------------------------------
(* The reorder handler of the HTTP API: it reads the route and writes it    *)
(* back with other labels, in a transaction of its own.                     *)

ReorderRead(r, n, change) ==
  /\ At(r, "idle") /\ change.action = "reorder"
  /\ change.id \in history[seen[n] + 1].routes
  /\ req' = [req EXCEPT ![r] = [Idle EXCEPT !.pc = "reorder", !.node = n, !.change = change,
                !.target = change.id, !.looked = seen[n],
                !.pending = <<[op |-> "put_route", id |-> change.id]>>]]
  /\ UNCHANGED <<store, mutex>>

ReorderWrite(r) ==
  /\ At(r, "reorder")
  /\ \/ SubmitAccepted(r, "change", req[r].pending) /\ Return(r, "done")
     \/ SubmitFails(r, "change", req[r].pending) /\ Return(r, "failed")

Begins(r, n, change) == Call(r, n, change) \/ ReorderRead(r, n, change)

RequestStep(r) ==
  \/ Lock(r) \/ CheckVersion(r)
  \/ UpdateExisting(r) \/ CreateNew(r) \/ DeleteById(r)
  \/ SyncPolicies(r)
  \/ ListRoutes(r) \/ ListBindings(r)
  \/ Flush(r) \/ SaveVersion(r) \/ CommitAudit(r)
  \/ ReorderWrite(r)

Next ==
  \/ \E r \in Requests : \/ \E n \in Nodes, change \in Changes : Begins(r, n, change)
                         \/ RequestStep(r)
  \/ \E n \in Nodes : Replicate(n) \/ Elect(n)

Spec == Init /\ [][Next]_vars

\* A request that has begun goes on.
FairSpec == Spec /\ \A r \in Requests : WF_vars(RequestStep(r))

-----------------------------------------------------------------------------
Position == 0..Len(log)

LogEntry == [by : Requests, kind : {"change", "version", "audit"}, ok : BOOLEAN]

\* The commands a request buffers.
Buffered ==
  {c \in Command : c.op \in {"put_route", "delete_route", "attach_policy", "detach_policy"}}

Held ==
  [pc : {"idle", "waiting", "check", "look", "sync", "list", "bindings", "flush", "save",
         "commit", "reorder", "done", "failed"},
   node : Nodes, change : Change \cup {NoChange}, target : Routes \cup {NoRoute},
   pending : Seq(Buffered), snap : Snapshot, unread : SUBSET Routes, version : Nat,
   fresh : BOOLEAN, term : Nat, looked : Nat, synced : Nat]

TypeOK ==
  /\ log \in Seq(LogEntry)
  /\ history \in Seq(Db) /\ Len(history) = Len(log) + 1
  /\ seen \in [Nodes -> Position]
  /\ leader \in Nodes /\ elections \in 0..MaxElections
  /\ mutex \in [Nodes -> Requests \cup {NoRequest}]
  /\ req \in [Requests -> Held]

Entry(i, r, kind) == i \in DOMAIN log /\ log[i] = [by |-> r, kind |-> kind, ok |-> TRUE]

(* What ApplyChange leaves behind is always a beginning of: the change, the *)
(* config version, the audit entry.  In no failure, change of leader or     *)
(* interleaving is there a version without its change (a refused change     *)
(* included) or an audit entry without its version.                         *)
TraceInOrder ==
  \A i \in DOMAIN log :
    LET before(kind) == \E j \in 1..(i - 1) : Entry(j, log[i].by, kind)
    IN  /\ log[i].kind = "version" => before("change")
        /\ log[i].kind = "audit" => before("version")

(* "Optimistic locking: if the caller provided an expected version, verify  *)
(* it matches the current latest before proceeding": a change that expects  *)
(* version v is saved as version v + 1, no other change having come in      *)
(* between, if its node had applied the whole log when it checked and       *)
(* leadership did not move meanwhile.  (A node that lags, or loses and      *)
(* regains leadership, accepts a change that was made for an older version.)*)
ExpectedVersionHolds ==
  [][\A r \in Requests :
       At(r, "save") /\ At(r, "commit")' /\ req[r].fresh /\ req[r].term = elections =>
         req[r].change.expected \in {0, req'[r].version - 1}]_vars

(* A deleted route comes back only through a writer that had read the route *)
(* before the deletion: nobody updates a route that he saw deleted.         *)
DeletedStaysDeleted ==
  \A i, j \in DOMAIN log :
    LET x == req[log[i].by].target
    IN  /\ i < j /\ Entry(i, log[i].by, "change") /\ Entry(j, log[j].by, "change")
        /\ req[log[i].by].change.action = "delete"
        /\ req[log[j].by].change.action # "delete" /\ req[log[j].by].target = x
        /\ \A k \in i..(j - 1) : x \notin history[k + 1].routes
        => req[log[j].by].looked < i

(* "computes the diff between the desired policy IDs and the current        *)
(* bindings" (syncRoutePolicyIds): when nothing came between the diff and   *)
(* the entry, the route has exactly the policies it was given.              *)
PoliciesAsDesired ==
  \A i \in DOMAIN log :
    LET q == req[log[i].by]
    IN  Entry(i, log[i].by, "change") /\ q.change.action = "upsert" /\ q.synced = i - 1 =>
          {p \in Policies : <<p, q.target>> \in history[i + 1].bindings} = q.change.policies

(* "Build snapshot after mutation": the config version that a change is     *)
(* saved under shows the change.                                            *)
VersionShowsChange ==
  \A r \in Requests :
    req[r].pc = "done" =>
      /\ req[r].change.action = "upsert" => req[r].target \in req[r].snap.routes
      /\ req[r].change.action = "delete" => req[r].target \notin req[r].snap.routes

(* Every call returns, whatever fails, also when it has to wait for the      *)
(* mutex behind calls that fail.                                            *)
CallsReturn ==
  \A r \in Requests : At(r, "waiting") ~> At(r, "done") \/ At(r, "failed")
=============================================================================
