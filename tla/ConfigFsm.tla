------------------------------ MODULE ConfigFsm ------------------------------
(***************************************************************************)
(* The configuration database of the raft store: the bbolt buckets of       *)
(* store/raft/fsm.go and what each log command does to them.  There are no  *)
(* variables here: FsmStore runs these operators one command at a time on   *)
(* one node, RaftStore runs whole batches on every node.                    *)
(*                                                                          *)
(* Payloads are abstracted: a route or a policy is its id, a service is its *)
(* id and the upstream ids it carries, an upstream's payload is the         *)
(* service_id stored in it, an API key is its revoked_at flag.              *)
(***************************************************************************)
EXTENDS Naturals, Sequences

CONSTANTS Routes, Services, Upstreams, Policies, Keys, Audits, Snapshots,
          NoService        \* the owner of an upstream that is not stored

ASSUME NoServiceAssumption == NoService \notin Services

\* A policy is bound to a route or to a service (target_type and target_id).
Targets == Routes \cup Services

(* What one database holds, bucket by bucket.  meta's version_counter is    *)
(* `counter`; config_versions maps a version number to a saved snapshot.    *)
Db == [routes   : SUBSET Routes,
       services : SUBSET Services,
       owner    : [Upstreams -> Services \cup {NoService}],
       index    : SUBSET (Services \X Upstreams),
       policies : SUBSET Policies,
       bindings : SUBSET (Policies \X Targets),
       keys     : [Keys -> {"absent", "active", "revoked"}],
       byHash   : SUBSET Keys,
       counter  : Nat,
       versions : SUBSET (Nat \X Snapshots),
       audit    : SUBSET Audits]

EmptyDb == [routes   |-> {},
            services |-> {},
            owner    |-> [u \in Upstreams |-> NoService],
            index    |-> {},
            policies |-> {},
            bindings |-> {},
            keys     |-> [k \in Keys |-> "absent"],
            byHash   |-> {},
            counter  |-> 0,
            versions |-> {},
            audit    |-> {}]

\* The commands the FSM accepts (command.go); a batch is a sequence of them.
Command ==
  [op : {"put_route", "delete_route"}, id : Routes]
    \cup [op : {"create_service", "update_service"}, id : Services,
          upstreams : SUBSET Upstreams]
    \cup [op : {"delete_service"}, id : Services]
    \cup [op : {"put_policy", "delete_policy"}, id : Policies]
    \cup [op : {"attach_policy", "detach_policy"}, id : Policies, target : Targets]
    \cup [op : {"create_api_key", "revoke_api_key"}, id : Keys]
    \cup [op : {"save_config_version"}, id : Snapshots]
    \cup [op : {"append_audit_entry"}, id : Audits]

\* The pairs <<service, upstream>> a command carries.
Carries(c) ==
  IF c.op \in {"create_service", "update_service"} THEN {c.id} \X c.upstreams ELSE {}

-----------------------------------------------------------------------------
(* The commands.  Each refuses or returns the changed database.             *)

PutRoute(d, r) == [d EXCEPT !.routes = @ \cup {r}]

\* Mutant: the bindings of a deleted route are kept.
DeleteRouteOnly(d, r) == [d EXCEPT !.routes = @ \ {r}]

\* A deleted route takes its policy bindings with it; a deleted policy does not.
DeleteRoute(d, r) == [d EXCEPT !.routes = @ \ {r},
                                 !.bindings = {b \in @ : b[2] # r}]

PutPolicy(d, p) == [d EXCEPT !.policies = @ \cup {p}]

DeletePolicy(d, p) == [d EXCEPT !.policies = @ \ {p}]

\* The upstreams deleteUpstreamsForService removes: those the index lists, and
\* only if it lists none, those whose payload names the service.
UpstreamsOf(d, s) ==
  LET listed == {u \in Upstreams : <<s, u>> \in d.index}
  IN  IF listed # {} THEN listed ELSE {u \in Upstreams : d.owner[u] = s}

\* Mutant: the index entries of the removed upstreams are kept.
DropUpstreamRows(d, s) ==
  [d EXCEPT !.owner = [u \in Upstreams |->
                          IF u \in UpstreamsOf(d, s) THEN NoService ELSE d.owner[u]]]

DropUpstreams(d, s) ==
  [d EXCEPT !.owner = [u \in Upstreams |->
                          IF u \in UpstreamsOf(d, s) THEN NoService ELSE d.owner[u]],
             !.index = {e \in @ : e[1] # s}]

\* Mutant: upstreams are stored without their index entries.
StoreUpstreamRows(d, s, us) ==
  [d EXCEPT !.owner = [u \in Upstreams |-> IF u \in us THEN s ELSE d.owner[u]]]

\* Mutant: upstreamIndexKey is called with its arguments swapped.
StoreUpstreamsSwapped(d, s, us) ==
  [d EXCEPT !.owner = [u \in Upstreams |-> IF u \in us THEN s ELSE d.owner[u]],
             !.index = @ \cup (us \X {s})]

StoreUpstreams(d, s, us) ==
  [d EXCEPT !.owner = [u \in Upstreams |-> IF u \in us THEN s ELSE d.owner[u]],
             !.index = @ \cup ({s} \X us)]

CreateService(d, s, us) ==
  [StoreUpstreams(d, s, us) EXCEPT !.services = @ \cup {s}]

UpdateService(d, s, us) == StoreUpstreams(DropUpstreams(d, s), s, us)

DeleteService(d, s) ==
  [DropUpstreams(d, s) EXCEPT !.services = @ \ {s},
                               !.bindings = {b \in @ : b[2] # s}]

AttachPolicy(d, p, t) == [d EXCEPT !.bindings = @ \cup {<<p, t>>}]

DetachPolicy(d, p, t) == [d EXCEPT !.bindings = @ \ {<<p, t>>}]

\* Mutant: a key is stored without its entry in the hash bucket.
CreateAPIKeyRow(d, k) == [d EXCEPT !.keys[k] = "active"]

CreateAPIKey(d, k) == [d EXCEPT !.keys[k] = "active", !.byHash = @ \cup {k}]

RevokeAPIKey(d, k) == [d EXCEPT !.keys[k] = "revoked"]

\* Mutant: the version is stored under the counter before its increment.
SaveUnderOldCounter(d, snap) ==
  [d EXCEPT !.counter = @ + 1,
             !.versions = {v \in @ : v[1] # d.counter} \cup {<<d.counter, snap>>}]

SaveConfigVersion(d, snap) ==
  [d EXCEPT !.counter = @ + 1,
             !.versions = {v \in @ : v[1] # d.counter + 1}
                            \cup {<<d.counter + 1, snap>>}]

AppendAuditEntry(d, a) == [d EXCEPT !.audit = @ \cup {a}]

\* The checks that make a command fail ("not found", "already revoked").
Accepted(d, c) ==
  /\ c.op = "delete_route" => c.id \in d.routes
  /\ c.op = "delete_policy" => c.id \in d.policies
  /\ c.op \in {"update_service", "delete_service"} => c.id \in d.services
  /\ c.op = "detach_policy" => <<c.id, c.target>> \in d.bindings
  /\ c.op = "revoke_api_key" => d.keys[c.id] = "active"

\* applyCommand's dispatch, for a command that is accepted.
Effect(d, c) ==
  CASE c.op = "put_route"           -> PutRoute(d, c.id)
    [] c.op = "delete_route"        -> DeleteRoute(d, c.id)
    [] c.op = "create_service"      -> CreateService(d, c.id, c.upstreams)
    [] c.op = "update_service"      -> UpdateService(d, c.id, c.upstreams)
    [] c.op = "delete_service"      -> DeleteService(d, c.id)
    [] c.op = "put_policy"          -> PutPolicy(d, c.id)
    [] c.op = "delete_policy"       -> DeletePolicy(d, c.id)
    [] c.op = "attach_policy"       -> AttachPolicy(d, c.id, c.target)
    [] c.op = "detach_policy"       -> DetachPolicy(d, c.id, c.target)
    [] c.op = "create_api_key"      -> CreateAPIKey(d, c.id)
    [] c.op = "revoke_api_key"      -> RevokeAPIKey(d, c.id)
    [] c.op = "save_config_version" -> SaveConfigVersion(d, c.id)
    [] c.op = "append_audit_entry"  -> AppendAuditEntry(d, c.id)

\* The outcome of one command of a batch: a refusal rolls the batch back to d.
Step(d, r, c) ==
  IF r.ok /\ Accepted(r.db, c) THEN [ok |-> TRUE, db |-> Effect(r.db, c)]
                               ELSE [ok |-> FALSE, db |-> d]

\* The outcomes after 0, 1, ..., Len(batch) commands.
Outcomes(d, batch) ==
  LET run[i \in 0..Len(batch)] ==
        IF i = 0 THEN [ok |-> TRUE, db |-> d] ELSE Step(d, run[i - 1], batch[i])
  IN  run

\* One log entry: the commands of a batch in order, all of them or none.
ApplyBatch(d, batch) == Outcomes(d, batch)[Len(batch)]

\* rebuildUpstreamIndexTx: add the index entries that are missing, remove none.
RebuildUpstreamIndex(d) ==
  [d EXCEPT !.index = @ \cup {<<d.owner[u], u>> :
                                 u \in {v \in Upstreams : d.owner[v] # NoService}}]
-----------------------------------------------------------------------------
(* What the buckets promise about each other.                               *)

\* Every stored upstream is listed by the index under the service it belongs to.
IndexCompleteIn(d) ==
  \A u \in Upstreams : d.owner[u] # NoService => <<d.owner[u], u>> \in d.index

\* The hash bucket leads to exactly the stored keys.
KeyIndexIn(d) == d.byHash = {k \in Keys : d.keys[k] # "absent"}

\* Saved versions are numbered 1, 2, ... up to the counter, one snapshot each.
VersionsGaplessIn(d) ==
  /\ {v[1] : v \in d.versions} = 1..d.counter
  /\ \A v, w \in d.versions : v[1] = w[1] => v[2] = w[2]
=============================================================================
