----------------------------- MODULE MCRaftStore -----------------------------
(* RaftStore on small id sets.  Symmetry: the nodes are interchangeable.      *)
EXTENDS RaftStore, TLC

CONSTANTS r1, r2, s1, s2, u1, p1, k1, v1

MCRoutes == {r1, r2}
MCServices == {s1, s2}
MCUpstreams == {u1}
MCPolicies == {p1}
MCKeys == {k1}
MCAudits == {}
MCSnapshots == {v1}

NodeSymmetry == Permutations(Nodes)

Cmd(op, id) == [op |-> op, id |-> id]
Bind(op, t) == [op |-> op, id |-> p1, target |-> t]
Svc(op, s, us) == [op |-> op, id |-> s, upstreams |-> us]

\* One command per entry; a policy is bound only to a route that stays.
MCSingleBatches ==
  {<<Cmd("put_route", r1)>>, <<Cmd("delete_route", r1)>>,
   <<Bind("attach_policy", r2)>>, <<Bind("detach_policy", r2)>>,
   <<Svc("create_service", s1, {u1})>>, <<Svc("update_service", s1, {})>>,
   <<Cmd("delete_service", s1)>>, <<Cmd("create_api_key", k1)>>, <<Cmd("revoke_api_key", k1)>>}

\* A mutation with its bindings, a version, and entries of other callers: u1 is
\* carried by both services.  An entry may come more than once, also under the
\* same id: a Commit that timed out leaves its transaction open, and the caller
\* may commit it again.
MCMixedBatches ==
  {<<Cmd("put_route", r1), Bind("attach_policy", r1)>>,
   <<Cmd("delete_route", r1), Cmd("revoke_api_key", k1)>>,
   <<Cmd("save_config_version", v1)>>,
   <<Svc("create_service", s1, {u1}), Cmd("create_api_key", k1)>>,
   <<Bind("detach_policy", r1), Svc("update_service", s1, {})>>,
   <<Svc("create_service", s2, {u1})>>}
=============================================================================
