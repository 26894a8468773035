------------------------------ MODULE MCFsmStore ------------------------------
(* FsmStore on one route, two services, two upstreams, one policy, one key,   *)
(* one audit entry and one snapshot.                                          *)
EXTENDS FsmStore

CONSTANTS r1, s1, s2, u1, u2, p1, k1, a1, v1

MCRoutes == {r1}
MCServices == {s1, s2}
MCUpstreams == {u1, u2}
MCPolicies == {p1}
MCKeys == {k1}
MCAudits == {a1}
MCSnapshots == {v1}

Cmd(op, id) == [op |-> op, id |-> id]
Bind(op, t) == [op |-> op, id |-> p1, target |-> t]
Svc(op, s, us) == [op |-> op, id |-> s, upstreams |-> us]

\* Every kind of command, and entries that roll back after their first command.
\* Both services carry u1, s1 alone carries u2.  A version is always an entry of its own
\* (raftTx.SaveConfigVersion).
MCBatches ==
  {<<Cmd("put_route", r1), Bind("attach_policy", r1)>>,
   <<Cmd("delete_policy", p1), Cmd("delete_route", r1)>>,
   <<Cmd("put_policy", p1), Bind("attach_policy", s1)>>,
   <<Svc("create_service", s1, {u1, u2})>>, <<Svc("create_service", s2, {u1})>>,
   <<Svc("update_service", s1, {})>>,
   <<Cmd("delete_service", s1), Svc("update_service", s2, {u1})>>,
   <<Cmd("create_api_key", k1), Cmd("append_audit_entry", a1)>>,
   <<Cmd("revoke_api_key", k1), Bind("detach_policy", r1)>>,
   <<Cmd("save_config_version", v1)>>}

\* These batches meet what DeletionUnbindsThm supposes of them.
ASSUME CallersKeepTheRules == NoLateAttach
=============================================================================
