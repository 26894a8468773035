---------------------------- MODULE MCConfigEngine ----------------------------
(* ConfigEngine with two nodes and a store that already holds one route with  *)
(* one policy, saved as version 1.                                             *)
EXTENDS ConfigEngine

CONSTANTS r1, r2, r3, p1, p2

MCRoutes == {r1, r2, r3}
MCPolicies == {p1, p2}
MCSnapshots == Snapshot

MCStart ==
  [EmptyDb EXCEPT !.routes = {r1}, !.policies = MCPolicies, !.bindings = {<<p1, r1>>},
                  !.counter = 1,
                  !.versions = {<<1, [routes |-> {r1}, bindings |-> {<<p1, r1>>}]>>}]

Upsert(x, ps, v) == [action |-> "upsert", id |-> x, policies |-> ps, expected |-> v]
Delete(x, v) == [action |-> "delete", id |-> x, policies |-> {}, expected |-> v]

MCChanges ==
  {Upsert(r1, {p2}, 1), Upsert(r1, {}, 0), Upsert(NoRoute, {p1}, 0), Delete(r1, 1),
   [action |-> "reorder", id |-> r1, policies |-> {}, expected |-> 0]}
=============================================================================
