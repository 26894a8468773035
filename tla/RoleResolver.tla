------------------------------ MODULE RoleResolver ------------------------------
(***************************************************************************)
(* The web admin's role resolver (web/src/host/role-resolver.ts), pure      *)
(* functions of a map of roles: what a user with some roles may do, and     *)
(* whether a role may be saved.  The map is what it is: parents may be      *)
(* missing from it and may form cycles, against which the walks carry       *)
(* guards.                                                                  *)
(*                                                                          *)
(* A step asks one question of an arbitrary map; the answers of the walks   *)
(* are compared with reachability in the graph of parents.                  *)
(***************************************************************************)
EXTENDS Naturals, Sequences, FiniteSets, SequencesExt

CONSTANTS Ids,          \* role ids, in the map or not
          Perms,        \* permission keys
          Grants,       \* role -> the permissions it grants
          Denies,       \* role -> the permissions it denies
          MaxParents    \* bound: parents of one role, and roles of one user

VARIABLES parents,      \* role in the map -> its parent_ids, in order
          answer        \* the last question, with the answer to it

vars == <<parents, answer>>

ParentLists == SeqOf(Ids, MaxParents)
NoAnswer == [of |-> "nothing"]

Init ==
  /\ \E R \in SUBSET Ids : parents \in [R -> ParentLists]
  /\ answer = NoAnswer

ParentsOf(graph, id) == IF id \in DOMAIN graph THEN graph[id] ELSE <<>>

-----------------------------------------------------------------------------
(* The depth-first walk of collectGrants and of collectDenies.  After its   *)
(* recursive calls a call does nothing, so the walk is the list of the      *)
(* calls that are still to be made, and a step makes the first of them.     *)

\* Mutant: a role's path starts with itself.
PathOfLast(path, id) == <<id>>

PathTo(path, id) == Append(path, id)

\* What was found first is kept.
AddFirst(found, P, path) ==
  [p \in DOMAIN found \cup P |-> IF p \in DOMAIN found THEN found[p] ELSE path]

Calls(list, path) == [i \in DOMAIN list |-> [id |-> list[i], path |-> path]]

\* Nothing happens at a role that was visited, and little at one without an entry.
CollectNext(listed, walk) ==
  LET call == Head(walk.calls)
      rest == Tail(walk.calls)
      here == PathTo(call.path, call.id)
  IN IF walk.calls = <<>> THEN walk
     ELSE IF call.id \in walk.visited THEN [walk EXCEPT !.calls = rest]
     ELSE IF call.id \notin DOMAIN parents
          THEN [walk EXCEPT !.visited = @ \cup {call.id}, !.calls = rest]
     ELSE [visited |-> walk.visited \cup {call.id},
           found |-> AddFirst(walk.found, listed[call.id], here),
           calls |-> Calls(parents[call.id], here) \o rest]

\* A walk from one role, with a visited set of its own.
Collect(listed, root, found) ==
  LET steps == Cardinality(Ids) * MaxParents + 1   \* a walk makes no more calls
      walk[n \in 0..steps] ==
        IF n = 0 THEN [visited |-> {}, found |-> found, calls |-> Calls(<<root>>, <<>>)]
        ELSE CollectNext(listed, walk[n - 1])
  IN walk[steps].found

\* What the walks from the assigned roles have found, one after the other.
CollectAll(listed, assigned) ==
  LET found[n \in 0..Len(assigned)] ==
        IF n = 0 THEN <<>> ELSE Collect(listed, assigned[n], found[n - 1])
  IN found[Len(assigned)]

resolveRolePermissions(assigned) ==
  LET grants == CollectAll(Grants, assigned)
      denied == DOMAIN CollectAll(Denies, assigned)
  IN [p \in DOMAIN grants \ denied |-> grants[p]]

-----------------------------------------------------------------------------
(* The walk of detectRoleCycle, from the parents of the candidate.  After   *)
(* its recursive calls a call of dfs turns its role from grey to black: the *)
(* list holds the return of a call behind the calls it makes.               *)

Return(id) == [id |-> id, returns |-> TRUE]
Visits(list) == [i \in DOMAIN list |-> [id |-> list[i], returns |-> FALSE]]

VisitNext(graph, walk) ==
  LET id == Head(walk.calls).id
      rest == Tail(walk.calls)
  IN IF walk.calls = <<>> THEN walk
     ELSE IF Head(walk.calls).returns
          THEN [walk EXCEPT !.grey = @ \ {id}, !.black = @ \cup {id}, !.calls = rest]
     ELSE IF id \in walk.grey THEN [walk EXCEPT !.cycle = TRUE, !.calls = <<>>]
     ELSE IF id \in walk.black THEN [walk EXCEPT !.calls = rest]
     ELSE [walk EXCEPT !.grey = @ \cup {id},
                       !.calls = Visits(ParentsOf(graph, id)) \o <<Return(id)>> \o rest]

detectRoleCycle(graph, role) ==
  LET steps == Cardinality(Ids) * (MaxParents + 1)
      walk[n \in 0..steps] ==
        IF n = 0
        THEN [grey |-> {role}, black |-> {}, cycle |-> FALSE, calls |-> Visits(graph[role])]
        ELSE VisitNext(graph, walk[n - 1])
  IN walk[steps].cycle

With(role, list) == [r \in DOMAIN parents \cup {role} |-> IF r = role THEN list ELSE parents[r]]

validateRoleSave(role, list) ==
  ~Contains(list, role) /\ ~detectRoleCycle(With(role, list), role)

-----------------------------------------------------------------------------
Resolve ==
  /\ answer = NoAnswer
  /\ \E assigned \in ParentLists :
       answer' = [of |-> "resolve", roles |-> assigned, perms |-> resolveRolePermissions(assigned)]
  /\ UNCHANGED parents

Validate ==
  /\ answer = NoAnswer
  /\ \E role \in Ids, list \in ParentLists :
       answer' = [of |-> "validate", role |-> role, list |-> list,
                  ok |-> validateRoleSave(role, list)]
  /\ UNCHANGED parents

Next == Resolve \/ Validate

Spec == Init /\ [][Next]_vars
-----------------------------------------------------------------------------
TypeOK ==
  /\ DOMAIN parents \subseteq Ids /\ parents \in [DOMAIN parents -> ParentLists]
  /\ answer.of \in {"nothing", "resolve", "validate"}

\* Reachability: the least set that holds S and the parents of its members.
Closed(graph, C) == \A r \in C \cap DOMAIN graph : ToSet(graph[r]) \subseteq C
Ancestors(graph, S) ==
  {r \in Ids : \A C \in SUBSET Ids : S \subseteq C /\ Closed(graph, C) => r \in C}
OnCycle(graph, r) == r \in Ancestors(graph, ToSet(ParentsOf(graph, r)))

Listed(listed, roles) ==
  UNION {listed[r] : r \in Ancestors(parents, ToSet(roles)) \cap DOMAIN parents}

\* The chain of roles from an assigned one to one that lists the permission.
Chain(listed, path, roles, p) ==
  /\ path # <<>> /\ Head(path) \in ToSet(roles) /\ IsInjective(path)
  /\ \A i \in 1..(Len(path) - 1) : Contains(parents[path[i]], path[i + 1])
  /\ Last(path) \in DOMAIN parents /\ p \in listed[Last(path)]

(* Whatever the graph of roles is, with cycles, shared, repeated and        *)
(* missing parents: a user has the permissions that some ancestor grants    *)
(* and none denies ("multi-parent inheritance with explicit deny"), each    *)
(* explained by a path that exists.  A role from which "any ancestor path   *)
(* leads back to the candidate role" (validateRoleSave) is refused, and no  *)
(* role is refused without a cycle among it and its ancestors.  Between the *)
(* two, a cycle of its ancestors that does not lead back to it, the comment *)
(* asks for no refusal; the code refuses.                                   *)
ResolverExact ==
  /\ answer.of = "resolve" =>
       /\ DOMAIN answer.perms = Listed(Grants, answer.roles) \ Listed(Denies, answer.roles)
       /\ \A p \in DOMAIN answer.perms : Chain(Grants, answer.perms[p], answer.roles, p)
  /\ answer.of = "validate" =>
       LET graph == With(answer.role, answer.list) IN
       /\ OnCycle(graph, answer.role) => ~answer.ok
       /\ ~answer.ok => \E r \in Ancestors(graph, {answer.role}) : OnCycle(graph, r)
=============================================================================
