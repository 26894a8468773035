------------------------------- MODULE WebAdmin -------------------------------
(***************************************************************************)
(* Four components of the web admin that share no state, side by side:      *)
(* their parameters, their variables, and the properties that the modules   *)
(* state and explain, under one name each.                                  *)
(***************************************************************************)
EXTENDS Naturals, FiniteSets

CONSTANTS Handlers, MaxEvents, MaxConns,   \* event client
          Plugins, Keys, MaxIds, MaxLive,  \* plugin host
          MaxCalls, MaxAwaits,             \* login
          Ids, Perms, Grants, Denies, MaxParents  \* role resolver

ASSUME WebBounds ==
  /\ MaxEvents \in Nat /\ MaxConns \in Nat /\ MaxIds \in Nat /\ MaxLive \in Nat
  /\ MaxCalls \in Nat /\ MaxAwaits \in Nat

\* Of the roles only those in the map have a list; a user has finitely many ancestors.
ASSUME RoleBounds ==
  /\ IsFiniteSet(Ids) /\ MaxParents \in Nat
  /\ Grants \in [Ids -> SUBSET Perms] /\ Denies \in [Ids -> SUBSET Perms]

VARIABLES published, conns, entry, unsubs, heard, misused, unnamed
VARIABLES loading, hosted, installed, tracked, live, ids, users
VARIABLES parents, answer
VARIABLES pending, latest, awaits, overtaken, verified

Events == INSTANCE SseClient
Host == INSTANCE PluginHost
Roles == INSTANCE RoleResolver
Login == INSTANCE LoginFlow
-----------------------------------------------------------------------------
(* Every component keeps its types.                                         *)
TypeOK == Events!TypeOK /\ Host!TypeOK /\ Roles!TypeOK /\ Login!TypeOK

(* The properties: what the subscribers of one topic hear,                  *)
OneFeedPerTopic == Events!OneFeedPerTopic
(* what goes when a plugin goes,                                            *)
UnloadExact == Host!UnloadExact
(* what the roles of a user permit and which of them may be saved,          *)
ResolverExact == Roles!ResolverExact
(* and whose credentials wait for a second factor.                          *)
PendingIsLatest == Login!PendingIsLatest
=============================================================================
