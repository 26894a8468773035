------------------------------ MODULE MCWebAdmin ------------------------------
(***************************************************************************)
(* The components of WebAdmin, checked together like those of               *)
(* MCDaemonServices: the first step decides which of them runs.             *)
(***************************************************************************)
EXTENDS WebAdmin, Sequences

CONSTANTS h1, h2, p1, p2

VARIABLES which

MCHandlers == {h1, h2}
MCPlugins == {p1, p2}
MCKeys == {[kind |-> "zone", name |-> "toolbar"], [kind |-> "route", name |-> "/x"],
           [kind |-> "theme", name |-> "dark"], [kind |-> "endpoint", name |-> "GET /x"],
           [kind |-> "spec", name |-> "openapi"], [kind |-> "listener", name |-> "route:created"]}

\* One permission that two roles grant and one denies, one that one grants.
Granted == [admin |-> {"read"}, ops |-> {}, viewer |-> {"read", "write"}]
Denied == [admin |-> {}, ops |-> {"read"}, viewer |-> {}]

MCIds == {"admin", "ops", "viewer"}
MCPerms == {"read", "write"}

eventVars == <<published, conns, entry, unsubs, heard, misused, unnamed>>
hostVars == <<loading, hosted, installed, tracked, live, ids, users>>
roleVars == <<parents, answer>>
loginVars == <<pending, latest, awaits, overtaken, verified>>
vars == <<which, eventVars, hostVars, roleVars, loginVars>>

\* The graph of roles is free only when it is asked about.
Init ==
  /\ which \in {"events", "host", "roles", "login"}
  /\ Events!Init /\ Host!Init /\ Roles!Init /\ Login!Init
  /\ which # "roles" => parents = <<>>

Next ==
  \/ /\ which = "events" /\ Events!Next
     /\ UNCHANGED <<which, hostVars, roleVars, loginVars>>
  \/ /\ which = "host" /\ Host!Next
     /\ UNCHANGED <<which, eventVars, roleVars, loginVars>>
  \/ /\ which = "roles" /\ Roles!Next
     /\ UNCHANGED <<which, eventVars, hostVars, loginVars>>
  \/ /\ which = "login" /\ Login!Next
     /\ UNCHANGED <<which, eventVars, hostVars, roleVars>>

Spec == Init /\ [][Next]_vars
=============================================================================
