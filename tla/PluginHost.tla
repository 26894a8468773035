------------------------------ MODULE PluginHost ------------------------------
(***************************************************************************)
(* The web admin's plugin host (web/src/host): the loader, the registry of  *)
(* plugins with what each has contributed, and the live registries of the   *)
(* contribution surfaces.  A plugin's code is given a host object once and  *)
(* may call it for ever: while it registers, after it has thrown, after it  *)
(* has been unloaded.  It may also call the host that useHost returns, and  *)
(* that one tracks nothing.                                                 *)
(*                                                                          *)
(* The surfaces treat a second registration of a key in different ways, one *)
(* kind for each: zones and settings panels get a fresh id ("zone"); routes *)
(* and sidebar entries return the id of the first ("route"); themes,        *)
(* widgets, commands and permissions are overwritten ("theme"); endpoints   *)
(* reject it ("endpoint"), OpenAPI documents overwrite the one under the    *)
(* same plugin name ("spec"), and both are removed by that name, which the  *)
(* caller gives; event listeners ("listener") are tracked by nobody.        *)
(* Spotlight resources, which a command's id unregisters too, are left out. *)
(***************************************************************************)
EXTENDS Naturals, FiniteSets

CONSTANTS Plugins,
          Keys,         \* what plugins register: records of a kind and a name
          MaxIds,       \* bound: ids given to zones and routes
          MaxLive       \* bound: entries in the surfaces

VARIABLES loading,      \* plugin -> where its load is
          hosted,       \* plugins whose code has been given a host
          installed,    \* plugins in the registry
          tracked,      \* plugin -> contributions: keys with their ids
          live,         \* what the surfaces hold
          ids,          \* ids given so far
          users         \* key -> plugins whose registration of it was ever tracked (history)

vars == <<loading, hosted, installed, tracked, live, ids, users>>

Init ==
  /\ loading = [p \in Plugins |-> "no"]
  /\ hosted = {} /\ installed = {}
  /\ tracked = [p \in Plugins |-> {}]
  /\ live = {} /\ ids = 0
  /\ users = [key \in Keys |-> {}]

-----------------------------------------------------------------------------
(* The loader.                                                              *)

\* loadPluginFromUrl up to the import of the bundle; nothing keeps a plugin
\* from being loaded again while it is installed.
Load(p) ==
  /\ loading[p] = "no"
  /\ loading' = [loading EXCEPT ![p] = "importing"]
  /\ UNCHANGED <<hosted, installed, tracked, live, ids, users>>

\* The fetch, a check or the import fails.
Refuse(p) ==
  /\ loading[p] = "importing"
  /\ loading' = [loading EXCEPT ![p] = "no"]
  /\ UNCHANGED <<hosted, installed, tracked, live, ids, users>>

\* Mutant: a plugin loaded again starts with nothing tracked.
ContributionsReset(p) == [tracked EXCEPT ![p] = {}]

\* registerPlugin keeps the contributions of a plugin it knows.
Contributions(p) == IF p \in installed THEN tracked ELSE [tracked EXCEPT ![p] = {}]

\* registerPlugin, and the call of the bundle's default export.
Invoke(p) ==
  /\ loading[p] = "importing"
  /\ loading' = [loading EXCEPT ![p] = "registering"]
  /\ installed' = installed \cup {p}
  /\ tracked' = Contributions(p)
  /\ hosted' = hosted \cup {p}
  /\ UNCHANGED <<live, ids, users>>

\* A plugin without an admin bundle is registered, and no code is run.
InstallMetadata(p) ==
  /\ loading[p] = "importing"
  /\ loading' = [loading EXCEPT ![p] = "no"]
  /\ installed' = installed \cup {p}
  /\ tracked' = Contributions(p)
  /\ UNCHANGED <<hosted, live, ids, users>>

Finish(p) ==
  /\ loading[p] = "registering"
  /\ loading' = [loading EXCEPT ![p] = "no"]
  /\ UNCHANGED <<hosted, installed, tracked, live, ids, users>>

Named(key) == key.kind \in {"endpoint", "spec"}

\* What unloadPlugin unregisters: what is tracked, and what has the plugin's name.
Unregistered(p) ==
  {e \in live : IF Named(e.key) THEN e.name = p
                ELSE [key |-> e.key, id |-> e.id] \in tracked[p]}

RemovePlugin(p) ==
  /\ live' = live \ Unregistered(p)
  /\ installed' = installed \ {p}
  /\ tracked' = [tracked EXCEPT ![p] = {}]
  /\ UNCHANGED <<hosted, ids, users>>

\* unloadPlugin; no operation when the plugin is not in the registry.
Unload(p) == p \in installed /\ RemovePlugin(p) /\ UNCHANGED loading

\* The default export throws, and the plugin is unloaded if it is still there.
Throw(p) ==
  /\ loading[p] = "registering"
  /\ loading' = [loading EXCEPT ![p] = "no"]
  /\ IF p \in installed THEN RemovePlugin(p)
                        ELSE UNCHANGED <<hosted, installed, tracked, live, ids, users>>

-----------------------------------------------------------------------------
(* The host object: a surface's register, then trackContribution, which     *)
(* does nothing for a plugin that is not in the registry.                   *)

Holding(key) == {e \in live : e.key = key}

\* `due`: the loader is to remove the entry with its plugin.
Entry(p, key, id, name, due) ==
  [key |-> key, id |-> id, by |-> p, name |-> IF Named(key) THEN name ELSE p, due |-> due]

Overwritten(key, name) ==
  {e \in Holding(key) : key.kind = "theme" \/ (key.kind = "spec" /\ e.name = name)}

Store(p, key, name, due) ==
  \/ /\ key.kind = "zone" /\ ids < MaxIds
     /\ ids' = ids + 1
     /\ live' = live \cup {Entry(p, key, ids', name, due)}
  \/ /\ key.kind = "route" /\ Holding(key) = {} /\ ids < MaxIds
     /\ ids' = ids + 1
     /\ live' = live \cup {Entry(p, key, ids', name, due)}
  \/ /\ key.kind \in {"theme", "spec", "listener"}
     /\ live' = (live \ Overwritten(key, name)) \cup {Entry(p, key, 0, name, due)}
     /\ UNCHANGED ids
  \/ /\ key.kind = "endpoint" /\ Holding(key) = {}
     /\ live' = live \cup {Entry(p, key, 0, name, due)}
     /\ UNCHANGED ids
  \/ /\ key.kind \in {"route", "endpoint"} /\ Holding(key) # {}
     /\ UNCHANGED <<live, ids>>

\* The id the surface returns: the new entry's, or the first one's.
Returned(key) == IF key.kind = "zone" THEN ids'
                 ELSE (CHOOSE e \in live' : e.key = key).id

\* Through the host that the loader gave it.  Documents and listeners are not
\* tracked, and of endpoints only paths that nobody reads.
Register(p, key, name) ==
  LET tracks == p \in installed /\ key.kind \in {"zone", "route", "theme"} IN
  /\ p \in hosted /\ Cardinality(live) < MaxLive
  /\ Store(p, key, name, IF Named(key) THEN name = p ELSE tracks)
  /\ tracked' = IF tracks
                THEN [tracked EXCEPT ![p] = @ \cup {[key |-> key, id |-> Returned(key)]}]
                ELSE tracked
  /\ users' = IF tracks THEN [users EXCEPT ![key] = @ \cup {p}] ELSE users
  /\ UNCHANGED <<loading, hosted, installed>>

\* Through useHost.
RegisterUntracked(p, key, name) ==
  /\ p \in hosted /\ Cardinality(live) < MaxLive
  /\ Store(p, key, name, Named(key) /\ name = p)
  /\ UNCHANGED <<loading, hosted, installed, tracked, users>>

\* A surface's unregister, or the function that subscribe returned: of any entry.
Withdraw(p, e) ==
  /\ p \in hosted
  /\ live' = live \ {e}
  /\ UNCHANGED <<loading, hosted, installed, tracked, ids, users>>

Next ==
  \E p \in Plugins :
    \/ Load(p) \/ Refuse(p) \/ Invoke(p) \/ InstallMetadata(p) \/ Finish(p) \/ Throw(p)
    \/ Unload(p)
    \/ \E key \in Keys, name \in Plugins : Register(p, key, name) \/ RegisterUntracked(p, key, name)
    \/ \E e \in live : Withdraw(p, e)

Spec == Init /\ [][Next]_vars
-----------------------------------------------------------------------------
Contribution == [key : Keys, id : 0..MaxIds]

TypeOK ==
  /\ loading \in [Plugins -> {"no", "importing", "registering"}]
  /\ hosted \subseteq Plugins /\ installed \subseteq Plugins
  /\ tracked \in [Plugins -> SUBSET Contribution]
  /\ \A e \in live : /\ [key |-> e.key, id |-> e.id] \in Contribution
                     /\ e.by \in Plugins /\ e.name \in Plugins /\ e.due \in BOOLEAN
  /\ ids \in 0..MaxIds
  /\ users \in [Keys -> SUBSET Plugins]

(* "Calls the appropriate surface unregister function for each tracked      *)
(* contribution", and "plugin threw during registration - undo everything": *)
(* a plugin that goes takes with it all that it registered through its host *)
(* while it was in the registry, however often it was loaded, whoever       *)
(* overwrote or withdrew what, and whatever has its name.  That is not      *)
(* everything: event listeners, what came through useHost or too late, and  *)
(* endpoints and documents under another name stay.  And it takes nothing   *)
(* of another plugin's but under its own name, or under a key that it has   *)
(* registered itself.                                                       *)
UnloadExact ==
  [][\A p \in installed \ installed' :
       /\ \A e \in live \ live' : IF Named(e.key) THEN e.name = p ELSE p \in users[e.key]
       /\ \A e \in live' : e.by = p => ~e.due]_vars
=============================================================================
