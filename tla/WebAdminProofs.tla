---------------------------- MODULE WebAdminProofs ----------------------------
(***************************************************************************)
(* Proofs about the event client, the plugin host, the login and the role   *)
(* resolver of the web admin, for any handlers, plugins, contributions and  *)
(* roles, and any number of events, connections, ids and calls.             *)
(*                                                                          *)
(* Each component has its inductive invariant: how far the topic's          *)
(* connection is ahead of everything heard before, who tracks what the      *)
(* surfaces hold, and which logins a verification in flight is about.  The  *)
(* resolver's invariants are those of its walks, within one step of it.     *)
(***************************************************************************)
EXTENDS WebAdmin, Sequences, FiniteSets, FiniteSetTheorems, SequenceTheorems,
        NaturalsInduction, WellFoundedInduction, TLAPS

(* The login.  A login whose answer is out has not been verified, and no    *)
(* verification of it is in flight: there was nothing to verify.            *)
LoginInv ==
  /\ Login!TypeOK
  /\ \A l \in 1..latest : <<"login", l>> \in awaits =>
       l \notin verified /\ <<"verify", l>> \notin awaits /\ l # pending
  /\ PendingIsLatest

LEMMA LoginStart == Login!Init => LoginInv
BY WebBounds DEF Login!Init, LoginInv, Login!TypeOK, PendingIsLatest, Login!PendingIsLatest

LEMMA LoginStep == LoginInv /\ [Login!Next]_(Login!vars) => LoginInv'
<1>. SUFFICES ASSUME LoginInv, [Login!Next]_(Login!vars) PROVE LoginInv'
  OBVIOUS
<1>. USE DEF LoginInv, Login!TypeOK, PendingIsLatest, Login!PendingIsLatest
<1>0. MaxCalls \in Nat /\ latest \in Nat
  BY WebBounds
<1>1. CASE Login!StartLogin
  <2>1. /\ latest' = latest + 1 /\ latest' \in 0..MaxCalls /\ pending' = 0
        /\ awaits' = awaits \cup {<<"login", latest + 1>>}
        /\ UNCHANGED <<overtaken, verified>>
    BY <1>0, <1>1 DEF Login!StartLogin
  <2>2. 1..latest \subseteq 1..latest' /\ latest' \in 1..latest' /\ latest' \notin 1..latest
    BY <1>0, <2>1
  <2>3. Login!TypeOK'
    BY <1>0, <2>1, <2>2
  <2>4. ASSUME NEW l \in 1..latest', <<"login", l>> \in awaits'
        PROVE  l \notin verified' /\ <<"verify", l>> \notin awaits' /\ l # pending'
    <3>1. <<"verify", l>> \in awaits' <=> <<"verify", l>> \in awaits
      BY <2>1
    <3>2. <<"login", l>> \in awaits \/ l = latest + 1
      BY <2>1, <2>4
    <3>3. l = latest + 1 => l \notin 1..latest
      BY <1>0
    <3>. QED
      BY <1>0, <2>1, <3>1, <3>2, <3>3
  <2>. QED
    BY <2>1, <2>3, <2>4
<1>2. ASSUME NEW l \in 1..MaxCalls, Login!FinishLogin(l) PROVE LoginInv'
  <2>1. l \in 1..latest /\ <<"login", l>> \in awaits
    BY <1>2 DEF Login!FinishLogin
  <2>2. /\ awaits' \subseteq awaits /\ <<"login", l>> \notin awaits'
        /\ UNCHANGED <<latest, verified>>
        /\ \/ /\ pending' = l
              /\ overtaken' = IF l = latest THEN overtaken ELSE overtaken \cup {l}
           \/ UNCHANGED <<pending, overtaken>>
    BY <1>2 DEF Login!FinishLogin
  <2>3. l \notin verified /\ l \in 0..latest
    <3>1. l \notin verified
      BY <2>1
    <3>2. 1..latest \subseteq 0..latest
      BY <1>0
    <3>. QED
      BY <2>1, <3>1, <3>2
  <2>4. Login!TypeOK' /\ PendingIsLatest'
    BY <2>1, <2>2, <2>3
  <2>5. ASSUME NEW k \in 1..latest, <<"login", k>> \in awaits'
        PROVE  k \notin verified' /\ <<"verify", k>> \notin awaits' /\ k # pending'
    BY <2>2, <2>5
  <2>. QED
    BY <2>2, <2>4, <2>5
<1>3. CASE Login!Logout
  <2>1. /\ latest' = latest + 1 /\ latest' \in 0..MaxCalls /\ pending' = 0
        /\ UNCHANGED <<awaits, overtaken, verified>>
    BY <1>0, <1>3 DEF Login!Logout
  <2>2. 1..latest \subseteq 1..latest' /\ \A l \in 1..latest' : l = latest' \/ l \in 1..latest
    BY <1>0, <2>1
  <2>. QED
    BY <1>0, <2>1, <2>2
<1>4. CASE Login!StartVerify
  BY <1>0, <1>4 DEF Login!StartVerify
<1>5. ASSUME NEW l \in 1..MaxCalls, Login!FinishVerify(l) PROVE LoginInv'
  <2>1. l \in 1..latest /\ <<"verify", l>> \in awaits /\ <<"login", l>> \notin awaits
    BY <1>5 DEF Login!FinishVerify
  <2>2. /\ awaits' \subseteq awaits
        /\ UNCHANGED <<latest, overtaken>>
        /\ \/ pending' = 0 /\ verified' = verified \cup {l}
           \/ UNCHANGED <<pending, verified>>
    BY <1>5 DEF Login!FinishVerify
  <2>3. Login!TypeOK' /\ PendingIsLatest'
    <3>1. CASE pending' = 0 /\ verified' = verified \cup {l}
      <4>1. 0 \in 0..latest
        BY <1>0
      <4>. QED
        BY <2>1, <2>2, <3>1, <4>1
    <3>2. CASE UNCHANGED <<pending, verified>>
      BY <2>2, <3>2
    <3>. QED
      BY <2>2, <3>1, <3>2
  <2>4. ASSUME NEW k \in 1..latest, <<"login", k>> \in awaits'
        PROVE  k \notin verified' /\ <<"verify", k>> \notin awaits' /\ k # pending'
    <3>1. k # l /\ k # 0
      BY <1>0, <2>1, <2>2, <2>4
    <3>. QED
      BY <2>2, <2>4, <3>1
  <2>. QED
    BY <2>2, <2>3, <2>4
<1>6. CASE UNCHANGED Login!vars
  BY <1>6 DEF Login!vars
<1>. QED
  BY <1>1, <1>2, <1>3, <1>4, <1>5, <1>6 DEF Login!Next

(* The credentials kept in memory are never those of a login that a code    *)
(* has completed, and of the latest login but for the answer that comes     *)
(* after a later call (auth/api.ts).                                        *)
THEOREM PendingIsLatestThm == Login!Spec => []PendingIsLatest
<1>1. LoginInv => PendingIsLatest
  BY DEF LoginInv
<1>. QED
  BY <1>1, LoginStart, LoginStep, PTL DEF Login!Spec

-----------------------------------------------------------------------------
(* The plugin host.  What the loader is to remove has the name of who       *)
(* registered it, or is tracked by him, and he is in the registry; and a    *)
(* plugin tracks only keys it has registered.                               *)
HostInv ==
  /\ Host!TypeOK
  /\ \A p \in Plugins : \A c \in tracked[p] : p \in users[c.key]
  /\ \A e \in live : e.due =>
       IF Host!Named(e.key) THEN e.name = e.by
       ELSE e.by \in installed /\ [key |-> e.key, id |-> e.id] \in tracked[e.by]

LEMMA HostStart == Host!Init => HostInv
BY WebBounds DEF Host!Init, HostInv, Host!TypeOK

\* A registration stores at most one entry, under an id; where it is tracked, that is
\* the id it answers with.
StoredAs(p, key, name, due, id) ==
  /\ \A e \in live' : e \in live \/ e = Host!Entry(p, key, id, name, due)
  /\ key.kind \in {"zone", "route", "theme"} => Host!Returned(key) = id

LEMMA HostStored ==
  ASSUME HostInv, NEW p \in Plugins, NEW key \in Keys, NEW name, NEW due,
         Host!Store(p, key, name, due)
  PROVE  ids' \in 0..MaxIds /\ \E id \in 0..MaxIds : StoredAs(p, key, name, due, id)
<1>. USE DEF HostInv, Host!TypeOK, Host!Contribution
<1>0. MaxIds \in Nat /\ 0 \in 0..MaxIds
  BY WebBounds
<1>. DEFINE chosen == CHOOSE e \in live' : e.key = key
            new(id) == Host!Entry(p, key, id, name, due)
<1>1. CASE key.kind = "zone"
  <2>1. ids' = ids + 1 /\ ids' \in 0..MaxIds /\ live' = live \cup {new(ids')}
    BY <1>0, <1>1 DEF Host!Store
  <2>2. Host!Returned(key) = ids'
    BY <1>1 DEF Host!Returned
  <2>. QED
    BY <2>1, <2>2 DEF StoredAs
<1>2. CASE key.kind \in {"route", "theme"} /\ Host!Holding(key) = {}
  <2>1. PICK id \in 0..MaxIds : ids' \in 0..MaxIds /\ live' = live \cup {new(id)}
    <3>1. Host!Overwritten(key, name) = {}
      BY <1>2 DEF Host!Overwritten
    <3>. QED
      BY <1>0, <1>2, <3>1 DEF Host!Store
  <2>2. \A e \in live' : e.key = key => e = new(id)
    BY <1>2, <2>1 DEF Host!Holding
  <2>3. new(id) \in live' /\ new(id).key = key /\ new(id).id = id
    BY <2>1 DEF Host!Entry
  <2>4. chosen = new(id)
    BY <2>2, <2>3
  <2>5. Host!Returned(key) = chosen.id
    BY <1>2 DEF Host!Returned
  <2>. HIDE DEF chosen, new
  <2>6. Host!Returned(key) = id
    BY <2>3, <2>4, <2>5
  <2>. QED
    BY <2>1, <2>6 DEF StoredAs, new
<1>3. CASE key.kind = "theme"
  <2>1. ids' = ids /\ live' = (live \ Host!Overwritten(key, name)) \cup {new(0)}
    BY <1>3 DEF Host!Store
  <2>2. \A e \in live' : e.key = key => e = new(0)
    BY <1>3, <2>1 DEF Host!Holding, Host!Overwritten
  <2>3. new(0) \in live' /\ new(0).key = key /\ new(0).id = 0
    BY <2>1 DEF Host!Entry
  <2>4. chosen = new(0)
    BY <2>2, <2>3
  <2>5. Host!Returned(key) = chosen.id
    BY <1>3 DEF Host!Returned
  <2>. HIDE DEF chosen, new
  <2>6. Host!Returned(key) = 0
    BY <2>3, <2>4, <2>5
  <2>. QED
    BY <1>0, <2>1, <2>6 DEF StoredAs, new
<1>4. CASE key.kind \in {"spec", "listener"} \/ (key.kind = "endpoint" /\ Host!Holding(key) = {})
  <2>1. ids' = ids /\ \A e \in live' : e \in live \/ e = new(0)
    BY <1>4 DEF Host!Store
  <2>. QED
    BY <1>0, <1>4, <2>1 DEF StoredAs
<1>5. CASE key.kind = "endpoint" /\ Host!Holding(key) # {}
  <2>1. ids' = ids /\ live' = live
    BY <1>5 DEF Host!Store
  <2>. QED
    BY <1>0, <1>5, <2>1 DEF StoredAs
<1>6. CASE key.kind = "route" /\ Host!Holding(key) # {}
  <2>1. ids' = ids /\ live' = live
    BY <1>6 DEF Host!Store
  <2>2. \E e \in live' : e.key = key
    BY <1>6, <2>1 DEF Host!Holding
  <2>3. chosen \in live' /\ chosen.key = key
    BY <2>2
  <2>4. Host!Returned(key) = chosen.id
    BY <1>6 DEF Host!Returned
  <2>. HIDE DEF chosen
  <2>5. Host!Returned(key) \in 0..MaxIds
    BY <2>1, <2>3, <2>4
  <2>. QED
    BY <2>1, <2>5 DEF StoredAs
<1>. QED
  BY <1>1, <1>2, <1>3, <1>4, <1>5, <1>6 DEF Host!Store

\* It is tracked or not, and due only under the plugin's name or when tracked.
Tracks(p, key, id, track) ==
  /\ tracked' = IF track THEN [tracked EXCEPT ![p] = @ \cup {[key |-> key, id |-> id]}] ELSE tracked
  /\ users' = IF track THEN [users EXCEPT ![key] = @ \cup {p}] ELSE users
IsDue(p, key, name, due, track) ==
  due => IF Host!Named(key) THEN name = p ELSE track /\ p \in installed

\* A registration, tracked or not: what is due has the plugin's name or is tracked.
LEMMA HostAdds ==
  ASSUME HostInv, NEW p \in Plugins, NEW key \in Keys, NEW name \in Plugins, NEW due \in BOOLEAN,
         NEW id \in 0..MaxIds, StoredAs(p, key, name, due, id), ids' \in 0..MaxIds,
         NEW track \in BOOLEAN,
         Tracks(p, key, id, track), IsDue(p, key, name, due, track),
         UNCHANGED <<loading, hosted, installed>>
  PROVE  HostInv'
<1>. DEFINE c == [key |-> key, id |-> id]
<1>1. c \in Host!Contribution /\ c.key = key
  BY DEF Host!Contribution
<1>2. /\ tracked \in [Plugins -> SUBSET Host!Contribution] /\ users \in [Keys -> SUBSET Plugins]
      /\ tracked' = IF track THEN [tracked EXCEPT ![p] = @ \cup {c}] ELSE tracked
      /\ users' = IF track THEN [users EXCEPT ![key] = @ \cup {p}] ELSE users
  BY DEF HostInv, Host!TypeOK, Tracks
<1>. HIDE DEF c
<1>3. /\ \A q \in Plugins : tracked[q] \subseteq tracked'[q]
      /\ \A q \in Plugins : \A d \in tracked'[q] : d \in tracked[q] \/ (track /\ q = p /\ d = c)
      /\ track => c \in tracked'[p]
      /\ tracked' \in [Plugins -> SUBSET Host!Contribution]
  BY <1>1, <1>2
<1>4. /\ users' \in [Keys -> SUBSET Plugins] /\ (track => p \in users'[key])
      /\ \A k \in Keys : users[k] \subseteq users'[k]
  BY <1>2
<1>5. ASSUME NEW e \in live'
      PROVE  /\ [key |-> e.key, id |-> e.id] \in Host!Contribution
             /\ e.by \in Plugins /\ e.name \in Plugins /\ e.due \in BOOLEAN
             /\ e.due => IF Host!Named(e.key) THEN e.name = e.by
                         ELSE /\ e.by \in installed
                              /\ [key |-> e.key, id |-> e.id] \in tracked'[e.by]
  <2>1. CASE e \in live
    BY <1>3, <2>1 DEF HostInv, Host!TypeOK
  <2>2. CASE e = Host!Entry(p, key, id, name, due)
    <3>1. /\ e.key = key /\ e.id = id /\ e.by = p /\ e.due = due
          /\ e.name = IF Host!Named(key) THEN name ELSE p
      BY <2>2 DEF Host!Entry
    <3>2. [key |-> e.key, id |-> e.id] = c
      BY <3>1 DEF c
    <3>. QED
      BY <1>1, <1>3, <3>1, <3>2 DEF IsDue
  <2>. QED
    BY <2>1, <2>2 DEF StoredAs
<1>6. \A q \in Plugins : \A d \in tracked'[q] : q \in users'[d.key]
  <2>1. ASSUME NEW q \in Plugins, NEW d \in tracked[q] PROVE d.key \in Keys /\ q \in users[d.key]
    BY <1>2 DEF HostInv, Host!Contribution
  <2>. QED
    BY <1>1, <1>3, <1>4, <2>1
<1>7. Host!TypeOK'
  BY <1>3, <1>4, <1>5 DEF HostInv, Host!TypeOK, Host!Contribution
<1>8. (\A e \in live : e.due =>
         IF Host!Named(e.key) THEN e.name = e.by
         ELSE e.by \in installed /\ [key |-> e.key, id |-> e.id] \in tracked[e.by])'
  BY <1>5
<1>. QED
  BY <1>6, <1>7, <1>8 DEF HostInv

LEMMA HostRegister ==
  ASSUME HostInv, NEW p \in Plugins, NEW key \in Keys, NEW name \in Plugins,
         Host!Register(p, key, name) \/ Host!RegisterUntracked(p, key, name)
  PROVE  HostInv' /\ installed' = installed
<1>1. CASE Host!Register(p, key, name)
  <2>. DEFINE track == p \in installed /\ key.kind \in {"zone", "route", "theme"}
              due == IF Host!Named(key) THEN name = p ELSE track
  <2>1. /\ Host!Store(p, key, name, due)
        /\ tracked' = IF track
                      THEN [tracked EXCEPT ![p] = @ \cup {[key |-> key, id |-> Host!Returned(key)]}]
                      ELSE tracked
        /\ users' = IF track THEN [users EXCEPT ![key] = @ \cup {p}] ELSE users
        /\ UNCHANGED <<loading, hosted, installed>>
    BY <1>1 DEF Host!Register
  <2>2. /\ track \in BOOLEAN /\ due \in BOOLEAN /\ (track => key.kind \in {"zone", "route", "theme"})
        /\ due => IF Host!Named(key) THEN name = p ELSE track /\ p \in installed
    OBVIOUS
  <2>. HIDE DEF track, due
  <2>3. ids' \in 0..MaxIds /\ \E id \in 0..MaxIds : StoredAs(p, key, name, due, id)
    BY <2>1, HostStored
  <2>4. PICK id \in 0..MaxIds : StoredAs(p, key, name, due, id)
    BY <2>3
  <2>5. Tracks(p, key, id, track)
    BY <2>1, <2>2, <2>4 DEF StoredAs, Tracks
  <2>6. IsDue(p, key, name, due, track)
    BY <2>2 DEF IsDue
  <2>7. HostInv'
    BY <2>1, <2>2, <2>3, <2>4, <2>5, <2>6, HostAdds
  <2>. QED
    BY <2>1, <2>7
<1>2. CASE Host!RegisterUntracked(p, key, name)
  <2>. DEFINE due == Host!Named(key) /\ name = p
  <2>1. Host!Store(p, key, name, due) /\ UNCHANGED <<loading, hosted, installed, tracked, users>>
    BY <1>2 DEF Host!RegisterUntracked
  <2>2. due \in BOOLEAN /\ (due => Host!Named(key) /\ name = p)
    BY DEF Host!Named
  <2>. HIDE DEF due
  <2>3. ids' \in 0..MaxIds /\ \E id \in 0..MaxIds : StoredAs(p, key, name, due, id)
    BY <2>1, HostStored
  <2>4. PICK id \in 0..MaxIds : StoredAs(p, key, name, due, id)
    BY <2>3
  <2>5. Tracks(p, key, id, FALSE) /\ IsDue(p, key, name, due, FALSE)
    BY <2>1, <2>2 DEF Tracks, IsDue
  <2>6. HostInv'
    BY <2>1, <2>2, <2>3, <2>4, <2>5, HostAdds
  <2>. QED
    BY <2>1, <2>6
<1>. QED
  BY <1>1, <1>2

LEMMA HostRemove ==
  ASSUME HostInv, NEW p \in Plugins, Host!RemovePlugin(p),
         loading' \in [Plugins -> {"no", "importing", "registering"}]
  PROVE  /\ HostInv'
         /\ \A e \in live \ live' : IF Host!Named(e.key) THEN e.name = p ELSE p \in users[e.key]
         /\ \A e \in live' : e.by = p => ~e.due
<1>1. /\ live' = live \ Host!Unregistered(p)
      /\ installed' = installed \ {p}
      /\ tracked' = [tracked EXCEPT ![p] = {}]
      /\ UNCHANGED <<hosted, ids, users>>
  BY DEF Host!RemovePlugin
<1>2. /\ tracked \in [Plugins -> SUBSET Host!Contribution]
      /\ tracked'[p] = {} /\ \A q \in Plugins : q # p => tracked'[q] = tracked[q]
  BY <1>1 DEF HostInv, Host!TypeOK
<1>3. ASSUME NEW e \in live, e.by = p, e.due PROVE e \in Host!Unregistered(p)
  BY <1>3 DEF HostInv, Host!Unregistered
<1>4. ASSUME NEW e \in live \ live'
      PROVE  IF Host!Named(e.key) THEN e.name = p ELSE p \in users[e.key]
  <2>1. e \in Host!Unregistered(p)
    BY <1>1
  <2>2. [key |-> e.key, id |-> e.id] \in tracked[p] => p \in users[e.key]
    BY DEF HostInv
  <2>. QED
    BY <2>1, <2>2 DEF Host!Unregistered
<1>5. Host!TypeOK'
  BY <1>1 DEF HostInv, Host!TypeOK, Host!Contribution
<1>6. HostInv'
  BY <1>1, <1>2, <1>3, <1>5 DEF HostInv, Host!TypeOK
<1>. QED
  BY <1>1, <1>3, <1>4, <1>6

\* A step of the host keeps the invariant, and what goes with a plugin that
\* leaves the registry is what UnloadExact says.
LEMMA HostStep ==
  ASSUME HostInv, [Host!Next]_(Host!vars)
  PROVE  /\ HostInv'
         /\ \A p \in installed \ installed' :
              /\ \A e \in live \ live' : IF Host!Named(e.key) THEN e.name = p ELSE p \in users[e.key]
              /\ \A e \in live' : e.by = p => ~e.due
<1>. DEFINE Goal == /\ HostInv'
                    /\ \A p \in installed \ installed' :
                         /\ \A e \in live \ live' : IF Host!Named(e.key) THEN e.name = p ELSE p \in users[e.key]
                         /\ \A e \in live' : e.by = p => ~e.due
<1>1. ASSUME NEW p \in Plugins, Host!Load(p) \/ Host!Refuse(p) \/ Host!Finish(p)
      PROVE  Goal
  BY <1>1 DEF Host!Load, Host!Refuse, Host!Finish, HostInv, Host!TypeOK, Host!Contribution
<1>2. ASSUME NEW p \in Plugins, Host!Invoke(p) \/ Host!InstallMetadata(p)
      PROVE  Goal
  <2>1. /\ installed' = installed \cup {p} /\ tracked' = Host!Contributions(p)
        /\ hosted' \subseteq Plugins /\ UNCHANGED <<live, ids, users>>
        /\ loading' \in [Plugins -> {"no", "importing", "registering"}]
    BY <1>2 DEF Host!Invoke, Host!InstallMetadata, HostInv, Host!TypeOK
  <2>2. /\ tracked \in [Plugins -> SUBSET Host!Contribution]
        /\ tracked' \in [Plugins -> SUBSET Host!Contribution]
        /\ \A q \in Plugins : tracked'[q] \subseteq tracked[q]
        /\ \A q \in installed : tracked'[q] = tracked[q]
    BY <2>1 DEF Host!Contributions, HostInv, Host!TypeOK
  <2>3. Host!TypeOK'
    BY <2>1, <2>2 DEF HostInv, Host!TypeOK, Host!Contribution
  <2>4. HostInv'
    BY <2>1, <2>2, <2>3 DEF HostInv
  <2>. QED
    BY <2>1, <2>4
<1>3. ASSUME NEW p \in Plugins, Host!Unload(p) \/ Host!Throw(p)
      PROVE  Goal
  <2>1. /\ loading' \in [Plugins -> {"no", "importing", "registering"}]
        /\ \/ Host!RemovePlugin(p)
           \/ UNCHANGED <<hosted, installed, tracked, live, ids, users>>
    BY <1>3 DEF Host!Unload, Host!Throw, HostInv, Host!TypeOK
  <2>2. CASE Host!RemovePlugin(p)
    <3>1. installed' = installed \ {p}
      BY <2>2 DEF Host!RemovePlugin
    <3>. QED
      BY <2>1, <2>2, <3>1, HostRemove
  <2>3. CASE UNCHANGED <<hosted, installed, tracked, live, ids, users>>
    BY <2>1, <2>3 DEF HostInv, Host!TypeOK, Host!Contribution
  <2>. QED
    BY <2>1, <2>2, <2>3
<1>4. ASSUME NEW p \in Plugins, NEW key \in Keys, NEW name \in Plugins,
             Host!Register(p, key, name) \/ Host!RegisterUntracked(p, key, name)
      PROVE  Goal
  <2>1. HostInv' /\ installed' = installed
    BY <1>4, HostRegister
  <2>. QED
    BY <2>1
<1>5. ASSUME NEW p \in Plugins, NEW e \in live, Host!Withdraw(p, e)
      PROVE  Goal
  BY <1>5 DEF Host!Withdraw, HostInv, Host!TypeOK, Host!Contribution
<1>6. CASE UNCHANGED Host!vars
  BY <1>6 DEF Host!vars, HostInv, Host!TypeOK, Host!Contribution
<1>. QED
  BY <1>1, <1>2, <1>3, <1>4, <1>5, <1>6 DEF Host!Next

(* For any plugins, keys and bounds: a plugin that leaves the registry      *)
(* takes with it all that the loader is to remove, what it registered there *)
(* through its host and under its own name, and of others nothing but under *)
(* its name or under a key that it has registered (plugin-loader.ts,        *)
(* plugin-registry.ts, api-endpoints.ts, openapi.ts).                       *)
THEOREM UnloadExactThm == Host!Spec => UnloadExact
<1>1. HostInv /\ [Host!Next]_(Host!vars) => HostInv'
  BY HostStep
<1>2. HostInv /\ [Host!Next]_(Host!vars) =>
        [\A p \in installed \ installed' :
           /\ \A e \in live \ live' : IF Host!Named(e.key) THEN e.name = p ELSE p \in users[e.key]
           /\ \A e \in live' : e.by = p => ~e.due]_(Host!vars)
  BY HostStep
<1>. QED
  BY <1>1, <1>2, HostStart, PTL DEF Host!Spec, UnloadExact, Host!UnloadExact

-----------------------------------------------------------------------------
(* The event client.                                                        *)

ConnRecord == [listeners : SUBSET Handlers, last : Nat, closed : BOOLEAN,
               es : {"connecting", "open", "waiting", "closed"}, at : Nat]

EventTypes ==
  /\ published \in 0..MaxEvents
  /\ conns \in Seq(ConnRecord) /\ Len(conns) <= MaxConns
  /\ entry \in 0..Len(conns) /\ unsubs \subseteq Handlers \X DOMAIN conns
  /\ heard \in [Handlers -> Seq(Nat)] /\ misused \in BOOLEAN /\ unnamed \in BOOLEAN
  /\ \A k \in DOMAIN conns : /\ conns[k].last <= published /\ conns[k].at <= published
                             /\ conns[k].closed => conns[k].es = "closed"

\* Connection c is past everything a handler was called with: by the event it
\* will resume from, if it has seen one, and by where it stands, if it is open.
Past(c) ==
  \A h \in Handlers : \A i \in DOMAIN heard[h] :
    /\ c.last # 0 => heard[h][i] <= c.last
    /\ c.es = "open" => heard[h][i] <= c.at

\* The only connection that is not closed is the topic's, and it is past what
\* was heard, on it or on the connections before it.
EventsInv ==
  /\ EventTypes
  /\ \A h \in Handlers : \A i \in DOMAIN heard[h] : heard[h][i] <= published
  /\ ~misused /\ ~unnamed => \A k \in DOMAIN conns : ~conns[k].closed => k = entry /\ Past(conns[k])

LEMMA EventsStart == Events!Init => EventsInv
<1>. SUFFICES ASSUME Events!Init PROVE EventsInv
  OBVIOUS
<1>1. /\ published = 0 /\ conns = <<>> /\ entry = 0 /\ unsubs = {} /\ misused = FALSE /\ unnamed = FALSE
      /\ heard = [h \in Handlers |-> <<>>]
  BY DEF Events!Init
<1>2. DOMAIN conns = {} /\ Len(conns) = 0 /\ conns \in Seq(ConnRecord)
  BY <1>1
<1>3. heard \in [Handlers -> Seq(Nat)] /\ \A h \in Handlers : DOMAIN heard[h] = {}
  BY <1>1
<1>4. 0 \in 0..MaxEvents /\ 0 <= MaxConns
  BY WebBounds
<1>5. EventTypes
  <2>0. 0 \in 0..0
    OBVIOUS
  <2>1. published \in 0..MaxEvents /\ entry \in 0..Len(conns) /\ misused \in BOOLEAN
        /\ unnamed \in BOOLEAN
    BY <1>1, <1>2, <1>4, <2>0, Zenon
  <2>2. unsubs \subseteq Handlers \X DOMAIN conns
    BY <1>1
  <2>. QED
    BY <1>2, <1>3, <1>4, <2>1, <2>2 DEF EventTypes
<1>. QED
  BY <1>1, <1>2, <1>3, <1>5 DEF EventsInv

\* One connection of a sequence replaced, or only its listeners.
LEMMA Replaced ==
  ASSUME NEW s \in Seq(ConnRecord), NEW k \in DOMAIN s, NEW c \in ConnRecord
  PROVE  LET t == [s EXCEPT ![k] = c]
         IN  /\ t \in Seq(ConnRecord) /\ Len(t) = Len(s) /\ DOMAIN t = DOMAIN s
             /\ t[k] = c /\ \A j \in DOMAIN s : j # k => t[j] = s[j]
OBVIOUS

LEMMA Relistened ==
  ASSUME NEW s \in Seq(ConnRecord), NEW k \in DOMAIN s, NEW c \in ConnRecord,
         c.last = s[k].last, c.at = s[k].at, c.es = s[k].es, c.closed = s[k].closed
  PROVE  LET t == [s EXCEPT ![k] = c]
         IN  /\ t \in Seq(ConnRecord) /\ Len(t) = Len(s) /\ DOMAIN t = DOMAIN s
             /\ \A j \in DOMAIN s : /\ t[j].last = s[j].last /\ t[j].at = s[j].at
                                    /\ t[j].es = s[j].es /\ t[j].closed = s[j].closed
<1>. DEFINE t == [s EXCEPT ![k] = c]
<1>1. /\ t \in Seq(ConnRecord) /\ Len(t) = Len(s) /\ DOMAIN t = DOMAIN s
      /\ t[k] = c /\ \A j \in DOMAIN s : j # k => t[j] = s[j]
  BY Replaced
<1>. HIDE DEF t
<1>2. /\ t \in Seq(ConnRecord) /\ Len(t) = Len(s) /\ DOMAIN t = DOMAIN s
      /\ \A j \in DOMAIN s : /\ t[j].last = s[j].last /\ t[j].at = s[j].at
                             /\ t[j].es = s[j].es /\ t[j].closed = s[j].closed
  BY <1>1
<1>. QED
  BY <1>2 DEF t

LEMMA NewConn == ASSUME NEW h \in Handlers PROVE Events!NewConnection(h) \in ConnRecord
BY DEF Events!NewConnection, ConnRecord

LEMMA SubscribeStep ==
  ASSUME EventsInv, NEW h \in Handlers, Events!Subscribe(h)
  PROVE  EventsInv'
<1>1. /\ unsubs' = unsubs \cup {<<h, entry'>>}
      /\ UNCHANGED <<published, heard, misused, unnamed>>
      /\ conns \in Seq(ConnRecord) /\ Len(conns) \in Nat /\ DOMAIN conns = 1..Len(conns)
  BY DEF Events!Subscribe, EventsInv, EventTypes
<1>2. CASE entry = 0
  <2>. DEFINE new == Events!NewConnection(h)
  <2>1. /\ Len(conns) < MaxConns /\ conns' = Append(conns, new) /\ entry' = Len(conns')
        /\ new \in ConnRecord
    BY <1>2, NewConn DEF Events!Subscribe
  <2>2. new.last = 0 /\ new.at = 0 /\ new.es = "connecting" /\ ~new.closed
    BY DEF Events!NewConnection
  <2>. HIDE DEF new
  <2>3. /\ conns' \in Seq(ConnRecord) /\ Len(conns') = Len(conns) + 1
        /\ DOMAIN conns' = 1..(Len(conns) + 1) /\ conns'[Len(conns) + 1] = new
        /\ \A k \in DOMAIN conns : conns'[k] = conns[k] /\ k \in DOMAIN conns'
        /\ \A k \in DOMAIN conns' : k \in DOMAIN conns \/ k = Len(conns) + 1
    BY <1>1, <2>1
  <2>4. Len(conns') <= MaxConns /\ entry' \in 0..Len(conns') /\ entry' \in DOMAIN conns'
    BY <1>1, <2>1, <2>3, WebBounds
  <2>5. EventTypes'
    <3>1. \A k \in DOMAIN conns' :
            /\ conns'[k].last <= published /\ conns'[k].at <= published
            /\ conns'[k].closed => conns'[k].es = "closed"
      <4>1. 0 <= published
        BY DEF EventsInv, EventTypes
      <4>. QED
        BY <2>2, <2>3, <4>1 DEF EventsInv, EventTypes
    <3>. QED
      BY <1>1, <2>3, <2>4, <3>1 DEF EventsInv, EventTypes
  <2>6. ASSUME ~misused, ~unnamed, NEW k \in DOMAIN conns', ~conns'[k].closed
        PROVE  k = entry' /\ Past(conns'[k])
    <3>1. k = Len(conns) + 1
      BY <1>1, <1>2, <2>3, <2>6 DEF EventsInv
    <3>. QED
      BY <2>1, <2>2, <2>3, <3>1 DEF Past
  <2>. QED
    BY <1>1, <2>5, <2>6 DEF EventsInv, Past
<1>3. CASE entry # 0
  <2>1. /\ conns' = [conns EXCEPT ![entry].listeners = @ \cup {h}] /\ entry' = entry
        /\ entry \in DOMAIN conns
    BY <1>1, <1>3 DEF Events!Subscribe, EventsInv, EventTypes
  <2>2. /\ conns' \in Seq(ConnRecord) /\ Len(conns') = Len(conns) /\ DOMAIN conns' = DOMAIN conns
        /\ \A k \in DOMAIN conns : /\ conns'[k].last = conns[k].last /\ conns'[k].at = conns[k].at
                                   /\ conns'[k].es = conns[k].es
                                   /\ conns'[k].closed = conns[k].closed
    <3>. DEFINE c == [conns[entry] EXCEPT !.listeners = @ \cup {h}]
    <3>1. conns[entry] \in ConnRecord
      BY <1>1, <2>1
    <3>2. /\ c \in ConnRecord /\ c.last = conns[entry].last /\ c.at = conns[entry].at
          /\ c.es = conns[entry].es /\ c.closed = conns[entry].closed
      BY <3>1 DEF ConnRecord
    <3>3. conns' = [conns EXCEPT ![entry] = c]
      BY <2>1
    <3>. HIDE DEF c
    <3>4. entry \in DOMAIN conns
      BY <2>1
    <3>. QED
      BY <1>1, <3>2, <3>3, <3>4, Relistened
  <2>3. EventTypes'
    BY <1>1, <2>1, <2>2 DEF EventsInv, EventTypes
  <2>. QED
    BY <1>1, <2>1, <2>2, <2>3 DEF EventsInv, Past
<1>. QED
  BY <1>2, <1>3

LEMMA UnsubscribeStep ==
  ASSUME EventsInv, NEW h \in Handlers, NEW k \in DOMAIN conns, Events!Unsubscribe(h, k)
  PROVE  EventsInv'
<1>. DEFINE left == conns[k].listeners \ {h}
<1>1. /\ UNCHANGED <<published, unsubs, heard, unnamed>>
      /\ conns \in Seq(ConnRecord) /\ Len(conns) \in Nat /\ DOMAIN conns = 1..Len(conns)
      /\ left \in SUBSET Handlers /\ conns[k] \in ConnRecord
  <2>1. /\ UNCHANGED <<published, unsubs, heard, unnamed>>
        /\ conns \in Seq(ConnRecord) /\ Len(conns) \in Nat /\ DOMAIN conns = 1..Len(conns)
    BY DEF Events!Unsubscribe, EventsInv, EventTypes
  <2>2. conns[k] \in ConnRecord
    BY <2>1
  <2>3. conns[k].listeners \subseteq Handlers
    BY <2>2 DEF ConnRecord
  <2>. QED
    BY <2>1, <2>2, <2>3
<1>2. CASE left = {}
  <2>1. /\ conns' = [conns EXCEPT ![k].listeners = left, ![k].closed = TRUE, ![k].es = "closed"]
        /\ entry' = 0 /\ misused' = (misused \/ entry \notin {0, k})
    BY <1>2 DEF Events!Unsubscribe
  <2>. HIDE DEF left
  <2>. DEFINE c == [conns[k] EXCEPT !.listeners = left, !.closed = TRUE, !.es = "closed"]
  <2>2. /\ c \in ConnRecord /\ c.last = conns[k].last /\ c.at = conns[k].at
        /\ c.es = "closed" /\ c.closed = TRUE
    BY <1>1 DEF ConnRecord
  <2>3. conns' = [conns EXCEPT ![k] = c]
    BY <2>1
  <2>. HIDE DEF c
  <2>4. /\ conns' \in Seq(ConnRecord) /\ Len(conns') = Len(conns) /\ DOMAIN conns' = DOMAIN conns
        /\ conns'[k].last = conns[k].last /\ conns'[k].at = conns[k].at
        /\ conns'[k].es = "closed" /\ conns'[k].closed = TRUE
        /\ \A j \in DOMAIN conns : j # k => conns'[j] = conns[j]
    BY <1>1, <2>2, <2>3, Replaced
  <2>5. EventTypes'
    BY <1>1, <2>1, <2>4 DEF EventsInv, EventTypes
  <2>6. ASSUME ~misused', ~unnamed', NEW j \in DOMAIN conns' PROVE conns'[j].closed
    <3>1. ~misused /\ ~unnamed /\ entry \in {0, k}
      BY <1>1, <2>1, <2>6
    <3>2. j # k => conns[j].closed
      BY <1>1, <2>4, <3>1 DEF EventsInv
    <3>. QED
      BY <2>4, <3>2
  <2>. QED
    BY <1>1, <2>5, <2>6 DEF EventsInv
<1>3. CASE left # {}
  <2>1. conns' = [conns EXCEPT ![k].listeners = left] /\ UNCHANGED <<entry, misused>>
    BY <1>3 DEF Events!Unsubscribe
  <2>. HIDE DEF left
  <2>2. /\ conns' \in Seq(ConnRecord) /\ Len(conns') = Len(conns) /\ DOMAIN conns' = DOMAIN conns
        /\ \A j \in DOMAIN conns : /\ conns'[j].last = conns[j].last /\ conns'[j].at = conns[j].at
                                   /\ conns'[j].es = conns[j].es
                                   /\ conns'[j].closed = conns[j].closed
    <3>. DEFINE c == [conns[k] EXCEPT !.listeners = left]
    <3>1. /\ c \in ConnRecord /\ c.last = conns[k].last /\ c.at = conns[k].at
          /\ c.es = conns[k].es /\ c.closed = conns[k].closed
      BY <1>1 DEF ConnRecord
    <3>2. conns' = [conns EXCEPT ![k] = c]
      BY <2>1
    <3>. HIDE DEF c
    <3>. QED
      BY <1>1, <3>1, <3>2, Relistened
  <2>3. EventTypes'
    BY <1>1, <2>1, <2>2 DEF EventsInv, EventTypes
  <2>. QED
    BY <1>1, <2>1, <2>2, <2>3 DEF EventsInv, Past
<1>. QED
  BY <1>2, <1>3

\* A step that only moves connection k, not a closed one, to c.
LEMMA MoveStep ==
  ASSUME EventsInv, NEW k \in DOMAIN conns, NEW c \in ConnRecord,
         conns' = [conns EXCEPT ![k] = c],
         UNCHANGED <<published, entry, unsubs, heard, misused, unnamed>>,
         c.last <= published, c.at <= published, ~c.closed, ~conns[k].closed,
         Past(conns[k]) => Past(c)
  PROVE  EventsInv'
<1>1. /\ conns \in Seq(ConnRecord) /\ Len(conns) \in Nat
  BY DEF EventsInv, EventTypes
<1>2. /\ conns' \in Seq(ConnRecord) /\ Len(conns') = Len(conns) /\ DOMAIN conns' = DOMAIN conns
      /\ conns'[k] = c /\ \A j \in DOMAIN conns : j # k => conns'[j] = conns[j]
  BY <1>1, Replaced
<1>3. EventTypes'
  BY <1>2 DEF EventsInv, EventTypes
<1>4. ASSUME ~misused, ~unnamed, NEW j \in DOMAIN conns, ~conns'[j].closed
      PROVE  j = entry /\ Past(conns'[j])
  BY <1>2, <1>4 DEF EventsInv
<1>5. ASSUME ~misused', ~unnamed', NEW j \in DOMAIN conns', ~conns'[j].closed
      PROVE  j = entry' /\ Past(conns[j])'
  <2>1. j = entry /\ Past(conns'[j])
    BY <1>2, <1>4, <1>5
  <2>. QED
    BY <2>1 DEF Past
<1>6. \A h \in Handlers : \A i \in DOMAIN heard'[h] : heard'[h][i] <= published'
  BY DEF EventsInv
<1>. QED
  BY <1>3, <1>5, <1>6 DEF EventsInv

LEMMA FailStep ==
  ASSUME EventsInv, NEW k \in DOMAIN conns, Events!Fail(k) \/ Events!Reopen(k)
  PROVE  EventsInv'
<1>. DEFINE to == IF conns[k].es = "waiting" THEN "connecting" ELSE "waiting"
            c == [conns[k] EXCEPT !.es = to]
<1>1. conns \in Seq(ConnRecord) /\ conns[k] \in ConnRecord
  BY DEF EventsInv, EventTypes
<1>2. /\ conns' = [conns EXCEPT ![k].es = to]
      /\ UNCHANGED <<published, entry, unsubs, heard, misused, unnamed>>
      /\ ~conns[k].closed
  BY <1>1 DEF Events!Fail, Events!Reopen, EventsInv, EventTypes, ConnRecord
<1>3. /\ c \in ConnRecord /\ c.last = conns[k].last /\ c.at = conns[k].at
      /\ c.es # "open" /\ c.closed = conns[k].closed
  BY <1>1 DEF ConnRecord
<1>4. conns' = [conns EXCEPT ![k] = c]
  BY <1>2
<1>. HIDE DEF c
<1>5. Past(conns[k]) => Past(c)
  BY <1>3 DEF Past
<1>6. c.last <= published /\ c.at <= published
  BY <1>3 DEF EventsInv, EventTypes
<1>. QED
  BY <1>2, <1>3, <1>4, <1>5, <1>6, MoveStep

LEMMA AcceptStep ==
  ASSUME EventsInv, NEW k \in DOMAIN conns, Events!Accept(k)
  PROVE  EventsInv'
<1>1. conns \in Seq(ConnRecord) /\ conns[k] \in ConnRecord /\ published \in Nat
  BY WebBounds DEF EventsInv, EventTypes
<1>2. PICK at \in (IF conns[k].last = 0 THEN published ELSE conns[k].last)..published :
        conns' = [conns EXCEPT ![k].es = "open", ![k].at = at]
  BY DEF Events!Accept
<1>3. conns[k].last \in Nat /\ at \in Nat /\ at <= published
      /\ (conns[k].last = 0 => at = published) /\ conns[k].last <= at
  BY <1>1, <1>2 DEF ConnRecord
<1>. DEFINE c == [conns[k] EXCEPT !.es = "open", !.at = at]
<1>4. /\ c \in ConnRecord /\ c.last = conns[k].last /\ c.at = at
      /\ c.es = "open" /\ c.closed = conns[k].closed
  BY <1>1, <1>3 DEF ConnRecord
<1>5. conns' = [conns EXCEPT ![k] = c]
  BY <1>2
<1>. HIDE DEF c
<1>6. /\ UNCHANGED <<published, entry, unsubs, heard, misused, unnamed>>
      /\ ~conns[k].closed
  BY <1>1 DEF Events!Accept, EventsInv, EventTypes, ConnRecord
<1>7. ASSUME Past(conns[k]) PROVE Past(c)
  <2>. SUFFICES ASSUME NEW h \in Handlers, NEW i \in DOMAIN heard[h]
                PROVE  /\ c.last # 0 => heard[h][i] <= c.last
                       /\ heard[h][i] <= c.at
    BY DEF Past
  <2>1. heard[h][i] <= published /\ heard[h][i] \in Nat
    BY DEF EventsInv, EventTypes
  <2>2. conns[k].last # 0 => heard[h][i] <= conns[k].last
    BY <1>7 DEF Past
  <2>. QED
    BY <1>1, <1>3, <1>4, <2>1, <2>2
<1>8. c.last <= published /\ c.at <= published
  BY <1>3, <1>4 DEF EventsInv, EventTypes
<1>. QED
  BY <1>4, <1>5, <1>6, <1>7, <1>8, MoveStep

\* A message moves its connection, and is news to whoever hears it.
LEMMA MessageStep ==
  ASSUME EventsInv, NEW k \in DOMAIN conns, Events!Message(k)
  PROVE  /\ EventsInv'
         /\ ~misused /\ ~unnamed' => \A h \in Handlers :
              [Events!Feed(h)!Receive]_<<published, heard[h]>>
<1>1. /\ conns \in Seq(ConnRecord) /\ Len(conns) \in Nat /\ conns[k] \in ConnRecord
      /\ published \in Nat /\ heard \in [Handlers -> Seq(Nat)]
  BY WebBounds DEF EventsInv, EventTypes
<1>2. PICK event \in (conns[k].at + 1)..published, id \in Nat :
        /\ id = event \/ id = 0
        /\ unnamed' = (unnamed \/ id = 0)
        /\ conns' = [conns EXCEPT ![k].at = event, ![k].last = Events!Remember(@, id)]
        /\ heard' = [h \in Handlers |->
                       IF h \in conns[k].listeners THEN Append(heard[h], event) ELSE heard[h]]
  <2>1. PICK event \in (conns[k].at + 1)..published : \E id \in {event, 0} :
          /\ conns' = [conns EXCEPT ![k].at = event, ![k].last = Events!Remember(@, id)]
          /\ heard' = [h \in Handlers |->
                         IF h \in conns[k].listeners THEN Append(heard[h], event) ELSE heard[h]]
          /\ unnamed' = (unnamed \/ id = 0)
    BY DEF Events!Message
  <2>2. event \in Nat
    BY <1>1, <2>1 DEF ConnRecord
  <2>. QED
    BY <2>1, <2>2
<1>3. conns[k].at \in Nat /\ event \in Nat /\ event <= published /\ conns[k].at < event
      /\ event \in 1..published
  BY <1>1, <1>2 DEF ConnRecord
<1>. DEFINE last == Events!Remember(conns[k].last, id)
            c == [conns[k] EXCEPT !.at = event, !.last = last]
<1>4. last \in Nat /\ last <= published /\ (~unnamed' => last = event)
  <2>1. conns[k].last \in Nat /\ conns[k].last <= published
    BY <1>1 DEF EventsInv, EventTypes, ConnRecord
  <2>. QED
    BY <1>1, <1>2, <1>3, <2>1 DEF Events!Remember
<1>5. conns' = [conns EXCEPT ![k] = c]
  BY <1>2
<1>. HIDE DEF last
<1>5a. /\ c \in ConnRecord /\ c.last = last /\ c.at = event
       /\ c.es = conns[k].es /\ c.closed = conns[k].closed
  BY <1>1, <1>3, <1>4 DEF ConnRecord
<1>. HIDE DEF c
<1>6. /\ UNCHANGED <<published, entry, unsubs, misused>>
      /\ conns[k].es = "open" /\ ~conns[k].closed
  BY DEF Events!Message, EventsInv, EventTypes
<1>7. /\ conns' \in Seq(ConnRecord) /\ Len(conns') = Len(conns) /\ DOMAIN conns' = DOMAIN conns
      /\ conns'[k] = c /\ \A j \in DOMAIN conns : j # k => conns'[j] = conns[j]
  BY <1>1, <1>5, <1>5a, Replaced
<1>8. ASSUME NEW h \in Handlers
      PROVE  /\ heard'[h] \in Seq(Nat)
             /\ \A i \in DOMAIN heard'[h] :
                  heard'[h][i] = event \/ (i \in DOMAIN heard[h] /\ heard'[h][i] = heard[h][i])
             /\ heard'[h] = heard[h] \/ heard'[h] = Append(heard[h], event)
  <2>1. heard[h] \in Seq(Nat) /\ (heard'[h] = heard[h] \/ heard'[h] = Append(heard[h], event))
    BY <1>1, <1>2
  <2>2. CASE heard'[h] = Append(heard[h], event)
    BY <1>3, <2>1, <2>2
  <2>3. CASE heard'[h] = heard[h]
    BY <2>1, <2>3
  <2>. QED
    BY <2>1, <2>2, <2>3
<1>9. heard' \in [Handlers -> Seq(Nat)]
  BY <1>2, <1>8
<1>10. EventTypes'
  <2>1. unnamed' \in BOOLEAN
    BY <1>2 DEF EventsInv, EventTypes
  <2>. QED
    BY <1>3, <1>4, <1>5a, <2>1, <1>6, <1>7, <1>9 DEF EventsInv, EventTypes
<1>11. \A h \in Handlers : \A i \in DOMAIN heard'[h] : heard'[h][i] <= published'
  BY <1>3, <1>6, <1>8 DEF EventsInv
<1>12. ASSUME ~misused, ~unnamed
       PROVE  /\ k = entry
              /\ \A h \in Handlers : \A i \in DOMAIN heard[h] :
                   heard[h][i] \in Nat /\ heard[h][i] <= conns[k].at
  <2>1. k = entry /\ Past(conns[k])
    BY <1>6, <1>12 DEF EventsInv
  <2>. QED
    BY <1>1, <1>6, <2>1 DEF Past
<1>13. ASSUME ~misused', ~unnamed', NEW j \in DOMAIN conns', ~conns'[j].closed
       PROVE  j = entry' /\ Past(conns[j])'
  <2>0. ~misused /\ ~unnamed
    BY <1>2, <1>6, <1>13
  <2>1. j = k /\ j = entry'
    BY <1>6, <1>7, <1>12, <1>13, <2>0 DEF EventsInv
  <2>2. ASSUME NEW h \in Handlers, NEW i \in DOMAIN heard'[h] PROVE heard'[h][i] <= event
    <3>1. CASE i \in DOMAIN heard[h] /\ heard'[h][i] = heard[h][i]
      BY <1>3, <1>12, <2>0, <3>1
    <3>2. CASE heard'[h][i] = event
      BY <1>3, <3>2
    <3>. QED
      BY <1>8, <3>1, <3>2
  <2>3. conns'[j].last = event /\ conns'[j].at = event
    BY <1>4, <1>5a, <1>7, <1>13, <2>1
  <2>. QED
    BY <2>1, <2>2, <2>3 DEF Past
<1>14. EventsInv'
  BY <1>10, <1>11, <1>13 DEF EventsInv
<1>15. ASSUME ~misused, ~unnamed', NEW h \in Handlers
       PROVE  [Events!Feed(h)!Receive]_<<published, heard[h]>>
  <2>1. CASE heard'[h] = heard[h]
    BY <1>6, <2>1
  <2>2. CASE heard'[h] = Append(heard[h], event)
    <3>1. \A i \in DOMAIN heard[h] : heard[h][i] < event
      <4>1. ~unnamed
        BY <1>2, <1>15
      <4>. QED
        BY <1>1, <1>3, <1>12, <1>15, <4>1
    <3>. QED
      BY <1>3, <1>6, <2>2, <3>1 DEF Events!Feed!Receive
  <2>. QED
    BY <1>8, <2>1, <2>2
<1>. QED
  BY <1>14, <1>15

\* Every step keeps the invariant and, while no unsubscribe has dropped a
\* connection not its own and every event has had its id, leaves one connection and feeds handlers in order.
LEMMA EventsStep ==
  ASSUME EventsInv, [Events!Next]_(Events!vars)
  PROVE  /\ EventsInv'
         /\ ~misused' /\ ~unnamed' =>
              /\ \A j, k \in DOMAIN conns' : ~conns'[j].closed /\ ~conns'[k].closed => j = k
              /\ \A h \in Handlers : [Events!Feed(h)!Next]_<<published, heard[h]>>
<1>. DEFINE Fed == \A h \in Handlers : [Events!Feed(h)!Next]_<<published, heard[h]>>
<1>1. CASE Events!Publish
  <2>1. /\ published' = published + 1 /\ published' \in 0..MaxEvents /\ published \in Nat
        /\ UNCHANGED <<conns, entry, unsubs, heard, misused, unnamed>>
    BY <1>1, WebBounds DEF Events!Publish, EventsInv, EventTypes
  <2>2. EventTypes'
    <3>1. \A k \in DOMAIN conns : conns[k].last \in Nat /\ conns[k].at \in Nat
      <4>1. \A k \in DOMAIN conns : conns[k] \in ConnRecord
        BY DEF EventsInv, EventTypes
      <4>. QED
        BY <4>1 DEF ConnRecord
    <3>. QED
      BY <2>1, <3>1 DEF EventsInv, EventTypes
  <2>3. \A h \in Handlers : \A i \in DOMAIN heard[h] : heard[h][i] \in Nat
    BY DEF EventsInv, EventTypes
  <2>4. EventsInv'
    BY <2>1, <2>2, <2>3 DEF EventsInv, Past
  <2>5. Fed
    BY <2>1 DEF Events!Feed!Next, Events!Feed!Publish
  <2>. QED
    BY <2>4, <2>5 DEF EventsInv
<1>2. ASSUME NEW h \in Handlers,
             Events!Subscribe(h) \/ \E k \in DOMAIN conns : Events!Unsubscribe(h, k)
      PROVE  EventsInv' /\ Fed
  <2>1. EventsInv'
    BY <1>2, SubscribeStep, UnsubscribeStep
  <2>2. UNCHANGED <<published, heard>>
    BY <1>2 DEF Events!Subscribe, Events!Unsubscribe
  <2>. QED
    BY <2>1, <2>2
<1>3. ASSUME NEW k \in DOMAIN conns, Events!Fail(k) \/ Events!Reopen(k) \/ Events!Accept(k)
      PROVE  EventsInv' /\ Fed
  <2>1. EventsInv'
    BY <1>3, FailStep, AcceptStep
  <2>2. UNCHANGED <<published, heard>>
    BY <1>3 DEF Events!Fail, Events!Reopen, Events!Accept
  <2>. QED
    BY <2>1, <2>2
<1>4. ASSUME NEW k \in DOMAIN conns, Events!Message(k)
      PROVE  EventsInv' /\ (~misused' /\ ~unnamed' => Fed)
  <2>1. EventsInv' /\ (~misused /\ ~unnamed' => \A h \in Handlers :
                         [Events!Feed(h)!Receive]_<<published, heard[h]>>)
    BY <1>4, MessageStep
  <2>2. misused' = misused
    BY <1>4 DEF Events!Message
  <2>3. \A h \in Handlers : [Events!Feed(h)!Receive]_<<published, heard[h]>>
                              => [Events!Feed(h)!Next]_<<published, heard[h]>>
    BY DEF Events!Feed!Next
  <2>. QED
    BY <2>1, <2>2, <2>3
<1>5. CASE UNCHANGED Events!vars
  BY <1>5 DEF Events!vars, EventsInv, EventTypes, Past
<1>6. EventsInv' /\ (~misused' /\ ~unnamed' => Fed)
  BY <1>1, <1>2, <1>3, <1>4, <1>5 DEF Events!Next, Events!vars
<1>. QED
  BY <1>6 DEF EventsInv

(* As long as every unsubscribe drops its own connection and every event    *)
(* has its id, a topic has one connection that lives, and what each handler *)
(* hears refines LossyStream, over errors and reconnections and over the    *)
(* connections it is subscribed on (sse-client.ts).                         *)
THEOREM OneFeedPerTopicThm == Events!Spec => OneFeedPerTopic
<1>1. EventsInv /\ [Events!Next]_(Events!vars) => EventsInv'
  BY EventsStep
<1>2. EventsInv /\ [Events!Next]_(Events!vars) =>
        [~misused' /\ ~unnamed' =>
           /\ \A j, k \in DOMAIN conns' : ~conns'[j].closed /\ ~conns'[k].closed => j = k
           /\ \A h \in Handlers : [Events!Feed(h)!Next]_<<published, heard[h]>>]_(Events!vars)
  BY EventsStep
<1>. QED
  BY <1>1, <1>2, EventsStart, PTL DEF Events!Spec, OneFeedPerTopic, Events!OneFeedPerTopic

-----------------------------------------------------------------------------
(* The role resolver.                                                       *)

\* The order of the naturals, as a relation.
LessThan == {p \in Nat \X Nat : p[1] < p[2]}

(* Every nonempty set of naturals has a least element.                      *)
LEMMA LeastNumber ==
  ASSUME NEW T \in SUBSET Nat, T # {}
  PROVE  \E x \in T : \A y \in T : x <= y
<1>1. IsWellFoundedOn(LessThan, Nat)
  BY NatLessThanWellFounded, Zenon DEF OpToRel, LessThan
<1>2. PICK x \in T : \A y \in T : <<y, x>> \notin LessThan
  BY <1>1, WFMin, Zenon
<1>3. ASSUME NEW y \in T PROVE x <= y
  <2>1. <<y, x>> \in Nat \X Nat
    BY <1>2
  <2>2. <<y, x>>[1] = y /\ <<y, x>>[2] = x
    OBVIOUS
  <2>3. ~(y < x)
    BY <1>2, <2>1, <2>2, Zenon DEF LessThan
  <2>. QED
    BY <1>2, <2>3
<1>. QED
  BY <1>3

(* A set that holds 0, and with every number below k the next one, holds k. *)
LEMMA Reaches ==
  ASSUME NEW k \in Nat, NEW S, 0 \in S, \A i \in 1..k : i - 1 \in S => i \in S
  PROVE  k \in S
<1>. DEFINE bad == {i \in Nat : i \in 0..k /\ i \notin S}
<1>1. SUFFICES ASSUME bad # {} PROVE FALSE
  BY k \in 0..k
<1>2. PICK i \in bad : \A j \in bad : i <= j
  <2>. HIDE DEF bad
  <2>1. bad \in SUBSET Nat
    BY DEF bad
  <2>. QED
    BY <1>1, <2>1, LeastNumber
<1>3. i \in 1..k /\ i - 1 \in Nat /\ i - 1 \in 0..k /\ ~(i <= i - 1)
  <2>1. i \in Nat /\ i \in 0..k /\ i \notin S
    BY <1>2
  <2>2. i # 0
    BY <2>1
  <2>. QED
    BY <2>1, <2>2
<1>4. i - 1 \in S
  BY <1>2, <1>3
<1>. QED
  BY <1>2, <1>3, <1>4

(* A function that starts somewhere and takes each value from the one       *)
(* before exists: the recursions of the walks are well founded.             *)
Steps(k, X) == [(1..k) \X X -> X]
Follows(f, k, X, b, step) ==
  f \in [0..k -> X] /\ f[0] = b /\ \A n \in 1..k : f[n] = step[<<n, f[n - 1]>>]

LEMMA RunExists ==
  ASSUME NEW k \in Nat, NEW X, NEW b \in X, NEW step \in Steps(k, X)
  PROVE  \E f : Follows(f, k, X, b, step)
<1>. USE DEF Steps
<1>. DEFINE IsRun(f, m) == f = [n \in 0..m |-> IF n = 0 THEN b ELSE step[<<n, f[n - 1]>>]]
            good == {m \in Nat : m <= k => \E f \in [0..m -> X] : IsRun(f, m)}
<1>1. 0 \in good
  <2>. DEFINE f == [n \in 0..0 |-> b]
  <2>1. f = [n \in 0..0 |-> IF n = 0 THEN b ELSE step[<<n, f[n - 1]>>]]
    OBVIOUS
  <2>. QED
    BY <2>1
<1>2. ASSUME NEW m \in 1..k, m - 1 \in good PROVE m \in good
  <2>1. PICK f \in [0..(m - 1) -> X] : IsRun(f, m - 1)
    BY <1>2
  <2>. DEFINE last == step[<<m, f[m - 1]>>]
              g == [n \in 0..m |-> IF n = m THEN last ELSE f[n]]
  <2>2. last \in X
    OBVIOUS
  <2>3. g \in [0..m -> X]
    <3>1. \A n \in 0..m : n # m => n \in 0..(m - 1)
      OBVIOUS
    <3>. HIDE DEF last
    <3>. QED
      BY <2>2, <3>1
  <2>4. \A n \in 0..(m - 1) : f[n] = IF n = 0 THEN b ELSE step[<<n, f[n - 1]>>]
    BY <2>1
  <2>5. ASSUME NEW n \in 0..m
        PROVE  g[n] = IF n = 0 THEN b ELSE step[<<n, g[n - 1]>>]
    <3>1. CASE n = m
      <4>1. m - 1 \in 0..m /\ m - 1 # m /\ m # 0
        OBVIOUS
      <4>. QED
        BY <3>1, <4>1
    <3>2. CASE n # m
      <4>1. n \in 0..(m - 1) /\ (n # 0 => n - 1 \in 0..m /\ n - 1 # m)
        BY <3>2
      <4>. HIDE DEF last
      <4>. QED
        BY <3>2, <4>1, <2>4
    <3>. QED
      BY <3>1, <3>2
  <2>6. IsRun(g, m)
    <3>. DEFINE h == [n \in 0..m |-> IF n = 0 THEN b ELSE step[<<n, g[n - 1]>>]]
    <3>1. \A n \in 0..m : g[n] = h[n]
      <4>. HIDE DEF g
      <4>. QED
        BY <2>5
    <3>2. DOMAIN g = 0..m /\ DOMAIN h = 0..m
      OBVIOUS
    <3>. QED
      BY <3>1
  <2>. HIDE DEF g, IsRun
  <2>. QED
    BY <2>3, <2>6
<1>3. k \in good
  <2>. HIDE DEF good
  <2>. QED
    BY <1>1, <1>2, Reaches
<1>4. PICK f \in [0..k -> X] : IsRun(f, k)
  BY <1>3
<1>5. \A n \in 0..k : f[n] = IF n = 0 THEN b ELSE step[<<n, f[n - 1]>>]
  BY <1>4
<1>6. 0 \in 0..k /\ \A n \in 1..k : n \in 0..k /\ n # 0
  OBVIOUS
<1>. QED
  BY <1>5, <1>6 DEF Follows

-----------------------------------------------------------------------------
(* Lists and graphs of roles.                                               *)

(* A list of parents is a sequence of roles of bounded length.              *)
LEMMA ListFacts ==
  ASSUME NEW list \in Roles!ParentLists
  PROVE  /\ list \in Seq(Ids) /\ Len(list) \in 0..MaxParents
         /\ DOMAIN list = 1..Len(list)
         /\ Roles!ToSet(list) \subseteq Ids
         /\ \A id : Roles!Contains(list, id) <=> id \in Roles!ToSet(list)
<1>1. PICK m \in 0..MaxParents : list \in [1..m -> Ids]
  BY DEF Roles!ParentLists, Roles!SeqOf
<1>2. m \in Nat
  BY RoleBounds
<1>3. list \in Seq(Ids) /\ Len(list) = m
  BY <1>1, <1>2
<1>. QED
  BY <1>1, <1>2, <1>3 DEF Roles!ToSet, Roles!Contains

IsGraph(graph) ==
  DOMAIN graph \subseteq Ids /\ graph \in [DOMAIN graph -> Roles!ParentLists]

(* The ancestors of a set are the least set that holds it and is closed.    *)
LEMMA AncestorsClosed ==
  ASSUME NEW graph, IsGraph(graph), NEW S \in SUBSET Ids
  PROVE  /\ S \subseteq Roles!Ancestors(graph, S) /\ Roles!Ancestors(graph, S) \subseteq Ids
         /\ Roles!Closed(graph, Roles!Ancestors(graph, S))
<1>1. ASSUME NEW r \in Roles!Ancestors(graph, S) \cap DOMAIN graph
      PROVE  Roles!ToSet(graph[r]) \subseteq Roles!Ancestors(graph, S)
  <2>1. Roles!ToSet(graph[r]) \subseteq Ids
    BY ListFacts DEF IsGraph
  <2>2. ASSUME NEW C \in SUBSET Ids, S \subseteq C, Roles!Closed(graph, C)
        PROVE  Roles!ToSet(graph[r]) \subseteq C
    <3>1. r \in C
      BY <2>2 DEF Roles!Ancestors
    <3>. QED
      BY <2>2, <3>1 DEF Roles!Closed
  <2>. QED
    BY <2>1, <2>2 DEF Roles!Ancestors
<1>2. S \subseteq Roles!Ancestors(graph, S) /\ Roles!Ancestors(graph, S) \subseteq Ids
  BY DEF Roles!Ancestors
<1>. QED
  BY <1>1, <1>2 DEF Roles!Closed

LEMMA AncestorsLeast ==
  ASSUME NEW graph, NEW S, NEW C \in SUBSET Ids, S \subseteq C, Roles!Closed(graph, C)
  PROVE  Roles!Ancestors(graph, S) \subseteq C
BY DEF Roles!Ancestors

(* The ancestors of a set are those of its members.                         *)
LEMMA AncestorsOfMembers ==
  ASSUME NEW graph, IsGraph(graph), NEW S \in SUBSET Ids
  PROVE  Roles!Ancestors(graph, S) = UNION {Roles!Ancestors(graph, {r}) : r \in S}
<1>. DEFINE U == UNION {Roles!Ancestors(graph, {r}) : r \in S}
<1>1. \A r \in S : r \in Roles!Ancestors(graph, {r}) /\ Roles!Ancestors(graph, {r}) \subseteq Ids
  BY AncestorsClosed
<1>2. Roles!Closed(graph, U)
  <2>1. ASSUME NEW r \in S, NEW q \in Roles!Ancestors(graph, {r}) \cap DOMAIN graph
        PROVE  Roles!ToSet(graph[q]) \subseteq U
    <3>1. Roles!Closed(graph, Roles!Ancestors(graph, {r}))
      BY AncestorsClosed
    <3>2. Roles!ToSet(graph[q]) \subseteq Roles!Ancestors(graph, {r})
      BY <2>1, <3>1 DEF Roles!Closed
    <3>. QED
      BY <2>1, <3>2
  <2>. QED
    BY <2>1 DEF Roles!Closed
<1>3. Roles!Ancestors(graph, S) \subseteq U
  <2>1. U \in SUBSET Ids /\ S \subseteq U
    BY <1>1
  <2>. HIDE DEF U
  <2>. QED
    BY <1>2, <2>1, AncestorsLeast
<1>4. \A r \in S : Roles!Ancestors(graph, {r}) \subseteq Roles!Ancestors(graph, S)
  BY AncestorsClosed, AncestorsLeast
<1>. QED
  BY <1>3, <1>4

(* Elements of sequences.                                                   *)
LEMMA HeadAndTail ==
  ASSUME NEW X, NEW s \in Seq(X), s # <<>>
  PROVE  /\ Head(s) \in X /\ Head(s) = s[1] /\ Head(s) \in Roles!ToSet(s)
         /\ Tail(s) \in Seq(X) /\ Len(Tail(s)) = Len(s) - 1 /\ Len(s) \in Nat \ {0}
         /\ \A i \in 1..Len(s) - 1 : Tail(s)[i] = s[i + 1]
         /\ Roles!ToSet(s) = {Head(s)} \cup Roles!ToSet(Tail(s))
<1>1. /\ Head(s) \in X /\ Head(s) = s[1] /\ Tail(s) \in Seq(X) /\ Len(Tail(s)) = Len(s) - 1
      /\ Len(s) \in Nat \ {0} /\ \A i \in 1..Len(s) - 1 : Tail(s)[i] = s[i + 1]
  OBVIOUS
<1>2. DOMAIN s = 1..Len(s) /\ DOMAIN Tail(s) = 1..(Len(s) - 1)
  BY <1>1
<1>3. \A i \in 1..Len(s) : i = 1 \/ (i - 1 \in 1..(Len(s) - 1) /\ Tail(s)[i - 1] = s[i])
  BY <1>1
<1>4. \A i \in 1..(Len(s) - 1) : i + 1 \in 1..Len(s)
  BY <1>1
<1>5. Roles!ToSet(s) \subseteq {Head(s)} \cup Roles!ToSet(Tail(s))
  <2>1. \A i \in DOMAIN s : s[i] = Head(s) \/ \E j \in DOMAIN Tail(s) : Tail(s)[j] = s[i]
    BY <1>1, <1>2, <1>3
  <2>. QED
    BY <2>1 DEF Roles!ToSet
<1>6. Roles!ToSet(Tail(s)) \subseteq Roles!ToSet(s)
  BY <1>1, <1>2, <1>4 DEF Roles!ToSet
<1>7. Head(s) \in Roles!ToSet(s)
  BY <1>1, <1>2 DEF Roles!ToSet
<1>. QED
  BY <1>1, <1>5, <1>6, <1>7

LEMMA ConcatMembers ==
  ASSUME NEW X, NEW s \in Seq(X), NEW t \in Seq(X)
  PROVE  Roles!ToSet(s \o t) = Roles!ToSet(s) \cup Roles!ToSet(t)
<1>1. /\ Len(s \o t) = Len(s) + Len(t) /\ Len(s) \in Nat /\ Len(t) \in Nat
      /\ \A i \in 1..Len(s) + Len(t) : (s \o t)[i] = IF i <= Len(s) THEN s[i] ELSE t[i - Len(s)]
      /\ s \o t \in Seq(X)
  BY ConcatProperties, LenProperties
<1>2. DOMAIN s = 1..Len(s) /\ DOMAIN t = 1..Len(t) /\ DOMAIN (s \o t) = 1..(Len(s) + Len(t))
  BY <1>1
<1>3. \A i \in 1..Len(t) : i + Len(s) \in 1..Len(s) + Len(t) /\ (s \o t)[i + Len(s)] = t[i]
  BY <1>1
<1>4. \A i \in 1..Len(s) : i \in 1..Len(s) + Len(t) /\ (s \o t)[i] = s[i]
  BY <1>1
<1>5. \A i \in 1..Len(s) + Len(t) : i \in 1..Len(s) \/ (i - Len(s) \in 1..Len(t) /\ (s \o t)[i] = t[i - Len(s)])
  BY <1>1
<1>6. \A x \in Roles!ToSet(s) \cup Roles!ToSet(t) : x \in Roles!ToSet(s \o t)
  BY <1>2, <1>3, <1>4 DEF Roles!ToSet
<1>7. \A x \in Roles!ToSet(s \o t) : x \in Roles!ToSet(s) \cup Roles!ToSet(t)
  BY <1>2, <1>4, <1>5 DEF Roles!ToSet
<1>. QED
  BY <1>6, <1>7

LEMMA NoMembers == Roles!ToSet(<<>>) = {}
BY DEF Roles!ToSet

-----------------------------------------------------------------------------
(* The walk of collectGrants and collectDenies.                             *)

CallRecord == [id : Ids, path : Seq(Ids)]
FoundMaps == UNION {[P -> Seq(Ids)] : P \in SUBSET Perms}
Walks == [visited : SUBSET Ids, found : FoundMaps, calls : Seq(CallRecord)]

\* A call is for the root, or for a parent of the last of a chain of visited roles.
Leads(root, path, id, visited) ==
  \/ path = <<>> /\ id = root
  \/ /\ path # <<>> /\ Head(path) = root /\ Roles!IsInjective(path)
     /\ Roles!ToSet(path) \subseteq visited
     /\ \A i \in 1..(Len(path) - 1) : Roles!Contains(parents[path[i]], path[i + 1])
     /\ Roles!Last(path) \in DOMAIN parents
     /\ Roles!Contains(parents[Roles!Last(path)], id)

ToCall(w) == {c.id : c \in Roles!ToSet(w.calls)}

\* Nothing below a visited role is lost, and what it lists is found.
CollectInv(listed, root, found, w) ==
  /\ w \in Walks
  /\ w.visited \cup ToCall(w) \subseteq Roles!Ancestors(parents, {root})
  /\ root \in w.visited \cup ToCall(w)
  /\ \A r \in w.visited \cap DOMAIN parents : Roles!ToSet(parents[r]) \subseteq w.visited \cup ToCall(w)
  /\ \A c \in Roles!ToSet(w.calls) : Leads(root, c.path, c.id, w.visited)
  /\ DOMAIN w.found = DOMAIN found \cup UNION {listed[r] : r \in w.visited \cap DOMAIN parents}
  /\ \A p \in DOMAIN w.found : \/ p \in DOMAIN found /\ w.found[p] = found[p]
                               \/ Roles!Chain(listed, w.found[p], <<root>>, p)

CollectStart(root, found) == [visited |-> {}, found |-> found, calls |-> Roles!Calls(<<root>>, <<>>)]

(* The calls that a call makes.                                             *)
LEMMA CallsFacts ==
  ASSUME NEW list \in Seq(Ids), NEW path \in Seq(Ids)
  PROVE  /\ Roles!Calls(list, path) \in Seq(CallRecord)
         /\ Len(Roles!Calls(list, path)) = Len(list)
         /\ \A c \in Roles!ToSet(Roles!Calls(list, path)) : c.path = path /\ c.id \in Roles!ToSet(list)
         /\ {c.id : c \in Roles!ToSet(Roles!Calls(list, path))} = Roles!ToSet(list)
<1>. DEFINE s == Roles!Calls(list, path)
<1>1. DOMAIN list = 1..Len(list) /\ Len(list) \in Nat
  OBVIOUS
<1>2. s = [i \in 1..Len(list) |-> [id |-> list[i], path |-> path]]
  BY <1>1 DEF Roles!Calls
<1>3. s \in [1..Len(list) -> CallRecord]
  BY <1>1, <1>2 DEF CallRecord
<1>4. s \in Seq(CallRecord) /\ Len(s) = Len(list) /\ DOMAIN s = 1..Len(list)
  <2>. HIDE DEF s
  <2>. QED
    BY <1>1, <1>3
<1>5. \A i \in 1..Len(list) : s[i].id = list[i] /\ s[i].path = path
  BY <1>2
<1>. HIDE DEF s
<1>6. \A c \in Roles!ToSet(s) : c.path = path /\ c.id \in Roles!ToSet(list)
  BY <1>1, <1>4, <1>5 DEF Roles!ToSet
<1>7. \A id \in Roles!ToSet(list) : \E c \in Roles!ToSet(s) : c.id = id
  BY <1>1, <1>4, <1>5 DEF Roles!ToSet
<1>. QED
  BY <1>4, <1>6, <1>7 DEF s

(* A walk starts with the call for its root.                                *)
LEMMA CollectStarts ==
  ASSUME Roles!TypeOK, NEW listed \in [Ids -> SUBSET Perms], NEW root \in Ids, NEW found \in FoundMaps
  PROVE  /\ CollectInv(listed, root, found, CollectStart(root, found))
         /\ Len(CollectStart(root, found).calls) = 1
<1>. DEFINE w == CollectStart(root, found)
<1>1. <<root>> \in Seq(Ids) /\ Len(<<root>>) = 1 /\ <<>> \in Seq(Ids) /\ Roles!ToSet(<<root>>) = {root}
  BY DEF Roles!ToSet
<1>. DEFINE calls == Roles!Calls(<<root>>, <<>>)
<1>2. /\ w.visited = {} /\ w.found = found /\ w.calls \in Seq(CallRecord) /\ Len(w.calls) = 1
      /\ w \in Walks /\ ToCall(w) = {root}
      /\ \A c \in Roles!ToSet(w.calls) : c.path = <<>> /\ c.id = root
  <2>1. /\ calls \in Seq(CallRecord) /\ Len(calls) = 1
        /\ \A c \in Roles!ToSet(calls) : c.path = <<>> /\ c.id \in {root}
        /\ {c.id : c \in Roles!ToSet(calls)} = {root}
    <3>1. /\ calls \in Seq(CallRecord) /\ Len(calls) = Len(<<root>>)
          /\ \A c \in Roles!ToSet(calls) : c.path = <<>> /\ c.id \in Roles!ToSet(<<root>>)
          /\ {c.id : c \in Roles!ToSet(calls)} = Roles!ToSet(<<root>>)
      <4>. HIDE DEF w
      <4>1. <<root>> \in Seq(Ids) /\ <<>> \in Seq(Ids)
        BY <1>1
      <4>. QED
        BY <4>1, CallsFacts, Zenon
    <3>. HIDE DEF w, calls
    <3>. QED
      BY <1>1, <3>1
  <2>2. w = [visited |-> {}, found |-> found, calls |-> calls]
    BY DEF CollectStart
  <2>. HIDE DEF w, calls
  <2>. QED
    BY <2>1, <2>2 DEF Walks, ToCall
<1>3. root \in Roles!Ancestors(parents, {root})
  BY AncestorsClosed DEF Roles!TypeOK, IsGraph
<1>. HIDE DEF w
<1>4. CollectInv(listed, root, found, w)
  BY <1>2, <1>3 DEF CollectInv, Leads
<1>. QED
  BY <1>2, <1>4 DEF w

(* The chain of a role that is visited for the first time.                  *)
LEMMA ChainGrows ==
  ASSUME Roles!TypeOK, NEW root \in Ids, NEW path \in Seq(Ids), NEW id \in Ids, NEW visited,
         Leads(root, path, id, visited), id \notin visited, id \in DOMAIN parents
  PROVE  LET here == Append(path, id) IN
         /\ here \in Seq(Ids) /\ here # <<>> /\ Head(here) = root /\ Roles!IsInjective(here)
         /\ Roles!ToSet(here) \subseteq visited \cup {id}
         /\ \A i \in 1..(Len(here) - 1) : Roles!Contains(parents[here[i]], here[i + 1])
         /\ Roles!Last(here) = id
<1>. DEFINE here == Append(path, id)
<1>1. /\ here \in Seq(Ids) /\ Len(here) = Len(path) + 1 /\ Len(path) \in Nat
      /\ \A i \in 1..Len(path) : here[i] = path[i]
      /\ here[Len(path) + 1] = id
  OBVIOUS
<1>. HIDE DEF here
<1>2. DOMAIN here = 1..(Len(path) + 1) /\ DOMAIN path = 1..Len(path) /\ here # <<>>
  BY <1>1
<1>3. Roles!Last(here) = id
  BY <1>1 DEF Roles!Last
<1>4. Head(here) = here[1]
  BY <1>1, <1>2
<1>5. CASE path = <<>>
  <2>1. Len(path) = 0 /\ id = root
    BY <1>5 DEF Leads
  <2>2. DOMAIN here = {1} /\ here[1] = id
    BY <1>1, <1>2, <2>1
  <2>3. Roles!IsInjective(here) /\ Roles!ToSet(here) \subseteq visited \cup {id}
    BY <2>2 DEF Roles!IsInjective, Roles!ToSet
  <2>4. \A i \in 1..(Len(here) - 1) : FALSE
    BY <1>1, <2>1
  <2>. QED
    BY <1>1, <1>2, <1>3, <1>4, <2>1, <2>2, <2>3, <2>4 DEF here
<1>6. CASE path # <<>>
  <2>1. /\ Head(path) = root /\ Roles!IsInjective(path) /\ Roles!ToSet(path) \subseteq visited
        /\ \A i \in 1..(Len(path) - 1) : Roles!Contains(parents[path[i]], path[i + 1])
        /\ Roles!Contains(parents[Roles!Last(path)], id)
    BY <1>6 DEF Leads
  <2>2. Len(path) \in Nat \ {0} /\ Head(path) = path[1]
    BY <1>6
  <2>3. Head(here) = root
    BY <1>1, <1>4, <2>1, <2>2
  <2>4. \A i \in 1..Len(path) : path[i] \in visited /\ path[i] # id
    BY <1>2, <2>1 DEF Roles!ToSet
  <2>5. Roles!IsInjective(here)
    <3>1. \A i, j \in 1..Len(path) : path[i] = path[j] => i = j
      BY <1>2, <2>1 DEF Roles!IsInjective
    <3>2. \A i \in 1..(Len(path) + 1) : i \in 1..Len(path) \/ i = Len(path) + 1
      BY <1>1
    <3>. QED
      BY <1>1, <1>2, <2>4, <3>1, <3>2 DEF Roles!IsInjective
  <2>6. Roles!ToSet(here) \subseteq visited \cup {id}
    <3>1. \A i \in 1..(Len(path) + 1) : i \in 1..Len(path) \/ i = Len(path) + 1
      BY <1>1
    <3>. QED
      BY <1>1, <1>2, <2>4, <3>1 DEF Roles!ToSet
  <2>7. ASSUME NEW i \in 1..(Len(here) - 1)
        PROVE  Roles!Contains(parents[here[i]], here[i + 1])
    <3>1. CASE i = Len(path)
      BY <1>1, <2>1, <2>2, <3>1 DEF Roles!Last
    <3>2. CASE i # Len(path)
      <4>1. i \in 1..(Len(path) - 1) /\ i \in 1..Len(path) /\ i + 1 \in 1..Len(path)
        BY <1>1, <3>2
      <4>. QED
        BY <1>1, <2>1, <4>1
    <3>. QED
      BY <3>1, <3>2
  <2>. QED
    BY <1>1, <1>2, <1>3, <2>3, <2>5, <2>6, <2>7 DEF here
<1>. QED
  BY <1>5, <1>6

(* A role less that is not visited is room for as many calls as it has      *)
(* parents, or one more.                                                    *)
LEMMA OneLess ==
  ASSUME NEW V \in SUBSET Ids, NEW id \in Ids \ V, NEW b \in Nat
  PROVE  /\ Cardinality(Ids \ V) \in Nat /\ Cardinality(Ids \ (V \cup {id})) \in Nat
         /\ Cardinality(Ids \ V) * b = Cardinality(Ids \ (V \cup {id})) * b + b
<1>. DEFINE c == Cardinality(Ids \ V)
            d == Cardinality(Ids \ (V \cup {id}))
<1>1. Ids \ V \in SUBSET Ids /\ Ids \ (V \cup {id}) = (Ids \ V) \ {id} /\ id \in Ids \ V
  OBVIOUS
<1>2. c \in Nat /\ d \in Nat /\ d = c - 1
  <2>1. IsFiniteSet(Ids \ V)
    BY <1>1, RoleBounds, FS_Subset
  <2>2. IsFiniteSet((Ids \ V) \ {id}) /\ Cardinality((Ids \ V) \ {id}) = Cardinality(Ids \ V) - 1
    BY <1>1, <2>1, FS_RemoveElement
  <2>3. Cardinality(Ids \ V) \in Nat /\ Cardinality((Ids \ V) \ {id}) \in Nat
    BY <2>1, <2>2, FS_CardinalityType
  <2>. QED
    BY <1>1, <2>2, <2>3
<1>. HIDE DEF c, d
<1>3. c = d + 1
  BY <1>2
<1>4. (d + 1) * b = d * b + b
  BY <1>2
<1>. QED
  BY <1>2, <1>3, <1>4 DEF c, d

Rank(w) == Cardinality(Ids \ w.visited) * MaxParents + Len(w.calls)

LEMMA RankType ==
  ASSUME NEW w \in Walks PROVE Rank(w) \in Nat /\ (w.calls # <<>> => Rank(w) > 0)
<1>1. Cardinality(Ids \ w.visited) \in Nat
  BY RoleBounds, FS_Subset, FS_CardinalityType
<1>2. w.calls \in Seq(CallRecord) /\ Len(w.calls) \in Nat /\ (w.calls # <<>> => Len(w.calls) > 0)
  BY DEF Walks
<1>. DEFINE room == Cardinality(Ids \ w.visited) * MaxParents
<1>3. room \in Nat
  BY <1>1, RoleBounds
<1>4. Rank(w) = room + Len(w.calls)
  BY DEF Rank
<1>. HIDE DEF room
<1>. QED
  BY <1>2, <1>3, <1>4

(* A step of the walk makes one call, and keeps what it has found exact.    *)
LEMMA CollectStep ==
  ASSUME Roles!TypeOK, NEW listed \in [Ids -> SUBSET Perms], NEW root \in Ids, NEW found \in FoundMaps,
         NEW w, CollectInv(listed, root, found, w), w.calls # <<>>
  PROVE  /\ CollectInv(listed, root, found, Roles!CollectNext(listed, w))
         /\ Rank(Roles!CollectNext(listed, w)) < Rank(w)
<1>. DEFINE call == Head(w.calls)
            rest == Tail(w.calls)
            here == Append(call.path, call.id)
            up == Roles!Ancestors(parents, {root})
            v == Roles!CollectNext(listed, w)
<1>1. /\ w \in Walks /\ w.visited \subseteq Ids /\ w.found \in FoundMaps /\ w.calls \in Seq(CallRecord)
      /\ w.visited \cup ToCall(w) \subseteq up /\ root \in w.visited \cup ToCall(w)
  BY DEF CollectInv, Walks
<1>2. /\ call \in CallRecord /\ rest \in Seq(CallRecord) /\ Len(rest) = Len(w.calls) - 1
      /\ Len(w.calls) \in Nat \ {0}
      /\ Roles!ToSet(w.calls) = {call} \cup Roles!ToSet(rest)
  BY <1>1, HeadAndTail
<1>3. call.id \in Ids /\ call.path \in Seq(Ids) /\ Leads(root, call.path, call.id, w.visited)
  BY <1>2 DEF CallRecord, CollectInv
<1>4. ToCall(w) = {call.id} \cup {c.id : c \in Roles!ToSet(rest)}
  BY <1>2 DEF ToCall
<1>5. IsGraph(parents)
  BY DEF Roles!TypeOK, IsGraph
<1>6. Len(rest) \in Nat /\ Cardinality(Ids \ w.visited) \in Nat /\ MaxParents \in Nat
  BY <1>1, <1>2, RoleBounds, FS_Subset, FS_CardinalityType
<1>. HIDE DEF call, rest, up
<1>7. CASE call.id \in w.visited
  <2>1. v = [w EXCEPT !.calls = rest]
    BY <1>7 DEF Roles!CollectNext, call, rest
  <2>2. v \in Walks /\ v.visited = w.visited /\ v.found = w.found /\ v.calls = rest
    BY <1>1, <1>2, <2>1 DEF Walks
  <2>. HIDE DEF v
  <2>3. w.visited \cup ToCall(v) = w.visited \cup ToCall(w)
    BY <1>4, <1>7, <2>2 DEF ToCall
  <2>4. CollectInv(listed, root, found, v)
    BY <1>2, <2>2, <2>3 DEF CollectInv
  <2>5. Rank(v) < Rank(w)
    <3>1. \A n \in Nat : n * MaxParents \in Nat
      BY <1>6
    <3>. QED
      BY <1>2, <1>6, <2>2, <3>1 DEF Rank
  <2>. QED
    BY <2>4, <2>5 DEF v
<1>8. CASE call.id \notin w.visited /\ call.id \notin DOMAIN parents
  <2>1. v = [w EXCEPT !.visited = @ \cup {call.id}, !.calls = rest]
    BY <1>8 DEF Roles!CollectNext, call, rest
  <2>2. v \in Walks /\ v.visited = w.visited \cup {call.id} /\ v.found = w.found /\ v.calls = rest
    BY <1>1, <1>2, <1>3, <2>1 DEF Walks
  <2>. HIDE DEF v
  <2>3. v.visited \cup ToCall(v) = w.visited \cup ToCall(w)
    BY <1>4, <2>2 DEF ToCall
  <2>4. v.visited \cap DOMAIN parents = w.visited \cap DOMAIN parents
    BY <1>8, <2>2
  <2>5. ASSUME NEW c \in Roles!ToSet(v.calls) PROVE Leads(root, c.path, c.id, v.visited)
    <3>1. Leads(root, c.path, c.id, w.visited)
      BY <1>2, <2>2, <2>5 DEF CollectInv
    <3>. QED
      BY <2>2, <3>1 DEF Leads
  <2>6. CollectInv(listed, root, found, v)
    BY <2>2, <2>3, <2>4, <2>5 DEF CollectInv
  <2>7. Rank(v) < Rank(w)
    <3>1. /\ Cardinality(Ids \ v.visited) \in Nat
          /\ Cardinality(Ids \ w.visited) * MaxParents = Cardinality(Ids \ v.visited) * MaxParents + MaxParents
      <4>1. w.visited \in SUBSET Ids /\ call.id \in Ids \ w.visited /\ MaxParents \in Nat
        BY <1>1, <1>3, <1>6, <1>8
      <4>2. /\ Cardinality(Ids \ (w.visited \cup {call.id})) \in Nat
            /\ Cardinality(Ids \ w.visited) * MaxParents
               = Cardinality(Ids \ (w.visited \cup {call.id})) * MaxParents + MaxParents
        BY <4>1, OneLess
      <4>3. v.visited = w.visited \cup {call.id}
        BY <2>2
      <4>. QED
        BY <4>2, <4>3
    <3>2. \A n \in Nat : n * MaxParents \in Nat
      BY <1>6
    <3>. QED
      BY <1>2, <1>6, <2>2, <3>1, <3>2 DEF Rank
  <2>. QED
    BY <2>6, <2>7 DEF v
<1>9. CASE call.id \notin w.visited /\ call.id \in DOMAIN parents
  <2>. DEFINE made == Roles!Calls(parents[call.id], here)
              grown == Roles!AddFirst(w.found, listed[call.id], here)
  <2>1. /\ here \in Seq(Ids) /\ here # <<>> /\ Head(here) = root /\ Roles!IsInjective(here)
        /\ Roles!ToSet(here) \subseteq w.visited \cup {call.id}
        /\ \A i \in 1..(Len(here) - 1) : Roles!Contains(parents[here[i]], here[i + 1])
        /\ Roles!Last(here) = call.id
    <3>1. Leads(root, call.path, call.id, w.visited) /\ call.id \in Ids /\ call.path \in Seq(Ids)
      BY <1>3
    <3>. HIDE DEF v
    <3>2. LET there == Append(call.path, call.id) IN
          /\ there \in Seq(Ids) /\ there # <<>> /\ Head(there) = root /\ Roles!IsInjective(there)
          /\ Roles!ToSet(there) \subseteq w.visited \cup {call.id}
          /\ \A i \in 1..(Len(there) - 1) : Roles!Contains(parents[there[i]], there[i + 1])
          /\ Roles!Last(there) = call.id
      BY <1>9, <3>1, ChainGrows
    <3>. QED
      BY <3>2
  <2>2. /\ parents[call.id] \in Seq(Ids) /\ Len(parents[call.id]) \in 0..MaxParents
        /\ \A id : Roles!Contains(parents[call.id], id) <=> id \in Roles!ToSet(parents[call.id])
    BY <1>5, <1>9, ListFacts DEF IsGraph
  <2>3. v = [visited |-> w.visited \cup {call.id}, found |-> grown, calls |-> made \o rest]
    BY <1>9 DEF Roles!CollectNext, Roles!PathTo, call, rest
  <2>. HIDE DEF v, here
  <2>4. /\ made \in Seq(CallRecord) /\ Len(made) = Len(parents[call.id])
        /\ \A c \in Roles!ToSet(made) : c.path = here /\ c.id \in Roles!ToSet(parents[call.id])
        /\ {c.id : c \in Roles!ToSet(made)} = Roles!ToSet(parents[call.id])
    BY <2>1, <2>2, CallsFacts
  <2>. HIDE DEF made
  <2>5. /\ made \o rest \in Seq(CallRecord) /\ Len(made \o rest) = Len(made) + Len(rest)
        /\ Roles!ToSet(made \o rest) = Roles!ToSet(made) \cup Roles!ToSet(rest)
    <3>1. rest \in Seq(CallRecord) /\ made \in Seq(CallRecord)
      BY <1>2, <2>4
    <3>2. made \o rest \in Seq(CallRecord) /\ Len(made \o rest) = Len(made) + Len(rest)
      BY <3>1, ConcatProperties, Zenon
    <3>3. Roles!ToSet(made \o rest) = Roles!ToSet(made) \cup Roles!ToSet(rest)
      BY <3>1, ConcatMembers, Zenon
    <3>. QED
      BY <3>2, <3>3
  <2>6. PICK P \in SUBSET Perms : w.found \in [P -> Seq(Ids)]
    BY <1>1 DEF FoundMaps
  <2>7. listed[call.id] \in SUBSET Perms
    BY <1>3
  <2>8. /\ DOMAIN w.found = P
        /\ DOMAIN grown = P \cup listed[call.id]
        /\ \A p \in P \cup listed[call.id] : grown[p] = IF p \in P THEN w.found[p] ELSE here
    BY <2>6 DEF Roles!AddFirst
  <2>9. grown \in [P \cup listed[call.id] -> Seq(Ids)]
    <3>1. grown = [p \in P \cup listed[call.id] |-> IF p \in P THEN w.found[p] ELSE here]
      BY <2>6 DEF Roles!AddFirst
    <3>2. \A p \in P \cup listed[call.id] : (IF p \in P THEN w.found[p] ELSE here) \in Seq(Ids)
      BY <2>1, <2>6
    <3>. HIDE DEF grown
    <3>. QED
      BY <3>1, <3>2
  <2>. HIDE DEF grown
  <2>10. grown \in FoundMaps
    BY <2>7, <2>9 DEF FoundMaps
  <2>11. /\ v \in Walks /\ v.visited = w.visited \cup {call.id} /\ v.found = grown
         /\ v.calls = made \o rest
    BY <1>1, <1>3, <2>3, <2>5, <2>10 DEF Walks
  <2>12. ToCall(v) = Roles!ToSet(parents[call.id]) \cup {c.id : c \in Roles!ToSet(rest)}
    BY <2>4, <2>5, <2>11 DEF ToCall
  <2>13. v.visited \cup ToCall(v) = w.visited \cup ToCall(w) \cup Roles!ToSet(parents[call.id])
    BY <1>4, <2>11, <2>12
  <2>14. Roles!ToSet(parents[call.id]) \subseteq up
    <3>1. Roles!Closed(parents, up) /\ call.id \in up
      BY <1>1, <1>4, <1>5, AncestorsClosed DEF up
    <3>. QED
      BY <1>9, <3>1 DEF Roles!Closed
  <2>15. \A r \in v.visited \cap DOMAIN parents : Roles!ToSet(parents[r]) \subseteq v.visited \cup ToCall(v)
    BY <2>11, <2>13 DEF CollectInv
  <2>16. ASSUME NEW c \in Roles!ToSet(v.calls) PROVE Leads(root, c.path, c.id, v.visited)
    <3>1. CASE c \in Roles!ToSet(rest)
      <4>1. Leads(root, c.path, c.id, w.visited)
        BY <1>2, <3>1 DEF CollectInv
      <4>. QED
        BY <2>11, <4>1 DEF Leads
    <3>2. CASE c \in Roles!ToSet(made)
      BY <1>9, <2>1, <2>2, <2>4, <2>11, <3>2 DEF Leads
    <3>. QED
      BY <2>5, <2>11, <2>16, <3>1, <3>2
  <2>17. DOMAIN v.found = DOMAIN found \cup UNION {listed[r] : r \in v.visited \cap DOMAIN parents}
    <3>1. v.visited \cap DOMAIN parents = (w.visited \cap DOMAIN parents) \cup {call.id}
      BY <1>9, <2>11
    <3>2. P = DOMAIN found \cup UNION {listed[r] : r \in w.visited \cap DOMAIN parents}
      BY <2>8 DEF CollectInv
    <3>. QED
      BY <2>8, <2>11, <3>1, <3>2
  <2>18. ASSUME NEW p \in DOMAIN v.found
         PROVE  \/ p \in DOMAIN found /\ v.found[p] = found[p]
                \/ Roles!Chain(listed, v.found[p], <<root>>, p)
    <3>1. CASE p \in P
      BY <2>8, <2>11, <3>1 DEF CollectInv
    <3>2. CASE p \notin P
      <4>1. p \in listed[call.id] /\ v.found[p] = here
        BY <2>8, <2>11, <2>18, <3>2
      <4>2. root \in Roles!ToSet(<<root>>)
        BY DEF Roles!ToSet
      <4>3. Roles!Chain(listed, here, <<root>>, p)
        BY <1>9, <2>1, <4>1, <4>2 DEF Roles!Chain
      <4>. QED
        BY <4>1, <4>3
    <3>. QED
      BY <3>1, <3>2
  <2>19. CollectInv(listed, root, found, v)
    <3>1. v.visited \cup ToCall(v) \subseteq up /\ root \in v.visited \cup ToCall(v)
      BY <1>1, <2>13, <2>14
    <3>. QED
      BY <2>11, <2>15, <2>16, <2>17, <2>18, <3>1 DEF CollectInv, up
  <2>20. Rank(v) < Rank(w)
    <3>1. /\ Cardinality(Ids \ v.visited) \in Nat
          /\ Cardinality(Ids \ w.visited) * MaxParents = Cardinality(Ids \ v.visited) * MaxParents + MaxParents
      <4>1. w.visited \in SUBSET Ids /\ call.id \in Ids \ w.visited /\ MaxParents \in Nat
        BY <1>1, <1>3, <1>6, <1>9
      <4>2. /\ Cardinality(Ids \ (w.visited \cup {call.id})) \in Nat
            /\ Cardinality(Ids \ w.visited) * MaxParents
               = Cardinality(Ids \ (w.visited \cup {call.id})) * MaxParents + MaxParents
        BY <4>1, OneLess
      <4>3. v.visited = w.visited \cup {call.id}
        BY <2>11
      <4>. QED
        BY <4>2, <4>3
    <3>2. \A n \in Nat : n * MaxParents \in Nat
      BY <1>6
    <3>3. Len(v.calls) <= MaxParents + Len(rest) /\ Len(v.calls) \in Nat
      BY <1>6, <2>2, <2>4, <2>5, <2>11
    <3>. QED
      BY <1>2, <1>6, <3>1, <3>2, <3>3 DEF Rank
  <2>. QED
    BY <2>19, <2>20 DEF v
<1>. QED
  BY <1>7, <1>8, <1>9

(* A walk without calls left has visited all ancestors of its root.         *)
LEMMA CollectDone ==
  ASSUME Roles!TypeOK, NEW listed, NEW root \in Ids, NEW found,
         NEW w, CollectInv(listed, root, found, w), w.calls = <<>>
  PROVE  w.visited = Roles!Ancestors(parents, {root})
<1>1. ToCall(w) = {}
  BY NoMembers DEF ToCall
<1>2. /\ w.visited \in SUBSET Ids /\ {root} \subseteq w.visited
      /\ w.visited \subseteq Roles!Ancestors(parents, {root})
      /\ Roles!Closed(parents, w.visited)
  BY <1>1 DEF CollectInv, Walks, Roles!Closed
<1>. QED
  BY <1>2, AncestorsLeast

(* The size that the resolver means is the size.                            *)
LEMMA SameSize == Roles!Cardinality(Ids) = Cardinality(Ids)
BY DEF Roles!Cardinality, Cardinality

(* What a walk finds: what is listed by the root and its ancestors, beside  *)
(* what had been found.                                                     *)
Finds(listed, root, found, more) ==
  /\ more \in FoundMaps
  /\ DOMAIN more = DOMAIN found
                   \cup UNION {listed[r] : r \in Roles!Ancestors(parents, {root}) \cap DOMAIN parents}
  /\ \A p \in DOMAIN more : \/ p \in DOMAIN found /\ more[p] = found[p]
                            \/ Roles!Chain(listed, more[p], <<root>>, p)

LEMMA CollectExact ==
  ASSUME Roles!TypeOK, NEW listed \in [Ids -> SUBSET Perms], NEW root \in Ids, NEW found \in FoundMaps
  PROVE  Finds(listed, root, found, Roles!Collect(listed, root, found))
<1>. DEFINE K == Cardinality(Ids) * MaxParents + 1
            start == CollectStart(root, found)
            X == {w \in Walks : CollectInv(listed, root, found, w)}
            IsRun(f) == f = [n \in 0..K |->
                               IF n = 0
                               THEN [visited |-> {}, found |-> found, calls |-> Roles!Calls(<<root>>, <<>>)]
                               ELSE Roles!CollectNext(listed, f[n - 1])]
            next == [a \in (1..K) \X X |-> Roles!CollectNext(listed, a[2])]
            walk == CHOOSE f : IsRun(f)
<1>1. K \in Nat
  <2>1. Cardinality(Ids) \in Nat /\ MaxParents \in Nat
    BY RoleBounds, FS_CardinalityType
  <2>. QED
    BY <2>1
<1>2. start \in X /\ Rank(start) = K
  <2>1. CollectInv(listed, root, found, start) /\ Len(start.calls) = 1
    BY CollectStarts
  <2>2. start.visited = {}
    BY DEF CollectStart
  <2>3. Ids \ start.visited = Ids
    BY <2>2
  <2>. HIDE DEF start
  <2>. QED
    BY <2>1, <2>3 DEF CollectInv, Rank
<1>3. ASSUME NEW w \in X
      PROVE  /\ Roles!CollectNext(listed, w) \in X
             /\ w.calls = <<>> => Roles!CollectNext(listed, w) = w
             /\ w.calls # <<>> => Rank(Roles!CollectNext(listed, w)) < Rank(w)
  <2>1. CASE w.calls = <<>>
    <3>1. Roles!CollectNext(listed, w) = w
      BY <2>1 DEF Roles!CollectNext
    <3>. QED
      BY <2>1, <3>1
  <2>2. CASE w.calls # <<>>
    <3>1. /\ CollectInv(listed, root, found, Roles!CollectNext(listed, w))
          /\ Rank(Roles!CollectNext(listed, w)) < Rank(w)
      BY <2>2, CollectStep
    <3>. QED
      BY <2>2, <3>1 DEF CollectInv
  <2>. QED
    BY <2>1, <2>2
<1>4. \E f : IsRun(f)
  <2>1. next \in Steps(K, X)
    BY <1>3 DEF Steps
  <2>. HIDE DEF next, X, start, K
  <2>2. PICK f : Follows(f, K, X, start, next)
    BY <1>1, <1>2, <2>1, RunExists
  <2>3. ASSUME NEW n \in 0..K
        PROVE  f[n] = IF n = 0 THEN start ELSE Roles!CollectNext(listed, f[n - 1])
    <3>1. n # 0 => n - 1 \in 0..K /\ n \in 1..K
      BY <1>1
    <3>. USE <2>2 DEF Follows
    <3>2. n # 0 => <<n, f[n - 1]>> \in (1..K) \X X
      BY <3>1
    <3>3. n # 0 => next[<<n, f[n - 1]>>] = Roles!CollectNext(listed, f[n - 1])
      BY <3>2 DEF next
    <3>. QED
      BY <3>1, <3>3
  <2>4. f = [n \in 0..K |-> IF n = 0 THEN start ELSE Roles!CollectNext(listed, f[n - 1])]
    BY <2>2, <2>3 DEF Follows
  <2>. QED
    BY <2>4 DEF start, CollectStart
<1>5. Roles!Collect(listed, root, found) = walk[K].found
  BY SameSize DEF Roles!Collect
<1>6. walk = [n \in 0..K |-> IF n = 0 THEN start ELSE Roles!CollectNext(listed, walk[n - 1])]
  BY <1>4 DEF CollectStart
<1>. HIDE DEF walk, start, X, K
<1>7. walk[0] = start /\ \A n \in 1..K : walk[n] = Roles!CollectNext(listed, walk[n - 1])
  <2>1. 0 \in 0..K /\ \A n \in 1..K : n \in 0..K /\ n # 0
    BY <1>1
  <2>. QED
    BY <1>6, <2>1
<1>. DEFINE good == {n \in Nat : walk[n] \in X /\ (walk[n].calls = <<>> \/ Rank(walk[n]) + n <= K)}
<1>8. 0 \in good
  BY <1>1, <1>2, <1>7
<1>9. ASSUME NEW n \in 1..K, n - 1 \in good PROVE n \in good
  <2>1. /\ n \in Nat /\ n - 1 \in Nat /\ walk[n - 1] \in X
        /\ walk[n - 1].calls = <<>> \/ Rank(walk[n - 1]) + (n - 1) <= K
    BY <1>1, <1>9
  <2>. HIDE DEF good
  <2>2. /\ walk[n] \in X
        /\ walk[n - 1].calls = <<>> => walk[n] = walk[n - 1]
        /\ walk[n - 1].calls # <<>> => Rank(walk[n]) < Rank(walk[n - 1])
    BY <1>3, <1>7, <2>1
  <2>3. walk[n - 1] \in Walks /\ walk[n] \in Walks
    BY <2>1, <2>2 DEF X
  <2>4. Rank(walk[n]) \in Nat /\ Rank(walk[n - 1]) \in Nat
    BY <2>3, RankType
  <2>. QED
    BY <1>1, <2>1, <2>2, <2>4 DEF good
<1>10. K \in good
  <2>. HIDE DEF good
  <2>. QED
    BY <1>1, <1>8, <1>9, Reaches
<1>11. CollectInv(listed, root, found, walk[K]) /\ walk[K] \in Walks
  BY <1>10 DEF X
<1>12. walk[K].calls = <<>>
  BY <1>1, <1>10, <1>11, RankType
<1>13. walk[K].visited = Roles!Ancestors(parents, {root})
  BY <1>11, <1>12, CollectDone
<1>. QED
  BY <1>5, <1>11, <1>13 DEF Finds, CollectInv, Walks

(* What the walks from all assigned roles find.                             *)
LEMMA CollectAllExact ==
  ASSUME Roles!TypeOK, NEW listed \in [Ids -> SUBSET Perms], NEW assigned \in Roles!ParentLists
  PROVE  /\ DOMAIN Roles!CollectAll(listed, assigned) = Roles!Listed(listed, assigned)
         /\ \A p \in DOMAIN Roles!CollectAll(listed, assigned) :
              Roles!Chain(listed, Roles!CollectAll(listed, assigned)[p], assigned, p)
<1>. DEFINE K == Len(assigned)
            From(r) == UNION {listed[q] : q \in Roles!Ancestors(parents, {r}) \cap DOMAIN parents}
            IsRun(f) == f = [n \in 0..K |-> IF n = 0 THEN <<>>
                                            ELSE Roles!Collect(listed, assigned[n], f[n - 1])]
            next == [a \in (1..K) \X FoundMaps |-> Roles!Collect(listed, assigned[a[1]], a[2])]
            all == CHOOSE f : IsRun(f)
<1>1. /\ K \in Nat /\ DOMAIN assigned = 1..K /\ \A n \in 1..K : assigned[n] \in Ids
      /\ Roles!ToSet(assigned) \subseteq Ids
  BY ListFacts
<1>2. <<>> \in FoundMaps /\ DOMAIN <<>> = {}
  <2>1. <<>> \in [{} -> Seq(Ids)] /\ DOMAIN <<>> = {}
    OBVIOUS
  <2>. QED
    BY <2>1 DEF FoundMaps
<1>. HIDE DEF K
<1>3. \A n \in 1..K, found \in FoundMaps :
        Finds(listed, assigned[n], found, Roles!Collect(listed, assigned[n], found))
  BY <1>1, CollectExact
<1>4. \E f : IsRun(f)
  <2>1. next \in Steps(K, FoundMaps)
    BY <1>3 DEF Finds, Steps
  <2>. HIDE DEF next
  <2>2. PICK f : Follows(f, K, FoundMaps, <<>>, next)
    BY <1>1, <1>2, <2>1, RunExists
  <2>3. ASSUME NEW n \in 0..K
        PROVE  f[n] = IF n = 0 THEN <<>> ELSE Roles!Collect(listed, assigned[n], f[n - 1])
    <3>1. n # 0 => n - 1 \in 0..K /\ n \in 1..K
      BY <1>1
    <3>. USE <2>2 DEF Follows
    <3>2. n # 0 => <<n, f[n - 1]>> \in (1..K) \X FoundMaps
      BY <3>1
    <3>3. n # 0 => next[<<n, f[n - 1]>>] = Roles!Collect(listed, assigned[n], f[n - 1])
      BY <3>2 DEF next
    <3>. QED
      BY <3>1, <3>3
  <2>4. f = [n \in 0..K |-> IF n = 0 THEN <<>> ELSE Roles!Collect(listed, assigned[n], f[n - 1])]
    BY <2>2, <2>3 DEF Follows
  <2>. QED
    BY <2>4
<1>5. Roles!CollectAll(listed, assigned) = all[K]
  BY DEF Roles!CollectAll, K
<1>6. IsRun(all)
  BY <1>4
<1>. HIDE DEF all
<1>7. all[0] = <<>> /\ \A n \in 1..K : all[n] = Roles!Collect(listed, assigned[n], all[n - 1])
  <2>1. 0 \in 0..K /\ \A n \in 1..K : n \in 0..K /\ n # 0
    BY <1>1
  <2>. QED
    BY <1>6, <2>1
<1>. DEFINE good == {n \in Nat :
              /\ all[n] \in FoundMaps
              /\ DOMAIN all[n] = UNION {From(assigned[i]) : i \in 1..n}
              /\ \A p \in DOMAIN all[n] : Roles!Chain(listed, all[n][p], assigned, p)}
<1>. HIDE DEF From
<1>8. 0 \in good
  BY <1>2, <1>7
<1>9. ASSUME NEW n \in 1..K, n - 1 \in good PROVE n \in good
  <2>1. /\ n \in Nat /\ all[n - 1] \in FoundMaps
        /\ DOMAIN all[n - 1] = UNION {From(assigned[i]) : i \in 1..(n - 1)}
        /\ \A p \in DOMAIN all[n - 1] : Roles!Chain(listed, all[n - 1][p], assigned, p)
    BY <1>1, <1>9
  <2>. HIDE DEF good
  <2>2. Finds(listed, assigned[n], all[n - 1], all[n])
    BY <1>3, <1>7, <2>1
  <2>3. DOMAIN all[n] = DOMAIN all[n - 1] \cup From(assigned[n]) /\ all[n] \in FoundMaps
    BY <2>2 DEF Finds, From
  <2>4. 1..n = 1..(n - 1) \cup {n}
    BY <2>1
  <2>5. DOMAIN all[n] = UNION {From(assigned[i]) : i \in 1..n}
    BY <2>1, <2>3, <2>4
  <2>6. ASSUME NEW p \in DOMAIN all[n] PROVE Roles!Chain(listed, all[n][p], assigned, p)
    <3>1. CASE p \in DOMAIN all[n - 1] /\ all[n][p] = all[n - 1][p]
      BY <2>1, <3>1
    <3>2. CASE Roles!Chain(listed, all[n][p], <<assigned[n]>>, p)
      <4>1. Roles!ToSet(<<assigned[n]>>) \subseteq Roles!ToSet(assigned)
        BY <1>1 DEF Roles!ToSet
      <4>. QED
        BY <3>2, <4>1 DEF Roles!Chain
    <3>. QED
      BY <2>2, <3>1, <3>2 DEF Finds
  <2>. QED
    BY <2>1, <2>3, <2>5, <2>6 DEF good
<1>10. K \in good
  <2>. HIDE DEF good
  <2>. QED
    BY <1>1, <1>8, <1>9, Reaches
<1>11. UNION {From(assigned[i]) : i \in 1..K} = Roles!Listed(listed, assigned)
  <2>1. Roles!Ancestors(parents, Roles!ToSet(assigned))
        = UNION {Roles!Ancestors(parents, {r}) : r \in Roles!ToSet(assigned)}
    BY <1>1, AncestorsOfMembers DEF Roles!TypeOK, IsGraph
  <2>2. Roles!ToSet(assigned) = {assigned[i] : i \in 1..K}
    BY <1>1 DEF Roles!ToSet
  <2>. DEFINE up == Roles!Ancestors(parents, Roles!ToSet(assigned))
              above(r) == Roles!Ancestors(parents, {r})
  <2>3. up = UNION {above(assigned[i]) : i \in 1..K}
    BY <2>1, <2>2
  <2>4. /\ Roles!Listed(listed, assigned) = UNION {listed[q] : q \in up \cap DOMAIN parents}
        /\ \A r : From(r) = UNION {listed[q] : q \in above(r) \cap DOMAIN parents}
    BY DEF From, Roles!Listed
  <2>. HIDE DEF up, above
  <2>5. \A q : q \in up <=> \E i \in 1..K : q \in above(assigned[i])
    BY <2>3
  <2>6. \A p : p \in Roles!Listed(listed, assigned) <=> \E q \in up \cap DOMAIN parents : p \in listed[q]
    BY <2>4
  <2>7. \A r, p : p \in From(r) <=> \E q \in above(r) \cap DOMAIN parents : p \in listed[q]
    BY <2>4
  <2>8. \A p : p \in UNION {From(assigned[i]) : i \in 1..K} <=> \E i \in 1..K : p \in From(assigned[i])
    OBVIOUS
  <2>9. \A p : p \in UNION {From(assigned[i]) : i \in 1..K} <=> p \in Roles!Listed(listed, assigned)
    BY <2>5, <2>6, <2>7, <2>8
  <2>. QED
    BY <2>9
<1>. QED
  BY <1>5, <1>10, <1>11

(* The permissions of a user are exactly those an ancestor grants and none  *)
(* denies (role-resolver.ts, resolveRolePermissions).                       *)
LEMMA ResolveExact ==
  ASSUME Roles!TypeOK, NEW assigned \in Roles!ParentLists
  PROVE  LET perms == Roles!resolveRolePermissions(assigned) IN
         /\ DOMAIN perms = Roles!Listed(Grants, assigned) \ Roles!Listed(Denies, assigned)
         /\ \A p \in DOMAIN perms : Roles!Chain(Grants, perms[p], assigned, p)
<1>. DEFINE grants == Roles!CollectAll(Grants, assigned)
            denied == DOMAIN Roles!CollectAll(Denies, assigned)
            perms == Roles!resolveRolePermissions(assigned)
<1>1. /\ DOMAIN grants = Roles!Listed(Grants, assigned) /\ denied = Roles!Listed(Denies, assigned)
      /\ \A p \in DOMAIN grants : Roles!Chain(Grants, grants[p], assigned, p)
  BY RoleBounds, CollectAllExact
<1>2. perms = [p \in DOMAIN grants \ denied |-> grants[p]]
  BY DEF Roles!resolveRolePermissions
<1>. HIDE DEF grants, denied, perms
<1>. QED
  BY <1>1, <1>2 DEF perms

-----------------------------------------------------------------------------
(* The walk of detectRoleCycle.                                             *)

VisitRecord == [id : Ids, returns : BOOLEAN]
VisitWalks == [grey : SUBSET Ids, black : SUBSET Ids, cycle : BOOLEAN, calls : Seq(VisitRecord)]
Above(graph, r) == Roles!Ancestors(graph, Roles!ToSet(Roles!ParentsOf(graph, r)))

\* The calls of the walk with the return of the candidate's own visit behind
\* them.  Grey are the roles whose return is to come.  What a role waits for
\* before it returns comes earlier, and all that comes earlier is above it.
StackInv(graph, grey, black, s) ==
  /\ grey \cap black = {}
  /\ \A r : r \in grey <=> \E i \in 1..Len(s) : s[i].returns /\ s[i].id = r
  /\ \A i, j \in 1..Len(s) : s[i].returns /\ s[j].returns /\ s[i].id = s[j].id => i = j
  /\ \A r \in black : /\ Roles!ToSet(Roles!ParentsOf(graph, r)) \subseteq black
                      /\ ~Roles!OnCycle(graph, r)
  /\ \A j \in 1..Len(s) : s[j].returns =>
       \A r \in Roles!ToSet(Roles!ParentsOf(graph, s[j].id)) :
         r \in black \/ \E i \in 1..(j - 1) : s[i].id = r
  /\ \A j \in 1..Len(s) : s[j].returns =>
       \A i \in 1..(j - 1) : s[i].id \in Above(graph, s[j].id)

(* The list of a role's parents, empty for one that is not in the map.      *)
LEMMA ParentsFacts ==
  ASSUME NEW graph, IsGraph(graph), NEW r \in Ids
  PROVE  /\ Roles!ParentsOf(graph, r) \in Seq(Ids)
         /\ Len(Roles!ParentsOf(graph, r)) \in 0..MaxParents
         /\ Roles!ToSet(Roles!ParentsOf(graph, r)) \subseteq Ids
         /\ DOMAIN Roles!ParentsOf(graph, r) = 1..Len(Roles!ParentsOf(graph, r))
<1>1. CASE r \in DOMAIN graph
  <2>1. Roles!ParentsOf(graph, r) = graph[r] /\ graph[r] \in Roles!ParentLists
    BY <1>1 DEF Roles!ParentsOf, IsGraph
  <2>. QED
    BY <2>1, ListFacts
<1>2. CASE r \notin DOMAIN graph
  <2>1. Roles!ParentsOf(graph, r) = <<>>
    BY <1>2 DEF Roles!ParentsOf
  <2>2. <<>> \in Seq(Ids) /\ Len(<<>>) = 0 /\ 0 \in 0..MaxParents /\ DOMAIN <<>> = 1..0
    BY RoleBounds
  <2>. QED
    BY <2>1, <2>2, NoMembers
<1>. QED
  BY <1>1, <1>2

(* What is above a role: its parents and all that is above them.            *)
LEMMA AboveFacts ==
  ASSUME NEW graph, IsGraph(graph), NEW r \in Ids
  PROVE  /\ Above(graph, r) \subseteq Ids
         /\ Roles!ToSet(Roles!ParentsOf(graph, r)) \subseteq Above(graph, r)
         /\ \A q \in Above(graph, r) : Roles!ToSet(Roles!ParentsOf(graph, q)) \subseteq Above(graph, r)
         /\ Above(graph, r) \subseteq Roles!Ancestors(graph, {r})
         /\ Roles!OnCycle(graph, r) <=> r \in Above(graph, r)
<1>1. Roles!ToSet(Roles!ParentsOf(graph, r)) \subseteq Ids
  BY ParentsFacts
<1>2. /\ Above(graph, r) \subseteq Ids
      /\ Roles!ToSet(Roles!ParentsOf(graph, r)) \subseteq Above(graph, r)
      /\ Roles!Closed(graph, Above(graph, r))
  BY <1>1, AncestorsClosed DEF Above
<1>3. ASSUME NEW q \in Above(graph, r)
      PROVE  Roles!ToSet(Roles!ParentsOf(graph, q)) \subseteq Above(graph, r)
  BY <1>2, NoMembers DEF Roles!Closed, Roles!ParentsOf
<1>4. Above(graph, r) \subseteq Roles!Ancestors(graph, {r})
  <2>1. /\ Roles!Closed(graph, Roles!Ancestors(graph, {r})) /\ r \in Roles!Ancestors(graph, {r})
        /\ Roles!Ancestors(graph, {r}) \subseteq Ids
    BY AncestorsClosed
  <2>2. Roles!ToSet(Roles!ParentsOf(graph, r)) \subseteq Roles!Ancestors(graph, {r})
    BY <2>1, NoMembers DEF Roles!Closed, Roles!ParentsOf
  <2>. QED
    BY <2>1, <2>2, AncestorsLeast DEF Above
<1>5. Roles!OnCycle(graph, r) <=> r \in Above(graph, r)
  BY DEF Roles!OnCycle, Above
<1>. QED
  BY <1>2, <1>3, <1>4, <1>5

(* A set that has the parents of its members has all that is above them.    *)
LEMMA AboveLeast ==
  ASSUME NEW graph, NEW r, NEW C \in SUBSET Ids,
         Roles!ToSet(Roles!ParentsOf(graph, r)) \subseteq C,
         \A q \in C : Roles!ToSet(Roles!ParentsOf(graph, q)) \subseteq C
  PROVE  Above(graph, r) \subseteq C
<1>1. Roles!Closed(graph, C)
  BY DEF Roles!Closed, Roles!ParentsOf
<1>. QED
  BY <1>1, AncestorsLeast DEF Above

(* A role that returns is black: no cycle goes through it.                  *)
LEMMA StackReturn ==
  ASSUME NEW graph, IsGraph(graph), NEW grey \in SUBSET Ids, NEW black \in SUBSET Ids,
         NEW s \in Seq(VisitRecord), s # <<>>, s[1].returns, StackInv(graph, grey, black, s)
  PROVE  StackInv(graph, grey \ {s[1].id}, black \cup {s[1].id}, Tail(s))
<1>. DEFINE t == Tail(s)
            id == s[1].id
<1>1. /\ Len(s) \in Nat \ {0} /\ Len(t) = Len(s) - 1 /\ id \in Ids
      /\ \A i \in 1..Len(t) : i + 1 \in 1..Len(s) /\ t[i] = s[i + 1]
      /\ \A i \in 1..Len(s) : i # 1 => i - 1 \in 1..Len(t) /\ t[i - 1] = s[i]
  <2>1. /\ s[1] \in VisitRecord /\ Len(s) \in Nat \ {0} /\ Len(t) = Len(s) - 1
        /\ \A i \in 1..Len(s) - 1 : t[i] = s[i + 1]
    BY HeadAndTail
  <2>. HIDE DEF t
  <2>. QED
    BY <2>1 DEF VisitRecord
<1>. HIDE DEF t
<1>2. Roles!ToSet(Roles!ParentsOf(graph, id)) \subseteq black
  BY <1>1 DEF StackInv
<1>3. id \in grey /\ id \notin black
  BY <1>1 DEF StackInv
<1>4. Above(graph, id) \subseteq black
  BY <1>2, AboveLeast DEF StackInv
<1>5. ~Roles!OnCycle(graph, id)
  BY <1>1, <1>3, <1>4, AboveFacts
<1>. DEFINE g == grey \ {id}
            b == black \cup {id}
<1>6. g \cap b = {}
  BY DEF StackInv
<1>7. ASSUME NEW r PROVE r \in g <=> \E i \in 1..Len(t) : t[i].returns /\ t[i].id = r
  <2>1. ASSUME NEW i \in 1..Len(t), t[i].returns PROVE t[i].id \in g
    <3>1. s[i + 1].returns /\ i + 1 \in 1..Len(s) /\ 1 \in 1..Len(s) /\ i + 1 # 1
      BY <1>1, <2>1
    <3>2. s[i + 1].id # id
      BY <3>1 DEF StackInv
    <3>. QED
      BY <1>1, <2>1, <3>1, <3>2 DEF StackInv
  <2>2. ASSUME r \in g PROVE \E i \in 1..Len(t) : t[i].returns /\ t[i].id = r
    <3>1. PICK i \in 1..Len(s) : s[i].returns /\ s[i].id = r
      BY <2>2 DEF StackInv
    <3>2. i # 1
      BY <2>2, <3>1
    <3>. QED
      BY <1>1, <3>1, <3>2
  <2>. QED
    BY <2>1, <2>2
<1>8. \A i, j \in 1..Len(t) : t[i].returns /\ t[j].returns /\ t[i].id = t[j].id => i = j
  <2>1. \A i, j \in 1..Len(s) : s[i].returns /\ s[j].returns /\ s[i].id = s[j].id => i = j
    BY DEF StackInv
  <2>2. \A i, j \in 1..Len(t) : i + 1 = j + 1 => i = j
    BY <1>1
  <2>. QED
    BY <1>1, <2>1, <2>2
<1>9. \A r \in b : Roles!ToSet(Roles!ParentsOf(graph, r)) \subseteq b /\ ~Roles!OnCycle(graph, r)
  BY <1>2, <1>5 DEF StackInv
<1>10. ASSUME NEW j \in 1..Len(t), t[j].returns,
              NEW r \in Roles!ToSet(Roles!ParentsOf(graph, t[j].id))
       PROVE  r \in b \/ \E i \in 1..(j - 1) : t[i].id = r
  <2>1. j + 1 \in 1..Len(s) /\ s[j + 1] = t[j]
    BY <1>1
  <2>2. r \in black \/ \E i \in 1..((j + 1) - 1) : s[i].id = r
    BY <1>10, <2>1 DEF StackInv
  <2>3. ASSUME NEW i \in 1..((j + 1) - 1), s[i].id = r, i # 1
        PROVE  i - 1 \in 1..(j - 1) /\ t[i - 1].id = r
    <3>1. i \in 1..Len(s) /\ i - 1 \in 1..(j - 1)
      BY <1>1, <2>3
    <3>. QED
      BY <1>1, <2>3, <3>1
  <2>. QED
    BY <2>2, <2>3
<1>11. ASSUME NEW j \in 1..Len(t), t[j].returns, NEW i \in 1..(j - 1)
       PROVE  t[i].id \in Above(graph, t[j].id)
  <2>1. i + 1 \in 1..((j + 1) - 1) /\ i \in 1..Len(t) /\ j + 1 \in 1..Len(s)
    BY <1>1, <1>11
  <2>. QED
    BY <1>1, <1>11, <2>1 DEF StackInv
<1>. QED
  BY <1>6, <1>7, <1>8, <1>9, <1>10, <1>11 DEF StackInv, t

(* A call for a black role may be dropped.                                  *)
LEMMA StackSkip ==
  ASSUME NEW graph, NEW grey, NEW black, NEW s \in Seq(VisitRecord), s # <<>>,
         ~s[1].returns, s[1].id \in black, StackInv(graph, grey, black, s)
  PROVE  StackInv(graph, grey, black, Tail(s))
<1>. DEFINE t == Tail(s)
<1>1. /\ Len(s) \in Nat \ {0} /\ Len(t) = Len(s) - 1
      /\ \A i \in 1..Len(t) : i + 1 \in 1..Len(s) /\ t[i] = s[i + 1]
      /\ \A i \in 1..Len(s) : i # 1 => i - 1 \in 1..Len(t) /\ t[i - 1] = s[i]
  <2>1. /\ Len(s) \in Nat \ {0} /\ Len(t) = Len(s) - 1
        /\ \A i \in 1..Len(s) - 1 : t[i] = s[i + 1]
    BY HeadAndTail
  <2>. HIDE DEF t
  <2>. QED
    BY <2>1
<1>. HIDE DEF t
<1>2. ASSUME NEW r PROVE r \in grey <=> \E i \in 1..Len(t) : t[i].returns /\ t[i].id = r
  <2>1. r \in grey <=> \E i \in 1..Len(s) : s[i].returns /\ s[i].id = r
    BY DEF StackInv
  <2>2. \A i \in 1..Len(s) : s[i].returns => i # 1
    OBVIOUS
  <2>. QED
    BY <1>1, <2>1, <2>2
<1>3. \A i, j \in 1..Len(t) : t[i].returns /\ t[j].returns /\ t[i].id = t[j].id => i = j
  <2>1. \A i, j \in 1..Len(s) : s[i].returns /\ s[j].returns /\ s[i].id = s[j].id => i = j
    BY DEF StackInv
  <2>2. \A i, j \in 1..Len(t) : i + 1 = j + 1 => i = j
    BY <1>1
  <2>. QED
    BY <1>1, <2>1, <2>2
<1>4. ASSUME NEW j \in 1..Len(t), t[j].returns,
             NEW r \in Roles!ToSet(Roles!ParentsOf(graph, t[j].id))
      PROVE  r \in black \/ \E i \in 1..(j - 1) : t[i].id = r
  <2>1. j + 1 \in 1..Len(s) /\ s[j + 1] = t[j]
    BY <1>1
  <2>2. r \in black \/ \E i \in 1..((j + 1) - 1) : s[i].id = r
    BY <1>4, <2>1 DEF StackInv
  <2>3. ASSUME NEW i \in 1..((j + 1) - 1), s[i].id = r, i # 1
        PROVE  i - 1 \in 1..(j - 1) /\ t[i - 1].id = r
    <3>1. i \in 1..Len(s) /\ i - 1 \in 1..(j - 1)
      BY <1>1, <2>3
    <3>. QED
      BY <1>1, <2>3, <3>1
  <2>. QED
    BY <2>2, <2>3
<1>5. ASSUME NEW j \in 1..Len(t), t[j].returns, NEW i \in 1..(j - 1)
      PROVE  t[i].id \in Above(graph, t[j].id)
  <2>1. i + 1 \in 1..((j + 1) - 1) /\ i \in 1..Len(t) /\ j + 1 \in 1..Len(s)
    BY <1>1, <1>5
  <2>. QED
    BY <1>1, <1>5, <2>1 DEF StackInv
<1>. QED
  BY <1>2, <1>3, <1>4, <1>5 DEF StackInv, t

(* The visits that a list makes.                                            *)
LEMMA VisitsFacts ==
  ASSUME NEW list \in Seq(Ids)
  PROVE  /\ Roles!Visits(list) \in Seq(VisitRecord) /\ Len(Roles!Visits(list)) = Len(list)
         /\ \A i \in 1..Len(list) : Roles!Visits(list)[i] = [id |-> list[i], returns |-> FALSE]
<1>. DEFINE s == Roles!Visits(list)
<1>1. DOMAIN list = 1..Len(list) /\ Len(list) \in Nat
  OBVIOUS
<1>2. s = [i \in 1..Len(list) |-> [id |-> list[i], returns |-> FALSE]]
  BY <1>1 DEF Roles!Visits
<1>3. s \in [1..Len(list) -> VisitRecord]
  BY <1>1, <1>2 DEF VisitRecord
<1>4. s \in Seq(VisitRecord) /\ Len(s) = Len(list)
  <2>. HIDE DEF s
  <2>. QED
    BY <1>1, <1>3
<1>. QED
  BY <1>2, <1>4

\* What a visit puts on the stack in its place.
Pushed(graph, id, rest) == Roles!Visits(Roles!ParentsOf(graph, id)) \o <<Roles!Return(id)>> \o rest

Shape(list, id, rest, t) ==
  /\ t \in Seq(VisitRecord) /\ Len(t) = Len(list) + 1 + Len(rest)
  /\ \A i \in 1..Len(list) : t[i] = [id |-> list[i], returns |-> FALSE]
  /\ t[Len(list) + 1] = [id |-> id, returns |-> TRUE]
  /\ \A i \in 1..Len(rest) : t[Len(list) + 1 + i] = rest[i]

LEMMA PushedShape ==
  ASSUME NEW graph, IsGraph(graph), NEW id \in Ids, NEW rest \in Seq(VisitRecord)
  PROVE  Shape(Roles!ParentsOf(graph, id), id, rest, Pushed(graph, id, rest))
<1>. DEFINE list == Roles!ParentsOf(graph, id)
            v == Roles!Visits(list)
            one == <<Roles!Return(id)>>
            u == v \o one
            t == u \o rest
<1>1. v \in Seq(VisitRecord) /\ Len(v) = Len(list) /\ Len(list) \in Nat
      /\ \A i \in 1..Len(list) : v[i] = [id |-> list[i], returns |-> FALSE]
  BY ParentsFacts, VisitsFacts
<1>2. one \in Seq(VisitRecord) /\ Len(one) = 1 /\ one[1] = [id |-> id, returns |-> TRUE]
  BY DEF Roles!Return, VisitRecord
<1>. HIDE DEF list, v, one
<1>3. /\ u \in Seq(VisitRecord) /\ Len(u) = Len(list) + 1
      /\ \A i \in 1..Len(list) : u[i] = v[i]
      /\ u[Len(list) + 1] = one[1]
  <2>1. /\ u \in Seq(VisitRecord) /\ Len(u) = Len(v) + Len(one)
        /\ \A i \in 1..Len(v) + Len(one) : u[i] = IF i <= Len(v) THEN v[i] ELSE one[i - Len(v)]
    BY <1>1, <1>2, ConcatProperties
  <2>. HIDE DEF u
  <2>2. /\ Len(u) = Len(list) + 1
        /\ \A i \in 1..Len(list) + 1 : u[i] = IF i <= Len(list) THEN v[i] ELSE one[i - Len(list)]
    BY <1>1, <1>2, <2>1
  <2>3. /\ Len(list) + 1 \in 1..Len(list) + 1 /\ ~(Len(list) + 1 <= Len(list))
        /\ (Len(list) + 1) - Len(list) = 1
    BY <1>1
  <2>4. \A i \in 1..Len(list) : i \in 1..Len(list) + 1 /\ i <= Len(list)
    BY <1>1
  <2>. QED
    BY <2>1, <2>2, <2>3, <2>4
<1>. HIDE DEF u
<1>4. /\ t \in Seq(VisitRecord) /\ Len(t) = Len(list) + 1 + Len(rest)
      /\ \A i \in 1..(Len(list) + 1) : t[i] = u[i]
      /\ \A i \in 1..Len(rest) : t[Len(list) + 1 + i] = rest[i]
  BY <1>1, <1>3
<1>5. Pushed(graph, id, rest) = t
  BY DEF Pushed, t, u, v, one, list
<1>. HIDE DEF t
<1>6. /\ \A i \in 1..Len(list) : t[i] = [id |-> list[i], returns |-> FALSE]
      /\ t[Len(list) + 1] = [id |-> id, returns |-> TRUE]
  BY <1>1, <1>2, <1>3, <1>4
<1>. QED
  BY <1>4, <1>5, <1>6 DEF list, Shape

(* A visit of a new role turns it grey, and waits for its parents.          *)
LEMMA StackPush ==
  ASSUME NEW graph, IsGraph(graph), NEW grey \in SUBSET Ids, NEW black \in SUBSET Ids,
         NEW s \in Seq(VisitRecord), s # <<>>, ~s[1].returns,
         s[1].id \notin grey, s[1].id \notin black, StackInv(graph, grey, black, s)
  PROVE  StackInv(graph, grey \cup {s[1].id}, black, Pushed(graph, s[1].id, Tail(s)))
<1>. DEFINE id == s[1].id
            rest == Tail(s)
            list == Roles!ParentsOf(graph, id)
            t == Pushed(graph, id, rest)
            n == Len(list)
            g == grey \cup {id}
<1>1. /\ Len(s) \in Nat \ {0} /\ Len(rest) = Len(s) - 1 /\ id \in Ids /\ rest \in Seq(VisitRecord)
      /\ \A i \in 1..Len(s) - 1 : rest[i] = s[i + 1]
  <2>1. s[1] \in VisitRecord
    BY HeadAndTail
  <2>. QED
    BY <2>1, HeadAndTail DEF VisitRecord
<1>2. n \in Nat /\ list \in Seq(Ids) /\ Roles!ToSet(list) = {list[i] : i \in 1..n}
  BY <1>1, ParentsFacts DEF Roles!ToSet
<1>. HIDE DEF id, rest
<1>3. /\ Len(t) = n + 1 + Len(rest)
      /\ \A i \in 1..n : ~t[i].returns /\ t[i].id = list[i]
      /\ t[n + 1].returns /\ t[n + 1].id = id
      /\ \A i \in 1..Len(rest) : t[n + 1 + i] = rest[i]
  <2>1. /\ Len(t) = n + 1 + Len(rest)
        /\ \A i \in 1..n : t[i] = [id |-> list[i], returns |-> FALSE]
        /\ t[n + 1] = [id |-> id, returns |-> TRUE]
        /\ \A i \in 1..Len(rest) : t[n + 1 + i] = rest[i]
    <3>1. Shape(list, id, rest, t)
      BY <1>1, PushedShape
    <3>. QED
      BY <3>1 DEF Shape
  <2>. HIDE DEF t, n, list
  <2>2. ASSUME NEW i \in 1..n PROVE ~t[i].returns /\ t[i].id = list[i]
    <3>1. t[i] = [id |-> list[i], returns |-> FALSE]
      BY <2>1
    <3>. QED
      BY <3>1
  <2>3. t[n + 1].returns /\ t[n + 1].id = id
    BY <2>1
  <2>. QED
    BY <2>1, <2>2, <2>3
<1>4. Roles!ToSet(list) \subseteq Above(graph, id)
  BY <1>1, AboveFacts
<1>5. /\ \A r \in black : Roles!ToSet(Roles!ParentsOf(graph, r)) \subseteq black /\ ~Roles!OnCycle(graph, r)
      /\ grey \cap black = {}
      /\ \A r : r \in grey <=> \E i \in 1..Len(s) : s[i].returns /\ s[i].id = r
      /\ \A i, j \in 1..Len(s) : s[i].returns /\ s[j].returns /\ s[i].id = s[j].id => i = j
  BY DEF StackInv
<1>6. \A j \in 1..Len(s) : s[j].returns =>
        /\ \A r \in Roles!ToSet(Roles!ParentsOf(graph, s[j].id)) :
             r \in black \/ \E i \in 1..(j - 1) : s[i].id = r
        /\ \A i \in 1..(j - 1) : s[i].id \in Above(graph, s[j].id)
  BY DEF StackInv
<1>. HIDE DEF list, t, n
\* Where an element of the new stack comes from, and where one of the old stack goes.
<1>7. Len(t) = n + Len(s) /\ \A i \in 2..Len(s) : i + n \in 1..Len(t) /\ t[i + n] = s[i]
  <2>1. Len(t) = n + Len(s)
    BY <1>1, <1>2, <1>3
  <2>2. ASSUME NEW i \in 2..Len(s) PROVE i + n \in 1..Len(t) /\ t[i + n] = s[i]
    <3>1. i - 1 \in 1..Len(rest) /\ i - 1 \in 1..Len(s) - 1 /\ n + 1 + (i - 1) = i + n /\ (i - 1) + 1 = i
      BY <1>1, <1>2
    <3>2. t[n + 1 + (i - 1)] = rest[i - 1] /\ rest[i - 1] = s[(i - 1) + 1]
      BY <1>1, <1>3, <3>1
    <3>3. t[i + n] = s[i]
      BY <3>1, <3>2
    <3>4. i + n \in 1..Len(t)
      BY <1>1, <1>2, <2>1
    <3>. QED
      BY <3>3, <3>4
  <2>. QED
    BY <2>1, <2>2
<1>7a. Len(t) = n + Len(s) /\ Len(s) \in Nat \ {0} /\ n \in Nat
  BY <1>1, <1>2, <1>7
<1>8. ASSUME NEW j \in 1..Len(t)
      PROVE  \/ j \in 1..n /\ ~t[j].returns /\ t[j].id = list[j]
             \/ j = n + 1 /\ t[j].returns /\ t[j].id = id
             \/ j - n \in 2..Len(s) /\ t[j] = s[j - n]
  <2>1. j \in 1..n \/ j = n + 1 \/ j - n \in 2..Len(s)
    BY <1>7a
  <2>2. j - n \in 2..Len(s) => t[(j - n) + n] = s[j - n]
    BY <1>7
  <2>3. (j - n) + n = j
    BY <1>7a
  <2>. QED
    BY <1>3, <2>1, <2>2, <2>3
<1>9. ASSUME NEW r PROVE r \in g <=> \E i \in 1..Len(t) : t[i].returns /\ t[i].id = r
  <2>1. ASSUME r \in grey PROVE \E i \in 1..Len(t) : t[i].returns /\ t[i].id = r
    <3>1. PICK i \in 1..Len(s) : s[i].returns /\ s[i].id = r
      BY <1>5, <2>1
    <3>2. i \in 2..Len(s)
      BY <1>1, <3>1
    <3>. QED
      BY <1>7, <3>1, <3>2
  <2>2. n + 1 \in 1..Len(t)
    BY <1>1, <1>2, <1>7
  <2>3. ASSUME NEW i \in 1..Len(t), t[i].returns PROVE t[i].id \in g
    <3>1. i - n \in 2..Len(s) => i - n \in 1..Len(s)
      BY <1>1, <1>2
    <3>. QED
      BY <1>5, <1>8, <2>3, <3>1
  <2>. QED
    BY <1>3, <2>1, <2>2, <2>3
<1>10. ASSUME NEW i \in 1..Len(t), NEW j \in 1..Len(t), t[i].returns, t[j].returns, t[i].id = t[j].id
       PROVE  i = j
  <2>1. \A k \in 1..Len(t) : k - n \in 2..Len(s) => k - n \in 1..Len(s)
    BY <1>1, <1>2
  <2>2. \A k \in 1..Len(t) : t[k].returns /\ t[k].id = id => k = n + 1
    <3>1. ASSUME NEW k \in 1..Len(t), t[k].returns, t[k].id = id, k # n + 1 PROVE FALSE
      <4>1. k - n \in 2..Len(s) /\ t[k] = s[k - n]
        BY <1>8, <3>1
      <4>. QED
        BY <1>5, <2>1, <3>1, <4>1 DEF id
    <3>. QED
      BY <3>1
  <2>3. CASE t[i].id = id
    BY <1>10, <2>2, <2>3
  <2>4. CASE t[i].id # id
    <3>1. i - n \in 2..Len(s) /\ t[i] = s[i - n] /\ j - n \in 2..Len(s) /\ t[j] = s[j - n]
      BY <1>8, <1>10, <2>4
    <3>2. i - n = j - n
      BY <1>5, <1>10, <2>1, <3>1
    <3>. QED
      BY <1>2, <3>2
  <2>. QED
    BY <2>3, <2>4
<1>11. ASSUME NEW j \in 1..Len(t), t[j].returns,
              NEW r \in Roles!ToSet(Roles!ParentsOf(graph, t[j].id))
       PROVE  r \in black \/ \E i \in 1..(j - 1) : t[i].id = r
  <2>1. CASE j = n + 1
    <3>1. PICK i \in 1..n : r = list[i]
      BY <1>2, <1>3, <1>11, <2>1 DEF list
    <3>2. i \in 1..(j - 1)
      BY <1>7a, <2>1
    <3>3. t[i].id = r
      BY <1>3, <3>1
    <3>. QED
      BY <3>2, <3>3
  <2>2. CASE j - n \in 2..Len(s) /\ t[j] = s[j - n]
    <3>1. j - n \in 1..Len(s)
      BY <1>1, <1>2, <2>2
    <3>2. r \in black \/ \E i \in 1..((j - n) - 1) : s[i].id = r
      BY <1>6, <1>11, <2>2, <3>1
    <3>3. ASSUME NEW i \in 1..((j - n) - 1), s[i].id = r
          PROVE  \E k \in 1..(j - 1) : t[k].id = r
      <4>1. CASE i = 1
        <5>1. n + 1 \in 1..(j - 1)
          BY <1>1, <1>2, <2>2
        <5>. QED
          BY <1>3, <3>3, <4>1, <5>1 DEF id
      <4>2. CASE i # 1
        <5>1. i \in 2..Len(s) /\ i + n \in 1..(j - 1)
          BY <1>1, <1>2, <2>2, <4>2
        <5>. QED
          BY <1>7, <3>3, <5>1
      <4>. QED
        BY <4>1, <4>2
    <3>. QED
      BY <3>2, <3>3
  <2>. QED
    BY <1>8, <1>11, <2>1, <2>2
<1>12. ASSUME NEW j \in 1..Len(t), t[j].returns, NEW i \in 1..(j - 1)
       PROVE  t[i].id \in Above(graph, t[j].id)
  <2>1. i \in 1..Len(t)
    BY <1>1, <1>2, <1>7
  <2>2. CASE j = n + 1
    <3>1. i \in 1..n
      BY <1>7a, <2>2
    <3>2. list[i] \in Roles!ToSet(list)
      BY <1>2, <3>1
    <3>3. t[i].id = list[i] /\ t[j].id = id
      BY <1>3, <2>2, <3>1
    <3>. QED
      BY <1>4, <3>2, <3>3
  <2>3. CASE j - n \in 2..Len(s) /\ t[j] = s[j - n]
    <3>. DEFINE r == s[j - n].id
    <3>1. /\ j - n \in 1..Len(s) /\ s[j - n].returns /\ 1 \in 1..((j - n) - 1)
          /\ t[j].id = r
      <4>1. j - n \in 1..Len(s) /\ 1 \in 1..((j - n) - 1)
        BY <1>7a, <2>3
      <4>. QED
        BY <1>12, <2>3, <4>1
    <3>2. s[j - n] \in VisitRecord /\ r \in Ids
      <4>1. s[j - n] \in VisitRecord
        BY <3>1, ElementOfSeq
      <4>. QED
        BY <4>1 DEF VisitRecord
    <3>3. id \in Above(graph, r)
      BY <1>6, <3>1 DEF id
    <3>4. Roles!ToSet(list) \subseteq Above(graph, r)
      BY <3>2, <3>3, AboveFacts DEF list
    <3>5. CASE i \in 1..n /\ t[i].id = list[i]
      BY <1>2, <3>1, <3>4, <3>5
    <3>6. CASE i = n + 1
      BY <1>3, <3>1, <3>3, <3>6
    <3>7. CASE i - n \in 2..Len(s) /\ t[i] = s[i - n]
      <4>1. i - n \in 1..((j - n) - 1)
        BY <1>1, <1>2, <3>7
      <4>. QED
        BY <1>6, <3>1, <3>7, <4>1
    <3>. QED
      BY <1>8, <2>1, <3>5, <3>6, <3>7
  <2>. QED
    BY <1>8, <1>12, <2>2, <2>3
<1>13. g \cap black = {}
  BY <1>5 DEF id
<1>14. StackInv(graph, g, black, t)
  <2>. HIDE DEF g
  <2>. QED
    BY <1>5, <1>9, <1>10, <1>11, <1>12, <1>13 DEF StackInv
<1>. QED
  BY <1>14 DEF t, id, rest

Stack(role, calls) == calls \o <<Roles!Return(role)>>

VisitInv(graph, role, w) ==
  /\ w \in VisitWalks
  /\ w.cycle => w.calls = <<>> /\ \E r \in Roles!Ancestors(graph, {role}) : Roles!OnCycle(graph, r)
  /\ ~w.cycle => StackInv(graph, w.grey, w.black, Stack(role, w.calls))

(* The stack ends with the candidate, and starts with the next call.        *)
LEMMA StackShape ==
  ASSUME NEW role \in Ids, NEW calls \in Seq(VisitRecord)
  PROVE  /\ Stack(role, calls) \in Seq(VisitRecord) /\ Len(Stack(role, calls)) = Len(calls) + 1
         /\ Stack(role, calls)[Len(calls) + 1] = [id |-> role, returns |-> TRUE]
         /\ calls # <<>> => /\ Stack(role, calls)[1] = Head(calls)
                            /\ Tail(Stack(role, calls)) = Stack(role, Tail(calls))
<1>. DEFINE one == <<Roles!Return(role)>>
            s == calls \o one
<1>1. one \in Seq(VisitRecord) /\ Len(one) = 1 /\ one[1] = [id |-> role, returns |-> TRUE]
  BY DEF Roles!Return, VisitRecord
<1>. HIDE DEF one
<1>2. Len(calls) \in Nat
  OBVIOUS
<1>3. /\ s \in Seq(VisitRecord) /\ Len(s) = Len(calls) + 1
      /\ \A i \in 1..Len(calls) + 1 : s[i] = IF i <= Len(calls) THEN calls[i] ELSE one[i - Len(calls)]
  <2>1. /\ s \in Seq(VisitRecord) /\ Len(s) = Len(calls) + Len(one)
        /\ \A i \in 1..Len(calls) + Len(one) : s[i] = IF i <= Len(calls) THEN calls[i] ELSE one[i - Len(calls)]
    BY <1>1, ConcatProperties
  <2>. HIDE DEF s
  <2>. QED
    BY <1>1, <2>1
<1>4. s[Len(calls) + 1] = one[1]
  <2>1. /\ Len(calls) + 1 \in 1..Len(calls) + 1 /\ ~(Len(calls) + 1 <= Len(calls))
        /\ (Len(calls) + 1) - Len(calls) = 1
    BY <1>2
  <2>. HIDE DEF s
  <2>. QED
    BY <1>3, <2>1
<1>5. ASSUME calls # <<>>
      PROVE  s[1] = Head(calls) /\ Tail(s) = Tail(calls) \o one
  <2>. DEFINE rest == Tail(calls)
              u == rest \o one
  <2>1. /\ Head(calls) = calls[1] /\ rest \in Seq(VisitRecord) /\ Len(rest) = Len(calls) - 1
        /\ Len(calls) \in Nat \ {0} /\ \A i \in 1..Len(calls) - 1 : rest[i] = calls[i + 1]
    BY <1>5, HeadAndTail
  <2>2. s[1] = Head(calls)
    <3>1. 1 \in 1..Len(calls) + 1 /\ 1 <= Len(calls)
      BY <2>1
    <3>. HIDE DEF s
    <3>. QED
      BY <1>3, <2>1, <3>1
  <2>. HIDE DEF rest
  <2>3. /\ u \in Seq(VisitRecord) /\ Len(u) = Len(calls)
        /\ \A i \in 1..Len(calls) : u[i] = IF i <= Len(rest) THEN rest[i] ELSE one[i - Len(rest)]
    <3>1. /\ u \in Seq(VisitRecord) /\ Len(u) = Len(rest) + Len(one)
          /\ \A i \in 1..Len(rest) + Len(one) : u[i] = IF i <= Len(rest) THEN rest[i] ELSE one[i - Len(rest)]
      BY <1>1, <2>1, ConcatProperties
    <3>2. Len(rest) + Len(one) = Len(calls)
      BY <1>1, <2>1
    <3>. HIDE DEF u
    <3>. QED
      BY <3>1, <3>2
  <2>. HIDE DEF s, u
  <2>4. s # <<>>
    BY <1>2, <1>3
  <2>5. /\ Tail(s) \in Seq(VisitRecord) /\ Len(Tail(s)) = Len(calls)
        /\ \A i \in 1..Len(calls) : Tail(s)[i] = s[i + 1]
    <3>1. /\ Tail(s) \in Seq(VisitRecord) /\ Len(Tail(s)) = Len(s) - 1
          /\ \A i \in 1..Len(s) - 1 : Tail(s)[i] = s[i + 1]
      BY <1>3, <2>4, HeadAndTail
    <3>2. Len(s) - 1 = Len(calls)
      BY <1>2, <1>3
    <3>. QED
      BY <3>1, <3>2
  <2>6. ASSUME NEW i \in 1..Len(calls) PROVE Tail(s)[i] = u[i]
    <3>1. CASE i = Len(calls)
      <4>1. i - Len(rest) = 1 /\ ~(i <= Len(rest)) /\ i + 1 = Len(calls) + 1
        BY <2>1, <3>1
      <4>. QED
        BY <1>4, <2>3, <2>5, <4>1
    <3>2. CASE i # Len(calls)
      <4>1. i \in 1..Len(calls) - 1 /\ i <= Len(rest) /\ i + 1 \in 1..Len(calls) + 1 /\ i + 1 <= Len(calls)
        BY <2>1, <3>2
      <4>. QED
        BY <1>3, <2>1, <2>3, <2>5, <4>1
    <3>. QED
      BY <3>1, <3>2
  <2>7. Tail(s) = u
    BY <2>3, <2>5, <2>6, SeqEqual
  <2>. QED
    BY <2>2, <2>7 DEF u, rest
<1>6. \A c : Stack(role, c) = c \o one
  BY DEF Stack, one
<1>. HIDE DEF s
<1>. QED
  BY <1>1, <1>3, <1>4, <1>5, <1>6 DEF s

VisitRank(w) == Cardinality(Ids \ (w.grey \cup w.black)) * (MaxParents + 1) + Len(w.calls)

LEMMA VisitRankType ==
  ASSUME NEW w \in VisitWalks PROVE VisitRank(w) \in Nat /\ (w.calls # <<>> => VisitRank(w) > 0)
<1>1. Cardinality(Ids \ (w.grey \cup w.black)) \in Nat
  BY RoleBounds, FS_Subset, FS_CardinalityType
<1>2. w.calls \in Seq(VisitRecord) /\ Len(w.calls) \in Nat /\ (w.calls # <<>> => Len(w.calls) > 0)
  BY DEF VisitWalks
<1>. DEFINE room == Cardinality(Ids \ (w.grey \cup w.black)) * (MaxParents + 1)
<1>3. room \in Nat
  BY <1>1, RoleBounds
<1>4. VisitRank(w) = room + Len(w.calls)
  BY DEF VisitRank
<1>. HIDE DEF room
<1>. QED
  BY <1>2, <1>3, <1>4

(* A step of the walk keeps its stack, or finds a role on a cycle.          *)
LEMMA VisitStep ==
  ASSUME NEW graph, IsGraph(graph), NEW role \in Ids,
         NEW w, VisitInv(graph, role, w), w.calls # <<>>
  PROVE  /\ VisitInv(graph, role, Roles!VisitNext(graph, w))
         /\ VisitRank(Roles!VisitNext(graph, w)) < VisitRank(w)
<1>. DEFINE id == Head(w.calls).id
            rest == Tail(w.calls)
            s == Stack(role, w.calls)
            v == Roles!VisitNext(graph, w)
            room(x) == Cardinality(Ids \ (x.grey \cup x.black)) * (MaxParents + 1)
<1>1. /\ w \in VisitWalks /\ w.grey \in SUBSET Ids /\ w.black \in SUBSET Ids /\ w.cycle = FALSE
      /\ w.calls \in Seq(VisitRecord) /\ StackInv(graph, w.grey, w.black, s)
  BY DEF VisitInv, VisitWalks
<1>2. /\ Head(w.calls) \in VisitRecord /\ rest \in Seq(VisitRecord) /\ Len(rest) = Len(w.calls) - 1
      /\ Len(w.calls) \in Nat \ {0} /\ Len(rest) \in Nat
  BY <1>1, HeadAndTail
<1>3. id \in Ids
  BY <1>2 DEF VisitRecord
<1>4. /\ s \in Seq(VisitRecord) /\ s # <<>> /\ s[1] = Head(w.calls) /\ Tail(s) = Stack(role, rest)
      /\ Len(s) = Len(w.calls) + 1 /\ s[Len(s)] = [id |-> role, returns |-> TRUE]
  <2>1. /\ s \in Seq(VisitRecord) /\ s[1] = Head(w.calls) /\ Tail(s) = Stack(role, rest)
        /\ Len(s) = Len(w.calls) + 1 /\ s[Len(w.calls) + 1] = [id |-> role, returns |-> TRUE]
    BY <1>1, StackShape
  <2>. HIDE DEF s
  <2>. QED
    BY <1>2, <2>1
<1>5. \A x \in VisitWalks : room(x) \in Nat /\ VisitRank(x) = room(x) + Len(x.calls)
  <2>1. ASSUME NEW x \in VisitWalks PROVE Cardinality(Ids \ (x.grey \cup x.black)) \in Nat
    BY RoleBounds, FS_Subset, FS_CardinalityType
  <2>2. \A n \in Nat : n * (MaxParents + 1) \in Nat
    BY RoleBounds
  <2>. QED
    BY <2>1, <2>2 DEF VisitRank
<1>. HIDE DEF s, room, rest
<1>6. CASE Head(w.calls).returns
  <2>1. v = [w EXCEPT !.grey = @ \ {id}, !.black = @ \cup {id}, !.calls = rest]
    BY <1>6 DEF Roles!VisitNext, rest
  <2>2. /\ v.grey = w.grey \ {id} /\ v.black = w.black \cup {id} /\ v.cycle = FALSE /\ v.calls = rest
        /\ v \in VisitWalks
    BY <1>1, <1>2, <1>3, <2>1 DEF VisitWalks
  <2>. HIDE DEF v
  <2>3. StackInv(graph, w.grey \ {s[1].id}, w.black \cup {s[1].id}, Tail(s))
    BY <1>1, <1>4, <1>6, StackReturn
  <2>4. VisitInv(graph, role, v)
    BY <1>4, <2>2, <2>3 DEF VisitInv
  <2>5. id \in w.grey
    <3>1. 1 \in 1..Len(s)
      BY <1>2, <1>4
    <3>. QED
      BY <1>1, <1>4, <1>6, <3>1 DEF StackInv
  <2>6. v.grey \cup v.black = w.grey \cup w.black
    BY <2>2, <2>5
  <2>7. room(v) = room(w)
    BY <2>6 DEF room
  <2>8. VisitRank(v) < VisitRank(w)
    BY <1>1, <1>2, <1>5, <2>2, <2>7
  <2>. QED
    BY <2>4, <2>8 DEF v
<1>7. CASE ~Head(w.calls).returns /\ id \in w.grey
  <2>1. v = [w EXCEPT !.cycle = TRUE, !.calls = <<>>]
    BY <1>7 DEF Roles!VisitNext
  <2>2. /\ v.grey = w.grey /\ v.black = w.black /\ v.cycle = TRUE /\ v.calls = <<>>
        /\ v \in VisitWalks
    BY <1>1, <2>1, EmptySeq DEF VisitWalks
  <2>. HIDE DEF v
  <2>3. PICK j \in 1..Len(s) : s[j].returns /\ s[j].id = id
    BY <1>1, <1>7 DEF StackInv
  <2>4. j # 1 /\ 1 \in 1..(j - 1) /\ 1 \in 1..(Len(s) - 1) /\ Len(s) \in 1..Len(s)
    BY <1>2, <1>4, <1>7, <2>3
  <2>5. id \in Above(graph, id)
    BY <1>1, <1>4, <2>3, <2>4 DEF StackInv
  <2>6. id \in Above(graph, role)
    <3>1. s[Len(s)].returns /\ s[Len(s)].id = role
      BY <1>4
    <3>. QED
      BY <1>1, <1>4, <2>4, <3>1 DEF StackInv
  <2>7. Roles!OnCycle(graph, id) /\ id \in Roles!Ancestors(graph, {role})
    BY <1>3, <2>5, <2>6, AboveFacts
  <2>8. VisitInv(graph, role, v)
    BY <2>2, <2>7 DEF VisitInv
  <2>9. room(v) = room(w) /\ Len(v.calls) = 0
    BY <2>2 DEF room
  <2>10. VisitRank(v) < VisitRank(w)
    BY <1>1, <1>2, <1>5, <2>2, <2>9
  <2>. QED
    BY <2>8, <2>10 DEF v
<1>8. CASE ~Head(w.calls).returns /\ id \notin w.grey /\ id \in w.black
  <2>1. v = [w EXCEPT !.calls = rest]
    BY <1>8 DEF Roles!VisitNext, rest
  <2>2. /\ v.grey = w.grey /\ v.black = w.black /\ v.cycle = FALSE /\ v.calls = rest
        /\ v \in VisitWalks
    BY <1>1, <1>2, <2>1 DEF VisitWalks
  <2>. HIDE DEF v
  <2>3. StackInv(graph, w.grey, w.black, Tail(s))
    BY <1>1, <1>4, <1>8, StackSkip
  <2>4. VisitInv(graph, role, v)
    BY <1>4, <2>2, <2>3 DEF VisitInv
  <2>5. room(v) = room(w)
    BY <2>2 DEF room
  <2>6. VisitRank(v) < VisitRank(w)
    BY <1>1, <1>2, <1>5, <2>2, <2>5
  <2>. QED
    BY <2>4, <2>6 DEF v
<1>9. CASE ~Head(w.calls).returns /\ id \notin w.grey /\ id \notin w.black
  <2>. DEFINE made == Pushed(graph, id, rest)
  <2>1. v = [w EXCEPT !.grey = @ \cup {id}, !.calls = made]
    BY <1>9 DEF Roles!VisitNext, Pushed, rest
  <2>2. /\ made \in Seq(VisitRecord)
        /\ Len(made) = Len(Roles!ParentsOf(graph, id)) + 1 + Len(rest)
    <3>1. Shape(Roles!ParentsOf(graph, id), id, rest, made)
      BY <1>2, <1>3, PushedShape
    <3>. HIDE DEF made
    <3>. QED
      BY <3>1 DEF Shape
  <2>. HIDE DEF made
  <2>3. /\ v.grey = w.grey \cup {id} /\ v.black = w.black /\ v.cycle = FALSE /\ v.calls = made
        /\ v \in VisitWalks
    BY <1>1, <1>3, <2>1, <2>2 DEF VisitWalks
  <2>. HIDE DEF v
  <2>4. StackInv(graph, w.grey \cup {id}, w.black, Pushed(graph, id, Tail(s)))
    BY <1>1, <1>4, <1>9, StackPush
  <2>5. Pushed(graph, id, Tail(s)) = Stack(role, made)
    <3>. DEFINE begin == Roles!Visits(Roles!ParentsOf(graph, id)) \o <<Roles!Return(id)>>
                one == <<Roles!Return(role)>>
    <3>1. begin \in Seq(VisitRecord)
      <4>1. Roles!Visits(Roles!ParentsOf(graph, id)) \in Seq(VisitRecord)
        BY <1>3, ParentsFacts, VisitsFacts
      <4>2. <<Roles!Return(id)>> \in Seq(VisitRecord)
        BY <1>3 DEF Roles!Return, VisitRecord
      <4>. QED
        BY <4>1, <4>2
    <3>2. one \in Seq(VisitRecord)
      BY DEF Roles!Return, VisitRecord
    <3>3. made = begin \o rest /\ Stack(role, made) = made \o one
          /\ Pushed(graph, id, Tail(s)) = begin \o (rest \o one)
      BY <1>4 DEF made, Pushed, Stack
    <3>. HIDE DEF begin, one
    <3>4. (begin \o rest) \o one = begin \o (rest \o one)
      BY <1>2, <3>1, <3>2, ConcatAssociative
    <3>. QED
      BY <3>3, <3>4
  <2>6. VisitInv(graph, role, v)
    BY <2>3, <2>4, <2>5 DEF VisitInv
  <2>7. room(w) = room(v) + (MaxParents + 1)
    <3>1. w.grey \cup w.black \in SUBSET Ids /\ id \in Ids \ (w.grey \cup w.black) /\ MaxParents + 1 \in Nat
      BY <1>1, <1>3, <1>9, RoleBounds
    <3>2. Cardinality(Ids \ (w.grey \cup w.black)) * (MaxParents + 1)
          = Cardinality(Ids \ ((w.grey \cup w.black) \cup {id})) * (MaxParents + 1) + (MaxParents + 1)
      BY <3>1, OneLess
    <3>3. v.grey \cup v.black = (w.grey \cup w.black) \cup {id}
      BY <2>3
    <3>. QED
      BY <3>2, <3>3 DEF room
  <2>8. Len(made) <= MaxParents + 1 + Len(rest) /\ Len(made) \in Nat
    <3>. DEFINE n == Len(Roles!ParentsOf(graph, id))
    <3>1. n \in 0..MaxParents /\ MaxParents \in Nat
      BY <1>3, ParentsFacts, RoleBounds
    <3>2. Len(made) = n + 1 + Len(rest)
      BY <2>2
    <3>3. Len(rest) \in Nat
      BY <1>2
    <3>. HIDE DEF n
    <3>. QED
      BY <3>1, <3>2, <3>3
  <2>9. VisitRank(v) < VisitRank(w)
    <3>1. VisitRank(v) = room(v) + Len(made) /\ VisitRank(w) = room(w) + Len(w.calls) /\ room(v) \in Nat
      BY <1>1, <1>5, <2>3
    <3>2. MaxParents \in Nat
      BY RoleBounds
    <3>3. Len(w.calls) = Len(rest) + 1 /\ Len(rest) \in Nat
      BY <1>2
    <3>. QED
      BY <2>7, <2>8, <3>1, <3>2, <3>3
  <2>. QED
    BY <2>6, <2>9 DEF v
<1>. QED
  BY <1>6, <1>7, <1>8, <1>9

VisitStart(graph, role) ==
  [grey |-> {role}, black |-> {}, cycle |-> FALSE, calls |-> Roles!Visits(graph[role])]

(* The walk starts as if the candidate had just been visited.               *)
LEMMA VisitStarts ==
  ASSUME NEW graph, IsGraph(graph), NEW role \in DOMAIN graph
  PROVE  /\ VisitInv(graph, role, VisitStart(graph, role))
         /\ VisitRank(VisitStart(graph, role)) <= Cardinality(Ids) * (MaxParents + 1)
<1>. DEFINE list == graph[role]
            v == Roles!Visits(list)
            w == VisitStart(graph, role)
            first == <<[id |-> role, returns |-> FALSE]>>
            one == <<Roles!Return(role)>>
<1>1. role \in Ids /\ list \in Seq(Ids) /\ Len(list) \in 0..MaxParents /\ Roles!ParentsOf(graph, role) = list
  BY ListFacts DEF IsGraph, Roles!ParentsOf
<1>2. v \in Seq(VisitRecord) /\ Len(v) = Len(list)
  BY <1>1, VisitsFacts
<1>3. w \in VisitWalks
  BY <1>1, <1>2 DEF VisitStart, VisitWalks
<1>4. first \in Seq(VisitRecord) /\ Len(first) = 1 /\ first[1] = [id |-> role, returns |-> FALSE] /\ first # <<>>
  BY <1>1 DEF VisitRecord
<1>. HIDE DEF first, v
<1>5. Tail(first) = <<>>
  <2>1. Tail(first) \in Seq(VisitRecord) /\ Len(Tail(first)) = 0
    BY <1>4, HeadAndTail
  <2>. QED
    BY <2>1, EmptySeq
<1>6. StackInv(graph, {}, {}, first)
  <2>1. \A i \in 1..Len(first) : ~first[i].returns
    BY <1>4
  <2>. QED
    BY <2>1 DEF StackInv
<1>7. StackInv(graph, {role}, {}, Pushed(graph, role, <<>>))
  <2>1. first[1].id = role /\ ~first[1].returns
    BY <1>4
  <2>2. StackInv(graph, {} \cup {first[1].id}, {}, Pushed(graph, first[1].id, Tail(first)))
    BY <1>4, <1>6, <2>1, StackPush
  <2>3. {} \cup {role} = {role}
    OBVIOUS
  <2>. QED
    BY <1>5, <2>1, <2>2, <2>3
<1>8. Pushed(graph, role, <<>>) = Stack(role, v)
  <2>1. one \in Seq(VisitRecord)
    BY <1>1 DEF Roles!Return, VisitRecord
  <2>2. Pushed(graph, role, <<>>) = (v \o one) \o <<>> /\ Stack(role, v) = v \o one
    BY <1>1 DEF Pushed, Stack, v
  <2>. HIDE DEF one
  <2>3. v \o one \in Seq(VisitRecord)
    BY <1>2, <2>1
  <2>. QED
    BY <2>2, <2>3, ConcatEmptySeq
<1>9. VisitInv(graph, role, w)
  BY <1>3, <1>7, <1>8 DEF VisitInv, VisitStart, v
<1>10. VisitRank(w) <= Cardinality(Ids) * (MaxParents + 1)
  <2>. DEFINE c == Cardinality(Ids \ ({} \cup {role})) * (MaxParents + 1)
              d == Cardinality(Ids) * (MaxParents + 1)
  <2>1. MaxParents + 1 \in Nat /\ {} \in SUBSET Ids /\ role \in Ids \ {}
    BY <1>1, RoleBounds
  <2>2. Cardinality(Ids \ {}) * (MaxParents + 1) = c + (MaxParents + 1)
    BY <2>1, OneLess
  <2>3. Ids \ {} = Ids /\ {} \cup {role} = {role} \cup {}
    OBVIOUS
  <2>4. d = c + (MaxParents + 1)
    BY <2>2, <2>3
  <2>5. VisitRank(w) = c + Len(v)
    BY <2>3 DEF VisitRank, VisitStart, v
  <2>6. c \in Nat
    <3>1. Cardinality(Ids \ ({} \cup {role})) \in Nat
      BY <2>1, OneLess
    <3>. QED
      BY <2>1, <3>1
  <2>7. Len(v) \in 0..MaxParents /\ MaxParents \in Nat
    BY <1>1, <1>2, RoleBounds
  <2>. HIDE DEF c, d
  <2>8. VisitRank(w) <= d
    BY <2>4, <2>5, <2>6, <2>7
  <2>. QED
    BY <2>8 DEF d
<1>. QED
  BY <1>9, <1>10

(* A walk that ends without a cycle has left all ancestors behind, on none. *)
LEMMA VisitDone ==
  ASSUME NEW graph, IsGraph(graph), NEW role \in Ids,
         NEW w, VisitInv(graph, role, w), w.calls = <<>>
  PROVE  w.cycle <=> \E r \in Roles!Ancestors(graph, {role}) : Roles!OnCycle(graph, r)
<1>1. CASE w.cycle
  BY <1>1 DEF VisitInv
<1>2. CASE ~w.cycle
  <2>. DEFINE s == Stack(role, w.calls)
  <2>1. StackInv(graph, w.grey, w.black, s) /\ w.black \in SUBSET Ids /\ w.calls \in Seq(VisitRecord)
    BY <1>2 DEF VisitInv, VisitWalks
  <2>2. Len(w.calls) = 0 /\ Len(s) = Len(w.calls) + 1 /\ s[Len(w.calls) + 1] = [id |-> role, returns |-> TRUE]
    BY <2>1, StackShape
  <2>3. Len(s) = 1 /\ s[1].returns /\ s[1].id = role
    BY <2>2
  <2>. HIDE DEF s
  <2>4. 1 \in 1..Len(s) /\ \A i \in 1..(1 - 1) : FALSE
    BY <2>3
  <2>5. role \in w.grey /\ role \notin w.black
    BY <2>1, <2>3, <2>4 DEF StackInv
  <2>6. Roles!ToSet(Roles!ParentsOf(graph, role)) \subseteq w.black
    BY <2>1, <2>3, <2>4 DEF StackInv
  <2>7. \A r \in w.black : /\ Roles!ToSet(Roles!ParentsOf(graph, r)) \subseteq w.black
                           /\ ~Roles!OnCycle(graph, r)
    BY <2>1 DEF StackInv
  <2>8. ~Roles!OnCycle(graph, role)
    BY <2>1, <2>5, <2>6, <2>7, AboveLeast, AboveFacts
  <2>9. Roles!Ancestors(graph, {role}) \subseteq w.black \cup {role}
    <3>1. Roles!Closed(graph, w.black \cup {role})
      BY <2>6, <2>7 DEF Roles!Closed, Roles!ParentsOf
    <3>. QED
      BY <2>1, <3>1, AncestorsLeast
  <2>. QED
    BY <1>2, <2>7, <2>8, <2>9
<1>. QED
  BY <1>1, <1>2

(* detectRoleCycle says whether the role or an ancestor of it is on a cycle.*)
LEMMA DetectExact ==
  ASSUME NEW graph, IsGraph(graph), NEW role \in DOMAIN graph
  PROVE  Roles!detectRoleCycle(graph, role)
         <=> \E r \in Roles!Ancestors(graph, {role}) : Roles!OnCycle(graph, r)
<1>. DEFINE K == Cardinality(Ids) * (MaxParents + 1)
            start == VisitStart(graph, role)
            X == {w \in VisitWalks : VisitInv(graph, role, w)}
            IsRun(f) == f = [n \in 0..K |->
                               IF n = 0
                               THEN [grey |-> {role}, black |-> {}, cycle |-> FALSE,
                                     calls |-> Roles!Visits(graph[role])]
                               ELSE Roles!VisitNext(graph, f[n - 1])]
            next == [a \in (1..K) \X X |-> Roles!VisitNext(graph, a[2])]
            walk == CHOOSE f : IsRun(f)
<1>1. K \in Nat /\ role \in Ids
  <2>1. Cardinality(Ids) \in Nat /\ MaxParents + 1 \in Nat
    BY RoleBounds, FS_CardinalityType
  <2>. QED
    BY <2>1 DEF IsGraph
<1>2. start \in X /\ VisitRank(start) <= K
  BY VisitStarts DEF VisitInv
<1>3. ASSUME NEW w \in X
      PROVE  /\ Roles!VisitNext(graph, w) \in X
             /\ w.calls = <<>> => Roles!VisitNext(graph, w) = w
             /\ w.calls # <<>> => VisitRank(Roles!VisitNext(graph, w)) < VisitRank(w)
  <2>1. CASE w.calls = <<>>
    <3>1. Roles!VisitNext(graph, w) = w
      BY <2>1 DEF Roles!VisitNext
    <3>. QED
      BY <2>1, <3>1
  <2>2. CASE w.calls # <<>>
    <3>1. /\ VisitInv(graph, role, Roles!VisitNext(graph, w))
          /\ VisitRank(Roles!VisitNext(graph, w)) < VisitRank(w)
      BY <1>1, <2>2, VisitStep
    <3>. QED
      BY <2>2, <3>1 DEF VisitInv
  <2>. QED
    BY <2>1, <2>2
<1>4. \E f : IsRun(f)
  <2>1. next \in Steps(K, X)
    BY <1>3 DEF Steps
  <2>. HIDE DEF next, X, start, K
  <2>2. PICK f : Follows(f, K, X, start, next)
    BY <1>1, <1>2, <2>1, RunExists
  <2>3. ASSUME NEW n \in 0..K
        PROVE  f[n] = IF n = 0 THEN start ELSE Roles!VisitNext(graph, f[n - 1])
    <3>1. n # 0 => n - 1 \in 0..K /\ n \in 1..K
      BY <1>1
    <3>. USE <2>2 DEF Follows
    <3>2. n # 0 => <<n, f[n - 1]>> \in (1..K) \X X
      BY <3>1
    <3>3. n # 0 => next[<<n, f[n - 1]>>] = Roles!VisitNext(graph, f[n - 1])
      BY <3>2 DEF next
    <3>. QED
      BY <3>1, <3>3
  <2>4. f = [n \in 0..K |-> IF n = 0 THEN start ELSE Roles!VisitNext(graph, f[n - 1])]
    BY <2>2, <2>3 DEF Follows
  <2>. QED
    BY <2>4 DEF start, VisitStart
<1>5. Roles!detectRoleCycle(graph, role) = walk[K].cycle
  BY SameSize DEF Roles!detectRoleCycle
<1>6. walk = [n \in 0..K |-> IF n = 0 THEN start ELSE Roles!VisitNext(graph, walk[n - 1])]
  BY <1>4 DEF VisitStart
<1>. HIDE DEF walk, start, X, K
<1>7. walk[0] = start /\ \A n \in 1..K : walk[n] = Roles!VisitNext(graph, walk[n - 1])
  <2>1. 0 \in 0..K /\ \A n \in 1..K : n \in 0..K /\ n # 0
    BY <1>1
  <2>. QED
    BY <1>6, <2>1
<1>. DEFINE good == {n \in Nat : walk[n] \in X /\ (walk[n].calls = <<>> \/ VisitRank(walk[n]) + n <= K)}
<1>8. 0 \in good
  <2>1. VisitRank(start) \in Nat
    BY <1>2, VisitRankType DEF X
  <2>. QED
    BY <1>1, <1>2, <1>7, <2>1
<1>9. ASSUME NEW n \in 1..K, n - 1 \in good PROVE n \in good
  <2>1. /\ n \in Nat /\ n - 1 \in Nat /\ walk[n - 1] \in X
        /\ walk[n - 1].calls = <<>> \/ VisitRank(walk[n - 1]) + (n - 1) <= K
    BY <1>1, <1>9
  <2>. HIDE DEF good
  <2>2. /\ walk[n] \in X
        /\ walk[n - 1].calls = <<>> => walk[n] = walk[n - 1]
        /\ walk[n - 1].calls # <<>> => VisitRank(walk[n]) < VisitRank(walk[n - 1])
    BY <1>3, <1>7, <2>1
  <2>3. walk[n - 1] \in VisitWalks /\ walk[n] \in VisitWalks
    BY <2>1, <2>2 DEF X
  <2>4. VisitRank(walk[n]) \in Nat /\ VisitRank(walk[n - 1]) \in Nat
    BY <2>3, VisitRankType
  <2>. QED
    BY <1>1, <2>1, <2>2, <2>4 DEF good
<1>10. K \in good
  <2>. HIDE DEF good
  <2>. QED
    BY <1>1, <1>8, <1>9, Reaches
<1>11. VisitInv(graph, role, walk[K]) /\ walk[K] \in VisitWalks
  BY <1>10 DEF X
<1>12. walk[K].calls = <<>>
  BY <1>1, <1>10, <1>11, VisitRankType
<1>. QED
  BY <1>1, <1>5, <1>11, <1>12, VisitDone

(* A role may be saved if and only if neither it nor an ancestor of it      *)
(* would be on a cycle (role-resolver.ts, validateRoleSave).                *)
LEMMA ValidateExact ==
  ASSUME Roles!TypeOK, NEW role \in Ids, NEW list \in Roles!ParentLists
  PROVE  LET graph == Roles!With(role, list) IN
         Roles!validateRoleSave(role, list)
         <=> \A r \in Roles!Ancestors(graph, {role}) : ~Roles!OnCycle(graph, r)
<1>. DEFINE graph == Roles!With(role, list)
<1>1. IsGraph(graph) /\ role \in DOMAIN graph /\ graph[role] = list
  <2>1. /\ DOMAIN graph = DOMAIN parents \cup {role} /\ graph[role] = list
        /\ graph = [r \in DOMAIN parents \cup {role} |-> IF r = role THEN list ELSE parents[r]]
    BY DEF Roles!With
  <2>2. \A r \in DOMAIN parents : parents[r] \in Roles!ParentLists /\ r \in Ids
    BY DEF Roles!TypeOK
  <2>3. graph \in [DOMAIN parents \cup {role} -> Roles!ParentLists]
    <3>. HIDE DEF graph
    <3>. QED
      BY <2>1, <2>2
  <2>. HIDE DEF graph
  <2>. QED
    BY <2>1, <2>2, <2>3 DEF IsGraph
<1>2. Roles!validateRoleSave(role, list)
      <=> ~Roles!Contains(list, role) /\ ~Roles!detectRoleCycle(graph, role)
  BY DEF Roles!validateRoleSave
<1>. HIDE DEF graph
<1>3. Roles!detectRoleCycle(graph, role)
      <=> \E r \in Roles!Ancestors(graph, {role}) : Roles!OnCycle(graph, r)
  BY <1>1, DetectExact
<1>4. ASSUME Roles!Contains(list, role)
      PROVE  role \in Roles!Ancestors(graph, {role}) /\ Roles!OnCycle(graph, role)
  <2>1. role \in Roles!ToSet(Roles!ParentsOf(graph, role))
    BY <1>1, <1>4, ListFacts DEF Roles!ParentsOf
  <2>. QED
    BY <1>1, <2>1, AboveFacts, AncestorsClosed
<1>. QED
  BY <1>2, <1>3, <1>4 DEF graph

-----------------------------------------------------------------------------
(* The answers of the resolver.                                             *)

RoleInv ==
  /\ Roles!TypeOK
  /\ answer.of = "resolve" => answer.roles \in Roles!ParentLists
  /\ answer.of = "validate" => answer.role \in Ids /\ answer.list \in Roles!ParentLists
  /\ ResolverExact

LEMMA RolesStart == Roles!Init => RoleInv
<1>. SUFFICES ASSUME Roles!Init PROVE RoleInv
  OBVIOUS
<1>1. answer.of = "nothing" /\ answer = Roles!NoAnswer
  BY DEF Roles!Init, Roles!NoAnswer
<1>2. PICK R \in SUBSET Ids : parents \in [R -> Roles!ParentLists]
  BY DEF Roles!Init
<1>3. DOMAIN parents = R
  BY <1>2
<1>. QED
  BY <1>1, <1>2, <1>3 DEF RoleInv, Roles!TypeOK, ResolverExact, Roles!ResolverExact

LEMMA RolesStep == RoleInv /\ [Roles!Next]_(Roles!vars) => RoleInv'
<1>. SUFFICES ASSUME RoleInv, [Roles!Next]_(Roles!vars) PROVE RoleInv'
  OBVIOUS
<1>0. Roles!TypeOK /\ (parents' = parents)
  BY DEF RoleInv, Roles!Next, Roles!Resolve, Roles!Validate, Roles!vars
<1>1. CASE Roles!Resolve
  <2>1. PICK assigned \in Roles!ParentLists :
          answer' = [of |-> "resolve", roles |-> assigned, perms |-> Roles!resolveRolePermissions(assigned)]
    BY <1>1 DEF Roles!Resolve
  <2>. DEFINE perms == Roles!resolveRolePermissions(assigned)
  <2>2. /\ DOMAIN perms = Roles!Listed(Grants, assigned) \ Roles!Listed(Denies, assigned)
        /\ \A p \in DOMAIN perms : Roles!Chain(Grants, perms[p], assigned, p)
    BY <1>0, ResolveExact
  <2>3. answer'.of = "resolve" /\ answer'.roles = assigned /\ answer'.perms = perms
    BY <2>1
  <2>. HIDE DEF perms
  <2>4. /\ DOMAIN answer'.perms = (Roles!Listed(Grants, answer.roles))' \ (Roles!Listed(Denies, answer.roles))'
        /\ \A p \in DOMAIN answer'.perms : Roles!Chain(Grants, answer.perms[p], answer.roles, p)'
    BY <1>0, <2>2, <2>3 DEF Roles!Listed, Roles!Chain
  <2>. QED
    BY <1>0, <2>3, <2>4 DEF RoleInv, Roles!TypeOK, ResolverExact, Roles!ResolverExact
<1>2. CASE Roles!Validate
  <2>1. PICK role \in Ids, list \in Roles!ParentLists :
          answer' = [of |-> "validate", role |-> role, list |-> list, ok |-> Roles!validateRoleSave(role, list)]
    BY <1>2 DEF Roles!Validate
  <2>. DEFINE graph == Roles!With(role, list)
  <2>2. Roles!validateRoleSave(role, list)
        <=> \A r \in Roles!Ancestors(graph, {role}) : ~Roles!OnCycle(graph, r)
    BY <1>0, ValidateExact
  <2>2a. /\ Roles!OnCycle(graph, role) => ~Roles!validateRoleSave(role, list)
         /\ ~Roles!validateRoleSave(role, list)
              => \E r \in Roles!Ancestors(graph, {role}) : Roles!OnCycle(graph, r)
    <3>1. role \in Roles!Ancestors(graph, {role})
      BY DEF Roles!Ancestors
    <3>. QED
      BY <2>2, <3>1
  <2>3. answer'.of = "validate" /\ answer'.role = role /\ answer'.list = list
        /\ answer'.ok = Roles!validateRoleSave(role, list)
    BY <2>1
  <2>4. (Roles!With(answer.role, answer.list))' = graph
    BY <1>0, <2>3 DEF Roles!With
  <2>. QED
    BY <1>0, <2>2a, <2>3, <2>4 DEF RoleInv, Roles!TypeOK, ResolverExact, Roles!ResolverExact
<1>3. CASE UNCHANGED Roles!vars
  BY <1>3 DEF RoleInv, Roles!vars, Roles!TypeOK, ResolverExact, Roles!ResolverExact, Roles!Listed,
              Roles!Chain, Roles!With
<1>. QED
  BY <1>1, <1>2, <1>3 DEF Roles!Next

(* Whatever the graph of roles is, and however many: a user has exactly the *)
(* permissions that an ancestor grants and none denies, a role on a cycle   *)
(* through itself may not be saved, and one without a cycle above it may.   *)
THEOREM ResolverExactThm == Roles!Spec => []ResolverExact
<1>1. RoleInv => ResolverExact
  BY DEF RoleInv
<1>. QED
  BY RolesStart, RolesStep, <1>1, PTL DEF Roles!Spec

-----------------------------------------------------------------------------
(* The four components keep their types.                                    *)
THEOREM WebTypeCorrect == Events!Spec /\ Host!Spec /\ Roles!Spec /\ Login!Spec => []TypeOK
<1>1. EventsInv /\ HostInv /\ RoleInv /\ LoginInv => TypeOK
  <2>1. EventsInv => Events!TypeOK
    <3>. SUFFICES ASSUME EventsInv PROVE Events!TypeOK
      OBVIOUS
    <3>1. \A k \in DOMAIN conns : conns[k] \in ConnRecord
      BY DEF EventsInv, EventTypes
    <3>. QED
      BY <3>1 DEF EventsInv, EventTypes, ConnRecord, Events!TypeOK
  <2>. QED
    BY <2>1 DEF HostInv, RoleInv, LoginInv, TypeOK
<1>2. EventsInv /\ [Events!Next]_(Events!vars) => EventsInv'
  BY EventsStep
<1>3. HostInv /\ [Host!Next]_(Host!vars) => HostInv'
  BY HostStep
<1>. QED
  BY <1>1, <1>2, <1>3, EventsStart, HostStart, RolesStart, RolesStep, LoginStart, LoginStep, PTL
     DEF Events!Spec, Host!Spec, Roles!Spec, Login!Spec
=============================================================================
