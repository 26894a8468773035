------------------------------ MODULE SessionCache ------------------------------
(***************************************************************************)
(* The session manager (auth/session.go) of one user's sessions, and its    *)
(* LRU cache (auth/lru.go).  A validation that misses the cache reads the   *)
(* row in one transaction, the user's scopes in another, and then fills the *)
(* cache; revocations delete rows in a transaction and evict afterwards,    *)
(* one session at a time; the update of a role that the user holds himself  *)
(* evicts what it finds listed.  Any other change of his scopes (of a role  *)
(* his inherits from, of a role that is deleted, of his assignments) evicts *)
(* nothing (gateway/rbac_routes.go).                                        *)
(*                                                                          *)
(* Deadlines, fingerprints and the status of the user are choices: why a    *)
(* request is refused makes no difference to the others.  Updates of        *)
(* last_active bring back no row that is gone and are left out.             *)
(***************************************************************************)
EXTENDS Naturals, FiniteSets

CONSTANTS Sessions, Calls, Admins,
          CacheSize,    \* sessionCacheSize (10 000 in the code)
          TTL,          \* sessionCacheTTL, in ticks
          MaxRights     \* bound: versions of the user's scopes

\* The cache has room (sessionCacheSize); the bounds are numbers.
ASSUME CacheAssumption ==
  /\ IsFiniteSet(Sessions) /\ CacheSize \in Nat \ {0} /\ TTL \in Nat /\ MaxRights \in Nat \ {0}

VARIABLES rows,     \* sessions in the database
          unborn,   \* sessions not yet created
          rights,   \* the user's scopes: their version, from 1; 0 is no scopes at all
          cache,    \* session -> its entry
          call,     \* call -> where it is, for which session, with which scopes
          admin     \* admin -> what it does and the sessions it has still to evict

vars == <<rows, unborn, rights, cache, call, admin>>

\* `spared`: filled, or about to be, from reads that an eviction came after;
\* `stranded`: with scopes that no eviction is to correct.
NoEntry == [cached |-> FALSE, age |-> 0, rights |-> 0, spared |-> FALSE, stranded |-> FALSE]
Loading(s, at, r, spared, stranded) ==
  [at |-> at, session |-> s, rights |-> r, spared |-> spared, stranded |-> stranded]
Idle == [at |-> "idle"]
Free == [does |-> "nothing", left |-> {}]

Init ==
  /\ rows = {} /\ unborn = Sessions /\ rights = 1
  /\ cache = [s \in Sessions |-> NoEntry]
  /\ call = [c \in Calls |-> Idle]
  /\ admin = [a \in Admins |-> Free]

\* Loads of S that have begun to read: an eviction comes too late for them.
SpareLoads(S) ==
  [c \in Calls |-> IF call[c].at \in {"scopes", "fill"} /\ call[c].session \in S
                   THEN [call[c] EXCEPT !.spared = TRUE] ELSE call[c]]

\* What holds scopes older than version r, when no eviction is to come.
StrandEntries(r) ==
  [s \in Sessions |-> IF cache[s].cached /\ cache[s].rights < r
                      THEN [cache[s] EXCEPT !.stranded = TRUE] ELSE cache[s]]
StrandLoads(r) ==
  [c \in Calls |-> IF call[c].at = "fill" /\ call[c].rights < r
                   THEN [call[c] EXCEPT !.stranded = TRUE] ELSE call[c]]

-----------------------------------------------------------------------------
(* Requests.                                                                *)

Hit(s) == cache[s].cached /\ cache[s].age <= TTL

\* CreateSession up to its commit; the entry is filled like any other.
Create(c, s) ==
  /\ call[c] = Idle /\ s \in unborn
  /\ unborn' = unborn \ {s} /\ rows' = rows \cup {s}
  /\ call' = [call EXCEPT ![c] = Loading(s, "scopes", 0, FALSE, FALSE)]
  /\ UNCHANGED <<rights, cache, admin>>

\* A hit whose own deadlines or fingerprint refuse the request.
RefuseHit(c, s) ==
  /\ call[c] = Idle /\ Hit(s)
  /\ cache' = [cache EXCEPT ![s] = NoEntry]
  /\ UNCHANGED <<rows, unborn, rights, call, admin>>

\* A miss; Get removes an entry that has expired.
Miss(c, s) ==
  /\ call[c] = Idle /\ s \notin unborn /\ ~Hit(s)
  /\ cache' = [cache EXCEPT ![s] = NoEntry]
  /\ call' = [call EXCEPT ![c] = Loading(s, "row", 0, FALSE, FALSE)]
  /\ UNCHANGED <<rows, unborn, rights, admin>>

\* The row and the user, in one read transaction.
ReadRow(c) ==
  /\ call[c].at = "row"
  /\ \/ /\ call[c].session \in rows
        /\ call' = [call EXCEPT ![c] = Loading(@.session, "scopes", 0, FALSE, FALSE)]
     \/ call' = [call EXCEPT ![c] = Idle]
  /\ UNCHANGED <<rows, unborn, rights, cache, admin>>

\* LoadUserScopes; when it fails the session gets no scopes.
ReadScopes(c) ==
  /\ call[c].at = "scopes"
  /\ \/ call' = [call EXCEPT ![c] = Loading(@.session, "fill", rights, @.spared, FALSE)]
     \/ call' = [call EXCEPT ![c] = Loading(@.session, "fill", 0, @.spared, TRUE)]
  /\ UNCHANGED <<rows, unborn, rights, cache, admin>>

Cached == {s \in Sessions : cache[s].cached}

\* cache.Set makes room when the cache is full, and the request is accepted.
Fill(c) ==
  /\ call[c].at = "fill"
  /\ LET s == call[c].session
         e == [cached |-> TRUE, age |-> 0, rights |-> call[c].rights,
               spared |-> call[c].spared, stranded |-> call[c].stranded]
     IN  IF s \in Cached \/ Cardinality(Cached) < CacheSize
         THEN cache' = [cache EXCEPT ![s] = e]
         ELSE \E x \in Cached : cache' = [cache EXCEPT ![x] = NoEntry, ![s] = e]
  /\ call' = [call EXCEPT ![c] = Idle]
  /\ UNCHANGED <<rows, unborn, rights, admin>>

-----------------------------------------------------------------------------
(* Administration.                                                          *)

\* Mutant: the sessions to evict are listed when they are gone.
RevokeListingLate(a, S) ==
  /\ admin[a] = Free /\ S # {} /\ S \subseteq rows
  /\ rows' = rows \ S
  /\ admin' = [admin EXCEPT ![a] = [does |-> "evict", left |-> rows \ S]]
  /\ UNCHANGED <<unborn, rights, cache, call>>

\* RevokeSession, RevokeOtherSessions, RevokeAllSessionsForUser: the transaction.
\* If it fails nothing has happened.
Revoke(a, S) ==
  /\ admin[a] = Free /\ S # {} /\ S \subseteq rows
  /\ rows' = rows \ S
  /\ admin' = [admin EXCEPT ![a] = [does |-> "evict", left |-> S]]
  /\ UNCHANGED <<unborn, rights, cache, call>>

\* handleUpdateRole of a role the user holds; the handler goes on to evict.
UpdateRole(a) ==
  /\ admin[a] = Free /\ rights < MaxRights
  /\ rights' = rights + 1
  /\ admin' = [admin EXCEPT ![a] = [does |-> "list", left |-> {}]]
  /\ UNCHANGED <<rows, unborn, cache, call>>

\* A role his role inherits from is updated, a role is deleted, or assigned to
\* him or taken from him: his sessions stay as they are.
ChangeScopes ==
  /\ rights < MaxRights
  /\ rights' = rights + 1
  /\ cache' = StrandEntries(rights') /\ call' = StrandLoads(rights')
  /\ UNCHANGED <<rows, unborn, admin>>

\* The users with the role and EvictSessionsByUser: the list of the sessions, or
\* nothing when a read has failed.
ListSessions(a) ==
  /\ admin[a].does = "list"
  /\ \/ /\ admin' = [admin EXCEPT ![a] = [does |-> "evict", left |-> rows]]
        /\ UNCHANGED <<call, cache>>
     \/ /\ admin' = [admin EXCEPT ![a] = Free]
        /\ cache' = StrandEntries(rights) /\ call' = StrandLoads(rights)
  /\ UNCHANGED <<rows, unborn, rights>>

\* cache.Delete of one session; a load in flight is not stopped.
Evict(a, s) ==
  /\ admin[a].does = "evict" /\ s \in admin[a].left
  /\ admin' = [admin EXCEPT ![a] =
                 IF @.left = {s} THEN Free ELSE [does |-> "evict", left |-> @.left \ {s}]]
  /\ cache' = [cache EXCEPT ![s] = NoEntry]
  /\ call' = SpareLoads({s})
  /\ UNCHANGED <<rows, unborn, rights>>

\* The user has no sessions.
EvictNone(a) ==
  /\ admin[a].does = "evict" /\ admin[a].left = {}
  /\ admin' = [admin EXCEPT ![a] = Free]
  /\ UNCHANGED <<rows, unborn, rights, cache, call>>

Tick ==
  /\ \E s \in Sessions : cache[s].cached /\ cache[s].age <= TTL
  /\ cache' = [s \in Sessions |->
                 IF cache[s].cached /\ cache[s].age <= TTL
                 THEN [cache[s] EXCEPT !.age = @ + 1] ELSE cache[s]]
  /\ UNCHANGED <<rows, unborn, rights, call, admin>>

Next ==
  \/ \E c \in Calls, s \in Sessions : Create(c, s) \/ RefuseHit(c, s) \/ Miss(c, s)
  \/ \E c \in Calls : ReadRow(c) \/ ReadScopes(c) \/ Fill(c)
  \/ \E a \in Admins : \/ \E S \in SUBSET rows : Revoke(a, S)
                       \/ UpdateRole(a) \/ ListSessions(a) \/ EvictNone(a)
                       \/ \E s \in Sessions : Evict(a, s)
  \/ ChangeScopes \/ Tick

Spec == Init /\ [][Next]_vars
-----------------------------------------------------------------------------
Load == [at : {"row", "scopes", "fill"}, session : Sessions, rights : 0..MaxRights,
         spared : BOOLEAN, stranded : BOOLEAN]

TypeOK ==
  /\ rows \subseteq Sessions /\ unborn \subseteq Sessions /\ rights \in 1..MaxRights
  /\ cache \in [Sessions -> [cached : BOOLEAN, age : 0..TTL + 1, rights : 0..MaxRights,
                             spared : BOOLEAN, stranded : BOOLEAN]]
  /\ Cardinality(Cached) <= CacheSize
  /\ call \in [Calls -> Load \cup {Idle}]
  /\ admin \in [Admins -> [does : {"nothing", "evict", "list"}, left : SUBSET Sessions]]

(* "forcing a fresh permissions load on the next request": once revocations *)
(* and updates of roles have returned, the cache accepts a revoked session  *)
(* only if a load that had begun to read before the eviction filled it      *)
(* afterwards.  Old scopes it gives only then, or when no eviction was to   *)
(* correct them: the scopes could not be read, the sessions could not be    *)
(* listed, or the change was one that evicts nobody.                        *)
StaleOnlyIfSpared ==
  (\A a \in Admins : admin[a] = Free) =>
    \A s \in Sessions : Hit(s) =>
      /\ s \notin rows => cache[s].spared
      /\ cache[s].rights < rights => cache[s].spared \/ cache[s].stranded
=============================================================================
