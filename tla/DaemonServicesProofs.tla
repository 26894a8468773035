-------------------------- MODULE DaemonServicesProofs --------------------------
(***************************************************************************)
(* Proofs about the session cache, the counters, the secret cache and the   *)
(* sync pipeline, for any sets of sessions, nodes, callers and writers, and *)
(* any sizes and bounds.                                                    *)
(*                                                                          *)
(* Each component has its inductive invariant, which says of every moment   *)
(* what the property says of some: who still has to evict a session that is *)
(* stale, what snapshots on their way count, which callers hold a value     *)
(* that a flush has overtaken, and who has still to read a version.         *)
(***************************************************************************)
EXTENDS TraceStoreProofs

(* The session cache.  StaleOnlyIfSpared speaks of the moments when no      *)
(* administrator is at work; its inductive form covers what is stale in the *)
(* cache, and in the loads that will fill it.                               *)

EntryRecord == [cached : BOOLEAN, age : Nat, rights : Nat, spared : BOOLEAN, stranded : BOOLEAN]
LoadRecord == [at : {"row", "scopes", "fill"}, session : Sessions, rights : Nat,
               spared : BOOLEAN, stranded : BOOLEAN]
AdminRecord == [does : {"nothing", "evict", "list"}, left : SUBSET Sessions]

SessionTypes ==
  /\ rows \subseteq Sessions /\ unborn \subseteq Sessions /\ rights \in Nat
  /\ cache \in [Sessions -> EntryRecord]
  /\ call \in [Calls -> LoadRecord \cup {Idle}]
  /\ admin \in [Admins -> AdminRecord]

\* A session that is yet to be created is nowhere else.
UnbornAbsent ==
  \A s \in unborn : /\ s \notin rows /\ ~cache[s].cached
                    /\ \A c \in Calls : call[c].at # "idle" => call[c].session # s

WillEvict(s) == \E a \in Admins : admin[a].does = "evict" /\ s \in admin[a].left
WillList == \E a \in Admins : admin[a].does = "list"

EntriesCovered ==
  \A s \in Sessions : cache[s].cached /\ ~cache[s].spared =>
    /\ s \notin rows => WillEvict(s)
    /\ s \in rows /\ cache[s].rights < rights /\ ~cache[s].stranded => WillEvict(s) \/ WillList

LoadsCovered ==
  \A c \in Calls : call[c].at \in {"scopes", "fill"} /\ ~call[c].spared =>
    /\ call[c].session \notin rows => WillEvict(call[c].session)
    /\ call[c].at = "fill" /\ call[c].session \in rows /\ call[c].rights < rights /\ ~call[c].stranded =>
         WillEvict(call[c].session) \/ WillList

SessionInv == SessionTypes /\ UnbornAbsent /\ EntriesCovered /\ LoadsCovered

LEMMA SessionInit == Init => SessionInv
BY DEF Init, SessionInv, SessionTypes, EntryRecord, LoadRecord, AdminRecord,
       UnbornAbsent, EntriesCovered, LoadsCovered, NoEntry, Idle, Free

LEMMA LoadType ==
  ASSUME SessionTypes, NEW c \in Calls, call[c].at # "idle"
  PROVE  call[c] \in LoadRecord
BY DEF SessionTypes, Idle

LEMMA SpareLoadsFacts ==
  ASSUME SessionTypes, NEW S
  PROVE  /\ SpareLoads(S) \in [Calls -> LoadRecord \cup {Idle}]
         /\ \A c \in Calls :
              /\ SpareLoads(S)[c].at = call[c].at
              /\ call[c].at # "idle" => /\ SpareLoads(S)[c].session = call[c].session
                                        /\ SpareLoads(S)[c].rights = call[c].rights
                                        /\ SpareLoads(S)[c].stranded = call[c].stranded
              /\ call[c].at \in {"scopes", "fill"} =>
                   IF call[c].session \in S THEN SpareLoads(S)[c].spared
                                            ELSE SpareLoads(S)[c].spared = call[c].spared
<1>. DEFINE L == SpareLoads(S)
<1>1. ASSUME NEW c \in Calls
      PROVE  /\ L[c] \in LoadRecord \cup {Idle}
             /\ L[c].at = call[c].at
             /\ call[c].at # "idle" => /\ L[c].session = call[c].session
                                       /\ L[c].rights = call[c].rights
                                       /\ L[c].stranded = call[c].stranded
             /\ call[c].at \in {"scopes", "fill"} =>
                  IF call[c].session \in S THEN L[c].spared ELSE L[c].spared = call[c].spared
  <2>1. CASE call[c].at \in {"scopes", "fill"} /\ call[c].session \in S
    <3>1. call[c] \in LoadRecord /\ L[c] = [call[c] EXCEPT !.spared = TRUE]
      BY <2>1, LoadType DEF SpareLoads
    <3>. QED
      BY <2>1, <3>1 DEF LoadRecord
  <2>2. CASE ~(call[c].at \in {"scopes", "fill"} /\ call[c].session \in S)
    <3>1. L[c] = call[c]
      BY <2>2 DEF SpareLoads
    <3>. QED
      BY <2>2, <3>1 DEF SessionTypes
  <2>. QED
    BY <2>1, <2>2
<1>2. L \in [Calls -> LoadRecord \cup {Idle}]
  BY <1>1 DEF SpareLoads
<1>. HIDE DEF L
<1>. QED
  BY <1>1, <1>2 DEF L

\* Stranding changes nothing else, and leaves nothing older than r unmarked.
LEMMA StrandFacts ==
  ASSUME SessionTypes, NEW r \in Nat
  PROVE  /\ StrandEntries(r) \in [Sessions -> EntryRecord]
         /\ \A s \in Sessions :
              /\ StrandEntries(r)[s].cached = cache[s].cached
              /\ StrandEntries(r)[s].spared = cache[s].spared
              /\ StrandEntries(r)[s].cached /\ ~StrandEntries(r)[s].stranded =>
                   ~(StrandEntries(r)[s].rights < r)
         /\ StrandLoads(r) \in [Calls -> LoadRecord \cup {Idle}]
         /\ \A c \in Calls :
              /\ StrandLoads(r)[c].at = call[c].at
              /\ call[c].at # "idle" => /\ StrandLoads(r)[c].session = call[c].session
                                        /\ StrandLoads(r)[c].spared = call[c].spared
              /\ StrandLoads(r)[c].at = "fill" /\ ~StrandLoads(r)[c].stranded =>
                   ~(StrandLoads(r)[c].rights < r)
<1>. DEFINE E == StrandEntries(r)
            L == StrandLoads(r)
<1>1. ASSUME NEW s \in Sessions
      PROVE  /\ E[s] \in EntryRecord /\ E[s].cached = cache[s].cached
             /\ E[s].spared = cache[s].spared
             /\ E[s].cached /\ ~E[s].stranded => ~(E[s].rights < r)
  <2>1. cache[s] \in EntryRecord
    BY DEF SessionTypes
  <2>. QED
    BY <2>1 DEF StrandEntries, EntryRecord
<1>2. ASSUME NEW c \in Calls
      PROVE  /\ L[c] \in LoadRecord \cup {Idle} /\ L[c].at = call[c].at
             /\ call[c].at # "idle" => L[c].session = call[c].session /\ L[c].spared = call[c].spared
             /\ L[c].at = "fill" /\ ~L[c].stranded => ~(L[c].rights < r)
  <2>1. CASE call[c].at = "fill" /\ call[c].rights < r
    <3>1. call[c] \in LoadRecord /\ L[c] = [call[c] EXCEPT !.stranded = TRUE]
      BY <2>1, LoadType DEF StrandLoads
    <3>. QED
      BY <2>1, <3>1 DEF LoadRecord
  <2>2. CASE ~(call[c].at = "fill" /\ call[c].rights < r)
    <3>1. L[c] = call[c]
      BY <2>2 DEF StrandLoads
    <3>. QED
      BY <2>2, <3>1 DEF SessionTypes
  <2>. QED
    BY <2>1, <2>2
<1>3. E \in [Sessions -> EntryRecord] /\ L \in [Calls -> LoadRecord \cup {Idle}]
  BY <1>1, <1>2 DEF StrandEntries, StrandLoads
<1>. HIDE DEF E, L
<1>. QED
  BY <1>1, <1>2, <1>3 DEF E, L

-----------------------------------------------------------------------------
(* Requests: the administrators stay where they are.                        *)

LEMMA CreatePreserves ==
  ASSUME SessionInv, NEW c \in Calls, NEW s \in Sessions, Create(c, s)
  PROVE  SessionInv'
<1>. USE DEF SessionInv, EntryRecord, LoadRecord, AdminRecord, Create, Loading, Idle, WillEvict, WillList
<1>1. SessionTypes'
  BY DEF SessionTypes
<1>2. UnbornAbsent'
  BY DEF SessionTypes, UnbornAbsent
<1>3. EntriesCovered'
  BY DEF SessionTypes, UnbornAbsent, EntriesCovered
<1>4. LoadsCovered'
  <2>1. ASSUME NEW k \in Calls
        PROVE  \/ call'[k] = call[k] /\ call'[k].session # s
               \/ call'[k].at = "idle"
               \/ call'[k].at = "scopes" /\ call'[k].session = s /\ s \in rows'
    BY DEF SessionTypes, UnbornAbsent
  <2>2. rows' = rows \cup {s} /\ UNCHANGED <<rights, admin>>
    OBVIOUS
  <2>. QED
    BY <2>1, <2>2 DEF LoadsCovered
<1>. QED
  BY <1>1, <1>2, <1>3, <1>4

LEMMA RefuseHitPreserves ==
  ASSUME SessionInv, NEW c \in Calls, NEW s \in Sessions, RefuseHit(c, s)
  PROVE  SessionInv'
<1>. USE DEF SessionInv, EntryRecord, LoadRecord, AdminRecord, RefuseHit, NoEntry, WillEvict, WillList
<1>1. SessionTypes'
  BY DEF SessionTypes
<1>2. UnbornAbsent'
  BY DEF SessionTypes, UnbornAbsent
<1>3. EntriesCovered' /\ LoadsCovered'
  BY DEF SessionTypes, EntriesCovered, LoadsCovered
<1>. QED
  BY <1>1, <1>2, <1>3

LEMMA MissPreserves ==
  ASSUME SessionInv, NEW c \in Calls, NEW s \in Sessions, Miss(c, s)
  PROVE  SessionInv'
<1>. USE DEF SessionInv, EntryRecord, LoadRecord, AdminRecord, Miss, NoEntry, Loading, Idle, WillEvict, WillList
<1>1. SessionTypes'
  BY DEF SessionTypes
<1>2. UnbornAbsent'
  BY DEF SessionTypes, UnbornAbsent
<1>3. EntriesCovered'
  BY DEF SessionTypes, EntriesCovered
<1>4. LoadsCovered'
  BY DEF SessionTypes, LoadsCovered
<1>. QED
  BY <1>1, <1>2, <1>3, <1>4

LEMMA ReadRowPreserves ==
  ASSUME SessionInv, NEW c \in Calls, ReadRow(c)
  PROVE  SessionInv'
<1>. USE DEF SessionInv, EntryRecord, LoadRecord, AdminRecord, ReadRow, Loading, Idle, WillEvict, WillList
<1>1. SessionTypes'
  <2>1. call[c] \in LoadRecord
    BY LoadType
  <2>2. \/ call' = [call EXCEPT ![c] = Idle]
        \/ call' = [call EXCEPT ![c] = Loading(call[c].session, "scopes", 0, FALSE, FALSE)]
    OBVIOUS
  <2>3. Loading(call[c].session, "scopes", 0, FALSE, FALSE) \in LoadRecord
    BY <2>1
  <2>. QED
    BY <2>2, <2>3 DEF SessionTypes
<1>2. UnbornAbsent'
  BY DEF SessionTypes, UnbornAbsent
<1>3. EntriesCovered'
  BY DEF EntriesCovered
<1>4. LoadsCovered'
  <2>1. ASSUME NEW k \in Calls
        PROVE  \/ call'[k] = call[k] \/ call'[k].at = "idle"
               \/ call'[k].at = "scopes" /\ call'[k].session \in rows
    BY DEF SessionTypes
  <2>. QED
    BY <2>1 DEF LoadsCovered
<1>. QED
  BY <1>1, <1>2, <1>3, <1>4

LEMMA ReadScopesPreserves ==
  ASSUME SessionInv, NEW c \in Calls, ReadScopes(c)
  PROVE  SessionInv'
<1>. USE DEF SessionInv, EntryRecord, LoadRecord, AdminRecord, ReadScopes, Loading, Idle, WillEvict, WillList
<1>0. call[c] \in LoadRecord /\ rights \in Nat
  BY LoadType DEF SessionTypes
<1>. DEFINE good == Loading(call[c].session, "fill", rights, call[c].spared, FALSE)
            none == Loading(call[c].session, "fill", 0, call[c].spared, TRUE)
<1>1. /\ good \in LoadRecord /\ none \in LoadRecord
      /\ \/ call' = [call EXCEPT ![c] = good]
         \/ call' = [call EXCEPT ![c] = none]
  <2>1. good \in LoadRecord /\ none \in LoadRecord
    BY <1>0
  <2>2. \/ call' = [call EXCEPT ![c] = good]
        \/ call' = [call EXCEPT ![c] = none]
    BY DEF SessionTypes
  <2>. QED
    BY <2>1, <2>2
<1>2. PICK l \in LoadRecord : /\ call' = [call EXCEPT ![c] = l]
                              /\ l.session = call[c].session /\ l.spared = call[c].spared
                              /\ l.rights = rights \/ l.stranded
  BY <1>1
<1>3. UNCHANGED <<rows, unborn, rights, cache, admin>>
  OBVIOUS
<1>4. SessionTypes'
  BY <1>2, <1>3 DEF SessionTypes
<1>5. UnbornAbsent'
  BY <1>2, <1>3 DEF SessionTypes, UnbornAbsent
<1>6. EntriesCovered'
  BY <1>3 DEF EntriesCovered
<1>7. LoadsCovered'
  <2>1. ASSUME NEW k \in Calls
        PROVE  \/ call'[k] = call[k]
               \/ /\ call[k].at = "scopes" /\ call'[k].session = call[k].session
                  /\ call'[k].spared = call[k].spared
                  /\ ~(call'[k].rights < rights) \/ call'[k].stranded
    BY <1>0, <1>2 DEF SessionTypes
  <2>. QED
    BY <1>3, <2>1 DEF LoadsCovered
<1>. QED
  BY <1>4, <1>5, <1>6, <1>7

\* The entry is as stale as the load was, and covered by the same eviction.
LEMMA FillPreserves ==
  ASSUME SessionInv, NEW c \in Calls, Fill(c)
  PROVE  SessionInv'
<1>. DEFINE s == call[c].session
            e == [cached |-> TRUE, age |-> 0, rights |-> call[c].rights,
                  spared |-> call[c].spared, stranded |-> call[c].stranded]
<1>1. call[c] \in LoadRecord
  BY LoadType DEF Fill, SessionInv
<1>2. s \in Sessions /\ s \notin unborn
  BY <1>1 DEF Fill, SessionInv, UnbornAbsent, LoadRecord
<1>3. \A t \in Sessions : cache'[t] \in {cache[t], NoEntry, e}
                          /\ (cache'[t] = e => t = s \/ cache'[t] = cache[t])
  BY <1>2 DEF Fill, SessionInv, SessionTypes, Cached, NoEntry
<1>4. cache' \in [Sessions -> EntryRecord]
  <2>1. e \in EntryRecord /\ NoEntry \in EntryRecord
    BY <1>1 DEF NoEntry, EntryRecord, LoadRecord
  <2>2. \A t \in Sessions : cache'[t] \in EntryRecord
    BY <1>3, <2>1 DEF SessionInv, SessionTypes
  <2>3. cache' = [t \in Sessions |-> cache'[t]]
    BY DEF Fill, SessionInv, SessionTypes, Cached
  <2>. QED
    BY <2>2, <2>3
<1>5. call' = [call EXCEPT ![c] = Idle] /\ UNCHANGED <<rows, unborn, rights, admin>>
  BY DEF Fill
<1>6. SessionTypes'
  BY <1>4, <1>5 DEF SessionInv, SessionTypes
<1>7. UnbornAbsent'
  <2>1. ASSUME NEW t \in unborn
        PROVE  t \notin rows /\ ~cache'[t].cached
    <3>1. t \in Sessions /\ t # s /\ t \notin rows /\ ~cache[t].cached
      BY <1>2 DEF SessionInv, SessionTypes, UnbornAbsent
    <3>2. cache'[t] \in {cache[t], NoEntry}
      BY <1>3, <3>1
    <3>. QED
      BY <3>1, <3>2 DEF NoEntry
  <2>2. ASSUME NEW t \in unborn, NEW k \in Calls, call'[k].at # "idle"
        PROVE  call'[k].session # t
    <3>1. k # c /\ call'[k] = call[k]
      BY <1>5, <2>2 DEF SessionInv, SessionTypes, Idle
    <3>. QED
      BY <2>2, <3>1 DEF SessionInv, UnbornAbsent
  <2>. QED
    BY <1>5, <2>1, <2>2 DEF UnbornAbsent
<1>8. EntriesCovered'
  <2>. SUFFICES ASSUME NEW t \in Sessions, cache'[t].cached, ~cache'[t].spared
                PROVE  /\ t \notin rows => WillEvict(t)
                       /\ t \in rows /\ cache'[t].rights < rights /\ ~cache'[t].stranded =>
                            WillEvict(t) \/ WillList
    BY <1>5 DEF EntriesCovered, WillEvict, WillList
  <2>1. CASE cache'[t] = cache[t]
    BY <2>1 DEF SessionInv, EntriesCovered
  <2>2. CASE cache'[t] = NoEntry
    BY <2>2 DEF NoEntry
  <2>3. CASE cache'[t] = e /\ t = s
    BY <2>3, <1>1 DEF Fill, SessionInv, LoadsCovered
  <2>. QED
    BY <1>3, <2>1, <2>2, <2>3
<1>9. LoadsCovered'
  BY <1>5 DEF SessionInv, SessionTypes, LoadsCovered, WillEvict, WillList, Idle
<1>. QED
  BY <1>6, <1>7, <1>8, <1>9 DEF SessionInv

-----------------------------------------------------------------------------
(* Administration.                                                          *)

LEMMA RevokePreserves ==
  ASSUME SessionInv, NEW a \in Admins, NEW S \in SUBSET rows, Revoke(a, S)
  PROVE  SessionInv'
<1>. USE DEF SessionInv, EntryRecord, LoadRecord, AdminRecord, Revoke
<1>1. SessionTypes'
  BY DEF SessionTypes
<1>2. UnbornAbsent'
  BY DEF UnbornAbsent
<1>3. \A s \in Sessions : /\ WillEvict(s) => WillEvict(s)'
                          /\ s \in S => WillEvict(s)'
  BY DEF SessionTypes, WillEvict, Free
<1>4. WillList => WillList'
  BY DEF SessionTypes, WillList, Free
<1>5. EntriesCovered'
  BY <1>3, <1>4 DEF SessionTypes, EntriesCovered
<1>6. LoadsCovered'
  <2>1. \A c \in Calls : call[c].at # "idle" => call[c].session \in Sessions
    BY LoadType DEF LoadRecord
  <2>2. rows' = rows \ S /\ UNCHANGED <<call, rights>>
    OBVIOUS
  <2>. QED
    BY <1>3, <1>4, <2>1, <2>2 DEF LoadsCovered
<1>. QED
  BY <1>1, <1>2, <1>5, <1>6

LEMMA UpdateRolePreserves ==
  ASSUME SessionInv, NEW a \in Admins, UpdateRole(a)
  PROVE  SessionInv'
<1>. USE DEF SessionInv, EntryRecord, LoadRecord, AdminRecord, UpdateRole
<1>1. SessionTypes'
  BY DEF SessionTypes
<1>2. UnbornAbsent'
  BY DEF UnbornAbsent
<1>3. \A s \in Sessions : WillEvict(s) => WillEvict(s)'
  BY DEF SessionTypes, WillEvict, Free
<1>4. WillList'
  BY DEF SessionTypes, WillList
<1>5. EntriesCovered'
  BY <1>3, <1>4 DEF SessionTypes, EntriesCovered
<1>6. LoadsCovered'
  BY <1>3, <1>4 DEF SessionTypes, LoadsCovered, Idle
<1>. QED
  BY <1>1, <1>2, <1>5, <1>6

\* Nobody is to evict what is stale now: it is stranded.
LEMMA StrandPreserves ==
  ASSUME SessionInv, NEW r \in Nat, rights' = r,
         cache' = StrandEntries(r), call' = StrandLoads(r), UNCHANGED <<rows, unborn>>,
         admin' \in [Admins -> AdminRecord], \A s \in Sessions : WillEvict(s) => WillEvict(s)'
  PROVE  SessionInv'
<1>. USE DEF SessionInv
<1>1. SessionTypes'
  BY StrandFacts DEF SessionTypes
<1>2. /\ \A s \in Sessions :
            /\ cache'[s].cached = cache[s].cached /\ cache'[s].spared = cache[s].spared
            /\ cache'[s].cached /\ ~cache'[s].stranded => ~(cache'[s].rights < rights')
      /\ \A c \in Calls :
            /\ call'[c].at = call[c].at
            /\ call[c].at # "idle" => /\ call'[c].session = call[c].session
                                      /\ call'[c].spared = call[c].spared
            /\ call'[c].at = "fill" /\ ~call'[c].stranded => ~(call'[c].rights < rights')
  BY StrandFacts
<1>3. UnbornAbsent'
  BY <1>2 DEF SessionTypes, UnbornAbsent
<1>4. EntriesCovered'
  BY <1>2 DEF EntriesCovered
<1>5. LoadsCovered'
  <2>1. \A c \in Calls : call[c].at # "idle" => call[c].session \in Sessions
    BY LoadType DEF LoadRecord
  <2>. QED
    BY <1>2, <2>1 DEF LoadsCovered
<1>. QED
  BY <1>1, <1>3, <1>4, <1>5

LEMMA ChangeScopesPreserves == SessionInv /\ ChangeScopes => SessionInv'
<1>. SUFFICES ASSUME SessionInv, ChangeScopes PROVE SessionInv'
  OBVIOUS
<1>1. rights + 1 \in Nat /\ rights' = rights + 1
  BY DEF SessionInv, SessionTypes, ChangeScopes
<1>2. \A s \in Sessions : WillEvict(s) => WillEvict(s)'
  BY DEF ChangeScopes, WillEvict
<1>. QED
  BY <1>1, <1>2, StrandPreserves DEF SessionInv, SessionTypes, ChangeScopes

\* Whoever was covered by the list is in it, or is stranded when it fails.
LEMMA ListSessionsPreserves ==
  ASSUME SessionInv, NEW a \in Admins, ListSessions(a)
  PROVE  SessionInv'
<1>. USE DEF SessionInv, ListSessions
<1>1. CASE /\ admin' = [admin EXCEPT ![a] = [does |-> "evict", left |-> rows]]
           /\ UNCHANGED <<call, cache>>
  <2>1. SessionTypes'
    BY <1>1 DEF SessionTypes, AdminRecord
  <2>2. UnbornAbsent'
    BY <1>1 DEF UnbornAbsent
  <2>3. \A s \in Sessions : /\ WillEvict(s) => WillEvict(s)'
                            /\ s \in rows => WillEvict(s)'
    BY <1>1 DEF SessionTypes, WillEvict
  <2>4. EntriesCovered'
    BY <1>1, <2>3 DEF SessionTypes, EntriesCovered
  <2>5. LoadsCovered'
    <3>1. \A c \in Calls : call[c].at # "idle" => call[c].session \in Sessions
      BY LoadType DEF LoadRecord
    <3>. QED
      BY <1>1, <2>3, <3>1 DEF LoadsCovered
  <2>. QED
    BY <2>1, <2>2, <2>4, <2>5
<1>2. CASE /\ admin' = [admin EXCEPT ![a] = Free]
           /\ cache' = StrandEntries(rights) /\ call' = StrandLoads(rights)
  <2>1. rights \in Nat /\ rights' = rights /\ UNCHANGED <<rows, unborn>>
    BY DEF SessionTypes
  <2>2. admin' \in [Admins -> AdminRecord]
    BY <1>2 DEF SessionTypes, Free, AdminRecord
  <2>3. \A s \in Sessions : WillEvict(s) => WillEvict(s)'
    BY <1>2 DEF SessionTypes, WillEvict
  <2>. QED
    BY <1>2, <2>1, <2>2, <2>3, StrandPreserves
<1>. QED
  BY <1>1, <1>2

LEMMA EvictPreserves ==
  ASSUME SessionInv, NEW a \in Admins, NEW s \in Sessions, Evict(a, s)
  PROVE  SessionInv'
<1>. USE DEF SessionInv, Evict
<1>1. /\ call' = SpareLoads({s}) /\ call' \in [Calls -> LoadRecord \cup {Idle}]
      /\ \A c \in Calls :
           /\ call'[c].at = call[c].at
           /\ call[c].at # "idle" => /\ call'[c].session = call[c].session
                                     /\ call'[c].rights = call[c].rights
                                     /\ call'[c].stranded = call[c].stranded
           /\ call'[c].at \in {"scopes", "fill"} /\ ~call'[c].spared =>
                ~call[c].spared /\ call[c].session # s
  BY SpareLoadsFacts
<1>2. /\ admin[a] \in AdminRecord
      /\ admin'[a] = IF admin[a].left = {s} THEN Free
                     ELSE [does |-> "evict", left |-> admin[a].left \ {s}]
      /\ \A b \in Admins \ {a} : admin'[b] = admin[b]
      /\ admin' \in [Admins -> AdminRecord]
  <2>1. admin[a] \in AdminRecord
    BY DEF SessionTypes
  <2>. DEFINE d == IF admin[a].left = {s} THEN Free
                   ELSE [does |-> "evict", left |-> admin[a].left \ {s}]
  <2>2. d \in AdminRecord
    BY <2>1 DEF AdminRecord, Free
  <2>3. admin' = [admin EXCEPT ![a] = d]
    OBVIOUS
  <2>. HIDE DEF d
  <2>4. admin'[a] = d /\ \A b \in Admins \ {a} : admin'[b] = admin[b]
    BY <2>3 DEF SessionTypes
  <2>5. admin' \in [Admins -> AdminRecord]
    BY <2>2, <2>3 DEF SessionTypes
  <2>. QED
    BY <2>1, <2>4, <2>5 DEF d
<1>3. SessionTypes'
  <2>1. cache' \in [Sessions -> EntryRecord]
    BY DEF SessionTypes, NoEntry, EntryRecord
  <2>. QED
    BY <1>1, <1>2, <2>1 DEF SessionTypes
<1>4. UnbornAbsent'
  <2>1. ASSUME NEW t \in unborn
        PROVE  t \notin rows /\ ~cache'[t].cached
    BY DEF SessionTypes, UnbornAbsent, NoEntry
  <2>2. ASSUME NEW t \in unborn, NEW c \in Calls, call'[c].at # "idle"
        PROVE  call'[c].session # t
    BY <1>1, <2>2 DEF UnbornAbsent
  <2>. QED
    BY <2>1, <2>2 DEF UnbornAbsent
<1>. DEFINE StillEvicts(t) == \E b \in Admins : admin'[b].does = "evict" /\ t \in admin'[b].left
            StillLists == \E b \in Admins : admin'[b].does = "list"
<1>5. ASSUME NEW t \in Sessions \ {s}, WillEvict(t)
      PROVE  StillEvicts(t)
  <2>1. PICK b \in Admins : admin[b].does = "evict" /\ t \in admin[b].left
    BY <1>5 DEF WillEvict
  <2>2. CASE b # a
    BY <1>2, <2>1, <2>2
  <2>3. CASE b = a
    <3>1. admin[a].left # {s}
      BY <2>1, <2>3
    <3>2. admin'[a].does = "evict" /\ t \in admin'[a].left
      BY <1>2, <2>1, <2>3, <3>1 DEF AdminRecord
    <3>. QED
      BY <3>2
  <2>. QED
    BY <2>2, <2>3
<1>6. WillList => StillLists
  BY <1>2 DEF WillList
<1>7. EntriesCovered'
  <2>1. ASSUME NEW t \in Sessions, cache'[t].cached, ~cache'[t].spared
        PROVE  /\ t \notin rows => StillEvicts(t)
               /\ t \in rows /\ cache'[t].rights < rights /\ ~cache'[t].stranded =>
                    StillEvicts(t) \/ StillLists
    <3>1. t # s /\ cache'[t] = cache[t]
      BY <2>1 DEF SessionTypes, NoEntry
    <3>. QED
      BY <2>1, <3>1, <1>5, <1>6 DEF EntriesCovered
  <2>. QED
    BY <2>1 DEF EntriesCovered, WillEvict, WillList
<1>8. LoadsCovered'
  <2>1. ASSUME NEW c \in Calls, call'[c].at \in {"scopes", "fill"}, ~call'[c].spared
        PROVE  /\ call'[c].session \notin rows => StillEvicts(call'[c].session)
               /\ call'[c].at = "fill" /\ call'[c].session \in rows /\ call'[c].rights < rights
                     /\ ~call'[c].stranded =>
                    StillEvicts(call'[c].session) \/ StillLists
    <3>1. /\ call[c].at = call'[c].at /\ ~call[c].spared
          /\ call[c].session = call'[c].session /\ call[c].rights = call'[c].rights
          /\ call[c].stranded = call'[c].stranded /\ call[c].session # s
      BY <1>1, <2>1
    <3>2. call[c].session \in Sessions
      BY <2>1, <3>1, LoadType DEF LoadRecord
    <3>3. /\ call[c].session \notin rows => WillEvict(call[c].session)
          /\ call[c].at = "fill" /\ call[c].session \in rows /\ call[c].rights < rights
                /\ ~call[c].stranded =>
               WillEvict(call[c].session) \/ WillList
      BY <2>1, <3>1 DEF LoadsCovered
    <3>4. WillEvict(call[c].session) => StillEvicts(call[c].session)
      BY <1>5, <3>1, <3>2
    <3>. HIDE DEF StillEvicts, StillLists
    <3>. QED
      BY <1>6, <3>1, <3>3, <3>4
  <2>. QED
    BY <2>1 DEF LoadsCovered, WillEvict, WillList
<1>. QED
  BY <1>3, <1>4, <1>7, <1>8

LEMMA EvictNonePreserves ==
  ASSUME SessionInv, NEW a \in Admins, EvictNone(a)
  PROVE  SessionInv'
<1>. USE DEF SessionInv, EntryRecord, LoadRecord, AdminRecord, EvictNone, Free
<1>1. SessionTypes' /\ UnbornAbsent'
  BY DEF SessionTypes, UnbornAbsent
<1>2. \A s \in Sessions : WillEvict(s) => WillEvict(s)'
  BY DEF SessionTypes, WillEvict
<1>3. WillList => WillList'
  BY DEF SessionTypes, WillList
<1>4. EntriesCovered'
  BY <1>2, <1>3 DEF EntriesCovered
<1>5. LoadsCovered'
  BY <1>2, <1>3 DEF SessionTypes, LoadsCovered, Idle
<1>. QED
  BY <1>1, <1>4, <1>5

LEMMA TickPreserves == SessionInv /\ Tick => SessionInv'
<1>. SUFFICES ASSUME SessionInv, Tick PROVE SessionInv'
  OBVIOUS
<1>. USE DEF SessionInv, EntryRecord, LoadRecord, AdminRecord, Tick
<1>1. ASSUME NEW s \in Sessions
      PROVE  /\ cache'[s] \in EntryRecord
             /\ cache'[s].cached = cache[s].cached /\ cache'[s].spared = cache[s].spared
             /\ cache'[s].rights = cache[s].rights /\ cache'[s].stranded = cache[s].stranded
  BY DEF SessionTypes
<1>2. SessionTypes'
  BY <1>1 DEF SessionTypes
<1>3. UnbornAbsent'
  BY <1>1 DEF SessionTypes, UnbornAbsent
<1>4. EntriesCovered' /\ LoadsCovered'
  BY <1>1 DEF EntriesCovered, LoadsCovered, WillEvict, WillList
<1>. QED
  BY <1>2, <1>3, <1>4

LEMMA SessionStep == SessionInv /\ [Next]_vars => SessionInv'
<1>. SUFFICES ASSUME SessionInv, [Next]_vars PROVE SessionInv'
  OBVIOUS
<1>1. ASSUME NEW c \in Calls, NEW s \in Sessions, Create(c, s) \/ RefuseHit(c, s) \/ Miss(c, s)
      PROVE  SessionInv'
  BY <1>1, CreatePreserves, RefuseHitPreserves, MissPreserves
<1>2. ASSUME NEW c \in Calls, ReadRow(c) \/ ReadScopes(c) \/ Fill(c) PROVE SessionInv'
  BY <1>2, ReadRowPreserves, ReadScopesPreserves, FillPreserves
<1>3. ASSUME NEW a \in Admins, NEW S \in SUBSET rows, Revoke(a, S) PROVE SessionInv'
  BY <1>3, RevokePreserves
<1>4. ASSUME NEW a \in Admins, UpdateRole(a) \/ ListSessions(a) \/ EvictNone(a)
      PROVE  SessionInv'
  BY <1>4, UpdateRolePreserves, ListSessionsPreserves, EvictNonePreserves
<1>5. ASSUME NEW a \in Admins, NEW s \in Sessions, Evict(a, s) PROVE SessionInv'
  BY <1>5, EvictPreserves
<1>6. CASE UNCHANGED vars
  BY <1>6 DEF vars, SessionInv, SessionTypes, UnbornAbsent, EntriesCovered, LoadsCovered,
              WillEvict, WillList
<1>. QED
  BY <1>1, <1>2, <1>3, <1>4, <1>5, <1>6, ChangeScopesPreserves, TickPreserves DEF Next

(* ValidateSession against RevokeSession, EvictSessionsByUser and changes   *)
(* of scopes: in every interleaving of any number of them, a revoked session *)
(* in the cache is one that its eviction came too early for, and old scopes *)
(* are either that or such that no eviction was to correct them.            *)
THEOREM StaleOnlyIfSparedThm == Spec => []StaleOnlyIfSpared
<1>1. SessionInv => StaleOnlyIfSpared
  BY DEF SessionInv, SessionTypes, EntriesCovered, WillEvict, WillList, StaleOnlyIfSpared,
         Hit, Free
<1>. QED
  BY SessionInit, SessionStep, <1>1, PTL DEF Spec

(* The types, and with them the size of the cache: an entry is added to a   *)
(* cache that has room, or in the place of another.                         *)

Entry == [cached : BOOLEAN, age : 0..TTL + 1, rights : 0..MaxRights, spared : BOOLEAN,
          stranded : BOOLEAN]

LEMMA FewerCached ==
  ASSUME TypeOK, Cached' \subseteq Cached
  PROVE  (Cardinality(Cached) <= CacheSize)'
<1>1. IsFiniteSet(Cached)
  BY FS_Subset, CacheAssumption DEF Cached
<1>2. Cardinality(Cached') <= Cardinality(Cached) /\ IsFiniteSet(Cached')
  BY <1>1, FS_Subset
<1>3. Cardinality(Cached') \in Nat /\ Cardinality(Cached) \in Nat
  BY <1>1, <1>2, FS_CardinalityType
<1>. QED
  BY <1>2, <1>3, CacheAssumption DEF TypeOK

LEMMA SpareLoadsType ==
  ASSUME TypeOK, NEW S
  PROVE  SpareLoads(S) \in [Calls -> Load \cup {Idle}]
<1>1. ASSUME NEW c \in Calls PROVE SpareLoads(S)[c] \in Load \cup {Idle}
  <2>1. CASE call[c].at \in {"scopes", "fill"} /\ call[c].session \in S
    <3>1. call[c] \in Load /\ SpareLoads(S)[c] = [call[c] EXCEPT !.spared = TRUE]
      BY <2>1 DEF SpareLoads, TypeOK, Idle
    <3>. QED
      BY <3>1 DEF Load
  <2>2. CASE ~(call[c].at \in {"scopes", "fill"} /\ call[c].session \in S)
    BY <2>2 DEF SpareLoads, TypeOK
  <2>. QED
    BY <2>1, <2>2
<1>. QED
  BY <1>1 DEF SpareLoads

LEMMA StrandTypes ==
  ASSUME TypeOK, NEW r
  PROVE  /\ StrandEntries(r) \in [Sessions -> Entry]
         /\ \A s \in Sessions : StrandEntries(r)[s].cached = cache[s].cached
         /\ StrandLoads(r) \in [Calls -> Load \cup {Idle}]
<1>1. ASSUME NEW s \in Sessions
      PROVE  StrandEntries(r)[s] \in Entry /\ StrandEntries(r)[s].cached = cache[s].cached
  <2>1. cache[s] \in Entry
    BY DEF TypeOK, Entry
  <2>. QED
    BY <2>1 DEF StrandEntries, Entry
<1>2. ASSUME NEW c \in Calls PROVE StrandLoads(r)[c] \in Load \cup {Idle}
  <2>1. CASE call[c].at = "fill" /\ call[c].rights < r
    <3>1. call[c] \in Load /\ StrandLoads(r)[c] = [call[c] EXCEPT !.stranded = TRUE]
      BY <2>1 DEF StrandLoads, TypeOK, Idle
    <3>. QED
      BY <3>1 DEF Load
  <2>2. CASE ~(call[c].at = "fill" /\ call[c].rights < r)
    BY <2>2 DEF StrandLoads, TypeOK
  <2>. QED
    BY <2>1, <2>2
<1>3. /\ StrandEntries(r) = [s \in Sessions |-> StrandEntries(r)[s]]
      /\ StrandLoads(r) = [c \in Calls |-> StrandLoads(r)[c]]
  BY DEF StrandEntries, StrandLoads
<1>. QED
  BY <1>1, <1>2, <1>3

LEMMA LoadTyped ==
  ASSUME TypeOK, NEW c \in Calls, call[c].at # "idle"
  PROVE  call[c] \in Load
BY DEF TypeOK, Idle

LEMMA FillTyped ==
  ASSUME TypeOK, NEW c \in Calls, Fill(c)
  PROVE  TypeOK'
<1>. DEFINE s == call[c].session
            e == [cached |-> TRUE, age |-> 0, rights |-> call[c].rights,
                  spared |-> call[c].spared, stranded |-> call[c].stranded]
<1>1. /\ s \in Sessions /\ e \in Entry /\ e.cached
      /\ cache \in [Sessions -> Entry]
      /\ \/ /\ s \in Cached \/ Cardinality(Cached) < CacheSize
            /\ cache' = [cache EXCEPT ![s] = e]
         \/ \E x \in Cached : s \notin Cached /\ cache' = [cache EXCEPT ![x] = NoEntry, ![s] = e]
  <2>1. call[c] \in Load /\ rights \in Nat
    BY LoadTyped, CacheAssumption DEF Fill, TypeOK
  <2>2. s \in Sessions /\ e \in Entry /\ e.cached
    BY <2>1, CacheAssumption DEF Load, Entry
  <2>3. cache \in [Sessions -> Entry]
    BY DEF TypeOK, Entry
  <2>. QED
    BY <2>2, <2>3 DEF Fill
<1>. HIDE DEF s, e
<1>2. IsFiniteSet(Cached) /\ Cardinality(Cached) \in Nat /\ Cached \subseteq Sessions
  BY FS_Subset, FS_CardinalityType, CacheAssumption DEF Cached
<1>3. /\ cache' \in [Sessions -> Entry]
      /\ Cardinality(Cached') <= CacheSize
  <2>1. CASE (s \in Cached \/ Cardinality(Cached) < CacheSize) /\ cache' = [cache EXCEPT ![s] = e]
    <3>1. cache' \in [Sessions -> Entry] /\ Cached' = Cached \cup {s}
      BY <2>1, <1>1 DEF Cached
    <3>2. Cardinality(Cached \cup {s}) = IF s \in Cached THEN Cardinality(Cached)
                                         ELSE Cardinality(Cached) + 1
      BY <1>2, FS_AddElement
    <3>. QED
      BY <2>1, <3>1, <3>2, <1>2, CacheAssumption DEF TypeOK
  <2>2. ASSUME NEW x \in Cached, s \notin Cached,
               cache' = [cache EXCEPT ![x] = NoEntry, ![s] = e]
        PROVE  cache' \in [Sessions -> Entry] /\ Cardinality(Cached') <= CacheSize
    <3>1. NoEntry \in Entry /\ ~NoEntry.cached
      BY CacheAssumption DEF NoEntry, Entry
    <3>2. cache' \in [Sessions -> Entry] /\ Cached' = (Cached \ {x}) \cup {s}
      BY <2>2, <3>1, <1>1, <1>2 DEF Cached
    <3>3. IsFiniteSet(Cached \ {x}) /\ Cardinality(Cached \ {x}) = Cardinality(Cached) - 1
      BY <2>2, <1>2, FS_RemoveElement
    <3>4. Cardinality((Cached \ {x}) \cup {s}) = Cardinality(Cached \ {x}) + 1
      BY <2>2, <3>3, FS_AddElement
    <3>. QED
      BY <3>2, <3>3, <3>4, <1>2, CacheAssumption DEF TypeOK
  <2>. QED
    BY <1>1, <2>1, <2>2
<1>4. call' \in [Calls -> Load \cup {Idle}]
  BY DEF Fill, TypeOK
<1>. QED
  BY <1>3, <1>4 DEF Fill, TypeOK, Entry

LEMMA SessionTypeStep == TypeOK /\ [Next]_vars => TypeOK'
<1>. SUFFICES ASSUME TypeOK, [Next]_vars PROVE TypeOK'
  OBVIOUS
<1>. USE CacheAssumption
<1>1. NoEntry \in Entry /\ ~NoEntry.cached
  BY DEF NoEntry, Entry
<1>2. cache \in [Sessions -> Entry]
  BY DEF TypeOK, Entry
<1>3. ASSUME NEW c \in Calls, NEW s \in Sessions, Create(c, s) \/ RefuseHit(c, s) \/ Miss(c, s)
      PROVE  TypeOK'
  <2>1. cache' \in [Sessions -> Entry] /\ Cached' \subseteq Cached
    BY <1>1, <1>2, <1>3 DEF Create, RefuseHit, Miss, Cached
  <2>2. call' \in [Calls -> Load \cup {Idle}]
    <3>1. /\ Loading(s, "scopes", 0, FALSE, FALSE) \in Load
          /\ Loading(s, "row", 0, FALSE, FALSE) \in Load
      BY DEF Loading, Load
    <3>2. PICK l \in Load \cup {Idle} : call' = call \/ call' = [call EXCEPT ![c] = l]
      BY <1>3, <3>1 DEF Create, RefuseHit, Miss
    <3>. QED
      BY <3>2 DEF TypeOK
  <2>. QED
    BY <1>3, <2>1, <2>2, FewerCached DEF Create, RefuseHit, Miss, TypeOK, Entry
<1>4. ASSUME NEW c \in Calls, ReadRow(c) \/ ReadScopes(c) PROVE TypeOK'
  <2>1. call' \in [Calls -> Load \cup {Idle}]
    <3>1. call[c] \in Load
      BY <1>4, LoadTyped DEF ReadRow, ReadScopes
    <3>2. /\ Loading(call[c].session, "scopes", 0, FALSE, FALSE) \in Load
          /\ Loading(call[c].session, "fill", rights, call[c].spared, FALSE) \in Load
          /\ Loading(call[c].session, "fill", 0, call[c].spared, TRUE) \in Load
      BY <3>1 DEF Loading, Load, TypeOK
    <3>3. PICK l \in Load \cup {Idle} : call' = [call EXCEPT ![c] = l]
      BY <1>4, <3>2 DEF ReadRow, ReadScopes
    <3>. QED
      BY <3>3 DEF TypeOK
  <2>2. Cached' \subseteq Cached
    BY <1>4 DEF ReadRow, ReadScopes, Cached
  <2>. QED
    BY <1>4, <2>1, <2>2, FewerCached DEF ReadRow, ReadScopes, TypeOK
<1>5. ASSUME NEW c \in Calls, Fill(c) PROVE TypeOK'
  BY <1>5, FillTyped
<1>6. ASSUME NEW a \in Admins,
             (\E S \in SUBSET rows : Revoke(a, S)) \/ UpdateRole(a) \/ EvictNone(a)
      PROVE  TypeOK'
  <2>1. UNCHANGED <<cache, call, unborn>> /\ Cached' \subseteq Cached
    BY <1>6 DEF Revoke, UpdateRole, EvictNone, Cached
  <2>2. rows' \subseteq Sessions /\ rights' \in 1..MaxRights
    BY <1>6 DEF Revoke, UpdateRole, EvictNone, TypeOK
  <2>3. admin' \in [Admins -> AdminRecord]
    BY <1>6 DEF Revoke, UpdateRole, EvictNone, TypeOK, AdminRecord, Free
  <2>. QED
    BY <2>1, <2>2, <2>3, FewerCached DEF TypeOK, AdminRecord
<1>7. ASSUME NEW a \in Admins, ListSessions(a) PROVE TypeOK'
  <2>1. \/ UNCHANGED <<call, cache>>
        \/ call' = StrandLoads(rights) /\ cache' = StrandEntries(rights)
    BY <1>7 DEF ListSessions
  <2>2. /\ call' \in [Calls -> Load \cup {Idle}]
        /\ cache' \in [Sessions -> Entry] /\ Cached' \subseteq Cached
    BY <1>2, <2>1, StrandTypes DEF TypeOK, Cached
  <2>3. admin' \in [Admins -> AdminRecord]
    BY <1>7 DEF ListSessions, TypeOK, AdminRecord, Free
  <2>. QED
    BY <1>7, <2>2, <2>3, FewerCached DEF ListSessions, TypeOK, AdminRecord, Entry
<1>8. ASSUME NEW a \in Admins, NEW s \in Sessions, Evict(a, s) PROVE TypeOK'
  <2>1. call' \in [Calls -> Load \cup {Idle}]
    BY <1>8, SpareLoadsType DEF Evict
  <2>2. cache' \in [Sessions -> Entry] /\ Cached' \subseteq Cached
    BY <1>1, <1>2, <1>8 DEF Evict, Cached
  <2>3. admin' \in [Admins -> AdminRecord]
    <3>1. admin[a] \in AdminRecord
      BY DEF TypeOK, AdminRecord
    <3>2. PICK r \in AdminRecord : admin' = [admin EXCEPT ![a] = r]
      BY <1>8, <3>1 DEF Evict, AdminRecord, Free
    <3>. QED
      BY <3>2 DEF TypeOK, AdminRecord
  <2>. QED
    BY <1>8, <2>1, <2>2, <2>3, FewerCached DEF Evict, TypeOK, AdminRecord, Entry
<1>9. CASE Tick
  <2>1. ASSUME NEW s \in Sessions
        PROVE  cache'[s] \in Entry /\ cache'[s].cached = cache[s].cached
    BY <1>2, <1>9 DEF Tick, Entry
  <2>2. cache' \in [Sessions -> Entry] /\ Cached' \subseteq Cached
    BY <1>9, <2>1 DEF Tick, Cached
  <2>. QED
    BY <1>9, <2>2, FewerCached DEF Tick, TypeOK, Entry
<1>10. CASE ChangeScopes
  <2>1. cache' = StrandEntries(rights') /\ call' = StrandLoads(rights') /\ rights' \in 1..MaxRights
    BY <1>10 DEF ChangeScopes, TypeOK
  <2>2. /\ call' \in [Calls -> Load \cup {Idle}]
        /\ cache' \in [Sessions -> Entry] /\ Cached' \subseteq Cached
    BY <2>1, StrandTypes DEF TypeOK, Cached
  <2>. QED
    BY <1>10, <2>1, <2>2, FewerCached DEF ChangeScopes, TypeOK, Entry
<1>11. CASE UNCHANGED vars
  BY <1>11 DEF TypeOK, vars, Cached
<1>. QED
  BY <1>3, <1>4, <1>5, <1>6, <1>7, <1>8, <1>9, <1>10, <1>11 DEF Next

LEMMA SessionTypeInit == Init => TypeOK
<1>. SUFFICES ASSUME Init PROVE TypeOK
  OBVIOUS
<1>1. Cached = {}
  BY DEF Init, Cached, NoEntry
<1>. QED
  BY <1>1, FS_EmptySet, CacheAssumption DEF Init, TypeOK, NoEntry, Free

-----------------------------------------------------------------------------
(* The counters: what a node believes can come from a snapshot taken long   *)
(* ago, so the bound must hold of the snapshots on their way as well.       *)

\* A pair of vectors that counts for nobody more than the truth.
Modest(p, q) == \A m \in Nodes : p[m] <= ups[m] /\ q[m] <= downs[m]

GossipModest == \A snap \in gossip : Modest(snap.p, snap.n)

CounterInv == Counter!TypeOK /\ GossipModest /\ Counter!CountsExact

LEMMA JoinFacts ==
  ASSUME NEW a \in Counter!Vector, NEW b \in Counter!Vector
  PROVE  /\ Counter!Join(a, b) \in Counter!Vector
         /\ \A m \in Nodes : /\ Counter!Join(a, b)[m] \in {a[m], b[m]}
                             /\ a[m] <= Counter!Join(a, b)[m]
BY DEF Counter!Join, Counter!Larger, Counter!Vector

LEMMA CounterInit == Counter!Init => CounterInv
BY DEF Counter!Init, Counter!Empty, CounterInv, Counter!TypeOK, GossipModest, Modest,
       Counter!CountsExact, Counter!Vector

LEMMA IncrementPreserves ==
  ASSUME CounterInv, NEW n \in Nodes, Counter!Increment(n)
  PROVE  CounterInv'
<1>. USE DEF CounterInv, Counter!Increment, Counter!Vector
<1>1. Counter!TypeOK'
  BY DEF Counter!TypeOK
<1>2. \A m \in Nodes : ups[m] <= ups'[m]
  BY DEF Counter!TypeOK
<1>3. GossipModest'
  <2>. SUFFICES ASSUME NEW snap \in gossip, NEW m \in Nodes
                PROVE  snap.p[m] <= ups'[m] /\ snap.n[m] <= downs[m]
    BY DEF GossipModest, Modest
  <2>1. snap.p[m] <= ups[m] /\ snap.n[m] <= downs[m]
    BY DEF GossipModest, Modest
  <2>2. snap.p[m] \in Nat /\ ups[m] \in Nat /\ ups'[m] \in Nat
    BY <1>1 DEF Counter!TypeOK
  <2>. QED
    BY <1>2, <2>1, <2>2
<1>4. Counter!CountsExact'
  BY DEF Counter!CountsExact, Counter!TypeOK
<1>. QED
  BY <1>1, <1>3, <1>4

LEMMA DecrementPreserves ==
  ASSUME CounterInv, NEW n \in Nodes, Counter!Decrement(n)
  PROVE  CounterInv'
<1>. USE DEF CounterInv, Counter!Decrement, Counter!Vector
<1>1. Counter!TypeOK'
  BY DEF Counter!TypeOK
<1>2. \A m \in Nodes : downs[m] <= downs'[m]
  BY DEF Counter!TypeOK
<1>3. GossipModest'
  <2>. SUFFICES ASSUME NEW snap \in gossip, NEW m \in Nodes
                PROVE  snap.p[m] <= ups[m] /\ snap.n[m] <= downs'[m]
    BY DEF GossipModest, Modest
  <2>1. snap.p[m] <= ups[m] /\ snap.n[m] <= downs[m]
    BY DEF GossipModest, Modest
  <2>2. snap.n[m] \in Nat /\ downs[m] \in Nat /\ downs'[m] \in Nat
    BY <1>1 DEF Counter!TypeOK
  <2>. QED
    BY <1>2, <2>1, <2>2
<1>4. Counter!CountsExact'
  BY DEF Counter!CountsExact, Counter!TypeOK
<1>. QED
  BY <1>1, <1>3, <1>4

LEMMA SnapshotPreserves ==
  ASSUME CounterInv, NEW n \in Nodes, Counter!Snapshot(n)
  PROVE  CounterInv'
<1>. USE DEF CounterInv, Counter!Snapshot, Counter!history
<1>1. Counter!TypeOK'
  BY DEF Counter!TypeOK
<1>2. Modest(P[n], N[n])
  BY DEF Counter!CountsExact, Modest
<1>3. GossipModest'
  BY <1>2 DEF GossipModest, Modest
<1>4. Counter!CountsExact'
  BY DEF Counter!CountsExact
<1>. QED
  BY <1>1, <1>3, <1>4

\* A merge keeps the receiver's own entry: what arrives is bounded by it.
LEMMA MergePreserves ==
  ASSUME CounterInv, NEW n \in Nodes, NEW snap \in gossip, Counter!MergeRemote(n, snap)
  PROVE  CounterInv'
<1>. USE DEF CounterInv, Counter!MergeRemote, Counter!history
<1>1. /\ snap.p \in Counter!Vector /\ snap.n \in Counter!Vector
      /\ P[n] \in Counter!Vector /\ N[n] \in Counter!Vector
  BY DEF Counter!TypeOK
<1>2. /\ Counter!Join(P[n], snap.p) \in Counter!Vector /\ Counter!Join(N[n], snap.n) \in Counter!Vector
      /\ \A m \in Nodes : Counter!Join(P[n], snap.p)[m] \in {P[n][m], snap.p[m]}
                          /\ P[n][m] <= Counter!Join(P[n], snap.p)[m]
      /\ \A m \in Nodes : Counter!Join(N[n], snap.n)[m] \in {N[n][m], snap.n[m]}
                          /\ N[n][m] <= Counter!Join(N[n], snap.n)[m]
  BY <1>1, JoinFacts
<1>3. Counter!TypeOK'
  BY <1>2 DEF Counter!TypeOK
<1>4. GossipModest'
  BY DEF GossipModest, Modest
<1>5. /\ P' = [P EXCEPT ![n] = Counter!Join(P[n], snap.p)]
      /\ N' = [N EXCEPT ![n] = Counter!Join(N[n], snap.n)]
      /\ DOMAIN P = Nodes /\ DOMAIN N = Nodes
  BY DEF Counter!TypeOK
<1>6. Modest(snap.p, snap.n) /\ Modest(P[n], N[n])
  BY DEF GossipModest, Counter!CountsExact, Modest
<1>7. ASSUME NEW k \in Nodes, NEW m \in Nodes
      PROVE  P'[k][m] <= ups[m] /\ N'[k][m] <= downs[m]
  <2>1. CASE k = n
    BY <2>1, <1>2, <1>5, <1>6 DEF Modest
  <2>2. CASE k # n
    BY <2>2, <1>5 DEF Counter!CountsExact
  <2>. QED
    BY <2>1, <2>2
<1>8. ASSUME NEW k \in Nodes \ collected
      PROVE  P'[k][k] = ups[k] /\ N'[k][k] = downs[k]
  <2>1. P[k][k] = ups[k] /\ N[k][k] = downs[k]
    BY DEF Counter!CountsExact
  <2>2. ups[k] \in Nat /\ downs[k] \in Nat /\ P'[k][k] \in Nat /\ N'[k][k] \in Nat
    BY <1>3 DEF Counter!TypeOK, Counter!Vector
  <2>3. P[k][k] <= P'[k][k] /\ N[k][k] <= N'[k][k]
    <3>1. CASE k = n
      BY <3>1, <1>2, <1>5
    <3>2. CASE k # n
      BY <3>2, <1>5, <2>1, <2>2
    <3>. QED
      BY <3>1, <3>2
  <2>4. P'[k][k] <= ups[k] /\ N'[k][k] <= downs[k]
    BY <1>7
  <2>. QED
    BY <2>1, <2>2, <2>3, <2>4
<1>9. Counter!CountsExact'
  BY <1>7, <1>8 DEF Counter!CountsExact
<1>. QED
  BY <1>3, <1>4, <1>9

LEMMA ExpirePreserves ==
  ASSUME CounterInv, NEW n \in Nodes, Counter!Expire(n)
  PROVE  CounterInv'
BY DEF CounterInv, Counter!TypeOK, GossipModest, Modest, Counter!CountsExact,
       Counter!Expire, Counter!history

LEMMA CollectPreserves ==
  ASSUME CounterInv, NEW n \in Nodes, Counter!Collect(n)
  PROVE  CounterInv'
<1>. USE DEF CounterInv, Counter!Collect, Counter!Empty
<1>1. Counter!TypeOK'
  BY DEF Counter!TypeOK, Counter!Vector
<1>2. GossipModest'
  BY DEF GossipModest, Modest
<1>3. Counter!CountsExact'
  BY DEF Counter!CountsExact, Counter!TypeOK, Counter!Vector
<1>. QED
  BY <1>1, <1>2, <1>3

LEMMA CounterStep == CounterInv /\ [Counter!Next]_(Counter!vars) => CounterInv'
<1>. SUFFICES ASSUME CounterInv, [Counter!Next]_(Counter!vars) PROVE CounterInv'
  OBVIOUS
<1>1. ASSUME NEW n \in Nodes, Counter!Increment(n) PROVE CounterInv'
  BY <1>1, IncrementPreserves
<1>2. ASSUME NEW n \in Nodes, Counter!Decrement(n) PROVE CounterInv'
  BY <1>2, DecrementPreserves
<1>3. ASSUME NEW n \in Nodes, Counter!Snapshot(n) PROVE CounterInv'
  BY <1>3, SnapshotPreserves
<1>4. ASSUME NEW n \in Nodes, Counter!Expire(n) PROVE CounterInv'
  BY <1>4, ExpirePreserves
<1>5. ASSUME NEW n \in Nodes, Counter!Collect(n) PROVE CounterInv'
  BY <1>5, CollectPreserves
<1>6. ASSUME NEW n \in Nodes, NEW snap \in gossip, Counter!MergeRemote(n, snap) PROVE CounterInv'
  BY <1>6, MergePreserves
<1>7. CASE UNCHANGED Counter!vars
  BY <1>7 DEF CounterInv, Counter!TypeOK, GossipModest, Modest, Counter!CountsExact,
     Counter!vars, Counter!history
<1>. QED
  BY <1>1, <1>2, <1>3, <1>4, <1>5, <1>6, <1>7 DEF Counter!Next

(* What the nodes keep and send are vectors of natural numbers (PNCounter): *)
(* counting, merging and collecting never leave them.                       *)
THEOREM CounterTypeCorrect == Counter!Spec => []Counter!TypeOK
<1>1. CounterInv => Counter!TypeOK
  BY DEF CounterInv
<1>. QED
  BY CounterInit, CounterStep, <1>1, PTL DEF Counter!Spec

(* However snapshots are lost, repeated, delayed and reordered, and whoever *)
(* collects the counter at whatever moment, nobody overcounts another, and  *)
(* who has not collected knows its own count (PNCounter.Merge).             *)
THEOREM CountsExactThm == Counter!Spec => []CountsExact
<1>1. CounterInv => CountsExact
  BY DEF CounterInv, CountsExact
<1>. QED
  BY CounterInit, CounterStep, <1>1, PTL DEF Counter!Spec

-----------------------------------------------------------------------------
(* The secret cache.                                                        *)

\* An answer from before the last flush is on its way only in a call that
\* was between the backend and the store when the cache was flushed.
AnswersFresh ==
  /\ flushed <= secret
  /\ \A c \in Resolvers : resolve[c] = "store" /\ value[c] < flushed => c \in late

VaultInv == Vault!TypeOK /\ AnswersFresh /\ Vault!FreshAfterFlush

LEMMA VaultStart == Vault!Init => VaultInv
BY VaultAssumption DEF Vault!Init, Vault!NoEntry, VaultInv, Vault!TypeOK, AnswersFresh,
   Vault!FreshAfterFlush, Vault!Hit

LEMMA CallKeeps ==
  ASSUME VaultInv, NEW c \in Resolvers,
         Vault!Miss(c) \/ Vault!Fetch(c) \/ Vault!FetchFails(c) \/ Vault!Store(c)
  PROVE  VaultInv'
<1>. USE VaultAssumption DEF VaultInv
<1>1. CASE Vault!Miss(c) \/ Vault!FetchFails(c)
  BY <1>1 DEF Vault!Miss, Vault!FetchFails, Vault!TypeOK, AnswersFresh,
              Vault!FreshAfterFlush, Vault!Hit
<1>2. CASE Vault!Fetch(c)
  BY <1>2 DEF Vault!Fetch, Vault!TypeOK, AnswersFresh, Vault!FreshAfterFlush, Vault!Hit
<1>3. CASE Vault!Store(c)
  <2>1. Vault!TypeOK'
    BY <1>3 DEF Vault!Store, Vault!TypeOK
  <2>2. AnswersFresh'
    BY <1>3 DEF Vault!Store, Vault!TypeOK, AnswersFresh
  <2>3. Vault!FreshAfterFlush'
    BY <1>3 DEF Vault!Store, Vault!TypeOK, AnswersFresh, Vault!FreshAfterFlush
  <2>. QED
    BY <2>1, <2>2, <2>3
<1>. QED
  BY <1>1, <1>2, <1>3

LEMMA VaultStep == VaultInv /\ [Vault!Next]_(Vault!vars) => VaultInv'
<1>. SUFFICES ASSUME VaultInv, [Vault!Next]_(Vault!vars) PROVE VaultInv'
  OBVIOUS
<1>. USE VaultAssumption DEF VaultInv, Vault!TypeOK, AnswersFresh, Vault!FreshAfterFlush, Vault!Hit
<1>1. CASE Vault!Update
  BY <1>1 DEF Vault!Update
<1>2. CASE Vault!Flush
  BY <1>2 DEF Vault!Flush, Vault!NoEntry
<1>3. CASE Vault!Tick
  BY <1>3 DEF Vault!Tick
<1>4. CASE UNCHANGED Vault!vars
  BY <1>4 DEF Vault!vars
<1>. QED
  BY <1>1, <1>2, <1>3, <1>4, CallKeeps DEF Vault!Next

(* However Resolve calls, rotations, flushes and expiry interleave, with any *)
(* number of calls: after a flush the cache answers an older value only if a *)
(* call that had asked the backend before it stored its answer after it      *)
(* (vault/cache.go).                                                        *)
THEOREM FreshAfterFlushThm == Vault!Spec => []FreshAfterFlush
<1>1. VaultInv => FreshAfterFlush
  BY DEF VaultInv, FreshAfterFlush
<1>. QED
  BY VaultStart, VaultStep, <1>1, PTL DEF Vault!Spec

-----------------------------------------------------------------------------
(* The sync pipeline.                                                       *)

Processes == Sync!Writers \cup {Agent}

\* One transaction at a time, and nobody has seen what is not committed.
SyncBounds ==
  /\ \A v, w \in Sync!Writers : at[v] = "commit" /\ at[w] = "commit" => v = w
  /\ Sync!InTransaction => version < begun
  /\ at[Agent] # "commit"
  /\ caddy <= version
  /\ \A p \in Processes : built[p] <= version

\* An event is on its way to the agent's next read.
Announced == notify > 0 \/ inbox > 0 \/ at[Agent] \in {"timer", "read"}

\* The agent has read the latest configuration and will push it.
Underway == at[Agent] = "push" /\ built[Agent] = version

\* What Caddy does not run yet is announced or underway, what a transaction
\* is about to commit is announced.
NothingForgotten ==
  running /\ reasons = {} =>
    /\ Sync!InTransaction => Announced
    /\ caddy # version => Announced \/ Underway

SyncInv == Sync!TypeOK /\ SyncBounds /\ NothingForgotten

LEMMA SyncStart == Sync!Init => SyncInv
<1>. SUFFICES ASSUME Sync!Init PROVE SyncInv
  OBVIOUS
<1>. USE SyncAssumption DEF Sync!Init, Sync!Bare
<1>1. Sync!TypeOK
  <2>1. /\ at \in [Processes -> {"idle"}] /\ built \in [Processes -> {0}]
        /\ version = 0 /\ begun = 0 /\ notify = 0 /\ inbox = 0
        /\ caddy \in {0, -1} /\ running \in BOOLEAN /\ reasons \subseteq {"failed"}
    BY DEF Processes
  <2>. HIDE DEF Sync!Init
  <2>. QED
    BY <2>1 DEF Sync!TypeOK, Processes
<1>2. SyncBounds
  BY DEF SyncBounds, Sync!InTransaction, Processes, Sync!Writers
<1>3. NothingForgotten
  BY DEF NothingForgotten, Sync!InTransaction, Sync!Writers
<1>. QED
  BY <1>1, <1>2, <1>3 DEF SyncInv

LEMMA WriteKeeps ==
  ASSUME SyncInv, NEW w \in Sync!Writers, Sync!Write(w)
  PROVE  SyncInv'
<1>. USE SyncAssumption
     DEF SyncInv, Sync!Write, Sync!Goto, Sync!Writers, Processes
<1>1. Sync!TypeOK'
  <2>1. at' \in [Processes -> {"idle", "commit", "timer", "read", "push"}]
    BY DEF Sync!TypeOK
  <2>2. reasons' \subseteq {"lost", "early", "outage", "failed", "overtaken"}
    BY DEF Sync!TypeOK
  <2>3. /\ version' \in 0..MaxChanges /\ begun' \in 0..MaxChanges /\ version' <= begun'
        /\ notify' \in 0..NotifyCap /\ inbox' \in 0..InboxCap /\ running' \in BOOLEAN
        /\ built' \in [Processes -> Sync!Bare..MaxChanges] /\ caddy' \in Sync!Bare..MaxChanges
    BY DEF Sync!TypeOK, SyncBounds
  <2>. QED
    BY <2>1, <2>2, <2>3 DEF Sync!TypeOK
<1>2. SyncBounds'
  BY DEF Sync!TypeOK, SyncBounds, Sync!InTransaction
<1>3. NothingForgotten'
  BY DEF Sync!TypeOK, SyncBounds, NothingForgotten, Sync!InTransaction, Announced, Underway
<1>. QED
  BY <1>1, <1>2, <1>3

LEMMA FinishKeeps ==
  ASSUME SyncInv, NEW w \in Sync!Writers, Sync!Finish(w)
  PROVE  SyncInv'
<1>. USE SyncAssumption
     DEF SyncInv, Sync!Finish, Sync!Commit, Sync!Rollback, Sync!Goto, Sync!Writers, Processes,
         Sync!events, Sync!store
<1>0. w # Agent /\ at[w] = "commit" /\ Sync!InTransaction
  BY DEF Sync!InTransaction
<1>1. Sync!TypeOK'
  <2>1. at' \in [Processes -> {"idle", "commit", "timer", "read", "push"}]
    BY <1>0 DEF Sync!TypeOK
  <2>2. reasons' \subseteq {"lost", "early", "outage", "failed", "overtaken"}
    BY DEF Sync!TypeOK
  <2>3. /\ version' \in 0..MaxChanges /\ begun' \in 0..MaxChanges /\ version' <= begun'
        /\ notify' \in 0..NotifyCap /\ inbox' \in 0..InboxCap /\ running' \in BOOLEAN
        /\ built' \in [Processes -> Sync!Bare..MaxChanges] /\ caddy' \in Sync!Bare..MaxChanges
    BY <1>0 DEF Sync!TypeOK, SyncBounds
  <2>. QED
    BY <2>1, <2>2, <2>3 DEF Sync!TypeOK
<1>2. SyncBounds'
  BY <1>0 DEF Sync!TypeOK, SyncBounds, Sync!InTransaction
<1>3. NothingForgotten'
  BY <1>0 DEF Sync!TypeOK, SyncBounds, NothingForgotten, Sync!InTransaction, Announced, Underway
<1>. QED
  BY <1>1, <1>2, <1>3

LEMMA EventKeeps ==
  ASSUME SyncInv, Sync!Forward \/ Sync!Steal \/ Sync!Receive \/ Sync!Fire \/ Sync!CaddyExits
  PROVE  SyncInv'
<1>. USE SyncAssumption
     DEF SyncInv, Sync!Goto, Sync!Writers, Processes, Sync!events, Sync!store
<1>1. /\ \A w \in Sync!Writers : at'[w] = at[w]
      /\ at'[Agent] \in {at[Agent], "timer", "read", "idle"}
      /\ at' \in [Processes -> {"idle", "commit", "timer", "read", "push"}]
      /\ UNCHANGED <<version, begun, built, caddy>>
      /\ reasons' \in {reasons, reasons \cup {"lost"}}
      /\ notify' \in 0..NotifyCap /\ inbox' \in 0..InboxCap
      /\ running' \in {running, FALSE}
  <2>1. CASE Sync!Forward
    BY <2>1 DEF Sync!TypeOK, Sync!Forward
  <2>2. CASE Sync!Steal
    BY <2>2 DEF Sync!TypeOK, Sync!Steal
  <2>3. CASE Sync!Receive
    BY <2>3 DEF Sync!TypeOK, Sync!Receive
  <2>4. CASE Sync!Fire
    BY <2>4 DEF Sync!TypeOK, Sync!Fire
  <2>5. CASE Sync!CaddyExits
    BY <2>5 DEF Sync!TypeOK, Sync!CaddyExits
  <2>. QED
    BY <2>1, <2>2, <2>3, <2>4, <2>5
<1>2. Sync!InTransaction' <=> Sync!InTransaction
  BY <1>1 DEF Sync!InTransaction
<1>3. Sync!TypeOK'
  BY <1>1 DEF Sync!TypeOK
<1>4. SyncBounds'
  BY <1>1, <1>2 DEF Sync!TypeOK, SyncBounds
<1>5. NothingForgotten'
  <2>1. CASE Sync!Forward
    BY <2>1, <1>1, <1>2 DEF Sync!TypeOK, Sync!Forward, NothingForgotten, Announced, Underway
  <2>2. CASE Sync!Steal
    BY <2>2 DEF Sync!Steal, NothingForgotten
  <2>3. CASE Sync!Receive
    BY <2>3 DEF Sync!TypeOK, Sync!Receive, NothingForgotten, Announced
  <2>4. CASE Sync!Fire
    BY <2>4, <1>2 DEF Sync!TypeOK, Sync!Fire, NothingForgotten, Announced
  <2>5. CASE Sync!CaddyExits
    BY <2>5 DEF Sync!CaddyExits, NothingForgotten
  <2>. QED
    BY <2>1, <2>2, <2>3, <2>4, <2>5
<1>. QED
  BY <1>3, <1>4, <1>5

LEMMA BuildKeeps ==
  ASSUME SyncInv, NEW p \in Sync!Builders, Sync!Step(p)
  PROVE  SyncInv'
<1>. USE SyncAssumption
     DEF SyncInv, Sync!Goto, Sync!Writers, Processes, Sync!Builders, Sync!events, Sync!store
<1>0. ASSUME NEW places, at' = [at EXCEPT ![p] = places],
             at[p] \in {"read", "push"}, places \in {"idle", "push"},
             UNCHANGED <<version, begun, notify, inbox>>, Sync!TypeOK
      PROVE  /\ Sync!InTransaction' <=> Sync!InTransaction
             /\ \A v, w \in Sync!Writers :
                  at'[v] = "commit" /\ at'[w] = "commit" => at[v] = "commit" /\ at[w] = "commit"
             /\ at'[Agent] = "commit" => at[Agent] = "commit"
  BY <1>0 DEF Sync!InTransaction, Sync!TypeOK
<1>1. CASE Sync!Read(p)
  <2>1. Sync!TypeOK'
    BY <1>1 DEF Sync!Read, Sync!TypeOK, Sync!Bare
  <2>2. SyncBounds'
    <3>1. \A q \in Processes : built'[q] \in {built[q], version}
      BY <1>1 DEF Sync!Read, Sync!TypeOK
    <3>2. /\ Sync!InTransaction' <=> Sync!InTransaction
          /\ \A v, w \in Sync!Writers :
               at'[v] = "commit" /\ at'[w] = "commit" => at[v] = "commit" /\ at[w] = "commit"
          /\ at'[Agent] # "commit"
      BY <1>0, <1>1 DEF Sync!Read, SyncBounds
    <3>3. UNCHANGED <<version, begun, caddy>> /\ version \in Nat
      BY <1>1 DEF Sync!Read, Sync!TypeOK
    <3>. QED
      BY <3>1, <3>2, <3>3 DEF SyncBounds
  <2>3. NothingForgotten'
    BY <1>1, <1>0 DEF Sync!Read, Sync!TypeOK, NothingForgotten, Announced, Underway
  <2>. QED
    BY <2>1, <2>2, <2>3
<1>2. CASE Sync!ReadBare(p)
  <2>1. Sync!TypeOK'
    BY <1>2 DEF Sync!ReadBare, Sync!TypeOK, Sync!Bare
  <2>2. SyncBounds'
    <3>1. \A q \in Processes : built'[q] \in {built[q], Sync!Bare}
      BY <1>2 DEF Sync!ReadBare, Sync!TypeOK
    <3>2. /\ Sync!InTransaction' <=> Sync!InTransaction
          /\ \A v, w \in Sync!Writers :
               at'[v] = "commit" /\ at'[w] = "commit" => at[v] = "commit" /\ at[w] = "commit"
          /\ at'[Agent] # "commit"
      BY <1>0, <1>2 DEF Sync!ReadBare, SyncBounds
    <3>3. UNCHANGED <<version, begun, caddy>> /\ version \in Nat /\ Sync!Bare <= version
      BY <1>2 DEF Sync!ReadBare, Sync!TypeOK, Sync!Bare
    <3>. QED
      BY <3>1, <3>2, <3>3 DEF SyncBounds
  <2>3. NothingForgotten'
    BY <1>2 DEF Sync!ReadBare, NothingForgotten
  <2>. QED
    BY <2>1, <2>2, <2>3
<1>3. CASE Sync!ReadFails(p) \/ Sync!PushFails(p)
  <2>1. Sync!TypeOK'
    BY <1>3 DEF Sync!ReadFails, Sync!PushFails, Sync!TypeOK
  <2>2. SyncBounds'
    BY <1>3, <1>0 DEF Sync!ReadFails, Sync!PushFails, Sync!TypeOK, SyncBounds
  <2>3. NothingForgotten'
    BY <1>3 DEF Sync!ReadFails, Sync!PushFails, NothingForgotten
  <2>. QED
    BY <2>1, <2>2, <2>3
<1>4. CASE Sync!Push(p)
  <2>1. Sync!TypeOK'
    BY <1>4 DEF Sync!Push, Sync!TypeOK
  <2>2. SyncBounds'
    BY <1>4, <1>0 DEF Sync!Push, Sync!TypeOK, SyncBounds
  <2>3. NothingForgotten'
    <3>1. CASE built[p] = version
      <4>1. caddy' = version' /\ (Sync!InTransaction /\ reasons' = {} => reasons = {})
        BY <1>4, <3>1 DEF Sync!Push, Sync!TypeOK
      <4>2. Announced => Announced'
        BY <1>4 DEF Sync!Push, Sync!TypeOK, Announced
      <4>. QED
        BY <4>1, <4>2, <1>4, <1>0 DEF Sync!Push, Sync!TypeOK, NothingForgotten, Underway
    <3>2. CASE built[p] # version
      <4>1. reasons' = {} => reasons = {} /\ caddy # version
        BY <1>4, <3>2 DEF Sync!Push, Sync!TypeOK, SyncBounds
      <4>2. (Announced => Announced') /\ (Underway => Underway')
        BY <1>4, <3>2 DEF Sync!Push, Sync!TypeOK, Announced, Underway
      <4>. QED
        BY <4>1, <4>2, <1>4, <1>0 DEF Sync!Push, Sync!TypeOK, NothingForgotten
    <3>. QED
      BY <3>1, <3>2
  <2>. QED
    BY <2>1, <2>2, <2>3
<1>. QED
  BY <1>1, <1>2, <1>3, <1>4 DEF Sync!Step

LEMMA SyncStep == SyncInv /\ [Sync!Next]_(Sync!vars) => SyncInv'
<1>. SUFFICES ASSUME SyncInv, [Sync!Next]_(Sync!vars) PROVE SyncInv'
  OBVIOUS
<1>1. ASSUME NEW w \in Sync!Writers, Sync!Write(w) \/ Sync!Finish(w) PROVE SyncInv'
  BY <1>1, WriteKeeps, FinishKeeps
<1>2. ASSUME NEW p \in Sync!Builders, Sync!Step(p) PROVE SyncInv'
  BY <1>2, BuildKeeps
<1>3. CASE UNCHANGED Sync!vars
  BY <1>3 DEF Sync!vars, Sync!store, Sync!events, SyncInv, Sync!TypeOK, SyncBounds, Processes,
     NothingForgotten, Sync!InTransaction, Announced, Underway
<1>. QED
  BY <1>1, <1>2, <1>3, EventKeeps DEF Sync!Next

(* However writes, events, timers, compilations and pushes interleave, with  *)
(* any number of handlers and channels of any size: Caddy is left behind the *)
(* store only by one of the mishaps that `reasons` names (sync/agent.go,     *)
(* gateway/caddy_reload_hook.go).                                           *)
THEOREM StaleHasReasonThm == Sync!Spec => []StaleHasReason
<1>1. SyncInv => StaleHasReason
  BY DEF SyncInv, NothingForgotten, StaleHasReason, Sync!StaleHasReason, Sync!Quiet,
     Announced, Underway
<1>. QED
  BY SyncStart, SyncStep, <1>1, PTL DEF Sync!Spec
-----------------------------------------------------------------------------
(* Side by side, the components keep their types: the indices of the ring   *)
(* (RingBuffer.Push) stay in range, and neither the session cache (LRU.Set) *)
(* nor the channels of the sync pipeline hold more than they have room for. *)
THEOREM TypesOKThm ==
  /\ Spec /\ Ring!Spec /\ Sums!Spec /\ Vault!Spec /\ Counter!Spec /\ Sync!Spec
  => []TypesOK
<1>1. RingInv => Ring!TypeOK
  BY DEF RingInv
<1>2. SumsInv => Sums!TypeOK
  BY DEF SumsInv
<1>3. VaultInv => Vault!TypeOK
  BY DEF VaultInv
<1>4. SyncInv => Sync!TypeOK
  BY DEF SyncInv
<1>5. Spec => []TypeOK
  BY SessionTypeInit, SessionTypeStep, PTL DEF Spec
<1>6. Ring!Spec => []Ring!TypeOK
  BY RingStart, RingStep, <1>1, PTL DEF Ring!Spec
<1>7. Sums!Spec => []Sums!TypeOK
  BY SumsStart, SumsStep, <1>2, PTL DEF Sums!Spec
<1>8. Vault!Spec => []Vault!TypeOK
  BY VaultStart, VaultStep, <1>3, PTL DEF Vault!Spec
<1>9. Sync!Spec => []Sync!TypeOK
  BY SyncStart, SyncStep, <1>4, PTL DEF Sync!Spec
<1>10. TypesOK <=> /\ TypeOK /\ Ring!TypeOK /\ Sums!TypeOK
                   /\ Vault!TypeOK /\ Counter!TypeOK /\ Sync!TypeOK
  BY DEF TypesOK
<1>. QED
  BY <1>5, <1>6, <1>7, <1>8, <1>9, <1>10, CounterTypeCorrect, PTL
=============================================================================
