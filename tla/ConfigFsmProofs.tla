--------------------------- MODULE ConfigFsmProofs ---------------------------
(***************************************************************************)
(* Lemmas about the commands and batches of ConfigFsm, for any ids.  The    *)
(* outcomes of a batch are a recursive function; what is proved about them  *)
(* goes by the least counterexample, with NatMinimum in place of induction. *)
(***************************************************************************)
EXTENDS ConfigFsm, NaturalsInduction, WellFoundedInduction, TLAPS

-----------------------------------------------------------------------------
(* What one command does.                                                   *)

(* Every command leaves a well-typed database (fsm.go, applyCommand).       *)
LEMMA EffectType ==
  ASSUME NEW d \in Db, NEW c \in Command
  PROVE  Effect(d, c) \in Db
<1>. USE DEF Db, Command, Effect
<1>1. CASE c.op = "put_route"
  BY <1>1 DEF PutRoute
<1>2. CASE c.op = "delete_route"
  BY <1>2 DEF DeleteRoute
<1>3. CASE c.op = "create_service"
  BY <1>3 DEF CreateService, StoreUpstreams
<1>4. CASE c.op = "update_service"
  BY <1>4 DEF UpdateService, StoreUpstreams, DropUpstreams
<1>5. CASE c.op = "delete_service"
  BY <1>5 DEF DeleteService, DropUpstreams
<1>6. CASE c.op \in {"put_policy", "delete_policy"}
  BY <1>6 DEF PutPolicy, DeletePolicy
<1>7. CASE c.op \in {"attach_policy", "detach_policy"}
  <2>1. c.id \in Policies /\ c.target \in Targets
    BY <1>7
  <2>2. Effect(d, c) = [d EXCEPT !.bindings = @ \cup {<<c.id, c.target>>}]
        \/ Effect(d, c) = [d EXCEPT !.bindings = @ \ {<<c.id, c.target>>}]
    BY <1>7 DEF AttachPolicy, DetachPolicy
  <2>3. <<c.id, c.target>> \in Policies \X Targets
    BY <2>1
  <2>. HIDE DEF Command, Effect
  <2>. QED
    BY <2>2, <2>3
<1>8. CASE c.op \in {"create_api_key", "revoke_api_key"}
  BY <1>8 DEF CreateAPIKey, RevokeAPIKey
<1>9. CASE c.op = "save_config_version"
  <2>1. c.id \in Snapshots
    BY <1>9
  <2>. DEFINE kept == {v \in d.versions : v[1] # d.counter + 1}
  <2>2. Effect(d, c) = [d EXCEPT !.counter = @ + 1,
                                 !.versions = kept \cup {<<d.counter + 1, c.id>>}]
    BY <1>9 DEF SaveConfigVersion
  <2>3. kept \cup {<<d.counter + 1, c.id>>} \subseteq Nat \X Snapshots
    BY <2>1
  <2>4. d.counter + 1 \in Nat
    OBVIOUS
  <2>. HIDE DEF Command, Effect, kept
  <2>. QED
    BY <2>2, <2>3, <2>4
<1>10. CASE c.op = "append_audit_entry"
  BY <1>10 DEF AppendAuditEntry
<1>. QED
  BY <1>1, <1>2, <1>3, <1>4, <1>5, <1>6, <1>7, <1>8, <1>9, <1>10

(* No command leaves a stored upstream that its own service's index does    *)
(* not list.                                                                *)
LEMMA EffectIndexComplete ==
  ASSUME NEW d \in Db, NEW c \in Command, IndexCompleteIn(d)
  PROVE  IndexCompleteIn(Effect(d, c))
<1>. USE DEF Db, Command, Effect, IndexCompleteIn
<1>1. CASE c.op = "create_service"
  BY <1>1, NoServiceAssumption DEF CreateService, StoreUpstreams
<1>2. CASE c.op = "update_service"
  BY <1>2, NoServiceAssumption DEF UpdateService, StoreUpstreams, DropUpstreams, UpstreamsOf
<1>3. CASE c.op = "delete_service"
  BY <1>3 DEF DeleteService, DropUpstreams, UpstreamsOf
<1>4. CASE c.op \notin {"create_service", "update_service", "delete_service"}
  BY <1>4 DEF PutRoute, DeleteRoute, PutPolicy, DeletePolicy, AttachPolicy, DetachPolicy,
              CreateAPIKey, RevokeAPIKey, SaveConfigVersion, AppendAuditEntry
<1>. QED
  BY <1>1, <1>2, <1>3, <1>4

(* Version numbers stay gapless: the only command that touches them adds    *)
(* the next one.                                                            *)
LEMMA EffectVersions ==
  ASSUME NEW d \in Db, NEW c \in Command, VersionsGaplessIn(d)
  PROVE  VersionsGaplessIn(Effect(d, c))
<1>1. CASE c.op = "save_config_version"
  <2>. DEFINE e == Effect(d, c)
              new == <<d.counter + 1, c.id>>
  <2>1. /\ e.counter = d.counter + 1
        /\ e.versions = {v \in d.versions : v[1] # d.counter + 1} \cup {new}
    BY <1>1 DEF Effect, SaveConfigVersion, Db
  <2>2. d.counter \in Nat /\ d.versions \subseteq Nat \X Snapshots
    BY DEF Db
  <2>3. \A v \in d.versions : v[1] \in 1..d.counter
    BY DEF VersionsGaplessIn
  <2>4. e.versions = d.versions \cup {new}
    BY <2>1, <2>2, <2>3
  <2>5. {v[1] : v \in e.versions} = {v[1] : v \in d.versions} \cup {d.counter + 1}
    BY <2>4, new[1] = d.counter + 1
  <2>6. {v[1] : v \in e.versions} = 1..e.counter
    BY <2>1, <2>2, <2>5 DEF VersionsGaplessIn
  <2>7. \A v, w \in e.versions : v[1] = w[1] => v[2] = w[2]
    BY <2>2, <2>3, <2>4 DEF VersionsGaplessIn
  <2>. QED
    BY <2>6, <2>7 DEF VersionsGaplessIn
<1>2. CASE c.op # "save_config_version"
  <2>1. Effect(d, c).counter = d.counter /\ Effect(d, c).versions = d.versions
    BY <1>2 DEF Db, Command, Effect, PutRoute, DeleteRoute, PutPolicy, DeletePolicy,
                AttachPolicy, DetachPolicy, CreateAPIKey, RevokeAPIKey, AppendAuditEntry,
                CreateService, UpdateService, DeleteService, StoreUpstreams, DropUpstreams
  <2>. QED
    BY <2>1 DEF VersionsGaplessIn
<1>. QED
  BY <1>1, <1>2

(* The hash bucket keeps naming exactly the stored keys.                    *)
LEMMA EffectKeyIndex ==
  ASSUME NEW d \in Db, NEW c \in Command, KeyIndexIn(d), Accepted(d, c)
  PROVE  KeyIndexIn(Effect(d, c))
<1>. USE DEF Db, Command, Effect, KeyIndexIn
<1>1. CASE c.op = "create_api_key"
  <2>1. c.id \in Keys /\ Effect(d, c) = CreateAPIKey(d, c.id)
    BY <1>1
  <2>. HIDE DEF Command, Effect
  <2>. QED
    BY <2>1 DEF CreateAPIKey
<1>2. CASE c.op = "revoke_api_key"
  BY <1>2 DEF RevokeAPIKey, Accepted
<1>3. CASE c.op \notin {"create_api_key", "revoke_api_key"}
  BY <1>3 DEF PutRoute, DeleteRoute, PutPolicy, DeletePolicy, AttachPolicy, DetachPolicy,
              SaveConfigVersion, AppendAuditEntry, CreateService, UpdateService,
              DeleteService, StoreUpstreams, DropUpstreams
<1>. QED
  BY <1>1, <1>2, <1>3

-----------------------------------------------------------------------------
(* What a batch does.                                                       *)

LessThan == {p \in Nat \X Nat : p[1] < p[2]}

(* Every nonempty set of naturals has a least element.                      *)
LEMMA NatMinimum ==
  ASSUME NEW T \in SUBSET Nat, T # {}
  PROVE  \E x \in T : \A y \in T : x <= y
<1>1. IsWellFoundedOn(LessThan, Nat)
  BY NatLessThanWellFounded, Zenon DEF OpToRel, LessThan
<1>2. PICK x \in T : \A y \in T : <<y, x>> \notin LessThan
  BY <1>1, WFMin, Zenon
<1>3. ASSUME NEW y \in T PROVE x <= y
  <2>1. <<y, x>> \in Nat \X Nat
    BY <1>2
  <2>2. <<y, x>>[1] = y /\ <<y, x>>[2] = x
    OBVIOUS
  <2>3. ~(y < x)
    BY <1>2, <2>1, <2>2, Zenon DEF LessThan
  <2>. QED
    BY <1>2, <2>3
<1>. QED
  BY <1>3

(* A set of numbers that every member below n is followed in.               *)
LEMMA Upward ==
  ASSUME NEW n \in Nat, NEW m \in 0..n, NEW S, m \in S,
         \A i \in m..(n - 1) : i \in S => i + 1 \in S
  PROVE  m..n \subseteq S
<1>. DEFINE bad == {i \in Nat : i \in m..n /\ i \notin S}
<1>1. SUFFICES ASSUME bad # {} PROVE FALSE
  OBVIOUS
<1>2. PICK i \in bad : \A j \in bad : i <= j
  <2>. HIDE DEF bad
  <2>. QED
    BY <1>1, NatMinimum DEF bad
<1>3. i \in Nat /\ i \in m..n /\ i \notin S /\ i # m
  BY <1>2
<1>4. i - 1 \in m..(n - 1) /\ i - 1 \in Nat /\ i - 1 < i /\ (i - 1) + 1 = i
  BY <1>3
<1>5. i - 1 \notin bad
  <2>. HIDE DEF bad
  <2>. QED
    BY <1>2, <1>3, <1>4
<1>6. i - 1 \in S
  BY <1>4, <1>5
<1>. QED
  BY <1>3, <1>4, <1>6

(* The recursion of Outcomes is well founded: it starts with the database   *)
(* the batch found, and each command takes the outcome before it.           *)
LEMMA OutcomesUnfold ==
  ASSUME NEW d, NEW batch, Len(batch) \in Nat
  PROVE  LET out == Outcomes(d, batch)
         IN  /\ out[0] = [ok |-> TRUE, db |-> d]
             /\ \A i \in 1..Len(batch) : out[i] = Step(d, out[i - 1], batch[i])
<1>. DEFINE start == [ok |-> TRUE, db |-> d]
            IsRun(f, k) == f = [i \in 0..k |-> IF i = 0 THEN start
                                               ELSE Step(d, f[i - 1], batch[i])]
            bad == {k \in Nat : ~ \E f : IsRun(f, k)}
<1>1. bad = {}
  <2>1. SUFFICES ASSUME bad # {} PROVE FALSE
    OBVIOUS
  <2>2. PICK k \in bad : \A y \in bad : k <= y
    BY <2>1, NatMinimum
  <2>3. k # 0
    <3>. DEFINE f == [i \in 0..0 |-> start]
    <3>1. \A i \in 0..0 : i = 0
      OBVIOUS
    <3>2. IsRun(f, 0)
      BY <3>1
    <3>. QED
      BY <3>2
  <2>4. k - 1 \in Nat /\ k - 1 \notin bad
    <3>1. k \in Nat
      OBVIOUS
    <3>. HIDE DEF bad
    <3>. QED
      BY <2>2, <2>3, <3>1
  <2>5. PICK f : IsRun(f, k - 1)
    BY <2>4
  <2>. DEFINE g == [i \in 0..k |-> IF i = k THEN Step(d, f[k - 1], batch[k]) ELSE f[i]]
  <2>6. \A i \in 0..(k - 1) : f[i] = IF i = 0 THEN start ELSE Step(d, f[i - 1], batch[i])
    BY <2>5
  <2>7. ASSUME NEW i \in 0..k
        PROVE  g[i] = IF i = 0 THEN start ELSE Step(d, g[i - 1], batch[i])
    <3>. HIDE DEF start
    <3>1. CASE i = k
      BY <2>3, <2>4, <3>1
    <3>2. CASE i # k
      <4>1. i \in 0..(k - 1)
        BY <2>4, <3>2
      <4>2. i # 0 => i - 1 \in 0..k /\ i - 1 # k
        BY <4>1
      <4>. QED
        BY <2>6, <4>1, <4>2, <3>2
    <3>. QED
      BY <3>1, <3>2
  <2>8. g = [i \in 0..k |-> IF i = 0 THEN start ELSE Step(d, g[i - 1], batch[i])]
    <3>. DEFINE h == [i \in 0..k |-> IF i = 0 THEN start ELSE Step(d, g[i - 1], batch[i])]
    <3>1. \A i \in 0..k : g[i] = h[i]
      BY <2>7
    <3>. HIDE DEF start
    <3>. QED
      BY <3>1
  <2>. QED
    BY <2>2, <2>8
<1>2. PICK f : IsRun(f, Len(batch))
  BY <1>1
<1>3. Outcomes(d, batch) = CHOOSE run : IsRun(run, Len(batch))
  BY DEF Outcomes
<1>4. IsRun(Outcomes(d, batch), Len(batch))
  BY <1>2, <1>3
<1>. DEFINE out == Outcomes(d, batch)
<1>5. out[0] = start
  <2>. HIDE DEF start, out
  <2>1. out = [i \in 0..Len(batch) |-> IF i = 0 THEN start ELSE Step(d, out[i - 1], batch[i])]
    BY <1>4 DEF out
  <2>. QED
    BY <2>1
<1>6. ASSUME NEW i \in 1..Len(batch) PROVE out[i] = Step(d, out[i - 1], batch[i])
  <2>. HIDE DEF start, out
  <2>1. out = [j \in 0..Len(batch) |-> IF j = 0 THEN start ELSE Step(d, out[j - 1], batch[j])]
    BY <1>4 DEF out
  <2>2. i \in 0..Len(batch) /\ i # 0
    OBVIOUS
  <2>. QED
    BY <2>1, <2>2
<1>. QED
  BY <1>5, <1>6

(* What a batch keeps true of a database: its type, and the three           *)
(* agreements between its buckets that no command breaks.                   *)
Sound(d) ==
  d \in Db /\ IndexCompleteIn(d) /\ KeyIndexIn(d) /\ VersionsGaplessIn(d)

(* A new database is sound.                                                 *)
LEMMA EmptySound == Sound(EmptyDb)
<1>1. EmptyDb \in Db
  BY DEF EmptyDb, Db
<1>2. IndexCompleteIn(EmptyDb) /\ KeyIndexIn(EmptyDb)
  BY DEF EmptyDb, IndexCompleteIn, KeyIndexIn
<1>3. VersionsGaplessIn(EmptyDb)
  BY DEF EmptyDb, VersionsGaplessIn
<1>. QED
  BY <1>1, <1>2, <1>3 DEF Sound

(* An accepted command keeps it sound.                                      *)
LEMMA EffectSound ==
  ASSUME NEW d, Sound(d), NEW c \in Command, Accepted(d, c)
  PROVE  Sound(Effect(d, c))
BY EffectType, EffectIndexComplete, EffectKeyIndex, EffectVersions DEF Sound

(* So does a batch, whether its commands are accepted or it rolls back.     *)
LEMMA BatchSound ==
  ASSUME NEW d, Sound(d), NEW batch \in Seq(Command)
  PROVE  Sound(ApplyBatch(d, batch).db)
<1>. DEFINE out == Outcomes(d, batch)
            bad == {i \in Nat : i <= Len(batch) /\ ~Sound(out[i].db)}
<1>1. /\ Len(batch) \in Nat
      /\ \A i \in 1..Len(batch) : batch[i] \in Command
  OBVIOUS
<1>2. /\ out[0] = [ok |-> TRUE, db |-> d]
      /\ \A i \in 1..Len(batch) : out[i] = Step(d, out[i - 1], batch[i])
  BY <1>1, OutcomesUnfold
<1>. HIDE DEF out
<1>3. bad = {}
  <2>1. SUFFICES ASSUME bad # {} PROVE FALSE
    OBVIOUS
  <2>2. PICK i \in bad : \A j \in bad : i <= j
    BY <2>1, NatMinimum
  <2>3. i \in Nat /\ i <= Len(batch) /\ ~Sound(out[i].db)
    OBVIOUS
  <2>4. i # 0
    BY <1>2, <2>3
  <2>5. i \in 1..Len(batch) /\ i - 1 \in Nat /\ i - 1 < i
    BY <1>1, <2>3, <2>4
  <2>6. i - 1 \notin bad
    <3>. HIDE DEF bad
    <3>. QED
      BY <2>2, <2>3, <2>5
  <2>7. Sound(out[i - 1].db)
    BY <1>1, <2>3, <2>5, <2>6
  <2>8. out[i] = Step(d, out[i - 1], batch[i]) /\ batch[i] \in Command
    BY <1>1, <1>2, <2>5
  <2>9. CASE out[i - 1].ok /\ Accepted(out[i - 1].db, batch[i])
    <3>1. out[i].db = Effect(out[i - 1].db, batch[i])
      BY <2>8, <2>9 DEF Step
    <3>. QED
      BY <2>3, <2>7, <2>8, <2>9, <3>1, EffectSound
  <2>10. CASE ~(out[i - 1].ok /\ Accepted(out[i - 1].db, batch[i]))
    BY <2>3, <2>8, <2>10 DEF Step
  <2>. QED
    BY <2>9, <2>10
<1>. QED
  BY <1>1, <1>3 DEF ApplyBatch, out

(* Rebuilding the index of a sound database changes nothing.                *)
LEMMA RebuildSound ==
  ASSUME NEW d, Sound(d)
  PROVE  RebuildUpstreamIndex(d) = d
<1>1. {<<d.owner[u], u>> : u \in {v \in Upstreams : d.owner[v] # NoService}} \subseteq d.index
  BY DEF Sound, IndexCompleteIn
<1>2. d.index \cup {<<d.owner[u], u>> : u \in {v \in Upstreams : d.owner[v] # NoService}} = d.index
  BY <1>1
<1>3. d \in Db
  BY DEF Sound
<1>. QED
  BY <1>2, <1>3 DEF RebuildUpstreamIndex, Db

-----------------------------------------------------------------------------
(* Upstreams that move between services.                                    *)

\* A command that renews or removes what its service lists.
Renews(c) == c.op \in {"update_service", "delete_service"}

(* The index after a command: what it carries, and what was listed under    *)
(* the services it does not renew.                                          *)
LEMMA EffectIndex ==
  ASSUME NEW d \in Db, NEW c \in Command
  PROVE  Effect(d, c).index =
           Carries(c) \cup {e \in d.index : ~(Renews(c) /\ e[1] = c.id)}
<1>. DEFINE x == Effect(d, c)
<1>1. CASE c.op = "create_service"
  BY <1>1 DEF Effect, CreateService, StoreUpstreams, Db, Carries, Renews
<1>2. CASE c.op = "update_service"
  BY <1>2 DEF Effect, UpdateService, StoreUpstreams, DropUpstreams, Db, Carries, Renews
<1>3. CASE c.op = "delete_service"
  BY <1>3 DEF Effect, DeleteService, DropUpstreams, Db, Carries, Renews
<1>4. CASE c.op \notin {"create_service", "update_service", "delete_service"}
  <2>1. x.index = d.index
    BY <1>4 DEF Db, Command, Effect, PutRoute, DeleteRoute, PutPolicy, DeletePolicy, AttachPolicy,
                DetachPolicy, CreateAPIKey, RevokeAPIKey, SaveConfigVersion, AppendAuditEntry
  <2>. QED
    BY <1>4, <2>1 DEF Carries, Renews
<1>. QED
  BY <1>1, <1>2, <1>3, <1>4

(* The upstreams of a service are those its index lists, when every stored  *)
(* upstream is listed.                                                      *)
LEMMA UpstreamsListed ==
  ASSUME NEW d \in Db, IndexCompleteIn(d), NEW s \in Services
  PROVE  UpstreamsOf(d, s) = {u \in Upstreams : <<s, u>> \in d.index}
BY NoServiceAssumption DEF UpstreamsOf, IndexCompleteIn

(* The owner of an upstream after a command: the service that carries it,   *)
(* nobody if the service that lists it is renewed, or the one before.       *)
LEMMA EffectOwner ==
  ASSUME NEW d \in Db, IndexCompleteIn(d), NEW c \in Command, NEW u \in Upstreams
  PROVE  Effect(d, c).owner[u] =
           IF <<c.id, u>> \in Carries(c) THEN c.id
           ELSE IF Renews(c) /\ <<c.id, u>> \in d.index THEN NoService
           ELSE d.owner[u]
<1>. DEFINE x == Effect(d, c)
<1>1. CASE c.op = "create_service"
  BY <1>1 DEF Effect, CreateService, StoreUpstreams, Command, Db, Carries, Renews
<1>2. CASE c.op = "update_service"
  <2>1. c.id \in Services
    BY <1>2 DEF Command
  <2>2. x.owner[u] = IF u \in c.upstreams THEN c.id
                     ELSE IF u \in UpstreamsOf(d, c.id) THEN NoService ELSE d.owner[u]
    BY <1>2 DEF Effect, UpdateService, StoreUpstreams, DropUpstreams, Db
  <2>. QED
    BY <1>2, <2>1, <2>2, UpstreamsListed DEF Carries, Renews
<1>3. CASE c.op = "delete_service"
  <2>1. c.id \in Services
    BY <1>3 DEF Command
  <2>2. x.owner[u] = IF u \in UpstreamsOf(d, c.id) THEN NoService ELSE d.owner[u]
    BY <1>3 DEF Effect, DeleteService, DropUpstreams, Db
  <2>. QED
    BY <1>3, <2>1, <2>2, UpstreamsListed DEF Carries, Renews
<1>4. CASE c.op \notin {"create_service", "update_service", "delete_service"}
  <2>1. x.owner = d.owner
    BY <1>4 DEF Db, Command, Effect, PutRoute, DeleteRoute, PutPolicy, DeletePolicy, AttachPolicy,
                DetachPolicy, CreateAPIKey, RevokeAPIKey, SaveConfigVersion, AppendAuditEntry
  <2>. QED
    BY <1>4, <2>1 DEF Carries, Renews
<1>. QED
  BY <1>1, <1>2, <1>3, <1>4

\* Two services have carried the upstream, among the pairs carried so far.
SharedIn(pairs, u) ==
  \E s, t \in Services : s # t /\ <<s, u>> \in pairs /\ <<t, u>> \in pairs

(* The index lists only what has been carried, under services that exist,   *)
(* and, but for upstreams that two services have carried, under the owner.  *)
Exact(d, pairs) ==
  /\ d.index \subseteq pairs
  /\ \A e \in d.index : e[1] \in d.services /\ (d.owner[e[2]] = e[1] \/ SharedIn(pairs, e[2]))

LEMMA EffectExact ==
  ASSUME NEW d \in Db, IndexCompleteIn(d), NEW c \in Command, Accepted(d, c),
         NEW pairs \in SUBSET (Services \X Upstreams), Exact(d, pairs)
  PROVE  Exact(Effect(d, c), pairs \cup Carries(c))
<1>. DEFINE x == Effect(d, c)
            all == pairs \cup Carries(c)
<1>1. /\ x.index = Carries(c) \cup {e \in d.index : ~(Renews(c) /\ e[1] = c.id)}
      /\ \A u \in Upstreams :
           x.owner[u] = IF <<c.id, u>> \in Carries(c) THEN c.id
                        ELSE IF Renews(c) /\ <<c.id, u>> \in d.index THEN NoService
                        ELSE d.owner[u]
  BY EffectIndex, EffectOwner
<1>2. /\ Carries(c) \subseteq Services \X Upstreams
      /\ \A e \in Carries(c) : e[1] = c.id /\ c.op \in {"create_service", "update_service"}
      /\ Renews(c) => c.id \in Services
  BY DEF Carries, Command, Renews
<1>3. x.services = IF c.op = "create_service" THEN d.services \cup {c.id}
                   ELSE IF c.op = "delete_service" THEN d.services \ {c.id}
                   ELSE d.services
  BY DEF Db, Command, Effect, PutRoute, DeleteRoute, PutPolicy, DeletePolicy, AttachPolicy,
         DetachPolicy, CreateAPIKey, RevokeAPIKey, SaveConfigVersion, AppendAuditEntry,
         CreateService, UpdateService, DeleteService, StoreUpstreams, DropUpstreams
<1>4. c.op = "update_service" => c.id \in d.services
  BY DEF Accepted
<1>. HIDE DEF x
<1>5. ASSUME NEW e \in Carries(c)
      PROVE  e[1] \in x.services /\ x.owner[e[2]] = e[1]
  <2>1. e = <<c.id, e[2]>> /\ e[2] \in Upstreams
    BY <1>2
  <2>. QED
    BY <1>1, <1>2, <1>3, <1>4, <2>1
<1>6. ASSUME NEW e \in d.index, ~(Renews(c) /\ e[1] = c.id)
      PROVE  e[1] \in x.services /\ (x.owner[e[2]] = e[1] \/ SharedIn(all, e[2]))
  <2>1. e \in pairs /\ e[1] \in Services /\ e[2] \in Upstreams /\ e = <<e[1], e[2]>>
    BY DEF Exact
  <2>2. e[1] \in x.services
    BY <1>3, <1>6 DEF Exact, Renews
  <2>3. CASE e[1] = c.id /\ <<c.id, e[2]>> \in Carries(c)
    BY <1>1, <2>1, <2>2, <2>3
  <2>4. CASE e[1] # c.id /\ <<c.id, e[2]>> \in Carries(c)
    BY <1>2, <2>1, <2>2, <2>4 DEF SharedIn
  <2>5. CASE Renews(c) /\ <<c.id, e[2]>> \in d.index
    BY <1>2, <1>6, <2>1, <2>2, <2>5 DEF SharedIn, Exact
  <2>6. CASE <<c.id, e[2]>> \notin Carries(c) /\ ~(Renews(c) /\ <<c.id, e[2]>> \in d.index)
    <3>1. x.owner[e[2]] = d.owner[e[2]]
      BY <1>1, <2>1, <2>6
    <3>2. SharedIn(pairs, e[2]) => SharedIn(all, e[2])
      BY DEF SharedIn
    <3>. QED
      BY <2>2, <3>1, <3>2 DEF Exact
  <2>. QED
    BY <2>3, <2>4, <2>5, <2>6
<1>7. x.index \subseteq all
  BY <1>1 DEF Exact
<1>. QED
  BY <1>1, <1>5, <1>6, <1>7 DEF Exact, x
=============================================================================
