---------------------------- MODULE FsmStoreProofs ----------------------------
(***************************************************************************)
(* Proofs about FsmStore, for every value of its constants.  Each invariant *)
(* is proved of the committed database and of the working copy together,    *)
(* because a commit publishes the copy and a refused command throws it      *)
(* away.                                                                    *)
(***************************************************************************)
EXTENDS FsmStore, ConfigFsmProofs

WatchTypeOK ==
  /\ watcher \in {"waiting", "pending"} /\ current \in BOOLEAN
  /\ missed \in {"nothing", "uncommitted", "stolen", "unread"}

(* The inductive core: types, and both databases sound.                     *)
SoundInv ==
  /\ Sound(db) /\ Sound(work)
  /\ todo \in Seq(Command) /\ busy \in BOOLEAN
  /\ carried \subseteq Services \X Upstreams
  /\ fsmChan \in 0..FsmCap /\ notify \in 0..NotifyCap
  /\ inHand \in BOOLEAN /\ WatchTypeOK

LEMMA BatchType ==
  ASSUME NEW batch \in Batches
  PROVE  batch \in Seq(Command)
BY BatchesAssumption

\* The pairs a command carries are of services and upstreams.
LEMMA CarriesType ==
  ASSUME NEW c \in Command
  PROVE  Carries(c) \subseteq Services \X Upstreams
BY DEF Carries, Command

LEMMA SoundInit == Init => SoundInv
<1>. SUFFICES ASSUME Init PROVE SoundInv
  OBVIOUS
<1>1. Sound(db) /\ Sound(work)
  BY EmptySound, Zenon DEF Init
<1>2. /\ todo \in Seq(Command)
      /\ fsmChan \in 0..FsmCap /\ notify \in 0..NotifyCap
      /\ carried \subseteq Services \X Upstreams
  BY CapAssumption DEF Init
<1>3. busy \in BOOLEAN /\ inHand \in BOOLEAN /\ WatchTypeOK
  BY Zenon DEF Init, WatchTypeOK
<1>. QED
  BY <1>1, <1>2, <1>3 DEF SoundInv

LEMMA SoundStep == SoundInv /\ [Next]_vars => SoundInv'
<1>. SUFFICES ASSUME SoundInv, [Next]_vars PROVE SoundInv'
  OBVIOUS
<1>. USE DEF SoundInv
<1>0. UNCHANGED watchVars => WatchTypeOK'
  BY Zenon DEF watchVars, WatchTypeOK
<1>1. ASSUME NEW batch \in Batches, Begin(batch) PROVE SoundInv'
  BY <1>0, <1>1, BatchType DEF Begin, eventVars
<1>2. CASE Run
  <2>1. Head(todo) \in Command /\ Tail(todo) \in Seq(Command)
    BY <1>2 DEF Run
  <2>2. Sound(Effect(work, Head(todo)))
    BY <1>2, <2>1, EffectSound DEF Run
  <2>3. fsmChan' \in 0..FsmCap
    BY <1>2, CapAssumption DEF Run, Emit
  <2>4. carried' \subseteq Services \X Upstreams
    BY <1>2, <2>1, CarriesType DEF Run
  <2>. QED
    BY <1>0, <1>2, <2>1, <2>2, <2>3, <2>4 DEF Run
<1>3. CASE Refuse
  <2>1. todo' \in Seq(Command) /\ fsmChan' \in 0..FsmCap /\ notify' \in 0..NotifyCap
    BY <1>3 DEF Refuse, eventVars
  <2>2. /\ Sound(db') /\ Sound(work') /\ busy' \in BOOLEAN
        /\ carried' \subseteq Services \X Upstreams
        /\ inHand' \in BOOLEAN /\ WatchTypeOK'
    BY <1>0, <1>3, Zenon DEF Refuse, eventVars
  <2>. QED
    BY <2>1, <2>2
<1>4. CASE Commit
  <2>1. WatchTypeOK'
    BY <1>4, Zenon DEF Commit, WatchTypeOK
  <2>. QED
    BY <1>4, <2>1 DEF Commit
<1>5. CASE Relay
  <2>1. fsmChan' \in 0..FsmCap /\ notify' \in 0..NotifyCap
    BY <1>5, CapAssumption DEF Relay, RelayTake, RelayPut
  <2>2. /\ Sound(db') /\ Sound(work') /\ todo' \in Seq(Command) /\ busy' \in BOOLEAN
        /\ carried' \subseteq Services \X Upstreams
        /\ inHand' \in BOOLEAN /\ WatchTypeOK'
    BY <1>0, <1>5, Zenon DEF Relay, RelayTake, RelayPut, dbVars
  <2>. QED
    BY <2>1, <2>2
<1>6. CASE Watch
  <2>. USE DEF Watch, WatcherReceive, Steal, WatcherRefresh, RefreshFails, RefreshFromCache
  <2>1. fsmChan' \in 0..FsmCap /\ notify' \in 0..NotifyCap
    BY <1>6, CapAssumption
  <2>2. /\ Sound(db') /\ Sound(work') /\ todo' \in Seq(Command) /\ busy' \in BOOLEAN
        /\ carried' \subseteq Services \X Upstreams /\ inHand' \in BOOLEAN
    BY <1>6, Zenon DEF dbVars
  <2>3. WatchTypeOK'
    BY <1>6, Zenon DEF WatchTypeOK
  <2>. QED
    BY <2>1, <2>2, <2>3
<1>7. CASE UNCHANGED vars
  BY <1>0, <1>7 DEF vars, dbVars, eventVars
<1>. QED
  BY <1>1, <1>2, <1>3, <1>4, <1>5, <1>6, <1>7 DEF Next, Apply

(* Type correctness of the node.                                            *)
THEOREM TypeCorrect == Spec => []TypeOK
<1>1. SoundInv => TypeOK
  BY DEF SoundInv, TypeOK, Sound, WatchTypeOK
<1>. QED
  BY <1>1, SoundInit, SoundStep, PTL DEF Spec

(* The upstream index is complete in every committed state, whatever the    *)
(* callers submit: no service loses sight of an upstream stored for it.     *)
THEOREM IndexCompleteThm == Spec => []IndexComplete
<1>1. SoundInv => IndexComplete
  BY DEF SoundInv, Sound, IndexComplete
<1>. QED
  BY <1>1, SoundInit, SoundStep, PTL DEF Spec

(* The hash bucket finds exactly the stored API keys.                       *)
THEOREM KeyIndexExactThm == Spec => []KeyIndexExact
<1>1. SoundInv => KeyIndexExact
  BY DEF SoundInv, Sound, KeyIndexExact
<1>. QED
  BY <1>1, SoundInit, SoundStep, PTL DEF Spec

(* Config versions are numbered without gaps or repetitions.                *)
THEOREM VersionsGaplessThm == Spec => []VersionsGapless
<1>1. SoundInv => VersionsGapless
  BY DEF SoundInv, Sound, VersionsGapless
<1>. QED
  BY <1>1, SoundInit, SoundStep, PTL DEF Spec

-----------------------------------------------------------------------------
(* What the index of either database lists has been carried, and shared     *)
(* upstreams stay shared: `carried` only grows.                             *)
ExactInv == Exact(db, carried) /\ Exact(work, carried)

(* An index entry names a service that exists, and an upstream of that      *)
(* service unless two services have carried its id, for any batches.        *)
THEOREM IndexSoundThm == Spec => []IndexSound
<1>1. Init => ExactInv
  BY DEF Init, ExactInv, EmptyDb, Exact
<1>2. SoundInv /\ ExactInv /\ [Next]_vars => ExactInv'
  <2>. SUFFICES ASSUME SoundInv, ExactInv, [Next]_vars PROVE ExactInv'
    OBVIOUS
  <2>1. ASSUME NEW batch \in Batches, Begin(batch) PROVE ExactInv'
    BY <2>1 DEF Begin, ExactInv
  <2>2. CASE Run
    <3>1. Head(todo) \in Command
      BY <2>2 DEF Run, SoundInv
    <3>2. Exact(Effect(work, Head(todo)), carried \cup Carries(Head(todo)))
      BY <2>2, <3>1, EffectExact DEF Run, SoundInv, Sound, ExactInv
    <3>3. Exact(db, carried \cup Carries(Head(todo)))
      BY DEF ExactInv, Exact, SharedIn
    <3>. QED
      BY <2>2, <3>2, <3>3 DEF Run, ExactInv
  <2>3. CASE Refuse
    BY <2>3 DEF Refuse, ExactInv
  <2>4. CASE Commit
    BY <2>4 DEF Commit, ExactInv
  <2>5. CASE UNCHANGED dbVars
    BY <2>5 DEF dbVars, ExactInv
  <2>. QED
    BY <2>1, <2>2, <2>3, <2>4, <2>5 DEF Next, Apply, Relay, Watch, RelayTake, RelayPut,
       WatcherReceive, Steal, WatcherRefresh, RefreshFails, RefreshFromCache, vars
<1>3. ExactInv => IndexSound
  BY DEF ExactInv, Exact, SharedIn, IndexSound, Shared
<1>. QED
  BY <1>1, <1>2, <1>3, SoundInit, SoundStep, PTL DEF Spec

-----------------------------------------------------------------------------
\* What one command leaves of the routes, the services and their bindings, seen
\* from a target that is not there afterwards.
LEMMA EffectTargets ==
  ASSUME NEW d \in Db, NEW c \in Command, NEW t \in Targets,
         t \notin Effect(d, c).routes \cup Effect(d, c).services
  PROVE  /\ ~Puts(c, t)
         /\ t \in d.routes \cup d.services => Removes(c, t)
         /\ \A p \in Policies : <<p, t>> \in Effect(d, c).bindings =>
              /\ ~Removes(c, t)
              /\ <<p, t>> \in d.bindings \/ Binds(c, t)
<1>. DEFINE e == Effect(d, c)
<1>1. CASE c.op \in {"put_route", "delete_route"}
  BY <1>1 DEF Effect, PutRoute, DeleteRoute, Db, Puts, Removes
<1>2. CASE c.op = "create_service"
  BY <1>2 DEF Effect, CreateService, StoreUpstreams, Db, Puts, Removes
<1>3. CASE c.op = "delete_service"
  BY <1>3 DEF Effect, DeleteService, DropUpstreams, Db, Puts, Removes
<1>4. CASE c.op = "attach_policy"
  BY <1>4 DEF Effect, AttachPolicy, Command, Db, Puts, Removes, Binds
<1>5. CASE c.op \notin {"put_route", "delete_route", "create_service", "delete_service",
                        "attach_policy"}
  <2>1. e.routes = d.routes /\ e.services = d.services /\ e.bindings \subseteq d.bindings
    BY <1>5 DEF Effect, Command, Db, UpdateService, StoreUpstreams, DropUpstreams, PutPolicy,
         DeletePolicy, DetachPolicy, CreateAPIKey, RevokeAPIKey, SaveConfigVersion,
         AppendAuditEntry
  <2>. HIDE DEF e
  <2>2. /\ ~Puts(c, t)
        /\ t \in d.routes \cup d.services => t \in e.routes \cup e.services
        /\ \A p \in Policies : <<p, t>> \in e.bindings =>
             ~Removes(c, t) /\ <<p, t>> \in d.bindings
    BY <1>5, <2>1 DEF Puts, Removes
  <2>. QED
    BY <2>2 DEF e
<1>. QED
  BY <1>1, <1>2, <1>3, <1>4, <1>5

(* A target the running entry has removed is bound to nothing, and nothing  *)
(* left of the entry binds it before it is there again.                     *)
UnboundInv ==
  /\ BindsLiveTargets(todo)
  /\ \A t \in Targets :
       t \in db.routes \cup db.services /\ t \notin work.routes \cup work.services =>
         /\ \A p \in Policies : <<p, t>> \notin work.bindings
         /\ \A j \in DOMAIN todo : Binds(todo[j], t) => \E k \in 1..(j - 1) : Puts(todo[k], t)

LEMMA UnboundInit == Init => UnboundInv
BY DEF Init, UnboundInv, EmptyDb, BindsLiveTargets

LEMMA UnboundRun ==
  ASSUME SoundInv, UnboundInv, Run
  PROVE  UnboundInv'
<1>. DEFINE c == todo[1]
            rest == Tail(todo)
            e == Effect(work, c)
<1>1. /\ todo \in Seq(Command) /\ todo # <<>> /\ Head(todo) = c /\ c \in Command
      /\ Len(todo) \in Nat /\ DOMAIN todo = 1..Len(todo) /\ 1 \in DOMAIN todo
      /\ DOMAIN rest = 1..(Len(todo) - 1)
      /\ \A i \in DOMAIN rest : rest[i] = todo[i + 1]
  BY DEF Run, SoundInv
<1>2. work' = e /\ db' = db /\ todo' = rest /\ work \in Db
  BY <1>1 DEF Run, SoundInv, Sound
<1>. HIDE DEF e, rest
<1>3. BindsLiveTargets(rest)
  <2>. SUFFICES ASSUME NEW t \in Targets, NEW i \in DOMAIN rest, NEW j \in DOMAIN rest,
                       i < j, Removes(rest[i], t), Binds(rest[j], t)
                PROVE  \E k \in (i + 1)..(j - 1) : Puts(rest[k], t)
    BY DEF BindsLiveTargets
  <2>1. /\ i + 1 \in DOMAIN todo /\ j + 1 \in DOMAIN todo /\ i + 1 < j + 1
        /\ rest[i] = todo[i + 1] /\ rest[j] = todo[j + 1]
    BY <1>1
  <2>2. PICK k \in ((i + 1) + 1)..((j + 1) - 1) : Puts(todo[k], t)
    BY <2>1 DEF UnboundInv, BindsLiveTargets
  <2>3. k - 1 \in (i + 1)..(j - 1) /\ k - 1 \in DOMAIN rest /\ (k - 1) + 1 = k
    BY <1>1, <2>1, <2>2
  <2>. QED
    BY <1>1, <2>2, <2>3
<1>4. ASSUME NEW t \in Targets,
             t \in db.routes \cup db.services, t \notin e.routes \cup e.services
      PROVE  /\ \A p \in Policies : <<p, t>> \notin e.bindings
             /\ \A j \in DOMAIN rest : Binds(rest[j], t) => \E k \in 1..(j - 1) : Puts(rest[k], t)
  <2>1. /\ ~Puts(c, t)
        /\ t \in work.routes \cup work.services => Removes(c, t)
        /\ \A p \in Policies : <<p, t>> \in e.bindings =>
             ~Removes(c, t) /\ (<<p, t>> \in work.bindings \/ Binds(c, t))
    BY <1>1, <1>2, <1>4, EffectTargets DEF e
  <2>2. ASSUME NEW j \in DOMAIN rest, NEW m \in 1..j, m # 1, Puts(todo[m], t)
        PROVE  \E k \in 1..(j - 1) : Puts(rest[k], t)
    <3>1. m - 1 \in 1..(j - 1) /\ m - 1 \in DOMAIN rest /\ (m - 1) + 1 = m
      BY <1>1, <2>2
    <3>. QED
      BY <1>1, <2>2, <3>1
  <2>3. \A j \in DOMAIN rest : /\ rest[j] = todo[j + 1] /\ j + 1 \in DOMAIN todo
                               /\ 1 < j + 1 /\ (j + 1) - 1 = j
    BY <1>1
  <2>4. CASE t \in work.routes \cup work.services
    <3>1. \A p \in Policies : <<p, t>> \notin e.bindings
      BY <2>1, <2>4
    <3>2. ASSUME NEW j \in DOMAIN rest, Binds(rest[j], t)
          PROVE  \E k \in 1..(j - 1) : Puts(rest[k], t)
      <4>1. PICK m \in (1 + 1)..((j + 1) - 1) : Puts(todo[m], t)
        BY <1>1, <2>1, <2>3, <2>4, <3>2 DEF UnboundInv, BindsLiveTargets
      <4>2. m \in 1..j /\ m # 1
        BY <1>1, <4>1
      <4>. QED
        BY <2>2, <4>1, <4>2
    <3>. QED
      BY <3>1, <3>2
  <2>5. CASE t \notin work.routes \cup work.services
    <3>1. /\ \A p \in Policies : <<p, t>> \notin work.bindings
          /\ \A j \in DOMAIN todo : Binds(todo[j], t) => \E k \in 1..(j - 1) : Puts(todo[k], t)
      BY <1>4, <2>5 DEF UnboundInv
    <3>2. ~Binds(c, t)
      BY <1>1, <3>1
    <3>3. ASSUME NEW j \in DOMAIN rest, Binds(rest[j], t)
          PROVE  \E k \in 1..(j - 1) : Puts(rest[k], t)
      <4>1. PICK m \in 1..((j + 1) - 1) : Puts(todo[m], t)
        BY <2>3, <3>1, <3>3
      <4>2. m \in 1..j /\ m # 1
        BY <1>1, <2>1, <2>3, <4>1
      <4>. QED
        BY <2>2, <4>1, <4>2
    <3>. QED
      BY <2>1, <3>1, <3>2, <3>3
  <2>. QED
    BY <2>4, <2>5
<1>. QED
  BY <1>2, <1>3, <1>4 DEF UnboundInv

LEMMA UnboundStep == NoLateAttach /\ SoundInv /\ UnboundInv /\ [Next]_vars => UnboundInv'
<1>. SUFFICES ASSUME NoLateAttach, SoundInv, UnboundInv, [Next]_vars PROVE UnboundInv'
  OBVIOUS
<1>1. ASSUME NEW batch \in Batches, Begin(batch) PROVE UnboundInv'
  BY <1>1 DEF Begin, UnboundInv, NoLateAttach
<1>2. CASE Run
  BY <1>2, UnboundRun
<1>3. CASE Refuse
  BY <1>3 DEF Refuse, UnboundInv, BindsLiveTargets
<1>4. CASE Commit
  BY <1>4 DEF Commit, UnboundInv
<1>5. CASE UNCHANGED dbVars
  BY <1>5 DEF dbVars, UnboundInv
<1>. QED
  BY <1>1, <1>2, <1>3, <1>4, <1>5 DEF Next, Apply, Relay, Watch, RelayTake, RelayPut,
     WatcherReceive, Steal, WatcherRefresh, RefreshFails, RefreshFromCache, vars

(* A commit that removes a route or a service leaves no policy bound to it, *)
(* whatever else its entry does: for entries that do not bind what they     *)
(* have just deleted, which nothing in the FSM would refuse.                *)
THEOREM DeletionUnbindsThm == NoLateAttach => (Spec => DeletionUnbinds)
<1>. SUFFICES ASSUME NoLateAttach PROVE Spec => DeletionUnbinds
  OBVIOUS
<1>1. UnboundInv /\ [Next]_vars =>
        [\A t \in Targets :
           /\ t \in db.routes \cup db.services
           /\ t \notin db'.routes \cup db'.services
           => \A p \in Policies : <<p, t>> \notin db'.bindings]_db
  BY DEF UnboundInv, Next, Apply, Begin, Run, Refuse, Commit, Relay, Watch, RelayTake, RelayPut,
         WatcherReceive, Steal, WatcherRefresh, RefreshFails, RefreshFromCache, vars, dbVars
<1>2. SoundInv /\ UnboundInv /\ [Next]_vars => UnboundInv'
  BY UnboundStep
<1>. QED
  BY <1>1, <1>2, SoundInit, SoundStep, UnboundInit, PTL DEF Spec, DeletionUnbinds

-----------------------------------------------------------------------------
(* While an entry runs, the working copy is the outcome of the commands     *)
(* that are no longer in todo.                                              *)
RunInv ==
  busy => \E batch \in Batches : \E k \in 0..Len(batch) :
    /\ Len(todo) = Len(batch) - k
    /\ \A i \in 1..Len(todo) : todo[i] = batch[k + i]
    /\ Outcomes(db, batch)[k] = [ok |-> TRUE, db |-> work]

LEMMA RunInit == Init => RunInv
BY DEF Init, RunInv

LEMMA RunStep == SoundInv /\ RunInv /\ [Next]_vars => RunInv'
<1>. SUFFICES ASSUME SoundInv, RunInv, [Next]_vars PROVE RunInv'
  OBVIOUS
<1>1. ASSUME NEW batch \in Batches, Begin(batch) PROVE RunInv'
  <2>1. Len(batch) \in Nat
    BY BatchType
  <2>2. Outcomes(db, batch)[0] = [ok |-> TRUE, db |-> db]
    BY <2>1, OutcomesUnfold
  <2>3. /\ todo' = batch /\ work' = db /\ db' = db
        /\ 0 \in 0..Len(batch)
        /\ \A i \in 1..Len(batch) : batch[i] = batch[0 + i]
    BY <1>1, <2>1 DEF Begin
  <2>4. Len(todo') = Len(batch) - 0
    BY <2>1, <2>3
  <2>. QED
    BY <2>2, <2>3, <2>4 DEF RunInv
<1>2. CASE Run
  <2>0. PICK batch \in Batches :
          \E k \in 0..Len(batch) :
            /\ Len(todo) = Len(batch) - k
            /\ \A i \in 1..Len(todo) : todo[i] = batch[k + i]
            /\ Outcomes(db, batch)[k] = [ok |-> TRUE, db |-> work]
    BY <1>2 DEF Run, RunInv
  <2>1. PICK k \in 0..Len(batch) :
          /\ Len(todo) = Len(batch) - k
          /\ \A i \in 1..Len(todo) : todo[i] = batch[k + i]
          /\ Outcomes(db, batch)[k] = [ok |-> TRUE, db |-> work]
    BY <2>0
  <2>2. Len(batch) \in Nat /\ todo \in Seq(Command) /\ todo # <<>> /\ Len(todo) \in Nat
    BY <1>2, BatchType DEF Run, SoundInv
  <2>3. /\ 1 \in 1..Len(todo) /\ Head(todo) = todo[1]
        /\ Len(Tail(todo)) = Len(todo) - 1
        /\ \A i \in 1..(Len(todo) - 1) : Tail(todo)[i] = todo[i + 1]
    BY <2>2
  <2>4. k + 1 \in 1..Len(batch) /\ Head(todo) = batch[k + 1]
    BY <2>1, <2>2, <2>3
  <2>5. Outcomes(db, batch)[k + 1] = Step(db, Outcomes(db, batch)[(k + 1) - 1], batch[k + 1])
    <3>1. /\ Outcomes(db, batch)[0] = [ok |-> TRUE, db |-> db]
          /\ \A i \in 1..Len(batch) :
               Outcomes(db, batch)[i] = Step(db, Outcomes(db, batch)[i - 1], batch[i])
      BY <2>2, OutcomesUnfold
    <3>. QED
      BY <2>4, <3>1, Zenon
  <2>6. Outcomes(db, batch)[k + 1] = [ok |-> TRUE, db |-> Effect(work, Head(todo))]
    <3>1. (k + 1) - 1 = k
      BY <2>2
    <3>2. Accepted(work, Head(todo))
      BY <1>2, Zenon DEF Run
    <3>3. Outcomes(db, batch)[k + 1] = Step(db, [ok |-> TRUE, db |-> work], Head(todo))
      BY <2>1, <2>4, <2>5, <3>1, Zenon
    <3>4. Step(db, [ok |-> TRUE, db |-> work], Head(todo))
            = [ok |-> TRUE, db |-> Effect(work, Head(todo))]
      BY <3>2 DEF Step
    <3>. QED
      BY <3>3, <3>4, Zenon
  <2>7. work' = Effect(work, Head(todo)) /\ todo' = Tail(todo) /\ db' = db
    BY <1>2 DEF Run
  <2>8. Len(todo') = Len(batch) - (k + 1)
    BY <2>1, <2>2, <2>3, <2>7
  <2>9. ASSUME NEW i \in 1..Len(todo') PROVE todo'[i] = batch[(k + 1) + i]
    <3>1. i \in 1..(Len(todo) - 1) /\ i + 1 \in 1..Len(todo)
      BY <2>2, <2>3, <2>7
    <3>2. k + (i + 1) = (k + 1) + i
      BY <2>2, <3>1
    <3>. QED
      BY <2>1, <2>3, <2>7, <3>1, <3>2
  <2>10. k + 1 \in 0..Len(batch)
    BY <2>2, <2>4
  <2>. QED
    BY <2>6, <2>7, <2>8, <2>9, <2>10 DEF RunInv
<1>3. CASE Refuse \/ Commit
  BY <1>3 DEF Refuse, Commit, RunInv
<1>4. CASE UNCHANGED dbVars
  BY <1>4 DEF dbVars, RunInv
<1>. QED
  BY <1>1, <1>2, <1>3, <1>4 DEF Next, Apply, Relay, Watch, RelayTake, RelayPut,
     WatcherReceive, Steal, WatcherRefresh, RefreshFails, RefreshFromCache, vars

(* The node implements the abstract store: running a batch command by       *)
(* command, with events, relays and readers in between, is one atomic entry *)
(* at the moment of the commit, and a refused batch is no step at all.      *)
THEOREM Refinement == Spec => AppliesAtomically
<1>1. Init => Abstract!Init
  BY DEF Init, Abstract!Init
<1>2. SoundInv /\ RunInv /\ [Next]_vars => [Abstract!Next]_db
  <2>. SUFFICES ASSUME SoundInv, RunInv, [Next]_vars PROVE [Abstract!Next]_db
    OBVIOUS
  <2>1. CASE Commit
    <3>0. PICK batch \in Batches :
            \E k \in 0..Len(batch) :
              /\ Len(todo) = Len(batch) - k
              /\ Outcomes(db, batch)[k] = [ok |-> TRUE, db |-> work]
      BY <2>1 DEF Commit, RunInv
    <3>1. PICK k \in 0..Len(batch) :
            /\ Len(todo) = Len(batch) - k
            /\ Outcomes(db, batch)[k] = [ok |-> TRUE, db |-> work]
      BY <3>0
    <3>2. Len(batch) \in Nat /\ Len(todo) = 0
      BY <2>1, BatchType DEF Commit
    <3>3. k = Len(batch)
      BY <3>1, <3>2
    <3>4. ApplyBatch(db, batch) = [ok |-> TRUE, db |-> work]
      BY <3>1, <3>3 DEF ApplyBatch
    <3>5. Abstract!Entry(batch)
      BY <2>1, <3>4 DEF Commit, Abstract!Entry
    <3>. QED
      BY <3>5 DEF Abstract!Next
  <2>2. CASE ~Commit
    BY <2>2 DEF Next, Apply, Begin, Run, Refuse, Relay, Watch, RelayTake, RelayPut,
       WatcherReceive, Steal, WatcherRefresh, RefreshFails, RefreshFromCache, vars, dbVars
  <2>. QED
    BY <2>1, <2>2
<1>. QED
  BY <1>1, <1>2, SoundInit, SoundStep, RunInit, RunStep, PTL DEF Spec, AppliesAtomically, Abstract!Spec

-----------------------------------------------------------------------------
(* The watcher.  Every command sends its event inside the write transaction *)
(* and a channel only drops an event when others wait in it, so whoever has *)
(* not read since the last command of the running entry has an event on its *)
(* way; the entry is in the database once it is committed.                  *)

EventOnItsWay == fsmChan > 0 \/ inHand \/ notify > 0 \/ watcher = "pending"

WatchInv ==
  /\ busy /\ work # db => EventOnItsWay \/ missed # "nothing"
  /\ current \/ EventOnItsWay \/ missed # "nothing"

(* "Refresh the matcher on every config change" holds of every watcher that *)
(* has not read within a transaction, lost an event of the shared channel   *)
(* to another watcher or failed to read since it last read well: for any    *)
(* batches and any channels with room for an event.                         *)
THEOREM StaleHasCauseThm ==
  FsmCap > 0 /\ NotifyCap > 0 => (Spec => []StaleHasCause)
<1>. SUFFICES ASSUME FsmCap > 0, NotifyCap > 0
              PROVE  Spec => []StaleHasCause
  OBVIOUS
<1>1. Spec => []TypeOK
  BY TypeCorrect
<1>2. Init => WatchInv
  BY DEF Init, WatchInv
<1>3. TypeOK /\ WatchInv /\ [Next]_vars => WatchInv'
  <2>. SUFFICES ASSUME TypeOK, WatchInv, [Next]_vars
                PROVE  WatchInv'
    OBVIOUS
  <2>0. fsmChan \in Nat /\ notify \in Nat /\ FsmCap \in Nat /\ NotifyCap \in Nat
    BY CapAssumption DEF TypeOK
  <2>. USE DEF WatchInv, EventOnItsWay, watchVars
  <2>1. ASSUME NEW batch \in Batches, Begin(batch) PROVE WatchInv'
    BY <2>1 DEF Begin, eventVars
  <2>2. CASE Run
    <3>1. fsmChan' > 0
      BY <2>0, <2>2 DEF Run, Emit
    <3>. QED
      BY <3>1
  <2>3. CASE Refuse
    BY <2>3 DEF Refuse, eventVars
  <2>4. CASE Commit
    BY <2>4 DEF Commit
  <2>5. CASE RelayTake
    BY <2>5 DEF RelayTake, dbVars
  <2>6. CASE RelayPut
    <3>1. notify' > 0
      BY <2>0, <2>6 DEF RelayPut
    <3>. QED
      BY <2>6, <3>1 DEF RelayPut, dbVars
  <2>7. CASE WatcherReceive
    BY <2>7 DEF WatcherReceive, dbVars
  <2>8. CASE WatcherRefresh
    BY <2>8 DEF WatcherRefresh, dbVars
  <2>9. CASE Steal \/ RefreshFails \/ RefreshFromCache
    BY <2>9 DEF Steal, RefreshFails, RefreshFromCache
  <2>10. CASE UNCHANGED vars
    BY <2>10 DEF vars, dbVars, eventVars
  <2>. QED
    BY <2>1, <2>2, <2>3, <2>4, <2>5, <2>6, <2>7, <2>8, <2>9, <2>10 DEF Next, Apply, Relay, Watch
<1>4. WatchInv => StaleHasCause
  BY DEF WatchInv, EventOnItsWay, StaleHasCause, StaleWatcherWillRefresh
<1>. QED
  BY <1>1, <1>2, <1>3, <1>4, PTL DEF Spec
=============================================================================
