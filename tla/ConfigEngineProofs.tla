-------------------------- MODULE ConfigEngineProofs --------------------------
(***************************************************************************)
(* Proofs about ConfigEngine, for any number of requests, nodes, changes    *)
(* and elections.                                                           *)
(*                                                                          *)
(* The store half (StoreInv) is kept by every way an entry can be           *)
(* submitted; the request half says what a request holds at each step.      *)
(* TraceInOrder rests on a request that saves having its change in the log. *)
(* ExpectedVersionHolds rests on the mutex: while a request that checked    *)
(* the version of a caught-up leader goes on, nobody else on that node can  *)
(* save a version, and nobody elsewhere is leader.                          *)
(* DeletedStaysDeleted and PoliciesAsDesired rest on HistoryInv: what a     *)
(* request saw of the history when it looked and when it made its diff.     *)
(* CreationUnseen adds to it that nobody but its creator can write a route  *)
(* that is not there yet; WholeInv adds to both traces what is in the log   *)
(* of a call at each of its last steps.                                     *)
(***************************************************************************)
EXTENDS ConfigEngine, ConfigFsmProofs, FiniteSetTheorems

(* The commands a transaction of the engine can submit.                     *)
LEMMA BatchTypes ==
  /\ Seq(Buffered) \subseteq Seq(Command)
  /\ \A r \in Requests : Auditing(r) \in Seq(Command)
  /\ \A r \in Requests : req[r].snap \in Snapshot => Saving(r) \in Seq(Command)
<1>1. Buffered \subseteq Command
  BY DEF Buffered
<1>2. \A r \in Requests : [op |-> "append_audit_entry", id |-> r] \in Command
  BY RequestsAssumption DEF Command
<1>3. \A s \in Snapshot : [op |-> "save_config_version", id |-> s] \in Command
  BY IdsAssumption DEF Command
<1>. QED
  BY <1>1, <1>2, <1>3 DEF Auditing, Saving

(* A batch is accepted or refused.                                          *)
LEMMA BatchDecides ==
  ASSUME NEW d, NEW batch, Len(batch) \in Nat
  PROVE  ApplyBatch(d, batch).ok \in BOOLEAN
<1>. DEFINE out == Outcomes(d, batch)
<1>1. /\ out[0] = [ok |-> TRUE, db |-> d]
      /\ \A i \in 1..Len(batch) : out[i] = Step(d, out[i - 1], batch[i])
  BY OutcomesUnfold
<1>. HIDE DEF out
<1>2. out[Len(batch)].ok \in BOOLEAN
  <2>1. CASE Len(batch) = 0
    <3>1. out[Len(batch)].ok = TRUE
      BY <1>1, <2>1
    <3>. QED
      BY <3>1, Zenon
  <2>2. CASE Len(batch) # 0
    <3>1. Len(batch) \in 1..Len(batch)
      BY <2>2
    <3>2. PICK o, c : out[Len(batch)] = Step(d, o, c)
      BY <1>1, <3>1
    <3>3. \/ out[Len(batch)].ok = TRUE
          \/ out[Len(batch)].ok = FALSE
      BY <3>2 DEF Step
    <3>. QED
      BY <3>3, Zenon
  <2>. QED
    BY <2>1, <2>2
<1>. QED
  BY <1>2 DEF ApplyBatch, out

(* A batch of one command is that command.                                  *)
LEMMA BatchOfOne ==
  ASSUME NEW d, NEW c, Accepted(d, c)
  PROVE  ApplyBatch(d, <<c>>).db = Effect(d, c)
<1>. DEFINE batch == <<c>>
            out == Outcomes(d, batch)
<1>1. Len(batch) = 1 /\ batch[1] = c
  OBVIOUS
<1>2. /\ out[0] = [ok |-> TRUE, db |-> d]
      /\ \A i \in 1..Len(batch) : out[i] = Step(d, out[i - 1], batch[i])
  BY <1>1, OutcomesUnfold
<1>. HIDE DEF out
<1>3. out[1] = Step(d, out[0], c)
  BY <1>1, <1>2
<1>4. out[1].db = Effect(d, c)
  BY <1>2, <1>3 DEF Step
<1>. QED
  BY <1>1, <1>4 DEF ApplyBatch, out

(* What the engine buffers does not touch the version counter.              *)
LEMMA BufferedKeepsCounter ==
  ASSUME NEW d \in Db, NEW batch \in Seq(Buffered)
  PROVE  ApplyBatch(d, batch).db.counter = d.counter
<1>. DEFINE out == Outcomes(d, batch)
            Keeps(e) == e \in Db /\ e.counter = d.counter
            bad == {i \in Nat : i <= Len(batch) /\ ~Keeps(out[i].db)}
<1>1. /\ Len(batch) \in Nat
      /\ \A i \in 1..Len(batch) : batch[i] \in Buffered
  OBVIOUS
<1>2. /\ out[0] = [ok |-> TRUE, db |-> d]
      /\ \A i \in 1..Len(batch) : out[i] = Step(d, out[i - 1], batch[i])
  BY <1>1, OutcomesUnfold
<1>. HIDE DEF out
<1>3. ASSUME NEW e \in Db, NEW c \in Buffered
      PROVE  Effect(e, c) \in Db /\ Effect(e, c).counter = e.counter
  <2>1. Effect(e, c) \in Db
    BY EffectType DEF Buffered
  <2>2. c.op \in {"put_route", "delete_route", "attach_policy", "detach_policy"}
    BY DEF Buffered
  <2>3. Effect(e, c).counter = e.counter
    BY <2>2 DEF Effect, PutRoute, DeleteRoute, AttachPolicy, DetachPolicy, Db
  <2>. QED
    BY <2>1, <2>3
<1>4. bad = {}
  <2>1. SUFFICES ASSUME bad # {} PROVE FALSE
    OBVIOUS
  <2>2. PICK i \in bad : \A j \in bad : i <= j
    BY <2>1, NatMinimum
  <2>3. i \in Nat /\ i <= Len(batch) /\ ~Keeps(out[i].db)
    OBVIOUS
  <2>4. i # 0
    BY <1>2, <2>3
  <2>5. i \in 1..Len(batch) /\ i - 1 \in Nat /\ i - 1 < i
    BY <1>1, <2>3, <2>4
  <2>6. i - 1 \notin bad
    <3>. HIDE DEF bad
    <3>. QED
      BY <2>2, <2>3, <2>5
  <2>7. Keeps(out[i - 1].db)
    BY <1>1, <2>3, <2>5, <2>6
  <2>8. out[i] = Step(d, out[i - 1], batch[i]) /\ batch[i] \in Buffered
    BY <1>1, <1>2, <2>5
  <2>9. CASE out[i - 1].ok /\ Accepted(out[i - 1].db, batch[i])
    <3>1. out[i].db = Effect(out[i - 1].db, batch[i])
      BY <2>8, <2>9 DEF Step
    <3>. QED
      BY <1>3, <2>3, <2>7, <2>8, <3>1
  <2>10. CASE ~(out[i - 1].ok /\ Accepted(out[i - 1].db, batch[i]))
    BY <2>3, <2>8, <2>10 DEF Step
  <2>. QED
    BY <2>9, <2>10
<1>. QED
  BY <1>1, <1>4 DEF ApplyBatch, out

(* The binding commands for a route are commands the engine buffers.        *)
LEMMA BindingOpsType ==
  ASSUME NEW r, NEW op \in {"attach_policy", "detach_policy"},
         NEW ps \in SUBSET Policies, req[r].target \in Routes
  PROVE  BindingOps(r, op, ps) \in Seq(Buffered)
<1>. DEFINE n == Cardinality(ps)
            Orders == {f \in [1..n -> ps] : \A p \in ps : \E i \in DOMAIN f : f[i] = p}
            order == CHOOSE f \in [1..n -> ps] : \A p \in ps : \E i \in DOMAIN f : f[i] = p
<1>1. IsFiniteSet(ps)
  BY IdsAssumption, FS_Subset
<1>2. n \in Nat /\ ExistsBijection(1..n, ps)
  BY <1>1, FS_CardinalityType
<1>. HIDE DEF n
<1>3. \E f \in [1..n -> ps] : \A p \in ps : \E i \in DOMAIN f : f[i] = p
  BY <1>2 DEF ExistsBijection, Bijection, Surjection
<1>4. order \in [1..n -> ps]
  BY <1>3
<1>. HIDE DEF order
<1>5. ASSUME NEW i \in 1..n
      PROVE  [op |-> op, id |-> order[i], target |-> req[r].target] \in Buffered
  BY <1>4 DEF Buffered, Command, Targets
<1>. QED
  BY <1>2, <1>5 DEF BindingOps, n, order
-----------------------------------------------------------------------------
(* The store half.                                                          *)

StoreInv ==
  /\ log \in Seq(LogEntry)
  /\ history \in Seq(Db) /\ Len(history) = Len(log) + 1
  /\ \A i \in 1..Len(history) : Sound(history[i])
  /\ seen \in [Nodes -> Position]
  /\ leader \in Nodes /\ elections \in 0..MaxElections

LEMMA StoreInit == Init => StoreInv
<1>. SUFFICES ASSUME Init PROVE StoreInv
  OBVIOUS
<1>1. Sound(StartDb) /\ StartDb \in Db
  BY StartAssumption DEF Sound
<1>. QED
  BY <1>1, ElectionsAssumption DEF Init, StoreInv, Position

(* What is read on any node is a sound database.                            *)
LEMMA ReadsSound ==
  ASSUME StoreInv
  PROVE  /\ Sound(Latest) /\ Latest \in Db
         /\ \A r \in Requests : req[r].node \in Nodes => Sound(View(r)) /\ View(r) \in Db
<1>1. /\ Len(log) \in Nat /\ Len(history) = Len(log) + 1
      /\ \A i \in 1..Len(history) : Sound(history[i])
      /\ \A n \in Nodes : seen[n] \in 0..Len(log)
  BY DEF StoreInv, Position
<1>2. Sound(Latest)
  BY <1>1 DEF Latest
<1>3. ASSUME NEW r \in Requests, req[r].node \in Nodes
      PROVE  Sound(View(r))
  BY <1>1, <1>3 DEF View
<1>. QED
  BY <1>2, <1>3 DEF Sound

(* One more entry.                                                          *)
LEMMA Appended ==
  ASSUME StoreInv, NEW r \in Requests, NEW kind \in {"change", "version", "audit"},
         NEW batch \in Seq(Command), Append1(r, kind, batch)
  PROVE  /\ log' \in Seq(LogEntry) /\ Len(log') = Len(log) + 1
         /\ \A i \in 1..Len(log) : log'[i] = log[i]
         /\ log'[Len(log) + 1].by = r /\ log'[Len(log) + 1].kind = kind
         /\ log'[Len(log) + 1] = [by |-> r, kind |-> kind, ok |-> ApplyBatch(Latest, batch).ok]
         /\ history' \in Seq(Db) /\ Len(history') = Len(log) + 2
         /\ \A i \in 1..Len(history') : Sound(history'[i])
         /\ Latest' = ApplyBatch(Latest, batch).db
<1>. DEFINE new == ApplyBatch(Latest, batch).db
            ok == ApplyBatch(Latest, batch).ok
<1>1. /\ log \in Seq(LogEntry) /\ history \in Seq(Db)
      /\ Len(log) \in Nat /\ Len(history) = Len(log) + 1
      /\ \A i \in 1..Len(history) : Sound(history[i])
  BY DEF StoreInv
<1>2. Sound(new) /\ new \in Db
  BY ReadsSound, BatchSound DEF Sound
<1>3. ok \in BOOLEAN
  BY BatchDecides
<1>4. log' = Append(log, [by |-> r, kind |-> kind, ok |-> ok]) /\ history' = Append(history, new)
  BY DEF Append1
<1>. HIDE DEF new, ok
<1>5. [by |-> r, kind |-> kind, ok |-> ok] \in LogEntry
  BY <1>3 DEF LogEntry
<1>6. /\ log' \in Seq(LogEntry) /\ Len(log') = Len(log) + 1
      /\ \A i \in 1..Len(log) : log'[i] = log[i]
      /\ log'[Len(log) + 1] = [by |-> r, kind |-> kind, ok |-> ok]
  BY <1>1, <1>4, <1>5
<1>7. /\ history' \in Seq(Db) /\ Len(history') = Len(log) + 2
      /\ \A i \in 1..Len(history) : history'[i] = history[i]
      /\ history'[Len(log) + 2] = new
  BY <1>1, <1>2, <1>4
<1>8. \A i \in 1..Len(history') : Sound(history'[i])
  BY <1>1, <1>2, <1>7
<1>9. Latest' = new
  BY <1>7 DEF Latest
<1>. QED
  BY <1>6, <1>7, <1>8, <1>9 DEF new, ok

\* Every way an entry can be submitted.
Submission(r, kind, batch) ==
  SubmitAccepted(r, kind, batch) \/ SubmitRefused(r, kind, batch) \/ SubmitFails(r, kind, batch)

LEMMA SubmissionCases ==
  ASSUME StoreInv, NEW r \in Requests, NEW kind \in {"change", "version", "audit"},
         NEW batch \in Seq(Command), Submission(r, kind, batch)
  PROVE  StoreInv' /\ elections' >= elections
<1>. USE DEF Submission
<1>1. /\ Len(log) \in Nat /\ seen \in [Nodes -> 0..Len(log)]
      /\ leader \in Nodes /\ elections \in 0..MaxElections /\ elections \in Nat
  BY DEF StoreInv, Position
<1>. DEFINE Grown ==
              /\ log' \in Seq(LogEntry) /\ Len(log') = Len(log) + 1
              /\ history' \in Seq(Db) /\ Len(history') = Len(log) + 2
              /\ \A i \in 1..Len(history') : Sound(history'[i])
<1>2. Append1(r, kind, batch) => Grown
  BY Appended
<1>3. CASE Submit(r, kind, batch)
  <2>1. /\ Grown /\ UNCHANGED <<leader, elections>>
        /\ seen' = [seen EXCEPT ![req[r].node] = Len(log')]
    BY <1>2, <1>3 DEF Submit
  <2>2. \A n \in Nodes : seen'[n] \in 0..Len(log')
    BY <1>1, <2>1
  <2>3. seen' \in [Nodes -> 0..Len(log')]
    BY <1>1, <2>1, <2>2
  <2>. QED
    BY <1>1, <2>1, <2>3 DEF StoreInv, Position
<1>4. CASE UNCHANGED store
  BY <1>1, <1>4 DEF StoreInv, Position, store
<1>5. CASE /\ Append1(r, kind, batch) /\ elections < MaxElections
           /\ leader' \in Nodes \ {leader} /\ elections' = elections + 1 /\ UNCHANGED seen
  <2>1. Grown
    BY <1>2, <1>5
  <2>2. \A n \in Nodes : seen'[n] \in 0..Len(log')
    BY <1>1, <1>5, <2>1
  <2>3. seen' \in [Nodes -> 0..Len(log')]
    BY <1>1, <1>5, <2>2
  <2>4. leader' \in Nodes /\ elections' \in 0..MaxElections /\ elections' >= elections
    BY <1>1, <1>5, ElectionsAssumption
  <2>. QED
    BY <2>1, <2>3, <2>4 DEF StoreInv, Position
<1>. QED
  BY <1>3, <1>4, <1>5 DEF SubmitAccepted, SubmitRefused, SubmitFails
-----------------------------------------------------------------------------
(* The request half.                                                        *)

\* From taking the mutex to the return.
Locked == {"check", "look", "sync", "list", "bindings", "flush", "save", "commit"}

RequestsInv ==
  /\ mutex \in [Nodes -> Requests \cup {NoRequest}]
  /\ req \in [Requests -> Held]
  /\ \A r \in Requests : At(r, "sync") => req[r].target \in Routes
  /\ \A r \in Requests : req[r].term <= elections

EngineTyped == StoreInv /\ RequestsInv

LEMMA IdleTyped ==
  ASSUME Nodes # {}
  PROVE  Idle \in Held /\ Idle.pc = "idle" /\ Idle.term = 0
<1>1. (CHOOSE n \in Nodes : TRUE) \in Nodes
  OBVIOUS
<1>2. <<>> \in Seq(Buffered) /\ [routes |-> {}, bindings |-> {}] \in Snapshot
  BY DEF Snapshot
<1>. QED
  BY <1>1, <1>2 DEF Idle, Held

LEMMA RequestsInit == Init => RequestsInv
<1>. SUFFICES ASSUME Init PROVE RequestsInv
  OBVIOUS
<1>1. Nodes # {}
  BY DEF Init
<1>. QED
  BY <1>1, IdleTyped DEF Init, RequestsInv, At

(* Returning leaves well-typed requests, whatever it did to the store.      *)
LEMMA ReturnTyped ==
  ASSUME RequestsInv, NEW r \in Requests, NEW pc \in {"done", "failed"}, Return(r, pc),
         elections \in Nat, elections' \in Nat, elections' >= elections
  PROVE  RequestsInv'
<1>. DEFINE new == [req[r] EXCEPT !.pc = pc, !.pending = <<>>]
<1>1. req[r] \in Held /\ <<>> \in Seq(Buffered)
  BY DEF RequestsInv
<1>2. req' = [req EXCEPT ![r] = new]
  BY DEF Return, RequestsInv
<1>3. new \in Held /\ new.pc # "sync" /\ new.term = req[r].term
  BY <1>1 DEF Held
<1>. HIDE DEF new
<1>4. req' \in [Requests -> Held]
  BY <1>2, <1>3 DEF RequestsInv
<1>5. mutex' \in [Nodes -> Requests \cup {NoRequest}]
  BY DEF Return, RequestsInv
<1>6. \A q \in Requests : req[q].term \in Nat
  BY DEF RequestsInv, Held
<1>. QED
  BY <1>2, <1>3, <1>4, <1>5, <1>6 DEF RequestsInv, At

(* So does a step of r that leaves the mutex alone and moves r to `new`.     *)
LEMMA MoveTyped ==
  ASSUME RequestsInv, NEW r \in Requests, NEW new \in Held,
         req' = [req EXCEPT ![r] = new], mutex' \in [Nodes -> Requests \cup {NoRequest}],
         new.pc = "sync" => new.target \in Routes,
         elections \in Nat, elections' = elections, new.term <= elections
  PROVE  RequestsInv'
BY DEF RequestsInv, At

LEMMA LookTyped ==
  ASSUME EngineTyped, NEW r \in Requests, UpdateExisting(r) \/ CreateNew(r) \/ DeleteById(r)
  PROVE  RequestsInv'
<1>1. req[r] \in Held /\ elections \in Nat /\ req[r].term <= elections
  BY DEF EngineTyped, RequestsInv, StoreInv
<1>2. seen[req[r].node] \in Nat /\ View(r).routes \subseteq Routes
  <2>1. req[r].node \in Nodes
    BY <1>1 DEF Held
  <2>2. View(r) \in Db
    BY <2>1, ReadsSound DEF EngineTyped
  <2>. QED
    BY <2>1, <2>2 DEF EngineTyped, StoreInv, Position, Db
<1>3. ASSUME NEW pc \in {"sync", "list"}, NEW x \in Routes, NEW c \in Buffered,
             req' = [req EXCEPT ![r].pc = pc, ![r].looked = seen[req[r].node],
                                ![r].target = x, ![r].pending = <<c>>],
             UNCHANGED <<store, mutex>>
      PROVE  RequestsInv'
  <2>. DEFINE new == [req[r] EXCEPT !.pc = pc, !.looked = seen[req[r].node],
                                    !.target = x, !.pending = <<c>>]
  <2>1. <<c>> \in Seq(Buffered) /\ x \in Routes \cup {NoRoute}
    OBVIOUS
  <2>2. new \in Held
    BY <1>1, <1>2, <2>1 DEF Held
  <2>3. new.target = x /\ new.term = req[r].term
    BY <1>1 DEF Held
  <2>4. req' = [req EXCEPT ![r] = new]
    BY <1>3 DEF EngineTyped, RequestsInv
  <2>5. mutex' = mutex /\ elections' = elections /\ RequestsInv
    BY <1>3 DEF store, EngineTyped
  <2>. HIDE DEF new
  <2>. QED
    BY <1>1, <2>2, <2>3, <2>4, <2>5, MoveTyped DEF RequestsInv
<1>4. \A x \in Routes : /\ [op |-> "put_route", id |-> x] \in Buffered
                        /\ [op |-> "delete_route", id |-> x] \in Buffered
  BY DEF Buffered, Command
<1>5. CASE UpdateExisting(r)
  <2>1. req[r].change.id \in Routes
    BY <1>2, <1>5 DEF UpdateExisting
  <2>. QED
    BY <1>3, <1>4, <1>5, <2>1 DEF UpdateExisting
<1>6. CASE CreateNew(r)
  BY <1>3, <1>4, <1>6 DEF CreateNew, Unused
<1>7. CASE DeleteById(r)
  <2>1. req[r].change.id \in Routes
    BY <1>1, <1>7 DEF DeleteById, Held, Change, NoChange
  <2>. QED
    BY <1>3, <1>4, <1>7, <2>1 DEF DeleteById
<1>. QED
  BY <1>5, <1>6, <1>7

LEMMA BeginTyped ==
  ASSUME EngineTyped, NEW r \in Requests, NEW n \in Nodes, NEW change \in Changes,
         Call(r, n, change) \/ ReorderRead(r, n, change)
  PROVE  RequestsInv'
<1>1. change \in Change \cup {NoChange}
  BY ChangesAssumption
<1>2. Idle \in Held /\ Idle.pc = "idle" /\ Idle.term = 0
  BY IdleTyped
<1>3. elections \in Nat /\ 0 <= elections /\ seen[n] \in 0..Len(log) /\ seen[n] \in Nat
  BY DEF EngineTyped, StoreInv, Position
<1>4. CASE Call(r, n, change)
  <2>. DEFINE new == [Idle EXCEPT !.pc = "waiting", !.node = n, !.change = change]
  <2>1. new \in Held /\ new.pc # "sync" /\ new.term = 0
    BY <1>1, <1>2 DEF Held
  <2>2. /\ req' = [req EXCEPT ![r] = new]
        /\ mutex' = mutex /\ elections' = elections /\ RequestsInv
    BY <1>4 DEF Call, store, EngineTyped
  <2>. HIDE DEF new
  <2>. QED
    BY <1>3, <2>1, <2>2, MoveTyped DEF RequestsInv
<1>5. CASE ReorderRead(r, n, change)
  <2>. DEFINE new == [Idle EXCEPT !.pc = "reorder", !.node = n, !.change = change,
                        !.target = change.id, !.looked = seen[n],
                        !.pending = <<[op |-> "put_route", id |-> change.id]>>]
  <2>1. change.id \in Routes
    BY <1>5, ChangesAssumption DEF ReorderRead, Change
  <2>2. [op |-> "put_route", id |-> change.id] \in Buffered
    BY <2>1 DEF Buffered, Command
  <2>3. <<[op |-> "put_route", id |-> change.id]>> \in Seq(Buffered)
    BY <2>2
  <2>4. new \in Held
    BY <1>1, <1>2, <1>3, <2>1, <2>3 DEF Held
  <2>5. new.pc # "sync" /\ new.term = 0
    BY <1>2 DEF Held
  <2>6. /\ req' = [req EXCEPT ![r] = new]
        /\ mutex' = mutex /\ elections' = elections /\ RequestsInv
    BY <1>5 DEF ReorderRead, store, EngineTyped
  <2>. HIDE DEF new
  <2>. QED
    BY <1>3, <2>4, <2>5, <2>6, MoveTyped DEF RequestsInv
<1>. QED
  BY <1>4, <1>5

LEMMA CheckTyped ==
  ASSUME EngineTyped, NEW r \in Requests, Lock(r) \/ CheckVersion(r)
  PROVE  RequestsInv'
<1>1. /\ req[r] \in Held /\ elections \in Nat /\ req[r].term <= elections
      /\ req[r].node \in Nodes /\ RequestsInv
  BY DEF EngineTyped, RequestsInv, StoreInv, Held
<1>2. CASE Lock(r)
  <2>. DEFINE new == [req[r] EXCEPT !.pc = "check"]
  <2>1. new \in Held /\ new.pc # "sync" /\ new.term = req[r].term
    BY <1>1 DEF Held
  <2>2. /\ req' = [req EXCEPT ![r] = new] /\ elections' = elections
        /\ mutex' \in [Nodes -> Requests \cup {NoRequest}]
    BY <1>1, <1>2 DEF Lock, store, RequestsInv
  <2>. HIDE DEF new
  <2>. QED
    BY <1>1, <2>1, <2>2, MoveTyped
<1>3. CASE CheckVersion(r)
  <2>1. elections' = elections
    BY <1>3 DEF CheckVersion, store
  <2>2. CASE Return(r, "failed")
    BY <1>1, <2>1, <2>2, ReturnTyped
  <2>3. CASE /\ req' = [req EXCEPT ![r].pc = "look", ![r].term = elections,
                                   ![r].fresh = (seen[req[r].node] = Len(log))]
             /\ UNCHANGED mutex
    <3>. DEFINE fresh == (seen[req[r].node] = Len(log))
                new == [req[r] EXCEPT !.pc = "look", !.term = elections, !.fresh = fresh]
    <3>1. fresh \in BOOLEAN
      BY Zenon
    <3>. HIDE DEF fresh
    <3>2. new \in Held
      BY <1>1, <3>1 DEF Held
    <3>3. new.pc # "sync" /\ new.term <= elections
      BY <1>1 DEF Held
    <3>4. req' = [req EXCEPT ![r] = new]
      BY <1>1, <2>3 DEF RequestsInv, fresh
    <3>5. mutex' \in [Nodes -> Requests \cup {NoRequest}]
      BY <1>1, <2>3 DEF RequestsInv
    <3>. HIDE DEF new
    <3>. QED
      BY <1>1, <2>1, <3>2, <3>3, <3>4, <3>5, MoveTyped
  <2>. QED
    BY <1>3, <2>2, <2>3 DEF CheckVersion
<1>. QED
  BY <1>2, <1>3

\* Request r after it has read the bindings of route x.
Listed(r, x) ==
  [req[r] EXCEPT !.pc = IF req[r].unread = {x} THEN "flush" ELSE "bindings",
                 !.unread = @ \ {x},
                 !.snap.bindings = @ \cup {b \in View(r).bindings : b[2] = x}]

LEMMA ListedOne ==
  ASSUME NEW r \in Requests, req \in [Requests -> Held]
  PROVE  /\ ListRoutes(r) =>
              req' = [req EXCEPT ![r] = [req[r] EXCEPT
                        !.pc = IF View(r).routes = {} THEN "flush" ELSE "bindings",
                        !.snap = [req[r].snap EXCEPT !.routes = View(r).routes],
                        !.unread = View(r).routes]]
         /\ ListBindings(r) => \E x \in req[r].unread : req' = [req EXCEPT ![r] = Listed(r, x)]
<1>1. ASSUME ListRoutes(r)
      PROVE  req' = [req EXCEPT ![r] = [req[r] EXCEPT
                       !.pc = IF View(r).routes = {} THEN "flush" ELSE "bindings",
                       !.snap = [req[r].snap EXCEPT !.routes = View(r).routes],
                       !.unread = View(r).routes]]
  BY <1>1 DEF ListRoutes, Held, Snapshot
<1>2. ASSUME ListBindings(r)
      PROVE  \E x \in req[r].unread : req' = [req EXCEPT ![r] = Listed(r, x)]
  <2>1. PICK x \in req[r].unread :
          req' = [req EXCEPT ![r].pc = IF req[r].unread = {x} THEN "flush" ELSE "bindings",
                             ![r].unread = @ \ {x},
                             ![r].snap.bindings = @ \cup {b \in View(r).bindings : b[2] = x}]
    BY <1>2 DEF ListBindings
  <2>2. req' = [req EXCEPT ![r] = Listed(r, x)]
    BY <2>1 DEF Listed, Held, Snapshot
  <2>. QED
    BY <2>2
<1>. QED
  BY <1>1, <1>2

\* Reading the bindings of a route changes nothing else of the request.
LEMMA ListedKeeps ==
  ASSUME EngineTyped, NEW r \in Requests, ListBindings(r)
  PROVE  /\ req[r].pc = "bindings" /\ req'[r].pc \in {"bindings", "flush"}
         /\ \A q \in Requests \ {r} : req'[q] = req[q]
         /\ req'[r].snap.routes = req[r].snap.routes
         /\ UNCHANGED <<store, mutex>>
         /\ \A f \in {"node", "change", "target", "pending", "version", "fresh", "term",
                      "looked", "synced"} : req'[r][f] = req[r][f]
<1>1. req \in [Requests -> Held] /\ req[r] \in Held /\ req[r].snap \in Snapshot
  BY DEF EngineTyped, RequestsInv, Held
<1>2. PICK x \in req[r].unread : req' = [req EXCEPT ![r] = Listed(r, x)]
  BY <1>1, ListedOne
<1>3. req'[r] = Listed(r, x) /\ \A q \in Requests \ {r} : req'[q] = req[q]
  BY <1>1, <1>2
<1>4. /\ Listed(r, x).pc \in {"bindings", "flush"}
      /\ Listed(r, x).snap.routes = req[r].snap.routes
      /\ \A f \in {"node", "change", "target", "pending", "version", "fresh", "term",
                   "looked", "synced"} : Listed(r, x)[f] = req[r][f]
  BY <1>1 DEF Listed, Held, Snapshot
<1>. QED
  BY <1>3, <1>4 DEF ListBindings, At

LEMMA ListTyped ==
  ASSUME EngineTyped, NEW r \in Requests, SyncPolicies(r) \/ ListRoutes(r) \/ ListBindings(r)
  PROVE  RequestsInv'
<1>0. req \in [Requests -> Held]
  BY DEF EngineTyped, RequestsInv
<1>1. /\ req[r] \in Held /\ elections \in Nat /\ req[r].term <= elections
      /\ req[r].node \in Nodes /\ RequestsInv
  BY DEF EngineTyped, RequestsInv, StoreInv, Held
<1>2. View(r) \in Db /\ seen[req[r].node] \in Nat
  BY <1>1, ReadsSound DEF EngineTyped, StoreInv, Position
<1>3. mutex' = mutex /\ elections' = elections
  BY DEF SyncPolicies, ListRoutes, ListBindings, store
<1>4. CASE SyncPolicies(r)
  <2>. DEFINE gone == BindingOps(r, "detach_policy", Bound(r) \ req[r].change.policies)
              more == BindingOps(r, "attach_policy", req[r].change.policies \ Bound(r))
              pending == req[r].pending \o more \o gone
              new == [req[r] EXCEPT !.pc = "list", !.synced = seen[req[r].node],
                                    !.pending = pending]
  <2>1. req[r].target \in Routes
    BY <1>4 DEF SyncPolicies, EngineTyped, RequestsInv
  <2>2. req[r].change.policies \in SUBSET Policies
    BY <1>1 DEF Held, Change, NoChange
  <2>3. Bound(r) \in SUBSET Policies
    BY DEF Bound
  <2>4. more \in Seq(Buffered) /\ gone \in Seq(Buffered)
    BY <2>1, <2>2, <2>3, BindingOpsType
  <2>. HIDE DEF more, gone
  <2>5. pending \in Seq(Buffered)
    BY <1>1, <2>4 DEF Held
  <2>6. req' = [req EXCEPT ![r] = new]
    BY <1>1, <1>4 DEF SyncPolicies, RequestsInv, more, gone
  <2>. HIDE DEF pending
  <2>7. new \in Held /\ new.pc # "sync" /\ new.term = req[r].term
    BY <1>1, <1>2, <2>5 DEF Held
  <2>. HIDE DEF new
  <2>. QED
    BY <1>1, <1>3, <2>6, <2>7, MoveTyped DEF RequestsInv
<1>5. CASE ListRoutes(r)
  <2>. DEFINE snap == [req[r].snap EXCEPT !.routes = View(r).routes]
              pc == IF View(r).routes = {} THEN "flush" ELSE "bindings"
              new == [req[r] EXCEPT !.pc = pc, !.snap = snap, !.unread = View(r).routes]
  <2>1. snap \in Snapshot /\ View(r).routes \in SUBSET Routes /\ pc \in {"flush", "bindings"}
    BY <1>1, <1>2 DEF Held, Snapshot, Db
  <2>2. req' = [req EXCEPT ![r] = new]
    BY <1>0, <1>5, ListedOne
  <2>. HIDE DEF snap, pc
  <2>3. new \in Held /\ new.pc # "sync" /\ new.term = req[r].term
    BY <1>1, <2>1 DEF Held
  <2>. HIDE DEF new
  <2>. QED
    BY <1>1, <1>3, <2>2, <2>3, MoveTyped DEF RequestsInv
<1>6. CASE ListBindings(r)
  <2>1. PICK x \in req[r].unread : req' = [req EXCEPT ![r] = Listed(r, x)]
    BY <1>0, <1>6, ListedOne
  <2>. DEFINE snap == [req[r].snap EXCEPT !.bindings = @ \cup {b \in View(r).bindings : b[2] = x}]
              pc == IF req[r].unread = {x} THEN "flush" ELSE "bindings"
  <2>2. /\ snap \in Snapshot /\ req[r].unread \ {x} \in SUBSET Routes
        /\ pc \in {"flush", "bindings"}
    BY <1>1, <1>2 DEF Held, Snapshot, Db
  <2>3. Listed(r, x) = [req[r] EXCEPT !.pc = pc, !.unread = req[r].unread \ {x}, !.snap = snap]
    BY <1>1 DEF Listed, Held
  <2>. HIDE DEF snap, pc
  <2>4. Listed(r, x) \in Held /\ Listed(r, x).pc # "sync" /\ Listed(r, x).term = req[r].term
    BY <1>1, <2>2, <2>3 DEF Held
  <2>. QED
    BY <1>1, <1>3, <2>1, <2>4, MoveTyped DEF RequestsInv
<1>. QED
  BY <1>4, <1>5, <1>6

\* The steps that submit an entry, and what each of them submits.
Submits(r, kind, batch) ==
  \/ Flush(r) /\ kind = "change" /\ batch = req[r].pending
  \/ SaveVersion(r) /\ kind = "version" /\ batch = Saving(r)
  \/ CommitAudit(r) /\ kind = "audit" /\ batch = Auditing(r)
  \/ ReorderWrite(r) /\ kind = "change" /\ batch = req[r].pending

LEMMA SubmitsOne ==
  ASSUME EngineTyped, NEW r \in Requests,
         Flush(r) \/ SaveVersion(r) \/ CommitAudit(r) \/ ReorderWrite(r)
  PROVE  \E kind \in {"change", "version", "audit"}, batch \in Seq(Command) :
           Submits(r, kind, batch) /\ Submission(r, kind, batch)
<1>1. req[r] \in Held
  BY DEF EngineTyped, RequestsInv
<1>2. /\ req[r].pending \in Seq(Command) /\ Saving(r) \in Seq(Command)
      /\ Auditing(r) \in Seq(Command)
  BY <1>1, BatchTypes DEF Held
<1>3. CASE Flush(r)
  BY <1>2, <1>3 DEF Flush, Submits, Submission
<1>4. CASE SaveVersion(r)
  BY <1>2, <1>4 DEF SaveVersion, Submits, Submission
<1>5. CASE CommitAudit(r)
  BY <1>2, <1>5 DEF CommitAudit, Submits, Submission
<1>6. CASE ReorderWrite(r)
  BY <1>2, <1>6 DEF ReorderWrite, Submits, Submission
<1>. QED
  BY <1>3, <1>4, <1>5, <1>6

LEMMA SubmitTyped ==
  ASSUME EngineTyped, NEW r \in Requests,
         Flush(r) \/ SaveVersion(r) \/ CommitAudit(r) \/ ReorderWrite(r)
  PROVE  EngineTyped'
<1>1. /\ req[r] \in Held /\ req[r].term <= elections /\ RequestsInv /\ StoreInv
  BY DEF EngineTyped, RequestsInv
<1>2. StoreInv' /\ elections' >= elections
  BY <1>1, SubmitsOne, SubmissionCases
<1>3. elections \in Nat /\ elections' \in Nat
  BY <1>1, <1>2 DEF StoreInv
<1>4. CASE \E pc \in {"done", "failed"} : Return(r, pc)
  <2>1. RequestsInv'
    BY <1>1, <1>2, <1>3, <1>4, ReturnTyped
  <2>. QED
    BY <1>2, <2>1 DEF EngineTyped
<1>5. ASSUME NEW new \in Held, req' = [req EXCEPT ![r] = new], new.pc # "sync",
             new.term = req[r].term, mutex' = mutex, elections' = elections
      PROVE  EngineTyped'
  <2>1. RequestsInv'
    BY <1>1, <1>3, <1>5, MoveTyped DEF RequestsInv
  <2>. QED
    BY <1>2, <2>1 DEF EngineTyped
<1>6. CASE /\ SubmitAccepted(r, "change", req[r].pending) /\ UNCHANGED mutex
           /\ req' = [req EXCEPT ![r].pc = "save", ![r].pending = <<>>]
  <2>. DEFINE new == [req[r] EXCEPT !.pc = "save", !.pending = <<>>]
  <2>1. <<>> \in Seq(Buffered)
    OBVIOUS
  <2>2. new \in Held /\ new.pc # "sync" /\ new.term = req[r].term
    BY <1>1, <2>1 DEF Held
  <2>3. req' = [req EXCEPT ![r] = new] /\ mutex' = mutex /\ elections' = elections
    BY <1>1, <1>6 DEF RequestsInv, SubmitAccepted, Submit
  <2>. HIDE DEF new
  <2>. QED
    BY <1>5, <2>2, <2>3
<1>7. CASE /\ SubmitAccepted(r, "version", Saving(r)) /\ UNCHANGED mutex
           /\ req' = [req EXCEPT ![r].pc = "commit", ![r].version = Latest'.counter]
  <2>. DEFINE new == [req[r] EXCEPT !.pc = "commit", !.version = Latest'.counter]
  <2>1. Latest'.counter \in Nat
    <3>1. /\ Len(log') \in Nat /\ Len(history') = Len(log') + 1
          /\ \A i \in 1..Len(history') : Sound(history'[i])
      BY <1>2 DEF StoreInv
    <3>2. Sound(history'[Len(history')])
      BY <3>1
    <3>. QED
      BY <3>2 DEF Latest, Sound, Db
  <2>2. new \in Held /\ new.pc # "sync" /\ new.term = req[r].term
    BY <1>1, <2>1 DEF Held
  <2>3. req' = [req EXCEPT ![r] = new] /\ mutex' = mutex /\ elections' = elections
    BY <1>1, <1>7 DEF RequestsInv, SubmitAccepted, Submit
  <2>. HIDE DEF new
  <2>. QED
    BY <1>5, <2>2, <2>3
<1>8. CASE Flush(r)
  BY <1>4, <1>6, <1>8 DEF Flush
<1>9. CASE SaveVersion(r)
  BY <1>4, <1>7, <1>9 DEF SaveVersion
<1>10. CASE CommitAudit(r) \/ ReorderWrite(r)
  BY <1>4, <1>10 DEF CommitAudit, ReorderWrite
<1>. QED
  BY <1>8, <1>9, <1>10

LEMMA ClusterTyped ==
  ASSUME EngineTyped, NEW n \in Nodes, Replicate(n) \/ Elect(n)
  PROVE  EngineTyped' /\ elections' >= elections /\ UNCHANGED <<log, history, mutex, req>>
<1>1. /\ Len(log) \in Nat /\ seen \in [Nodes -> 0..Len(log)]
      /\ elections \in Nat /\ elections \in 0..MaxElections /\ MaxElections \in Nat
      /\ \A r \in Requests : req[r].term \in Nat /\ req[r].term <= elections
  BY ElectionsAssumption DEF EngineTyped, StoreInv, RequestsInv, Position, Held
<1>2. UNCHANGED <<log, history, mutex, req>>
  BY DEF Replicate, Elect
<1>3. seen' \in [Nodes -> 0..Len(log)]
  BY <1>1 DEF Replicate, Elect
<1>4. leader' \in Nodes /\ elections' \in 0..MaxElections /\ elections' >= elections
  BY <1>1 DEF Replicate, Elect, EngineTyped, StoreInv
<1>5. StoreInv'
  BY <1>2, <1>3, <1>4 DEF EngineTyped, StoreInv, Position
<1>6. RequestsInv'
  BY <1>1, <1>2, <1>4 DEF EngineTyped, RequestsInv, At
<1>. QED
  BY <1>2, <1>4, <1>5, <1>6 DEF EngineTyped

\* The steps of a request that leave the store alone.
Inward(r) ==
  \/ Lock(r) \/ CheckVersion(r)
  \/ UpdateExisting(r) \/ CreateNew(r) \/ DeleteById(r)
  \/ SyncPolicies(r) \/ ListRoutes(r) \/ ListBindings(r)

LEMMA TypedStep ==
  ASSUME EngineTyped, [Next]_vars
  PROVE  EngineTyped'
<1>1. ASSUME NEW r \in Requests, Inward(r)
      PROVE  EngineTyped'
  <2>1. UNCHANGED store
    BY <1>1 DEF Inward, Lock, CheckVersion, UpdateExisting, CreateNew, DeleteById,
                SyncPolicies, ListRoutes, ListBindings
  <2>2. StoreInv'
    BY <2>1 DEF EngineTyped, StoreInv, Position, store
  <2>3. RequestsInv'
    BY <1>1, LookTyped, CheckTyped, ListTyped DEF Inward
  <2>. QED
    BY <2>2, <2>3 DEF EngineTyped
<1>2. ASSUME NEW r \in Requests, NEW n \in Nodes, NEW change \in Changes, Begins(r, n, change)
      PROVE  EngineTyped'
  <2>1. UNCHANGED store
    BY <1>2 DEF Begins, Call, ReorderRead
  <2>2. StoreInv'
    BY <2>1 DEF EngineTyped, StoreInv, Position, store
  <2>3. RequestsInv'
    BY <1>2, BeginTyped DEF Begins
  <2>. QED
    BY <2>2, <2>3 DEF EngineTyped
<1>3. ASSUME NEW r \in Requests, RequestStep(r)
      PROVE  EngineTyped'
  BY <1>1, <1>3, SubmitTyped DEF RequestStep, Inward
<1>4. CASE UNCHANGED vars
  BY <1>4 DEF vars, store, EngineTyped, StoreInv, RequestsInv, Position, At
<1>. QED
  BY <1>2, <1>3, <1>4, ClusterTyped DEF Next

(* Types of the engine, for any number of requests, nodes and elections;    *)
(* every database a node can show is in Db, which is what ApplyChange reads *)
(* its route, bindings and version from.                                    *)
THEOREM EngineTypeCorrect == Spec => []TypeOK
<1>1. Init => EngineTyped
  BY StoreInit, RequestsInit DEF EngineTyped
<1>2. EngineTyped /\ [Next]_vars => EngineTyped'
  BY TypedStep
<1>3. EngineTyped => TypeOK
  BY DEF EngineTyped, StoreInv, RequestsInv, TypeOK
<1>. QED
  BY <1>1, <1>2, <1>3, PTL DEF Spec
-----------------------------------------------------------------------------
(* What the steps do to the requests, for the two arguments that follow.    *)

\* A step of r before its change is flushed.
LEMMA InwardMoves ==
  ASSUME EngineTyped, NEW r \in Requests, Inward(r)
  PROVE  /\ UNCHANGED store
         /\ \A q \in Requests \ {r} : req'[q] = req[q]
         /\ req'[r].pc \in {"check", "look", "sync", "list", "bindings", "flush", "failed"}
         /\ req'[r].node = req[r].node /\ req'[r].change = req[r].change
         /\ \/ Lock(r)
            \/ Return(r, "failed")
            \/ CheckVersion(r) /\ req'[r].pc = "look" /\ mutex' = mutex
            \/ /\ req[r].pc \in {"look", "sync", "list", "bindings"} /\ mutex' = mutex
               /\ req'[r].fresh = req[r].fresh /\ req'[r].term = req[r].term
<1>1. req \in [Requests -> Held] /\ req[r] \in Held
  BY DEF EngineTyped, RequestsInv
<1>. USE <1>1 DEF Held
<1>2. CASE Lock(r)
  BY <1>2 DEF Lock
<1>3. CASE CheckVersion(r)
  <2>1. CASE Return(r, "failed")
    BY <1>3, <2>1 DEF Return, CheckVersion
  <2>2. CASE /\ req' = [req EXCEPT ![r].pc = "look", ![r].term = elections,
                                   ![r].fresh = (seen[req[r].node] = Len(log))]
             /\ UNCHANGED mutex
    BY <1>3, <2>2 DEF CheckVersion
  <2>. QED
    BY <1>3, <2>1, <2>2 DEF CheckVersion
<1>4. CASE UpdateExisting(r)
  BY <1>4 DEF UpdateExisting, At
<1>5. CASE CreateNew(r)
  BY <1>5 DEF CreateNew, At
<1>6. CASE DeleteById(r)
  BY <1>6 DEF DeleteById, At
<1>7. CASE SyncPolicies(r)
  BY <1>7 DEF SyncPolicies, At
<1>8. CASE ListRoutes(r)
  BY <1>8 DEF ListRoutes, At
<1>9. CASE ListBindings(r)
  BY <1>9, ListedKeeps
<1>. QED
  BY <1>2, <1>3, <1>4, <1>5, <1>6, <1>7, <1>8, <1>9 DEF Inward

LEMMA BeginMoves ==
  ASSUME EngineTyped, NEW r \in Requests, NEW n \in Nodes, NEW change \in Changes,
         Begins(r, n, change)
  PROVE  /\ UNCHANGED <<store, mutex>>
         /\ \A q \in Requests \ {r} : req'[q] = req[q]
         /\ req[r].pc = "idle" /\ req'[r].pc \in {"waiting", "reorder"}
<1>1. req \in [Requests -> Held] /\ Idle \in Held
  BY IdleTyped DEF EngineTyped, RequestsInv
<1>. USE <1>1 DEF Held, At
<1>2. CASE Call(r, n, change)
  BY <1>2 DEF Call
<1>3. CASE ReorderRead(r, n, change)
  BY <1>3 DEF ReorderRead
<1>. QED
  BY <1>2, <1>3 DEF Begins

LEMMA ReturnMoves ==
  ASSUME EngineTyped, NEW r \in Requests, NEW pc, Return(r, pc)
  PROVE  /\ \A q \in Requests \ {r} : req'[q] = req[q]
         /\ req'[r].pc = pc
         /\ \A n \in Nodes : mutex[n] # r => mutex'[n] = mutex[n]
BY DEF Return, EngineTyped, RequestsInv, Held

\* A step of r that submits an entry.
LEMMA SubmitMoves ==
  ASSUME EngineTyped, NEW r \in Requests, NEW kind, NEW batch, Submits(r, kind, batch)
  PROVE  /\ \A q \in Requests \ {r} : req'[q] = req[q]
         /\ \/ /\ Return(r, "done") /\ req'[r].pc = "done" /\ req[r].pc \in {"commit", "reorder"}
               /\ SubmitAccepted(r, kind, batch)
            \/ Return(r, "failed") /\ req'[r].pc = "failed"
            \/ /\ req[r].pc = "flush" /\ req'[r].pc = "save" /\ mutex' = mutex
               /\ SubmitAccepted(r, kind, batch) /\ kind = "change"
               /\ \A f \in {"node", "change", "fresh", "term"} : req'[r][f] = req[r][f]
            \/ /\ req[r].pc = "save" /\ req'[r].pc = "commit" /\ mutex' = mutex
               /\ SubmitAccepted(r, kind, batch) /\ kind = "version"
               /\ req'[r].node = req[r].node
               /\ batch = Saving(r) /\ req'[r].version = Latest'.counter
         /\ kind = "version" => req[r].pc = "save"
         /\ kind = "audit" => req[r].pc = "commit"
         /\ kind = "change" => req[r].pc \in {"flush", "reorder"} /\ batch = req[r].pending
         /\ kind \in {"change", "version", "audit"}
<1>1. req \in [Requests -> Held] /\ req[r] \in Held
  BY DEF EngineTyped, RequestsInv
<1>2. CASE Flush(r) /\ kind = "change" /\ batch = req[r].pending
  <2>1. CASE Return(r, "failed")
    BY <1>2, <2>1, ReturnMoves DEF Flush, At
  <2>2. CASE /\ SubmitAccepted(r, "change", req[r].pending) /\ UNCHANGED mutex
             /\ req' = [req EXCEPT ![r].pc = "save", ![r].pending = <<>>]
    BY <1>1, <1>2, <2>2 DEF Flush, At, Held
  <2>. QED
    BY <1>2, <2>1, <2>2 DEF Flush
<1>3. CASE SaveVersion(r) /\ kind = "version" /\ batch = Saving(r)
  <2>1. CASE Return(r, "failed")
    BY <1>3, <2>1, ReturnMoves DEF SaveVersion, At
  <2>2. CASE /\ SubmitAccepted(r, "version", Saving(r)) /\ UNCHANGED mutex
             /\ req' = [req EXCEPT ![r].pc = "commit", ![r].version = Latest'.counter]
    BY <1>1, <1>3, <2>2 DEF SaveVersion, At, Held
  <2>. QED
    BY <1>3, <2>1, <2>2 DEF SaveVersion
<1>4. CASE CommitAudit(r) /\ kind = "audit" /\ batch = Auditing(r)
  BY <1>4, ReturnMoves DEF CommitAudit, At
<1>5. CASE ReorderWrite(r) /\ kind = "change" /\ batch = req[r].pending
  BY <1>5, ReturnMoves DEF ReorderWrite, At
<1>. QED
  BY <1>2, <1>3, <1>4, <1>5 DEF Submits
-----------------------------------------------------------------------------
(* TraceInOrder.                                                            *)

\* Before a request saves a version its change is in the log, and before it
\* audits its version is.
Logged ==
  \A r \in Requests :
    /\ At(r, "save") => \E j \in 1..Len(log) : Entry(j, r, "change")
    /\ At(r, "commit") => \E j \in 1..Len(log) : Entry(j, r, "version")

TraceInv == EngineTyped /\ Logged /\ TraceInOrder

\* The log stays as it is or gets one entry more.
LEMMA SubmissionLogs ==
  ASSUME StoreInv, NEW r \in Requests, NEW kind \in {"change", "version", "audit"},
         NEW batch \in Seq(Command), Submission(r, kind, batch)
  PROVE  \/ log' = log /\ ~SubmitAccepted(r, kind, batch)
         \/ /\ Append1(r, kind, batch)
            /\ SubmitAccepted(r, kind, batch) => log'[Len(log) + 1] = [by |-> r, kind |-> kind, ok |-> TRUE]
<1>1. ApplyBatch(Latest, batch).ok \in BOOLEAN
  BY BatchDecides
<1>2. CASE Append1(r, kind, batch)
  <2>1. log'[Len(log) + 1] = [by |-> r, kind |-> kind, ok |-> ApplyBatch(Latest, batch).ok]
    BY <1>2, Appended
  <2>2. SubmitAccepted(r, kind, batch) => ApplyBatch(Latest, batch).ok = TRUE
    BY <1>1, Zenon DEF SubmitAccepted
  <2>. QED
    BY <1>2, <2>1, <2>2
<1>3. CASE ~Append1(r, kind, batch)
  BY <1>3 DEF Submission, SubmitAccepted, SubmitRefused, SubmitFails, Submit, store
<1>. QED
  BY <1>2, <1>3

\* What an entry more does to the entries found so far.
LEMMA EntriesStay ==
  ASSUME StoreInv, NEW r \in Requests, NEW kind \in {"change", "version", "audit"},
         NEW batch \in Seq(Command), Append1(r, kind, batch)
  PROVE  /\ \A j \in 1..Len(log) : \A q, k : Entry(j, q, k) => Entry(j, q, k)'
         /\ \A j \in 1..Len(log) : log'[j] = log[j]
         /\ Len(log') = Len(log) + 1 /\ Len(log) \in Nat
         /\ DOMAIN log = 1..Len(log) /\ DOMAIN log' = 1..(Len(log) + 1)
         /\ log'[Len(log) + 1].by = r /\ log'[Len(log) + 1].kind = kind
<1>1. /\ log' \in Seq(LogEntry) /\ Len(log') = Len(log) + 1
      /\ \A i \in 1..Len(log) : log'[i] = log[i]
      /\ log'[Len(log) + 1].by = r /\ log'[Len(log) + 1].kind = kind
  BY Appended
<1>2. log \in Seq(LogEntry) /\ Len(log) \in Nat
  BY DEF StoreInv
<1>3. DOMAIN log = 1..Len(log) /\ DOMAIN log' = 1..(Len(log) + 1)
  BY <1>1, <1>2
<1>4. \A j \in 1..Len(log) : j \in DOMAIN log'
  BY <1>2, <1>3
<1>5. \A j \in 1..Len(log) : \A q, k : Entry(j, q, k) => Entry(j, q, k)'
  BY <1>1, <1>4, Zenon DEF Entry
<1>. QED
  BY <1>1, <1>2, <1>3, <1>5

LEMMA TraceStep ==
  ASSUME TraceInv, [Next]_vars
  PROVE  TraceInv'
<1>. USE DEF At
<1>1. EngineTyped /\ EngineTyped' /\ StoreInv
  BY TypedStep DEF TraceInv, EngineTyped
<1>2. ASSUME log' = log,
             \A r \in Requests : req'[r].pc \in {"save", "commit"} => req'[r].pc = req[r].pc
      PROVE  TraceInv'
  BY <1>1, <1>2 DEF TraceInv, Logged, TraceInOrder, Entry
<1>3. ASSUME NEW r \in Requests, Inward(r)
      PROVE  TraceInv'
  <2>1. log' = log
    BY <1>1, <1>3, InwardMoves DEF store
  <2>2. \A q \in Requests : req'[q].pc \in {"save", "commit"} => req'[q].pc = req[q].pc
    BY <1>1, <1>3, InwardMoves
  <2>. QED
    BY <1>2, <2>1, <2>2
<1>4. ASSUME NEW r \in Requests, NEW n \in Nodes, NEW change \in Changes, Begins(r, n, change)
      PROVE  TraceInv'
  <2>1. log' = log
    BY <1>1, <1>4, BeginMoves DEF store
  <2>2. \A q \in Requests : req'[q].pc \in {"save", "commit"} => req'[q].pc = req[q].pc
    BY <1>1, <1>4, BeginMoves
  <2>. QED
    BY <1>2, <2>1, <2>2
<1>5. ASSUME NEW r \in Requests, NEW kind \in {"change", "version", "audit"},
             NEW batch \in Seq(Command), Submits(r, kind, batch), Submission(r, kind, batch)
      PROVE  TraceInv'
  <2>1. /\ \A q \in Requests \ {r} : req'[q] = req[q]
        /\ kind = "version" => At(r, "save")
        /\ kind = "audit" => At(r, "commit")
        /\ req'[r].pc \in {"save", "commit"} => SubmitAccepted(r, kind, batch)
        /\ req'[r].pc = "save" => kind = "change"
        /\ req'[r].pc = "commit" => kind = "version"
    BY <1>1, <1>5, SubmitMoves
  <2>2. CASE log' = log /\ ~SubmitAccepted(r, kind, batch)
    BY <1>2, <2>1, <2>2
  <2>3. CASE /\ Append1(r, kind, batch)
             /\ SubmitAccepted(r, kind, batch) =>
                  log'[Len(log) + 1] = [by |-> r, kind |-> kind, ok |-> TRUE]
    <3>1. /\ \A j \in 1..Len(log) : \A q, k : Entry(j, q, k) => Entry(j, q, k)'
          /\ \A j \in 1..Len(log) : log'[j] = log[j]
          /\ Len(log') = Len(log) + 1 /\ Len(log) \in Nat
          /\ DOMAIN log = 1..Len(log) /\ DOMAIN log' = 1..(Len(log) + 1)
          /\ log'[Len(log) + 1].by = r /\ log'[Len(log) + 1].kind = kind
      BY <1>1, <2>3, EntriesStay
    <3>2. SubmitAccepted(r, kind, batch) => \E j \in 1..Len(log') : Entry(j, r, kind)'
      <4>1. ASSUME NEW i, i = Len(log) + 1, SubmitAccepted(r, kind, batch)
            PROVE  i \in 1..Len(log') /\ Entry(i, r, kind)'
        <5>1. i \in 1..Len(log') /\ i \in DOMAIN log'
          BY <3>1, <4>1
        <5>. QED
          BY <2>3, <4>1, <5>1, Zenon DEF Entry
      <4>. QED
        BY <4>1
    <3>3. Logged'
      <4>. SUFFICES ASSUME NEW q \in Requests
                    PROVE  /\ At(q, "save")' => \E j \in 1..Len(log') : Entry(j, q, "change")'
                           /\ At(q, "commit")' => \E j \in 1..Len(log') : Entry(j, q, "version")'
        BY DEF Logged
      <4>1. CASE q = r
        BY <2>1, <3>2, <4>1
      <4>2. CASE q # r
        <5>1. req'[q] = req[q]
          BY <2>1, <4>2
        <5>2. /\ At(q, "save") => \E j \in 1..Len(log) : Entry(j, q, "change")
              /\ At(q, "commit") => \E j \in 1..Len(log) : Entry(j, q, "version")
          BY DEF TraceInv, Logged
        <5>. QED
          BY <3>1, <5>1, <5>2
      <4>. QED
        BY <4>1, <4>2
    <3>4. TraceInOrder'
      <4>. SUFFICES ASSUME NEW i \in 1..(Len(log) + 1)
                    PROVE  /\ log'[i].kind = "version" =>
                                \E j \in 1..(i - 1) : Entry(j, log[i].by, "change")'
                           /\ log'[i].kind = "audit" =>
                                \E j \in 1..(i - 1) : Entry(j, log[i].by, "version")'
        BY <3>1 DEF TraceInOrder
      <4>1. CASE i \in 1..Len(log)
        <5>1. /\ log[i].kind = "version" => \E j \in 1..(i - 1) : Entry(j, log[i].by, "change")
              /\ log[i].kind = "audit" => \E j \in 1..(i - 1) : Entry(j, log[i].by, "version")
          BY <3>1, <4>1 DEF TraceInv, TraceInOrder
        <5>2. \A j \in 1..(i - 1) : j \in 1..Len(log)
          BY <3>1, <4>1
        <5>. QED
          BY <3>1, <4>1, <5>1, <5>2
      <4>2. CASE i = Len(log) + 1
        <5>1. i - 1 = Len(log) /\ log'[i].by = r /\ log'[i].kind = kind
          BY <3>1, <4>2
        <5>2. /\ kind = "version" => \E j \in 1..Len(log) : Entry(j, r, "change")
              /\ kind = "audit" => \E j \in 1..Len(log) : Entry(j, r, "version")
          BY <2>1 DEF TraceInv, Logged
        <5>. QED
          BY <3>1, <5>1, <5>2
      <4>. QED
        BY <3>1, <4>1, <4>2
    <3>. QED
      BY <1>1, <3>3, <3>4 DEF TraceInv
  <2>. QED
    BY <1>1, <1>5, <2>2, <2>3, SubmissionLogs
<1>6. ASSUME NEW r \in Requests, RequestStep(r)
      PROVE  TraceInv'
  BY <1>1, <1>3, <1>5, <1>6, SubmitsOne DEF RequestStep, Inward
<1>7. CASE \E n \in Nodes : Replicate(n) \/ Elect(n)
  BY <1>1, <1>2, <1>7, ClusterTyped
<1>8. CASE UNCHANGED vars
  BY <1>2, <1>8 DEF vars, store
<1>. QED
  BY <1>4, <1>6, <1>7, <1>8 DEF Next

(* Whatever fails and whoever leads, a config version in the log has its    *)
(* change before it and an audit entry has its version before it.           *)
THEOREM TraceInOrderThm == Spec => []TraceInOrder
<1>1. Init => TraceInv
  BY StoreInit, RequestsInit DEF Init, Idle, At, TraceInv, EngineTyped, Logged, TraceInOrder
<1>2. TraceInv /\ [Next]_vars => TraceInv'
  BY TraceStep
<1>3. TraceInv => TraceInOrder
  BY DEF TraceInv
<1>. QED
  BY <1>1, <1>2, <1>3, PTL DEF Spec
-----------------------------------------------------------------------------
(* Engine.mu.                                                               *)

\* A request holds the mutex of its node, and no other, from the lock to
\* the return; nobody else holds one.
MutexExact ==
  \A n \in Nodes, r \in Requests :
    mutex[n] = r <=> req[r].pc \in Locked /\ req[r].node = n

(* Returning releases the mutex of the request and leaves the others theirs. *)
LEMMA ReturnReleases ==
  ASSUME EngineTyped, MutexExact, NEW r \in Requests, NEW pc \in {"done", "failed"},
         Return(r, pc)
  PROVE  MutexExact'
<1>1. /\ req'[r].pc \notin Locked
      /\ \A q \in Requests \ {r} : req'[q] = req[q]
      /\ \A n \in Nodes : mutex'[n] = IF mutex[n] = r THEN NoRequest ELSE mutex[n]
  BY ReturnMoves DEF Locked, Return
<1>2. NoRequest \notin Requests
  BY RequestsAssumption
<1>. SUFFICES ASSUME NEW n \in Nodes, NEW q \in Requests
              PROVE  mutex'[n] = q <=> req'[q].pc \in Locked /\ req'[q].node = n
  BY DEF MutexExact
<1>3. CASE q = r
  BY <1>1, <1>2, <1>3
<1>4. CASE q # r
  <2>1. mutex'[n] = q <=> mutex[n] = q
    BY <1>1, <1>2, <1>4
  <2>2. req'[q] = req[q]
    BY <1>1, <1>4
  <2>. QED
    BY <2>1, <2>2 DEF MutexExact
<1>. QED
  BY <1>3, <1>4

(* Taking the free mutex of its node makes the request its one holder.      *)
LEMMA LockTakes ==
  ASSUME EngineTyped, MutexExact, NEW r \in Requests, Lock(r)
  PROVE  MutexExact'
<1>1. /\ req[r].pc = "waiting" /\ mutex[req[r].node] = NoRequest
      /\ mutex' = [mutex EXCEPT ![req[r].node] = r]
      /\ req' = [req EXCEPT ![r].pc = "check"]
  BY DEF Lock, At
<1>2. /\ req \in [Requests -> Held] /\ NoRequest \notin Requests
      /\ mutex \in [Nodes -> Requests \cup {NoRequest}] /\ req[r].node \in Nodes
  BY RequestsAssumption DEF EngineTyped, RequestsInv, Held
<1>3. /\ \A q \in Requests \ {r} : req'[q] = req[q]
      /\ req'[r].pc \in Locked /\ req'[r].node = req[r].node
  BY <1>1, <1>2 DEF Held, Locked
<1>. SUFFICES ASSUME NEW n \in Nodes, NEW q \in Requests
              PROVE  mutex'[n] = q <=> req'[q].pc \in Locked /\ req'[q].node = n
  BY DEF MutexExact
<1>4. mutex[n] = q <=> req[q].pc \in Locked /\ req[q].node = n
  BY DEF MutexExact
<1>5. CASE n = req[r].node
  <2>1. mutex'[n] = r /\ mutex[n] # q
    BY <1>1, <1>2, <1>5
  <2>. QED
    BY <1>3, <1>4, <1>5, <2>1
<1>6. CASE n # req[r].node
  <2>1. mutex'[n] = mutex[n]
    BY <1>1, <1>2, <1>6
  <2>2. mutex[n] # r
    BY <1>1 DEF MutexExact, Locked
  <2>. QED
    BY <1>3, <1>4, <1>6, <2>1, <2>2
<1>. QED
  BY <1>5, <1>6

LEMMA MutexStep ==
  ASSUME EngineTyped, MutexExact, [Next]_vars
  PROVE  MutexExact'
<1>1. req \in [Requests -> Held]
  BY DEF EngineTyped, RequestsInv
<1>2. ASSUME NEW r \in Requests, mutex' = mutex,
             \A q \in Requests \ {r} : req'[q] = req[q],
             req'[r].pc \in Locked <=> req[r].pc \in Locked,
             req[r].pc \in Locked => req'[r].node = req[r].node
      PROVE  MutexExact'
  BY <1>2 DEF MutexExact
<1>3. ASSUME NEW r \in Requests, Inward(r)
      PROVE  MutexExact'
  <2>1. CASE Return(r, "failed")
    BY <2>1, ReturnReleases
  <2>2. CASE Lock(r)
    BY <2>2, LockTakes
  <2>3. CASE ~Return(r, "failed") /\ ~Lock(r)
    <3>1. /\ \A q \in Requests \ {r} : req'[q] = req[q]
          /\ req'[r].pc \in Locked \cup {"failed"} /\ req'[r].node = req[r].node
          /\ req[r].pc \in Locked /\ mutex' = mutex
      BY <1>3, <2>3, InwardMoves DEF Locked, CheckVersion, At
    <3>2. req'[r].pc # "failed"
      <4>. USE <1>1 DEF Held
      <4>1. CASE CheckVersion(r)
        BY <2>3, <4>1 DEF CheckVersion
      <4>2. CASE UpdateExisting(r) \/ DeleteById(r)
        BY <4>2 DEF UpdateExisting, DeleteById
      <4>3. CASE CreateNew(r)
        BY <4>3 DEF CreateNew
      <4>4. CASE SyncPolicies(r)
        BY <4>4 DEF SyncPolicies
      <4>5. CASE ListRoutes(r)
        <5>1. req'[r].pc = IF View(r).routes = {} THEN "flush" ELSE "bindings"
          BY <4>5 DEF ListRoutes
        <5>. QED
          BY <5>1
      <4>6. CASE ListBindings(r)
        BY <4>6, ListedKeeps
      <4>. QED
        BY <1>3, <2>3, <4>1, <4>2, <4>3, <4>4, <4>5, <4>6 DEF Inward
    <3>. QED
      BY <1>2, <3>1, <3>2
  <2>. QED
    BY <2>1, <2>2, <2>3
<1>4. ASSUME NEW r \in Requests, NEW n \in Nodes, NEW change \in Changes, Begins(r, n, change)
      PROVE  MutexExact'
  BY <1>2, <1>4, BeginMoves DEF Locked
<1>5. ASSUME NEW r \in Requests, NEW kind \in {"change", "version", "audit"},
             NEW batch \in Seq(Command), Submits(r, kind, batch)
      PROVE  MutexExact'
  <2>1. CASE \E pc \in {"done", "failed"} : Return(r, pc)
    BY <2>1, ReturnReleases
  <2>2. CASE /\ req[r].pc \in Locked /\ req'[r].pc \in Locked /\ mutex' = mutex
             /\ req'[r].node = req[r].node
    BY <1>2, <1>5, <2>2, SubmitMoves
  <2>. QED
    BY <1>5, <2>1, <2>2, SubmitMoves DEF Locked
<1>6. ASSUME NEW r \in Requests, RequestStep(r)
      PROVE  MutexExact'
  BY <1>3, <1>5, <1>6, SubmitsOne DEF RequestStep, Inward
<1>7. CASE \E n \in Nodes : Replicate(n) \/ Elect(n)
  BY <1>7, ClusterTyped DEF MutexExact
<1>8. CASE UNCHANGED vars
  BY <1>8 DEF vars, MutexExact
<1>. QED
  BY <1>4, <1>6, <1>7, <1>8 DEF Next

LEMMA MutexInit == Init => MutexExact
<1>. SUFFICES ASSUME Init PROVE MutexExact
  OBVIOUS
<1>1. \A r \in Requests : req[r].pc = "idle"
  BY IdleTyped DEF Init
<1>2. \A n \in Nodes : mutex[n] = NoRequest
  BY DEF Init
<1>. QED
  BY <1>1, <1>2, RequestsAssumption DEF MutexExact, Locked

\* The deferred unlock: whatever happens to a call, a failed submission, a change
\* of leader or a refused version included, it holds the mutex of its node for
\* exactly as long as it is at work.  So at most one call per node is, and a
\* mutex that is held has a call at work that will release it.
THEOREM MutexExactThm == Spec => []MutexExact
<1>. DEFINE I == EngineTyped /\ MutexExact
<1>1. Init => I
  BY StoreInit, RequestsInit, MutexInit DEF EngineTyped
<1>2. I /\ [Next]_vars => I'
  BY TypedStep, MutexStep
<1>3. I => MutexExact
  OBVIOUS
<1>. QED
  BY <1>1, <1>2, <1>3, PTL DEF Spec
-----------------------------------------------------------------------------
(* ExpectedVersionHolds.                                                    *)

\* Requests that checked the version of a caught-up leader and have not saved.
Guarded(r) ==
  /\ req[r].pc \in {"look", "sync", "list", "bindings", "flush", "save"}
  /\ req[r].fresh /\ req[r].term = elections /\ leader = req[r].node
  /\ req[r].change.expected # 0

\* The version they expect is still the latest.
NoneInBetween ==
  \A r \in Requests : Guarded(r) => Latest.counter = req[r].change.expected

VersionInv == EngineTyped /\ MutexExact /\ NoneInBetween

\* A guarded request stays guarded backwards, as long as nobody was elected.
LEMMA GuardedBefore ==
  ASSUME NEW q \in Requests, Guarded(q)',
         req'[q].node = req[q].node, req'[q].change = req[q].change,
         req'[q].fresh = req[q].fresh, req'[q].term = req[q].term,
         UNCHANGED <<leader, elections>>,
         req[q].pc \in {"look", "sync", "list", "bindings", "flush", "save"}
  PROVE  Guarded(q)
BY Zenon DEF Guarded

\* After an election nobody is.
LEMMA NoneGuardedAfterElection ==
  ASSUME EngineTyped, elections' > elections, NEW q \in Requests,
         req'[q].term = req[q].term \/ req'[q].pc \in {"done", "failed", "commit"}
  PROVE  ~Guarded(q)'
<1>1. elections \in Nat /\ elections' # elections /\ req[q].term \in Nat /\ req[q].term <= elections
  BY DEF EngineTyped, StoreInv, RequestsInv, Held
<1>2. CASE req'[q].term = req[q].term
  <2>1. req'[q].term # elections'
    BY <1>1, <1>2 DEF EngineTyped, StoreInv
  <2>. QED
    BY <2>1 DEF Guarded
<1>3. CASE req'[q].pc \in {"done", "failed", "commit"}
  BY <1>3 DEF Guarded
<1>. QED
  BY <1>2, <1>3

LEMMA InwardGuarded ==
  ASSUME VersionInv, NEW r \in Requests, Inward(r)
  PROVE  NoneInBetween'
<1>1. /\ UNCHANGED <<log, history, seen, leader, elections>>
      /\ \A q \in Requests \ {r} : req'[q] = req[q]
  BY InwardMoves DEF VersionInv, store
<1>2. Latest' = Latest
  BY <1>1 DEF Latest
<1>. SUFFICES ASSUME NEW q \in Requests, Guarded(q)'
              PROVE  Latest.counter = req'[q].change.expected
  BY <1>2 DEF NoneInBetween
<1>3. CASE q # r
  <2>1. req'[q] = req[q]
    BY <1>1, <1>3
  <2>2. Guarded(q)
    BY <1>1, <2>1, Zenon DEF Guarded
  <2>. QED
    BY <2>1, <2>2 DEF VersionInv, NoneInBetween
<1>4. CASE q = r
  <2>1. /\ req'[r].node = req[r].node /\ req'[r].change = req[r].change
        /\ \/ req'[r].pc = "check" \/ req'[r].pc = "failed"
           \/ CheckVersion(r) /\ req'[r].pc = "look"
           \/ /\ req[r].pc \in {"look", "sync", "list", "bindings"}
              /\ req'[r].fresh = req[r].fresh /\ req'[r].term = req[r].term
    <3>1. Lock(r) => req'[r].pc = "check"
      BY DEF Lock, VersionInv, EngineTyped, RequestsInv, Held
    <3>2. Return(r, "failed") => req'[r].pc = "failed"
      BY ReturnMoves DEF VersionInv
    <3>. QED
      BY <3>1, <3>2, InwardMoves DEF VersionInv
  <2>2. req'[r].pc # "check" /\ req'[r].pc # "failed"
    BY <1>4 DEF Guarded
  <2>3. CASE CheckVersion(r) /\ req'[r].pc = "look"
    <3>1. ~Return(r, "failed")
      BY <2>2, ReturnMoves DEF VersionInv
    <3>2. /\ req[r].change.expected > 0 => View(r).counter = req[r].change.expected
          /\ req' = [req EXCEPT ![r].pc = "look", ![r].term = elections,
                               ![r].fresh = (seen[req[r].node] = Len(log))]
      BY <2>3, <3>1 DEF CheckVersion
    <3>3. req'[r].fresh <=> seen[req[r].node] = Len(log)
      BY <3>2 DEF VersionInv, EngineTyped, RequestsInv, Held
    <3>4. seen[req[r].node] = Len(log)
      BY <1>4, <3>3, Zenon DEF Guarded
    <3>5. Len(history) = Len(log) + 1 /\ Len(log) \in Nat
      BY DEF VersionInv, EngineTyped, StoreInv
    <3>6. View(r) = Latest
      BY <3>4, <3>5 DEF View, Latest
    <3>7. req[r].change.expected \in Nat /\ req[r].change.expected # 0
      BY <1>4, <2>1 DEF Guarded, VersionInv, EngineTyped, RequestsInv, Held, Change, NoChange
    <3>. QED
      BY <1>4, <2>1, <3>2, <3>6, <3>7
  <2>4. CASE /\ req[r].pc \in {"look", "sync", "list", "bindings"}
             /\ req'[r].fresh = req[r].fresh /\ req'[r].term = req[r].term
    <3>1. Guarded(r)
      BY <1>1, <1>4, <2>1, <2>4, GuardedBefore
    <3>. QED
      BY <1>4, <2>1, <3>1 DEF VersionInv, NoneInBetween
  <2>. QED
    BY <2>1, <2>2, <2>3, <2>4
<1>. QED
  BY <1>3, <1>4

LEMMA SubmitGuarded ==
  ASSUME VersionInv, NEW r \in Requests, NEW kind \in {"change", "version", "audit"},
         NEW batch \in Seq(Command), Submits(r, kind, batch), Submission(r, kind, batch)
  PROVE  NoneInBetween'
<1>1. /\ EngineTyped /\ StoreInv /\ elections \in Nat
      /\ \A q \in Requests \ {r} : req'[q] = req[q]
      /\ \/ req'[r].pc \in {"done", "failed", "commit"}
         \/ /\ req[r].pc = "flush" /\ req'[r].pc = "save"
            /\ req'[r].node = req[r].node /\ req'[r].change = req[r].change
            /\ req'[r].fresh = req[r].fresh /\ req'[r].term = req[r].term
      /\ kind # "change" => req[r].pc \in Locked
      /\ kind = "change" => batch = req[r].pending
  BY SubmitMoves DEF VersionInv, EngineTyped, StoreInv, Locked
<1>2. ASSUME UNCHANGED <<leader, elections>>, NEW q \in Requests, Guarded(q)'
      PROVE  /\ Guarded(q) /\ req'[q].change = req[q].change /\ req'[q].node = req[q].node
             /\ Latest.counter = req[q].change.expected
  <2>1. /\ req'[q].node = req[q].node /\ req'[q].change = req[q].change
        /\ req'[q].fresh = req[q].fresh /\ req'[q].term = req[q].term
        /\ req[q].pc \in {"look", "sync", "list", "bindings", "flush", "save"}
    <3>1. CASE q = r
      BY <1>1, <1>2, <3>1 DEF Guarded
    <3>2. CASE q # r
      BY <1>1, <1>2, <3>2 DEF Guarded
    <3>. QED
      BY <3>1, <3>2
  <2>2. Guarded(q)
    BY <1>2, <2>1, GuardedBefore
  <2>. QED
    BY <2>1, <2>2 DEF VersionInv, NoneInBetween
<1>3. CASE UNCHANGED store
  <2>1. Latest' = Latest /\ UNCHANGED <<leader, elections>>
    BY <1>3 DEF store, Latest
  <2>. QED
    BY <1>2, <2>1 DEF NoneInBetween
<1>4. CASE elections' = elections + 1
  BY <1>1, <1>4, NoneGuardedAfterElection DEF NoneInBetween
<1>5. CASE Submit(r, kind, batch)
  <2>1. /\ leader = req[r].node /\ Append1(r, kind, batch)
        /\ UNCHANGED <<leader, elections>>
    BY <1>5 DEF Submit
  <2>2. Latest' = ApplyBatch(Latest, batch).db
    BY <1>1, <2>1, Appended
  <2>3. CASE kind = "change"
    <3>1. batch \in Seq(Buffered) /\ Latest \in Db
      BY <1>1, <2>3, ReadsSound DEF EngineTyped, RequestsInv, Held
    <3>2. Latest'.counter = Latest.counter
      BY <2>2, <3>1, BufferedKeepsCounter
    <3>. QED
      BY <1>2, <2>1, <3>2 DEF NoneInBetween
  <2>4. CASE kind # "change"
    <3>1. mutex[req[r].node] = r
      BY <1>1, <2>4 DEF VersionInv, MutexExact, EngineTyped, RequestsInv, Held
    <3>2. ASSUME NEW q \in Requests, Guarded(q)'
          PROVE  FALSE
      <4>1. Guarded(q) /\ leader = req[q].node /\ req[q].pc \in Locked
        BY <1>2, <2>1, <3>2 DEF Guarded, Locked
      <4>2. mutex[req[q].node] = q
        BY <4>1 DEF VersionInv, MutexExact, EngineTyped, RequestsInv, Held
      <4>3. q = r
        BY <2>1, <3>1, <4>1, <4>2
      <4>4. req'[r].pc \in {"done", "failed", "commit"}
        BY <1>1, <2>4 , SubmitMoves
      <4>. QED
        BY <3>2, <4>3, <4>4 DEF Guarded
    <3>. QED
      BY <3>2 DEF NoneInBetween
  <2>. QED
    BY <2>3, <2>4
<1>. QED
  BY <1>3, <1>4, <1>5 DEF Submission, SubmitAccepted, SubmitRefused, SubmitFails

LEMMA VersionStep ==
  ASSUME VersionInv, [Next]_vars
  PROVE  VersionInv'
<1>1. EngineTyped /\ EngineTyped' /\ MutexExact'
  BY TypedStep, MutexStep DEF VersionInv
<1>. SUFFICES NoneInBetween'
  BY <1>1 DEF VersionInv
<1>2. ASSUME NEW r \in Requests, NEW n \in Nodes, NEW change \in Changes, Begins(r, n, change)
      PROVE  NoneInBetween'
  <2>1. /\ UNCHANGED <<history, leader, elections>> /\ req'[r].pc \in {"waiting", "reorder"}
        /\ \A q \in Requests \ {r} : req'[q] = req[q]
    BY <1>1, <1>2, BeginMoves DEF store
  <2>2. Latest' = Latest
    BY <2>1 DEF Latest
  <2>3. ASSUME NEW q \in Requests, Guarded(q)'
        PROVE  Guarded(q) /\ req'[q] = req[q]
    <3>1. q # r
      BY <2>1, <2>3 DEF Guarded
    <3>2. req'[q] = req[q]
      BY <2>1, <3>1
    <3>. QED
      BY <2>1, <2>3, <3>2, Zenon DEF Guarded
  <2>. QED
    BY <2>2, <2>3 DEF VersionInv, NoneInBetween
<1>3. ASSUME NEW r \in Requests, RequestStep(r)
      PROVE  NoneInBetween'
  BY <1>1, <1>3, InwardGuarded, SubmitGuarded, SubmitsOne DEF RequestStep, Inward
<1>4. ASSUME UNCHANGED <<history, leader, elections, req>>
      PROVE  NoneInBetween'
  <2>1. Latest' = Latest
    BY <1>4 DEF Latest
  <2>2. ASSUME NEW q \in Requests, Guarded(q)'
        PROVE  Guarded(q)
    BY <1>4, <2>2, Zenon DEF Guarded
  <2>. QED
    BY <1>4, <2>1, <2>2 DEF VersionInv, NoneInBetween
<1>5. ASSUME NEW n \in Nodes, Replicate(n)
      PROVE  NoneInBetween'
  BY <1>4, <1>5 DEF Replicate
<1>6. ASSUME NEW n \in Nodes, Elect(n)
      PROVE  NoneInBetween'
  <2>1. elections' > elections /\ req' = req
    BY <1>1, <1>6 DEF Elect, EngineTyped, StoreInv
  <2>. QED
    BY <1>1, <2>1, NoneGuardedAfterElection DEF NoneInBetween
<1>7. CASE UNCHANGED vars
  BY <1>4, <1>7 DEF vars, store
<1>8. CASE Next
  BY <1>2, <1>3, <1>5, <1>6, <1>8 DEF Next
<1>. QED
  BY <1>7, <1>8

\* Nobody holds anything at the start.
LEMMA VersionInit == Init => VersionInv
<1>. SUFFICES ASSUME Init PROVE VersionInv
  OBVIOUS
<1>1. EngineTyped
  BY StoreInit, RequestsInit DEF EngineTyped
<1>2. \A r \in Requests : req[r].pc = "idle"
  BY IdleTyped DEF Init
<1>. QED
  BY <1>1, <1>2, MutexInit DEF VersionInv, NoneInBetween, Guarded

\* One step of ExpectedVersionHolds.
VersionKept(r) ==
  At(r, "save") /\ At(r, "commit")' /\ req[r].fresh /\ req[r].term = elections =>
    req[r].change.expected \in {0, req'[r].version - 1}

LEMMA VersionKeptStep ==
  ASSUME VersionInv, [Next]_vars, NEW r \in Requests
  PROVE  VersionKept(r)
<1>. SUFFICES ASSUME req[r].pc = "save", req'[r].pc = "commit",
                     req[r].fresh, req[r].term = elections, req[r].change.expected # 0
              PROVE  req[r].change.expected = req'[r].version - 1
  BY DEF VersionKept, At
<1>1. EngineTyped /\ NoneInBetween
  BY DEF VersionInv
<1>2. ASSUME NEW q \in Requests, NEW n \in Nodes, NEW change \in Changes, Begins(q, n, change)
      PROVE  FALSE
  <2>1. req'[q].pc \in {"waiting", "reorder"} /\ (q # r => req'[r] = req[r])
    BY <1>1, <1>2, BeginMoves
  <2>. QED
    BY <2>1
<1>3. ASSUME NEW q \in Requests, Inward(q)
      PROVE  FALSE
  <2>1. /\ req'[q].pc \in {"check", "look", "sync", "list", "bindings", "flush", "failed"}
        /\ q # r => req'[r] = req[r]
    BY <1>1, <1>3, InwardMoves
  <2>. QED
    BY <2>1
<1>4. ASSUME NEW q \in Requests, NEW kind \in {"change", "version", "audit"},
             NEW batch \in Seq(Command), Submits(q, kind, batch)
      PROVE  req[r].change.expected = req'[r].version - 1
  <2>1. /\ q # r => req'[r] = req[r]
        /\ \/ req'[q].pc \in {"done", "failed"}
           \/ req[q].pc = "flush"
           \/ /\ SubmitAccepted(q, kind, batch) /\ batch = Saving(q)
              /\ req'[q].version = Latest'.counter
    BY <1>1, <1>4, SubmitMoves
  <2>2. /\ q = r /\ SubmitAccepted(r, kind, batch) /\ batch = Saving(r)
        /\ req'[r].version = Latest'.counter
    BY <2>1
  <2>3. leader = req[r].node /\ Append1(r, kind, batch)
    BY <2>2 DEF SubmitAccepted, Submit
  <2>4. Guarded(r)
    BY <2>3, Zenon DEF Guarded
  <2>5. Latest.counter = req[r].change.expected
    BY <1>1, <2>4 DEF NoneInBetween
  <2>6. Latest' = ApplyBatch(Latest, batch).db
    BY <1>1, <2>3, Appended DEF EngineTyped
  <2>7. Latest'.counter = Latest.counter + 1
    <3>. DEFINE save == [op |-> "save_config_version", id |-> req[r].snap]
    <3>1. Accepted(Latest, save)
      BY DEF Accepted
    <3>2. Latest' = Effect(Latest, save)
      BY <2>2, <2>6, <3>1, BatchOfOne DEF Saving
    <3>3. Latest \in Db
      BY <1>1, ReadsSound DEF EngineTyped
    <3>. QED
      BY <3>2, <3>3 DEF Effect, Db, SaveConfigVersion
  <2>8. Latest.counter \in Nat
    BY <1>1, ReadsSound DEF EngineTyped, Db
  <2>. QED
    BY <2>2, <2>5, <2>7, <2>8
<1>5. ASSUME NEW q \in Requests, RequestStep(q)
      PROVE  req[r].change.expected = req'[r].version - 1
  BY <1>1, <1>3, <1>4, <1>5, SubmitsOne DEF RequestStep, Inward
<1>6. ASSUME UNCHANGED req
      PROVE  FALSE
  BY <1>6
<1>7. CASE UNCHANGED vars
  BY <1>6, <1>7 DEF vars
<1>8. ASSUME NEW n \in Nodes, Replicate(n) \/ Elect(n)
      PROVE  FALSE
  BY <1>6, <1>8 DEF Replicate, Elect
<1>9. CASE Next
  BY <1>2, <1>5, <1>8, <1>9 DEF Next
<1>. QED
  BY <1>7, <1>9

\* A change that expects version v is saved as version v + 1, for any number of
\* calls, nodes and changes of leader, whenever the node that checked had
\* applied the whole log and leadership stayed where it was: Engine.mu and the
\* append that fails elsewhere keep every other writer of versions out.
THEOREM ExpectedVersionThm == Spec => ExpectedVersionHolds
<1>. DEFINE Kept == \A r \in Requests : VersionKept(r)
<1>1. VersionInv /\ [Next]_vars => VersionInv'
  BY VersionStep
<1>2. VersionInv /\ [Next]_vars => Kept
  BY VersionKeptStep
<1>3. Spec => [][Kept]_vars
  BY <1>1, <1>2, VersionInit, PTL DEF Spec
<1>. QED
  BY <1>3, PTL DEF ExpectedVersionHolds, VersionKept
-----------------------------------------------------------------------------
(* What the binding commands of a batch add up to.                          *)

(* On the way of a batch that is accepted so far.                           *)
LEMMA OutcomeSteps ==
  ASSUME NEW d \in Db, NEW batch \in Seq(Buffered)
  PROVE  LET out == Outcomes(d, batch)
         IN  /\ Len(batch) \in Nat /\ out[0].ok = TRUE /\ out[0].db = d
             /\ \A i \in 0..Len(batch) : out[i].db \in Db
             /\ \A i \in 0..(Len(batch) - 1) :
                  /\ batch[i + 1] \in Buffered
                  /\ out[i + 1].ok => /\ out[i].ok
                                      /\ out[i + 1].db = Effect(out[i].db, batch[i + 1])
<1>. DEFINE out == Outcomes(d, batch)
            n == Len(batch)
<1>1. /\ n \in Nat /\ \A i \in 1..n : batch[i] \in Buffered
      /\ out[0] = [ok |-> TRUE, db |-> d]
      /\ \A i \in 1..n : out[i] = Step(d, out[i - 1], batch[i])
  BY OutcomesUnfold
<1>. HIDE DEF out
<1>2. \A i \in 0..(n - 1) : out[i + 1] = Step(d, out[i], batch[i + 1]) /\ batch[i + 1] \in Buffered
  <2>. TAKE i \in 0..(n - 1)
  <2>1. i + 1 \in 1..n /\ (i + 1) - 1 = i
    BY <1>1
  <2>. QED
    BY <1>1, <2>1
<1>3. \A i \in 0..(n - 1) :
        out[i + 1].ok => out[i].ok /\ out[i + 1].db = Effect(out[i].db, batch[i + 1])
  <2>. SUFFICES ASSUME NEW i \in 0..(n - 1), out[i + 1].ok
                PROVE  out[i].ok /\ out[i + 1].db = Effect(out[i].db, batch[i + 1])
    OBVIOUS
  <2>1. CASE out[i].ok /\ Accepted(out[i].db, batch[i + 1])
    <3>1. out[i + 1] = [ok |-> TRUE, db |-> Effect(out[i].db, batch[i + 1])]
      BY <1>2, <2>1, Zenon DEF Step
    <3>. QED
      BY <2>1, <3>1
  <2>2. CASE ~(out[i].ok /\ Accepted(out[i].db, batch[i + 1]))
    <3>1. out[i + 1] = [ok |-> FALSE, db |-> d]
      BY <1>2, <2>2 DEF Step
    <3>. QED
      BY <3>1
  <2>. QED
    BY <2>1, <2>2
<1>4. \A i \in 0..n : out[i].db \in Db
  <2>. DEFINE S == {i \in 0..n : out[i].db \in Db}
  <2>1. 0 \in S /\ 0 \in 0..n
    BY <1>1
  <2>2. \A i \in 0..(n - 1) : i \in S => i + 1 \in S
    <3>. SUFFICES ASSUME NEW i \in 0..(n - 1), out[i].db \in Db
                  PROVE  out[i + 1].db \in Db
      BY <1>1
    <3>1. Effect(out[i].db, batch[i + 1]) \in Db
      BY <1>2, EffectType DEF Buffered
    <3>2. \/ out[i + 1] = [ok |-> TRUE, db |-> Effect(out[i].db, batch[i + 1])]
          \/ out[i + 1] = [ok |-> FALSE, db |-> d]
      BY <1>2, Zenon DEF Step
    <3>. QED
      BY <3>1, <3>2
  <2>3. 0..n \subseteq S
    <3>. HIDE DEF S, n
    <3>. QED
      BY <1>1, <2>1, <2>2, Upward
  <2>. QED
    BY <2>3
<1>5. /\ n \in Nat /\ out[0].ok = TRUE /\ out[0].db = d
      /\ \A i \in 0..n : out[i].db \in Db
      /\ \A i \in 0..(n - 1) :
           /\ batch[i + 1] \in Buffered
           /\ out[i + 1].ok => out[i].ok /\ out[i + 1].db = Effect(out[i].db, batch[i + 1])
  <2>1. out[0].ok = TRUE /\ out[0].db = d
    BY <1>1
  <2>. HIDE DEF n
  <2>. QED
    BY <1>1, <1>2, <1>3, <1>4, <2>1
<1>. QED
  BY <1>5 DEF out

Attach(p, x) == [op |-> "attach_policy", id |-> p, target |-> x]
Detach(p, x) == [op |-> "detach_policy", id |-> p, target |-> x]
Put(x) == [op |-> "put_route", id |-> x]

(* The commands of an upsert bind and unbind what they name, and no more.   *)
LEMMA BindingEffect ==
  ASSUME NEW d \in Db, NEW x \in Routes, NEW p \in Policies,
         NEW c \in {Put(x)} \cup {Attach(q, x) : q \in Policies} \cup {Detach(q, x) : q \in Policies}
  PROVE  <<p, x>> \in Effect(d, c).bindings <=>
           \/ c = Attach(p, x)
           \/ <<p, x>> \in d.bindings /\ c # Detach(p, x)
<1>1. CASE c = Put(x)
  <2>1. c.op = "put_route"
    BY <1>1 DEF Put
  <2>2. Effect(d, c).bindings = d.bindings
    BY <2>1 DEF Effect, PutRoute, Db
  <2>3. c # Attach(p, x) /\ c # Detach(p, x)
    BY <2>1 DEF Attach, Detach
  <2>. QED
    BY <2>2, <2>3
<1>2. ASSUME NEW q \in Policies, c = Attach(q, x)
      PROVE  <<p, x>> \in Effect(d, c).bindings <=>
               \/ c = Attach(p, x)
               \/ <<p, x>> \in d.bindings /\ c # Detach(p, x)
  <2>1. c.op = "attach_policy" /\ c.id = q /\ c.target = x
    BY <1>2 DEF Attach
  <2>2. Effect(d, c).bindings = d.bindings \cup {<<q, x>>}
    BY <2>1 DEF Effect, AttachPolicy, Db
  <2>3. c # Detach(p, x) /\ (c = Attach(p, x) <=> p = q)
    BY <1>2, <2>1 DEF Attach, Detach
  <2>. QED
    BY <2>2, <2>3
<1>3. ASSUME NEW q \in Policies, c = Detach(q, x)
      PROVE  <<p, x>> \in Effect(d, c).bindings <=>
               \/ c = Attach(p, x)
               \/ <<p, x>> \in d.bindings /\ c # Detach(p, x)
  <2>1. c.op = "detach_policy" /\ c.id = q /\ c.target = x
    BY <1>3 DEF Detach
  <2>2. Effect(d, c).bindings = d.bindings \ {<<q, x>>}
    BY <2>1 DEF Effect, DetachPolicy, Db
  <2>3. c # Attach(p, x) /\ (c = Detach(p, x) <=> p = q)
    BY <1>3, <2>1 DEF Attach, Detach
  <2>. QED
    BY <2>2, <2>3
<1>. QED
  BY <1>1, <1>2, <1>3

\* A batch of binding commands that turns the policies `from` of x into `to`.
Turns(batch, x, from, to) ==
  /\ \A i \in DOMAIN batch :
       batch[i] \in {Put(x)} \cup {Attach(p, x) : p \in to \ from}
                             \cup {Detach(p, x) : p \in from \ to}
  /\ \A p \in to \ from : \E i \in DOMAIN batch : batch[i] = Attach(p, x)
  /\ \A p \in from \ to : \E i \in DOMAIN batch : batch[i] = Detach(p, x)

(* syncRoutePolicyIds: applied to the database it was made for, the diff    *)
(* leaves the desired policies and no others.                               *)
LEMMA BatchTurns ==
  ASSUME NEW d \in Db, NEW x \in Routes, NEW to \in SUBSET Policies,
         NEW batch \in Seq(Buffered), ApplyBatch(d, batch).ok,
         Turns(batch, x, {p \in Policies : <<p, x>> \in d.bindings}, to)
  PROVE  {p \in Policies : <<p, x>> \in ApplyBatch(d, batch).db.bindings} = to
<1>. DEFINE out == Outcomes(d, batch)
            n == Len(batch)
            from == {p \in Policies : <<p, x>> \in d.bindings}
<1>1. /\ n \in Nat /\ out[0].ok = TRUE /\ out[0].db = d
      /\ \A i \in 0..n : out[i].db \in Db
      /\ \A i \in 0..(n - 1) : /\ batch[i + 1] \in Buffered
                               /\ out[i + 1].ok => /\ out[i].ok
                                                   /\ out[i + 1].db = Effect(out[i].db, batch[i + 1])
  BY OutcomeSteps
<1>2. DOMAIN batch = 1..n /\ from \subseteq Policies
  OBVIOUS
<1>3. ApplyBatch(d, batch) = out[n] /\ out[n].ok
  BY DEF ApplyBatch
<1>4. Turns(batch, x, from, to)
  OBVIOUS
<1>. HIDE DEF out, n, from
<1>5. ASSUME NEW p \in Policies, NEW i \in 0..(n - 1), out[i + 1].ok
      PROVE  /\ i + 1 \in DOMAIN batch /\ out[i].ok
             /\ <<p, x>> \in out[i + 1].db.bindings <=>
                  \/ batch[i + 1] = Attach(p, x)
                  \/ <<p, x>> \in out[i].db.bindings /\ batch[i + 1] # Detach(p, x)
  <2>1. i + 1 \in DOMAIN batch /\ i \in 0..n
    BY <1>1, <1>2
  <2>2. batch[i + 1] \in {Put(x)} \cup {Attach(q, x) : q \in Policies}
                                  \cup {Detach(q, x) : q \in Policies}
    BY <2>1, <1>2, <1>4 DEF Turns
  <2>3. out[i].db \in Db /\ out[i].ok /\ out[i + 1].db = Effect(out[i].db, batch[i + 1])
    BY <1>1, <1>5, <2>1
  <2>. QED
    BY <2>1, <2>2, <2>3, BindingEffect
<1>6. \A i \in 0..n : out[i].ok
  <2>. DEFINE S == {i \in 0..n : out[n - i].ok}
  <2>1. 0 \in S /\ 0 \in 0..n
    BY <1>1, <1>3
  <2>2. ASSUME NEW i \in 0..(n - 1), i \in S
        PROVE  i + 1 \in S
    <3>1. n - (i + 1) \in 0..(n - 1) /\ (n - (i + 1)) + 1 = n - i /\ i + 1 \in 0..n
      BY <1>1
    <3>2. out[n - (i + 1)].ok
      BY <1>1, <2>2, <3>1
    <3>. QED
      BY <3>1, <3>2
  <2>3. 0..n \subseteq S
    <3>. HIDE DEF S
    <3>. QED
      BY <1>1, <2>1, <2>2, Upward
  <2>. SUFFICES ASSUME NEW i \in 0..n PROVE out[i].ok
    OBVIOUS
  <2>4. n - i \in 0..n /\ n - (n - i) = i
    BY <1>1
  <2>. QED
    BY <2>3, <2>4
<1>7. ASSUME NEW p \in Policies, NEW m \in 0..n, <<p, x>> \in out[m].db.bindings, p \in to
      PROVE  <<p, x>> \in out[n].db.bindings
  <2>. DEFINE S == {i \in m..n : <<p, x>> \in out[i].db.bindings}
  <2>1. m \in S
    BY <1>1, <1>7
  <2>2. ASSUME NEW i \in m..(n - 1), i \in S
        PROVE  i + 1 \in S
    <3>1. i \in 0..(n - 1) /\ i + 1 \in 0..n /\ i + 1 \in m..n
      BY <1>1
    <3>2. out[i + 1].ok /\ i + 1 \in DOMAIN batch
      BY <1>2, <1>6, <3>1
    <3>3. batch[i + 1] # Detach(p, x)
      BY <3>2, <1>4, <1>7 DEF Turns, Put, Attach, Detach
    <3>. QED
      BY <1>5, <2>2, <3>1, <3>2, <3>3
  <2>3. m..n \subseteq S
    <3>. HIDE DEF S
    <3>. QED
      BY <1>1, <2>1, <2>2, Upward
  <2>. QED
    BY <1>1, <2>3
<1>8. ASSUME NEW p \in Policies, NEW m \in 0..n, <<p, x>> \notin out[m].db.bindings, p \notin to
      PROVE  <<p, x>> \notin out[n].db.bindings
  <2>. DEFINE S == {i \in m..n : <<p, x>> \notin out[i].db.bindings}
  <2>1. m \in S
    BY <1>1, <1>8
  <2>2. ASSUME NEW i \in m..(n - 1), i \in S
        PROVE  i + 1 \in S
    <3>1. i \in 0..(n - 1) /\ i + 1 \in 0..n /\ i + 1 \in m..n
      BY <1>1
    <3>2. out[i + 1].ok /\ i + 1 \in DOMAIN batch
      BY <1>2, <1>6, <3>1
    <3>3. batch[i + 1] # Attach(p, x)
      BY <3>2, <1>4, <1>8 DEF Turns, Put, Attach, Detach
    <3>. QED
      BY <1>5, <2>2, <3>1, <3>2, <3>3
  <2>3. m..n \subseteq S
    <3>. HIDE DEF S
    <3>. QED
      BY <1>1, <2>1, <2>2, Upward
  <2>. QED
    BY <1>1, <2>3
<1>9. ASSUME NEW p \in Policies
      PROVE  p \in to <=> <<p, x>> \in out[n].db.bindings
  <2>1. <<p, x>> \in out[0].db.bindings <=> p \in from
    BY <1>1 DEF from
  <2>2. 0 \in 0..n
    BY <1>1
  <2>3. CASE p \in to /\ p \in from
    BY <1>7, <2>1, <2>2, <2>3
  <2>4. CASE p \notin to /\ p \notin from
    BY <1>8, <2>1, <2>2, <2>4
  <2>5. CASE p \in to /\ p \notin from
    <3>1. PICK i \in DOMAIN batch : batch[i] = Attach(p, x)
      BY <1>4, <2>5 DEF Turns
    <3>2. i - 1 \in 0..(n - 1) /\ (i - 1) + 1 = i /\ i \in 0..n
      BY <1>1, <1>2, <3>1
    <3>3. <<p, x>> \in out[i].db.bindings
      BY <1>5, <1>6, <3>1, <3>2
    <3>. QED
      BY <1>7, <2>5, <3>2, <3>3
  <2>6. CASE p \notin to /\ p \in from
    <3>1. PICK i \in DOMAIN batch : batch[i] = Detach(p, x)
      BY <1>4, <2>6 DEF Turns
    <3>2. i - 1 \in 0..(n - 1) /\ (i - 1) + 1 = i /\ i \in 0..n
      BY <1>1, <1>2, <3>1
    <3>3. batch[i] # Attach(p, x)
      BY <3>1 DEF Attach, Detach
    <3>4. <<p, x>> \notin out[i].db.bindings
      BY <1>5, <1>6, <3>1, <3>2, <3>3
    <3>. QED
      BY <1>8, <2>6, <3>2, <3>4
  <2>. QED
    BY <2>3, <2>4, <2>5, <2>6
<1>. QED
  BY <1>3, <1>9
-----------------------------------------------------------------------------
(* DeletedStaysDeleted and PoliciesAsDesired: what a request that has an    *)
(* entry in the log aimed at, and saw when it did.                          *)

\* Before the look nothing is aimed at; with an entry in the log a request is late.
Early == {"idle", "waiting", "check", "look"}
Late == {"save", "commit", "done", "failed"}

AimedAt(r) ==
  /\ req[r].pc \in Early => req[r].target = NoRoute
  /\ req[r].pc \notin Early \cup {"failed"} => req[r].target \in Routes
  /\ req[r].looked <= Len(log) /\ req[r].synced <= Len(log)

SubmittersLate ==
  \A i \in DOMAIN log : LET q == req[log[i].by]
                        IN  q.pc \in Late /\ q.target \in Routes /\ q.looked < i

\* r had not looked when its target was deleted.
LaterDeletions(r) ==
  \A i \in DOMAIN log :
    LET q == req[log[i].by]
    IN  log[i].kind = "change" /\ q.change.action = "delete" /\ q.target = req[r].target =>
          req[r].looked < i

\* Whoever writes a route saw it, or drew its id when nobody aimed at it.
GroundedAt(r) ==
  req[r].target # NoRoute /\ req[r].change.action # "delete" =>
    req[r].target \in history[req[r].looked + 1].routes \/ LaterDeletions(r)

\* The policies of its target that r found when it made the diff.
Found(r) == {p \in Policies : <<p, req[r].target>> \in history[req[r].synced + 1].bindings}

\* What an upsert has pending is the diff.
DiffedAt(r) ==
  /\ req[r].pc = "reorder" => req[r].change.action = "reorder"
  /\ req[r].pc = "sync" => /\ req[r].change.action = "upsert"
                           /\ req[r].pending = <<Put(req[r].target)>>
  /\ req[r].pc \in {"list", "bindings", "flush"} /\ req[r].change.action = "upsert" =>
       Turns(req[r].pending, req[r].target, Found(r), req[r].change.policies)

HistoryInv ==
  /\ EngineTyped /\ SubmittersLate /\ PoliciesAsDesired
  /\ \A r \in Requests : AimedAt(r) /\ GroundedAt(r) /\ DiffedAt(r)

(* Past the look a request keeps its target and, past the diff, the diff;   *)
(* once it is late it stays so.                                             *)
Kept(q) ==
  /\ req[q].pc \notin Early =>
       /\ req'[q].change = req[q].change /\ req'[q].target = req[q].target
       /\ req'[q].looked = req[q].looked /\ req'[q].pc \notin Early
  /\ req[q].pc \notin Early \cup {"sync"} =>
       req'[q].synced = req[q].synced /\ req'[q].pc \notin Early \cup {"sync"}
  /\ req[q].pc \in Late => req'[q].pc \in Late

\* What the look does.
LEMMA LookMoves ==
  ASSUME EngineTyped, NEW r \in Requests, UpdateExisting(r) \/ CreateNew(r) \/ DeleteById(r)
  PROVE  /\ req[r].pc = "look" /\ UNCHANGED store
         /\ \A q \in Requests \ {r} : req'[q] = req[q]
         /\ req'[r].change = req[r].change /\ req'[r].synced = req[r].synced
         /\ req'[r].looked = seen[req[r].node] /\ req'[r].target \in Routes
         /\ \/ /\ req[r].change.action = "upsert" /\ req'[r].pc = "sync"
               /\ req'[r].pending = <<Put(req'[r].target)>>
               /\ \/ req'[r].target \in View(r).routes
                  \/ /\ \A q \in Requests : req[q].target # req'[r].target
                     /\ \A i \in DOMAIN history : req'[r].target \notin history[i].routes
            \/ /\ req[r].change.action = "delete" /\ req'[r].pc = "list"
               /\ req'[r].pending = <<[op |-> "delete_route", id |-> req'[r].target]>>
<1>1. req \in [Requests -> Held] /\ req[r] \in Held
  BY DEF EngineTyped, RequestsInv
<1>2. View(r).routes \subseteq Routes
  BY <1>1, ReadsSound DEF EngineTyped, Held, Db
<1>. USE <1>1 DEF Held, At, Put
<1>3. CASE UpdateExisting(r)
  BY <1>2, <1>3 DEF UpdateExisting
<1>4. CASE CreateNew(r)
  <2>1. PICK x \in Unused :
          req' = [req EXCEPT ![r].pc = "sync", ![r].looked = seen[req[r].node],
                             ![r].target = x,
                             ![r].pending = <<[op |-> "put_route", id |-> x]>>]
    BY <1>4 DEF CreateNew
  <2>2. /\ x \in Routes /\ \A q \in Requests : req[q].target # x
        /\ \A i \in DOMAIN history : x \notin history[i].routes
    BY DEF Unused
  <2>3. req[r].pc = "look" /\ req[r].change.action = "upsert" /\ UNCHANGED <<store, mutex>>
    BY <1>4 DEF CreateNew
  <2>4. /\ \A q \in Requests \ {r} : req'[q] = req[q]
        /\ req'[r].change = req[r].change /\ req'[r].synced = req[r].synced
        /\ req'[r].looked = seen[req[r].node] /\ req'[r].target = x
        /\ req'[r].pc = "sync" /\ req'[r].pending = <<Put(x)>>
    BY <2>1
  <2>. QED
    BY <2>2, <2>3, <2>4
<1>5. CASE DeleteById(r)
  <2>1. req[r].change.id \in Routes
    BY <1>5 DEF DeleteById, Change, NoChange
  <2>. QED
    BY <1>5, <2>1 DEF DeleteById
<1>. QED
  BY <1>3, <1>4, <1>5

\* What the steps before and after it do, up to the flush.
LEMMA AroundMoves ==
  ASSUME EngineTyped, NEW r \in Requests,
         Lock(r) \/ CheckVersion(r) \/ SyncPolicies(r) \/ ListRoutes(r) \/ ListBindings(r)
  PROVE  /\ UNCHANGED store
         /\ \A q \in Requests \ {r} : req'[q] = req[q]
         /\ req'[r].change = req[r].change /\ req'[r].target = req[r].target
         /\ req'[r].looked = req[r].looked
         /\ \/ /\ req[r].pc \in {"waiting", "check"} /\ req'[r].synced = req[r].synced
               /\ req'[r].pc \in {"check", "look", "failed"}
            \/ SyncPolicies(r)
            \/ /\ req[r].pc \in {"list", "bindings"} /\ req'[r].pc \in {"bindings", "flush"}
               /\ req'[r].synced = req[r].synced /\ req'[r].pending = req[r].pending
<1>1. req \in [Requests -> Held] /\ req[r] \in Held
  BY DEF EngineTyped, RequestsInv
<1>. USE <1>1 DEF Held, At
<1>2. CASE Lock(r)
  BY <1>2 DEF Lock
<1>3. CASE CheckVersion(r)
  <2>1. CASE Return(r, "failed")
    BY <1>3, <2>1 DEF Return, CheckVersion
  <2>2. CASE /\ req' = [req EXCEPT ![r].pc = "look", ![r].term = elections,
                                   ![r].fresh = (seen[req[r].node] = Len(log))]
             /\ UNCHANGED mutex
    BY <1>3, <2>2 DEF CheckVersion
  <2>. QED
    BY <1>3, <2>1, <2>2 DEF CheckVersion
<1>4. CASE SyncPolicies(r)
  BY <1>4 DEF SyncPolicies
<1>5. CASE ListRoutes(r)
  BY <1>5 DEF ListRoutes
<1>6. CASE ListBindings(r)
  BY <1>6, ListedKeeps
<1>. QED
  BY <1>2, <1>3, <1>4, <1>5, <1>6

\* What submitting does.
LEMMA SubmitKeeps ==
  ASSUME EngineTyped, NEW r \in Requests, NEW kind, NEW batch, Submits(r, kind, batch)
  PROVE  /\ \A q \in Requests \ {r} : req'[q] = req[q]
         /\ req[r].pc \in {"flush", "save", "commit", "reorder"} /\ req'[r].pc \in Late
         /\ req'[r].change = req[r].change /\ req'[r].target = req[r].target
         /\ req'[r].looked = req[r].looked /\ req'[r].synced = req[r].synced
         /\ req'[r].snap = req[r].snap
         /\ kind = "change" => req[r].pc \in {"flush", "reorder"} /\ batch = req[r].pending
         /\ kind = "version" => batch = Saving(r)
         /\ kind = "audit" => batch = Auditing(r)
         /\ kind \in {"change", "version", "audit"}
<1>1. req \in [Requests -> Held] /\ req[r] \in Held
  BY DEF EngineTyped, RequestsInv
<1>. USE <1>1 DEF Held, At, Return, Late
<1>2. CASE Flush(r) /\ kind = "change" /\ batch = req[r].pending
  BY <1>2 DEF Flush
<1>3. CASE SaveVersion(r) /\ kind = "version" /\ batch = Saving(r)
  BY <1>3 DEF SaveVersion
<1>4. CASE CommitAudit(r) /\ kind = "audit" /\ batch = Auditing(r)
  BY <1>4 DEF CommitAudit
<1>5. CASE ReorderWrite(r) /\ kind = "change" /\ batch = req[r].pending
  BY <1>5 DEF ReorderWrite
<1>. QED
  BY <1>2, <1>3, <1>4, <1>5 DEF Submits

\* What beginning does.
LEMMA BeginSees ==
  ASSUME EngineTyped, NEW r \in Requests, NEW n \in Nodes, NEW change \in Changes,
         Begins(r, n, change)
  PROVE  /\ UNCHANGED store /\ req[r].pc = "idle"
         /\ \A q \in Requests \ {r} : req'[q] = req[q]
         /\ req'[r].synced = 0
         /\ \/ req'[r].pc = "waiting" /\ req'[r].target = NoRoute /\ req'[r].looked = 0
            \/ /\ req'[r].pc = "reorder" /\ req'[r].target \in Routes
               /\ req'[r].looked = seen[n] /\ req'[r].change.action = "reorder"
               /\ req'[r].target \in history[seen[n] + 1].routes
<1>1. req \in [Requests -> Held] /\ Idle \in Held
  BY IdleTyped DEF EngineTyped, RequestsInv
<1>2. Idle.target = NoRoute /\ Idle.looked = 0 /\ Idle.synced = 0
  BY DEF Idle
<1>. USE <1>1, <1>2 DEF Held, At
<1>3. CASE Call(r, n, change)
  BY <1>3 DEF Call
<1>4. CASE ReorderRead(r, n, change)
  <2>1. change.id \in Routes /\ change.action = "reorder"
    BY <1>4, ChangesAssumption DEF ReorderRead, Change
  <2>. QED
    BY <1>4, <2>1 DEF ReorderRead
<1>. QED
  BY <1>3, <1>4 DEF Begins

\* Entries of late requests say what they said.
LEMMA EntriesKept ==
  ASSUME HistoryInv, \A q \in Requests : Kept(q)
  PROVE  \A i \in DOMAIN log :
           LET q == log[i].by
           IN  /\ q \in Requests /\ req'[q].pc \in Late /\ req[q].pc \in Late
               /\ req'[q].change = req[q].change /\ req'[q].target = req[q].target
               /\ req'[q].looked = req[q].looked /\ req'[q].synced = req[q].synced
<1>. SUFFICES ASSUME NEW i \in DOMAIN log
              PROVE  LET q == log[i].by
                     IN  /\ q \in Requests /\ req'[q].pc \in Late /\ req[q].pc \in Late
                         /\ req'[q].change = req[q].change /\ req'[q].target = req[q].target
                         /\ req'[q].looked = req[q].looked /\ req'[q].synced = req[q].synced
  OBVIOUS
<1>1. log[i].by \in Requests
  <2>1. log \in Seq(LogEntry)
    BY DEF HistoryInv, EngineTyped, StoreInv
  <2>2. log[i] \in LogEntry
    BY <2>1
  <2>. QED
    BY <2>2 DEF LogEntry
<1>2. req[log[i].by].pc \in Late
  BY DEF HistoryInv, SubmittersLate
<1>. QED
  BY <1>1, <1>2 DEF Kept, Late, Early

\* A step of r that submits nothing.
LEMMA QuietStep ==
  ASSUME HistoryInv, EngineTyped', UNCHANGED <<log, history>>,
         NEW r \in Requests, \A q \in Requests \ {r} : req'[q] = req[q],
         Kept(r), AimedAt(r)', GroundedAt(r)', DiffedAt(r)'
  PROVE  HistoryInv'
<1>1. \A q \in Requests : Kept(q)
  BY DEF Kept
<1>2. \A i \in DOMAIN log :
        LET q == log[i].by
        IN  /\ q \in Requests /\ req'[q].pc \in Late /\ req[q].pc \in Late
            /\ req'[q].change = req[q].change /\ req'[q].target = req[q].target
            /\ req'[q].looked = req[q].looked /\ req'[q].synced = req[q].synced
  BY <1>1, EntriesKept
<1>3. SubmittersLate'
  BY <1>2 DEF HistoryInv, SubmittersLate
<1>4. PoliciesAsDesired'
  BY <1>2 DEF HistoryInv, PoliciesAsDesired, Entry
<1>5. ASSUME NEW p \in Requests, p # r
      PROVE  (AimedAt(p) /\ GroundedAt(p) /\ DiffedAt(p))'
  <2>1. req'[p] = req[p] /\ AimedAt(p) /\ GroundedAt(p) /\ DiffedAt(p)
    BY <1>5 DEF HistoryInv
  <2>2. LaterDeletions(p) => LaterDeletions(p)'
    BY <1>2, <2>1 DEF LaterDeletions
  <2>3. AimedAt(p)'
    BY <2>1 DEF AimedAt
  <2>4. GroundedAt(p)'
    BY <2>1, <2>2 DEF GroundedAt
  <2>5. DiffedAt(p)'
    BY <2>1 DEF DiffedAt, Found
  <2>. QED
    BY <2>3, <2>4, <2>5
<1>. QED
  BY <1>3, <1>4, <1>5 DEF HistoryInv

\* With what it aimed at unchanged, r stays grounded.
LEMMA StaysGrounded ==
  ASSUME HistoryInv, UNCHANGED <<log, history>>,
         NEW r \in Requests, \A q \in Requests \ {r} : req'[q] = req[q],
         Kept(r), req'[r].change = req[r].change, req'[r].target = req[r].target,
         req'[r].looked = req[r].looked
  PROVE  GroundedAt(r)'
<1>1. \A q \in Requests : Kept(q)
  BY DEF Kept
<1>2. \A i \in DOMAIN log :
        LET q == log[i].by
        IN  req'[q].change = req[q].change /\ req'[q].target = req[q].target
  BY <1>1, EntriesKept
<1>3. LaterDeletions(r) => LaterDeletions(r)'
  BY <1>2 DEF LaterDeletions
<1>4. GroundedAt(r)
  BY DEF HistoryInv
<1>. QED
  BY <1>3, <1>4 DEF GroundedAt

LEMMA LookStep ==
  ASSUME HistoryInv, EngineTyped', NEW r \in Requests,
         UpdateExisting(r) \/ CreateNew(r) \/ DeleteById(r)
  PROVE  HistoryInv'
<1>1. /\ req[r].pc = "look" /\ UNCHANGED store
      /\ \A q \in Requests \ {r} : req'[q] = req[q]
      /\ req'[r].change = req[r].change /\ req'[r].synced = req[r].synced
      /\ req'[r].looked = seen[req[r].node] /\ req'[r].target \in Routes
      /\ \/ /\ req[r].change.action = "upsert" /\ req'[r].pc = "sync"
            /\ req'[r].pending = <<Put(req'[r].target)>>
            /\ \/ req'[r].target \in View(r).routes
               \/ \A q \in Requests : req[q].target # req'[r].target
         \/ req[r].change.action = "delete" /\ req'[r].pc = "list"
  BY LookMoves DEF HistoryInv
<1>2. UNCHANGED <<log, history, seen>>
  BY <1>1 DEF store
<1>3. seen[req[r].node] \in 0..Len(log) /\ Len(log) \in Nat
  <2>1. req[r].node \in Nodes /\ log \in Seq(LogEntry) /\ seen \in [Nodes -> 0..Len(log)]
    BY DEF HistoryInv, EngineTyped, StoreInv, RequestsInv, Held, Position
  <2>. QED
    BY <2>1
<1>4. Kept(r)
  BY <1>1 DEF Kept, Early, Late
<1>5. AimedAt(r)'
  BY <1>1, <1>2, <1>3 DEF HistoryInv, AimedAt, Early
<1>6. DiffedAt(r)'
  BY <1>1 DEF DiffedAt
<1>7. GroundedAt(r)'
  <2>1. CASE req'[r].target \in View(r).routes
    BY <1>1, <1>2, <2>1 DEF GroundedAt, View
  <2>2. CASE \A q \in Requests : req[q].target # req'[r].target
    <3>1. \A q \in Requests : Kept(q)
      BY <1>1, <1>4 DEF Kept
    <3>2. \A i \in DOMAIN log : req'[log[i].by].target # req'[r].target
      BY <2>2, <3>1, EntriesKept
    <3>. QED
      BY <1>2, <3>2 DEF GroundedAt, LaterDeletions
  <2>3. CASE req[r].change.action = "delete"
    BY <1>1, <2>3 DEF GroundedAt
  <2>. QED
    BY <1>1, <2>1, <2>2, <2>3
<1>. QED
  BY <1>1, <1>2, <1>4, <1>5, <1>6, <1>7, QuietStep

LEMMA BeginStep ==
  ASSUME HistoryInv, EngineTyped', NEW r \in Requests, NEW n \in Nodes, NEW change \in Changes,
         Begins(r, n, change)
  PROVE  HistoryInv'
<1>1. /\ UNCHANGED store /\ req[r].pc = "idle"
      /\ \A q \in Requests \ {r} : req'[q] = req[q]
      /\ req'[r].synced = 0
      /\ \/ req'[r].pc = "waiting" /\ req'[r].target = NoRoute /\ req'[r].looked = 0
         \/ /\ req'[r].pc = "reorder" /\ req'[r].target \in Routes
            /\ req'[r].looked = seen[n] /\ req'[r].change.action = "reorder"
            /\ req'[r].target \in history[seen[n] + 1].routes
  BY BeginSees DEF HistoryInv
<1>2. UNCHANGED <<log, history>>
  BY <1>1 DEF store
<1>3. seen[n] \in 0..Len(log) /\ Len(log) \in Nat
  BY DEF HistoryInv, EngineTyped, StoreInv, Position
<1>4. Kept(r)
  BY <1>1 DEF Kept, Early, Late
<1>5. AimedAt(r)'
  BY <1>1, <1>2, <1>3 DEF AimedAt, Early
<1>6. DiffedAt(r)'
  BY <1>1 DEF DiffedAt
<1>7. GroundedAt(r)'
  BY <1>1, <1>2 DEF GroundedAt
<1>. QED
  BY <1>1, <1>2, <1>4, <1>5, <1>6, <1>7, QuietStep

\* The binding commands for a set of policies name each of them, and no other.
LEMMA BindingOpsNames ==
  ASSUME NEW r \in Requests, NEW op, NEW ps \in SUBSET Policies
  PROVE  LET ops == BindingOps(r, op, ps)
         IN  /\ \A i \in DOMAIN ops :
                  \E p \in ps : ops[i] = [op |-> op, id |-> p, target |-> req[r].target]
             /\ \A p \in ps :
                  \E i \in DOMAIN ops : ops[i] = [op |-> op, id |-> p, target |-> req[r].target]
<1>. DEFINE n == Cardinality(ps)
            order == CHOOSE f \in [1..n -> ps] : \A p \in ps : \E i \in DOMAIN f : f[i] = p
            ops == BindingOps(r, op, ps)
<1>1. IsFiniteSet(ps)
  BY IdsAssumption, FS_Subset
<1>2. n \in Nat /\ ExistsBijection(1..n, ps)
  BY <1>1, FS_CardinalityType
<1>. HIDE DEF n
<1>3. \E f \in [1..n -> ps] : \A p \in ps : \E i \in DOMAIN f : f[i] = p
  BY <1>2 DEF ExistsBijection, Bijection, Surjection
<1>4. order \in [1..n -> ps] /\ \A p \in ps : \E i \in DOMAIN order : order[i] = p
  BY <1>3
<1>5. ops = [i \in 1..n |-> [op |-> op, id |-> order[i], target |-> req[r].target]]
  BY DEF BindingOps, n
<1>. HIDE DEF order, ops
<1>6. /\ \A i \in DOMAIN ops :
           \E p \in ps : ops[i] = [op |-> op, id |-> p, target |-> req[r].target]
      /\ \A p \in ps :
           \E i \in DOMAIN ops : ops[i] = [op |-> op, id |-> p, target |-> req[r].target]
  BY <1>4, <1>5
<1>. QED
  BY <1>6 DEF ops


\* Members of a concatenation, by position.
LEMMA JoinedThree ==
  ASSUME NEW S, NEW e \in S, NEW a \in Seq(S), NEW b \in Seq(S)
  PROVE  LET w == <<e>> \o a \o b
         IN  /\ DOMAIN w = 1..(1 + Len(a) + Len(b)) /\ w[1] = e
             /\ \A i \in 1..Len(a) : w[1 + i] = a[i]
             /\ \A i \in 1..Len(b) : w[1 + Len(a) + i] = b[i]
<1>1. /\ <<e>> \in Seq(S) /\ Len(<<e>>) = 1 /\ <<e>>[1] = e
      /\ Len(a) \in Nat /\ Len(b) \in Nat
  OBVIOUS
<1>2. ASSUME NEW u \in Seq(S)
      PROVE  /\ u \o a \in Seq(S) /\ Len(u \o a) = Len(u) + Len(a)
             /\ \A i \in 1..Len(u) : (u \o a)[i] = u[i]
             /\ \A i \in 1..Len(a) : (u \o a)[Len(u) + i] = a[i]
  OBVIOUS
<1>3. \A v \in Seq(S) : Len(v) = 1 + Len(a) =>
        /\ DOMAIN (v \o b) = 1..(1 + Len(a) + Len(b))
        /\ (v \o b)[1] = v[1] /\ \A i \in 1..Len(a) : (v \o b)[1 + i] = v[1 + i]
        /\ \A i \in 1..Len(b) : (v \o b)[1 + Len(a) + i] = b[i]
  <2>. SUFFICES ASSUME NEW v \in Seq(S), Len(v) = 1 + Len(a)
                PROVE  /\ DOMAIN (v \o b) = 1..(1 + Len(a) + Len(b))
                       /\ (v \o b)[1] = v[1] /\ \A i \in 1..Len(a) : (v \o b)[1 + i] = v[1 + i]
                       /\ \A i \in 1..Len(b) : (v \o b)[1 + Len(a) + i] = b[i]
    OBVIOUS
  <2>1. /\ DOMAIN (v \o b) = 1..(Len(v) + Len(b))
        /\ \A i \in 1..Len(v) : (v \o b)[i] = v[i]
        /\ \A i \in 1..Len(b) : (v \o b)[Len(v) + i] = b[i]
    OBVIOUS
  <2>. QED
    BY <1>1, <2>1
<1>4. PICK u \in Seq(S) : u = <<e>>
  BY <1>1
<1>5. PICK v \in Seq(S) : v = u \o a
  BY <1>1, <1>2, <1>4
<1>6. /\ Len(v) = 1 + Len(a) /\ v[1] = e
      /\ \A i \in 1..Len(a) : v[1 + i] = a[i]
  <2>1. /\ Len(v) = Len(u) + Len(a)
        /\ \A i \in 1..Len(u) : v[i] = u[i]
        /\ \A i \in 1..Len(a) : v[Len(u) + i] = a[i]
    BY <1>2, <1>5
  <2>2. Len(u) = 1 /\ u[1] = e
    BY <1>1, <1>4
  <2>. QED
    BY <2>1, <2>2
<1>. QED
  BY <1>3, <1>4, <1>5, <1>6

\* Putting the route, attaching and detaching make up the diff.
LEMMA ConcatTurns ==
  ASSUME NEW x, NEW from, NEW to, NEW S,
         NEW a \in Seq(S), NEW b \in Seq(S),
         \A i \in DOMAIN a : \E p \in to \ from : a[i] = Attach(p, x),
         \A p \in to \ from : \E i \in DOMAIN a : a[i] = Attach(p, x),
         \A i \in DOMAIN b : \E p \in from \ to : b[i] = Detach(p, x),
         \A p \in from \ to : \E i \in DOMAIN b : b[i] = Detach(p, x),
         Put(x) \in S
  PROVE  Turns(<<Put(x)>> \o a \o b, x, from, to)
<1>. DEFINE w == <<Put(x)>> \o a \o b
            m == 1 + Len(a)
<1>1. /\ Len(a) \in Nat /\ Len(b) \in Nat /\ DOMAIN a = 1..Len(a) /\ DOMAIN b = 1..Len(b)
  OBVIOUS
<1>2. /\ DOMAIN w = 1..(m + Len(b)) /\ w[1] = Put(x)
      /\ \A i \in 1..Len(a) : w[1 + i] = a[i]
      /\ \A i \in 1..Len(b) : w[m + i] = b[i]
  BY JoinedThree
<1>. HIDE DEF w
<1>3. m \in Nat
  BY <1>1
<1>4. /\ w[1] = Put(x)
      /\ \A i \in 1..Len(a) : 1 + i \in DOMAIN w /\ w[1 + i] = a[i]
      /\ \A i \in 1..Len(b) : m + i \in DOMAIN w /\ w[m + i] = b[i]
  BY <1>1, <1>2, <1>3
<1>5. ASSUME NEW i \in DOMAIN w
      PROVE  i = 1 \/ (\E k \in 1..Len(a) : i = 1 + k) \/ (\E k \in 1..Len(b) : i = m + k)
  <2>1. CASE i = 1
    BY <2>1
  <2>2. CASE i # 1 /\ i <= m
    <3>1. i - 1 \in 1..Len(a) /\ i = 1 + (i - 1)
      BY <1>1, <1>2, <1>3, <2>2
    <3>. QED
      BY <3>1
  <2>3. CASE i > m
    <3>1. i - m \in 1..Len(b) /\ i = m + (i - m)
      BY <1>1, <1>2, <1>3, <2>3
    <3>. QED
      BY <3>1
  <2>. QED
    BY <1>1, <1>2, <1>3, <2>1, <2>2, <2>3
<1>6. \A i \in DOMAIN w :
        w[i] \in {Put(x)} \cup {Attach(p, x) : p \in to \ from} \cup {Detach(p, x) : p \in from \ to}
  <2>. SUFFICES ASSUME NEW i \in DOMAIN w
                PROVE  \/ w[i] = Put(x)
                       \/ \E p \in to \ from : w[i] = Attach(p, x)
                       \/ \E p \in from \ to : w[i] = Detach(p, x)
    OBVIOUS
  <2>1. CASE i = 1
    BY <1>4, <2>1
  <2>2. ASSUME NEW k \in 1..Len(a), i = 1 + k
        PROVE  \E p \in to \ from : w[i] = Attach(p, x)
    BY <1>1, <1>4, <2>2
  <2>3. ASSUME NEW k \in 1..Len(b), i = m + k
        PROVE  \E p \in from \ to : w[i] = Detach(p, x)
    <3>1. w[m + k] = b[k] /\ k \in DOMAIN b
      BY <1>1, <1>4
    <3>. QED
      BY <2>3, <3>1
  <2>. QED
    BY <1>5, <2>1, <2>2, <2>3
<1>7. ASSUME NEW p \in to \ from
      PROVE  \E i \in DOMAIN w : w[i] = Attach(p, x)
  <2>1. PICK i \in 1..Len(a) : a[i] = Attach(p, x)
    BY <1>1
  <2>. QED
    BY <1>4, <2>1
<1>8. ASSUME NEW p \in from \ to
      PROVE  \E i \in DOMAIN w : w[i] = Detach(p, x)
  <2>1. PICK i \in 1..Len(b) : b[i] = Detach(p, x)
    BY <1>1
  <2>. QED
    BY <1>4, <2>1
<1>9. Turns(w, x, from, to)
  BY <1>6, <1>7, <1>8 DEF Turns
<1>. QED
  BY <1>9 DEF w

\* What syncRoutePolicyIds leaves pending.
LEMMA SyncMoves ==
  ASSUME EngineTyped, NEW r \in Requests, SyncPolicies(r)
  PROVE  /\ req[r].pc = "sync" /\ req'[r].pc = "list" /\ req'[r].synced = seen[req[r].node]
         /\ req'[r].pending =
              req[r].pending \o BindingOps(r, "attach_policy", req[r].change.policies \ Bound(r))
                             \o BindingOps(r, "detach_policy", Bound(r) \ req[r].change.policies)
BY DEF SyncPolicies, EngineTyped, RequestsInv, Held, At

LEMMA SyncDiffs ==
  ASSUME HistoryInv, NEW r \in Requests, SyncPolicies(r), UNCHANGED history,
         req'[r].change = req[r].change, req'[r].target = req[r].target
  PROVE  DiffedAt(r)'
<1>. DEFINE to == req[r].change.policies
            from == Bound(r)
            x == req[r].target
            a == BindingOps(r, "attach_policy", to \ from)
            b == BindingOps(r, "detach_policy", from \ to)
<1>1. /\ req[r].pc = "sync" /\ req'[r].pc = "list" /\ req'[r].synced = seen[req[r].node]
      /\ req'[r].pending = req[r].pending \o a \o b
  BY SyncMoves DEF HistoryInv
<1>2. /\ req[r].change.action = "upsert" /\ req[r].pending = <<Put(x)>>
      /\ x \in Routes
  BY <1>1 DEF HistoryInv, DiffedAt, AimedAt, Early
<1>3. to \in SUBSET Policies /\ from \in SUBSET Policies
  <2>1. req[r].change \in Change \cup {NoChange}
    BY DEF HistoryInv, EngineTyped, RequestsInv, Held
  <2>. QED
    BY <2>1 DEF Change, NoChange, Bound
<1>4. Put(x) \in Buffered
  BY <1>2 DEF Put, Buffered, Command
<1>5. a \in Seq(Buffered) /\ b \in Seq(Buffered)
  <2>1. to \ from \in SUBSET Policies /\ from \ to \in SUBSET Policies
    BY <1>3
  <2>. HIDE DEF to, from
  <2>. QED
    BY <1>2, <2>1, BindingOpsType
<1>6. /\ \A i \in DOMAIN a : \E p \in to \ from : a[i] = Attach(p, x)
      /\ \A p \in to \ from : \E i \in DOMAIN a : a[i] = Attach(p, x)
  <2>1. to \ from \in SUBSET Policies
    BY <1>3
  <2>. HIDE DEF to, from
  <2>. QED
    BY <2>1, BindingOpsNames DEF Attach
<1>7. /\ \A i \in DOMAIN b : \E p \in from \ to : b[i] = Detach(p, x)
      /\ \A p \in from \ to : \E i \in DOMAIN b : b[i] = Detach(p, x)
  <2>1. from \ to \in SUBSET Policies
    BY <1>3
  <2>. HIDE DEF to, from
  <2>. QED
    BY <2>1, BindingOpsNames DEF Detach
<1>. HIDE DEF a, b
<1>8. Turns(<<Put(x)>> \o a \o b, x, from, to)
  <2>. HIDE DEF to, from, x
  <2>. QED
    BY <1>4, <1>5, <1>6, <1>7, ConcatTurns
<1>9. Found(r)' = from
  BY <1>1 DEF Found, Bound, View
<1>10. Turns(req'[r].pending, req'[r].target, Found(r)', req'[r].change.policies)
  BY <1>1, <1>2, <1>8, <1>9
<1>. QED
  BY <1>1, <1>10 DEF DiffedAt

LEMMA AroundStep ==
  ASSUME HistoryInv, EngineTyped', NEW r \in Requests,
         Lock(r) \/ CheckVersion(r) \/ SyncPolicies(r) \/ ListRoutes(r) \/ ListBindings(r)
  PROVE  HistoryInv'
<1>1. /\ UNCHANGED store
      /\ \A q \in Requests \ {r} : req'[q] = req[q]
      /\ req'[r].change = req[r].change /\ req'[r].target = req[r].target
      /\ req'[r].looked = req[r].looked
      /\ \/ /\ req[r].pc \in {"waiting", "check"} /\ req'[r].synced = req[r].synced
            /\ req'[r].pc \in {"check", "look", "failed"}
         \/ SyncPolicies(r)
         \/ /\ req[r].pc \in {"list", "bindings"} /\ req'[r].pc \in {"bindings", "flush"}
            /\ req'[r].synced = req[r].synced /\ req'[r].pending = req[r].pending
  BY AroundMoves DEF HistoryInv
<1>2. UNCHANGED <<log, history>>
  BY <1>1 DEF store
<1>3. SyncPolicies(r) =>
        req[r].pc = "sync" /\ req'[r].pc = "list" /\ req'[r].synced = seen[req[r].node]
  BY SyncMoves DEF HistoryInv
<1>4. seen[req[r].node] \in 0..Len(log) /\ Len(log) \in Nat
  <2>1. req[r].node \in Nodes /\ log \in Seq(LogEntry) /\ seen \in [Nodes -> 0..Len(log)]
    BY DEF HistoryInv, EngineTyped, StoreInv, RequestsInv, Held, Position
  <2>. QED
    BY <2>1
<1>5. AimedAt(r) /\ DiffedAt(r)
  BY DEF HistoryInv
<1>6. Kept(r)
  BY <1>1, <1>3 DEF Kept, Early, Late
<1>7. AimedAt(r)'
  BY <1>1, <1>2, <1>3, <1>4, <1>5 DEF AimedAt, Early
<1>8. DiffedAt(r)'
  <2>1. CASE SyncPolicies(r)
    BY <1>1, <1>2, <2>1, SyncDiffs
  <2>2. CASE req'[r].pc \in {"check", "look", "failed"}
    BY <2>2 DEF DiffedAt
  <2>3. CASE /\ req[r].pc \in {"list", "bindings"} /\ req'[r].pc \in {"bindings", "flush"}
             /\ req'[r].synced = req[r].synced /\ req'[r].pending = req[r].pending
    <3>1. Found(r)' = Found(r)
      BY <1>1, <1>2, <2>3 DEF Found
    <3>. QED
      BY <1>1, <1>5, <2>3, <3>1 DEF DiffedAt
  <2>. QED
    BY <1>1, <2>1, <2>2, <2>3
<1>9. GroundedAt(r)'
  BY <1>1, <1>2, <1>6, StaysGrounded
<1>. QED
  BY <1>1, <1>2, <1>6, <1>7, <1>8, <1>9, QuietStep

\* A submission of r that adds no entry.
LEMMA FailedStep ==
  ASSUME HistoryInv, EngineTyped', NEW r \in Requests, NEW kind, NEW batch,
         Submits(r, kind, batch), UNCHANGED <<log, history>>
  PROVE  HistoryInv'
<1>1. /\ \A q \in Requests \ {r} : req'[q] = req[q]
      /\ req[r].pc \in {"flush", "save", "commit", "reorder"} /\ req'[r].pc \in Late
      /\ req'[r].change = req[r].change /\ req'[r].target = req[r].target
      /\ req'[r].looked = req[r].looked /\ req'[r].synced = req[r].synced
  BY SubmitKeeps DEF HistoryInv
<1>2. Kept(r)
  BY <1>1 DEF Kept, Early, Late
<1>3. AimedAt(r)'
  BY <1>1 DEF HistoryInv, AimedAt, Early, Late
<1>4. DiffedAt(r)'
  BY <1>1 DEF DiffedAt, Late
<1>5. GroundedAt(r)'
  BY <1>1, <1>2, StaysGrounded
<1>. QED
  BY <1>1, <1>2, <1>3, <1>4, <1>5, QuietStep

\* A submission of r that adds one.
LEMMA GrowStep ==
  ASSUME HistoryInv, EngineTyped', NEW r \in Requests,
         NEW kind \in {"change", "version", "audit"}, NEW batch \in Seq(Command),
         Submits(r, kind, batch), Append1(r, kind, batch)
  PROVE  HistoryInv'
<1>1. /\ \A q \in Requests \ {r} : req'[q] = req[q]
      /\ req[r].pc \in {"flush", "save", "commit", "reorder"} /\ req'[r].pc \in Late
      /\ req'[r].change = req[r].change /\ req'[r].target = req[r].target
      /\ req'[r].looked = req[r].looked /\ req'[r].synced = req[r].synced
      /\ kind = "change" => req[r].pc \in {"flush", "reorder"} /\ batch = req[r].pending
  BY SubmitKeeps DEF HistoryInv
<1>2. StoreInv /\ EngineTyped
  BY DEF HistoryInv, EngineTyped
<1>3. /\ \A j \in 1..Len(log) : log'[j] = log[j]
      /\ Len(log') = Len(log) + 1 /\ Len(log) \in Nat
      /\ DOMAIN log = 1..Len(log) /\ DOMAIN log' = 1..(Len(log) + 1)
      /\ log'[Len(log) + 1].by = r /\ log'[Len(log) + 1].kind = kind
  BY <1>2, EntriesStay
<1>4. /\ log'[Len(log) + 1] = [by |-> r, kind |-> kind, ok |-> ApplyBatch(Latest, batch).ok]
      /\ Latest' = ApplyBatch(Latest, batch).db /\ Len(history') = Len(log) + 2
  BY <1>2, Appended
<1>5. /\ \A i \in 1..(Len(log) + 1) : history'[i] = history[i]
      /\ history'[Len(log) + 2] = Latest' /\ Latest = history[Len(log) + 1]
  <2>1. history \in Seq(Db) /\ Len(history) = Len(log) + 1
    BY <1>2 DEF StoreInv
  <2>2. history' = Append(history, ApplyBatch(Latest, batch).db)
    BY DEF Append1
  <2>. QED
    BY <1>3, <1>4, <2>1, <2>2 DEF Latest
<1>6. \A q \in Requests : /\ req[q].looked \in Nat /\ req[q].looked <= Len(log)
                          /\ req[q].synced \in Nat /\ req[q].synced <= Len(log)
                          /\ AimedAt(q) /\ GroundedAt(q) /\ DiffedAt(q)
  BY DEF HistoryInv, AimedAt, EngineTyped, RequestsInv, Held
<1>7. Kept(r) /\ \A q \in Requests : Kept(q)
  BY <1>1 DEF Kept, Early, Late
<1>8. \A i \in DOMAIN log :
        LET q == log[i].by
        IN  /\ q \in Requests /\ req'[q].pc \in Late /\ req[q].pc \in Late
            /\ req'[q].change = req[q].change /\ req'[q].target = req[q].target
            /\ req'[q].looked = req[q].looked /\ req'[q].synced = req[q].synced
  BY <1>7, EntriesKept
<1>9. \A q \in Requests : /\ req'[q].change = req[q].change /\ req'[q].target = req[q].target
                          /\ req'[q].looked = req[q].looked /\ req'[q].synced = req[q].synced
  BY <1>1
<1>10. SubmittersLate'
  <2>. SUFFICES ASSUME NEW i \in DOMAIN log'
                PROVE  LET q == req'[log'[i].by]
                       IN  q.pc \in Late /\ q.target \in Routes /\ q.looked < i
    BY DEF SubmittersLate
  <2>1. CASE i \in DOMAIN log
    BY <1>3, <1>8, <2>1 DEF HistoryInv, SubmittersLate
  <2>2. CASE i = Len(log) + 1
    <3>1. req[r].target \in Routes
      BY <1>1, <1>6 DEF AimedAt, Early
    <3>. QED
      BY <1>1, <1>3, <1>6, <2>2, <3>1
  <2>. QED
    BY <1>3, <2>1, <2>2
<1>11. PoliciesAsDesired'
  <2>. SUFFICES ASSUME NEW i \in DOMAIN log',
                       log'[i] = [by |-> log'[i].by, kind |-> "change", ok |-> TRUE],
                       req'[log'[i].by].change.action = "upsert", req'[log'[i].by].synced = i - 1
                PROVE  {p \in Policies : <<p, req'[log'[i].by].target>> \in history'[i + 1].bindings}
                         = req'[log'[i].by].change.policies
    BY DEF PoliciesAsDesired, Entry
  <2>0. log'[i].kind = "change" /\ log'[i].ok = TRUE
    OBVIOUS
  <2>1. CASE i \in DOMAIN log
    <3>1. /\ i \in 1..Len(log) /\ log'[i] = log[i] /\ history'[i + 1] = history[i + 1]
          /\ log[i].by \in Requests
      BY <1>3, <1>5, <1>8, <2>1
    <3>2. Entry(i, log[i].by, "change")
      <4>1. log[i] \in LogEntry
        BY <1>2, <2>1 DEF StoreInv
      <4>. QED
        BY <2>0, <2>1, <3>1, <4>1 DEF Entry, LogEntry
    <3>. QED
      BY <1>9, <2>1, <3>1, <3>2 DEF HistoryInv, PoliciesAsDesired
  <2>2. CASE i = Len(log) + 1
    <3>1. /\ log'[i].by = r /\ kind = "change" /\ batch = req[r].pending
          /\ ApplyBatch(Latest, batch).ok
      BY <1>1, <1>3, <1>4, <2>0, <2>2
    <3>2. req[r].change.action = "upsert" /\ req[r].synced = Len(log)
      BY <1>3, <1>9, <2>2, <3>1
    <3>3. req[r].pc = "flush"
      BY <1>1, <1>6, <3>1, <3>2 DEF DiffedAt
    <3>4. Turns(batch, req[r].target, Found(r), req[r].change.policies)
      BY <1>6, <3>1, <3>2, <3>3 DEF DiffedAt
    <3>5. Found(r) = {p \in Policies : <<p, req[r].target>> \in Latest.bindings}
      BY <1>5, <3>2 DEF Found
    <3>6. /\ req[r].target \in Routes /\ batch \in Seq(Buffered)
          /\ req[r].change.policies \in SUBSET Policies
      <4>1. req[r] \in Held /\ req[r].target \in Routes
        BY <1>2, <1>6, <3>3 DEF EngineTyped, RequestsInv, AimedAt, Early
      <4>. QED
        BY <3>1, <4>1 DEF Held, Change, NoChange
    <3>7. Latest \in Db
      BY <1>2, ReadsSound
    <3>8. {p \in Policies : <<p, req[r].target>> \in ApplyBatch(Latest, batch).db.bindings}
            = req[r].change.policies
      BY <3>1, <3>4, <3>5, <3>6, <3>7, BatchTurns
    <3>. QED
      BY <1>3, <1>4, <1>5, <1>9, <2>2, <3>1, <3>8
  <2>. QED
    BY <1>3, <2>1, <2>2
<1>12. ASSUME NEW p \in Requests
       PROVE  (AimedAt(p) /\ GroundedAt(p) /\ DiffedAt(p))'
  <2>1. AimedAt(p)'
    BY <1>1, <1>3, <1>6, <1>9 DEF AimedAt, Early, Late
  <2>2. LaterDeletions(p) => LaterDeletions(p)'
    <3>. SUFFICES ASSUME LaterDeletions(p), NEW i \in DOMAIN log',
                         log'[i].kind = "change", req'[log'[i].by].change.action = "delete",
                         req'[log'[i].by].target = req'[p].target
                  PROVE  req'[p].looked < i
      BY DEF LaterDeletions
    <3>1. CASE i \in DOMAIN log
      BY <1>3, <1>8, <1>9, <3>1 DEF LaterDeletions
    <3>2. CASE i = Len(log) + 1
      BY <1>3, <1>6, <1>9, <3>2
    <3>. QED
      BY <1>3, <3>1, <3>2
  <2>3. GroundedAt(p)'
    <3>1. history'[req[p].looked + 1] = history[req[p].looked + 1]
      BY <1>3, <1>5, <1>6
    <3>. QED
      BY <1>6, <1>9, <2>2, <3>1 DEF GroundedAt
  <2>4. DiffedAt(p)'
    <3>1. CASE p = r
      BY <1>1, <3>1 DEF DiffedAt, Late
    <3>2. CASE p # r
      <4>1. history'[req[p].synced + 1] = history[req[p].synced + 1]
        BY <1>3, <1>5, <1>6
      <4>2. req'[p] = req[p] /\ Found(p)' = Found(p)
        BY <1>1, <3>2, <4>1 DEF Found
      <4>. QED
        BY <1>6, <4>2 DEF DiffedAt
    <3>. QED
      BY <3>1, <3>2
  <2>. QED
    BY <2>1, <2>3, <2>4
<1>. QED
  BY <1>10, <1>11, <1>12 DEF HistoryInv

LEMMA HistoryStep ==
  ASSUME HistoryInv, [Next]_vars
  PROVE  HistoryInv'
<1>1. EngineTyped /\ EngineTyped' /\ StoreInv
  BY TypedStep DEF HistoryInv, EngineTyped
<1>2. ASSUME UNCHANGED <<log, history, req>>
      PROVE  HistoryInv'
  <2>1. SubmittersLate' /\ PoliciesAsDesired'
    BY <1>2 DEF HistoryInv, SubmittersLate, PoliciesAsDesired, Entry
  <2>2. ASSUME NEW r \in Requests
        PROVE  (AimedAt(r) /\ GroundedAt(r) /\ DiffedAt(r))'
    <3>1. AimedAt(r) /\ GroundedAt(r) /\ DiffedAt(r)
      BY DEF HistoryInv
    <3>. QED
      BY <1>2, <3>1 DEF AimedAt, GroundedAt, LaterDeletions, DiffedAt, Found
  <2>. QED
    BY <1>1, <2>1, <2>2 DEF HistoryInv
<1>3. ASSUME NEW r \in Requests, Flush(r) \/ SaveVersion(r) \/ CommitAudit(r) \/ ReorderWrite(r)
      PROVE  HistoryInv'
  <2>1. PICK kind \in {"change", "version", "audit"}, batch \in Seq(Command) :
          Submits(r, kind, batch) /\ Submission(r, kind, batch)
    BY <1>1, <1>3, SubmitsOne
  <2>2. CASE Append1(r, kind, batch)
    BY <1>1, <2>1, <2>2, GrowStep
  <2>3. CASE ~Append1(r, kind, batch)
    <3>1. UNCHANGED <<log, history>>
      BY <2>1, <2>3 DEF Submission, SubmitAccepted, SubmitRefused, SubmitFails, Submit, store
    <3>. QED
      BY <1>1, <2>1, <3>1, FailedStep
  <2>. QED
    BY <2>2, <2>3
<1>4. ASSUME NEW r \in Requests, RequestStep(r)
      PROVE  HistoryInv'
  BY <1>1, <1>3, <1>4, LookStep, AroundStep DEF RequestStep
<1>5. ASSUME NEW r \in Requests, NEW n \in Nodes, NEW change \in Changes, Begins(r, n, change)
      PROVE  HistoryInv'
  BY <1>1, <1>5, BeginStep
<1>6. ASSUME NEW n \in Nodes, Replicate(n) \/ Elect(n)
      PROVE  HistoryInv'
  BY <1>1, <1>2, <1>6, ClusterTyped
<1>7. CASE UNCHANGED vars
  BY <1>2, <1>7 DEF vars, store
<1>. QED
  BY <1>4, <1>5, <1>6, <1>7 DEF Next

LEMMA HistoryInit == Init => HistoryInv
<1>. SUFFICES ASSUME Init PROVE HistoryInv
  OBVIOUS
<1>1. EngineTyped
  BY StoreInit, RequestsInit DEF EngineTyped
<1>2. log = <<>> /\ Len(log) = 0 /\ DOMAIN log = {}
  BY DEF Init
<1>3. \A r \in Requests : req[r] = Idle
  BY DEF Init
<1>4. /\ Idle.pc = "idle" /\ Idle.target = NoRoute /\ Idle.looked = 0 /\ Idle.synced = 0
  BY DEF Idle
<1>5. SubmittersLate /\ PoliciesAsDesired
  BY <1>2 DEF SubmittersLate, PoliciesAsDesired
<1>6. \A r \in Requests : AimedAt(r) /\ GroundedAt(r) /\ DiffedAt(r)
  BY <1>2, <1>3, <1>4 DEF AimedAt, GroundedAt, DiffedAt, Early
<1>. QED
  BY <1>1, <1>5, <1>6 DEF HistoryInv

\* No writer puts back a route that he saw deleted, for any number of requests,
\* nodes, elections and lags: whoever writes a route read it in a database that
\* had it (applyRouteOp, handleReorderRouteMiddlewares), or drew its id when
\* nobody aimed at it, and a request that looked later would not have found it.
THEOREM DeletedStaysDeletedThm == Spec => []DeletedStaysDeleted
<1>1. ASSUME HistoryInv
      PROVE  DeletedStaysDeleted
  <2>. SUFFICES ASSUME NEW i \in DOMAIN log, NEW j \in DOMAIN log, i < j,
                       Entry(i, log[i].by, "change"), Entry(j, log[j].by, "change"),
                       req[log[i].by].change.action = "delete",
                       req[log[j].by].change.action # "delete",
                       req[log[j].by].target = req[log[i].by].target,
                       \A k \in i..(j - 1) :
                         req[log[i].by].target \notin history[k + 1].routes
                PROVE  req[log[j].by].looked < i
    BY DEF DeletedStaysDeleted
  <2>. DEFINE q == log[j].by
  <2>1. /\ log \in Seq(LogEntry) /\ i \in Nat /\ j \in Nat
        /\ q \in Requests /\ log[i].kind = "change"
    <3>1. log \in Seq(LogEntry)
      BY <1>1 DEF HistoryInv, EngineTyped, StoreInv
    <3>2. log[i] \in LogEntry /\ log[j] \in LogEntry /\ i \in Nat /\ j \in Nat
      BY <3>1
    <3>. QED
      BY <3>1, <3>2 DEF LogEntry, Entry
  <2>2. req[q].looked < j /\ req[q].target \in Routes /\ req[q].looked \in Nat
    BY <1>1, <2>1 DEF HistoryInv, SubmittersLate, EngineTyped, RequestsInv, Held
  <2>3. GroundedAt(q) /\ req[q].target # NoRoute
    BY <1>1, <2>1, <2>2, IdsAssumption DEF HistoryInv
  <2>4. CASE LaterDeletions(q)
    BY <2>1, <2>4 DEF LaterDeletions
  <2>5. CASE req[q].target \in history[req[q].looked + 1].routes
    <3>1. req[q].looked \notin i..(j - 1)
      BY <2>5
    <3>. QED
      BY <2>1, <2>2, <3>1
  <2>. QED
    BY <2>3, <2>4, <2>5 DEF GroundedAt
<1>. QED
  BY <1>1, HistoryInit, HistoryStep, PTL DEF Spec

\* An upsert whose diff was made on the latest database leaves its route with
\* exactly the policies it was given, whatever their number and however the
\* attach and detach commands are ordered.
THEOREM PoliciesAsDesiredThm == Spec => []PoliciesAsDesired
<1>1. HistoryInv => PoliciesAsDesired
  BY DEF HistoryInv
<1>. QED
  BY <1>1, HistoryInit, HistoryStep, PTL DEF Spec
-----------------------------------------------------------------------------
(* Created routes and the versions they are saved under.                    *)

\* r creates its target: it did not find one, and drew a new id.
Creates(r) ==
  /\ req[r].change.action = "upsert" /\ req[r].target # NoRoute
  /\ req[r].target \notin history[req[r].looked + 1].routes

\* A route that a finished call has created is not in the snapshot that the call
\* saved with it.
CreationUnseen ==
  \A r \in Requests :
    req[r].pc = "done" /\ Creates(r) => req[r].target \notin req[r].snap.routes

\* Until the flush nobody else can write the route: it is nowhere in the history,
\* and who else aims at it deletes.
FreshAt(r) ==
  Creates(r) /\ req[r].pc \in {"sync", "list", "bindings", "flush"} =>
    /\ \A i \in DOMAIN history : req[r].target \notin history[i].routes
    /\ \A q \in Requests \ {r} :
         req[q].target = req[r].target => req[q].change.action = "delete"

\* So the snapshot, once the routes are listed, lacks it.
LackedAt(r) ==
  Creates(r) /\ req[r].pc \in {"bindings", "flush", "save", "commit", "done"} =>
    req[r].target \notin req[r].snap.routes

\* A deletion has no route to put, a reordering puts its own.
BareAt(r) ==
  /\ req[r].pc \in {"list", "bindings", "flush"} /\ req[r].change.action # "upsert" =>
       \A i \in DOMAIN req[r].pending : req[r].pending[i].op # "put_route"
  /\ req[r].pc = "reorder" => req[r].pending = <<Put(req[r].target)>>

CreationInv ==
  /\ HistoryInv
  /\ \A r \in Requests : FreshAt(r) /\ LackedAt(r) /\ BareAt(r)

(* A batch that does not put a route does not make it appear.               *)
LEMMA NothingFromNothing ==
  ASSUME NEW d \in Db, NEW x, x \notin d.routes, NEW batch \in Seq(Buffered),
         \A i \in DOMAIN batch : batch[i].op = "put_route" => batch[i].id # x
  PROVE  x \notin ApplyBatch(d, batch).db.routes
<1>. DEFINE out == Outcomes(d, batch)
            n == Len(batch)
            S == {i \in 0..n : out[i].db \in Db /\ x \notin out[i].db.routes}
<1>1. /\ n \in Nat /\ DOMAIN batch = 1..n /\ \A i \in 1..n : batch[i] \in Buffered
      /\ out[0] = [ok |-> TRUE, db |-> d]
      /\ \A i \in 1..n : out[i] = Step(d, out[i - 1], batch[i])
  BY OutcomesUnfold
<1>2. ASSUME NEW e \in Db, x \notin e.routes,
             NEW c \in Buffered, c.op = "put_route" => c.id # x
      PROVE  Effect(e, c) \in Db /\ x \notin Effect(e, c).routes
  <2>1. Effect(e, c) \in Db
    BY EffectType DEF Buffered
  <2>2. c.op \in {"put_route", "delete_route", "attach_policy", "detach_policy"}
    BY DEF Buffered
  <2>3. x \notin Effect(e, c).routes
    BY <1>2, <2>2 DEF Effect, PutRoute, DeleteRoute, AttachPolicy, DetachPolicy, Db
  <2>. QED
    BY <2>1, <2>3
<1>. HIDE DEF out, n
<1>3. 0 \in S /\ 0 \in 0..n
  BY <1>1
<1>4. ASSUME NEW i \in 0..(n - 1), i \in S
      PROVE  i + 1 \in S
  <2>1. i + 1 \in 1..n /\ (i + 1) - 1 = i /\ i + 1 \in 0..n
    BY <1>1
  <2>2. /\ out[i + 1] = Step(d, out[i], batch[i + 1]) /\ batch[i + 1] \in Buffered
        /\ batch[i + 1].op = "put_route" => batch[i + 1].id # x
    BY <1>1, <2>1
  <2>3. Effect(out[i].db, batch[i + 1]) \in Db /\ x \notin Effect(out[i].db, batch[i + 1]).routes
    BY <1>2, <1>4, <2>2
  <2>4. \/ out[i + 1] = [ok |-> TRUE, db |-> Effect(out[i].db, batch[i + 1])]
        \/ out[i + 1] = [ok |-> FALSE, db |-> d]
    BY <2>2, Zenon DEF Step
  <2>5. out[i + 1].db \in Db /\ x \notin out[i + 1].db.routes
    BY <2>3, <2>4
  <2>. QED
    BY <2>1, <2>5
<1>5. 0..n \subseteq S
  <2>. HIDE DEF S
  <2>. QED
    BY <1>1, <1>3, <1>4, Upward
<1>6. n \in S
  BY <1>1, <1>5
<1>. QED
  BY <1>6 DEF ApplyBatch, out, n

(* What a request submits puts no route but its own.                        *)
LEMMA OwnRouteOnly ==
  ASSUME CreationInv, NEW r \in Requests, req[r].pc \in {"flush", "reorder"},
         NEW i \in DOMAIN req[r].pending, req[r].pending[i].op = "put_route"
  PROVE  req[r].pending[i].id = req[r].target /\ req[r].change.action # "delete"
<1>1. DiffedAt(r) /\ BareAt(r)
  BY DEF CreationInv, HistoryInv
<1>2. CASE req[r].pc = "reorder"
  BY <1>1, <1>2 DEF DiffedAt, BareAt, Put
<1>3. CASE req[r].pc = "flush"
  <2>1. req[r].change.action = "upsert"
    BY <1>1, <1>3 DEF BareAt
  <2>2. Turns(req[r].pending, req[r].target, Found(r), req[r].change.policies)
    BY <1>1, <1>3, <2>1 DEF DiffedAt
  <2>3. req[r].pending[i] = Put(req[r].target)
    BY <2>2 DEF Turns, Attach, Detach
  <2>. QED
    BY <2>1, <2>3 DEF Put
<1>. QED
  BY <1>2, <1>3

\* Who creates goes on creating, as long as it keeps what it aimed at.
LEMMA CreatesKept ==
  ASSUME HistoryInv, NEW q \in Requests,
         \A i \in 1..(Len(log) + 1) : history'[i] = history[i],
         req'[q].change = req[q].change, req'[q].target = req[q].target,
         req'[q].looked = req[q].looked
  PROVE  Creates(q)' <=> Creates(q)
<1>1. req[q].looked \in Nat /\ req[q].looked <= Len(log) /\ Len(log) \in Nat
  BY DEF HistoryInv, AimedAt, EngineTyped, StoreInv, RequestsInv, Held
<1>2. req[q].looked + 1 \in 1..(Len(log) + 1)
  BY <1>1
<1>. QED
  BY <1>2 DEF Creates

\* A step of r that submits nothing.
LEMMA QuietCreation ==
  ASSUME CreationInv, HistoryInv', UNCHANGED <<log, history>>,
         NEW r \in Requests, \A q \in Requests \ {r} : req'[q] = req[q],
         \/ req'[r].target = NoRoute
         \/ req'[r].target = req[r].target /\ req'[r].change = req[r].change
         \/ req'[r].change.action = "delete"
         \/ \E i \in DOMAIN history : req'[r].target \in history[i].routes
         \/ \A q \in Requests : req[q].target # req'[r].target,
         FreshAt(r)', LackedAt(r)', BareAt(r)'
  PROVE  CreationInv'
<1>. SUFFICES ASSUME NEW q \in Requests, q # r
              PROVE  (FreshAt(q) /\ LackedAt(q) /\ BareAt(q))'
  BY DEF CreationInv
<1>1. req'[q] = req[q] /\ FreshAt(q) /\ LackedAt(q) /\ BareAt(q)
  BY DEF CreationInv
<1>2. Creates(q)' <=> Creates(q)
  BY <1>1 DEF Creates
<1>3. FreshAt(q)'
  <2>. SUFFICES ASSUME Creates(q), req[q].pc \in {"sync", "list", "bindings", "flush"}
                PROVE  /\ \A i \in DOMAIN history : req[q].target \notin history[i].routes
                       /\ \A p \in Requests \ {q} :
                            req'[p].target = req[q].target => req'[p].change.action = "delete"
    BY <1>1, <1>2 DEF FreshAt
  <2>1. /\ \A i \in DOMAIN history : req[q].target \notin history[i].routes
        /\ \A p \in Requests \ {q} :
             req[p].target = req[q].target => req[p].change.action = "delete"
    BY <1>1 DEF FreshAt
  <2>2. req[q].target # NoRoute
    BY DEF Creates
  <2>. QED
    BY <2>1, <2>2
<1>4. LackedAt(q)' /\ BareAt(q)'
  BY <1>1, <1>2 DEF LackedAt, BareAt
<1>. QED
  BY <1>3, <1>4

LEMMA BeginCreation ==
  ASSUME CreationInv, HistoryInv', NEW r \in Requests, NEW n \in Nodes, NEW change \in Changes,
         Begins(r, n, change)
  PROVE  CreationInv'
<1>1. /\ UNCHANGED store /\ \A q \in Requests \ {r} : req'[q] = req[q]
      /\ \/ req'[r].pc = "waiting" /\ req'[r].target = NoRoute
         \/ /\ req'[r].pc = "reorder" /\ req'[r].target \in history[seen[n] + 1].routes
            /\ req'[r].change.action = "reorder"
  BY BeginSees DEF CreationInv, HistoryInv
<1>2. UNCHANGED <<log, history>> /\ seen[n] + 1 \in DOMAIN history
  <2>1. /\ history \in Seq(Db) /\ Len(history) = Len(log) + 1
        /\ Len(log) \in Nat /\ seen[n] \in 0..Len(log)
    BY DEF CreationInv, HistoryInv, EngineTyped, StoreInv, Position
  <2>. QED
    BY <1>1, <2>1 DEF store
<1>3. BareAt(r)'
  <2>1. req'[r].pc = "reorder" => req'[r].pending = <<Put(req'[r].target)>>
    <3>1. req \in [Requests -> Held] /\ Idle \in Held
      BY IdleTyped DEF CreationInv, HistoryInv, EngineTyped, RequestsInv
    <3>2. CASE Call(r, n, change)
      BY <3>1, <3>2 DEF Call, Held
    <3>3. CASE ReorderRead(r, n, change)
      BY <3>1, <3>3 DEF ReorderRead, Held, Put
    <3>. QED
      BY <3>2, <3>3 DEF Begins
  <2>. QED
    BY <1>1, <2>1 DEF BareAt
<1>4. FreshAt(r)' /\ LackedAt(r)'
  BY <1>1 DEF FreshAt, LackedAt
<1>. QED
  BY <1>1, <1>2, <1>3, <1>4, QuietCreation

LEMMA LookCreation ==
  ASSUME CreationInv, HistoryInv', NEW r \in Requests,
         UpdateExisting(r) \/ CreateNew(r) \/ DeleteById(r)
  PROVE  CreationInv'
<1>1. /\ UNCHANGED store /\ \A q \in Requests \ {r} : req'[q] = req[q]
      /\ req'[r].change = req[r].change /\ req'[r].looked = seen[req[r].node]
      /\ \/ /\ req[r].change.action = "upsert" /\ req'[r].pc = "sync"
            /\ \/ req'[r].target \in View(r).routes
               \/ /\ \A q \in Requests : req[q].target # req'[r].target
                  /\ \A i \in DOMAIN history : req'[r].target \notin history[i].routes
         \/ /\ req[r].change.action = "delete" /\ req'[r].pc = "list"
            /\ req'[r].pending = <<[op |-> "delete_route", id |-> req'[r].target]>>
  BY LookMoves DEF CreationInv, HistoryInv
<1>2. UNCHANGED <<log, history>> /\ seen[req[r].node] + 1 \in DOMAIN history
  <2>0. EngineTyped
    BY DEF CreationInv, HistoryInv
  <2>1. /\ history \in Seq(Db) /\ Len(history) = Len(log) + 1
        /\ Len(log) \in Nat /\ seen[req[r].node] \in 0..Len(log)
    BY <2>0 DEF EngineTyped, StoreInv, RequestsInv, Held, Position
  <2>. QED
    BY <1>1, <2>1 DEF store
<1>3. View(r) = history[seen[req[r].node] + 1]
  BY DEF View
<1>4. LackedAt(r)'
  BY <1>1 DEF LackedAt
<1>5. BareAt(r)'
  BY <1>1 DEF BareAt
<1>6. FreshAt(r)'
  <2>. SUFFICES ASSUME Creates(r)'
                PROVE  /\ \A i \in DOMAIN history : req'[r].target \notin history[i].routes
                       /\ \A q \in Requests \ {r} : req'[q].target # req'[r].target
    BY <1>2 DEF FreshAt
  <2>1. req[r].change.action = "upsert" /\ req'[r].target \notin View(r).routes
    BY <1>1, <1>2, <1>3 DEF Creates
  <2>. QED
    BY <1>1, <2>1
<1>7. \/ req'[r].change.action = "delete"
      \/ \E i \in DOMAIN history : req'[r].target \in history[i].routes
      \/ \A q \in Requests : req[q].target # req'[r].target
  BY <1>1, <1>2, <1>3
<1>. QED
  BY <1>1, <1>2, <1>4, <1>5, <1>6, <1>7, QuietCreation

\* What the reads of buildSnapshot leave in the snapshot.
LEMMA ListMoves ==
  ASSUME EngineTyped, NEW r \in Requests
  PROVE  /\ ListRoutes(r) =>
              req[r].pc = "list" /\ req'[r].snap.routes = View(r).routes
         /\ ListBindings(r) =>
              req[r].pc = "bindings" /\ req'[r].snap.routes = req[r].snap.routes
<1>1. req \in [Requests -> Held] /\ req[r] \in Held /\ req[r].snap \in Snapshot
  BY DEF EngineTyped, RequestsInv, Held
<1>2. CASE ListRoutes(r)
  <2>1. ~ListBindings(r)
    BY <1>2 DEF ListRoutes, ListBindings, At
  <2>. QED
    BY <1>1, <1>2, <2>1 DEF ListRoutes, At, Held, Snapshot
<1>3. CASE ListBindings(r)
  <2>1. ~ListRoutes(r)
    BY <1>3 DEF ListRoutes, ListBindings, At
  <2>. QED
    BY <1>3, <2>1, ListedKeeps
<1>. QED
  BY <1>2, <1>3

LEMMA AroundCreation ==
  ASSUME CreationInv, HistoryInv', NEW r \in Requests,
         Lock(r) \/ CheckVersion(r) \/ SyncPolicies(r) \/ ListRoutes(r) \/ ListBindings(r)
  PROVE  CreationInv'
<1>1. /\ UNCHANGED store /\ \A q \in Requests \ {r} : req'[q] = req[q]
      /\ req'[r].change = req[r].change /\ req'[r].target = req[r].target
      /\ req'[r].looked = req[r].looked
      /\ \/ /\ req[r].pc \in {"waiting", "check"} /\ req'[r].pc \in {"check", "look", "failed"}
         \/ SyncPolicies(r)
         \/ /\ req[r].pc \in {"list", "bindings"} /\ req'[r].pc \in {"bindings", "flush"}
            /\ req'[r].pending = req[r].pending
  BY AroundMoves DEF CreationInv, HistoryInv
<1>2. /\ UNCHANGED <<log, history>> /\ EngineTyped
      /\ FreshAt(r) /\ LackedAt(r) /\ BareAt(r) /\ DiffedAt(r)
  BY <1>1 DEF store, CreationInv, HistoryInv
<1>3. Creates(r)' <=> Creates(r)
  BY <1>1, <1>2, CreatesKept DEF CreationInv
<1>4. SyncPolicies(r) => req[r].pc = "sync" /\ req'[r].pc = "list"
  BY <1>2, SyncMoves
<1>5. FreshAt(r)'
  <2>. SUFFICES ASSUME Creates(r), req'[r].pc \in {"sync", "list", "bindings", "flush"}
                PROVE  /\ \A i \in DOMAIN history : req[r].target \notin history[i].routes
                       /\ \A q \in Requests \ {r} :
                            req[q].target = req[r].target => req[q].change.action = "delete"
    BY <1>1, <1>2, <1>3 DEF FreshAt
  <2>1. req[r].pc \in {"sync", "list", "bindings"}
    BY <1>1, <1>4
  <2>. QED
    BY <1>2, <2>1 DEF FreshAt
<1>6. BareAt(r)'
  <2>1. SyncPolicies(r) => req[r].change.action = "upsert"
    BY <1>2, <1>4 DEF DiffedAt
  <2>. QED
    BY <1>1, <1>2, <1>4, <2>1 DEF BareAt
<1>7. LackedAt(r)'
  <2>. SUFFICES ASSUME Creates(r),
                       req'[r].pc \in {"bindings", "flush", "save", "commit", "done"}
                PROVE  req[r].target \notin req'[r].snap.routes
    BY <1>1, <1>3 DEF LackedAt
  <2>1. ListRoutes(r) \/ ListBindings(r)
    <3>1. Lock(r) \/ CheckVersion(r) => req[r].pc \in {"waiting", "check"}
      BY DEF Lock, CheckVersion, At
    <3>. QED
      BY <1>1, <1>4, <3>1
  <2>2. CASE ListRoutes(r)
    <3>1. View(r) = history[seen[req[r].node] + 1] /\ seen[req[r].node] + 1 \in DOMAIN history
      <4>1. /\ history \in Seq(Db) /\ Len(history) = Len(log) + 1
            /\ Len(log) \in Nat /\ seen[req[r].node] \in 0..Len(log)
        BY <1>2 DEF EngineTyped, StoreInv, RequestsInv, Held, Position
      <4>. QED
        BY <4>1 DEF View
    <3>2. req[r].target \notin View(r).routes
      BY <1>2, <2>2, <3>1, ListMoves DEF FreshAt
    <3>. QED
      BY <1>2, <2>2, <3>2, ListMoves
  <2>3. CASE ListBindings(r)
    BY <1>2, <2>3, ListMoves DEF LackedAt
  <2>. QED
    BY <2>1, <2>2, <2>3
<1>. QED
  BY <1>1, <1>2, <1>5, <1>6, <1>7, QuietCreation

\* What a submission of r leaves of it, whatever comes of the entry.
LEMMA SubmitterCreation ==
  ASSUME CreationInv, NEW r \in Requests, NEW kind, NEW batch, Submits(r, kind, batch),
         \A i \in 1..(Len(log) + 1) : history'[i] = history[i]
  PROVE  (FreshAt(r) /\ LackedAt(r) /\ BareAt(r))'
<1>1. /\ req[r].pc \in {"flush", "save", "commit", "reorder"} /\ req'[r].pc \in Late
      /\ req'[r].change = req[r].change /\ req'[r].target = req[r].target
      /\ req'[r].looked = req[r].looked /\ req'[r].snap = req[r].snap
  BY SubmitKeeps DEF CreationInv, HistoryInv
<1>2. Creates(r)' <=> Creates(r)
  BY <1>1, CreatesKept DEF CreationInv
<1>3. Creates(r) => req[r].pc # "reorder"
  BY DEF CreationInv, HistoryInv, DiffedAt, Creates
<1>4. LackedAt(r)'
  <2>1. LackedAt(r)
    BY DEF CreationInv
  <2>. QED
    BY <1>1, <1>2, <1>3, <2>1 DEF LackedAt
<1>5. FreshAt(r)' /\ BareAt(r)'
  BY <1>1 DEF FreshAt, BareAt, Late
<1>. QED
  BY <1>4, <1>5

\* A submission of r that adds an entry.
LEMMA GrowCreation ==
  ASSUME CreationInv, HistoryInv', NEW r \in Requests,
         NEW kind \in {"change", "version", "audit"}, NEW batch \in Seq(Command),
         Submits(r, kind, batch), Append1(r, kind, batch)
  PROVE  CreationInv'
<1>1. /\ \A q \in Requests \ {r} : req'[q] = req[q]
      /\ req'[r].change = req[r].change /\ req'[r].target = req[r].target
      /\ kind = "change" => req[r].pc \in {"flush", "reorder"} /\ batch = req[r].pending
      /\ kind = "version" => batch = Saving(r)
      /\ kind = "audit" => batch = Auditing(r)
  BY SubmitKeeps DEF CreationInv, HistoryInv
<1>2. HistoryInv /\ EngineTyped /\ StoreInv
  BY DEF CreationInv, HistoryInv, EngineTyped
<1>3. /\ Latest' = ApplyBatch(Latest, batch).db /\ Latest = history[Len(log) + 1]
      /\ \A i \in 1..(Len(log) + 1) : history'[i] = history[i]
      /\ history'[Len(log) + 2] = Latest' /\ Len(log) \in Nat
      /\ DOMAIN history = 1..(Len(log) + 1) /\ DOMAIN history' = 1..(Len(log) + 2)
  <2>1. history \in Seq(Db) /\ Len(history) = Len(log) + 1 /\ Len(log) \in Nat
    BY <1>2 DEF StoreInv
  <2>2. history' = Append(history, ApplyBatch(Latest, batch).db)
    BY DEF Append1
  <2>3. Latest' = ApplyBatch(Latest, batch).db /\ Len(history') = Len(log) + 2
    BY <1>2, Appended
  <2>. QED
    BY <2>1, <2>2, <2>3 DEF Latest
<1>4. (FreshAt(r) /\ LackedAt(r) /\ BareAt(r))'
  BY <1>3, SubmitterCreation
<1>. SUFFICES ASSUME NEW q \in Requests, q # r
              PROVE  (FreshAt(q) /\ LackedAt(q) /\ BareAt(q))'
  BY <1>4 DEF CreationInv
<1>5. req'[q] = req[q] /\ FreshAt(q) /\ LackedAt(q) /\ BareAt(q)
  BY <1>1 DEF CreationInv
<1>6. Creates(q)' <=> Creates(q)
  BY <1>2, <1>3, <1>5, CreatesKept
<1>7. ASSUME Creates(q), req[q].pc \in {"sync", "list", "bindings", "flush"}
      PROVE  req[q].target \notin Latest'.routes
  <2>1. /\ req[q].target \notin Latest.routes /\ Latest \in Db
        /\ req[r].target = req[q].target => req[r].change.action = "delete"
    BY <1>2, <1>3, <1>5, <1>7, ReadsSound DEF FreshAt
  <2>2. CASE kind = "change"
    <3>1. batch \in Seq(Buffered)
      BY <1>1, <1>2, <2>2 DEF EngineTyped, RequestsInv, Held
    <3>2. \A i \in DOMAIN batch : batch[i].op = "put_route" => batch[i].id # req[q].target
      BY <1>1, <2>1, <2>2, OwnRouteOnly
    <3>. QED
      BY <1>3, <2>1, <3>1, <3>2, NothingFromNothing
  <2>3. CASE kind = "version"
    <3>. DEFINE c == [op |-> "save_config_version", id |-> req[r].snap]
    <3>1. batch = <<c>> /\ Accepted(Latest, c)
      BY <1>1, <2>3 DEF Saving, Accepted
    <3>2. Latest'.routes = Latest.routes
      <4>1. Latest' = Effect(Latest, c)
        BY <1>3, <3>1, BatchOfOne
      <4>. QED
        BY <2>1, <4>1 DEF Effect, SaveConfigVersion, Db
    <3>. QED
      BY <2>1, <3>2
  <2>4. CASE kind = "audit"
    <3>. DEFINE c == [op |-> "append_audit_entry", id |-> r]
    <3>1. batch = <<c>> /\ Accepted(Latest, c)
      BY <1>1, <2>4 DEF Auditing, Accepted
    <3>2. Latest'.routes = Latest.routes
      <4>1. Latest' = Effect(Latest, c)
        BY <1>3, <3>1, BatchOfOne
      <4>. QED
        BY <2>1, <4>1 DEF Effect, AppendAuditEntry, Db
    <3>. QED
      BY <2>1, <3>2
  <2>. QED
    BY <2>2, <2>3, <2>4
<1>8. FreshAt(q)'
  <2>. SUFFICES ASSUME Creates(q), req[q].pc \in {"sync", "list", "bindings", "flush"}
                PROVE  /\ \A i \in DOMAIN history' : req[q].target \notin history'[i].routes
                       /\ \A p \in Requests \ {q} :
                            req'[p].target = req[q].target => req'[p].change.action = "delete"
    BY <1>5, <1>6 DEF FreshAt
  <2>1. /\ \A i \in DOMAIN history : req[q].target \notin history[i].routes
        /\ \A p \in Requests \ {q} :
             req[p].target = req[q].target => req[p].change.action = "delete"
    BY <1>5 DEF FreshAt
  <2>2. \A i \in 1..(Len(log) + 2) : i \in 1..(Len(log) + 1) \/ i = Len(log) + 2
    BY <1>3
  <2>3. \A i \in DOMAIN history' : req[q].target \notin history'[i].routes
    BY <1>3, <1>7, <2>1, <2>2
  <2>. QED
    BY <1>1, <2>1, <2>3
<1>9. LackedAt(q)' /\ BareAt(q)'
  BY <1>5, <1>6 DEF LackedAt, BareAt
<1>. QED
  BY <1>8, <1>9

LEMMA CreationStep ==
  ASSUME CreationInv, [Next]_vars
  PROVE  CreationInv'
<1>1. HistoryInv /\ HistoryInv' /\ EngineTyped /\ StoreInv
  BY HistoryStep DEF CreationInv, HistoryInv, EngineTyped
<1>2. ASSUME UNCHANGED <<log, history, req>>
      PROVE  CreationInv'
  <2>. SUFFICES ASSUME NEW r \in Requests
                PROVE  (FreshAt(r) /\ LackedAt(r) /\ BareAt(r))'
    BY <1>1 DEF CreationInv
  <2>1. FreshAt(r) /\ LackedAt(r) /\ BareAt(r)
    BY DEF CreationInv
  <2>2. Creates(r)' <=> Creates(r)
    BY <1>2 DEF Creates
  <2>. QED
    BY <1>2, <2>1, <2>2 DEF FreshAt, LackedAt, BareAt
<1>3. ASSUME NEW r \in Requests, Flush(r) \/ SaveVersion(r) \/ CommitAudit(r) \/ ReorderWrite(r)
      PROVE  CreationInv'
  <2>1. PICK kind \in {"change", "version", "audit"}, batch \in Seq(Command) :
          Submits(r, kind, batch) /\ Submission(r, kind, batch)
    BY <1>1, <1>3, SubmitsOne
  <2>2. CASE Append1(r, kind, batch)
    BY <1>1, <2>1, <2>2, GrowCreation
  <2>3. CASE ~Append1(r, kind, batch)
    <3>1. UNCHANGED <<log, history>>
      BY <2>1, <2>3 DEF Submission, SubmitAccepted, SubmitRefused, SubmitFails, Submit, store
    <3>2. (FreshAt(r) /\ LackedAt(r) /\ BareAt(r))'
      BY <2>1, <3>1, SubmitterCreation
    <3>3. /\ \A q \in Requests \ {r} : req'[q] = req[q]
          /\ req'[r].change = req[r].change /\ req'[r].target = req[r].target
      BY <1>1, <2>1, SubmitKeeps
    <3>. QED
      BY <1>1, <3>1, <3>2, <3>3, QuietCreation
  <2>. QED
    BY <2>2, <2>3
<1>4. ASSUME NEW r \in Requests, RequestStep(r)
      PROVE  CreationInv'
  BY <1>1, <1>3, <1>4, LookCreation, AroundCreation DEF RequestStep
<1>5. ASSUME NEW r \in Requests, NEW n \in Nodes, NEW change \in Changes, Begins(r, n, change)
      PROVE  CreationInv'
  BY <1>1, <1>5, BeginCreation
<1>6. ASSUME NEW n \in Nodes, Replicate(n) \/ Elect(n)
      PROVE  CreationInv'
  BY <1>1, <1>2, <1>6, ClusterTyped
<1>7. CASE UNCHANGED vars
  BY <1>2, <1>7 DEF vars, store
<1>. QED
  BY <1>4, <1>5, <1>6, <1>7 DEF Next

LEMMA CreationInit == Init => CreationInv
<1>. SUFFICES ASSUME Init PROVE CreationInv
  OBVIOUS
<1>1. HistoryInv
  BY HistoryInit
<1>2. \A r \in Requests : req[r].pc = "idle"
  BY IdleTyped DEF Init
<1>. QED
  BY <1>1, <1>2 DEF CreationInv, FreshAt, LackedAt, BareAt

\* buildSnapshot reads the node's database while the change is still buffered
\* (engine.go:197), and a created route has an id that nobody else can write
\* before it: so no call that creates a route, however it is interleaved with
\* others and wherever the leader is, saves a config version that shows it.
\* ("Build snapshot after mutation" says the comment.)
THEOREM CreationUnseenThm == Spec => []CreationUnseen
<1>1. CreationInv => CreationUnseen
  BY DEF CreationInv, LackedAt, CreationUnseen
<1>. QED
  BY <1>1, CreationInit, CreationStep, PTL DEF Spec
-----------------------------------------------------------------------------
(* What a call that succeeded has left in the log.                          *)

\* The three entries of a call that succeeded are there, in order, accepted.
LeftWhole ==
  \A r \in Requests :
    req[r].pc = "done" /\ req[r].change.action # "reorder" =>
      \E i, j, k \in DOMAIN log :
        /\ i < j /\ j < k
        /\ Entry(i, r, "change") /\ Entry(j, r, "version") /\ Entry(k, r, "audit")

\* No call has two entries of a kind.
NothingTwice ==
  \A i, j \in DOMAIN log : log[i].by = log[j].by /\ log[i].kind = log[j].kind => i = j

\* A version, or an audit entry, is of a call that is past it.
PastItsEntries ==
  \A i \in DOMAIN log :
    /\ log[i].kind = "version" => req[log[i].by].pc \in {"commit", "done", "failed"}
    /\ log[i].kind = "audit" => req[log[i].by].pc \in {"done", "failed"}

\* Who succeeded has been audited.
AuditedAt(r) ==
  req[r].pc = "done" /\ req[r].change.action # "reorder" =>
    \E k \in DOMAIN log : Entry(k, r, "audit")

WholeInv ==
  /\ TraceInv /\ HistoryInv /\ NothingTwice /\ PastItsEntries
  /\ \A r \in Requests : AuditedAt(r)

\* A step of r that adds no entry.
LEMMA QuietWhole ==
  ASSUME WholeInv, TraceInv', HistoryInv', log' = log,
         NEW r \in Requests, \A q \in Requests \ {r} : req'[q] = req[q],
         req'[r].pc # "done", req[r].pc \notin Late \/ req'[r].pc = "failed"
  PROVE  WholeInv'
<1>1. ASSUME NEW i \in DOMAIN log
      PROVE  log[i].by = r => req'[r].pc = "failed"
  BY DEF WholeInv, HistoryInv, SubmittersLate
<1>2. \A i \in DOMAIN log : log[i].by \in Requests
  <2>1. log \in Seq(LogEntry)
    BY DEF WholeInv, TraceInv, EngineTyped, StoreInv
  <2>2. \A i \in DOMAIN log : log[i] \in LogEntry
    BY <2>1
  <2>. QED
    BY <2>2 DEF LogEntry
<1>3. PastItsEntries'
  BY <1>1, <1>2 DEF WholeInv, PastItsEntries
<1>4. NothingTwice'
  BY DEF WholeInv, NothingTwice
<1>5. ASSUME NEW q \in Requests
      PROVE  AuditedAt(q)'
  BY DEF WholeInv, AuditedAt, Entry
<1>. QED
  BY <1>3, <1>4, <1>5 DEF WholeInv

\* A submission of r that adds one.
LEMMA GrowWhole ==
  ASSUME WholeInv, TraceInv', HistoryInv', NEW r \in Requests,
         NEW kind \in {"change", "version", "audit"}, NEW batch \in Seq(Command),
         Submits(r, kind, batch), Submission(r, kind, batch), Append1(r, kind, batch)
  PROVE  WholeInv'
<1>1. EngineTyped /\ StoreInv /\ SubmittersLate /\ NothingTwice /\ PastItsEntries /\ DiffedAt(r)
  BY DEF WholeInv, TraceInv, HistoryInv, EngineTyped
<1>2. /\ \A q \in Requests \ {r} : req'[q] = req[q]
      /\ req'[r].change = req[r].change
      /\ kind = "change" => req[r].pc \in {"flush", "reorder"}
  BY <1>1, SubmitKeeps
<1>3. /\ kind = "version" => req[r].pc = "save" /\ req'[r].pc \in {"commit", "failed"}
      /\ kind = "audit" => req[r].pc = "commit" /\ req'[r].pc \in {"done", "failed"}
      /\ req'[r].pc = "done" =>
           req[r].pc \in {"commit", "reorder"} /\ SubmitAccepted(r, kind, batch)
  BY <1>1, SubmitMoves
<1>4. /\ \A j \in 1..Len(log) : \A q, k : Entry(j, q, k) => Entry(j, q, k)'
      /\ \A j \in 1..Len(log) : log'[j] = log[j]
      /\ Len(log') = Len(log) + 1 /\ Len(log) \in Nat
      /\ DOMAIN log = 1..Len(log) /\ DOMAIN log' = 1..(Len(log) + 1)
      /\ log'[Len(log) + 1].by = r /\ log'[Len(log) + 1].kind = kind
  BY <1>1, EntriesStay
<1>5. \A i \in DOMAIN log : log[i].by \in Requests
  <2>1. log \in Seq(LogEntry)
    BY <1>1 DEF StoreInv
  <2>2. \A i \in DOMAIN log : log[i] \in LogEntry
    BY <2>1
  <2>. QED
    BY <2>2 DEF LogEntry
<1>6. \A i \in DOMAIN log : log[i].by = r => log[i].kind # kind
  BY <1>1, <1>2, <1>3 DEF SubmittersLate, PastItsEntries, Late
<1>7. NothingTwice'
  <2>. SUFFICES ASSUME NEW i \in 1..(Len(log) + 1), NEW j \in 1..(Len(log) + 1),
                       log'[i].by = log'[j].by, log'[i].kind = log'[j].kind
                PROVE  i = j
    BY <1>4 DEF NothingTwice
  <2>1. CASE i \in 1..Len(log) /\ j \in 1..Len(log)
    BY <1>1, <1>4, <2>1 DEF NothingTwice
  <2>2. CASE i = Len(log) + 1 \/ j = Len(log) + 1
    <3>1. i \in 1..Len(log) => j # Len(log) + 1
      BY <1>4, <1>6
    <3>2. j \in 1..Len(log) => i # Len(log) + 1
      BY <1>4, <1>6
    <3>. QED
      BY <1>4, <2>2, <3>1, <3>2
  <2>. QED
    BY <1>4, <2>1, <2>2
<1>8. PastItsEntries'
  <2>. SUFFICES ASSUME NEW i \in 1..(Len(log) + 1)
                PROVE  /\ log'[i].kind = "version" =>
                            req'[log'[i].by].pc \in {"commit", "done", "failed"}
                       /\ log'[i].kind = "audit" => req'[log'[i].by].pc \in {"done", "failed"}
    BY <1>4 DEF PastItsEntries
  <2>1. CASE i = Len(log) + 1
    BY <1>3, <1>4, <2>1
  <2>2. CASE i \in 1..Len(log) /\ log[i].by # r
    <3>1. req'[log[i].by] = req[log[i].by] /\ log'[i] = log[i] /\ i \in DOMAIN log
      BY <1>2, <1>4, <1>5, <2>2
    <3>. QED
      BY <1>1, <3>1 DEF PastItsEntries
  <2>3. CASE i \in 1..Len(log) /\ log[i].by = r
    <3>1. i \in DOMAIN log /\ log'[i] = log[i] /\ req[r].pc \in Late
      BY <1>1, <1>4, <2>3 DEF SubmittersLate
    <3>2. kind \in {"version", "audit"}
      BY <1>2, <3>1 DEF Late
    <3>3. /\ log[i].kind = "version" => req[r].pc \in {"commit", "done", "failed"}
          /\ log[i].kind = "audit" => req[r].pc \in {"done", "failed"}
      BY <1>1, <2>3, <3>1 DEF PastItsEntries
    <3>. QED
      BY <1>3, <2>3, <3>1, <3>2, <3>3
  <2>. QED
    BY <1>4, <2>1, <2>2, <2>3
<1>9. ASSUME NEW q \in Requests
      PROVE  AuditedAt(q)'
  <2>. SUFFICES ASSUME req'[q].pc = "done", req'[q].change.action # "reorder"
                PROVE  \E k \in DOMAIN log' : Entry(k, q, "audit")'
    BY DEF AuditedAt
  <2>1. CASE q = r
    <3>1. req[r].pc # "reorder"
      BY <1>1, <1>2, <2>1 DEF DiffedAt
    <3>2. kind = "audit" /\ SubmitAccepted(r, kind, batch)
      BY <1>2, <1>3, <2>1, <3>1
    <3>3. log'[Len(log) + 1] = [by |-> r, kind |-> kind, ok |-> TRUE]
      <4>1. log' # log
        BY <1>4
      <4>. QED
        BY <1>1, <3>2, <4>1, SubmissionLogs
    <3>4. Len(log) + 1 \in DOMAIN log'
      BY <1>4
    <3>. QED
      BY <2>1, <3>2, <3>3, <3>4 DEF Entry
  <2>2. CASE q # r
    <3>1. PICK k \in DOMAIN log : Entry(k, q, "audit")
      BY <1>2, <2>2 DEF WholeInv, AuditedAt
    <3>2. k \in DOMAIN log' /\ Entry(k, q, "audit")'
      BY <1>4, <3>1
    <3>. QED
      BY <3>2
  <2>. QED
    BY <2>1, <2>2
<1>. QED
  BY <1>7, <1>8, <1>9 DEF WholeInv

LEMMA WholeStep ==
  ASSUME WholeInv, [Next]_vars
  PROVE  WholeInv'
<1>1. TraceInv /\ TraceInv' /\ HistoryInv /\ HistoryInv' /\ EngineTyped /\ StoreInv
  BY TraceStep, HistoryStep DEF WholeInv, TraceInv, EngineTyped
<1>2. ASSUME UNCHANGED <<log, req>>
      PROVE  WholeInv'
  BY <1>1, <1>2 DEF WholeInv, NothingTwice, PastItsEntries, AuditedAt, Entry
<1>3. ASSUME NEW r \in Requests, Inward(r)
      PROVE  WholeInv'
  <2>1. /\ log' = log /\ \A q \in Requests \ {r} : req'[q] = req[q]
        /\ req'[r].pc # "done"
    BY <1>1, <1>3, InwardMoves DEF store
  <2>2. req[r].pc \in {"waiting", "check", "look", "sync", "list", "bindings"}
    BY <1>3 DEF Inward, Lock, CheckVersion, UpdateExisting, CreateNew, DeleteById,
                SyncPolicies, ListRoutes, ListBindings, At
  <2>. QED
    BY <1>1, <2>1, <2>2, QuietWhole DEF Late
<1>4. ASSUME NEW r \in Requests, NEW n \in Nodes, NEW change \in Changes, Begins(r, n, change)
      PROVE  WholeInv'
  <2>1. /\ log' = log /\ \A q \in Requests \ {r} : req'[q] = req[q]
        /\ req[r].pc = "idle" /\ req'[r].pc # "done"
    BY <1>1, <1>4, BeginMoves DEF store
  <2>. QED
    BY <1>1, <2>1, QuietWhole DEF Late
<1>5. ASSUME NEW r \in Requests, NEW kind \in {"change", "version", "audit"},
             NEW batch \in Seq(Command), Submits(r, kind, batch), Submission(r, kind, batch)
      PROVE  WholeInv'
  <2>1. CASE Append1(r, kind, batch)
    BY <1>1, <1>5, <2>1, GrowWhole
  <2>2. CASE ~Append1(r, kind, batch)
    <3>1. log' = log /\ ~SubmitAccepted(r, kind, batch)
      BY <1>1, <1>5, <2>2, SubmissionLogs
    <3>2. \A q \in Requests \ {r} : req'[q] = req[q]
      BY <1>1, <1>5, SubmitKeeps
    <3>3. req'[r].pc = "failed"
      BY <1>1, <1>5, <3>1, SubmitMoves
    <3>. QED
      BY <1>1, <3>1, <3>2, <3>3, QuietWhole
  <2>. QED
    BY <2>1, <2>2
<1>6. ASSUME NEW r \in Requests, RequestStep(r)
      PROVE  WholeInv'
  BY <1>1, <1>3, <1>5, <1>6, SubmitsOne DEF RequestStep, Inward
<1>7. ASSUME NEW n \in Nodes, Replicate(n) \/ Elect(n)
      PROVE  WholeInv'
  BY <1>1, <1>2, <1>7, ClusterTyped
<1>8. CASE UNCHANGED vars
  BY <1>2, <1>8 DEF vars, store
<1>. QED
  BY <1>4, <1>6, <1>7, <1>8 DEF Next

\* The other half of TraceInOrder: a call that reports success has put into the
\* log its change, its config version and its audit entry, accepted and in this
\* order, and whatever became of a call, nothing of it is in the log twice, an
\* entry that was committed although its submission failed included.
THEOREM LeftWholeThm == Spec => [](LeftWhole /\ NothingTwice)
<1>1. Init => WholeInv
  <2>. SUFFICES ASSUME Init PROVE WholeInv
    OBVIOUS
  <2>1. TraceInv
    BY StoreInit, RequestsInit DEF Init, Idle, At, TraceInv, EngineTyped, Logged, TraceInOrder
  <2>2. \A r \in Requests : req[r].pc = "idle"
    BY IdleTyped DEF Init
  <2>3. DOMAIN log = {}
    BY DEF Init
  <2>. QED
    BY <2>1, <2>2, <2>3, HistoryInit DEF WholeInv, NothingTwice, PastItsEntries, AuditedAt
<1>2. WholeInv /\ [Next]_vars => WholeInv'
  BY WholeStep
<1>3. ASSUME WholeInv
      PROVE  LeftWhole
  <2>. SUFFICES ASSUME NEW r \in Requests, req[r].pc = "done", req[r].change.action # "reorder"
                PROVE  \E i, j, k \in DOMAIN log :
                         /\ i < j /\ j < k /\ Entry(i, r, "change")
                         /\ Entry(j, r, "version") /\ Entry(k, r, "audit")
    BY DEF LeftWhole
  <2>1. TraceInOrder /\ Len(log) \in Nat /\ DOMAIN log = 1..Len(log)
    <3>1. log \in Seq(LogEntry)
      BY <1>3 DEF WholeInv, TraceInv, EngineTyped, StoreInv
    <3>. QED
      BY <1>3, <3>1 DEF WholeInv, TraceInv
  <2>2. PICK k \in DOMAIN log : Entry(k, r, "audit")
    BY <1>3 DEF WholeInv, AuditedAt
  <2>3. log[k].kind = "audit" /\ log[k].by = r
    BY <2>2 DEF Entry
  <2>4. PICK j \in 1..(k - 1) : Entry(j, r, "version")
    BY <2>1, <2>3 DEF TraceInOrder
  <2>5. log[j].kind = "version" /\ log[j].by = r /\ j \in DOMAIN log
    BY <2>4 DEF Entry
  <2>6. PICK i \in 1..(j - 1) : Entry(i, r, "change")
    BY <2>1, <2>5 DEF TraceInOrder
  <2>7. i < j /\ j < k /\ i \in DOMAIN log
    BY <2>1, <2>2, <2>4, <2>5, <2>6
  <2>. QED
    BY <2>2, <2>4, <2>5, <2>6, <2>7
<1>4. WholeInv => NothingTwice
  BY DEF WholeInv
<1>. QED
  BY <1>1, <1>2, <1>3, <1>4, PTL DEF Spec
=============================================================================
