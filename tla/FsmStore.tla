------------------------------- MODULE FsmStore -------------------------------
(***************************************************************************)
(* One node of the raft store: raft hands the committed log entries to      *)
(* fsm.Apply one at a time, Apply runs the commands of an entry in one      *)
(* bbolt write transaction, and each command announces itself on fsmChan,   *)
(* from where relayEvents forwards the event to the driver's notify channel *)
(* and a config watcher (the on-demand TLS matcher of daemon.go) asks the   *)
(* engine for the configuration again.  The channel is shared: every        *)
(* WatchChanges of the engine takes its events from it (the sync agent, the *)
(* event stream, gRPC), and a failing read is answered from the engine's    *)
(* cached snapshot, if there is one.                                        *)
(*                                                                          *)
(* bbolt readers see the last committed database (`db`), the write          *)
(* transaction its own working copy (`work`).  Events are tokens: which     *)
(* row an event names makes no difference to what the watcher reads.        *)
(***************************************************************************)
EXTENDS ConfigFsm

CONSTANTS Batches,      \* the log entries callers submit: sequences of commands
          MaxVersion,   \* bound: config versions saved
          FsmCap,       \* capacity of fsmChan (256 in the code)
          NotifyCap,    \* capacity of notify (64 in the code)
          Disturbed     \* other watchers share notify, and reads may fail

ASSUME BatchesAssumption == Batches \subseteq Seq(Command)
ASSUME CapAssumption == FsmCap \in Nat /\ NotifyCap \in Nat
ASSUME DisturbedAssumption == Disturbed \in BOOLEAN

VARIABLES db,        \* the committed database
          work,      \* the working copy of the running write transaction
          todo,      \* the commands of the running entry not yet applied
          busy,      \* an entry is being applied
          carried,   \* history: <<s, u>> if a command has given upstream u to s
          fsmChan,   \* events queued by emitEvent
          inHand,    \* relayEvents holds an event
          notify,    \* events queued for the watchers
          watcher,   \* "waiting" for an event, or "pending": its debounce timer runs
          current,   \* the watcher's copy is what the database holds
          missed     \* history: how the watcher last failed to follow the database

dbVars == <<db, work, todo, busy, carried>>
watchVars == <<watcher, current, missed>>
eventVars == <<fsmChan, inHand, notify, watchVars>>
vars == <<dbVars, eventVars>>

Saves(batch) == {i \in DOMAIN batch : batch[i].op = "save_config_version"}

Init ==
  /\ db = EmptyDb /\ work = EmptyDb
  /\ todo = <<>> /\ busy = FALSE /\ carried = {}
  /\ fsmChan = 0 /\ inHand = FALSE /\ notify = 0
  /\ watcher = "waiting" /\ current = TRUE /\ missed = "nothing"

\* Apply opens the write transaction of the next log entry.
Begin(batch) ==
  /\ ~busy
  /\ Saves(batch) # {} => db.counter < MaxVersion
  /\ busy' = TRUE /\ todo' = batch /\ work' = db
  /\ UNCHANGED <<db, carried, eventVars>>

\* Mutant: nothing is announced.
EmitNothing == UNCHANGED fsmChan

\* emitEvent: a send that gives up when the channel is full.
Emit == fsmChan' = IF fsmChan < FsmCap THEN fsmChan + 1 ELSE fsmChan

\* applyCommand on the next command of the entry.
Run ==
  /\ busy /\ todo # <<>> /\ Accepted(work, Head(todo))
  /\ work' = Effect(work, Head(todo))
  /\ todo' = Tail(todo)
  /\ carried' = carried \cup Carries(Head(todo))
  /\ Emit
  /\ UNCHANGED <<db, busy, inHand, notify, watchVars>>

\* Mutant: the commands before the refused one are committed.
RefuseKeepingPrefix ==
  /\ busy /\ todo # <<>> /\ ~Accepted(work, Head(todo))
  /\ db' = work /\ todo' = <<>> /\ busy' = FALSE
  /\ UNCHANGED <<work, carried, eventVars>>

\* A command is refused: the transaction of the whole entry rolls back.
Refuse ==
  /\ busy /\ todo # <<>> /\ ~Accepted(work, Head(todo))
  /\ work' = db /\ todo' = <<>> /\ busy' = FALSE
  /\ UNCHANGED <<db, carried, eventVars>>

\* db.Update returns: readers see the new database.
Commit ==
  /\ busy /\ todo = <<>>
  /\ db' = work /\ busy' = FALSE
  /\ current' = (current /\ work = db)
  /\ UNCHANGED <<work, todo, carried, fsmChan, inHand, notify, watcher, missed>>

\* relayEvents takes an event and forwards it unless notify is full.
RelayTake ==
  /\ fsmChan > 0 /\ ~inHand
  /\ fsmChan' = fsmChan - 1 /\ inHand' = TRUE
  /\ UNCHANGED <<dbVars, notify, watchVars>>

RelayPut ==
  /\ inHand
  /\ inHand' = FALSE
  /\ notify' = IF notify < NotifyCap THEN notify + 1 ELSE notify
  /\ UNCHANGED <<dbVars, fsmChan, watchVars>>

\* runTLSAskWatcher: an event starts (or restarts) the debounce timer ...
WatcherReceive ==
  /\ notify > 0
  /\ notify' = notify - 1 /\ watcher' = "pending"
  /\ UNCHANGED <<dbVars, fsmChan, inHand, current, missed>>

\* ... unless another watcher of the channel takes it.
Steal ==
  /\ Disturbed /\ notify > 0
  /\ notify' = notify - 1 /\ missed' = "stolen"
  /\ UNCHANGED <<dbVars, fsmChan, inHand, watcher, current>>

\* The timer fires and GetConfig reads the committed database, perhaps while
\* the transaction that announced itself still runs.
WatcherRefresh ==
  /\ watcher = "pending"
  /\ watcher' = "waiting" /\ current' = TRUE
  /\ missed' = IF busy THEN "uncommitted" ELSE "nothing"
  /\ UNCHANGED <<dbVars, fsmChan, inHand, notify>>

\* GetConfig fails and no snapshot is cached: the matcher stays as it is.
RefreshFails ==
  /\ Disturbed /\ watcher = "pending"
  /\ watcher' = "waiting" /\ missed' = "unread"
  /\ UNCHANGED <<dbVars, fsmChan, inHand, notify, current>>

\* GetConfig fails and answers with the cached snapshot: an older one (what
\* ApplyChange read before its change, a reader of another age), or the latest.
RefreshFromCache ==
  /\ Disturbed /\ watcher = "pending"
  /\ watcher' = "waiting" /\ missed' = "unread" /\ current' \in BOOLEAN
  /\ UNCHANGED <<dbVars, fsmChan, inHand, notify>>

Apply == (\E batch \in Batches : Begin(batch)) \/ Run \/ Refuse \/ Commit
Relay == RelayTake \/ RelayPut
Watch == WatcherReceive \/ Steal \/ WatcherRefresh \/ RefreshFails \/ RefreshFromCache

Next == Apply \/ Relay \/ Watch

Spec == Init /\ [][Next]_vars
-----------------------------------------------------------------------------
TypeOK ==
  /\ db \in Db /\ work \in Db
  /\ todo \in Seq(Command) /\ busy \in BOOLEAN
  /\ carried \subseteq Services \X Upstreams
  /\ fsmChan \in 0..FsmCap /\ notify \in 0..NotifyCap
  /\ inHand \in BOOLEAN /\ watcher \in {"waiting", "pending"} /\ current \in BOOLEAN
  /\ missed \in {"nothing", "uncommitted", "stolen", "unread"}

(* "The index is always ACID-consistent with the upstream payload"          *)
(* (fsm.go, applyCreateService): whatever sequence of service commands ran, *)
(* a stored upstream is found through the index of its own service, which   *)
(* is where GetService and the Caddy compiler look for it.                  *)
IndexComplete == IndexCompleteIn(db)

\* Two services have carried the upstream: clients may supply upstream ids, and
\* an import gives a service a new id but keeps those of its upstreams.
Shared(u) ==
  \E s, t \in Services : s # t /\ <<s, u>> \in carried /\ <<t, u>> \in carried

(* The converse: an index entry names a service that exists, and its        *)
(* upstream is one of that service, so that deleting or updating a service, *)
(* which trusts the index, takes no other service's upstreams away.  The    *)
(* exception is an upstream id that two services have carried: the entry of *)
(* the first stays when the second takes the row over.                      *)
IndexSound ==
  \A e \in db.index : e[1] \in db.services /\ (db.owner[e[2]] = e[1] \/ Shared(e[2]))

(* A key can be looked up by its hash exactly when it is stored, through    *)
(* every mixture of creation, revocation and rolled-back batches.           *)
KeyIndexExact == KeyIndexIn(db)

(* applySaveConfigVersion numbers versions 1, 2, 3, ... with no gap and no  *)
(* number used twice: the counter and the versions are in two buckets.      *)
VersionsGapless == VersionsGaplessIn(db)

(* When a commit removes a route or a service, no policy stays bound to it  *)
(* (deleteBindingsForTarget), so an id that comes back starts unbound.      *)
DeletionUnbinds ==
  [][\A t \in Targets :
       /\ t \in db.routes \cup db.services
       /\ t \notin db'.routes \cup db'.services
       => \A p \in Policies : <<p, t>> \notin db'.bindings]_db

\* What a command does with the route or service t.
Puts(c, t) == c.op \in {"put_route", "create_service"} /\ c.id = t
Removes(c, t) == c.op \in {"delete_route", "delete_service"} /\ c.id = t
Binds(c, t) == c.op = "attach_policy" /\ c.target = t

\* A batch binds nothing to a target it has deleted, unless it puts it again.
BindsLiveTargets(batch) ==
  \A t \in Targets : \A i, j \in DOMAIN batch :
    i < j /\ Removes(batch[i], t) /\ Binds(batch[j], t) =>
      \E k \in (i + 1)..(j - 1) : Puts(batch[k], t)

(* applyAttachPolicy does not look for the target, so this is the callers'. *)
NoLateAttach == \A batch \in Batches : BindsLiveTargets(batch)

(* "Refresh the matcher on every config change" (daemon.go): a watcher      *)
(* whose copy is out of date has an event on its way to it.                 *)
StaleWatcherWillRefresh ==
  current \/ busy \/ fsmChan > 0 \/ inHand \/ notify > 0 \/ watcher = "pending"

(* What else leaves the watcher behind: with nothing on its way to it, it   *)
(* has read within a transaction, an event of its channel went to another   *)
(* watcher, or its read failed, and it has not read well since.  Channels   *)
(* that are full lose no refresh: what filled them is still to come.        *)
StaleHasCause == StaleWatcherWillRefresh \/ missed # "nothing"

(* The abstract store: each log entry happens at one instant, all or none.  *)
Abstract == INSTANCE ConfigStore WITH Batches <- Batches, EmptyDb <- EmptyDb,
                                    ApplyBatch <- ApplyBatch, db <- db
(* Applying an entry command by command, with readers and events in         *)
(* between, is for those who read the database one atomic step.             *)
AppliesAtomically == Abstract!Spec
=============================================================================
