------------------------------ MODULE SyncPipeline ------------------------------
(***************************************************************************)
(* From a committed change to Caddy, over a SQL store: the store announces  *)
(* a change on its notify channel while the transaction still runs, all     *)
(* watchers take from that one channel, the sync agent (sync/agent.go)      *)
(* debounces what it gets and pushes a compiled configuration, and the HTTP *)
(* handlers compile and push on their own (gateway/caddy_reload_hook.go).   *)
(* Both compile through the engine (config/engine.go), which has a fallback *)
(* for times when the store cannot begin a transaction.                     *)
(*                                                                          *)
(* A configuration is the number of changes it contains, or Bare: one that  *)
(* is of no version of the store.                                           *)
(***************************************************************************)
EXTENDS Integers

CONSTANTS RestWriters,   \* handlers that push after their commit
          GrpcWriters,   \* callers of ApplyChange, which does not push
          Agent,         \* the sync agent
          NotifyCap,     \* capacity of the notify channel (64 in the code)
          InboxCap,      \* what WatchChanges buffers for the agent, at least 1 (16, and one in hand)
          MaxChanges     \* bound: write transactions

VARIABLES version,    \* the committed configuration
          begun,      \* write transactions so far
          notify,     \* events on the store's channel
          inbox,      \* events on their way to the agent
          at,         \* process -> where it is
          built,      \* process -> the configuration it has compiled
          caddy,      \* what Caddy runs
          running,    \* the Caddy process is alive
          reasons     \* what has happened that can leave Caddy behind (history)

store == <<version, begun>>
events == <<notify, inbox>>
vars == <<store, events, at, built, caddy, running, reasons>>

Writers == RestWriters \cup GrpcWriters
Builders == RestWriters \cup {Agent}

\* What Caddy runs when nothing, or something without the plugins of the routes,
\* has been pushed.
Bare == -1

\* The state after the agent's first sync; when it fails the agent goes on.
Init ==
  /\ version = 0 /\ begun = 0 /\ notify = 0 /\ inbox = 0
  /\ at = [p \in Writers \cup {Agent} |-> "idle"]
  /\ built = [p \in Writers \cup {Agent} |-> 0]
  /\ \/ caddy = 0 /\ running = TRUE /\ reasons = {}
     \/ caddy = Bare /\ running \in BOOLEAN /\ reasons = {"failed"}

Goto(p, place) == at' = [at EXCEPT ![p] = place]

-----------------------------------------------------------------------------
(* Writers.                                                                 *)

InTransaction == \E w \in Writers : at[w] = "commit"

\* Mutant: a write that does not announce itself.
WriteSilently(w) ==
  /\ at[w] = "idle" /\ begun < MaxChanges /\ ~InTransaction
  /\ begun' = begun + 1
  /\ Goto(w, "commit")
  /\ UNCHANGED <<version, events, built, caddy, running, reasons>>

\* The write announces itself; a full channel drops the event.
Write(w) ==
  /\ at[w] = "idle" /\ begun < MaxChanges /\ ~InTransaction
  /\ begun' = begun + 1
  /\ IF notify < NotifyCap
     THEN notify' = notify + 1 /\ UNCHANGED reasons
     ELSE reasons' = reasons \cup {"lost"} /\ UNCHANGED notify
  /\ Goto(w, "commit")
  /\ UNCHANGED <<version, inbox, built, caddy, running>>

\* A handler goes on to the reload hook.
Commit(w) ==
  /\ at[w] = "commit"
  /\ version' = version + 1
  /\ Goto(w, IF w \in RestWriters THEN "read" ELSE "idle")
  /\ UNCHANGED <<begun, events, built, caddy, running, reasons>>

Rollback(w) ==
  /\ at[w] = "commit"
  /\ Goto(w, "idle")
  /\ UNCHANGED <<store, events, built, caddy, running, reasons>>

-----------------------------------------------------------------------------
(* Events.                                                                  *)

\* Mutant: the buffer is taken to be full one event too early.
ForwardLeavingRoom ==
  /\ notify > 0 /\ inbox + 1 < InboxCap
  /\ notify' = notify - 1 /\ inbox' = inbox + 1
  /\ UNCHANGED <<store, at, built, caddy, running, reasons>>

\* WatchChanges forwards to the agent.
Forward ==
  /\ notify > 0 /\ inbox < InboxCap
  /\ notify' = notify - 1 /\ inbox' = inbox + 1
  /\ UNCHANGED <<store, at, built, caddy, running, reasons>>

\* Another watcher takes the event: TLS matcher, SSE or gRPC stream.
Steal ==
  /\ notify > 0
  /\ notify' = notify - 1
  /\ reasons' = reasons \cup {"lost"}
  /\ UNCHANGED <<store, inbox, at, built, caddy, running>>

\* run: an event starts the debounce timer, or starts it again.
Receive ==
  /\ at[Agent] \in {"idle", "timer"} /\ inbox > 0
  /\ inbox' = inbox - 1
  /\ Goto(Agent, "timer")
  /\ UNCHANGED <<store, notify, built, caddy, running, reasons>>

\* The timer; syncOnce has nothing to do without Caddy.
Fire ==
  /\ at[Agent] = "timer"
  /\ Goto(Agent, IF running THEN "read" ELSE "idle")
  /\ UNCHANGED <<store, events, built, caddy, running, reasons>>

-----------------------------------------------------------------------------
(* CompileCaddyConfig and the push, by the agent or by a handler's hook.    *)

\* Reading before a running transaction commits misses the change its event announced.
Read(p) ==
  /\ at[p] = "read"
  /\ built' = [built EXCEPT ![p] = version]
  /\ reasons' = IF p = Agent /\ InTransaction THEN reasons \cup {"early"} ELSE reasons
  /\ Goto(p, "push")
  /\ UNCHANGED <<store, events, caddy, running>>

\* The store cannot begin a transaction: a snapshot of some age, read by GetConfig
\* after all or kept from earlier, without the plugins of its routes.
ReadBare(p) ==
  /\ at[p] = "read"
  /\ built' = [built EXCEPT ![p] = Bare]
  /\ reasons' = reasons \cup {"outage"}
  /\ Goto(p, "push")
  /\ UNCHANGED <<store, events, caddy, running>>

\* A read in the middle, or the compiler, fails.
ReadFails(p) ==
  /\ at[p] = "read"
  /\ reasons' = reasons \cup {"failed"}
  /\ Goto(p, "idle")
  /\ UNCHANGED <<store, events, built, caddy, running>>

\* PushConfig, or the hook's POST: Caddy replaces its configuration.
Push(p) ==
  /\ at[p] = "push" /\ running
  /\ caddy' = built[p]
  /\ reasons' = IF built[p] = version /\ ~InTransaction THEN {}
                ELSE IF built[p] < caddy THEN reasons \cup {"overtaken"} ELSE reasons
  /\ Goto(p, "idle")
  /\ UNCHANGED <<store, events, built, running>>

\* Caddy refuses or cannot be reached; nobody tries again.
PushFails(p) ==
  /\ at[p] = "push"
  /\ reasons' = reasons \cup {"failed"}
  /\ Goto(p, "idle")
  /\ UNCHANGED <<store, events, built, caddy, running>>

\* The child process ends (caddy/manager.go); the daemon does not start it again.
CaddyExits ==
  /\ running /\ running' = FALSE
  /\ UNCHANGED <<store, events, at, built, caddy, reasons>>

-----------------------------------------------------------------------------
Step(p) == Read(p) \/ ReadBare(p) \/ ReadFails(p) \/ Push(p) \/ PushFails(p)
Finish(w) == Commit(w) \/ Rollback(w)

Next ==
  \/ \E w \in Writers : Write(w) \/ Finish(w)
  \/ Forward \/ Steal \/ Receive \/ Fire
  \/ \E p \in Builders : Step(p)
  \/ CaddyExits

Spec == Init /\ [][Next]_vars

\* Goroutines run, transactions end, and every call to Caddy has a timeout.
Fairness ==
  /\ WF_vars(Forward) /\ WF_vars(Receive) /\ WF_vars(Fire)
  /\ \A p \in Builders : WF_vars(Step(p))
  /\ \A w \in Writers : WF_vars(Finish(w))

FairSpec == Spec /\ Fairness
-----------------------------------------------------------------------------
TypeOK ==
  /\ version \in 0..MaxChanges /\ begun \in 0..MaxChanges /\ version <= begun
  /\ notify \in 0..NotifyCap /\ inbox \in 0..InboxCap
  /\ at \in [Writers \cup {Agent} -> {"idle", "commit", "timer", "read", "push"}]
  /\ built \in [Writers \cup {Agent} -> Bare..MaxChanges]
  /\ caddy \in Bare..MaxChanges /\ running \in BOOLEAN
  /\ reasons \subseteq {"lost", "early", "outage", "failed", "overtaken"}

Quiet == notify = 0 /\ inbox = 0 /\ \A p \in Writers \cup {Agent} : at[p] = "idle"

(* "The sync agent below remains responsible for store-watcher triggered    *)
(* reloads" (daemon.go): when nothing is on its way and Caddy does not run  *)
(* the latest configuration, then since it last did an event was lost, the  *)
(* agent read before the commit it was told of, the fallback compiled a     *)
(* configuration without the plugins of the routes, a compilation or a push *)
(* failed (the agent's first one too), or an older push came after a newer  *)
(* one.  There is no other way to leave Caddy behind.                       *)
StaleHasReason == Quiet /\ running /\ caddy # version => reasons # {}

(* When none of that goes on happening, Caddy comes to run the latest       *)
(* configuration and keeps it.                                              *)
ConvergesWhenHealthy == <>[](running /\ reasons = {}) => <>[](caddy = version)
=============================================================================
