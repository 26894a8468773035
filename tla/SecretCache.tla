------------------------------ MODULE SecretCache ------------------------------
(***************************************************************************)
(* The caching resolver of vault references (vault/cache.go).  A Resolve    *)
(* looks in the cache under the read lock, asks the backend without a lock, *)
(* and stores the answer under the write lock; Invalidate and Flush (the    *)
(* rotation timer) may come in between.                                     *)
(*                                                                          *)
(* One reference: references are cached independently.  A secret's value is *)
(* the number of its updates in the backend.                                *)
(***************************************************************************)
EXTENDS Naturals

CONSTANTS Calls,        \* concurrent Resolve calls
          TTL,          \* ticks for which an answer is cached
          MaxUpdates    \* bound: updates of the secret

VARIABLES secret,   \* its value in the backend
          entry,    \* the cached value with its age, or NoEntry
          at,       \* call -> "idle", "fetch" or "store"
          value,    \* call -> what the backend has answered it
          late,     \* calls in flight since before the last flush (history)
          flushed   \* value in the backend at the last flush (history)

vars == <<secret, entry, at, value, late, flushed>>

NoEntry == [value |-> 0, age |-> TTL + 1, late |-> FALSE]

Init ==
  /\ secret = 0 /\ entry = NoEntry /\ flushed = 0 /\ late = {}
  /\ at = [c \in Calls |-> "idle"] /\ value = [c \in Calls |-> 0]

\* lookup.
Hit == entry.age <= TTL

\* Resolve up to the backend; a hit answers at once.
Miss(c) ==
  /\ at[c] = "idle" /\ ~Hit
  /\ at' = [at EXCEPT ![c] = "fetch"]
  /\ UNCHANGED <<secret, entry, value, late, flushed>>

Fetch(c) ==
  /\ at[c] = "fetch"
  /\ at' = [at EXCEPT ![c] = "store"]
  /\ value' = [value EXCEPT ![c] = secret]
  /\ late' = late \ {c}
  /\ UNCHANGED <<secret, entry, flushed>>

\* "Failures are NOT cached."
FetchFails(c) ==
  /\ at[c] = "fetch"
  /\ at' = [at EXCEPT ![c] = "idle"]
  /\ UNCHANGED <<secret, entry, value, late, flushed>>

Store(c) ==
  /\ at[c] = "store"
  /\ entry' = [value |-> value[c], age |-> 0, late |-> c \in late]
  /\ at' = [at EXCEPT ![c] = "idle"]
  /\ UNCHANGED <<secret, value, late, flushed>>

Update ==
  /\ secret < MaxUpdates
  /\ secret' = secret + 1
  /\ UNCHANGED <<entry, at, value, late, flushed>>

\* Mutant: the sweep drops only what has expired.
FlushExpired ==
  /\ entry' = IF Hit THEN entry ELSE NoEntry
  /\ late' = {c \in Calls : at[c] = "store"}
  /\ flushed' = secret
  /\ UNCHANGED <<secret, at, value>>

\* Flush, and Invalidate of this reference.
Flush ==
  /\ entry' = NoEntry
  /\ late' = {c \in Calls : at[c] = "store"}
  /\ flushed' = secret
  /\ UNCHANGED <<secret, at, value>>

Tick ==
  /\ entry.age <= TTL
  /\ entry' = [entry EXCEPT !.age = @ + 1]
  /\ UNCHANGED <<secret, at, value, late, flushed>>

Next ==
  \/ Update \/ Flush \/ Tick
  \/ \E c \in Calls : Miss(c) \/ Fetch(c) \/ FetchFails(c) \/ Store(c)

Spec == Init /\ [][Next]_vars
-----------------------------------------------------------------------------
TypeOK ==
  /\ secret \in 0..MaxUpdates /\ flushed \in 0..MaxUpdates
  /\ entry \in [value : 0..MaxUpdates, age : 0..TTL + 1, late : BOOLEAN]
  /\ at \in [Calls -> {"idle", "fetch", "store"}]
  /\ value \in [Calls -> 0..MaxUpdates]
  /\ late \subseteq Calls

(* "the next data-plane compile picks up the new value": a value from       *)
(* before the last flush is answered only if a call was between the backend *)
(* and the store when the cache was flushed.                                *)
FreshAfterFlush == Hit /\ entry.value < flushed => entry.late
=============================================================================
