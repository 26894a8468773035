------------------------------ MODULE CounterSet ------------------------------
(***************************************************************************)
(* The replicated rate-limit counters (cluster/crdt/counter.go): every node *)
(* counts increments and decrements under its own name, snapshots travel by *)
(* gossip, and a merge takes the maximum of each entry.  Counters that have *)
(* not been used for a while are collected.                                 *)
(*                                                                          *)
(* One counter name: a CounterSet treats its names independently, and a     *)
(* name that is absent counts zero everywhere.  A snapshot once taken may   *)
(* arrive any number of times, in any order, or never.                      *)
(***************************************************************************)
EXTENDS Naturals

CONSTANTS Nodes,
          MaxUps,       \* bound: increments of one node
          MaxDowns,     \* bound: decrements of one node
          MaxGossip     \* bound: snapshots taken

VARIABLES P, N,       \* node -> its vectors of increments and decrements
          idle,       \* nodes on which the counter has gone unused for the TTL
          gossip,     \* snapshots on their way
          taken,      \* number of snapshots taken
          ups, downs, \* what each node has counted in truth (history)
          collected   \* nodes that have collected the counter once (history)

history == <<ups, downs, collected>>
vars == <<P, N, idle, gossip, taken, history>>

Empty == [m \in Nodes |-> 0]

Init ==
  /\ P = [n \in Nodes |-> Empty] /\ N = [n \in Nodes |-> Empty]
  /\ idle = {} /\ gossip = {} /\ taken = 0
  /\ ups = Empty /\ downs = Empty /\ collected = {}

Increment(n) ==
  /\ ups[n] < MaxUps
  /\ P' = [P EXCEPT ![n][n] = @ + 1]
  /\ ups' = [ups EXCEPT ![n] = @ + 1]
  /\ idle' = idle \ {n}
  /\ UNCHANGED <<N, gossip, taken, downs, collected>>

Decrement(n) ==
  /\ downs[n] < MaxDowns
  /\ N' = [N EXCEPT ![n][n] = @ + 1]
  /\ downs' = [downs EXCEPT ![n] = @ + 1]
  /\ idle' = idle \ {n}
  /\ UNCHANGED <<P, gossip, taken, ups, collected>>

\* Snapshot: a deep copy, from which the node's later counting is absent.
Snapshot(n) ==
  /\ taken < MaxGossip
  /\ gossip' = gossip \cup {[p |-> P[n], n |-> N[n]]}
  /\ taken' = taken + 1
  /\ UNCHANGED <<P, N, idle, history>>

Larger(i, j) == IF i > j THEN i ELSE j

\* Mutant: what arrives replaces what is there.
JoinReplacing(mine, theirs) == theirs

\* PNCounter.Merge of one vector.
Join(mine, theirs) == [m \in Nodes |-> Larger(mine[m], theirs[m])]

MergeRemote(n, snap) ==
  /\ P' = [P EXCEPT ![n] = Join(@, snap.p)]
  /\ N' = [N EXCEPT ![n] = Join(@, snap.n)]
  /\ idle' = idle \ {n}
  /\ UNCHANGED <<gossip, taken, history>>

\* The TTL passes without a use; Value and Snapshot are no uses.
Expire(n) ==
  /\ n \notin idle
  /\ idle' = idle \cup {n}
  /\ UNCHANGED <<P, N, gossip, taken, history>>

\* GC: the node forgets the counter, its own entry included.
Collect(n) ==
  /\ n \in idle
  /\ P' = [P EXCEPT ![n] = Empty] /\ N' = [N EXCEPT ![n] = Empty]
  /\ collected' = collected \cup {n}
  /\ UNCHANGED <<idle, gossip, taken, ups, downs>>

Next ==
  \E n \in Nodes :
    \/ Increment(n) \/ Decrement(n) \/ Snapshot(n) \/ Expire(n) \/ Collect(n)
    \/ \E snap \in gossip : MergeRemote(n, snap)

Spec == Init /\ [][Next]_vars
-----------------------------------------------------------------------------
Vector == [Nodes -> Nat]

TypeOK ==
  /\ P \in [Nodes -> Vector] /\ N \in [Nodes -> Vector]
  /\ gossip \subseteq [p : Vector, n : Vector]
  /\ idle \subseteq Nodes /\ collected \subseteq Nodes
  /\ taken \in Nat /\ ups \in Vector /\ downs \in Vector

(* "Merge = element-wise max": however often and in whatever order          *)
(* snapshots arrive, and whoever has collected the counter, no node ever    *)
(* believes that another has counted more than it has; and a node's own     *)
(* entry is exact as long as it has not collected the counter: no merge of  *)
(* an old snapshot of its own count takes anything back.  (After a          *)
(* collection it restarts at zero while its old count still travels, and    *)
(* increments disappear under the maximum.)                                 *)
CountsExact ==
  /\ \A n, m \in Nodes : P[n][m] <= ups[m] /\ N[n][m] <= downs[m]
  /\ \A n \in Nodes \ collected : P[n][n] = ups[n] /\ N[n][n] = downs[n]
=============================================================================
