--------------------------- MODULE MCDaemonServices ---------------------------
(***************************************************************************)
(* The six components checked together: the first step decides which of     *)
(* them runs, and the others stay where they start.  The states are the sum *)
(* of theirs, not the product.                                              *)
(***************************************************************************)
EXTENDS DaemonServices

VARIABLES which

\* The first trace and the third belong to one distributed trace.
MCTraceId == <<1, 2, 1>>

ringVars == <<buf, head, count, pushed, todo, conn, reader, queue, closed, crashed, got, base, missed, gone>>
sumsVars == <<now, socket, ring, due, since, cycle, raw, stats, tallies, logged, restarts, excused>>
vaultVars == <<secret, entry, resolve, value, late, flushed>>
counterVars == <<P, N, idle, gossip, taken, ups, downs, collected>>
syncVars == <<version, begun, notify, inbox, at, built, caddy, running, reasons>>
allVars == <<which, ringVars, sumsVars, vars, vaultVars, counterVars, syncVars>>

MCInit ==
  /\ which \in {"ring", "sums", "session", "vault", "counter", "sync"}
  /\ Ring!Init /\ Sums!Init /\ Init /\ Vault!Init /\ Counter!Init /\ Sync!Init
  /\ which # "sync" => running /\ reasons = {}

MCNext ==
  \/ /\ which = "ring" /\ Ring!Next
     /\ UNCHANGED <<which, sumsVars, vars, vaultVars, counterVars, syncVars>>
  \/ /\ which = "sums" /\ Sums!Next
     /\ UNCHANGED <<which, ringVars, vars, vaultVars, counterVars, syncVars>>
  \/ /\ which = "session" /\ Next
     /\ UNCHANGED <<which, ringVars, sumsVars, vaultVars, counterVars, syncVars>>
  \/ /\ which = "vault" /\ Vault!Next
     /\ UNCHANGED <<which, ringVars, sumsVars, vars, counterVars, syncVars>>
  \/ /\ which = "counter" /\ Counter!Next
     /\ UNCHANGED <<which, ringVars, sumsVars, vars, vaultVars, syncVars>>
  \/ /\ which = "sync" /\ Sync!Next
     /\ UNCHANGED <<which, ringVars, sumsVars, vars, vaultVars, counterVars>>

MCSpec == MCInit /\ [][MCNext]_allVars

MCFairSpec == MCSpec /\ Sync!Fairness
=============================================================================
