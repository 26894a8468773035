------------------------------ MODULE SseClient ------------------------------
(***************************************************************************)
(* The web admin's event client (web/src/api/sse-client.ts), one topic: all *)
(* subscribers share one EventSource, which is opened again after an error, *)
(* from the last event the client has seen.                                 *)
(*                                                                          *)
(* The code is single-threaded: a step is a call or a callback.  The backoff *)
(* decides only how long a reconnection waits and is left out.              *)
(*                                                                          *)
(* The server is the one that the client is written for: it serves topics,  *)
(* sends plain messages, and resumes at or after the event named in the     *)
(* query.  It is not in the repository: gateway/sse.go serves other paths,  *)
(* sends named events, which a message listener does not hear, and reads a  *)
(* header.                                                                  *)
(***************************************************************************)
EXTENDS Naturals, Sequences, SequencesExt

CONSTANTS Handlers,
          MaxEvents,    \* bound: events published
          MaxConns      \* bound: connections opened by subscriptions

VARIABLES published,    \* events of the topic so far; an event is its number
          conns,        \* the connections ever made (TopicConnection)
          entry,        \* the topic's connection in the map, or 0
          unsubs,       \* unsubscribe functions handed out: <<handler, connection>>
          heard,        \* handler -> events it was called with
          misused,      \* an unsubscribe has dropped a connection not its own (history)
          unnamed       \* an event came without an id (history)

vars == <<published, conns, entry, unsubs, heard, misused, unnamed>>

\* listeners, lastEventId (0 if none), closed; `es`: what its EventSource is
\* doing, "waiting" being none but a timer; `at`: the last event sent on it.
NewConnection(h) ==
  [listeners |-> {h}, last |-> 0, closed |-> FALSE, es |-> "connecting", at |-> 0]

Init ==
  /\ published = 0 /\ conns = <<>> /\ entry = 0 /\ unsubs = {}
  /\ heard = [h \in Handlers |-> <<>>]
  /\ misused = FALSE /\ unnamed = FALSE

\* Mutant: every subscription opens a connection.
SubscribeAlone(h) ==
  /\ Len(conns) < MaxConns
  /\ conns' = Append(conns, NewConnection(h))
  /\ entry' = Len(conns')
  /\ unsubs' = unsubs \cup {<<h, entry'>>}
  /\ UNCHANGED <<published, heard, misused, unnamed>>

\* subscribeSSE.
Subscribe(h) ==
  /\ IF entry = 0
     THEN /\ Len(conns) < MaxConns
          /\ conns' = Append(conns, NewConnection(h))
          /\ entry' = Len(conns')
     ELSE /\ conns' = [conns EXCEPT ![entry].listeners = @ \cup {h}]
          /\ UNCHANGED entry
  /\ unsubs' = unsubs \cup {<<h, entry'>>}
  /\ UNCHANGED <<published, heard, misused, unnamed>>

\* The function subscribeSSE returned; nothing stops a second call of it.
Unsubscribe(h, k) ==
  LET left == conns[k].listeners \ {h} IN
  /\ <<h, k>> \in unsubs
  /\ IF left = {}
     THEN /\ conns' = [conns EXCEPT ![k].listeners = left, ![k].closed = TRUE, ![k].es = "closed"]
          /\ entry' = 0
          /\ misused' = (misused \/ entry \notin {0, k})
     ELSE /\ conns' = [conns EXCEPT ![k].listeners = left]
          /\ UNCHANGED <<entry, misused>>
  /\ UNCHANGED <<published, unsubs, heard, unnamed>>

\* Mutant: the next event is asked for instead of the last one named.
RememberNext(last, id) == id + 1

\* An event without an id (0) leaves the last one.
Remember(last, id) == IF id # 0 THEN id ELSE last

\* The message handler; the server may skip events (tracestore drops them).  The
\* first event without an id is one too many for the property: the bound.
Message(k) ==
  /\ conns[k].es = "open"
  /\ \E event \in (conns[k].at + 1)..published : \E id \in {event, 0} :
       /\ id = 0 => ~unnamed
       /\ conns' = [conns EXCEPT ![k].at = event, ![k].last = Remember(@, id)]
       /\ heard' = [h \in Handlers |->
                      IF h \in conns[k].listeners THEN Append(heard[h], event) ELSE heard[h]]
       /\ unnamed' = (unnamed \/ id = 0)
  /\ UNCHANGED <<published, entry, unsubs, misused>>

\* The error handler; a closed EventSource reports none.
Fail(k) ==
  /\ conns[k].es \in {"connecting", "open"}
  /\ conns' = [conns EXCEPT ![k].es = "waiting"]
  /\ UNCHANGED <<published, entry, unsubs, heard, misused, unnamed>>

\* The timer; that of a connection closed meanwhile does nothing.
Reopen(k) ==
  /\ conns[k].es = "waiting" /\ ~conns[k].closed
  /\ conns' = [conns EXCEPT ![k].es = "connecting"]
  /\ UNCHANGED <<published, entry, unsubs, heard, misused, unnamed>>

-----------------------------------------------------------------------------
(* The server, which is outside.                                            *)

Publish ==
  /\ published < MaxEvents
  /\ published' = published + 1
  /\ UNCHANGED <<conns, entry, unsubs, heard, misused, unnamed>>

\* Without a last event the server starts with the next one to be published.
Accept(k) ==
  /\ conns[k].es = "connecting"
  /\ \E at \in (IF conns[k].last = 0 THEN published ELSE conns[k].last)..published :
       conns' = [conns EXCEPT ![k].es = "open", ![k].at = at]
  /\ UNCHANGED <<published, entry, unsubs, heard, misused, unnamed>>

Next ==
  \/ Publish
  \/ \E h \in Handlers : Subscribe(h) \/ \E k \in DOMAIN conns : Unsubscribe(h, k)
  \/ \E k \in DOMAIN conns : Message(k) \/ Fail(k) \/ Reopen(k) \/ Accept(k)

Spec == Init /\ [][Next]_vars
-----------------------------------------------------------------------------
TypeOK ==
  /\ published \in 0..MaxEvents
  /\ \A k \in DOMAIN conns :
       /\ conns[k].listeners \subseteq Handlers
       /\ conns[k].closed \in BOOLEAN
       /\ conns[k].es \in {"connecting", "open", "waiting", "closed"}
       /\ conns[k].last <= published /\ conns[k].at <= published
  /\ entry \in 0..Len(conns) /\ Len(conns) <= MaxConns
  /\ unsubs \subseteq Handlers \X DOMAIN conns
  /\ misused \in BOOLEAN /\ unnamed \in BOOLEAN

(* "One EventSource per topic - multiple subscribers share the connection", *)
(* and "auto-reconnect on error, replaying": as long as no unsubscribe is   *)
(* called again when it no longer owns the topic's connection, and every    *)
(* event has its id, one connection at most is alive, and every handler     *)
(* hears the feed in order and nothing twice, over reconnections and        *)
(* repeated subscriptions too.                                              *)
Feed(h) == INSTANCE LossyStream WITH sent <- published, got <- heard[h]
OneFeedPerTopic ==
  [][~misused' /\ ~unnamed' =>
       /\ \A j, k \in DOMAIN conns' : ~conns'[j].closed /\ ~conns'[k].closed => j = k
       /\ \A h \in Handlers : [Feed(h)!Next]_<<published, heard[h]>>]_vars
=============================================================================
