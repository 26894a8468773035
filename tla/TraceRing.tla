------------------------------ MODULE TraceRing ------------------------------
(***************************************************************************)
(* The ring buffer of recent traces (tracestore/ringbuffer.go), the one     *)
(* ingester that pushes into it (tracestore/ingester.go) and the clients    *)
(* that follow it over Server-Sent Events (gateway/sse.go).                 *)
(*                                                                          *)
(* Push copies the subscribers under the mutex and sends to them after it   *)
(* has let go of it; unsubscribe deletes under the mutex and closes the     *)
(* channel after it.  A client that comes back names the last trace it has  *)
(* seen and is sent those the buffer still holds after it.                  *)
(***************************************************************************)
EXTENDS Naturals, Sequences, SequencesExt

CONSTANTS Capacity,    \* of the buffer, at least 1
          ChanCap,     \* of a subscriber's channel, at least 1
          Resuming,    \* clients that send Last-Event-ID when they come back
          Plain,       \* the others (the gRPC stream, a first visit)
          TraceId,     \* trace -> its trace_id, shared within a distributed trace
          MaxPushes,   \* bound: traces
          MaxConns     \* bound: connections of one client

VARIABLES buf, head, count,  \* the buffer: slots 0..Capacity-1, oldest slot, number stored
          pushed,            \* traces so far; a trace is its number, 0 is no trace
          todo,              \* channels the ingester has still to send the last trace to
          conn,              \* client -> connections so far; <<c, k>> is the channel of the k-th
          at,                \* client -> where its request is
          queue,             \* client -> content of its present channel
          closed,            \* closed channels
          crashed,           \* a send on a closed channel has ended the daemon
          got,               \* client -> traces it has received, over all connections
          base,              \* client -> the trace its connection resumed after, or 0 (history)
          missed,            \* client -> traces dropped by its full channel or by a write (history)
          gone               \* channel -> traces pushed when it left the map (history)

ring == <<buf, head, count, pushed>>
chans == <<conn, at, queue, closed>>
history == <<base, missed, gone>>
vars == <<ring, todo, chans, crashed, got, history>>

Clients == Resuming \cup Plain
Channels == Clients \X (1..MaxConns)
Mine(c) == <<c, conn[c]>>

Init ==
  /\ buf = [i \in 0..Capacity - 1 |-> 0] /\ head = 0 /\ count = 0 /\ pushed = 0
  /\ todo = {} /\ closed = {} /\ crashed = FALSE
  /\ conn = [c \in Clients |-> 0]
  /\ at = [c \in Clients |-> "off"]
  /\ queue = [c \in Clients |-> <<>>]
  /\ got = [c \in Clients |-> <<>>]
  /\ base = [c \in Clients |-> 0]
  /\ missed = [c \in Clients |-> {}]
  /\ gone = [ch \in Channels |-> MaxPushes]

-----------------------------------------------------------------------------
(* The ingester.                                                            *)

\* Mutant: an unsubscribed channel stays in the map until it is closed.
SubscribersUntilClosed == {ch \in Channels : ch[2] <= conn[ch[1]] /\ ch[2] > 0}

\* copySubscribers.
Subscribers == {Mine(c) : c \in {d \in Clients : at[d] \in {"subscribed", "live"}}}

\* Mutant: a full buffer goes on counting.
PushCounting ==
  /\ ~crashed /\ todo = {} /\ pushed < MaxPushes
  /\ buf' = [buf EXCEPT ![(head + count) % Capacity] = pushed + 1]
  /\ count' = count + 1
  /\ pushed' = pushed + 1
  /\ todo' = Subscribers
  /\ UNCHANGED <<head, chans, crashed, got, history>>

\* Push up to the unlock: the oldest trace is overwritten when the buffer is full.
Push ==
  /\ ~crashed /\ todo = {} /\ pushed < MaxPushes
  /\ buf' = [buf EXCEPT ![(head + count) % Capacity] = pushed + 1]
  /\ IF count = Capacity THEN head' = (head + 1) % Capacity /\ UNCHANGED count
                         ELSE count' = count + 1 /\ UNCHANGED head
  /\ pushed' = pushed + 1
  /\ todo' = Subscribers
  /\ UNCHANGED <<chans, crashed, got, history>>

\* fanOut: a full channel drops the trace.
Send(c) ==
  /\ ~crashed /\ Mine(c) \in todo \ closed
  /\ todo' = todo \ {Mine(c)}
  /\ IF Len(queue[c]) < ChanCap
     THEN queue' = [queue EXCEPT ![c] = Append(@, pushed)] /\ UNCHANGED missed
     ELSE missed' = [missed EXCEPT ![c] = @ \cup {pushed}] /\ UNCHANGED queue
  /\ UNCHANGED <<ring, conn, at, closed, crashed, got, base, gone>>

\* The channel was closed after it was copied: the send panics.
SendPanics ==
  /\ ~crashed /\ todo \cap closed # {}
  /\ crashed' = TRUE
  /\ UNCHANGED <<ring, todo, chans, got, history>>

-----------------------------------------------------------------------------
(* A client's request: subscribe, replay, follow, unsubscribe.              *)

Connect(c) ==
  /\ ~crashed /\ at[c] = "off" /\ conn[c] < MaxConns
  /\ conn' = [conn EXCEPT ![c] = @ + 1]
  /\ at' = [at EXCEPT ![c] = "subscribed"]
  /\ queue' = [queue EXCEPT ![c] = <<>>]
  /\ missed' = [missed EXCEPT ![c] = {}]
  /\ base' = [base EXCEPT ![c] = 0]
  /\ UNCHANGED <<ring, todo, closed, crashed, got, gone>>

\* Mutant: the walk starts at the first slot instead of the oldest one.
SnapshotFromSlotZero == [i \in 1..count |-> buf[i - 1]]

\* Snapshot of the whole buffer, oldest first.
Snapshot == [i \in 1..count |-> buf[(head + i - 1) % Capacity]]

\* Mutant: every returning client is taken to name a trace.
LastSeenByAll(c) == IF got[c] # <<>> THEN Last(got[c]) ELSE 0

\* The trace whose id a returning client sends, or 0.
LastSeen(c) == IF c \in Resuming /\ got[c] # <<>> THEN Last(got[c]) ELSE 0

\* Where in the snapshot that id is; a namesake of the trace will do.
Matches(c) ==
  {i \in 1..count : LastSeen(c) # 0 /\ TraceId[Snapshot[i]] = TraceId[LastSeen(c)]}
FirstMatch(c) == CHOOSE i \in Matches(c) : \A j \in Matches(c) : i <= j

\* What follows its first place; nothing when it has aged out.
Replay(c) == IF Matches(c) = {} THEN <<>> ELSE SubSeq(Snapshot, FirstMatch(c) + 1, count)

\* unsub, first half: the channel leaves the map.
Unsubscribe(c) ==
  /\ at' = [at EXCEPT ![c] = "left"]
  /\ gone' = [gone EXCEPT ![Mine(c)] = pushed]

\* The replay, to its end or up to a write that fails.
Resume(c) ==
  /\ ~crashed /\ at[c] = "subscribed"
  /\ \/ /\ got' = [got EXCEPT ![c] = @ \o Replay(c)]
        /\ at' = [at EXCEPT ![c] = "live"]
        /\ base' = [base EXCEPT ![c] = IF Matches(c) = {} THEN 0 ELSE Snapshot[FirstMatch(c)]]
        /\ UNCHANGED gone
     \/ \E n \in 0..(Len(Replay(c)) - 1) :
          /\ got' = [got EXCEPT ![c] = @ \o SubSeq(Replay(c), 1, n)]
          /\ Unsubscribe(c)
          /\ UNCHANGED base
  /\ UNCHANGED <<ring, todo, conn, queue, closed, crashed, missed>>

Follow(c) ==
  /\ ~crashed /\ at[c] = "live" /\ queue[c] # <<>>
  /\ got' = [got EXCEPT ![c] = Append(@, Head(queue[c]))]
  /\ queue' = [queue EXCEPT ![c] = Tail(@)]
  /\ UNCHANGED <<ring, todo, conn, at, closed, crashed, history>>

\* A live write that fails is logged, and the loop goes on with the next trace.
FollowFails(c) ==
  /\ ~crashed /\ at[c] = "live" /\ queue[c] # <<>>
  /\ missed' = [missed EXCEPT ![c] = @ \cup {Head(queue[c])}]
  /\ queue' = [queue EXCEPT ![c] = Tail(@)]
  /\ UNCHANGED <<ring, todo, conn, at, closed, crashed, got, base, gone>>

\* The request's context ends; what is still in the channel is lost.
Leave(c) ==
  /\ ~crashed /\ at[c] = "live"
  /\ Unsubscribe(c)
  /\ UNCHANGED <<ring, todo, conn, queue, closed, crashed, got, base, missed>>

\* unsub, second half: the channel is closed.
Close(c) ==
  /\ ~crashed /\ at[c] = "left"
  /\ at' = [at EXCEPT ![c] = "off"]
  /\ closed' = closed \cup {Mine(c)}
  /\ UNCHANGED <<ring, todo, conn, queue, crashed, got, history>>

Next ==
  \/ Push \/ SendPanics
  \/ \E c \in Clients : \/ Send(c) \/ Connect(c) \/ Resume(c)
                        \/ Follow(c) \/ FollowFails(c) \/ Leave(c) \/ Close(c)

Spec == Init /\ [][Next]_vars
-----------------------------------------------------------------------------
Trace == 1..MaxPushes

TypeOK ==
  /\ buf \in [0..Capacity - 1 -> {0} \cup Trace]
  /\ head \in 0..Capacity - 1 /\ count \in 0..Capacity /\ pushed \in 0..MaxPushes
  /\ todo \subseteq Channels /\ closed \subseteq Channels /\ crashed \in BOOLEAN
  /\ conn \in [Clients -> 0..MaxConns]
  /\ at \in [Clients -> {"off", "subscribed", "live", "left"}]
  /\ queue \in [Clients -> Seq(Trace)] /\ got \in [Clients -> Seq(Trace)]
  /\ base \in [Clients -> {0} \cup Trace]
  /\ missed \in [Clients -> SUBSET Trace]
  /\ gone \in [Channels -> 0..MaxPushes]

(* "Subscribe BEFORE reading the snapshot so we don't miss events that      *)
(* arrive between snapshot+resume" (sse.go): a client that named an id the  *)
(* buffer still held gets every trace after the first one of that id, by    *)
(* replay or by its channel, but those that found its channel full or whose *)
(* write failed.                                                            *)
ResumeHasNoGap ==
  \A c \in Resuming :
    at[c] = "live" /\ base[c] # 0 =>
      \A i \in (base[c] + 1)..pushed :
        \/ Contains(got[c], i) \/ Contains(queue[c], i) \/ i \in missed[c]
        \/ i = pushed /\ Mine(c) \in todo

(* A client that does not ask for a replay sees the feed in order and       *)
(* nothing twice, over reconnections too.  (A replayed trace may come a     *)
(* second time out of the channel: it was pushed after the subscription.)   *)
Feed(c) == INSTANCE LossyStream WITH sent <- pushed, got <- got[c]
InOrderOnce ==
  /\ \A c \in Plain : Feed(c)!Init
  /\ [][\A c \in Plain : [Feed(c)!Next]_<<pushed, got[c]>>]_vars

(* The daemon panics only in the window between the copy of the subscribers *)
(* and the sends: an unsubscription is safe for every later push.           *)
PanicOnlyInWindow == crashed => \E ch \in closed \cap todo : pushed <= gone[ch]
=============================================================================
