----------------------------- MODULE TraceStoreProofs -----------------------------
(***************************************************************************)
(* Proofs about the trace store: the ring buffer with its subscribers, and  *)
(* the aggregator, for any capacities, clients, classes and intervals.      *)
(*                                                                          *)
(* The ring keeps what was pushed last, and whoever follows it has been     *)
(* sent what was pushed since, except what was dropped.  The aggregator     *)
(* accounts for every trace at every step of its cycle.                     *)
(***************************************************************************)
EXTENDS DaemonServices, FiniteSetTheorems, WellFoundedInduction, TLAPS
-----------------------------------------------------------------------------
(* The ring buffer and its clients.                                         *)

\* The buffer holds the latest traces, oldest first.
HoldsLatest ==
  /\ count <= pushed
  /\ \A i \in 1..count : Ring!Snapshot[i] = pushed - count + i

\* A channel that the ingester has still to send to was in the map when it
\* copied it, and none leaves the map twice.
InMapWhenCopied ==
  /\ \A ch \in todo : 0 < pushed /\ pushed <= gone[ch] /\ ch[2] <= conn[ch[1]]
  /\ \A ch \in Ring!Channels : ch[2] > conn[ch[1]] => gone[ch] = MaxPushes
  /\ \A c \in Ring!Clients :
       /\ reader[c] # "off" => conn[c] > 0
       /\ reader[c] \in {"subscribed", "live"} => gone[Ring!Mine(c)] = MaxPushes

\* The traces of a sequence that came before the one the ingester is sending.
Sent(c, s) == \A i \in DOMAIN s : s[i] <= pushed /\ (Ring!Mine(c) \in todo => s[i] < pushed)

\* What a client without a replay has received and has still to receive.
FedInOrder ==
  \A c \in Plain :
    /\ Sent(c, got[c]) /\ Sent(c, queue[c])
    /\ \A i, j \in DOMAIN queue[c] : i < j => queue[c][i] < queue[c][j]
    /\ \A i \in DOMAIN got[c], j \in DOMAIN queue[c] : got[c][i] < queue[c][j]

RingInv == /\ Ring!TypeOK /\ HoldsLatest /\ InMapWhenCopied /\ FedInOrder
           /\ Ring!ResumeHasNoGap /\ Ring!PanicOnlyInWindow


\* A set of numbers that is not empty has a least one.
LEMMA Least ==
  ASSUME NEW T, T \subseteq Nat, T # {}
  PROVE  \E x \in T : \A y \in T : x <= y
<1>. DEFINE R == OpToRel(<, Nat)
<1>1. IsWellFoundedOn(R, Nat)
  BY NatLessThanWellFounded
<1>2. \A r : r \in R <=> r \in Nat \X Nat /\ r[1] < r[2]
  BY DEF OpToRel
<1>. HIDE DEF R
<1>3. PICK x \in T : \A y \in T : <<y, x>> \notin R
  BY <1>1, WFMin
<1>4. ASSUME NEW y \in T PROVE x <= y
  <2>1. ~(y < x)
    BY <1>2, <1>3
  <2>. QED
    BY <2>1
<1>. QED
  BY <1>4

\* Slots are counted around the buffer at most once.
LEMMA WrapAround ==
  ASSUME NEW n \in Nat \ {0}, NEW x \in 0..2 * n - 1
  PROVE  x % n = IF x < n THEN x ELSE x - n
OBVIOUS

LEMMA SlotFacts ==
  ASSUME NEW n \in Nat \ {0}, NEW h \in 0..n - 1
  PROVE  /\ \A i \in 1..n + 1 :
              (h + i - 1) % n = IF h + i - 1 < n THEN h + i - 1 ELSE h + i - 1 - n
         /\ (h + 1) % n = IF h + 1 < n THEN h + 1 ELSE 0
<1>1. ASSUME NEW x \in 0..2 * n - 1 PROVE x % n = IF x < n THEN x ELSE x - n
  BY WrapAround
<1>2. \A i \in 1..n + 1 : h + i - 1 \in 0..2 * n - 1
  OBVIOUS
<1>3. h + 1 \in 0..2 * n - 1
  OBVIOUS
<1>4. (h + 1) % n = IF h + 1 < n THEN h + 1 ELSE 0
  <2>1. (h + 1) % n = IF h + 1 < n THEN h + 1 ELSE (h + 1) - n
    BY <1>1, <1>3, Zenon
  <2>. QED
    BY <2>1
<1>5. ASSUME NEW i \in 1..n + 1
      PROVE  (h + i - 1) % n = IF h + i - 1 < n THEN h + i - 1 ELSE h + i - 1 - n
  <2>. DEFINE x == h + i - 1
  <2>1. x \in 0..2 * n - 1
    BY <1>2
  <2>2. x % n = IF x < n THEN x ELSE x - n
    <3>. HIDE DEF x
    <3>. QED
      BY <2>1, <1>1
  <2>. QED
    BY <2>2
<1>. QED
  BY <1>4, <1>5

LEMMA MineFacts ==
  ASSUME Ring!TypeOK, NEW c \in Ring!Clients, NEW d \in Ring!Clients
  PROVE  /\ Ring!Mine(c)[1] = c /\ Ring!Mine(c)[2] = conn[c]
         /\ conn[c] > 0 => Ring!Mine(c) \in Ring!Channels
         /\ Ring!Mine(c) = Ring!Mine(d) => c = d
BY RingAssumption DEF Ring!TypeOK, Ring!Mine, Ring!Channels

LEMMA RingStart == Ring!Init => RingInv
<1>. SUFFICES ASSUME Ring!Init PROVE RingInv
  OBVIOUS
<1>. USE RingAssumption DEF Ring!Init
<1>1. Ring!TypeOK
  <2>1. queue \in [Ring!Clients -> Seq(Ring!Trace)] /\ got \in [Ring!Clients -> Seq(Ring!Trace)]
    OBVIOUS
  <2>2. buf \in [0..Capacity - 1 -> {0} \cup Ring!Trace] /\ gone \in [Ring!Channels -> 0..MaxPushes]
    OBVIOUS
  <2>3. head \in 0..Capacity - 1 /\ count \in 0..Capacity /\ pushed \in 0..MaxPushes
    OBVIOUS
  <2>4. conn \in [Ring!Clients -> 0..MaxConns] /\ base \in [Ring!Clients -> {0} \cup Ring!Trace]
    OBVIOUS
  <2>5. missed \in [Ring!Clients -> SUBSET Ring!Trace]
    OBVIOUS
  <2>. QED
    BY <2>1, <2>2, <2>3, <2>4, <2>5 DEF Ring!TypeOK
<1>2. HoldsLatest
  BY DEF HoldsLatest
<1>3. InMapWhenCopied
  BY DEF InMapWhenCopied, Ring!Channels
<1>4. FedInOrder
  BY DEF FedInOrder, Sent, Ring!Clients
<1>5. Ring!ResumeHasNoGap /\ Ring!PanicOnlyInWindow
  BY DEF Ring!ResumeHasNoGap, Ring!PanicOnlyInWindow, Ring!Clients
<1>. QED
  BY <1>1, <1>2, <1>3, <1>4, <1>5 DEF RingInv

\* Behind the latest of k traces is a free slot, or that of the oldest one; and
\* when the walk starts one slot later, every trace is found one step earlier.
LEMMA BufferShifts ==
  ASSUME NEW n \in Nat \ {0}, NEW h \in 0..n - 1, NEW k \in 0..n
  PROVE  /\ (h + k) % n \in 0..n - 1 /\ (h + 1) % n \in 0..n - 1
         /\ \A i \in 1..n : (h + i - 1) % n \in 0..n - 1
         /\ k < n => \A i \in 1..k : (h + i - 1) % n # (h + k) % n
         /\ k = n => /\ (((h + 1) % n) + n - 1) % n = (h + k) % n
                     /\ \A i \in 1..n - 1 :
                          /\ (((h + 1) % n) + i - 1) % n = (h + (i + 1) - 1) % n
                          /\ (h + (i + 1) - 1) % n # (h + k) % n
<1>1. \A i \in 1..n + 1 :
        (h + i - 1) % n = IF h + i - 1 < n THEN h + i - 1 ELSE h + i - 1 - n
  BY SlotFacts
<1>2. (h + k) % n = IF h + k < n THEN h + k ELSE h + k - n
  <2>1. k + 1 \in 1..n + 1 /\ h + (k + 1) - 1 = h + k
    OBVIOUS
  <2>. QED
    BY <2>1, <1>1
<1>3. (h + 1) % n = IF h + 1 < n THEN h + 1 ELSE 0
  BY SlotFacts
<1>. DEFINE g == (h + 1) % n
<1>4. g \in 0..n - 1
  BY <1>3
<1>5. \A i \in 1..n : (g + i - 1) % n = IF g + i - 1 < n THEN g + i - 1 ELSE g + i - 1 - n
  <2>. HIDE DEF g
  <2>. QED
    BY <1>4, SlotFacts
<1>6. \A i \in 1..n : (h + i - 1) % n \in 0..n - 1
  BY <1>1
<1>7. ASSUME k < n, NEW i \in 1..k PROVE (h + i - 1) % n # (h + k) % n
  BY <1>1, <1>2, <1>7
<1>8. ASSUME k = n PROVE (g + n - 1) % n = (h + k) % n
  <2>1. (g + n - 1) % n = IF g + n - 1 < n THEN g + n - 1 ELSE g + n - 1 - n
    BY <1>5
  <2>2. g = IF h + 1 < n THEN h + 1 ELSE 0
    BY <1>3
  <2>. HIDE DEF g
  <2>. QED
    BY <2>1, <2>2, <1>2, <1>8
<1>9. ASSUME k = n, NEW i \in 1..n - 1
      PROVE  (g + i - 1) % n = (h + (i + 1) - 1) % n /\ (h + (i + 1) - 1) % n # (h + k) % n
  <2>1. (g + i - 1) % n = IF g + i - 1 < n THEN g + i - 1 ELSE g + i - 1 - n
    BY <1>5
  <2>2. g = IF h + 1 < n THEN h + 1 ELSE 0
    BY <1>3
  <2>3. i + 1 \in 1..n + 1
    OBVIOUS
  <2>4. (h + (i + 1) - 1) % n = IF h + (i + 1) - 1 < n THEN h + (i + 1) - 1 ELSE h + (i + 1) - 1 - n
    BY <1>1, <2>3
  <2>. HIDE DEF g
  <2>. QED
    BY <2>1, <2>2, <2>4, <1>2, <1>9
<1>. QED
  BY <1>2, <1>4, <1>6, <1>7, <1>8, <1>9

LEMMA SnapshotShifts ==
  ASSUME RingInv, Ring!Push
  PROVE  /\ HoldsLatest'
         /\ head' \in 0..Capacity - 1 /\ count' \in 0..Capacity
         /\ (head + count) % Capacity \in 0..Capacity - 1
<1>0. /\ Capacity \in Nat \ {0} /\ head \in 0..Capacity - 1 /\ count \in 0..Capacity
      /\ DOMAIN buf = 0..Capacity - 1 /\ pushed \in Nat /\ count <= pushed
  BY RingAssumption DEF RingInv, Ring!TypeOK, HoldsLatest
<1>. DEFINE slot(i) == (head + i - 1) % Capacity
            next(i) == (((head + 1) % Capacity) + i - 1) % Capacity
            free == (head + count) % Capacity
<1>1. \A i \in 1..count : buf[slot(i)] = pushed - count + i
  BY DEF RingInv, HoldsLatest, Ring!Snapshot
<1>2. buf' = [buf EXCEPT ![free] = pushed + 1] /\ pushed' = pushed + 1
  BY DEF Ring!Push
<1>3. /\ free \in 0..Capacity - 1 /\ (head + 1) % Capacity \in 0..Capacity - 1
      /\ \A i \in 1..Capacity : slot(i) \in 0..Capacity - 1
      /\ count < Capacity => \A i \in 1..count : slot(i) # free
      /\ count = Capacity => /\ next(Capacity) = free
                             /\ \A i \in 1..Capacity - 1 :
                                  next(i) = slot(i + 1) /\ slot(i + 1) # free
  BY <1>0, BufferShifts
<1>4. CASE count < Capacity
  <2>1. head' = head /\ count' = count + 1
    BY <1>4, <1>0 DEF Ring!Push
  <2>2. \A i \in 1..count : buf'[slot(i)] = pushed - count + i
    <3>. HIDE DEF slot, free
    <3>. QED
      BY <1>0, <1>1, <1>2, <1>3, <1>4
  <2>3. buf'[slot(count + 1)] = pushed + 1
    <3>1. slot(count + 1) = free
      BY <1>0
    <3>. QED
      BY <3>1, <1>0, <1>2, <1>3
  <2>4. \A i \in 1..count + 1 : buf'[slot(i)] = pushed - count + i
    <3>. HIDE DEF slot, free
    <3>. QED
      BY <2>2, <2>3, <1>0
  <2>5. \A i \in 1..count' : Ring!Snapshot'[i] = pushed' - count' + i
    BY <2>1, <2>4, <1>0, <1>2 DEF Ring!Snapshot
  <2>. QED
    BY <2>1, <2>5, <1>0, <1>2, <1>3, <1>4 DEF HoldsLatest
<1>5. CASE count = Capacity
  <2>1. head' = (head + 1) % Capacity /\ count' = count
    BY <1>5, <1>0 DEF Ring!Push
  <2>2. ASSUME NEW i \in 1..Capacity PROVE buf'[next(i)] = pushed - count + i + 1
    <3>. HIDE DEF slot, next, free
    <3>1. CASE i = Capacity
      BY <3>1, <1>0, <1>2, <1>3, <1>5
    <3>2. CASE i # Capacity
      <4>1. i \in 1..Capacity - 1 /\ i + 1 \in 1..count
        BY <3>2, <1>0, <1>5
      <4>. QED
        BY <4>1, <1>0, <1>1, <1>2, <1>3, <1>5
    <3>. QED
      BY <3>1, <3>2
  <2>3. \A i \in 1..count' : Ring!Snapshot'[i] = pushed' - count' + i
    <3>1. \A i \in 1..count' : Ring!Snapshot'[i] = buf'[next(i)]
      BY <2>1 DEF Ring!Snapshot
    <3>. HIDE DEF next
    <3>. QED
      BY <3>1, <2>1, <2>2, <1>0, <1>2, <1>5
  <2>. QED
    BY <2>1, <2>3, <1>0, <1>2, <1>3 DEF HoldsLatest
<1>. QED
  BY <1>0, <1>4, <1>5

LEMMA PushKeeps ==
  ASSUME RingInv, Ring!Push
  PROVE  RingInv'
<1>. USE RingAssumption DEF RingInv, Ring!Push, Ring!chans, Ring!history
<1>1. Ring!TypeOK'
  <2>1. (head + count) % Capacity \in 0..Capacity - 1
        /\ head' \in 0..Capacity - 1 /\ count' \in 0..Capacity
    BY SnapshotShifts
  <2>2. Ring!Subscribers \subseteq Ring!Channels
    BY MineFacts DEF Ring!Subscribers, InMapWhenCopied
  <2>3. buf' \in [0..Capacity - 1 -> {0} \cup Ring!Trace]
    BY <2>1 DEF Ring!TypeOK, Ring!Trace
  <2>. QED
    BY <2>1, <2>2, <2>3 DEF Ring!TypeOK
<1>2. HoldsLatest'
  BY SnapshotShifts
<1>3. InMapWhenCopied'
  <2>1. \A ch \in Ring!Subscribers : gone[ch] = MaxPushes /\ ch[2] <= conn[ch[1]]
    BY MineFacts DEF Ring!Subscribers, InMapWhenCopied, Ring!TypeOK
  <2>. QED
    BY <2>1 DEF InMapWhenCopied, Ring!TypeOK, Ring!Mine
<1>4. FedInOrder'
  BY DEF FedInOrder, Sent, Ring!TypeOK, Ring!Trace, Ring!Clients
<1>5. Ring!ResumeHasNoGap'
  <2>. SUFFICES ASSUME NEW c \in Resuming, reader[c] = "live", base[c] # 0,
                       NEW i \in (base[c] + 1)..(pushed + 1)
                PROVE  \/ Ring!Contains(got[c], i) \/ Ring!Contains(queue[c], i) \/ i \in missed[c]
                       \/ i = pushed + 1 /\ Ring!Mine(c) \in todo'
    BY DEF Ring!ResumeHasNoGap, Ring!Mine
  <2>1. base[c] \in Nat /\ pushed \in Nat
    BY DEF Ring!TypeOK, Ring!Clients, Ring!Trace
  <2>2. CASE i = pushed + 1
    BY <2>2 DEF Ring!Subscribers, Ring!Clients
  <2>3. CASE i # pushed + 1
    <3>1. i \in (base[c] + 1)..pushed
      BY <2>1, <2>3
    <3>. QED
      BY <3>1 DEF Ring!ResumeHasNoGap
  <2>. QED
    BY <2>2, <2>3
<1>6. Ring!PanicOnlyInWindow'
  BY DEF Ring!PanicOnlyInWindow
<1>. QED
  BY <1>1, <1>2, <1>3, <1>4, <1>5, <1>6

LEMMA SendKeeps ==
  ASSUME RingInv, NEW c \in Ring!Clients, Ring!Send(c)
  PROVE  RingInv'
<1>. USE RingAssumption DEF RingInv
<1>0. /\ Ring!Mine(c) \in todo /\ todo' = todo \ {Ring!Mine(c)}
      /\ \A d \in Ring!Clients : Ring!Mine(d)' = Ring!Mine(d)
      /\ \A d \in Ring!Clients \ {c} : Ring!Mine(d) # Ring!Mine(c)
      /\ UNCHANGED <<buf, head, count, pushed, conn, reader, closed, crashed, got, base, gone>>
      /\ ~crashed
  BY MineFacts DEF Ring!Mine, Ring!Send, Ring!ring
<1>1. /\ pushed \in Ring!Trace /\ pushed \in Nat
      /\ queue[c] \in Seq(Ring!Trace)
  <2>1. 0 < pushed /\ pushed <= gone[Ring!Mine(c)] /\ Ring!Mine(c) \in Ring!Channels
    BY <1>0 DEF InMapWhenCopied, Ring!TypeOK
  <2>. QED
    BY <2>1 DEF Ring!TypeOK, Ring!Trace
<1>2. \/ queue' = [queue EXCEPT ![c] = Append(queue[c], pushed)] /\ missed' = missed
      \/ missed' = [missed EXCEPT ![c] = missed[c] \cup {pushed}] /\ queue' = queue
  BY DEF Ring!Send
<1>3. Ring!TypeOK'
  <2>1. queue' \in [Ring!Clients -> Seq(Ring!Trace)] /\ missed' \in [Ring!Clients -> SUBSET Ring!Trace]
    <3>1. CASE queue' = [queue EXCEPT ![c] = Append(queue[c], pushed)] /\ missed' = missed
      BY <3>1, <1>1 DEF Ring!TypeOK
    <3>2. CASE missed' = [missed EXCEPT ![c] = missed[c] \cup {pushed}] /\ queue' = queue
      BY <3>2, <1>1 DEF Ring!TypeOK
    <3>. QED
      BY <1>2, <3>1, <3>2
  <2>. QED
    BY <1>0, <2>1 DEF Ring!TypeOK
<1>4. HoldsLatest'
  BY <1>0 DEF HoldsLatest, Ring!Snapshot
<1>5. InMapWhenCopied'
  BY <1>0 DEF InMapWhenCopied
<1>6. FedInOrder'
  <2>. SUFFICES ASSUME NEW d \in Plain
                PROVE  /\ Sent(d, got[d])' /\ Sent(d, queue[d])'
                       /\ \A i, j \in DOMAIN queue'[d] : i < j => queue'[d][i] < queue'[d][j]
                       /\ \A i \in DOMAIN got[d], j \in DOMAIN queue'[d] : got[d][i] < queue'[d][j]
    BY <1>0 DEF FedInOrder
  <2>1. CASE queue'[d] = queue[d]
    BY <2>1, <1>0 DEF FedInOrder, Sent, Ring!Clients
  <2>2. CASE d = c /\ queue'[c] = Append(queue[c], pushed)
    <3>. DEFINE q == Append(queue[c], pushed)
    <3>1. /\ DOMAIN q = 1..Len(queue[c]) + 1 /\ DOMAIN queue[c] = 1..Len(queue[c])
          /\ \A i \in DOMAIN queue[c] : q[i] = queue[c][i] /\ i < Len(queue[c]) + 1
          /\ q[Len(queue[c]) + 1] = pushed /\ Len(queue[c]) \in Nat
      BY <1>1
    <3>2. /\ \A i \in DOMAIN queue[c] : queue[c][i] < pushed
          /\ \A i \in DOMAIN got[c] : got[c][i] < pushed
      BY <1>0, <2>2 DEF FedInOrder, Sent
    <3>3. Sent(c, got[c])' /\ Sent(c, queue[c])'
      <4>1. Ring!Mine(c)' \notin todo'
        BY <1>0
      <4>2. \A i \in DOMAIN q : q[i] <= pushed
        <5>1. \A i \in DOMAIN queue[c] : queue[c][i] \in Nat
          BY <1>1 DEF Ring!Trace
        <5>. HIDE DEF q
        <5>. QED
          BY <5>1, <3>1, <3>2, <1>1
      <4>3. \A i \in DOMAIN got[c] : got[c][i] <= pushed
        BY <2>2 DEF FedInOrder, Sent
      <4>. QED
        BY <4>1, <4>2, <4>3, <2>2, <1>0 DEF Sent
    <3>4. \A i, j \in DOMAIN q : i < j => q[i] < q[j]
      <4>1. \A i, j \in DOMAIN queue[c] : i < j => queue[c][i] < queue[c][j]
        BY <2>2 DEF FedInOrder
      <4>. HIDE DEF q
      <4>. QED
        BY <3>1, <3>2, <4>1
    <3>5. \A i \in DOMAIN got[c], j \in DOMAIN q : got[c][i] < q[j]
      <4>1. \A i \in DOMAIN got[c], j \in DOMAIN queue[c] : got[c][i] < queue[c][j]
        BY <2>2 DEF FedInOrder
      <4>. HIDE DEF q
      <4>. QED
        BY <3>1, <3>2, <4>1
    <3>. QED
      BY <2>2, <3>3, <3>4, <3>5
  <2>. QED
    BY <1>2, <2>1, <2>2 DEF Ring!Clients, Ring!TypeOK
<1>7. Ring!ResumeHasNoGap'
  <2>. SUFFICES ASSUME NEW d \in Resuming, reader[d] = "live", base[d] # 0,
                       NEW i \in (base[d] + 1)..pushed
                PROVE  \/ Ring!Contains(got[d], i) \/ Ring!Contains(queue'[d], i) \/ i \in missed'[d]
                       \/ i = pushed /\ Ring!Mine(d) \in todo'
    BY <1>0 DEF Ring!ResumeHasNoGap, Ring!Clients
  <2>1. \/ Ring!Contains(got[d], i) \/ Ring!Contains(queue[d], i) \/ i \in missed[d]
        \/ i = pushed /\ Ring!Mine(d) \in todo
    BY DEF Ring!ResumeHasNoGap
  <2>2. CASE d # c
    BY <2>1, <2>2, <1>0, <1>2 DEF Ring!TypeOK, Ring!Clients
  <2>3. CASE d = c
    <3>1. CASE queue'[c] = Append(queue[c], pushed) /\ missed' = missed
      <4>1. /\ Ring!Contains(queue[c], i) => Ring!Contains(queue'[c], i)
            /\ i = pushed => Ring!Contains(queue'[c], i)
        BY <1>1, <3>1 DEF Ring!Contains
      <4>. QED
        BY <2>1, <2>3, <3>1, <4>1
    <3>2. CASE missed'[c] = missed[c] \cup {pushed} /\ queue' = queue
      BY <2>1, <2>3, <3>2
    <3>. QED
      BY <1>2, <3>1, <3>2 DEF Ring!TypeOK
  <2>. QED
    BY <2>2, <2>3
<1>8. Ring!PanicOnlyInWindow'
  BY <1>0 DEF Ring!PanicOnlyInWindow
<1>. QED
  BY <1>3, <1>4, <1>5, <1>6, <1>7, <1>8

LEMMA SendPanicsKeeps ==
  ASSUME RingInv, Ring!SendPanics
  PROVE  RingInv'
<1>. USE DEF RingInv, Ring!SendPanics, Ring!ring, Ring!chans, Ring!history
<1>1. Ring!TypeOK'
  BY DEF Ring!TypeOK
<1>2. HoldsLatest' /\ InMapWhenCopied' /\ FedInOrder'
  BY DEF HoldsLatest, Ring!Snapshot, InMapWhenCopied, Ring!Mine, FedInOrder, Sent
<1>3. Ring!ResumeHasNoGap'
  BY DEF Ring!ResumeHasNoGap, Ring!Mine
<1>4. Ring!PanicOnlyInWindow'
  BY DEF Ring!PanicOnlyInWindow, InMapWhenCopied
<1>. QED
  BY <1>1, <1>2, <1>3, <1>4

LEMMA ConnectKeeps ==
  ASSUME RingInv, NEW c \in Ring!Clients, Ring!Connect(c)
  PROVE  RingInv'
<1>. USE RingAssumption DEF RingInv
<1>0. /\ conn' = [conn EXCEPT ![c] = conn[c] + 1] /\ conn[c] < MaxConns
      /\ reader' = [reader EXCEPT ![c] = "subscribed"]
      /\ queue' = [queue EXCEPT ![c] = <<>>]
      /\ missed' = [missed EXCEPT ![c] = {}]
      /\ base' = [base EXCEPT ![c] = 0]
      /\ UNCHANGED <<buf, head, count, pushed, todo, closed, crashed, got, gone>>
      /\ ~crashed
  BY DEF Ring!Connect, Ring!ring
<1>1. /\ conn[c] \in Nat /\ conn'[c] = conn[c] + 1
      /\ \A d \in Ring!Clients \ {c} : /\ Ring!Mine(d)' = Ring!Mine(d) /\ conn'[d] = conn[d]
                                       /\ reader'[d] = reader[d] /\ queue'[d] = queue[d]
                                       /\ missed'[d] = missed[d] /\ base'[d] = base[d]
      /\ Ring!Mine(c)' = <<c, conn[c] + 1>> /\ <<c, conn[c] + 1>> \in Ring!Channels
      /\ <<c, conn[c] + 1>> \notin todo
      /\ queue'[c] = <<>> /\ reader'[c] = "subscribed" /\ base'[c] = 0
  BY <1>0 DEF Ring!TypeOK, Ring!Mine, Ring!Channels, InMapWhenCopied
<1>2. Ring!TypeOK'
  <2>1. /\ conn' \in [Ring!Clients -> 0..MaxConns]
        /\ reader' \in [Ring!Clients -> {"off", "subscribed", "live", "left"}]
        /\ base' \in [Ring!Clients -> {0} \cup Ring!Trace]
    BY <1>0 DEF Ring!TypeOK
  <2>2. missed' \in [Ring!Clients -> SUBSET Ring!Trace]
    BY <1>0 DEF Ring!TypeOK
  <2>3. queue' \in [Ring!Clients -> Seq(Ring!Trace)]
    BY <1>0 DEF Ring!TypeOK
  <2>. QED
    BY <1>0, <2>1, <2>2, <2>3 DEF Ring!TypeOK
<1>3. HoldsLatest'
  BY <1>0 DEF HoldsLatest, Ring!Snapshot
<1>4. InMapWhenCopied'
  <2>0. \A d \in Ring!Clients : conn[d] \in Nat /\ conn'[d] \in Nat /\ conn[d] <= conn'[d]
    BY <1>0 DEF Ring!TypeOK
  <2>1. \A ch \in Ring!Channels : ch[1] \in Ring!Clients /\ ch[2] \in Nat
    BY DEF Ring!Channels
  <2>2. ASSUME NEW ch \in todo
        PROVE  0 < pushed /\ pushed <= gone[ch] /\ ch[2] <= conn'[ch[1]]
    <3>1. 0 < pushed /\ pushed <= gone[ch] /\ ch[2] <= conn[ch[1]]
      BY DEF InMapWhenCopied
    <3>2. ch[1] \in Ring!Clients /\ ch[2] \in Nat
      BY <2>1 DEF Ring!TypeOK
    <3>. QED
      BY <2>0, <3>1, <3>2
  <2>3. ASSUME NEW ch \in Ring!Channels, ch[2] > conn'[ch[1]] PROVE gone[ch] = MaxPushes
    <3>1. ch[2] > conn[ch[1]]
      BY <2>0, <2>1, <2>3
    <3>. QED
      BY <3>1 DEF InMapWhenCopied
  <2>4. gone[Ring!Mine(c)'] = MaxPushes
    BY <1>1 DEF InMapWhenCopied
  <2>5. \A d \in Ring!Clients :
          /\ reader'[d] # "off" => conn'[d] > 0
          /\ reader'[d] \in {"subscribed", "live"} => gone[Ring!Mine(d)'] = MaxPushes
    BY <1>1, <2>4 DEF InMapWhenCopied
  <2>. QED
    BY <2>2, <2>3, <2>5, <1>0 DEF InMapWhenCopied
<1>5. FedInOrder'
  <2>. SUFFICES ASSUME NEW d \in Plain
                PROVE  /\ Sent(d, got[d])' /\ Sent(d, queue[d])'
                       /\ \A i, j \in DOMAIN queue'[d] : i < j => queue'[d][i] < queue'[d][j]
                       /\ \A i \in DOMAIN got[d], j \in DOMAIN queue'[d] : got[d][i] < queue'[d][j]
    BY <1>0 DEF FedInOrder
  <2>1. CASE d # c
    BY <2>1, <1>0, <1>1 DEF FedInOrder, Sent, Ring!Clients
  <2>2. CASE d = c
    <3>1. DOMAIN queue'[c] = {} /\ Ring!Mine(c)' \notin todo'
      BY <1>0, <1>1
    <3>. QED
      BY <2>2, <3>1, <1>0 DEF FedInOrder, Sent
  <2>. QED
    BY <2>1, <2>2
<1>6. Ring!ResumeHasNoGap'
  BY <1>0, <1>1 DEF Ring!ResumeHasNoGap, Ring!Clients
<1>7. Ring!PanicOnlyInWindow'
  BY <1>0 DEF Ring!PanicOnlyInWindow
<1>. QED
  BY <1>2, <1>3, <1>4, <1>5, <1>6, <1>7


LEMMA SnapshotFacts ==
  ASSUME RingInv
  PROVE  /\ Ring!Snapshot \in Seq(Ring!Trace) /\ Len(Ring!Snapshot) = count /\ count \in Nat
         /\ pushed \in Nat /\ DOMAIN Ring!Snapshot = 1..count
         /\ \A i \in 1..count : Ring!Snapshot[i] = pushed - count + i
<1>1. /\ count \in Nat /\ pushed \in 0..MaxPushes /\ MaxPushes \in Nat /\ count <= pushed
      /\ \A i \in 1..count : Ring!Snapshot[i] = pushed - count + i
  BY RingAssumption DEF RingInv, HoldsLatest, Ring!TypeOK
<1>2. \A i \in 1..count : Ring!Snapshot[i] \in Ring!Trace
  BY <1>1 DEF Ring!Trace
<1>3. Ring!Snapshot \in [1..count -> Ring!Trace]
  BY <1>2 DEF Ring!Snapshot
<1>4. Ring!Snapshot \in Seq(Ring!Trace) /\ Len(Ring!Snapshot) = count /\ DOMAIN Ring!Snapshot = 1..count
  <2>. DEFINE s == Ring!Snapshot
  <2>1. s \in [1..count -> Ring!Trace] /\ count \in Nat
    BY <1>1, <1>3
  <2>. HIDE DEF s
  <2>2. s \in Seq(Ring!Trace) /\ Len(s) = count /\ DOMAIN s = 1..count
    BY <2>1
  <2>. QED
    BY <2>2 DEF s
<1>. QED
  BY <1>1, <1>4

\* What a resumed connection comes after, or 0.
ResumedAfter(c) ==
  IF Ring!Matches(c) = {} THEN 0 ELSE Ring!Snapshot[Ring!FirstMatch(c)]

\* A replay is a sequence of traces; a client without one gets none; one that
\* names an id in the buffer gets everything after the first trace of that id.
LEMMA ReplayFacts ==
  ASSUME RingInv, NEW c \in Ring!Clients
  PROVE  /\ Ring!Replay(c) \in Seq(Ring!Trace)
         /\ c \in Plain => Ring!Replay(c) = <<>>
         /\ ResumedAfter(c) \in {0} \cup Ring!Trace
         /\ ResumedAfter(c) # 0 =>
              \A i \in (ResumedAfter(c) + 1)..pushed : Ring!Contains(Ring!Replay(c), i)
<1>1. CASE Ring!Matches(c) = {}
  BY <1>1 DEF Ring!Replay, ResumedAfter
<1>2. CASE Ring!Matches(c) # {}
  <2>. DEFINE s == Ring!Snapshot
              j == Ring!FirstMatch(c)
              id == s[j]
              r == SubSeq(s, j + 1, count)
  <2>1. c \notin Plain
    BY <1>2, RingAssumption DEF Ring!Matches, Ring!LastSeen
  <2>2. /\ s \in Seq(Ring!Trace) /\ Len(s) = count /\ count \in Nat /\ pushed \in Nat
        /\ DOMAIN s = 1..count /\ \A i \in 1..count : s[i] = pushed - count + i
    BY SnapshotFacts
  <2>3. Ring!Matches(c) \subseteq Nat /\ Ring!Matches(c) \subseteq 1..count
    BY <2>2 DEF Ring!Matches
  <2>4. \E i \in Ring!Matches(c) : \A k \in Ring!Matches(c) : i <= k
    BY <1>2, <2>3, Least
  <2>5. j \in 1..count
    BY <2>3, <2>4 DEF Ring!FirstMatch
  <2>6. Ring!Replay(c) = r /\ ResumedAfter(c) = id
    BY <1>2 DEF Ring!Replay, ResumedAfter
  <2>7. id = pushed - count + j /\ id \in Ring!Trace
    <3>. HIDE DEF s, j
    <3>. QED
      BY <2>2, <2>5
  <2>8. /\ r \in Seq(Ring!Trace) /\ Len(r) = count - j
        /\ \A k \in 1..count - j : r[k] = s[j + k]
    <3>. HIDE DEF s, j
    <3>. QED
      BY <2>2, <2>5
  <2>9. ASSUME NEW i \in (id + 1)..pushed PROVE Ring!Contains(r, i)
    <3>. HIDE DEF s, j, id, r
    <3>1. i - id \in 1..count - j /\ r[i - id] = i
      BY <2>2, <2>5, <2>7, <2>8, <2>9
    <3>. QED
      BY <3>1, <2>2, <2>5, <2>8 DEF Ring!Contains
  <2>. QED
    <3>. HIDE DEF r, id
    <3>. QED
      BY <2>1, <2>6, <2>7, <2>8, <2>9
<1>. QED
  BY <1>1, <1>2


\* A request that ends: its channel leaves the map, once.
LEMMA UnsubscribeFacts ==
  ASSUME RingInv, NEW c \in Ring!Clients, reader[c] \in {"subscribed", "live"},
         Ring!Unsubscribe(c), UNCHANGED <<conn, todo, pushed>>
  PROVE  /\ reader' \in [Ring!Clients -> {"off", "subscribed", "live", "left"}]
         /\ gone' \in [Ring!Channels -> 0..MaxPushes]
         /\ InMapWhenCopied'
         /\ \A d \in Ring!Clients : reader'[d] = "live" => reader[d] = "live" /\ d # c
<1>. USE RingAssumption DEF RingInv, Ring!Unsubscribe
<1>1. /\ reader' \in [Ring!Clients -> {"off", "subscribed", "live", "left"}]
      /\ \A d \in Ring!Clients \ {c} : reader'[d] = reader[d]
      /\ reader'[c] = "left"
      /\ gone' \in [Ring!Channels -> 0..MaxPushes]
  BY DEF Ring!TypeOK
<1>2. /\ conn[c] > 0 /\ gone[Ring!Mine(c)] = MaxPushes /\ Ring!Mine(c) \in Ring!Channels
      /\ Ring!Mine(c)[1] = c /\ Ring!Mine(c)[2] = conn[c] /\ conn[c] \in Nat
      /\ pushed \in Nat
  BY MineFacts DEF InMapWhenCopied, Ring!TypeOK
<1>3. \A ch \in Ring!Channels : ch # Ring!Mine(c) => gone'[ch] = gone[ch]
  BY DEF Ring!TypeOK
<1>4. gone'[Ring!Mine(c)] = pushed
  BY <1>2 DEF Ring!TypeOK
<1>5. ASSUME NEW ch \in todo PROVE 0 < pushed /\ pushed <= gone'[ch] /\ ch[2] <= conn[ch[1]]
  <2>1. ch \in Ring!Channels
    BY DEF Ring!TypeOK
  <2>. QED
    BY <2>1, <1>2, <1>3, <1>4 DEF InMapWhenCopied
<1>6. ASSUME NEW ch \in Ring!Channels, ch[2] > conn[ch[1]] PROVE gone'[ch] = MaxPushes
  BY <1>6, <1>2, <1>3 DEF InMapWhenCopied
<1>7. ASSUME NEW d \in Ring!Clients
      PROVE  /\ reader'[d] # "off" => conn[d] > 0
             /\ reader'[d] \in {"subscribed", "live"} => gone'[Ring!Mine(d)] = MaxPushes
  <2>1. CASE d = c
    BY <2>1, <1>1, <1>2
  <2>2. CASE d # c
    <3>1. conn[d] > 0 => Ring!Mine(d) \in Ring!Channels /\ Ring!Mine(d) # Ring!Mine(c)
      BY <2>2, MineFacts
    <3>. QED
      BY <2>2, <3>1, <1>1, <1>3 DEF InMapWhenCopied
  <2>. QED
    BY <2>1, <2>2
<1>8. InMapWhenCopied'
  BY <1>5, <1>6, <1>7 DEF InMapWhenCopied, Ring!Channels, Ring!Clients, Ring!Mine
<1>. QED
  BY <1>1, <1>8

LEMMA ResumeKeeps ==
  ASSUME RingInv, NEW c \in Ring!Clients, Ring!Resume(c)
  PROVE  RingInv'
<1>. USE RingAssumption DEF RingInv
<1>0. /\ UNCHANGED <<buf, head, count, pushed, todo, conn, queue, closed, crashed, missed>>
      /\ ~crashed /\ reader[c] = "subscribed" /\ got[c] \in Seq(Ring!Trace)
      /\ Ring!Replay(c) \in Seq(Ring!Trace)
      /\ c \in Plain => Ring!Replay(c) = <<>>
  BY ReplayFacts DEF Ring!Resume, Ring!ring, Ring!TypeOK
<1>1. PICK n \in Nat, more \in BOOLEAN :
        IF more
        THEN /\ n = Len(Ring!Replay(c))
             /\ reader' = [reader EXCEPT ![c] = "live"] /\ gone' = gone
             /\ base' = [base EXCEPT ![c] = ResumedAfter(c)]
             /\ got' = [got EXCEPT ![c] = got[c] \o Ring!Replay(c)]
        ELSE /\ n < Len(Ring!Replay(c))
             /\ Ring!Unsubscribe(c) /\ base' = base
             /\ got' = [got EXCEPT ![c] = got[c] \o SubSeq(Ring!Replay(c), 1, n)]
  <2>1. Len(Ring!Replay(c)) \in Nat
    BY <1>0
  <2>2. CASE /\ got' = [got EXCEPT ![c] = @ \o Ring!Replay(c)]
             /\ reader' = [reader EXCEPT ![c] = "live"]
             /\ base' = [base EXCEPT ![c] = ResumedAfter(c)]
             /\ UNCHANGED gone
    BY <2>1, <2>2
  <2>3. ASSUME NEW n \in 0..(Len(Ring!Replay(c)) - 1),
               got' = [got EXCEPT ![c] = @ \o SubSeq(Ring!Replay(c), 1, n)],
               Ring!Unsubscribe(c), UNCHANGED base
        PROVE  /\ n \in Nat /\ n < Len(Ring!Replay(c)) /\ base' = base /\ Ring!Unsubscribe(c)
               /\ got' = [got EXCEPT ![c] = got[c] \o SubSeq(Ring!Replay(c), 1, n)]
    <3>1. n \in Nat /\ n < Len(Ring!Replay(c))
      BY <2>1
    <3>2. got' = [got EXCEPT ![c] = got[c] \o SubSeq(Ring!Replay(c), 1, n)]
      BY <2>3, Zenon
    <3>. QED
      BY <2>3, <3>1, <3>2
  <2>. QED
    BY <2>2, <2>3 DEF Ring!Resume, ResumedAfter
<1>2. /\ got' \in [Ring!Clients -> Seq(Ring!Trace)]
      /\ \A d \in Plain : got'[d] = got[d]
  <2>. DEFINE r == IF more THEN Ring!Replay(c) ELSE SubSeq(Ring!Replay(c), 1, n)
  <2>1. r \in Seq(Ring!Trace)
    <3>. DEFINE p == Ring!Replay(c)
    <3>1. p \in Seq(Ring!Trace) /\ (~more => n < Len(p))
      BY <1>0, <1>1
    <3>2. ~more => SubSeq(p, 1, n) \in Seq(Ring!Trace)
      <4>. HIDE DEF p
      <4>. QED
        BY <3>1
    <3>. QED
      BY <3>1, <3>2
  <2>2. got' = [got EXCEPT ![c] = got[c] \o r]
    BY <1>1
  <2>3. c \in Plain => r = <<>>
    <3>1. CASE more
      BY <3>1, <1>0
    <3>2. CASE ~more
      BY <3>2, <1>0, <1>1
    <3>. QED
      BY <3>1, <3>2
  <2>. HIDE DEF r
  <2>4. got[c] \o r \in Seq(Ring!Trace) /\ got[c] \o <<>> = got[c]
    BY <2>1, <1>0
  <2>. QED
    BY <2>2, <2>3, <2>4 DEF Ring!TypeOK, Ring!Clients
<1>3. /\ reader' \in [Ring!Clients -> {"off", "subscribed", "live", "left"}]
      /\ base' \in [Ring!Clients -> {0} \cup Ring!Trace]
      /\ gone' \in [Ring!Channels -> 0..MaxPushes]
  BY <1>0, <1>1, UnsubscribeFacts, ReplayFacts DEF Ring!TypeOK
<1>4. Ring!TypeOK'
  BY <1>0, <1>2, <1>3 DEF Ring!TypeOK
<1>5. HoldsLatest'
  BY <1>0 DEF HoldsLatest, Ring!Snapshot
<1>6. InMapWhenCopied'
  <2>1. CASE more
    BY <2>1, <1>0, <1>1 DEF InMapWhenCopied, Ring!Mine, Ring!TypeOK
  <2>2. CASE ~more
    BY <2>2, <1>0, <1>1, UnsubscribeFacts
  <2>. QED
    BY <2>1, <2>2
<1>7. FedInOrder'
  BY <1>0, <1>2 DEF FedInOrder, Sent, Ring!Mine, Ring!Clients
<1>8. Ring!ResumeHasNoGap'
  <2>. SUFFICES ASSUME NEW d \in Resuming, reader'[d] = "live", base'[d] # 0,
                       NEW i \in (base'[d] + 1)..pushed
                PROVE  \/ Ring!Contains(got'[d], i) \/ Ring!Contains(queue[d], i) \/ i \in missed[d]
                       \/ i = pushed /\ Ring!Mine(d) \in todo
    BY <1>0 DEF Ring!ResumeHasNoGap, Ring!Mine
  <2>1. CASE d # c
    <3>1. reader[d] = "live" /\ base'[d] = base[d] /\ got'[d] = got[d]
      BY <2>1, <1>0, <1>1, UnsubscribeFacts DEF Ring!TypeOK, Ring!Clients
    <3>. QED
      BY <3>1 DEF Ring!ResumeHasNoGap
  <2>2. CASE d = c
    <3>1. more /\ ResumedAfter(c) # 0 /\ base'[c] = ResumedAfter(c)
      BY <2>2, <1>0, <1>1, UnsubscribeFacts DEF Ring!TypeOK, Ring!Clients
    <3>2. Ring!Contains(Ring!Replay(c), i)
      BY <3>1, <2>2, ReplayFacts
    <3>3. got'[c] = got[c] \o Ring!Replay(c)
      BY <3>1, <1>1 DEF Ring!TypeOK
    <3>4. Ring!Contains(got'[c], i)
      <4>. DEFINE r == Ring!Replay(c)
      <4>1. PICK k \in 1..Len(r) : r[k] = i
        BY <3>2 DEF Ring!Contains
      <4>2. r \in Seq(Ring!Trace)
        BY <1>0
      <4>3. (got[c] \o r)[Len(got[c]) + k] = i /\ Len(got[c]) + k \in 1..Len(got[c] \o r)
        <5>. HIDE DEF r
        <5>. QED
          BY <4>1, <4>2, <1>0
      <4>. QED
        BY <4>3, <3>3 DEF Ring!Contains
    <3>. QED
      BY <2>2, <3>4
  <2>. QED
    BY <2>1, <2>2
<1>9. Ring!PanicOnlyInWindow'
  BY <1>0 DEF Ring!PanicOnlyInWindow
<1>. QED
  BY <1>4, <1>5, <1>6, <1>7, <1>8, <1>9

LEMMA FollowKeeps ==
  ASSUME RingInv, NEW c \in Ring!Clients, Ring!Follow(c)
  PROVE  RingInv'
<1>. USE RingAssumption DEF RingInv
<1>0. /\ UNCHANGED <<buf, head, count, pushed, todo, conn, reader, closed, crashed, base, missed, gone>>
      /\ ~crashed /\ queue[c] # <<>>
      /\ got' = [got EXCEPT ![c] = Append(got[c], Head(queue[c]))]
      /\ queue' = [queue EXCEPT ![c] = Tail(queue[c])]
      /\ got[c] \in Seq(Ring!Trace) /\ queue[c] \in Seq(Ring!Trace)
  BY DEF Ring!Follow, Ring!ring, Ring!history, Ring!TypeOK
<1>. DEFINE g == Append(got[c], Head(queue[c]))
            q == Tail(queue[c])
<1>1. /\ g \in Seq(Ring!Trace) /\ q \in Seq(Ring!Trace)
      /\ Len(queue[c]) \in Nat /\ Len(queue[c]) > 0 /\ Len(got[c]) \in Nat
      /\ DOMAIN queue[c] = 1..Len(queue[c]) /\ DOMAIN got[c] = 1..Len(got[c])
      /\ DOMAIN q = 1..Len(queue[c]) - 1 /\ \A i \in DOMAIN q : q[i] = queue[c][i + 1]
      /\ DOMAIN g = 1..Len(got[c]) + 1 /\ \A i \in DOMAIN got[c] : g[i] = got[c][i]
      /\ g[Len(got[c]) + 1] = queue[c][1]
      /\ Len(g) = Len(got[c]) + 1 /\ Len(q) = Len(queue[c]) - 1
  BY <1>0
<1>2. /\ got'[c] = g /\ queue'[c] = q
      /\ \A d \in Ring!Clients \ {c} : got'[d] = got[d] /\ queue'[d] = queue[d]
      /\ got' \in [Ring!Clients -> Seq(Ring!Trace)] /\ queue' \in [Ring!Clients -> Seq(Ring!Trace)]
  <2>. HIDE DEF g, q
  <2>1. got' = [got EXCEPT ![c] = g] /\ queue' = [queue EXCEPT ![c] = q]
    BY <1>0 DEF g, q
  <2>. QED
    BY <2>1, <1>1 DEF Ring!TypeOK
<1>. HIDE DEF g, q
<1>3. Ring!TypeOK'
  BY <1>0, <1>2 DEF Ring!TypeOK
<1>4. HoldsLatest' /\ InMapWhenCopied'
  BY <1>0 DEF HoldsLatest, Ring!Snapshot, InMapWhenCopied, Ring!Mine
<1>5. FedInOrder'
  <2>. SUFFICES ASSUME NEW d \in Plain
                PROVE  /\ Sent(d, got[d])' /\ Sent(d, queue[d])'
                       /\ \A i, j \in DOMAIN queue'[d] : i < j => queue'[d][i] < queue'[d][j]
                       /\ \A i \in DOMAIN got'[d], j \in DOMAIN queue'[d] : got'[d][i] < queue'[d][j]
    BY DEF FedInOrder
  <2>1. CASE d # c
    BY <2>1, <1>0, <1>2 DEF FedInOrder, Sent, Ring!Clients, Ring!Mine
  <2>2. CASE d = c
    <3>1. /\ Sent(c, got[c]) /\ Sent(c, queue[c])
          /\ \A i, j \in DOMAIN queue[c] : i < j => queue[c][i] < queue[c][j]
          /\ \A i \in DOMAIN got[c], j \in DOMAIN queue[c] : got[c][i] < queue[c][j]
      BY <2>2 DEF FedInOrder
    <3>2. /\ \A i \in DOMAIN g : g[i] <= pushed /\ (Ring!Mine(c) \in todo => g[i] < pushed)
          /\ \A i \in DOMAIN q : q[i] <= pushed /\ (Ring!Mine(c) \in todo => q[i] < pushed)
      <4>1. /\ \A i \in DOMAIN got[c] :
                 got[c][i] <= pushed /\ (Ring!Mine(c) \in todo => got[c][i] < pushed)
            /\ \A i \in DOMAIN queue[c] :
                 queue[c][i] <= pushed /\ (Ring!Mine(c) \in todo => queue[c][i] < pushed)
        BY <3>1 DEF Sent
      <4>2. \A i \in DOMAIN g : IF i \in DOMAIN got[c] THEN g[i] = got[c][i] ELSE g[i] = queue[c][1]
        BY <1>1
      <4>3. 1 \in DOMAIN queue[c] /\ \A i \in DOMAIN q : i + 1 \in DOMAIN queue[c]
        BY <1>1
      <4>. QED
        BY <4>1, <4>2, <4>3, <1>1
    <3>3. ASSUME NEW i \in DOMAIN q, NEW j \in DOMAIN q, i < j PROVE q[i] < q[j]
      <4>1. i + 1 \in DOMAIN queue[c] /\ j + 1 \in DOMAIN queue[c] /\ i + 1 < j + 1
        BY <3>3, <1>1
      <4>2. q[i] = queue[c][i + 1] /\ q[j] = queue[c][j + 1]
        BY <1>1
      <4>. QED
        BY <4>1, <4>2, <3>1
    <3>4. \A i \in DOMAIN g, j \in DOMAIN q : g[i] < q[j]
      <4>. SUFFICES ASSUME NEW i \in DOMAIN g, NEW j \in DOMAIN q PROVE g[i] < q[j]
        OBVIOUS
      <4>1. q[j] = queue[c][j + 1] /\ j + 1 \in DOMAIN queue[c] /\ j \in Nat /\ j > 0
        BY <1>1
      <4>2. CASE i = Len(got[c]) + 1
        <5>1. g[i] = queue[c][1] /\ 1 \in DOMAIN queue[c] /\ 1 < j + 1
          BY <4>1, <4>2, <1>1
        <5>. QED
          BY <5>1, <4>1, <3>1
      <4>3. CASE i # Len(got[c]) + 1
        <5>1. g[i] = got[c][i] /\ i \in DOMAIN got[c]
          BY <4>3, <1>1
        <5>. QED
          BY <5>1, <4>1, <3>1
      <4>. QED
        BY <4>2, <4>3
    <3>. QED
      BY <2>2, <3>2, <3>3, <3>4, <1>0, <1>2 DEF Sent, Ring!Mine
  <2>. QED
    BY <2>1, <2>2
<1>6. Ring!ResumeHasNoGap'
  <2>. SUFFICES ASSUME NEW d \in Resuming, reader[d] = "live", base[d] # 0,
                       NEW i \in (base[d] + 1)..pushed
                PROVE  \/ Ring!Contains(got'[d], i) \/ Ring!Contains(queue'[d], i) \/ i \in missed[d]
                       \/ i = pushed /\ Ring!Mine(d) \in todo
    BY <1>0 DEF Ring!ResumeHasNoGap, Ring!Mine
  <2>1. \/ Ring!Contains(got[d], i) \/ Ring!Contains(queue[d], i) \/ i \in missed[d]
        \/ i = pushed /\ Ring!Mine(d) \in todo
    BY DEF Ring!ResumeHasNoGap
  <2>2. CASE d # c
    BY <2>1, <2>2, <1>2 DEF Ring!Clients
  <2>3. CASE d = c
    <3>1. Ring!Contains(got[c], i) => Ring!Contains(g, i)
      <4>. SUFFICES ASSUME NEW k \in 1..Len(got[c]), got[c][k] = i
                    PROVE  Ring!Contains(g, i)
        BY DEF Ring!Contains
      <4>1. k \in DOMAIN got[c]
        BY <1>1
      <4>2. g[k] = got[c][k]
        BY <4>1, <1>1
      <4>3. k \in 1..Len(g)
        BY <1>1
      <4>. QED
        BY <4>2, <4>3 DEF Ring!Contains
    <3>2. Ring!Contains(queue[c], i) => Ring!Contains(g, i) \/ Ring!Contains(q, i)
      <4>. SUFFICES ASSUME NEW k \in 1..Len(queue[c]), queue[c][k] = i
                    PROVE  Ring!Contains(g, i) \/ Ring!Contains(q, i)
        BY DEF Ring!Contains
      <4>1. CASE k = 1
        <5>1. Len(got[c]) + 1 \in 1..Len(g) /\ g[Len(got[c]) + 1] = i
          BY <4>1, <1>1
        <5>. QED
          BY <5>1 DEF Ring!Contains
      <4>2. CASE k # 1
        <5>1. k - 1 \in DOMAIN q /\ k - 1 \in 1..Len(q) /\ (k - 1) + 1 = k
          BY <4>2, <1>1
        <5>2. q[k - 1] = i
          BY <5>1, <1>1
        <5>. QED
          BY <5>1, <5>2 DEF Ring!Contains
      <4>. QED
        BY <4>1, <4>2
    <3>. QED
      BY <2>1, <2>3, <3>1, <3>2, <1>2
  <2>. QED
    BY <2>2, <2>3
<1>7. Ring!PanicOnlyInWindow'
  BY <1>0 DEF Ring!PanicOnlyInWindow
<1>. QED
  BY <1>3, <1>4, <1>5, <1>6, <1>7

LEMMA FollowFailsKeeps ==
  ASSUME RingInv, NEW c \in Ring!Clients, Ring!FollowFails(c)
  PROVE  RingInv'
<1>. USE RingAssumption DEF RingInv
<1>0. /\ UNCHANGED <<buf, head, count, pushed, todo, conn, reader, closed, crashed, got, base, gone>>
      /\ ~crashed /\ queue[c] # <<>> /\ queue[c] \in Seq(Ring!Trace)
      /\ missed' = [missed EXCEPT ![c] = missed[c] \cup {Head(queue[c])}]
      /\ queue' = [queue EXCEPT ![c] = Tail(queue[c])]
  BY DEF Ring!FollowFails, Ring!ring, Ring!TypeOK
<1>. DEFINE q == Tail(queue[c])
<1>1. /\ q \in Seq(Ring!Trace) /\ Len(queue[c]) \in Nat /\ Len(queue[c]) > 0
      /\ DOMAIN queue[c] = 1..Len(queue[c]) /\ Len(q) = Len(queue[c]) - 1
      /\ DOMAIN q = 1..Len(queue[c]) - 1 /\ \A i \in DOMAIN q : q[i] = queue[c][i + 1]
      /\ Head(queue[c]) = queue[c][1] /\ queue[c][1] \in Ring!Trace
  BY <1>0
<1>2. /\ queue'[c] = q /\ queue' \in [Ring!Clients -> Seq(Ring!Trace)]
      /\ missed'[c] = missed[c] \cup {queue[c][1]}
      /\ \A d \in Ring!Clients \ {c} : queue'[d] = queue[d] /\ missed'[d] = missed[d]
      /\ missed' \in [Ring!Clients -> SUBSET Ring!Trace]
  <2>. HIDE DEF q
  <2>1. queue' = [queue EXCEPT ![c] = q]
    BY <1>0 DEF q
  <2>. QED
    BY <2>1, <1>0, <1>1 DEF Ring!TypeOK
<1>. HIDE DEF q
<1>3. Ring!TypeOK'
  BY <1>0, <1>2 DEF Ring!TypeOK
<1>4. HoldsLatest' /\ InMapWhenCopied'
  BY <1>0 DEF HoldsLatest, Ring!Snapshot, InMapWhenCopied, Ring!Mine
<1>5. FedInOrder'
  <2>. SUFFICES ASSUME NEW d \in Plain
                PROVE  /\ Sent(d, got[d])' /\ Sent(d, queue[d])'
                       /\ \A i, j \in DOMAIN queue'[d] : i < j => queue'[d][i] < queue'[d][j]
                       /\ \A i \in DOMAIN got'[d], j \in DOMAIN queue'[d] : got'[d][i] < queue'[d][j]
    BY DEF FedInOrder
  <2>1. CASE d # c
    BY <2>1, <1>0, <1>2 DEF FedInOrder, Sent, Ring!Clients, Ring!Mine
  <2>2. CASE d = c
    <3>1. /\ Sent(c, got[c]) /\ Sent(c, queue[c])
          /\ \A i, j \in DOMAIN queue[c] : i < j => queue[c][i] < queue[c][j]
          /\ \A i \in DOMAIN got[c], j \in DOMAIN queue[c] : got[c][i] < queue[c][j]
      BY <2>2 DEF FedInOrder
    <3>2. \A i \in DOMAIN q : i \in Nat /\ i + 1 \in DOMAIN queue[c] /\ q[i] = queue[c][i + 1]
      BY <1>1
    <3>3. \A i \in DOMAIN q : q[i] <= pushed /\ (Ring!Mine(c) \in todo => q[i] < pushed)
      BY <3>1, <3>2 DEF Sent
    <3>4. \A i, j \in DOMAIN q : i < j => q[i] < q[j]
      <4>1. \A i, j \in DOMAIN q : i < j => i + 1 < j + 1
        BY <3>2
      <4>. QED
        BY <4>1, <3>1, <3>2
    <3>5. \A i \in DOMAIN got[c], j \in DOMAIN q : got[c][i] < q[j]
      BY <3>1, <3>2
    <3>. QED
      BY <2>2, <3>1, <3>3, <3>4, <3>5, <1>0, <1>2 DEF Sent, Ring!Mine
  <2>. QED
    BY <2>1, <2>2
<1>6. Ring!ResumeHasNoGap'
  <2>. SUFFICES ASSUME NEW d \in Resuming, reader[d] = "live", base[d] # 0,
                       NEW i \in (base[d] + 1)..pushed
                PROVE  \/ Ring!Contains(got[d], i) \/ Ring!Contains(queue'[d], i) \/ i \in missed'[d]
                       \/ i = pushed /\ Ring!Mine(d) \in todo
    BY <1>0 DEF Ring!ResumeHasNoGap, Ring!Mine
  <2>1. \/ Ring!Contains(got[d], i) \/ Ring!Contains(queue[d], i) \/ i \in missed[d]
        \/ i = pushed /\ Ring!Mine(d) \in todo
    BY DEF Ring!ResumeHasNoGap
  <2>2. CASE d # c
    BY <2>1, <2>2, <1>2 DEF Ring!Clients
  <2>3. CASE d = c
    <3>1. Ring!Contains(queue[c], i) => Ring!Contains(q, i) \/ i = queue[c][1]
      <4>. SUFFICES ASSUME NEW k \in 1..Len(queue[c]), queue[c][k] = i, k # 1
                    PROVE  Ring!Contains(q, i)
        BY DEF Ring!Contains
      <4>1. k - 1 \in DOMAIN q /\ k - 1 \in 1..Len(q) /\ (k - 1) + 1 = k
        BY <1>1
      <4>2. q[k - 1] = i
        BY <4>1, <1>1
      <4>. QED
        BY <4>1, <4>2 DEF Ring!Contains
    <3>. QED
      BY <2>1, <2>3, <3>1, <1>2
  <2>. QED
    BY <2>2, <2>3
<1>7. Ring!PanicOnlyInWindow'
  BY <1>0 DEF Ring!PanicOnlyInWindow
<1>. QED
  BY <1>3, <1>4, <1>5, <1>6, <1>7

LEMMA LeaveKeeps ==
  ASSUME RingInv, NEW c \in Ring!Clients, Ring!Leave(c)
  PROVE  RingInv'
<1>. USE DEF RingInv
<1>0. /\ UNCHANGED <<buf, head, count, pushed, todo, conn, queue, closed, crashed, got, base, missed>>
      /\ ~crashed /\ reader[c] = "live" /\ Ring!Unsubscribe(c)
  BY DEF Ring!Leave, Ring!ring
<1>1. /\ reader' \in [Ring!Clients -> {"off", "subscribed", "live", "left"}]
      /\ gone' \in [Ring!Channels -> 0..MaxPushes]
      /\ InMapWhenCopied'
      /\ \A d \in Ring!Clients : reader'[d] = "live" => reader[d] = "live"
  BY <1>0, UnsubscribeFacts
<1>2. Ring!TypeOK'
  BY <1>0, <1>1 DEF Ring!TypeOK
<1>3. HoldsLatest' /\ FedInOrder'
  BY <1>0 DEF HoldsLatest, Ring!Snapshot, FedInOrder, Sent, Ring!Mine
<1>4. Ring!ResumeHasNoGap'
  BY <1>0, <1>1 DEF Ring!ResumeHasNoGap, Ring!Mine, Ring!Clients
<1>5. Ring!PanicOnlyInWindow'
  BY <1>0 DEF Ring!PanicOnlyInWindow
<1>. QED
  BY <1>1, <1>2, <1>3, <1>4, <1>5

LEMMA CloseKeeps ==
  ASSUME RingInv, NEW c \in Ring!Clients, Ring!Close(c)
  PROVE  RingInv'
<1>. USE DEF RingInv
<1>0. /\ UNCHANGED <<buf, head, count, pushed, todo, conn, queue, crashed, got, base, missed, gone>>
      /\ ~crashed /\ reader[c] = "left" /\ reader' = [reader EXCEPT ![c] = "off"]
      /\ closed' = closed \cup {Ring!Mine(c)}
  BY DEF Ring!Close, Ring!ring, Ring!history
<1>1. Ring!TypeOK'
  <2>1. Ring!Mine(c) \in Ring!Channels
    BY <1>0, MineFacts DEF InMapWhenCopied
  <2>. QED
    BY <1>0, <2>1 DEF Ring!TypeOK
<1>2. \A d \in Ring!Clients : reader'[d] # "off" => reader'[d] = reader[d]
  BY <1>0 DEF Ring!TypeOK
<1>3. HoldsLatest' /\ FedInOrder'
  BY <1>0 DEF HoldsLatest, Ring!Snapshot, FedInOrder, Sent, Ring!Mine
<1>4. InMapWhenCopied'
  BY <1>0, <1>2 DEF InMapWhenCopied, Ring!Mine
<1>5. Ring!ResumeHasNoGap'
  BY <1>0, <1>2 DEF Ring!ResumeHasNoGap, Ring!Mine, Ring!Clients
<1>6. Ring!PanicOnlyInWindow'
  BY <1>0 DEF Ring!PanicOnlyInWindow
<1>. QED
  BY <1>1, <1>3, <1>4, <1>5, <1>6

LEMMA RingStep == RingInv /\ [Ring!Next]_(Ring!vars) => RingInv'
<1>. SUFFICES ASSUME RingInv, [Ring!Next]_(Ring!vars) PROVE RingInv'
  OBVIOUS
<1>1. ASSUME NEW c \in Ring!Clients,
             \/ Ring!Send(c) \/ Ring!Connect(c) \/ Ring!Resume(c)
             \/ Ring!Follow(c) \/ Ring!FollowFails(c) \/ Ring!Leave(c) \/ Ring!Close(c)
      PROVE  RingInv'
  BY <1>1, SendKeeps, ConnectKeeps, ResumeKeeps, FollowKeeps, FollowFailsKeeps,
     LeaveKeeps, CloseKeeps
<1>2. CASE UNCHANGED Ring!vars
  <2>1. UNCHANGED <<buf, head, count, pushed, todo, conn, reader, queue, closed, crashed, got,
                    base, missed, gone>>
    BY <1>2 DEF Ring!vars, Ring!ring, Ring!chans, Ring!history
  <2>2. Ring!TypeOK' /\ HoldsLatest' /\ InMapWhenCopied'
    BY <2>1 DEF RingInv, Ring!TypeOK, HoldsLatest, Ring!Snapshot, InMapWhenCopied, Ring!Mine
  <2>3. FedInOrder' /\ Ring!ResumeHasNoGap' /\ Ring!PanicOnlyInWindow'
    BY <2>1 DEF RingInv, FedInOrder, Sent, Ring!Mine, Ring!ResumeHasNoGap, Ring!PanicOnlyInWindow
  <2>. QED
    BY <2>2, <2>3 DEF RingInv
<1>. QED
  BY <1>1, <1>2, PushKeeps, SendPanicsKeeps DEF Ring!Next

(* sse.go subscribes before it reads the snapshot: whatever the order of    *)
(* pushes, sends and replays, for any capacity and any number of clients, a *)
(* client that named a trace still in the buffer misses none after it but   *)
(* what found its channel full or could not be written to it.               *)
THEOREM ResumeHasNoGapThm == Ring!Spec => []ResumeHasNoGap
<1>1. RingInv => ResumeHasNoGap
  BY DEF RingInv, ResumeHasNoGap
<1>. QED
  BY RingStart, RingStep, <1>1, PTL DEF Ring!Spec

(* ringbuffer.go sends outside the mutex: the only channels it can find     *)
(* closed are those that left the map after the copy for the same trace.    *)
THEOREM PanicOnlyInWindowThm == Ring!Spec => []PanicOnlyInWindow
<1>1. RingInv => PanicOnlyInWindow
  BY DEF RingInv, PanicOnlyInWindow
<1>. QED
  BY RingStart, RingStep, <1>1, PTL DEF Ring!Spec

\* Only a push publishes, only Follow receives; the replay of a client that
\* does not ask for one is empty.
LEMMA FeedStep ==
  ASSUME RingInv, [Ring!Next]_(Ring!vars), NEW c \in Plain
  PROVE  [Ring!Feed(c)!Next]_<<pushed, got[c]>>
<1>. USE RingAssumption DEF RingInv
<1>0. /\ pushed \in Nat /\ got \in [Ring!Clients -> Seq(Ring!Trace)] /\ c \in Ring!Clients
      /\ queue[c] \in Seq(Ring!Trace)
  BY DEF Ring!TypeOK, Ring!Clients
<1>1. CASE Ring!Push
  BY <1>1 DEF Ring!Push, Ring!Feed!Next, Ring!Feed!Publish
<1>2. CASE UNCHANGED <<pushed, got>>
  BY <1>2
<1>3. ASSUME NEW d \in Ring!Clients, Ring!Resume(d) PROVE UNCHANGED <<pushed, got[c]>>
  <2>1. UNCHANGED pushed
    BY <1>3 DEF Ring!Resume, Ring!ring
  <2>2. CASE d # c
    <3>1. \E r : got' = [got EXCEPT ![d] = r]
      BY <1>3, Zenon DEF Ring!Resume
    <3>. QED
      BY <1>0, <2>1, <2>2, <3>1
  <2>3. CASE d = c
    <3>1. Ring!Replay(c) = <<>>
      BY <1>0, ReplayFacts
    <3>2. Len(Ring!Replay(c)) = 0
      BY <3>1
    <3>3. 0..(Len(Ring!Replay(c)) - 1) = {}
      BY <3>2
    <3>4. got' = [got EXCEPT ![c] = @ \o Ring!Replay(c)]
      BY <1>3, <2>3, <3>3 DEF Ring!Resume
    <3>. QED
      BY <3>1, <3>4, <2>1, <1>0
  <2>. QED
    BY <2>1, <2>2, <2>3
<1>4. ASSUME NEW d \in Ring!Clients, Ring!Follow(d) PROVE [Ring!Feed(c)!Next]_<<pushed, got[c]>>
  <2>1. /\ UNCHANGED pushed /\ queue[d] # <<>>
        /\ got' = [got EXCEPT ![d] = Append(got[d], Head(queue[d]))]
    BY <1>4 DEF Ring!Follow, Ring!ring
  <2>2. CASE d # c
    BY <2>1, <2>2, <1>0
  <2>3. CASE d = c
    <3>1. 1 \in DOMAIN queue[c] /\ Head(queue[c]) = queue[c][1] /\ queue[c][1] \in Nat \ {0}
      BY <2>1, <2>3, <1>0 DEF Ring!Trace
    <3>2. queue[c][1] <= pushed /\ \A i \in DOMAIN got[c] : got[c][i] < queue[c][1]
      BY <3>1 DEF FedInOrder, Sent
    <3>3. queue[c][1] \in 1..pushed
      BY <3>1, <3>2, <1>0
    <3>4. got'[c] = Append(got[c], queue[c][1])
      BY <2>1, <2>3, <3>1, <1>0
    <3>. QED
      BY <3>2, <3>3, <3>4, <2>1 DEF Ring!Feed!Next, Ring!Feed!Receive
  <2>. QED
    BY <2>2, <2>3
<1>. QED
  <2>1. ASSUME NEW d \in Ring!Clients,
               Ring!Send(d) \/ Ring!Connect(d) \/ Ring!FollowFails(d)
               \/ Ring!Leave(d) \/ Ring!Close(d)
        PROVE  UNCHANGED <<pushed, got>>
    BY <2>1 DEF Ring!Send, Ring!Connect, Ring!FollowFails, Ring!Leave, Ring!Close, Ring!ring
  <2>2. ASSUME Ring!SendPanics \/ UNCHANGED Ring!vars PROVE UNCHANGED <<pushed, got>>
    BY <2>2 DEF Ring!SendPanics, Ring!vars, Ring!ring
  <2>. QED
    BY <1>1, <1>2, <1>3, <1>4, <2>1, <2>2 DEF Ring!Next

(* What a client without a replay receives, over all its connections,       *)
(* refines LossyStream: traces in the order they were pushed, none twice    *)
(* (ringbuffer.go, sse.go).                                                 *)
THEOREM InOrderOnceThm == Ring!Spec => InOrderOnce
<1>1. Ring!Init => \A c \in Plain : Ring!Feed(c)!Init
  BY DEF Ring!Init, Ring!Feed!Init, Ring!Clients
<1>2. RingInv /\ [Ring!Next]_(Ring!vars) =>
        [\A c \in Plain : [Ring!Feed(c)!Next]_<<pushed, got[c]>>]_(Ring!vars)
  BY FeedStep
<1>. QED
  BY RingStart, RingStep, <1>1, <1>2, PTL DEF Ring!Spec, InOrderOnce, Ring!InOrderOnce

-----------------------------------------------------------------------------
(* The aggregator.                                                          *)

Tallied(b, x) == x \in tallies[<<b, x.class>>]

Uncounted(x) == \A b \in Sums!Buckets : x \notin stats[b] /\ ~Tallied(b, x)

\* Counted once, in the total of one bucket and in its class there.
Once(x) ==
  /\ Sums!Stored(x)
  /\ \E b \in Sums!Buckets : \A d \in Sums!Buckets :
       (x \in stats[d] <=> d = b) /\ (Tallied(d, x) <=> d = b)

\* In the total of the bucket that is being written, and in its class if that is done.
HalfCounted(x) ==
  /\ Sums!Stored(x)
  /\ \A d \in Sums!Buckets : /\ x \in stats[d] <=> d = Sums!Bucket
                             /\ (Tallied(d, x) <=> (d = Sums!Bucket /\ x.class \notin cycle.left))

InBatch(x) ==
  /\ x.at < cycle.start
  /\ cycle.step \in {"raw", "stats"} => Uncounted(x)
  /\ cycle.step = "stats" => Sums!Stored(x)
  /\ cycle.step = "rows" => HalfCounted(x)

\* At every step of a cycle, where a trace stands.
Accounted ==
  \A x \in (Sums!Seen \cup cycle.batch) \ excused :
    IF x \in cycle.batch THEN InBatch(x)
    ELSE IF x \in Sums!DrainSince THEN Uncounted(x) ELSE Once(x)

Cycles == [step : {"idle", "drain", "raw", "stats", "rows"}, start : Nat,
           batch : SUBSET Sums!Trace, left : SUBSET Classes]

\* What the steps of a cycle have in hand.
CycleShape ==
  /\ cycle \in Cycles
  /\ cycle.step \in {"idle", "drain"} => cycle.batch = {}
  /\ cycle.step # "rows" => cycle.left = {}
  /\ cycle.step = "rows" => stats[Sums!Bucket] = cycle.batch
  /\ cycle.step # "idle" => since <= cycle.start
  /\ \A x \in cycle.batch : x.at >= since

\* Everything that has come out of the socket.
Past == Sums!Seen \cup cycle.batch \cup UNION {tallies[r] : r \in Sums!Buckets \X Classes}

\* Every trace comes through the socket once.
ComeOnce ==
  /\ \A x \in Past : x.id <= logged
  /\ \A i \in DOMAIN socket : socket[i].id <= logged /\ socket[i] \notin Past
  /\ \A i, j \in DOMAIN socket : i # j => socket[i] # socket[j]

SumsInv == Sums!TypeOK /\ CycleShape /\ ComeOnce /\ Accounted


\* The start of a bucket is the start of a bucket.
LEMMA RoundsDown ==
  ASSUME NEW n \in Nat \ {0}, NEW t \in Nat
  PROVE  /\ t - (t % n) \in 0..t
         /\ (t - (t % n)) % n = 0
<1>1. t % n \in 0..n - 1 /\ t = n * (t \div n) + (t % n) /\ t \div n \in Nat
  OBVIOUS
<1>2. t - (t % n) = n * (t \div n)
  BY <1>1
<1>3. n * (t \div n) \in Nat
  BY <1>1
<1>4. ASSUME NEW q \in Nat PROVE (n * q) % n = 0
  OBVIOUS
<1>5. t - (t % n) \in 0..t
  BY <1>1
<1>6. (t - (t % n)) % n = 0
  <2>. DEFINE q == t \div n
  <2>1. q \in Nat
    BY <1>1
  <2>2. (n * q) % n = 0
    BY <1>4, <2>1, Zenon
  <2>. QED
    BY <1>2, <2>2
<1>. QED
  BY <1>5, <1>6

LEMMA CountsOne ==
  ASSUME NEW x
  PROVE  Sums!Cardinality({x}) = 1
<1>1. Cardinality({x}) = 1
  BY FS_Singleton
<1>. QED
  BY <1>1 DEF Cardinality, Sums!Cardinality

LEMMA BucketType ==
  ASSUME SumsInv, cycle.step # "idle"
  PROVE  Sums!Bucket \in Sums!Buckets
<1>1. cycle.start \in Nat /\ cycle.start <= now /\ now \in 0..MaxTime
  BY DEF SumsInv, Sums!TypeOK, CycleShape, Cycles
<1>2. Sums!Bucket \in 0..cycle.start /\ Sums!Bucket % Interval = 0
  BY <1>1, SumsAssumption, RoundsDown DEF Sums!Bucket
<1>. QED
  BY <1>1, <1>2, SumsAssumption DEF Sums!Buckets

LEMMA SumsStart == Sums!Init => SumsInv
<1>. SUFFICES ASSUME Sums!Init PROVE SumsInv
  OBVIOUS
<1>. USE SumsAssumption DEF Sums!Init
<1>0. /\ cycle \in Cycles
      /\ cycle.step = "idle" /\ cycle.start = 0 /\ cycle.batch = {} /\ cycle.left = {}
  BY DEF Sums!Idle, Cycles
<1>1. Sums!TypeOK
  <2>1. socket \in Seq(Sums!Trace) /\ ring \in Seq(Sums!Trace) /\ Len(ring) <= Capacity
    BY RingAssumption
  <2>2. stats \in [Sums!Buckets -> SUBSET Sums!Trace]
        /\ tallies \in [Sums!Buckets \X Classes -> SUBSET Sums!Trace]
    OBVIOUS
  <2>3. /\ now \in 0..MaxTime /\ since \in 0..now /\ cycle.start <= now
        /\ logged \in 0..MaxTraces /\ restarts \in 0..MaxRestarts
    BY <1>0
  <2>4. raw = {} /\ excused = {} /\ due = FALSE
    OBVIOUS
  <2>. QED
    BY <1>0, <2>1, <2>2, <2>3, <2>4 DEF Sums!TypeOK
<1>2. Sums!Seen = {} /\ Past = {}
  BY <1>0 DEF Past, Sums!Seen, Sums!Range
<1>3. CycleShape
  BY <1>0 DEF CycleShape
<1>4. ComeOnce
  BY <1>2 DEF ComeOnce
<1>5. Accounted
  BY <1>0, <1>2 DEF Accounted
<1>. QED
  BY <1>1, <1>3, <1>4, <1>5 DEF SumsInv

\* What has been seen, spelt out.
LEMMA SeenIs ==
  ASSUME NEW x
  PROVE  /\ x \in Sums!Seen <=> \/ x \in Sums!Range(ring) \/ x \in raw \/ x \in excused
                               \/ \E b \in Sums!Buckets : x \in stats[b]
         /\ x \in Past <=> \/ x \in Sums!Seen \/ x \in cycle.batch
                          \/ \E r \in Sums!Buckets \X Classes : x \in tallies[r]
         /\ x \in Sums!DrainSince <=> x \in Sums!Range(ring) /\ x.at >= since
BY DEF Sums!Seen, Past, Sums!DrainSince

LEMMA PastTyped ==
  ASSUME SumsInv, NEW x \in Past
  PROVE  x \in Sums!Trace
<1>1. x \in Sums!Range(ring) => x \in Sums!Trace
  BY DEF SumsInv, Sums!TypeOK, Sums!Range
<1>. QED
  BY <1>1, SeenIs DEF SumsInv, Sums!TypeOK, CycleShape

LEMMA TickMoves ==
  ASSUME SumsInv, Sums!Tick
  PROVE  SumsInv'
<1>. USE SumsAssumption DEF SumsInv, Sums!Tick, Sums!database, Sums!Stored, Sums!SameId
<1>1. Sums!TypeOK'
  <2>1. due' \in BOOLEAN
    BY Zenon
  <2>2. now' \in 0..MaxTime /\ since' \in 0..now' /\ cycle'.start <= now'
    BY DEF Sums!TypeOK, CycleShape, Cycles
  <2>. QED
    BY <2>1, <2>2 DEF Sums!TypeOK
<1>2. CycleShape'
  BY DEF CycleShape, Sums!Bucket
<1>3. ComeOnce'
  BY DEF ComeOnce, Past, Sums!Seen
<1>4. Accounted'
  BY DEF Accounted, Sums!Seen, Sums!DrainSince, InBatch, Uncounted, Once, HalfCounted, Tallied,
     Sums!Bucket
<1>. QED
  BY <1>1, <1>2, <1>3, <1>4

LEMMA LogMoves ==
  ASSUME SumsInv, NEW class \in Classes, Sums!Log(class)
  PROVE  SumsInv'
<1>. USE SumsAssumption DEF SumsInv, Sums!Log, Sums!database, Sums!Stored, Sums!SameId
<1>. DEFINE t == [id |-> logged + 1, at |-> now, class |-> class]
<1>0. /\ socket' = Append(socket, t) /\ logged' = logged + 1 /\ logged \in Nat
      /\ t \in Sums!Trace /\ t.id = logged + 1 /\ socket \in Seq(Sums!Trace)
  BY DEF Sums!TypeOK, Sums!Trace
<1>1. Sums!TypeOK'
  <2>1. socket' \in Seq(Sums!Trace)
    BY <1>0
  <2>. QED
    BY <2>1 DEF Sums!TypeOK
<1>2. CycleShape'
  BY DEF CycleShape, Sums!Bucket
<1>3. ComeOnce'
  <2>1. Past' = Past
    BY DEF Past, Sums!Seen
  <2>2. /\ Len(socket) \in Nat /\ DOMAIN socket = 1..Len(socket)
        /\ DOMAIN socket' = 1..Len(socket) + 1 /\ socket'[Len(socket) + 1] = t
        /\ \A i \in DOMAIN socket : socket'[i] = socket[i] /\ i # Len(socket) + 1
    BY <1>0
  <2>3. /\ \A x \in Past : x.id \in Nat /\ x.id <= logged
        /\ \A i \in DOMAIN socket : socket[i].id \in Nat /\ socket[i].id <= logged
    <3>1. \A x \in Past : x \in Sums!Trace
      BY PastTyped
    <3>2. \A i \in DOMAIN socket : socket[i] \in Sums!Trace
      BY <1>0
    <3>3. \A x \in Sums!Trace : x.id \in Nat
      BY SumsAssumption DEF Sums!Trace
    <3>. QED
      BY <3>1, <3>2, <3>3 DEF ComeOnce
  <2>4. \A x \in Past : x.id <= logged'
    BY <2>3, <1>0
  <2>5. ASSUME NEW i \in DOMAIN socket' PROVE socket'[i].id <= logged' /\ socket'[i] \notin Past
    <3>1. CASE i = Len(socket) + 1
      BY <3>1, <2>2, <2>3, <1>0
    <3>2. CASE i \in DOMAIN socket
      BY <3>2, <2>2, <2>3, <1>0 DEF ComeOnce
    <3>. QED
      BY <3>1, <3>2, <2>2
  <2>6. ASSUME NEW i \in DOMAIN socket', NEW j \in DOMAIN socket', i # j
        PROVE  socket'[i] # socket'[j]
    <3>1. CASE i \in DOMAIN socket /\ j \in DOMAIN socket
      BY <3>1, <2>2, <2>6 DEF ComeOnce
    <3>2. CASE i \in DOMAIN socket /\ j = Len(socket) + 1
      <4>1. socket'[i].id <= logged /\ socket'[i].id \in Nat
        BY <3>2, <2>2, <2>3
      <4>. QED
        BY <4>1, <3>2, <2>2, <1>0
    <3>3. CASE j \in DOMAIN socket /\ i = Len(socket) + 1
      <4>1. socket'[j].id <= logged /\ socket'[j].id \in Nat
        BY <3>3, <2>2, <2>3
      <4>. QED
        BY <4>1, <3>3, <2>2, <1>0
    <3>. QED
      BY <3>1, <3>2, <3>3, <2>2, <2>6
  <2>. QED
    BY <2>1, <2>4, <2>5, <2>6 DEF ComeOnce
<1>4. Accounted'
  BY DEF Accounted, Sums!Seen, Sums!DrainSince, InBatch, Uncounted, Once, HalfCounted, Tallied,
     Sums!Bucket
<1>. QED
  BY <1>1, <1>2, <1>3, <1>4

\* The oldest trace, when it has to make room.
Dropped == IF Len(ring) = Capacity THEN {Head(ring)} ELSE {}

\* The buffer before and after a trace has come out of the socket.
LEMMA PushFacts ==
  ASSUME SumsInv, Sums!Push, NEW trace, trace = Head(socket)
  PROVE  /\ trace \in Sums!Trace /\ trace \notin Past /\ trace.id <= logged
         /\ ring' \in Seq(Sums!Trace) /\ Len(ring') <= Capacity
         /\ socket' \in Seq(Sums!Trace)
         /\ trace \in Sums!Range(ring')
         /\ \A x \in Sums!Range(ring') : x \in Sums!Range(ring) \/ x = trace
         /\ \A x \in Sums!Range(ring) : x \in Sums!Range(ring') \/ x \in Dropped
         /\ \A i \in DOMAIN socket' : /\ i + 1 \in DOMAIN socket /\ socket'[i] = socket[i + 1]
                                     /\ i \in Nat /\ i > 0
         /\ 1 \in DOMAIN socket /\ socket[1] = trace
         /\ Dropped \subseteq Sums!Trace
<1>1. /\ socket \in Seq(Sums!Trace) /\ socket # <<>> /\ socket' = Tail(socket)
      /\ ring \in Seq(Sums!Trace) /\ Len(ring) <= Capacity /\ Capacity \in Nat \ {0}
  BY RingAssumption DEF SumsInv, Sums!TypeOK, Sums!Push
<1>2. /\ trace \in Sums!Trace /\ socket' \in Seq(Sums!Trace)
      /\ \A i \in DOMAIN socket' : /\ i + 1 \in DOMAIN socket /\ socket'[i] = socket[i + 1]
                                  /\ i \in Nat /\ i > 0
      /\ 1 \in DOMAIN socket /\ socket[1] = trace
  BY <1>1
<1>3. trace \notin Past /\ trace.id <= logged
  BY <1>2 DEF SumsInv, ComeOnce
<1>. DEFINE kept == IF Len(ring) = Capacity THEN Tail(ring) ELSE ring
<1>4. ring' = Append(kept, trace)
  BY DEF Sums!Push
<1>5. /\ kept \in Seq(Sums!Trace) /\ Len(kept) < Capacity /\ Len(kept) \in Nat
      /\ \A k \in DOMAIN kept : \E j \in DOMAIN ring : kept[k] = ring[j]
      /\ \A j \in DOMAIN ring : ring[j] \in Dropped \/ \E k \in DOMAIN kept : kept[k] = ring[j]
      /\ Dropped \subseteq Sums!Trace
  <2>1. CASE Len(ring) = Capacity
    <3>1. ring # <<>> /\ kept = Tail(ring) /\ Dropped = {ring[1]} /\ DOMAIN ring = 1..Len(ring)
      BY <1>1, <2>1 DEF Dropped
    <3>2. /\ kept \in Seq(Sums!Trace) /\ Len(kept) = Len(ring) - 1 /\ DOMAIN kept = 1..Len(ring) - 1
          /\ \A k \in 1..Len(ring) - 1 : kept[k] = ring[k + 1] /\ k + 1 \in 1..Len(ring)
      <4>. HIDE DEF kept
      <4>. QED
        BY <1>1, <3>1
    <3>3. \A j \in 1..Len(ring) : j = 1 \/ (j - 1 \in 1..Len(ring) - 1 /\ kept[j - 1] = ring[j])
      BY <3>2, <1>1
    <3>. QED
      <4>. HIDE DEF kept
      <4>1. \A k \in DOMAIN kept : \E j \in DOMAIN ring : kept[k] = ring[j]
        BY <3>1, <3>2
      <4>2. \A j \in DOMAIN ring : ring[j] \in Dropped \/ \E k \in DOMAIN kept : kept[k] = ring[j]
        BY <3>1, <3>2, <3>3
      <4>3. Dropped \subseteq Sums!Trace
        BY <3>1, <1>1
      <4>. QED
        BY <4>1, <4>2, <4>3, <3>2, <1>1, <2>1
  <2>2. CASE Len(ring) # Capacity
    BY <1>1, <2>2 DEF Dropped
  <2>. QED
    BY <2>1, <2>2
<1>. HIDE DEF kept
<1>6. /\ ring' \in Seq(Sums!Trace) /\ Len(ring') <= Capacity
      /\ DOMAIN ring' = 1..Len(kept) + 1 /\ ring'[Len(kept) + 1] = trace
      /\ DOMAIN kept = 1..Len(kept) /\ \A k \in DOMAIN kept : ring'[k] = kept[k]
  BY <1>1, <1>2, <1>4, <1>5
<1>7. /\ trace \in Sums!Range(ring')
      /\ \A x \in Sums!Range(ring') : x \in Sums!Range(ring) \/ x = trace
      /\ \A x \in Sums!Range(ring) : x \in Sums!Range(ring') \/ x \in Dropped
  BY <1>5, <1>6 DEF Sums!Range
<1>. QED
  BY <1>2, <1>3, <1>5, <1>6, <1>7

LEMMA PushMoves ==
  ASSUME SumsInv, Sums!Push
  PROVE  SumsInv'
<1>. USE SumsAssumption DEF SumsInv, Sums!Stored, Sums!SameId
<1>. DEFINE trace == Head(socket)
<1>0. /\ UNCHANGED <<now, due, since, cycle, raw, stats, tallies, logged, restarts>>
      /\ excused' = excused \cup {x \in Dropped : x.at >= since /\ x \notin cycle.batch}
                             \cup {x \in {trace} : x.at < since}
  BY DEF Sums!Push, Sums!database, Dropped
<1>. HIDE DEF trace
<1>1. /\ trace \in Sums!Trace /\ trace \notin Past /\ trace.id <= logged
      /\ ring' \in Seq(Sums!Trace) /\ Len(ring') <= Capacity
      /\ socket' \in Seq(Sums!Trace)
      /\ trace \in Sums!Range(ring')
      /\ \A x \in Sums!Range(ring') : x \in Sums!Range(ring) \/ x = trace
      /\ \A x \in Sums!Range(ring) : x \in Sums!Range(ring') \/ x \in Dropped
      /\ \A i \in DOMAIN socket' : /\ i + 1 \in DOMAIN socket /\ socket'[i] = socket[i + 1]
                                  /\ i \in Nat /\ i > 0
      /\ 1 \in DOMAIN socket /\ socket[1] = trace
      /\ Dropped \subseteq Sums!Trace
  BY PushFacts DEF trace
<1>2. Sums!TypeOK'
  <2>1. excused' \subseteq Sums!Trace
    BY <1>0, <1>1 DEF Sums!TypeOK
  <2>. QED
    BY <1>0, <1>1, <2>1 DEF Sums!TypeOK
<1>3. CycleShape'
  BY <1>0 DEF CycleShape, Cycles, Sums!Bucket
<1>4. \A x : x \in Past' => x \in Past \/ x = trace
  <2>. SUFFICES ASSUME NEW x, x \in Past' PROVE x \in Past \/ x = trace
    OBVIOUS
  <2>1. CASE x \in Sums!Range(ring')
    BY <2>1, <1>1 DEF Past, Sums!Seen
  <2>2. CASE x \in excused'
    <3>1. Dropped \subseteq Sums!Range(ring)
      BY RingAssumption DEF Dropped, Sums!Range, Sums!TypeOK
    <3>. QED
      BY <2>2, <3>1, <1>0 DEF Past, Sums!Seen
  <2>3. CASE x \notin Sums!Range(ring') /\ x \notin excused'
    BY <2>3, <1>0 DEF Past, Sums!Seen
  <2>. QED
    BY <2>1, <2>2, <2>3
<1>5. ComeOnce'
  <2>1. \A x \in Past' : x.id <= logged'
    BY <1>0, <1>1, <1>4 DEF ComeOnce
  <2>2. ASSUME NEW i \in DOMAIN socket' PROVE socket'[i].id <= logged' /\ socket'[i] \notin Past'
    <3>1. /\ i + 1 \in DOMAIN socket /\ socket'[i] = socket[i + 1] /\ i + 1 # 1
      BY <1>1
    <3>2. socket[i + 1] # trace /\ socket[i + 1] \notin Past /\ socket[i + 1].id <= logged
      BY <3>1, <1>1 DEF ComeOnce
    <3>. QED
      BY <3>1, <3>2, <1>0, <1>4
  <2>3. \A i, j \in DOMAIN socket' : i # j => socket'[i] # socket'[j]
    BY <1>1 DEF ComeOnce
  <2>. QED
    BY <2>1, <2>2, <2>3 DEF ComeOnce
<1>6. Accounted'
  <2>. SUFFICES ASSUME NEW x, x \in (Sums!Seen \cup cycle.batch)', x \notin excused'
                PROVE  IF x \in cycle'.batch THEN InBatch(x)'
                       ELSE IF x \in Sums!DrainSince' THEN Uncounted(x)' ELSE Once(x)'
    BY DEF Accounted
  <2>0. (InBatch(x)' <=> InBatch(x)) /\ (Uncounted(x)' <=> Uncounted(x)) /\ (Once(x)' <=> Once(x))
    BY <1>0 DEF InBatch, Uncounted, Once, HalfCounted, Tallied, Sums!Bucket
  <2>1. x \notin excused
    BY <1>0
  <2>2. CASE x = trace
    <3>1. ~(x.at < since) /\ x.at \in Nat /\ since \in Nat
      BY <2>2, <1>0, <1>1 DEF Sums!Trace, Sums!TypeOK
    <3>2. x \in Sums!DrainSince' /\ x \notin cycle.batch
      BY <2>2, <3>1, <1>0, <1>1 DEF Sums!DrainSince, Past
    <3>3. Uncounted(x)
      <4>1. x.class \in Classes
        BY <2>2, <1>1 DEF Sums!Trace
      <4>. QED
        BY <4>1, <2>2, <1>1 DEF Uncounted, Tallied, Past, Sums!Seen
    <3>. QED
      BY <2>0, <3>2, <3>3, <1>0
  <2>3. CASE x # trace
    <3>1. x \in Sums!Seen \cup cycle.batch
      BY <2>3, <2>1, <1>0, <1>1 DEF Sums!Seen
    <3>2. CASE x \in cycle.batch
      BY <2>0, <2>1, <3>1, <3>2, <1>0 DEF Accounted
    <3>3. CASE x \notin cycle.batch
      <4>1. x \in Sums!DrainSince' <=> x \in Sums!DrainSince
        BY <2>1, <2>3, <3>3, <1>0, <1>1 DEF Sums!DrainSince
      <4>. QED
        BY <2>0, <2>1, <3>1, <3>3, <4>1, <1>0 DEF Accounted
    <3>. QED
      BY <3>2, <3>3
  <2>. QED
    BY <2>2, <2>3
<1>. QED
  BY <1>2, <1>3, <1>5, <1>6

LEMMA CycleBegins ==
  ASSUME SumsInv, Sums!Begin
  PROVE  SumsInv'
<1>. USE SumsAssumption DEF SumsInv, Sums!Stored, Sums!SameId
<1>0. /\ UNCHANGED <<now, socket, ring, since, raw, stats, tallies, logged, restarts, excused>>
      /\ due' = FALSE /\ cycle.batch = {}
      /\ cycle' = [step |-> "drain", start |-> now, batch |-> {}, left |-> {}]
  BY DEF Sums!Begin, Sums!database, Sums!Idle
<1>1. cycle'.step = "drain" /\ cycle'.start = now /\ cycle'.batch = {} /\ cycle'.left = {}
  BY <1>0
<1>2. Sums!TypeOK'
  <2>1. now \in Nat /\ cycle'.start <= now'
    BY <1>0, <1>1 DEF Sums!TypeOK
  <2>. QED
    BY <1>0, <1>1, <2>1 DEF Sums!TypeOK
<1>3. CycleShape'
  <2>1. now \in Nat /\ since <= now
    BY DEF Sums!TypeOK
  <2>2. cycle' \in Cycles
    BY <1>0, <2>1 DEF Cycles
  <2>. QED
    BY <1>0, <1>1, <2>1, <2>2 DEF CycleShape
<1>4. ComeOnce'
  BY <1>0, <1>1 DEF ComeOnce, Past, Sums!Seen
<1>5. Accounted'
  BY <1>0, <1>1 DEF Accounted, Sums!Seen, Sums!DrainSince, Uncounted, Once, Tallied
<1>. QED
  BY <1>2, <1>3, <1>4, <1>5

LEMMA DrainMoves ==
  ASSUME SumsInv, Sums!Drain
  PROVE  SumsInv'
<1>. USE SumsAssumption DEF SumsInv, Sums!Stored, Sums!SameId
<1>0. /\ UNCHANGED <<now, socket, ring, due, raw, stats, tallies, logged, restarts>>
      /\ cycle.step = "drain" /\ cycle.batch = {} /\ cycle.left = {}
      /\ excused' = excused \cup {x \in Sums!DrainSince : x.at >= cycle.start}
      /\ cycle \in Cycles /\ cycle.start <= now /\ now \in Nat /\ since <= cycle.start /\ since \in Nat
  BY DEF Sums!Drain, Sums!database, CycleShape, Sums!TypeOK
<1>1. \A x \in Sums!DrainSince : x \in Past /\ x \in Sums!Trace
  BY PastTyped DEF Sums!DrainSince, Past, Sums!Seen
<1>2. \/ /\ Sums!DrainSince = {}
         /\ cycle'.step = "idle" /\ cycle'.start = 0 /\ cycle'.batch = {} /\ cycle'.left = {}
         /\ cycle' \in Cycles /\ since' = cycle.start
      \/ /\ cycle'.step = "raw" /\ cycle'.start = cycle.start /\ cycle'.batch = Sums!DrainSince
         /\ cycle'.left = {} /\ cycle' \in Cycles /\ since' = since
  <2>1. CASE Sums!DrainSince = {}
    <3>1. cycle' = [step |-> "idle", start |-> 0, batch |-> {}, left |-> {}] /\ since' = cycle.start
      BY <2>1 DEF Sums!Drain, Sums!Idle
    <3>. QED
      BY <2>1, <3>1 DEF Cycles
  <2>2. CASE Sums!DrainSince # {}
    <3>1. cycle' = [cycle EXCEPT !.step = "raw", !.batch = Sums!DrainSince] /\ since' = since
      BY <2>2 DEF Sums!Drain
    <3>2. Sums!DrainSince \in SUBSET Sums!Trace
      BY <1>1
    <3>. QED
      BY <3>1, <3>2, <1>0 DEF Cycles
  <2>. QED
    BY <2>1, <2>2
<1>3. Sums!TypeOK'
  <2>1. excused' \subseteq Sums!Trace
    BY <1>0, <1>1 DEF Sums!TypeOK
  <2>2. since' \in 0..now /\ cycle'.start <= now
    BY <1>0, <1>2 DEF Cycles
  <2>. QED
    BY <1>0, <1>2, <2>1, <2>2 DEF Sums!TypeOK, Cycles
<1>4. CycleShape'
  <2>1. \A x \in cycle'.batch : x.at >= since'
    BY <1>2 DEF Sums!DrainSince
  <2>. QED
    BY <1>0, <1>2, <2>1 DEF CycleShape
<1>5. ComeOnce'
  <2>1. \A x \in Past' : x \in Past
    BY <1>0, <1>1, <1>2 DEF Past, Sums!Seen
  <2>. QED
    BY <1>0, <2>1 DEF ComeOnce
<1>6. Accounted'
  <2>. SUFFICES ASSUME NEW x, x \in (Sums!Seen \cup cycle.batch)', x \notin excused'
                PROVE  IF x \in cycle'.batch THEN InBatch(x)'
                       ELSE IF x \in Sums!DrainSince' THEN Uncounted(x)' ELSE Once(x)'
    BY DEF Accounted
  <2>1. x \notin excused /\ (Uncounted(x)' <=> Uncounted(x)) /\ (Once(x)' <=> Once(x))
    BY <1>0 DEF Uncounted, Once, Tallied
  <2>2. x \in Sums!Seen
    BY <2>1, <1>0, <1>2 DEF Sums!Seen, Sums!DrainSince
  <2>3. IF x \in Sums!DrainSince THEN Uncounted(x) ELSE Once(x)
    BY <2>1, <2>2, <1>0 DEF Accounted
  <2>4. CASE Sums!DrainSince = {}
    <3>1. x \notin Sums!DrainSince'
      <4>1. x \in Sums!Range(ring) /\ x.at >= since' => x \in Sums!DrainSince
        <5>1. x \in Sums!Range(ring) => x.at \in Nat
          BY PastTyped DEF Past, Sums!Seen, Sums!Trace
        <5>2. cycle.start \in Nat /\ since' \in {since, cycle.start}
          BY <1>0, <1>2 DEF Cycles
        <5>. QED
          BY <5>1, <5>2, <1>0 DEF Sums!DrainSince
      <4>. QED
        BY <4>1, <2>4, <1>0 DEF Sums!DrainSince
    <3>2. cycle'.batch = {}
      BY <2>4, <1>2
    <3>. QED
      BY <3>1, <3>2, <2>1, <2>3, <2>4
  <2>5. CASE Sums!DrainSince # {}
    <3>1. cycle'.batch = Sums!DrainSince /\ Sums!DrainSince' = Sums!DrainSince /\ cycle'.step = "raw"
          /\ cycle'.start = cycle.start
      BY <2>5, <1>0, <1>2 DEF Sums!DrainSince
    <3>2. CASE x \in Sums!DrainSince
      <4>1. x.at < cycle.start
        <5>1. x.at \in Nat /\ cycle.start \in Nat /\ ~(x.at >= cycle.start)
          BY <3>2, <1>0, <1>1 DEF Sums!Trace, Cycles
        <5>. QED
          BY <5>1
      <4>. QED
        BY <4>1, <3>1, <3>2, <2>1, <2>3 DEF InBatch
    <3>3. CASE x \notin Sums!DrainSince
      BY <3>1, <3>3, <2>1, <2>3
    <3>. QED
      BY <3>2, <3>3
  <2>. QED
    BY <2>4, <2>5
<1>. QED
  BY <1>3, <1>4, <1>5, <1>6

LEMMA WriteBatchMoves ==
  ASSUME SumsInv, Sums!WriteBatch
  PROVE  SumsInv'
<1>. USE SumsAssumption DEF SumsInv
<1>0. /\ UNCHANGED <<now, socket, ring, due, since, stats, tallies, logged, restarts, excused>>
      /\ cycle.step = "raw" /\ raw' = raw \cup Sums!Inserted /\ cycle \in Cycles
      /\ cycle'.step = "stats" /\ cycle'.start = cycle.start /\ cycle'.batch = cycle.batch
      /\ cycle'.left = cycle.left /\ cycle' \in Cycles
  BY DEF Sums!WriteBatch, CycleShape, Cycles
<1>5. Sums!Inserted \subseteq cycle.batch /\ cycle.batch \subseteq Sums!Trace
  BY <1>0 DEF Sums!Inserted, Cycles
<1>1. Sums!TypeOK' /\ CycleShape'
  BY <1>0, <1>5 DEF Sums!TypeOK, CycleShape, Cycles
<1>2. ComeOnce'
  <2>1. \A x \in Past' : x \in Past
    BY <1>0, <1>5 DEF Past, Sums!Seen
  <2>. QED
    BY <1>0, <2>1 DEF ComeOnce
<1>3. ASSUME NEW x \in cycle.batch PROVE Sums!Stored(x)'
  <2>1. CASE Sums!Stored(x)
    BY <1>0, <2>1 DEF Sums!Stored, Sums!SameId
  <2>2. CASE ~Sums!Stored(x)
    <3>. DEFINE T == {y.id : y \in {z \in cycle.batch : Sums!SameId(z, x)}}
    <3>1. T \subseteq Nat /\ x.id \in T
      BY <1>5 DEF Sums!Trace, Sums!SameId
    <3>2. PICK i \in T : \A j \in T : i <= j
      <4>. HIDE DEF T
      <4>. QED
        BY <3>1, Least
    <3>3. PICK y \in cycle.batch : Sums!SameId(y, x) /\ y.id = i
      OBVIOUS
    <3>4. ~Sums!Stored(y) /\ \A z \in cycle.batch : Sums!SameId(y, z) => y.id <= z.id
      BY <2>2, <3>2, <3>3 DEF Sums!Stored, Sums!SameId
    <3>5. y \in raw'
      BY <1>0, <3>4 DEF Sums!Inserted
    <3>. QED
      BY <3>3, <3>5 DEF Sums!Stored, Sums!SameId
  <2>. QED
    BY <2>1, <2>2
<1>4. Accounted'
  <2>. SUFFICES ASSUME NEW x, x \in (Sums!Seen \cup cycle.batch)', x \notin excused'
                PROVE  IF x \in cycle'.batch THEN InBatch(x)'
                       ELSE IF x \in Sums!DrainSince' THEN Uncounted(x)' ELSE Once(x)'
    BY DEF Accounted
  <2>1. x \in Sums!Seen \cup cycle.batch
    BY <1>0, <1>5 DEF Sums!Seen
  <2>2. IF x \in cycle.batch THEN InBatch(x)
        ELSE IF x \in Sums!DrainSince THEN Uncounted(x) ELSE Once(x)
    BY <2>1, <1>0 DEF Accounted
  <2>3. /\ Uncounted(x)' <=> Uncounted(x)
        /\ Once(x) => Once(x)'
        /\ x \in Sums!DrainSince' <=> x \in Sums!DrainSince
    BY <1>0 DEF Uncounted, Once, Tallied, Sums!DrainSince, Sums!Stored, Sums!SameId
  <2>4. x \in cycle.batch => Sums!Stored(x)'
    BY <1>0, <1>3
  <2>5. x \in cycle.batch /\ InBatch(x) => InBatch(x)'
    BY <1>0, <2>3, <2>4 DEF InBatch
  <2>. QED
    BY <1>0, <2>2, <2>3, <2>5
<1>. QED
  BY <1>1, <1>2, <1>4

LEMMA WriteStatsMoves ==
  ASSUME SumsInv, Sums!WriteStats
  PROVE  SumsInv'
<1>. USE SumsAssumption DEF SumsInv, Sums!Stored, Sums!SameId
<1>. DEFINE B == Sums!Bucket
<1>0. /\ UNCHANGED <<now, socket, ring, due, since, raw, tallies, logged, restarts>>
      /\ cycle.step = "stats" /\ cycle \in Cycles /\ B \in Sums!Buckets
      /\ stats' = [stats EXCEPT ![B] = cycle.batch]
      /\ excused' = excused \cup (stats[B] \ cycle.batch)
      /\ cycle' = [cycle EXCEPT !.step = "rows", !.left = {x.class : x \in cycle.batch}]
  BY BucketType DEF Sums!WriteStats, CycleShape
<1>1. /\ cycle'.step = "rows" /\ cycle'.start = cycle.start /\ cycle'.batch = cycle.batch
      /\ cycle'.left = {x.class : x \in cycle.batch} /\ cycle' \in Cycles /\ Sums!Bucket' = B
      /\ cycle'.left \subseteq Classes
  <2>1. {x.class : x \in cycle.batch} \subseteq Classes
    BY <1>0 DEF Cycles, Sums!Trace
  <2>. QED
    BY <2>1, <1>0 DEF Cycles, Sums!Bucket
<1>. HIDE DEF B
<1>2. /\ stats' \in [Sums!Buckets -> SUBSET Sums!Trace] /\ stats[B] \subseteq Sums!Trace
      /\ stats'[B] = cycle.batch /\ \A d \in Sums!Buckets : d # B => stats'[d] = stats[d]
  BY <1>0 DEF Sums!TypeOK, Cycles
<1>3. Sums!TypeOK'
  BY <1>0, <1>1, <1>2 DEF Sums!TypeOK
<1>4. CycleShape'
  BY <1>0, <1>1, <1>2 DEF CycleShape
<1>5. ComeOnce'
  <2>1. \A x \in Past' : x \in Past
    BY <1>0, <1>1, <1>2 DEF Past, Sums!Seen
  <2>. QED
    BY <1>0, <2>1 DEF ComeOnce
<1>6. Accounted'
  <2>. SUFFICES ASSUME NEW x, x \in (Sums!Seen \cup cycle.batch)', x \notin excused'
                PROVE  IF x \in cycle'.batch THEN InBatch(x)'
                       ELSE IF x \in Sums!DrainSince' THEN Uncounted(x)' ELSE Once(x)'
    BY DEF Accounted
  <2>1. x \in Sums!Seen \cup cycle.batch /\ x \notin excused
    BY <1>0, <1>1, <1>2 DEF Sums!Seen
  <2>2. IF x \in cycle.batch THEN InBatch(x)
        ELSE IF x \in Sums!DrainSince THEN Uncounted(x) ELSE Once(x)
    BY <2>1 DEF Accounted
  <2>3. CASE x \in cycle.batch
    <3>1. Uncounted(x) /\ Sums!Stored(x) /\ x.at < cycle.start
      BY <2>2, <2>3, <1>0 DEF InBatch
    <3>2. x.class \in cycle'.left
      BY <2>3, <1>1
    <3>3. HalfCounted(x)'
      BY <3>1, <3>2, <2>3, <1>0, <1>1, <1>2 DEF HalfCounted, Uncounted, Tallied
    <3>. QED
      BY <3>1, <3>3, <2>3, <1>1 DEF InBatch
  <2>4. CASE x \notin cycle.batch
    <3>1. x \notin stats[B] /\ x \notin stats'[B]
      BY <2>4, <1>0, <1>2
    <3>2. \A d \in Sums!Buckets : /\ (x \in stats'[d] <=> x \in stats[d])
                                 /\ (Tallied(d, x)' <=> Tallied(d, x))
      BY <3>1, <1>0, <1>2 DEF Tallied
    <3>3. (Uncounted(x)' <=> Uncounted(x)) /\ (Once(x) => Once(x)')
      BY <3>2, <1>0 DEF Uncounted, Once
    <3>4. x \in Sums!DrainSince' <=> x \in Sums!DrainSince
      BY <1>0 DEF Sums!DrainSince
    <3>. QED
      BY <2>2, <2>4, <3>3, <3>4, <1>1
  <2>. QED
    BY <2>3, <2>4
<1>. QED
  BY <1>3, <1>4, <1>5, <1>6

LEMMA WriteRowMoves ==
  ASSUME SumsInv, NEW class \in Classes, Sums!WriteRow(class)
  PROVE  SumsInv'
<1>. USE SumsAssumption DEF SumsInv, Sums!Stored, Sums!SameId
<1>. DEFINE B == Sums!Bucket
            part == {x \in cycle.batch : x.class = class}
<1>0. /\ UNCHANGED <<now, socket, ring, due, since, raw, stats, logged, restarts, excused>>
      /\ cycle.step = "rows" /\ cycle \in Cycles /\ B \in Sums!Buckets /\ class \in cycle.left
      /\ tallies' = [tallies EXCEPT ![<<B, class>>] = part]
      /\ cycle' = [cycle EXCEPT !.left = cycle.left \ {class}]
      /\ stats[B] = cycle.batch
  BY BucketType DEF Sums!WriteRow, CycleShape
<1>1. /\ cycle'.step = "rows" /\ cycle'.start = cycle.start /\ cycle'.batch = cycle.batch
      /\ cycle'.left = cycle.left \ {class} /\ cycle' \in Cycles /\ Sums!Bucket' = B
      /\ cycle'.left \subseteq Classes
  BY <1>0 DEF Cycles, Sums!Bucket
<1>2. /\ part \subseteq Sums!Trace /\ part \subseteq cycle.batch
      /\ \A x : x \in part <=> x \in cycle.batch /\ x.class = class
  BY <1>0 DEF Cycles
<1>. HIDE DEF B, part
<1>3. /\ tallies' \in [Sums!Buckets \X Classes -> SUBSET Sums!Trace]
      /\ tallies'[<<B, class>>] = part
      /\ \A r \in Sums!Buckets \X Classes : r # <<B, class>> => tallies'[r] = tallies[r]
  BY <1>0, <1>2 DEF Sums!TypeOK
<1>4. Sums!TypeOK'
  BY <1>0, <1>1, <1>3 DEF Sums!TypeOK
<1>5. CycleShape'
  BY <1>0, <1>1 DEF CycleShape
<1>6. ComeOnce'
  <2>1. \A x \in Past' : x \in Past
    BY <1>0, <1>1, <1>2, <1>3 DEF Past, Sums!Seen
  <2>. QED
    BY <1>0, <2>1 DEF ComeOnce
<1>7. Accounted'
  <2>. SUFFICES ASSUME NEW x, x \in (Sums!Seen \cup cycle.batch)', x \notin excused'
                PROVE  IF x \in cycle'.batch THEN InBatch(x)'
                       ELSE IF x \in Sums!DrainSince' THEN Uncounted(x)' ELSE Once(x)'
    BY DEF Accounted
  <2>1. x \in Sums!Seen \cup cycle.batch /\ x \notin excused
    BY <1>0, <1>1 DEF Sums!Seen
  <2>2. IF x \in cycle.batch THEN InBatch(x)
        ELSE IF x \in Sums!DrainSince THEN Uncounted(x) ELSE Once(x)
    BY <2>1 DEF Accounted
  <2>3. x.class \in Classes
    <3>1. x \in Past
      BY <2>1 DEF Past
    <3>. QED
      BY <3>1, PastTyped DEF Sums!Trace
  <2>4. \A d \in Sums!Buckets :
          Tallied(d, x)' <=> IF d = B /\ x.class = class THEN x \in cycle.batch ELSE Tallied(d, x)
    <3>. SUFFICES ASSUME NEW d \in Sums!Buckets
                  PROVE  x \in tallies'[<<d, x.class>>] <=>
                           IF d = B /\ x.class = class THEN x \in cycle.batch
                           ELSE x \in tallies[<<d, x.class>>]
      BY DEF Tallied
    <3>1. CASE d = B /\ x.class = class
      BY <3>1, <1>2, <1>3
    <3>2. CASE ~(d = B /\ x.class = class)
      <4>1. <<d, x.class>> \in Sums!Buckets \X Classes /\ <<d, x.class>> # <<B, class>>
        BY <3>2, <2>3
      <4>. QED
        BY <3>2, <4>1, <1>3
    <3>. QED
      BY <3>1, <3>2
  <2>5. CASE x \in cycle.batch
    <3>1. HalfCounted(x) /\ x.at < cycle.start
      BY <2>2, <2>5, <1>0 DEF InBatch
    <3>2. \A d \in Sums!Buckets : /\ x \in stats[d] <=> d = B
                                 /\ (Tallied(d, x) <=> (d = B /\ x.class \notin cycle.left))
      BY <3>1 DEF HalfCounted, B
    <3>3. \A d \in Sums!Buckets : (Tallied(d, x)' <=> (d = B /\ x.class \notin cycle'.left))
      <4>. SUFFICES ASSUME NEW d \in Sums!Buckets
                    PROVE  (Tallied(d, x)' <=> (d = B /\ x.class \notin cycle'.left))
        OBVIOUS
      <4>1. Tallied(d, x)' <=> IF d = B /\ x.class = class THEN TRUE ELSE Tallied(d, x)
        BY <2>4, <2>5
      <4>2. (Tallied(d, x) <=> (d = B /\ x.class \notin cycle.left))
        BY <3>2
      <4>3. x.class \in cycle'.left <=> x.class \in cycle.left /\ x.class # class
        BY <1>1
      <4>. QED
        BY <4>1, <4>2, <4>3
    <3>4. HalfCounted(x)'
      <4>1. Sums!Stored(x)'
        BY <3>1, <1>0 DEF HalfCounted
      <4>2. \A d \in Sums!Buckets : /\ x \in stats'[d] <=> d = Sums!Bucket'
                                   /\ (Tallied(d, x)' <=>
                                         (d = Sums!Bucket' /\ x.class \notin cycle'.left))
        BY <3>2, <3>3, <1>0, <1>1
      <4>. QED
        BY <4>1, <4>2 DEF HalfCounted
    <3>. QED
      BY <3>1, <3>4, <2>5, <1>1 DEF InBatch
  <2>6. CASE x \notin cycle.batch
    <3>1. x \notin stats[B]
      BY <2>6, <1>0
    <3>2. x \in Sums!DrainSince' <=> x \in Sums!DrainSince
      BY <1>0 DEF Sums!DrainSince
    <3>3. Uncounted(x) => Uncounted(x)'
      BY <2>4, <2>6, <1>0 DEF Uncounted
    <3>4. ASSUME Once(x) PROVE Once(x)'
      <4>1. PICK b \in Sums!Buckets :
              \A d \in Sums!Buckets : (x \in stats[d] <=> d = b) /\ (Tallied(d, x) <=> d = b)
        BY <3>4 DEF Once
      <4>2. b # B /\ ~Tallied(B, x)
        BY <3>1, <4>1, <1>0
      <4>3. \A d \in Sums!Buckets : (x \in stats'[d] <=> d = b) /\ (Tallied(d, x)' <=> d = b)
        BY <2>4, <2>6, <4>1, <4>2, <1>0
      <4>. QED
        BY <4>3, <3>4, <1>0 DEF Once
    <3>. QED
      BY <2>2, <2>6, <3>2, <3>3, <3>4, <1>1
  <2>. QED
    BY <2>5, <2>6
<1>. QED
  BY <1>4, <1>5, <1>6, <1>7

LEMMA FinishMoves ==
  ASSUME SumsInv, Sums!Finish
  PROVE  SumsInv'
<1>. USE SumsAssumption DEF SumsInv, Sums!Stored, Sums!SameId
<1>0. /\ UNCHANGED <<now, socket, ring, due, raw, stats, tallies, logged, restarts>>
      /\ cycle.step = "rows" /\ cycle \in Cycles /\ cycle.left = {} /\ Sums!Bucket \in Sums!Buckets
      /\ since' = cycle.start /\ since <= cycle.start /\ cycle.start \in Nat /\ since \in Nat
      /\ cycle.start <= now /\ now \in Nat
      /\ excused' = excused \cup {x \in Sums!DrainSince \ cycle.batch : x.at < cycle.start}
  BY BucketType DEF Sums!Finish, Sums!PassedOver, Sums!database, CycleShape, Cycles, Sums!TypeOK
<1>1. /\ cycle'.step = "idle" /\ cycle'.start = 0
      /\ cycle'.batch = {} /\ cycle'.left = {} /\ cycle' \in Cycles
  <2>1. cycle' = [step |-> "idle", start |-> 0, batch |-> {}, left |-> {}]
    BY DEF Sums!Finish, Sums!Idle
  <2>. QED
    BY <2>1 DEF Cycles
<1>2. \A x \in Sums!DrainSince : x \in Past /\ x \in Sums!Trace
  BY PastTyped DEF Sums!DrainSince, Past, Sums!Seen
<1>3. Sums!TypeOK'
  <2>1. excused' \subseteq Sums!Trace
    BY <1>0, <1>2 DEF Sums!TypeOK
  <2>2. since' \in 0..now /\ cycle'.start <= now
    BY <1>0, <1>1
  <2>. QED
    BY <1>0, <1>1, <2>1, <2>2 DEF Sums!TypeOK
<1>4. CycleShape'
  BY <1>0, <1>1 DEF CycleShape
<1>5. ComeOnce'
  <2>1. \A x \in Past' : x \in Past
    BY <1>0, <1>1, <1>2 DEF Past, Sums!Seen
  <2>. QED
    BY <1>0, <2>1 DEF ComeOnce
<1>6. Accounted'
  <2>. SUFFICES ASSUME NEW x, x \in (Sums!Seen \cup cycle.batch)', x \notin excused'
                PROVE  IF x \in Sums!DrainSince' THEN Uncounted(x)' ELSE Once(x)'
    BY <1>1 DEF Accounted
  <2>1. x \in Sums!Seen /\ x \notin excused
    BY <1>0, <1>1, <1>2 DEF Sums!Seen, Sums!DrainSince
  <2>2. IF x \in cycle.batch THEN InBatch(x)
        ELSE IF x \in Sums!DrainSince THEN Uncounted(x) ELSE Once(x)
    BY <2>1 DEF Accounted
  <2>3. (Uncounted(x)' <=> Uncounted(x)) /\ (Once(x)' <=> Once(x))
    BY <1>0 DEF Uncounted, Once, Tallied
  <2>4. x.at \in Nat
    BY <2>1, PastTyped DEF Past, Sums!Trace
  <2>5. x \in Sums!DrainSince' <=> x \in Sums!Range(ring) /\ x.at >= cycle.start
    BY <1>0 DEF Sums!DrainSince
  <2>6. CASE x \in cycle.batch
    <3>1. x.at < cycle.start /\ HalfCounted(x)
      BY <2>2, <2>6, <1>0 DEF InBatch
    <3>2. Once(x)
      BY <3>1, <1>0 DEF HalfCounted, Once
    <3>. QED
      BY <3>1, <3>2, <2>3, <2>4, <2>5, <1>0
  <2>7. CASE x \notin cycle.batch
    <3>1. x \in Sums!DrainSince' <=> x \in Sums!DrainSince
      BY <2>4, <2>5, <2>7, <1>0 DEF Sums!DrainSince
    <3>. QED
      BY <2>2, <2>3, <2>7, <3>1
  <2>. QED
    BY <2>6, <2>7
<1>. QED
  BY <1>3, <1>4, <1>5, <1>6

LEMMA WriteFailsMoves ==
  ASSUME SumsInv, Sums!WriteFails
  PROVE  SumsInv'
<1>. USE SumsAssumption DEF SumsInv, Sums!Stored, Sums!SameId
<1>0. /\ UNCHANGED <<now, socket, ring, due, since, raw, stats, tallies, logged, restarts>>
      /\ cycle.step \in {"raw", "stats", "rows"} /\ cycle \in Cycles
      /\ excused' = excused \cup (IF cycle.step = "rows" THEN cycle.batch
                                 ELSE cycle.batch \ Sums!Range(ring))
      /\ now \in Nat
  BY DEF Sums!WriteFails, Sums!database, CycleShape, Cycles, Sums!TypeOK
<1>1. /\ cycle'.step = "idle" /\ cycle'.start = 0
      /\ cycle'.batch = {} /\ cycle'.left = {} /\ cycle' \in Cycles
  <2>1. cycle' = [step |-> "idle", start |-> 0, batch |-> {}, left |-> {}]
    BY DEF Sums!WriteFails, Sums!Idle
  <2>. QED
    BY <2>1 DEF Cycles
<1>2. Sums!TypeOK'
  <2>1. excused' \subseteq Sums!Trace
    BY <1>0 DEF Sums!TypeOK, Cycles
  <2>. QED
    BY <1>0, <1>1, <2>1 DEF Sums!TypeOK
<1>3. CycleShape'
  BY <1>0, <1>1 DEF CycleShape
<1>4. ComeOnce'
  <2>1. \A x \in Past' : x \in Past
    BY <1>0, <1>1 DEF Past, Sums!Seen
  <2>. QED
    BY <1>0, <2>1 DEF ComeOnce
<1>5. Accounted'
  <2>. SUFFICES ASSUME NEW x, x \in (Sums!Seen \cup cycle.batch)', x \notin excused'
                PROVE  IF x \in Sums!DrainSince' THEN Uncounted(x)' ELSE Once(x)'
    BY <1>1 DEF Accounted
  <2>1. x \in Sums!Seen /\ x \notin excused
    BY <1>0, <1>1 DEF Sums!Seen
  <2>2. IF x \in cycle.batch THEN InBatch(x)
        ELSE IF x \in Sums!DrainSince THEN Uncounted(x) ELSE Once(x)
    BY <2>1 DEF Accounted
  <2>3. /\ (Uncounted(x)' <=> Uncounted(x)) /\ (Once(x)' <=> Once(x))
        /\ x \in Sums!DrainSince' <=> x \in Sums!DrainSince
    BY <1>0 DEF Uncounted, Once, Tallied, Sums!DrainSince
  <2>4. CASE x \in cycle.batch
    <3>1. cycle.step \in {"raw", "stats"} /\ x \in Sums!Range(ring)
      BY <2>4, <1>0
    <3>2. Uncounted(x) /\ x.at >= since
      BY <3>1, <2>2, <2>4 DEF InBatch, CycleShape
    <3>. QED
      BY <3>1, <3>2, <2>3 DEF Sums!DrainSince
  <2>5. CASE x \notin cycle.batch
    BY <2>2, <2>3, <2>5
  <2>. QED
    BY <2>4, <2>5
<1>. QED
  BY <1>2, <1>3, <1>4, <1>5

LEMMA RestartMoves ==
  ASSUME SumsInv, Sums!Restart
  PROVE  SumsInv'
<1>. USE SumsAssumption DEF SumsInv, Sums!Stored, Sums!SameId
<1>0. /\ UNCHANGED <<now, raw, stats, tallies, logged>>
      /\ socket' = <<>> /\ ring' = <<>> /\ due' = FALSE /\ since' = 0
      /\ restarts' = restarts + 1 /\ restarts < MaxRestarts
      /\ excused' = excused \cup Sums!DrainSince \cup cycle.batch
      /\ cycle \in Cycles /\ now \in Nat
  BY DEF Sums!Restart, Sums!database, CycleShape, Sums!TypeOK
<1>1. /\ cycle'.step = "idle" /\ cycle'.start = 0
      /\ cycle'.batch = {} /\ cycle'.left = {} /\ cycle' \in Cycles
  <2>1. cycle' = [step |-> "idle", start |-> 0, batch |-> {}, left |-> {}]
    BY DEF Sums!Restart, Sums!Idle
  <2>. QED
    BY <2>1 DEF Cycles
<1>2. /\ Sums!Range(ring') = {} /\ DOMAIN socket' = {} /\ socket' \in Seq(Sums!Trace)
      /\ ring' \in Seq(Sums!Trace) /\ Len(ring') <= Capacity
  BY <1>0, RingAssumption DEF Sums!Range
<1>3. \A x \in Sums!DrainSince : x \in Past /\ x \in Sums!Trace
  BY PastTyped DEF Sums!DrainSince, Past, Sums!Seen
<1>4. Sums!TypeOK'
  <2>1. excused' \subseteq Sums!Trace
    BY <1>0, <1>3 DEF Sums!TypeOK, Cycles
  <2>2. since' \in 0..now /\ cycle'.start <= now /\ restarts' \in 0..MaxRestarts
    BY <1>0, <1>1 DEF Sums!TypeOK
  <2>3. due' \in BOOLEAN
    BY <1>0
  <2>. QED
    BY <1>0, <1>1, <1>2, <2>1, <2>2, <2>3 DEF Sums!TypeOK
<1>5. CycleShape'
  BY <1>0, <1>1 DEF CycleShape
<1>6. ComeOnce'
  <2>1. \A x \in Past' : x \in Past
    BY <1>0, <1>1, <1>2, <1>3 DEF Past, Sums!Seen
  <2>. QED
    BY <1>0, <1>2, <2>1 DEF ComeOnce
<1>7. Accounted'
  <2>. SUFFICES ASSUME NEW x, x \in (Sums!Seen \cup cycle.batch)', x \notin excused'
                PROVE  IF x \in Sums!DrainSince' THEN Uncounted(x)' ELSE Once(x)'
    BY <1>1 DEF Accounted
  <2>1. x \in Sums!Seen /\ x \notin excused /\ x \notin Sums!DrainSince /\ x \notin cycle.batch
    BY <1>0, <1>1, <1>2 DEF Sums!Seen
  <2>2. Once(x) /\ (Once(x)' <=> Once(x))
    BY <2>1, <1>0 DEF Accounted, Once, Tallied
  <2>3. x \notin Sums!DrainSince'
    BY <1>2 DEF Sums!DrainSince
  <2>. QED
    BY <2>2, <2>3
<1>. QED
  BY <1>4, <1>5, <1>6, <1>7

LEMMA SumsStep == SumsInv /\ [Sums!Next]_(Sums!vars) => SumsInv'
<1>. SUFFICES ASSUME SumsInv, [Sums!Next]_(Sums!vars) PROVE SumsInv'
  OBVIOUS
<1>1. ASSUME NEW class \in Classes, Sums!Log(class) \/ Sums!WriteRow(class) PROVE SumsInv'
  BY <1>1, LogMoves, WriteRowMoves
<1>2. CASE UNCHANGED Sums!vars
  <2>1. UNCHANGED <<now, socket, ring, due, since, cycle, raw, stats, tallies,
                    logged, restarts, excused>>
    BY <1>2 DEF Sums!vars, Sums!database
  <2>2. Sums!TypeOK' /\ CycleShape'
    BY <2>1 DEF SumsInv, Sums!TypeOK, CycleShape, Sums!Bucket
  <2>3. ComeOnce'
    BY <2>1 DEF SumsInv, ComeOnce, Past, Sums!Seen
  <2>4. Accounted'
    BY <2>1 DEF SumsInv, Accounted, Sums!Seen, Sums!DrainSince, InBatch, Uncounted, Once,
       HalfCounted, Tallied, Sums!Bucket, Sums!Stored, Sums!SameId
  <2>. QED
    BY <2>2, <2>3, <2>4 DEF SumsInv
<1>. QED
  BY <1>1, <1>2, TickMoves, PushMoves, CycleBegins, DrainMoves, WriteBatchMoves, WriteStatsMoves,
     FinishMoves, WriteFailsMoves, RestartMoves
     DEF Sums!Next

LEMMA AccountedMeansCounted == SumsInv => CountedInOneBucket
<1>. SUFFICES ASSUME SumsInv, cycle = Sums!Idle, NEW x \in Sums!Seen \ excused
              PROVE  Sums!Waiting(x) \/ Sums!CountedOnce(x)
  BY DEF CountedInOneBucket, Sums!CountedInOneBucket
<1>1. cycle.batch = {}
  BY DEF Sums!Idle
<1>2. CASE x \in Sums!DrainSince
  BY <1>1, <1>2 DEF SumsInv, Accounted, Sums!Waiting, Uncounted
<1>3. CASE x \notin Sums!DrainSince
  <2>1. Once(x)
    BY <1>1, <1>3 DEF SumsInv, Accounted
  <2>2. PICK b \in Sums!Buckets :
          \A d \in Sums!Buckets : (x \in stats[d] <=> d = b) /\ (Tallied(d, x) <=> d = b)
    BY <2>1 DEF Once
  <2>3. {d \in Sums!Buckets : x \in stats[d]} = {b}
    BY <2>2
  <2>4. Sums!Cardinality({d \in Sums!Buckets : x \in stats[d]}) = 1
    BY <2>3, CountsOne
  <2>. QED
    BY <2>1, <2>2, <2>4 DEF Once, Sums!CountedOnce, Tallied
<1>. QED
  BY <1>2, <1>3

(* However ticks, late traces, failed writes and restarts fall among the    *)
(* steps of the cycles, for any interval, phase and size of the buffer: a   *)
(* trace that none of the named exceptions touches is counted in exactly    *)
(* one bucket, in the total and in its class (tracestore/aggregator.go).    *)
THEOREM CountedInOneBucketThm == Sums!Spec => []CountedInOneBucket
BY SumsStart, SumsStep, AccountedMeansCounted, PTL DEF Sums!Spec
=============================================================================
