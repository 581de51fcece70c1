---------------------------- MODULE UdpRecvProofs ---------------------------
(***************************************************************************)
(* Proofs about UdpRecv.  UdpRecvInv is inductive: it adds to the          *)
(* properties who holds which lock, when the rx thread has a message in    *)
(* hand, which thread it serves, and that no two datagrams are equal.      *)
(* There is one lemma per action, with one step per conjunct.              *)
(***************************************************************************)
EXTENDS UdpRecv, TLAPS

\* The interrupt thread holds the interface's mutex while it runs a handler,
\* and has a socket to signal between the two halves of udprecv.
IrqInv ==
  /\ iface <=> ipc # "wait"
  /\ isock # NoSocket <=> ipc = "signal"

\* When the rx thread has a message in hand.
RxInv ==
  \A s \in Sockets :
    /\ rpc[s] \in {"top", "recv", "fetch"} => msg[s] = None
    /\ rpc[s] \in {"copy", "pbuf", "pool"} => msg[s] # None

\* The threads that hold rx_buf_avail: at most one.
Holding(t) == tpc[t] \in {"call", "served", "read"}

HolderInv ==
  /\ \A t \in Threads : Holding(t) => avail = 0
  /\ \A t, u \in Threads : Holding(t) /\ Holding(u) => t = u

\* An rx thread that serves a request serves a thread that holds rx_buf_avail.
ServedInv ==
  \A s \in Sockets :
    rpc[s] \in {"fetch", "copy", "reply"} =>
      \E t \in Threads : SocketOf[t] = s /\ tpc[t] = "served"

\* rx_buf from the copy to the reply, and from there until it is read.
BufInv ==
  /\ \A s \in Sockets : rpc[s] = "reply" /\ msg[s] # None => rx_buf = msg[s]
  /\ RxBufStable

\* RemainingBound, and what it needs between the fetch and the copy.
RemainingInv ==
  /\ RemainingBound
  /\ \A s \in Sockets :
       rpc[s] = "copy" => remaining[s] \in 1 .. Len(queue[s])

\* Datagrams are numbered in the order of arrival: no two are equal.
IdsInv ==
  /\ \A s \in Sockets : \A i \in DOMAIN queue[s] : queue[s][i].id <= arrived
  /\ \A s, r \in Sockets : \A i \in DOMAIN queue[s], j \in DOMAIN queue[r] :
       queue[s][i] = queue[r][j] => s = r /\ i = j

UdpRecvInv ==
  /\ TypeOK
  /\ IrqInv
  /\ RxInv
  /\ HolderInv
  /\ ServedInv
  /\ BufInv
  /\ RemainingInv
  /\ FetchedInOrder
  /\ IdsInv
  /\ PbufOwnership
  /\ NoLostWakeup

-----------------------------------------------------------------------------
(* Facts about sequences.                                                  *)

\* What Append, Head and Tail do to a queue.
LEMMA QueueFacts ==
  ASSUME NEW S, NEW q \in Seq(S), NEW e \in S
  PROVE  /\ Append(q, e) \in Seq(S)
         /\ Len(Append(q, e)) = Len(q) + 1
         /\ Append(q, e)[Len(q) + 1] = e
         /\ \A i \in 1 .. Len(q) : Append(q, e)[i] = q[i]
         /\ Append(q, e) # << >>
         /\ q = << >> <=> Len(q) = 0
         /\ q # << >> => /\ Head(q) \in S
                         /\ Head(q) = q[1]
                         /\ Tail(q) \in Seq(S)
                         /\ Len(Tail(q)) = Len(q) - 1
                         /\ \A i \in 1 .. Len(q) - 1 : Tail(q)[i] = q[i + 1]
                         /\ Head(Append(q, e)) = Head(q)
                         /\ Tail(Append(q, e)) = Append(Tail(q), e)
  OBVIOUS

\* A queue that grows: the history of accepted messages grows with it.
LEMMA ConcatAppend ==
  \A a, q \in Seq(Msgs), e \in Msgs : Append(a \o q, e) = a \o Append(q, e)
<1> SUFFICES ASSUME NEW a \in Seq(Msgs), NEW q \in Seq(Msgs), NEW e \in Msgs
             PROVE  Append(a \o q, e) = a \o Append(q, e)
  OBVIOUS
<1> QED
  OBVIOUS

\* A fetched message moves from the queue to the end of the history.
LEMMA ConcatFetch ==
  ASSUME NEW S, NEW a \in Seq(S), NEW q \in Seq(S), q # << >>
  PROVE  a \o q = Append(a, Head(q)) \o Tail(q)
  OBVIOUS

\* The message a datagram without content stands for is no message.
LEMMA NoneFacts == None \notin Msgs
  BY DEF None, Msgs

\* seL4_Send on a notification moves at most one thread, from "wait" to
\* "sem", and leaves a trace: the signal is pending or that thread is coming.
LEMMA SignalFacts ==
  ASSUME NEW s \in Sockets, Signal(s),
         tpc \in [Threads -> ThreadStates], aep \in [Sockets -> BOOLEAN]
  PROVE  /\ tpc' \in [Threads -> ThreadStates]
         /\ aep' \in [Sockets -> BOOLEAN]
         /\ \A t \in Threads : tpc[t] # "wait" => tpc'[t] = tpc[t]
         /\ \A t \in Threads : tpc[t] = "wait" => tpc'[t] \in {"wait", "sem"}
         /\ \A r \in Sockets : aep[r] => aep'[r]
         /\ aep'[s] \/ \E t \in Threads : SocketOf[t] = s /\ tpc'[t] = "sem"
<1>1. CASE Waiters(s) = {} /\ aep' = [aep EXCEPT ![s] = TRUE] /\ tpc' = tpc
  BY <1>1
<1>2. CASE \E t \in Waiters(s) : tpc' = [tpc EXCEPT ![t] = "sem"] /\ aep' = aep
  BY <1>2 DEF Waiters, ThreadStates
<1> QED
  BY <1>1, <1>2 DEF Signal

\* A sequence is a function on an initial segment of the positive integers.
LEMMA SeqFacts ==
  ASSUME NEW S, NEW q \in Seq(S)
  PROVE  /\ Len(q) \in Nat
         /\ DOMAIN q = 1 .. Len(q)
         /\ \A i \in DOMAIN q : i \in Nat \ {0} /\ q[i] \in S
         /\ \A i \in DOMAIN q : 1 \in DOMAIN q
         /\ q # << >> => Tail(q) \in Seq(S)
  OBVIOUS

\* The messages not fetched are a part of the queue.
LEMMA UnfetchedFacts ==
  ASSUME NEW s \in Sockets, queue[s] \in Seq(Msgs),
         msg[s] # None => queue[s] # << >>
  PROVE  Unfetched(s) \in Seq(Msgs)
<1>1. CASE msg[s] = None
  BY <1>1 DEF Unfetched
<1>2. CASE msg[s] # None
  BY <1>2, SeqFacts DEF Unfetched
<1> QED
  BY <1>1, <1>2

\* The interrupt thread takes the interface's mutex.
LEMMA IrqWaitInv ==
  ASSUME UdpRecvInv, IrqWait
  PROVE  UdpRecvInv'
<1>1. TypeOK'
  BY SocketOfAssumption DEF UdpRecvInv, TypeOK, RxStates, ThreadStates,
     IrqWait, rxVars, irqVars, histVars
<1>2. IrqInv'
  BY SocketsAssumption DEF UdpRecvInv, TypeOK, IrqInv, IrqWait, rxVars,
     irqVars, histVars
<1>3. RxInv'
  BY DEF UdpRecvInv, TypeOK, RxInv, IrqWait, rxVars, irqVars, histVars
<1>4. HolderInv'
  BY DEF UdpRecvInv, TypeOK, HolderInv, Holding, IrqWait, rxVars, irqVars,
     histVars
<1>5. ServedInv'
  BY DEF UdpRecvInv, TypeOK, ServedInv, HolderInv, Holding, IrqWait, rxVars,
     irqVars, histVars
<1>6. BufInv'
  BY DEF UdpRecvInv, TypeOK, BufInv, RxBufStable, RxInv, ServedInv, HolderInv,
     Holding, IrqWait, rxVars, irqVars, histVars
<1>7. RemainingInv'
  BY DEF UdpRecvInv, TypeOK, RemainingInv, RemainingBound, Unfetched, RxInv,
     IrqWait, rxVars, irqVars, histVars
<1>8. FetchedInOrder'
  BY DEF UdpRecvInv, TypeOK, FetchedInOrder, Unfetched, RxInv, IrqWait,
     rxVars, irqVars, histVars
<1>9. IdsInv'
  BY DEF UdpRecvInv, IdsInv, IrqWait, rxVars, irqVars, histVars
<1>10. PbufOwnership'
  BY DEF UdpRecvInv, TypeOK, PbufOwnership, IrqWait, rxVars, irqVars, histVars
<1>11. NoLostWakeup'
  BY DEF UdpRecvInv, TypeOK, NoLostWakeup, Unfetched, Coming, WillSignal,
     RxInv, IrqWait, rxVars, irqVars, histVars
<1> QED
  BY <1>1, <1>2, <1>3, <1>4, <1>5, <1>6, <1>7, <1>8, <1>9, <1>10, <1>11
     DEF UdpRecvInv

\* udprecv drops the datagram or queues it behind the others: the socket it
\* is about to signal is the only one whose queue grew.
LEMMA UdpRecvCallbackInv ==
  ASSUME UdpRecvInv, NEW s \in Sockets, UdpRecvCallback(s)
  PROVE  UdpRecvInv'
<1>a. PICK len \in Lens :
        \/ /\ PoolFull(s)
           /\ UNCHANGED <<queue, live, accepted>>
        \/ /\ ~PoolFull(s)
           /\ queue' = [queue EXCEPT ![s] = Append(@, [id |-> arrived + 1, len |-> len])]
           /\ live' = live \cup {[id |-> arrived + 1, len |-> len]}
           /\ accepted' = [accepted EXCEPT ![s] = Append(@, [id |-> arrived + 1, len |-> len])]
  BY DEF UdpRecvCallback
<1> DEFINE m == [id |-> arrived + 1, len |-> len]
<1>b. /\ m \in Msgs
      /\ m.id = arrived + 1
      /\ arrived \in Nat
  BY MaxMsgsAssumption DEF UdpRecvInv, TypeOK, UdpRecvCallback, Msgs
<1>c. \A r \in Sockets : queue[r] \in Seq(Msgs) /\ accepted[r] \in Seq(Msgs)
  BY DEF UdpRecvInv, TypeOK
<1>h. \A r \in Sockets : /\ Len(queue[r]) \in Nat
                         /\ DOMAIN queue[r] = 1 .. Len(queue[r])
                         /\ \A i \in DOMAIN queue[r] : i \in Nat \ {0} /\ queue[r][i] \in Msgs
  BY <1>c, SeqFacts
<1>i. \A i \in Msgs : i.id \in Nat
  BY MaxMsgsAssumption DEF Msgs
<1>d. \/ UNCHANGED <<queue, live, accepted>>
      \/ /\ ~PoolFull(s)
         /\ queue'[s] = Append(queue[s], m)
         /\ accepted'[s] = Append(accepted[s], m)
         /\ live' = live \cup {m}
         /\ queue' = [queue EXCEPT ![s] = Append(queue[s], m)]
         /\ accepted' = [accepted EXCEPT ![s] = Append(accepted[s], m)]
         /\ \A r \in Sockets : r # s => queue'[r] = queue[r] /\ accepted'[r] = accepted[r]
  BY <1>a DEF UdpRecvInv, TypeOK
<1>e. /\ Append(queue[s], m) \in Seq(Msgs)
      /\ Append(accepted[s], m) \in Seq(Msgs)
      /\ Len(Append(queue[s], m)) = Len(queue[s]) + 1
      /\ Append(queue[s], m)[Len(queue[s]) + 1] = m
      /\ \A i \in 1 .. Len(queue[s]) : Append(queue[s], m)[i] = queue[s][i]
      /\ Append(queue[s], m) # << >>
      /\ queue[s] # << >> => /\ Head(Append(queue[s], m)) = Head(queue[s])
                             /\ Tail(Append(queue[s], m)) = Append(Tail(queue[s]), m)
                             /\ Tail(queue[s]) \in Seq(Msgs)
                             /\ Len(Append(Tail(queue[s]), m)) = Len(Tail(queue[s])) + 1
  BY <1>b, <1>c, QueueFacts
<1>f. /\ UNCHANGED <<aep, rpc, msg, remaining, tpc, handed, rx_buf, got, avail, returned>>
      /\ arrived' = arrived + 1
      /\ isock' = s
  BY DEF UdpRecvCallback, rxVars
<1> HIDE DEF m
<1>1. TypeOK'
  <2>1. queue' \in [Sockets -> Seq(Msgs)] /\ accepted' \in [Sockets -> Seq(Msgs)]
    BY <1>d, <1>e DEF UdpRecvInv, TypeOK
  <2>2. \A r \in Sockets : Len(queue'[r]) <= PoolSize
    <3>1. \A r \in Sockets : Len(queue[r]) <= PoolSize
      BY DEF UdpRecvInv, TypeOK
    <3>2. ~PoolFull(s) => Len(queue[s]) + 1 <= PoolSize
      BY <3>1, <1>h, PoolAssumption DEF PoolFull
    <3> QED
      BY <3>1, <3>2, <1>d, <1>e
  <2>3. live' \subseteq Msgs
    BY <1>b, <1>d DEF UdpRecvInv, TypeOK
  <2>4. arrived' \in 0 .. MaxMsgs
    BY <1>f, MaxMsgsAssumption DEF UdpRecvInv, TypeOK, UdpRecvCallback
  <2> QED
    BY <1>f, <2>1, <2>2, <2>3, <2>4 DEF UdpRecvInv, TypeOK, UdpRecvCallback
<1>2. IrqInv'
  BY SocketsAssumption DEF UdpRecvInv, TypeOK, IrqInv, UdpRecvCallback,
     rxVars, irqVars, histVars
<1>3. RxInv'
  BY DEF UdpRecvInv, TypeOK, RxInv, UdpRecvCallback, rxVars, irqVars, histVars
<1>4. HolderInv'
  BY DEF UdpRecvInv, TypeOK, HolderInv, Holding, UdpRecvCallback, rxVars,
     irqVars, histVars
<1>5. ServedInv'
  BY DEF UdpRecvInv, TypeOK, ServedInv, HolderInv, Holding, UdpRecvCallback,
     rxVars, irqVars, histVars
<1>6. BufInv'
  BY DEF UdpRecvInv, TypeOK, BufInv, RxBufStable, RxInv, ServedInv, HolderInv,
     Holding, UdpRecvCallback, rxVars, irqVars, histVars
<1>7. RemainingInv'
  <2>1. CASE UNCHANGED <<queue, live, accepted>>
    BY <2>1, <1>f DEF UdpRecvInv, RemainingInv, RemainingBound, Unfetched
  <2>2. CASE ~UNCHANGED <<queue, live, accepted>>
    <3>1. \A r \in Sockets : Len(queue'[r]) >= Len(queue[r])
      BY <1>c, <1>d, <1>e, <2>2
    <3>2. \A r \in Sockets : Len(Unfetched(r)') >= Len(Unfetched(r))
      <4> SUFFICES ASSUME NEW r \in Sockets
                   PROVE  Len(Unfetched(r)') >= Len(Unfetched(r))
        OBVIOUS
      <4>1. Unfetched(r) \in Seq(Msgs)
        BY <1>c, UnfetchedFacts DEF UdpRecvInv, FetchedInOrder
      <4>2. CASE r # s
        BY <4>1, <4>2, <1>d, <1>f, <2>2 DEF Unfetched
      <4>3. CASE r = s /\ msg[s] = None
        BY <4>1, <4>3, <1>c, <1>d, <1>e, <1>f, <2>2 DEF Unfetched
      <4>4. CASE r = s /\ msg[s] # None
        <5>1. queue[s] # << >>
          BY <4>4 DEF UdpRecvInv, FetchedInOrder
        <5> QED
          BY <4>1, <4>4, <5>1, <1>c, <1>d, <1>e, <1>f, <2>2 DEF Unfetched
      <4> QED
        BY <4>2, <4>3, <4>4
    <3>3. \A r \in Sockets : /\ remaining[r] \in Nat
                             /\ Len(queue[r]) \in Nat /\ Len(queue'[r]) \in Nat
                             /\ Len(Unfetched(r)) \in Nat /\ Len(Unfetched(r)') \in Nat
      <4>1. \A r \in Sockets : queue'[r] \in Seq(Msgs)
        BY <1>c, <1>d, <1>e
      <4>2. \A r \in Sockets : queue'[r] # << >> \/ queue'[r] = queue[r]
        BY <1>d, <1>e
      <4>3. \A r \in Sockets : Unfetched(r) \in Seq(Msgs)
        BY <1>c, UnfetchedFacts DEF UdpRecvInv, FetchedInOrder
      <4>4. \A r \in Sockets : Unfetched(r)' \in Seq(Msgs)
        <5> SUFFICES ASSUME NEW r \in Sockets
                     PROVE  Unfetched(r)' \in Seq(Msgs)
          OBVIOUS
        <5>1. msg[r] # None => queue'[r] # << >>
          BY <4>2 DEF UdpRecvInv, FetchedInOrder
        <5>2. CASE msg[r] = None
          BY <5>2, <4>1, <1>f DEF Unfetched
        <5>3. CASE msg[r] # None
          BY <5>1, <5>3, <4>1, <1>f, SeqFacts DEF Unfetched
        <5> QED
          BY <5>2, <5>3
      <4> QED
        BY <1>c, <4>1, <4>3, <4>4, SeqFacts DEF UdpRecvInv, TypeOK
    <3> QED
      BY <3>1, <3>2, <3>3, <1>f DEF UdpRecvInv, RemainingInv, RemainingBound
  <2> QED
    BY <2>1, <2>2
<1>8. FetchedInOrder'
  <2>1. CASE UNCHANGED <<queue, live, accepted>>
    BY <2>1, <1>f DEF UdpRecvInv, FetchedInOrder, Unfetched
  <2>2. CASE ~UNCHANGED <<queue, live, accepted>>
    <3> SUFFICES ASSUME NEW r \in Sockets
                 PROVE  /\ msg'[r] # None => queue'[r] # << >> /\ Head(queue'[r]) = msg'[r]
                        /\ accepted'[r] = handed'[r] \o Unfetched(r)'
      BY DEF FetchedInOrder
    <3>1. CASE r # s
      BY <3>1, <1>d, <1>f, <2>2 DEF UdpRecvInv, FetchedInOrder, Unfetched
    <3>2. CASE r = s
      <4>1. Unfetched(s) \in Seq(Msgs) /\ handed[s] \in Seq(Msgs)
        BY <1>c, UnfetchedFacts DEF UdpRecvInv, TypeOK, FetchedInOrder
      <4>2. Append(handed[s] \o Unfetched(s), m) = handed[s] \o Append(Unfetched(s), m)
        <5>1. m \in Msgs
          BY <1>b
        <5> QED
          BY <5>1, <4>1, ConcatAppend, Zenon
      <4>3. Unfetched(s)' = Append(Unfetched(s), m)
        BY <1>d, <1>e, <1>f, <2>2 DEF UdpRecvInv, FetchedInOrder, Unfetched
      <4>4. accepted[s] = handed[s] \o Unfetched(s)
        BY DEF UdpRecvInv, FetchedInOrder
      <4>5. accepted'[s] = handed'[s] \o Unfetched(s)'
        BY <4>2, <4>3, <4>4, <1>d, <1>f, <2>2
      <4>6. msg'[s] # None => queue'[s] # << >> /\ Head(queue'[s]) = msg'[s]
        BY <1>d, <1>e, <1>f, <2>2 DEF UdpRecvInv, FetchedInOrder
      <4> QED
        BY <3>2, <4>5, <4>6
    <3> QED
      BY <3>1, <3>2
  <2> QED
    BY <2>1, <2>2
<1>9. IdsInv'
  <2>1. CASE UNCHANGED <<queue, live, accepted>>
    <3>1. \A r \in Sockets : \A i \in DOMAIN queue[r] : queue[r][i].id \in Nat
      BY <1>h, <1>i
    <3> QED
      BY <2>1, <3>1, <1>b, <1>f DEF UdpRecvInv, IdsInv
  <2>2. CASE ~UNCHANGED <<queue, live, accepted>>
    <3>1. \A r \in Sockets : \A i \in DOMAIN queue'[r] :
            \/ i \in DOMAIN queue[r] /\ queue'[r][i] = queue[r][i]
            \/ r = s /\ i = Len(queue[s]) + 1 /\ queue'[r][i] = m
      <4> SUFFICES ASSUME NEW r \in Sockets, NEW i \in DOMAIN queue'[r]
                   PROVE  \/ i \in DOMAIN queue[r] /\ queue'[r][i] = queue[r][i]
                          \/ r = s /\ i = Len(queue[s]) + 1 /\ queue'[r][i] = m
        OBVIOUS
      <4>1. CASE r # s
        BY <4>1, <1>d, <2>2
      <4>2. CASE r = s
        <5>1. DOMAIN Append(queue[s], m) = 1 .. Len(Append(queue[s], m))
          BY <1>e, SeqFacts
        <5>2. i \in 1 .. Len(queue[s]) + 1
          BY <4>2, <5>1, <1>d, <1>e, <2>2
        <5>3. i \in 1 .. Len(queue[s]) \/ i = Len(queue[s]) + 1
          BY <5>2, <1>h
        <5> QED
          BY <4>2, <5>3, <1>d, <1>e, <1>h, <2>2
      <4> QED
        BY <4>1, <4>2
    <3>2. \A r \in Sockets : \A i \in DOMAIN queue[r] : /\ queue[r][i].id <= arrived
                                                       /\ queue[r][i].id \in Nat
                                                       /\ queue[r][i] # m
      BY <1>b, <1>h, <1>i DEF UdpRecvInv, IdsInv
    <3>3. \A r \in Sockets : \A i \in DOMAIN queue'[r] : queue'[r][i].id <= arrived'
      BY <3>1, <3>2, <1>b, <1>f
    <3>4. \A q, r \in Sockets : \A i \in DOMAIN queue'[q], j \in DOMAIN queue'[r] :
            queue'[q][i] = queue'[r][j] => q = r /\ i = j
      BY <3>1, <3>2 DEF UdpRecvInv, IdsInv
    <3> QED
      BY <3>3, <3>4 DEF IdsInv
  <2> QED
    BY <2>1, <2>2
<1>10. PbufOwnership'
  <2>1. CASE UNCHANGED <<queue, live, accepted>>
    BY <2>1, <1>f DEF UdpRecvInv, PbufOwnership
  <2>2. CASE ~UNCHANGED <<queue, live, accepted>>
    <3>1. \A r \in Sockets : \A i \in DOMAIN queue'[r] :
            \/ i \in DOMAIN queue[r] /\ queue'[r][i] = queue[r][i]
            \/ r = s /\ i = Len(queue[s]) + 1 /\ queue'[r][i] = m
      <4> SUFFICES ASSUME NEW r \in Sockets, NEW i \in DOMAIN queue'[r]
                   PROVE  \/ i \in DOMAIN queue[r] /\ queue'[r][i] = queue[r][i]
                          \/ r = s /\ i = Len(queue[s]) + 1 /\ queue'[r][i] = m
        OBVIOUS
      <4>1. CASE r # s
        BY <4>1, <1>d, <2>2
      <4>2. CASE r = s
        <5>1. DOMAIN Append(queue[s], m) = 1 .. Len(Append(queue[s], m))
          BY <1>e, SeqFacts
        <5>2. i \in 1 .. Len(queue[s]) + 1
          BY <4>2, <5>1, <1>d, <1>e, <2>2
        <5>3. i \in 1 .. Len(queue[s]) \/ i = Len(queue[s]) + 1
          BY <5>2, <1>h
        <5> QED
          BY <4>2, <5>3, <1>d, <1>e, <1>h, <2>2
      <4> QED
        BY <4>1, <4>2
    <3>2. /\ \A r \in Sockets : \A i \in DOMAIN queue[r] :
               i \in DOMAIN queue'[r] /\ queue'[r][i] = queue[r][i]
          /\ Len(queue[s]) + 1 \in DOMAIN queue'[s]
          /\ queue'[s][Len(queue[s]) + 1] = m
      <4>1. DOMAIN Append(queue[s], m) = 1 .. Len(Append(queue[s], m))
        BY <1>e, SeqFacts
      <4>2. /\ \A i \in DOMAIN queue[s] : i \in DOMAIN Append(queue[s], m)
            /\ Len(queue[s]) + 1 \in DOMAIN Append(queue[s], m)
        BY <4>1, <1>e, <1>h
      <4>3. \A r \in Sockets : \A i \in DOMAIN queue[r] :
              i \in DOMAIN queue'[r] /\ queue'[r][i] = queue[r][i]
        <5> SUFFICES ASSUME NEW r \in Sockets, NEW i \in DOMAIN queue[r]
                     PROVE  i \in DOMAIN queue'[r] /\ queue'[r][i] = queue[r][i]
          OBVIOUS
        <5>1. CASE r # s
          BY <5>1, <1>d, <2>2
        <5>2. CASE r = s
          BY <5>2, <4>2, <1>d, <1>e, <1>h, <2>2
        <5> QED
          BY <5>1, <5>2
      <4> QED
        BY <4>2, <4>3, <1>d, <1>e, <2>2
    <3>3. rpc[s] = "pool" => Len(queue[s]) + 1 # 1
      BY <1>c DEF UdpRecvInv, RxInv, FetchedInOrder
    <3>4. live' = live \cup {m} /\ rpc' = rpc
      BY <1>d, <1>f, <2>2
    <3> QED
      BY <3>1, <3>2, <3>3, <3>4, <1>b DEF UdpRecvInv, PbufOwnership
  <2> QED
    BY <2>1, <2>2
<1>11. NoLostWakeup'
  <2> SUFFICES ASSUME NEW r \in Sockets, Unfetched(r)' # << >>
               PROVE  aep'[r] \/ isock' = r \/ Coming(r)' \/ WillSignal(r)'
    BY DEF NoLostWakeup
  <2>1. CASE r = s
    BY <2>1, <1>f
  <2>2. CASE r # s
    <3>1. Unfetched(r)' = Unfetched(r)
      BY <2>2, <1>d, <1>f DEF Unfetched
    <3>2. isock # r
      BY SocketsAssumption DEF UdpRecvInv, IrqInv, UdpRecvCallback
    <3>3. aep[r] \/ Coming(r) \/ WillSignal(r)
      BY <3>1, <3>2 DEF UdpRecvInv, NoLostWakeup
    <3> QED
      BY <3>3, <1>f DEF Coming, WillSignal
  <2> QED
    BY <2>1, <2>2
<1> QED
  BY <1>1, <1>2, <1>3, <1>4, <1>5, <1>6, <1>7, <1>8, <1>9, <1>10, <1>11
     DEF UdpRecvInv

\* udprecv signals: what `isock' promised is now pending in the kernel, or a
\* receiver is coming.
LEMMA UdpRecvSignalInv ==
  ASSUME UdpRecvInv, UdpRecvSignal
  PROVE  UdpRecvInv'
<1>a. isock \in Sockets
  BY DEF UdpRecvInv, TypeOK, IrqInv, UdpRecvSignal
<1>b. /\ tpc' \in [Threads -> ThreadStates]
      /\ aep' \in [Sockets -> BOOLEAN]
      /\ \A t \in Threads : tpc[t] # "wait" => tpc'[t] = tpc[t]
      /\ \A t \in Threads : tpc[t] = "wait" => tpc'[t] \in {"wait", "sem"}
      /\ \A r \in Sockets : aep[r] => aep'[r]
      /\ aep'[isock] \/ \E t \in Threads : SocketOf[t] = isock /\ tpc'[t] = "sem"
  BY <1>a, SignalFacts DEF UdpRecvInv, TypeOK, UdpRecvSignal
<1>c. /\ isock' = NoSocket
      /\ ipc' = "handle"
      /\ UNCHANGED <<queue, rpc, msg, remaining, iface, arrived, rx_buf, avail,
                     got, live, accepted, handed, returned>>
  BY DEF UdpRecvSignal, rxVars, histVars
<1>1. TypeOK'
  BY <1>b, <1>c DEF UdpRecvInv, TypeOK
<1>2. IrqInv'
  BY SocketsAssumption DEF UdpRecvInv, TypeOK, IrqInv, UdpRecvSignal, rxVars,
     irqVars, histVars
<1>3. RxInv'
  BY DEF UdpRecvInv, TypeOK, RxInv, UdpRecvSignal, rxVars, irqVars, histVars
<1>4. HolderInv'
  <2>1. \A t \in Threads : Holding(t)' => Holding(t)
    BY <1>b DEF Holding
  <2> QED
    BY <2>1, <1>c DEF UdpRecvInv, HolderInv
<1>5. ServedInv'
  BY <1>b, <1>c DEF UdpRecvInv, ServedInv
<1>6. BufInv'
  BY <1>b, <1>c DEF UdpRecvInv, BufInv, RxBufStable
<1>7. RemainingInv'
  BY DEF UdpRecvInv, TypeOK, RemainingInv, RemainingBound, Unfetched, RxInv,
     UdpRecvSignal, rxVars, irqVars, histVars
<1>8. FetchedInOrder'
  BY DEF UdpRecvInv, TypeOK, FetchedInOrder, Unfetched, RxInv, UdpRecvSignal,
     rxVars, irqVars, histVars
<1>9. IdsInv'
  BY DEF UdpRecvInv, IdsInv, UdpRecvSignal, rxVars, irqVars, histVars
<1>10. PbufOwnership'
  BY DEF UdpRecvInv, TypeOK, PbufOwnership, UdpRecvSignal, rxVars, irqVars,
     histVars
<1>11. NoLostWakeup'
  <2> SUFFICES ASSUME NEW r \in Sockets, Unfetched(r)' # << >>
               PROVE  aep'[r] \/ isock' = r \/ Coming(r)' \/ WillSignal(r)'
    BY DEF NoLostWakeup
  <2>1. aep[r] \/ isock = r \/ Coming(r) \/ WillSignal(r)
    BY <1>c DEF UdpRecvInv, NoLostWakeup, Unfetched
  <2>2. CASE aep[r]
    BY <2>2, <1>b
  <2>3. CASE isock = r
    BY <2>3, <1>b DEF Coming
  <2>4. CASE Coming(r)
    BY <2>4, <1>b, <1>c DEF Coming
  <2>5. CASE WillSignal(r)
    BY <2>5, <1>c DEF WillSignal
  <2> QED
    BY <2>1, <2>2, <2>3, <2>4, <2>5
<1> QED
  BY <1>1, <1>2, <1>3, <1>4, <1>5, <1>6, <1>7, <1>8, <1>9, <1>10, <1>11
     DEF UdpRecvInv

\* The interrupt thread releases the interface's mutex.
LEMMA IrqDoneInv ==
  ASSUME UdpRecvInv, IrqDone
  PROVE  UdpRecvInv'
<1>1. TypeOK'
  BY SocketOfAssumption DEF UdpRecvInv, TypeOK, RxStates, ThreadStates,
     IrqDone, rxVars, irqVars, histVars
<1>2. IrqInv'
  BY SocketsAssumption DEF UdpRecvInv, TypeOK, IrqInv, IrqDone, rxVars,
     irqVars, histVars
<1>3. RxInv'
  BY DEF UdpRecvInv, TypeOK, RxInv, IrqDone, rxVars, irqVars, histVars
<1>4. HolderInv'
  BY DEF UdpRecvInv, TypeOK, HolderInv, Holding, IrqDone, rxVars, irqVars,
     histVars
<1>5. ServedInv'
  BY DEF UdpRecvInv, TypeOK, ServedInv, HolderInv, Holding, IrqDone, rxVars,
     irqVars, histVars
<1>6. BufInv'
  BY DEF UdpRecvInv, TypeOK, BufInv, RxBufStable, RxInv, ServedInv, HolderInv,
     Holding, IrqDone, rxVars, irqVars, histVars
<1>7. RemainingInv'
  BY DEF UdpRecvInv, TypeOK, RemainingInv, RemainingBound, Unfetched, RxInv,
     IrqDone, rxVars, irqVars, histVars
<1>8. FetchedInOrder'
  BY DEF UdpRecvInv, TypeOK, FetchedInOrder, Unfetched, RxInv, IrqDone,
     rxVars, irqVars, histVars
<1>9. IdsInv'
  BY DEF UdpRecvInv, IdsInv, IrqDone, rxVars, irqVars, histVars
<1>10. PbufOwnership'
  BY DEF UdpRecvInv, TypeOK, PbufOwnership, IrqDone, rxVars, irqVars, histVars
<1>11. NoLostWakeup'
  BY DEF UdpRecvInv, TypeOK, NoLostWakeup, Unfetched, Coming, WillSignal,
     RxInv, IrqDone, rxVars, irqVars, histVars
<1> QED
  BY <1>1, <1>2, <1>3, <1>4, <1>5, <1>6, <1>7, <1>8, <1>9, <1>10, <1>11
     DEF UdpRecvInv

\* The rx thread signals for the messages left before it waits for a request.
LEMMA RxTopInv ==
  ASSUME UdpRecvInv, NEW s \in Sockets, RxTop(s)
  PROVE  UdpRecvInv'
<1>b. /\ tpc' \in [Threads -> ThreadStates]
      /\ aep' \in [Sockets -> BOOLEAN]
      /\ \A t \in Threads : tpc[t] # "wait" => tpc'[t] = tpc[t]
      /\ \A t \in Threads : tpc[t] = "wait" => tpc'[t] \in {"wait", "sem"}
      /\ \A r \in Sockets : aep[r] => aep'[r]
      /\ remaining[s] > 0 =>
           aep'[s] \/ \E t \in Threads : SocketOf[t] = s /\ tpc'[t] = "sem"
  <2>1. CASE remaining[s] > 0
    BY <2>1, SignalFacts DEF UdpRecvInv, TypeOK, RxTop
  <2>2. CASE ~(remaining[s] > 0)
    BY <2>2 DEF UdpRecvInv, TypeOK, RxTop
  <2> QED
    BY <2>1, <2>2
<1>c. /\ rpc[s] = "top"
      /\ rpc' = [rpc EXCEPT ![s] = "recv"]
      /\ rpc \in [Sockets -> RxStates]
      /\ UNCHANGED <<queue, msg, remaining, iface, ipc, isock, arrived, rx_buf,
                     avail, got, live, accepted, handed, returned>>
  BY DEF UdpRecvInv, TypeOK, RxTop, irqVars, histVars
<1>1. TypeOK'
  BY <1>b, <1>c DEF UdpRecvInv, TypeOK, RxStates
<1>2. IrqInv'
  BY SocketsAssumption DEF UdpRecvInv, TypeOK, IrqInv, RxTop, rxVars, irqVars,
     histVars
<1>3. RxInv'
  BY DEF UdpRecvInv, TypeOK, RxInv, RxTop, rxVars, irqVars, histVars
<1>4. HolderInv'
  <2>1. \A t \in Threads : Holding(t)' => Holding(t)
    BY <1>b DEF Holding
  <2> QED
    BY <2>1, <1>c DEF UdpRecvInv, HolderInv
<1>5. ServedInv'
  BY <1>b, <1>c DEF UdpRecvInv, ServedInv
<1>6. BufInv'
  BY <1>b, <1>c DEF UdpRecvInv, BufInv, RxBufStable
<1>7. RemainingInv'
  BY DEF UdpRecvInv, TypeOK, RemainingInv, RemainingBound, Unfetched, RxInv,
     RxTop, rxVars, irqVars, histVars
<1>8. FetchedInOrder'
  BY DEF UdpRecvInv, TypeOK, FetchedInOrder, Unfetched, RxInv, RxTop, rxVars,
     irqVars, histVars
<1>9. IdsInv'
  BY DEF UdpRecvInv, IdsInv, RxTop, rxVars, irqVars, histVars
<1>10. PbufOwnership'
  BY DEF UdpRecvInv, TypeOK, PbufOwnership, RxTop, rxVars, irqVars, histVars
<1>11. NoLostWakeup'
  <2> SUFFICES ASSUME NEW r \in Sockets, Unfetched(r)' # << >>
               PROVE  aep'[r] \/ isock' = r \/ Coming(r)' \/ WillSignal(r)'
    BY DEF NoLostWakeup
  <2>1. aep[r] \/ isock = r \/ Coming(r) \/ WillSignal(r)
    BY <1>c DEF UdpRecvInv, NoLostWakeup, Unfetched
  <2>2. CASE aep[r]
    BY <2>2, <1>b
  <2>3. CASE isock = r
    BY <2>3, <1>c
  <2>4. CASE Coming(r)
    BY <2>4, <1>b, <1>c DEF Coming
  <2>5. CASE WillSignal(r) /\ r # s
    BY <2>5, <1>c DEF WillSignal
  <2>6. CASE WillSignal(r) /\ r = s
    BY <2>6, <1>b, <1>c DEF WillSignal, Coming
  <2> QED
    BY <2>1, <2>2, <2>3, <2>4, <2>5, <2>6
<1> QED
  BY <1>1, <1>2, <1>3, <1>4, <1>5, <1>6, <1>7, <1>8, <1>9, <1>10, <1>11
     DEF UdpRecvInv

\* The rx thread takes the request of the thread that holds rx_buf_avail.
LEMMA RxRecvInv ==
  ASSUME UdpRecvInv, NEW s \in Sockets, RxRecv(s)
  PROVE  UdpRecvInv'
<1>1. TypeOK'
  BY SocketOfAssumption DEF UdpRecvInv, TypeOK, RxStates, ThreadStates,
     RxRecv, rxVars, irqVars, histVars
<1>2. IrqInv'
  BY SocketsAssumption DEF UdpRecvInv, TypeOK, IrqInv, RxRecv, rxVars,
     irqVars, histVars
<1>3. RxInv'
  BY DEF UdpRecvInv, TypeOK, RxInv, RxRecv, rxVars, irqVars, histVars
<1>4. HolderInv'
  BY DEF UdpRecvInv, TypeOK, HolderInv, Holding, RxRecv, rxVars, irqVars,
     histVars
<1>5. ServedInv'
  BY DEF UdpRecvInv, TypeOK, ServedInv, HolderInv, Holding, RxRecv, rxVars,
     irqVars, histVars
<1>6. BufInv'
  BY DEF UdpRecvInv, TypeOK, BufInv, RxBufStable, RxInv, ServedInv, HolderInv,
     Holding, RxRecv, rxVars, irqVars, histVars
<1>7. RemainingInv'
  BY DEF UdpRecvInv, TypeOK, RemainingInv, RemainingBound, Unfetched, RxInv,
     RxRecv, rxVars, irqVars, histVars
<1>8. FetchedInOrder'
  BY DEF UdpRecvInv, TypeOK, FetchedInOrder, Unfetched, RxInv, RxRecv, rxVars,
     irqVars, histVars
<1>9. IdsInv'
  BY DEF UdpRecvInv, IdsInv, RxRecv, rxVars, irqVars, histVars
<1>10. PbufOwnership'
  BY DEF UdpRecvInv, TypeOK, PbufOwnership, RxRecv, rxVars, irqVars, histVars
<1>11. NoLostWakeup'
  <2> SUFFICES ASSUME NEW r \in Sockets, Unfetched(r)' # << >>
               PROVE  aep'[r] \/ isock' = r \/ Coming(r)' \/ WillSignal(r)'
    BY DEF NoLostWakeup
  <2>1. aep[r] \/ isock = r \/ Coming(r) \/ WillSignal(r)
    BY DEF UdpRecvInv, NoLostWakeup, Unfetched, RxRecv, irqVars
  <2>2. CASE aep[r] \/ isock = r
    BY <2>2 DEF RxRecv, irqVars
  <2>3. PICK t \in Threads : /\ SocketOf[t] = s
                             /\ tpc[t] = "call"
                             /\ tpc' = [tpc EXCEPT ![t] = "served"]
    BY DEF RxRecv
  <2>4. CASE WillSignal(r)
    BY <2>4 DEF UdpRecvInv, TypeOK, RxRecv, WillSignal
  <2>5. CASE Coming(r)
    BY <2>5, <2>3 DEF UdpRecvInv, TypeOK, RxRecv, Coming
  <2> QED
    BY <2>1, <2>2, <2>4, <2>5
<1> QED
  BY <1>1, <1>2, <1>3, <1>4, <1>5, <1>6, <1>7, <1>8, <1>9, <1>10, <1>11
     DEF UdpRecvInv

\* The rx thread finds no message: the empty queue needs no wakeup.
LEMMA RxFetchNoneInv ==
  ASSUME UdpRecvInv, NEW s \in Sockets, RxFetchNone(s)
  PROVE  UdpRecvInv'
<1>1. TypeOK'
  BY SocketOfAssumption DEF UdpRecvInv, TypeOK, RxStates, ThreadStates,
     RxFetchNone, rxVars, irqVars, histVars
<1>2. IrqInv'
  BY SocketsAssumption DEF UdpRecvInv, TypeOK, IrqInv, RxFetchNone, rxVars,
     irqVars, histVars
<1>3. RxInv'
  BY DEF UdpRecvInv, TypeOK, RxInv, RxFetchNone, rxVars, irqVars, histVars
<1>4. HolderInv'
  BY DEF UdpRecvInv, TypeOK, HolderInv, Holding, RxFetchNone, rxVars, irqVars,
     histVars
<1>5. ServedInv'
  BY DEF UdpRecvInv, TypeOK, ServedInv, HolderInv, Holding, RxFetchNone,
     rxVars, irqVars, histVars
<1>6. BufInv'
  BY DEF UdpRecvInv, TypeOK, BufInv, RxBufStable, RxInv, ServedInv, HolderInv,
     Holding, RxFetchNone, rxVars, irqVars, histVars
<1>7. RemainingInv'
  BY DEF UdpRecvInv, TypeOK, RemainingInv, RemainingBound, Unfetched, RxInv,
     RxFetchNone, rxVars, irqVars, histVars
<1>8. FetchedInOrder'
  BY DEF UdpRecvInv, TypeOK, FetchedInOrder, Unfetched, RxInv, RxFetchNone,
     rxVars, irqVars, histVars
<1>9. IdsInv'
  BY DEF UdpRecvInv, IdsInv, RxFetchNone, rxVars, irqVars, histVars
<1>10. PbufOwnership'
  BY DEF UdpRecvInv, TypeOK, PbufOwnership, RxFetchNone, rxVars, irqVars,
     histVars
<1>11. NoLostWakeup'
  BY DEF UdpRecvInv, TypeOK, NoLostWakeup, Unfetched, Coming, WillSignal,
     RxInv, RxFetchNone, rxVars, irqVars, histVars
<1> QED
  BY <1>1, <1>2, <1>3, <1>4, <1>5, <1>6, <1>7, <1>8, <1>9, <1>10, <1>11
     DEF UdpRecvInv

\* The rx thread takes the first message; the count it reads under the lock
\* covers the ones behind it.
LEMMA RxFetchInv ==
  ASSUME UdpRecvInv, NEW s \in Sockets, RxFetch(s)
  PROVE  UdpRecvInv'
<1>a. /\ queue[s] \in Seq(Msgs) /\ queue[s] # << >>
      /\ Head(queue[s]) \in Msgs
      /\ Tail(queue[s]) \in Seq(Msgs)
      /\ Len(Tail(queue[s])) = Len(queue[s]) - 1
      /\ Len(queue[s]) \in Nat \ {0}
  BY DEF UdpRecvInv, TypeOK, RxFetch
<1>b. /\ msg' = [msg EXCEPT ![s] = Head(queue[s])]
      /\ msg'[s] = Head(queue[s])
      /\ msg'[s] # None
      /\ msg[s] = None
      /\ rpc'[s] = "copy"
      /\ remaining'[s] = Len(queue[s])
      /\ \A r \in Sockets : r # s => /\ msg'[r] = msg[r]
                                     /\ rpc'[r] = rpc[r]
                                     /\ remaining'[r] = remaining[r]
      /\ queue' = queue
  BY <1>a, NoneFacts DEF UdpRecvInv, TypeOK, RxInv, RxFetch
<1>1. TypeOK'
  BY SocketOfAssumption DEF UdpRecvInv, TypeOK, RxStates, ThreadStates,
     RxFetch, rxVars, irqVars, histVars
<1>2. IrqInv'
  BY SocketsAssumption DEF UdpRecvInv, TypeOK, IrqInv, RxFetch, rxVars,
     irqVars, histVars
<1>3. RxInv'
  BY <1>b DEF UdpRecvInv, RxInv
<1>4. HolderInv'
  BY DEF UdpRecvInv, TypeOK, HolderInv, Holding, RxFetch, rxVars, irqVars,
     histVars
<1>5. ServedInv'
  BY DEF UdpRecvInv, TypeOK, ServedInv, HolderInv, Holding, RxFetch, rxVars,
     irqVars, histVars
<1>6. BufInv'
  BY DEF UdpRecvInv, TypeOK, BufInv, RxBufStable, RxInv, ServedInv, HolderInv,
     Holding, RxFetch, rxVars, irqVars, histVars
<1>7. RemainingInv'
  BY <1>a, <1>b DEF UdpRecvInv, RemainingInv, RemainingBound, Unfetched
<1>8. FetchedInOrder'
  <2>1. handed[s] \o queue[s] = Append(handed[s], Head(queue[s])) \o Tail(queue[s])
    BY <1>a, ConcatFetch, SMTT(30) DEF UdpRecvInv, TypeOK
  <2>2. /\ handed'[s] = Append(handed[s], Head(queue[s]))
        /\ \A r \in Sockets : r # s => handed'[r] = handed[r]
        /\ accepted' = accepted
    BY DEF UdpRecvInv, TypeOK, RxFetch
  <2>3. /\ Unfetched(s) = queue[s]
        /\ Unfetched(s)' = Tail(queue[s])
        /\ \A r \in Sockets : r # s => Unfetched(r)' = Unfetched(r)
    BY <1>b DEF Unfetched
  <2>4. accepted'[s] = handed'[s] \o Unfetched(s)'
    BY <2>1, <2>2, <2>3 DEF UdpRecvInv, FetchedInOrder
  <2> QED
    BY <1>a, <1>b, <2>2, <2>3, <2>4 DEF UdpRecvInv, FetchedInOrder
<1>9. IdsInv'
  BY DEF UdpRecvInv, IdsInv, RxFetch, rxVars, irqVars, histVars
<1>10. PbufOwnership'
  BY DEF UdpRecvInv, TypeOK, PbufOwnership, RxFetch, rxVars, irqVars, histVars
<1>11. NoLostWakeup'
  <2> SUFFICES ASSUME NEW r \in Sockets, Unfetched(r)' # << >>
               PROVE  aep'[r] \/ isock' = r \/ Coming(r)' \/ WillSignal(r)'
    BY DEF NoLostWakeup
  <2>1. CASE r # s
    <3>1. aep[r] \/ isock = r \/ Coming(r) \/ WillSignal(r)
      BY <1>b, <2>1 DEF UdpRecvInv, NoLostWakeup, Unfetched
    <3> QED
      BY <1>b, <2>1, <3>1 DEF Coming, WillSignal, RxFetch, irqVars
  <2>2. CASE r = s
    <3>1. Len(queue[s]) > 1
      BY <1>a, <1>b, <2>2 DEF Unfetched
    <3> QED
      BY <1>b, <2>2, <3>1 DEF WillSignal
  <2> QED
    BY <2>1, <2>2
<1> QED
  BY <1>1, <1>2, <1>3, <1>4, <1>5, <1>6, <1>7, <1>8, <1>9, <1>10, <1>11
     DEF UdpRecvInv

\* The rx thread writes rx_buf: no receiver is reading it.
LEMMA RxCopyInv ==
  ASSUME UdpRecvInv, NEW s \in Sockets, RxCopy(s)
  PROVE  UdpRecvInv'
<1>1. TypeOK'
  <2>1. remaining[s] - 1 \in Nat
    BY DEF UdpRecvInv, TypeOK, RemainingInv, RxCopy
  <2> QED
    BY <2>1 DEF UdpRecvInv, TypeOK, RxStates, RxCopy, irqVars, histVars
<1>2. IrqInv'
  BY SocketsAssumption DEF UdpRecvInv, TypeOK, IrqInv, RxCopy, rxVars,
     irqVars, histVars
<1>3. RxInv'
  BY DEF UdpRecvInv, TypeOK, RxInv, RxCopy, rxVars, irqVars, histVars
<1>4. HolderInv'
  BY DEF UdpRecvInv, TypeOK, HolderInv, Holding, RxCopy, rxVars, irqVars,
     histVars
<1>5. ServedInv'
  BY DEF UdpRecvInv, TypeOK, ServedInv, HolderInv, Holding, RxCopy, rxVars,
     irqVars, histVars
<1>6. BufInv'
  <2>1. PICK t \in Threads : SocketOf[t] = s /\ tpc[t] = "served"
    BY DEF UdpRecvInv, ServedInv, RxCopy
  <2>2. \A u \in Threads : tpc[u] # "read"
    BY <2>1 DEF UdpRecvInv, HolderInv, Holding
  <2>3. \A r \in Sockets : rpc[r] = "reply" => r = s
    BY <2>1 DEF UdpRecvInv, HolderInv, Holding, ServedInv
  <2>4. \A r \in Sockets : rpc'[r] = "reply" => r = s
    BY <2>3 DEF UdpRecvInv, TypeOK, RxCopy
  <2> QED
    BY <2>2, <2>4 DEF BufInv, RxBufStable, RxCopy
<1>7. RemainingInv'
  <2>1. msg[s] # None /\ queue[s] # << >> /\ remaining[s] \in 1 .. Len(queue[s])
    BY DEF UdpRecvInv, RxInv, FetchedInOrder, RemainingInv, RxCopy
  <2>2. Len(Tail(queue[s])) = Len(queue[s]) - 1
    BY <2>1 DEF UdpRecvInv, TypeOK
  <2>3. /\ remaining'[s] = remaining[s] - 1
        /\ rpc'[s] = "reply"
        /\ \A r \in Sockets : r # s => remaining'[r] = remaining[r] /\ rpc'[r] = rpc[r]
        /\ queue' = queue /\ msg' = msg
    BY DEF UdpRecvInv, TypeOK, RxCopy
  <2> QED
    BY <2>1, <2>2, <2>3 DEF UdpRecvInv, RemainingInv, RemainingBound,
       Unfetched
<1>8. FetchedInOrder'
  BY DEF UdpRecvInv, TypeOK, FetchedInOrder, Unfetched, RxInv, RxCopy, rxVars,
     irqVars, histVars
<1>9. IdsInv'
  BY DEF UdpRecvInv, IdsInv, RxCopy, rxVars, irqVars, histVars
<1>10. PbufOwnership'
  BY DEF UdpRecvInv, TypeOK, PbufOwnership, RxCopy, rxVars, irqVars, histVars
<1>11. NoLostWakeup'
  <2> SUFFICES ASSUME NEW r \in Sockets, Unfetched(r)' # << >>
               PROVE  aep'[r] \/ isock' = r \/ Coming(r)' \/ WillSignal(r)'
    BY DEF NoLostWakeup
  <2>1. aep[r] \/ isock = r \/ Coming(r) \/ WillSignal(r)
    BY DEF UdpRecvInv, NoLostWakeup, Unfetched, RxCopy, irqVars
  <2>2. CASE aep[r] \/ isock = r
    BY <2>2 DEF RxCopy, irqVars
  <2>4. CASE WillSignal(r)
    BY <2>4 DEF UdpRecvInv, TypeOK, RxCopy, WillSignal
  <2>5. CASE Coming(r)
    BY <2>5 DEF UdpRecvInv, TypeOK, RxCopy, Coming
  <2> QED
    BY <2>1, <2>2, <2>4, <2>5
<1> QED
  BY <1>1, <1>2, <1>3, <1>4, <1>5, <1>6, <1>7, <1>8, <1>9, <1>10, <1>11
     DEF UdpRecvInv

\* The request is answered with the message that is in rx_buf.
LEMMA RxReplyInv ==
  ASSUME UdpRecvInv, NEW s \in Sockets, RxReply(s)
  PROVE  UdpRecvInv'
<1>1. TypeOK'
  BY SocketOfAssumption DEF UdpRecvInv, TypeOK, RxStates, ThreadStates,
     RxReply, rxVars, irqVars, histVars
<1>2. IrqInv'
  BY SocketsAssumption DEF UdpRecvInv, TypeOK, IrqInv, RxReply, rxVars,
     irqVars, histVars
<1>3. RxInv'
  BY DEF UdpRecvInv, TypeOK, RxInv, RxReply, rxVars, irqVars, histVars
<1>4. HolderInv'
  BY DEF UdpRecvInv, TypeOK, HolderInv, Holding, RxReply, rxVars, irqVars,
     histVars
<1>5. ServedInv'
  BY DEF UdpRecvInv, TypeOK, ServedInv, HolderInv, Holding, RxReply, rxVars,
     irqVars, histVars
<1>6. BufInv'
  BY DEF UdpRecvInv, TypeOK, BufInv, RxBufStable, RxInv, ServedInv, HolderInv,
     Holding, RxReply, rxVars, irqVars, histVars
<1>7. RemainingInv'
  BY DEF UdpRecvInv, TypeOK, RemainingInv, RemainingBound, Unfetched, RxInv,
     RxReply, rxVars, irqVars, histVars
<1>8. FetchedInOrder'
  BY DEF UdpRecvInv, TypeOK, FetchedInOrder, Unfetched, RxInv, RxReply,
     rxVars, irqVars, histVars
<1>9. IdsInv'
  BY DEF UdpRecvInv, IdsInv, RxReply, rxVars, irqVars, histVars
<1>10. PbufOwnership'
  BY DEF UdpRecvInv, TypeOK, PbufOwnership, RxReply, rxVars, irqVars, histVars
<1>11. NoLostWakeup'
  <2> SUFFICES ASSUME NEW r \in Sockets, Unfetched(r)' # << >>
               PROVE  aep'[r] \/ isock' = r \/ Coming(r)' \/ WillSignal(r)'
    BY DEF NoLostWakeup
  <2>1. aep[r] \/ isock = r \/ Coming(r) \/ WillSignal(r)
    BY DEF UdpRecvInv, NoLostWakeup, Unfetched, RxReply, irqVars
  <2>2. CASE aep[r] \/ isock = r
    BY <2>2 DEF RxReply, irqVars
  <2>3. PICK t \in Threads : /\ SocketOf[t] = s
                             /\ tpc[t] = "served"
                             /\ tpc' = [tpc EXCEPT ![t] = "read"]
    BY DEF RxReply
  <2>4. CASE WillSignal(r)
    BY <2>4 DEF UdpRecvInv, TypeOK, RxReply, WillSignal
  <2>5. CASE Coming(r)
    BY <2>5, <2>3 DEF UdpRecvInv, TypeOK, RxReply, Coming
  <2> QED
    BY <2>1, <2>2, <2>4, <2>5
<1> QED
  BY <1>1, <1>2, <1>3, <1>4, <1>5, <1>6, <1>7, <1>8, <1>9, <1>10, <1>11
     DEF UdpRecvInv

\* The pbuf freed is that of the first message, and of no other.
LEMMA RxFreePbufInv ==
  ASSUME UdpRecvInv, NEW s \in Sockets, RxFreePbuf(s)
  PROVE  UdpRecvInv'
<1>1. TypeOK'
  BY SocketOfAssumption DEF UdpRecvInv, TypeOK, RxStates, ThreadStates,
     RxFreePbuf, rxVars, irqVars, histVars
<1>2. IrqInv'
  BY SocketsAssumption DEF UdpRecvInv, TypeOK, IrqInv, RxFreePbuf, rxVars,
     irqVars, histVars
<1>3. RxInv'
  BY DEF UdpRecvInv, TypeOK, RxInv, RxFreePbuf, rxVars, irqVars, histVars
<1>4. HolderInv'
  BY DEF UdpRecvInv, TypeOK, HolderInv, Holding, RxFreePbuf, rxVars, irqVars,
     histVars
<1>5. ServedInv'
  BY DEF UdpRecvInv, TypeOK, ServedInv, HolderInv, Holding, RxFreePbuf,
     rxVars, irqVars, histVars
<1>6. BufInv'
  BY DEF UdpRecvInv, TypeOK, BufInv, RxBufStable, RxInv, ServedInv, HolderInv,
     Holding, RxFreePbuf, rxVars, irqVars, histVars
<1>7. RemainingInv'
  BY DEF UdpRecvInv, TypeOK, RemainingInv, RemainingBound, Unfetched, RxInv,
     RxFreePbuf, rxVars, irqVars, histVars
<1>8. FetchedInOrder'
  BY DEF UdpRecvInv, TypeOK, FetchedInOrder, Unfetched, RxInv, RxFreePbuf,
     rxVars, irqVars, histVars
<1>9. IdsInv'
  BY DEF UdpRecvInv, IdsInv, RxFreePbuf, rxVars, irqVars, histVars
<1>10. PbufOwnership'
  <2>1. /\ queue[s] # << >> /\ queue[s] \in Seq(Msgs)
        /\ msg[s] = queue[s][1] /\ 1 \in DOMAIN queue[s]
    BY DEF UdpRecvInv, TypeOK, RxInv, FetchedInOrder, RxFreePbuf
  <2>2. \A r \in Sockets : \A i \in DOMAIN queue[r] :
          queue[r][i] = msg[s] <=> r = s /\ i = 1
    BY <2>1 DEF UdpRecvInv, IdsInv
  <2>3. /\ rpc[s] # "pool" /\ rpc'[s] = "pool"
        /\ \A r \in Sockets : r # s => rpc'[r] = rpc[r]
        /\ queue' = queue
        /\ live' = live \ {msg[s]}
    BY DEF UdpRecvInv, TypeOK, RxFreePbuf
  <2> QED
    BY <2>2, <2>3 DEF UdpRecvInv, PbufOwnership
<1>11. NoLostWakeup'
  BY DEF UdpRecvInv, TypeOK, NoLostWakeup, Unfetched, Coming, WillSignal,
     RxInv, RxFreePbuf, rxVars, irqVars, histVars
<1> QED
  BY <1>1, <1>2, <1>3, <1>4, <1>5, <1>6, <1>7, <1>8, <1>9, <1>10, <1>11
     DEF UdpRecvInv

\* The entry freed is the first: the others move up by one.
LEMMA RxFreeMsgInv ==
  ASSUME UdpRecvInv, NEW s \in Sockets, RxFreeMsg(s)
  PROVE  UdpRecvInv'
<1>a. /\ \A r \in Sockets : queue[r] \in Seq(Msgs)
      /\ queue[s] # << >>
  BY DEF UdpRecvInv, TypeOK, RxInv, FetchedInOrder, RxFreeMsg
<1>b. /\ Tail(queue[s]) \in Seq(Msgs)
      /\ Len(Tail(queue[s])) = Len(queue[s]) - 1
      /\ DOMAIN Tail(queue[s]) = 1 .. Len(queue[s]) - 1
      /\ \A i \in 1 .. Len(queue[s]) - 1 : Tail(queue[s])[i] = queue[s][i + 1]
  BY <1>a
<1>c. /\ queue'[s] = Tail(queue[s])
      /\ \A r \in Sockets : r # s => queue'[r] = queue[r] /\ rpc'[r] = rpc[r]
      /\ rpc[s] = "pool" /\ rpc'[s] = "top"
      /\ live' = live /\ arrived' = arrived
  BY DEF UdpRecvInv, TypeOK, RxFreeMsg, irqVars, histVars
<1>h. \A r \in Sockets : /\ Len(queue[r]) \in Nat
                         /\ DOMAIN queue[r] = 1 .. Len(queue[r])
                         /\ \A i \in DOMAIN queue[r] : i \in Nat \ {0} /\ 1 \in DOMAIN queue[r]
  BY <1>a, SeqFacts
<1>d. \A i \in DOMAIN queue'[s] : i + 1 \in DOMAIN queue[s] /\ queue'[s][i] = queue[s][i + 1]
  BY <1>a, <1>b, <1>c
<1>e. \A i \in DOMAIN queue[s] : i # 1 => i - 1 \in DOMAIN queue'[s] /\ queue'[s][i - 1] = queue[s][i]
  BY <1>a, <1>b, <1>c
<1>f. \A r \in Sockets : \A i \in DOMAIN queue'[r] : i \in Nat \ {0}
  <2> SUFFICES ASSUME NEW r \in Sockets, NEW i \in DOMAIN queue'[r]
               PROVE  i \in Nat \ {0}
    OBVIOUS
  <2>1. CASE r = s
    BY <2>1, <1>b, <1>c, <1>h
  <2>2. CASE r # s
    BY <2>2, <1>c, <1>h
  <2> QED
    BY <2>1, <2>2
<1>1. TypeOK'
  <2>1. queue' \in [Sockets -> Seq(Msgs)]
    BY <1>b DEF UdpRecvInv, TypeOK, RxFreeMsg
  <2>2. \A r \in Sockets : Len(queue'[r]) <= PoolSize
    <3>1. \A r \in Sockets : Len(queue[r]) <= PoolSize
      BY DEF UdpRecvInv, TypeOK
    <3>2. Len(Tail(queue[s])) <= PoolSize
      BY <3>1, <1>b, <1>h, PoolAssumption
    <3> QED
      BY <3>1, <3>2, <1>c
  <2> QED
    BY <2>1, <2>2 DEF UdpRecvInv, TypeOK, RxStates, RxFreeMsg, irqVars,
       histVars
<1>2. IrqInv'
  BY SocketsAssumption DEF UdpRecvInv, TypeOK, IrqInv, RxFreeMsg, rxVars,
     irqVars, histVars
<1>3. RxInv'
  BY DEF UdpRecvInv, TypeOK, RxInv, RxFreeMsg, rxVars, irqVars, histVars
<1>4. HolderInv'
  BY DEF UdpRecvInv, TypeOK, HolderInv, Holding, RxFreeMsg, rxVars, irqVars,
     histVars
<1>5. ServedInv'
  BY DEF UdpRecvInv, TypeOK, ServedInv, HolderInv, Holding, RxFreeMsg, rxVars,
     irqVars, histVars
<1>6. BufInv'
  BY DEF UdpRecvInv, TypeOK, BufInv, RxBufStable, RxInv, ServedInv, HolderInv,
     Holding, RxFreeMsg, rxVars, irqVars, histVars
<1>7. RemainingInv'
  BY DEF UdpRecvInv, TypeOK, RemainingInv, RemainingBound, Unfetched, RxInv,
     RxFreeMsg, rxVars, irqVars, histVars
<1>8. FetchedInOrder'
  BY DEF UdpRecvInv, TypeOK, FetchedInOrder, Unfetched, RxInv, RxFreeMsg,
     rxVars, irqVars, histVars
<1>9. IdsInv'
  <2>1. \A r \in Sockets : \A i \in DOMAIN queue'[r] : queue'[r][i].id <= arrived'
    <3>1. \A r \in Sockets : \A i \in DOMAIN queue[r] : queue[r][i].id <= arrived
      BY DEF UdpRecvInv, IdsInv
    <3> QED
      BY <3>1, <1>c, <1>d
  <2>2. \A r \in Sockets : \A i \in DOMAIN queue'[r] : i \in Int
    BY <1>f
  <2>3. \A q, r \in Sockets : \A i \in DOMAIN queue'[q], j \in DOMAIN queue'[r] :
          queue'[q][i] = queue'[r][j] => q = r /\ i = j
    <3> SUFFICES ASSUME NEW q \in Sockets, NEW r \in Sockets,
                        NEW i \in DOMAIN queue'[q], NEW j \in DOMAIN queue'[r],
                        queue'[q][i] = queue'[r][j]
                 PROVE  q = r /\ i = j
      OBVIOUS
    <3>1. CASE q = s /\ r = s
      BY <3>1, <1>d, <2>2 DEF UdpRecvInv, IdsInv
    <3>2. CASE q = s /\ r # s
      BY <3>2, <1>c, <1>d DEF UdpRecvInv, IdsInv
    <3>3. CASE q # s /\ r = s
      BY <3>3, <1>c, <1>d DEF UdpRecvInv, IdsInv
    <3>4. CASE q # s /\ r # s
      BY <3>4, <1>c DEF UdpRecvInv, IdsInv
    <3> QED
      BY <3>1, <3>2, <3>3, <3>4
  <2> QED
    BY <2>1, <2>3 DEF IdsInv
<1>10. PbufOwnership'
  <2> SUFFICES ASSUME NEW m \in Msgs
               PROVE  m \in live <=>
                        \E r \in Sockets : \E i \in DOMAIN queue'[r] :
                          queue'[r][i] = m /\ ~(i = 1 /\ rpc'[r] = "pool")
    BY <1>c DEF UdpRecvInv, TypeOK, PbufOwnership
  <2>1. m \in live <=>
          \E r \in Sockets : \E i \in DOMAIN queue[r] :
            queue[r][i] = m /\ ~(i = 1 /\ rpc[r] = "pool")
    BY DEF UdpRecvInv, PbufOwnership
  <2>2. ASSUME m \in live
        PROVE  \E r \in Sockets : \E i \in DOMAIN queue'[r] :
                 queue'[r][i] = m /\ ~(i = 1 /\ rpc'[r] = "pool")
    <3>1. PICK r \in Sockets : \E i \in DOMAIN queue[r] :
            queue[r][i] = m /\ ~(i = 1 /\ rpc[r] = "pool")
      BY <2>1, <2>2
    <3>4. PICK i \in DOMAIN queue[r] :
            queue[r][i] = m /\ ~(i = 1 /\ rpc[r] = "pool")
      BY <3>1
    <3>2. CASE r = s
      <4>1. i # 1
        BY <3>4, <3>2, <1>c
      <4>2. i - 1 \in DOMAIN queue'[s] /\ queue'[s][i - 1] = m
        BY <3>4, <3>2, <4>1, <1>e
      <4> QED
        BY <4>2, <1>c
    <3>3. CASE r # s
      BY <3>4, <3>3, <1>c
    <3> QED
      BY <3>2, <3>3
  <2>3. ASSUME NEW r \in Sockets, NEW i \in DOMAIN queue'[r],
               queue'[r][i] = m, ~(i = 1 /\ rpc'[r] = "pool")
        PROVE  m \in live
    <3>1. i \in Nat \ {0}
      BY <1>f
    <3>2. CASE r = s
      BY <2>1, <2>3, <3>1, <3>2, <1>d
    <3>3. CASE r # s
      BY <2>1, <2>3, <3>3, <1>c
    <3> QED
      BY <3>2, <3>3
  <2> QED
    BY <2>2, <2>3
<1>11. NoLostWakeup'
  BY DEF UdpRecvInv, TypeOK, NoLostWakeup, Unfetched, Coming, WillSignal,
     RxInv, RxFreeMsg, rxVars, irqVars, histVars
<1> QED
  BY <1>1, <1>2, <1>3, <1>4, <1>5, <1>6, <1>7, <1>8, <1>9, <1>10, <1>11
     DEF UdpRecvInv

\* A receiver consumes the pending signal and is coming, or blocks.
LEMMA RecvWaitInv ==
  ASSUME UdpRecvInv, NEW t \in Threads, RecvWait(t)
  PROVE  UdpRecvInv'
<1>1. TypeOK'
  BY SocketOfAssumption DEF UdpRecvInv, TypeOK, RxStates, ThreadStates,
     RecvWait, Advance, rxVars, irqVars, histVars
<1>2. IrqInv'
  BY SocketsAssumption DEF UdpRecvInv, TypeOK, IrqInv, RecvWait, Advance,
     rxVars, irqVars, histVars
<1>3. RxInv'
  BY DEF UdpRecvInv, TypeOK, RxInv, RecvWait, Advance, rxVars, irqVars,
     histVars
<1>4. HolderInv'
  BY DEF UdpRecvInv, TypeOK, HolderInv, Holding, RecvWait, Advance, rxVars,
     irqVars, histVars
<1>5. ServedInv'
  BY DEF UdpRecvInv, TypeOK, ServedInv, HolderInv, Holding, RecvWait, Advance,
     rxVars, irqVars, histVars
<1>6. BufInv'
  BY DEF UdpRecvInv, TypeOK, BufInv, RxBufStable, RxInv, ServedInv, HolderInv,
     Holding, RecvWait, Advance, rxVars, irqVars, histVars
<1>7. RemainingInv'
  BY DEF UdpRecvInv, TypeOK, RemainingInv, RemainingBound, Unfetched, RxInv,
     RecvWait, Advance, rxVars, irqVars, histVars
<1>8. FetchedInOrder'
  BY DEF UdpRecvInv, TypeOK, FetchedInOrder, Unfetched, RxInv, RecvWait,
     Advance, rxVars, irqVars, histVars
<1>9. IdsInv'
  BY DEF UdpRecvInv, IdsInv, RecvWait, Advance, rxVars, irqVars, histVars
<1>10. PbufOwnership'
  BY DEF UdpRecvInv, TypeOK, PbufOwnership, RecvWait, Advance, rxVars,
     irqVars, histVars
<1>11. NoLostWakeup'
  BY ZenonT(30) DEF UdpRecvInv, TypeOK, NoLostWakeup, Unfetched, Coming, WillSignal,
     RxInv, RecvWait, Advance, rxVars, irqVars, histVars
<1> QED
  BY <1>1, <1>2, <1>3, <1>4, <1>5, <1>6, <1>7, <1>8, <1>9, <1>10, <1>11
     DEF UdpRecvInv

\* A receiver takes rx_buf_avail.
LEMMA RecvTakeInv ==
  ASSUME UdpRecvInv, NEW t \in Threads, RecvTake(t)
  PROVE  UdpRecvInv'
<1>1. TypeOK'
  BY SocketOfAssumption DEF UdpRecvInv, TypeOK, RxStates, ThreadStates,
     RecvTake, Advance, rxVars, irqVars, histVars
<1>2. IrqInv'
  BY SocketsAssumption DEF UdpRecvInv, TypeOK, IrqInv, RecvTake, Advance,
     rxVars, irqVars, histVars
<1>3. RxInv'
  BY DEF UdpRecvInv, TypeOK, RxInv, RecvTake, Advance, rxVars, irqVars,
     histVars
<1>4. HolderInv'
  BY DEF UdpRecvInv, TypeOK, HolderInv, Holding, RecvTake, Advance, rxVars,
     irqVars, histVars
<1>5. ServedInv'
  BY DEF UdpRecvInv, TypeOK, ServedInv, HolderInv, Holding, RecvTake, Advance,
     rxVars, irqVars, histVars
<1>6. BufInv'
  BY DEF UdpRecvInv, TypeOK, BufInv, RxBufStable, RxInv, ServedInv, HolderInv,
     Holding, RecvTake, Advance, rxVars, irqVars, histVars
<1>7. RemainingInv'
  BY DEF UdpRecvInv, TypeOK, RemainingInv, RemainingBound, Unfetched, RxInv,
     RecvTake, Advance, rxVars, irqVars, histVars
<1>8. FetchedInOrder'
  BY DEF UdpRecvInv, TypeOK, FetchedInOrder, Unfetched, RxInv, RecvTake,
     Advance, rxVars, irqVars, histVars
<1>9. IdsInv'
  BY DEF UdpRecvInv, IdsInv, RecvTake, Advance, rxVars, irqVars, histVars
<1>10. PbufOwnership'
  BY DEF UdpRecvInv, TypeOK, PbufOwnership, RecvTake, Advance, rxVars,
     irqVars, histVars
<1>11. NoLostWakeup'
  BY DEF UdpRecvInv, TypeOK, NoLostWakeup, Unfetched, Coming, WillSignal,
     RxInv, RecvTake, Advance, rxVars, irqVars, histVars
<1> QED
  BY <1>1, <1>2, <1>3, <1>4, <1>5, <1>6, <1>7, <1>8, <1>9, <1>10, <1>11
     DEF UdpRecvInv

\* A receiver reads rx_buf and gives rx_buf_avail.
LEMMA RecvReadInv ==
  ASSUME UdpRecvInv, NEW t \in Threads, RecvRead(t)
  PROVE  UdpRecvInv'
<1>1. TypeOK'
  <2>1. avail' = 1
    BY DEF UdpRecvInv, TypeOK, HolderInv, Holding, RecvRead, Advance
  <2>2. Fits(got[t]) => rx_buf \in Msgs
    BY DEF UdpRecvInv, TypeOK, BufInv, RxBufStable, Fits, None, RecvRead,
       Advance
  <2>3. returned' \in [Sockets -> Seq(Msgs)]
    <3>1. CASE Fits(got[t])
      <4>1. /\ SocketOf[t] \in Sockets
            /\ returned[SocketOf[t]] \in Seq(Msgs)
        BY SocketOfAssumption DEF UdpRecvInv, TypeOK
      <4>2. Append(returned[SocketOf[t]], rx_buf) \in Seq(Msgs)
        BY <3>1, <4>1, <2>2
      <4> QED
        BY <3>1, <4>1, <4>2 DEF UdpRecvInv, TypeOK, RecvRead
    <3>2. CASE ~Fits(got[t])
      BY <3>2 DEF UdpRecvInv, TypeOK, RecvRead
    <3> QED
      BY <3>1, <3>2
  <2>4. /\ tpc' \in [Threads -> ThreadStates]
        /\ got' \in [Threads -> Msgs \cup {None}]
    BY DEF UdpRecvInv, TypeOK, ThreadStates, RecvRead, Advance
  <2> QED
    BY <2>1, <2>3, <2>4 DEF UdpRecvInv, TypeOK, RecvRead, rxVars, irqVars
<1>2. IrqInv'
  BY SocketsAssumption DEF UdpRecvInv, TypeOK, IrqInv, RecvRead, Advance,
     rxVars, irqVars, histVars
<1>3. RxInv'
  BY DEF UdpRecvInv, TypeOK, RxInv, RecvRead, Advance, rxVars, irqVars,
     histVars
<1>4. HolderInv'
  BY DEF UdpRecvInv, TypeOK, HolderInv, Holding, RecvRead, Advance, rxVars,
     irqVars, histVars
<1>5. ServedInv'
  BY DEF UdpRecvInv, TypeOK, ServedInv, HolderInv, Holding, RecvRead, Advance,
     rxVars, irqVars, histVars
<1>6. BufInv'
  BY DEF UdpRecvInv, TypeOK, BufInv, RxBufStable, RxInv, ServedInv, HolderInv,
     Holding, RecvRead, Advance, rxVars, irqVars, histVars
<1>7. RemainingInv'
  BY DEF UdpRecvInv, TypeOK, RemainingInv, RemainingBound, Unfetched, RxInv,
     RecvRead, Advance, rxVars, irqVars, histVars
<1>8. FetchedInOrder'
  BY DEF UdpRecvInv, TypeOK, FetchedInOrder, Unfetched, RxInv, RecvRead,
     Advance, rxVars, irqVars, histVars
<1>9. IdsInv'
  BY DEF UdpRecvInv, IdsInv, RecvRead, Advance, rxVars, irqVars, histVars
<1>10. PbufOwnership'
  BY DEF UdpRecvInv, TypeOK, PbufOwnership, RecvRead, Advance, rxVars,
     irqVars, histVars
<1>11. NoLostWakeup'
  BY DEF UdpRecvInv, TypeOK, NoLostWakeup, Unfetched, Coming, WillSignal,
     RxInv, RecvRead, Advance, rxVars, irqVars, histVars
<1> QED
  BY <1>1, <1>2, <1>3, <1>4, <1>5, <1>6, <1>7, <1>8, <1>9, <1>10, <1>11
     DEF UdpRecvInv

-----------------------------------------------------------------------------
(* The invariant is inductive.                                             *)

\* Every queue is empty and nobody holds anything.
LEMMA InitInv == Init => UdpRecvInv
<1> SUFFICES ASSUME Init
             PROVE  UdpRecvInv
  OBVIOUS
<1>1. TypeOK
  <2>1. \A s \in Sockets : queue[s] \in Seq(Msgs) /\ Len(queue[s]) <= PoolSize
    BY PoolAssumption DEF Init
  <2>2. << >> \in Seq(Msgs)
    OBVIOUS
  <2>3. queue \in [Sockets -> Seq(Msgs)]
    BY <2>2 DEF Init
  <2>4. /\ aep \in [Sockets -> BOOLEAN]
        /\ rpc \in [Sockets -> RxStates]
        /\ msg \in [Sockets -> Msgs \cup {None}]
        /\ remaining \in [Sockets -> Nat]
        /\ tpc \in [Threads -> ThreadStates]
        /\ got \in [Threads -> Msgs \cup {None}]
    BY DEF Init, RxStates, ThreadStates
  <2>5. /\ accepted \in [Sockets -> Seq(Msgs)]
        /\ handed \in [Sockets -> Seq(Msgs)]
        /\ returned \in [Sockets -> Seq(Msgs)]
    BY <2>2 DEF Init
  <2>6. arrived \in 0 .. MaxMsgs
    BY MaxMsgsAssumption DEF Init
  <2> QED
    BY <2>1, <2>3, <2>4, <2>5, <2>6 DEF Init, TypeOK
<1>2. IrqInv /\ RxInv /\ HolderInv /\ ServedInv /\ BufInv
  BY DEF Init, IrqInv, RxInv, HolderInv, Holding, ServedInv, BufInv,
     RxBufStable
<1>3. /\ RemainingInv
      /\ FetchedInOrder
      /\ IdsInv
      /\ NoLostWakeup
  BY DEF Init, RemainingInv, RemainingBound, FetchedInOrder, Unfetched,
     IdsInv, NoLostWakeup
<1>4. PbufOwnership
  BY DEF Init, PbufOwnership
<1> QED
  BY <1>1, <1>2, <1>3, <1>4 DEF UdpRecvInv

\* A step in which nothing changes.
LEMMA StutterInv == UdpRecvInv /\ UNCHANGED vars => UdpRecvInv'
<1> SUFFICES ASSUME UdpRecvInv, UNCHANGED vars
             PROVE  UdpRecvInv'
  OBVIOUS
<1> USE DEF UdpRecvInv, vars, rxVars, irqVars, histVars
<1>1. TypeOK'
  BY DEF TypeOK
<1>2. IrqInv' /\ RxInv' /\ ServedInv'
  BY DEF IrqInv, RxInv, ServedInv
<1>3. HolderInv'
  BY DEF HolderInv, Holding
<1>4. BufInv'
  BY DEF BufInv, RxBufStable
<1>5. RemainingInv'
  BY DEF RemainingInv, RemainingBound, Unfetched
<1>6. FetchedInOrder'
  BY DEF FetchedInOrder, Unfetched
<1>7. IdsInv'
  BY DEF IdsInv
<1>8. PbufOwnership'
  BY DEF PbufOwnership
<1>9. NoLostWakeup'
  BY DEF NoLostWakeup, Unfetched, Coming, WillSignal
<1> QED
  BY <1>1, <1>2, <1>3, <1>4, <1>5, <1>6, <1>7, <1>8, <1>9

\* Every step of every thread keeps the invariant.
LEMMA StepInv == UdpRecvInv /\ [Next]_vars => UdpRecvInv'
<1> SUFFICES ASSUME UdpRecvInv, [Next]_vars
             PROVE  UdpRecvInv'
  OBVIOUS
<1>1. CASE IrqNext
  BY <1>1, IrqWaitInv, UdpRecvCallbackInv, UdpRecvSignalInv, IrqDoneInv
     DEF IrqNext
<1>2. ASSUME NEW s \in Sockets, RxNext(s)
      PROVE  UdpRecvInv'
  BY <1>2, RxTopInv, RxRecvInv, RxFetchNoneInv, RxFetchInv, RxCopyInv,
     RxReplyInv, RxFreePbufInv, RxFreeMsgInv DEF RxNext
<1>3. ASSUME NEW t \in Threads, ThreadNext(t)
      PROVE  UdpRecvInv'
  BY <1>3, RecvWaitInv, RecvTakeInv, RecvReadInv DEF ThreadNext
<1>4. CASE UNCHANGED vars
  BY <1>4, StutterInv
<1> QED
  BY <1>1, <1>2, <1>3, <1>4 DEF Next

-----------------------------------------------------------------------------
(* The theorems: for any sockets, threads, queue length and datagrams.     *)

\* UdpRecvInv holds in every state of the reception path.
THEOREM InvHolds == Spec => []UdpRecvInv
  BY InitInv, StepInv, PTL DEF Spec

\* The variables keep their types; with them, no queue of src/udp.c:34
\* exceeds its pool and rx_buf_avail stays binary.
THEOREM TypeCorrect == Spec => []TypeOK
<1>1. UdpRecvInv => TypeOK
  BY DEF UdpRecvInv
<1> QED
  BY <1>1, InvHolds, PTL

\* A message in the queue of a socket never waits without a wakeup: pending,
\* about to be sent by udprecv or by the rx thread, or already on its way.
THEOREM WakeupsKept == Spec => []NoLostWakeup
<1>1. UdpRecvInv => NoLostWakeup
  BY DEF UdpRecvInv
<1> QED
  BY <1>1, InvHolds, PTL

\* The stale `remaining_msgs' of the rx thread never exceeds what is queued.
THEOREM RemainingHonest == Spec => []RemainingBound
<1>1. UdpRecvInv => RemainingBound
  BY DEF UdpRecvInv, RemainingInv
<1> QED
  BY <1>1, InvHolds, PTL

\* The rx thread fetches what udprecv queued, once each and in order, and
\* simple_pool_free removes the message that was fetched.
THEOREM InOrder == Spec => []FetchedInOrder
<1>1. UdpRecvInv => FetchedInOrder
  BY DEF UdpRecvInv
<1> QED
  BY <1>1, InvHolds, PTL

\* No pbuf leaks and none is freed twice or used after it was freed.
THEOREM PbufsOwned == Spec => []PbufOwnership
<1>1. UdpRecvInv => PbufOwnership
  BY DEF UdpRecvInv
<1> QED
  BY <1>1, InvHolds, PTL

\* rx_buf keeps a datagram until the thread it was copied for has read it,
\* for any number of sockets and threads of the process.
THEOREM RxBufKept == Spec => []RxBufStable
<1>1. UdpRecvInv => RxBufStable
  BY DEF UdpRecvInv, BufInv
<1> QED
  BY <1>1, InvHolds, PTL

-----------------------------------------------------------------------------
(* UdpRecv implements DatagramChannel: an arrival and a call that reads a  *)
(* datagram are steps of the channel, all others leave it as it is.        *)

\* Whoever is served or reads holds rx_buf_avail: while the rx thread of a
\* socket works on a request, no thread of the process reads, and nobody else
\* is served.
LEMMA OneReader ==
  ASSUME UdpRecvInv, NEW s \in Sockets, rpc[s] \in {"fetch", "copy", "reply"}
  PROVE  /\ \A t \in Threads : tpc[t] # "read"
         /\ \A r \in Sockets : ~Reading(r)
         /\ \A r \in Sockets : rpc[r] \in {"fetch", "copy", "reply"} => r = s
<1>1. PICK t \in Threads : SocketOf[t] = s /\ tpc[t] = "served"
  BY DEF UdpRecvInv, ServedInv
<1>2. \A u \in Threads : Holding(u) => u = t
  BY <1>1 DEF UdpRecvInv, HolderInv, Holding
<1>3. \A u \in Threads : tpc[u] # "read"
  BY <1>1, <1>2 DEF Holding
<1>4. ASSUME NEW r \in Sockets, rpc[r] \in {"fetch", "copy", "reply"}
      PROVE  r = s
  BY <1>1, <1>2, <1>4 DEF UdpRecvInv, ServedInv, Holding
<1> QED
  BY <1>3, <1>4 DEF Reading

\* What the channel's queue consists of.
LEMMA WaitingFacts ==
  ASSUME UdpRecvInv, NEW s \in Sockets
  PROVE  /\ waiting[s] = InFlight(s) \o Unfetched(s)
         /\ InFlight(s) \in Seq(Msgs)
         /\ Unfetched(s) \in Seq(Msgs)
         /\ waiting[s] \in Seq(Msgs)
<1>1. waiting[s] = InFlight(s) \o Unfetched(s)
  BY DEF waiting
<1>2. Unfetched(s) \in Seq(Msgs)
  BY UnfetchedFacts DEF UdpRecvInv, TypeOK, FetchedInOrder
<1>3. msg[s] # None => <<msg[s]>> \in Seq(Msgs)
  BY DEF UdpRecvInv, TypeOK
<1>4. Reading(s) => <<rx_buf>> \in Seq(Msgs)
  BY DEF UdpRecvInv, TypeOK, BufInv, RxBufStable, Reading
<1>5. InFlight(s) \in Seq(Msgs)
  BY <1>3, <1>4 DEF InFlight
<1> QED
  BY <1>1, <1>2, <1>5

\* A step that leaves the fetched and the other messages of every socket where
\* they are for the application.
LEMMA ChannelStutter ==
  ASSUME UNCHANGED <<arrived, returned>>,
         \A s \in Sockets : InFlight(s)' \o Unfetched(s)' = InFlight(s) \o Unfetched(s)
  PROVE  UNCHANGED Channel!vars
<1>1. waiting' = waiting
  BY DEF waiting
<1> QED
  BY <1>1 DEF Channel!vars

\* Steps that touch neither queues, messages nor readers.
LEMMA QuietStep ==
  ASSUME UNCHANGED <<arrived, returned, queue, msg, rx_buf, got>>,
         \A s \in Sockets : rpc[s] \in {"copy", "reply"} /\ msg[s] # None <=>
                            rpc'[s] \in {"copy", "reply"} /\ msg[s] # None,
         \A t \in Threads : tpc[t] = "read" <=> tpc'[t] = "read"
  PROVE  UNCHANGED Channel!vars
<1>1. ASSUME NEW s \in Sockets
      PROVE  InFlight(s)' = InFlight(s) /\ Unfetched(s)' = Unfetched(s)
  BY DEF InFlight, Unfetched, Reading
<1> QED
  BY <1>1, ChannelStutter

\* The length of what waits on a socket.
LEMMA ConcatLen ==
  ASSUME NEW S, NEW p \in Seq(S), NEW q \in Seq(S)
  PROVE  Len(p \o q) = Len(p) + Len(q) /\ Len(p) \in Nat /\ Len(q) \in Nat
OBVIOUS

\* It is that of the queue, or one more when a datagram was freed and is not
\* read yet, or one less when it was read and is not freed yet.
LEMMA WaitingLen ==
  ASSUME UdpRecvInv, NEW s \in Sockets
  PROVE  /\ Len(waiting[s]) \in Len(queue[s]) - 1 .. Len(queue[s]) + 1
         /\ Len(queue[s]) \in Nat
<1> DEFINE a == Len(InFlight(s))
           b == Len(Unfetched(s))
           n == Len(queue[s])
           w == Len(waiting[s])
<1>1. queue[s] \in Seq(Msgs) /\ n \in Nat
  BY DEF UdpRecvInv, TypeOK
<1>2. w = a + b /\ a \in Nat /\ b \in Nat
  BY WaitingFacts, ConcatLen
<1>3. a \in {0, 1}
  <2>1. \A x : Len(<<x>>) = 1
    OBVIOUS
  <2>2. Len(<< >>) = 0
    OBVIOUS
  <2> QED BY <2>1, <2>2 DEF InFlight
<1>4. b = n \/ b = n - 1
  <2>1. CASE msg[s] = None
    BY <2>1 DEF Unfetched
  <2>2. CASE msg[s] # None
    <3>1. queue[s] # << >>
      BY <2>2 DEF UdpRecvInv, FetchedInOrder
    <3>2. Len(Tail(queue[s])) = Len(queue[s]) - 1
      BY <1>1, <3>1
    <3> QED BY <2>2, <3>2 DEF Unfetched
  <2> QED BY <2>1, <2>2
<1> HIDE DEF a, b, n, w
<1>5. w \in n - 1 .. n + 1
  BY <1>1, <1>2, <1>3, <1>4
<1> QED BY <1>1, <1>5 DEF n, w

\* udprecv: the datagram is accepted or dropped.
LEMMA CallbackChannel ==
  ASSUME UdpRecvInv, NEW s \in Sockets, UdpRecvCallback(s)
  PROVE  Channel!Accept(s) \/ Channel!Drop(s)
<1>1. /\ UNCHANGED <<returned, msg, rpc, rx_buf, tpc, got>>
      /\ arrived' = arrived + 1
  BY DEF UdpRecvCallback, rxVars
<1>2. \A r \in Sockets : InFlight(r)' = InFlight(r)
  BY <1>1 DEF InFlight, Reading
<1>3. /\ InFlight(s) \in Seq(Msgs) /\ Unfetched(s) \in Seq(Msgs)
      /\ waiting[s] = InFlight(s) \o Unfetched(s)
  BY WaitingFacts
<1> DEFINE n == Len(queue[s])
           w == Len(waiting[s])
<1>4. queue[s] \in Seq(Msgs) /\ n <= PoolSize /\ PoolSize \in Nat
  BY PoolAssumption DEF UdpRecvInv, TypeOK
<1>5. n \in Nat /\ w \in n - 1 .. n + 1
  BY WaitingLen
<1> HIDE DEF n, w
<1>7. CASE PoolFull(s) /\ UNCHANGED queue
  <2>1. waiting' = waiting
    BY <1>1, <1>2, <1>7 DEF waiting, Unfetched
  <2>2. Len(waiting[s]) >= PoolSize - 1
    <3>1. n = PoolSize
      BY <1>7 DEF PoolFull, n
    <3>2. w >= PoolSize - 1
      BY <1>4, <1>5, <3>1
    <3> QED BY <3>2 DEF w
  <2> QED
    BY <1>1, <2>1, <2>2 DEF Channel!Drop
<1>8. ASSUME ~PoolFull(s), NEW len \in Lens,
             queue' = [queue EXCEPT ![s] = Append(@, [id |-> arrived + 1, len |-> len])]
      PROVE  Channel!Accept(s)
  <2> DEFINE m == [id |-> arrived + 1, len |-> len]
  <2>1. m \in Msgs
    BY MaxMsgsAssumption DEF Msgs, UdpRecvCallback, UdpRecvInv, TypeOK
  <2> HIDE DEF m
  <2>2. /\ queue'[s] = Append(queue[s], m)
        /\ \A r \in Sockets : r # s => queue'[r] = queue[r]
    BY <1>8 DEF UdpRecvInv, TypeOK, m
  <2>3. Unfetched(s)' = Append(Unfetched(s), m)
    <3>1. CASE msg[s] = None
      BY <1>1, <2>2, <3>1 DEF Unfetched
    <3>2. CASE msg[s] # None
      <4>1. queue[s] # << >>
        BY <3>2 DEF UdpRecvInv, FetchedInOrder
      <4>2. Tail(Append(queue[s], m)) = Append(Tail(queue[s]), m)
        BY <1>4, <2>1, <4>1, QueueFacts
      <4> QED BY <1>1, <2>2, <3>2, <4>2 DEF Unfetched
    <3> QED BY <3>1, <3>2
  <2>4. waiting'[s] = Append(waiting[s], m)
    <3>1. waiting'[s] = InFlight(s) \o Append(Unfetched(s), m)
      BY <1>2, <2>3 DEF waiting
    <3> QED BY <1>3, <2>1, <3>1, ConcatAppend
  <2>5. \A r \in Sockets : r # s => waiting'[r] = waiting[r]
    BY <1>1, <1>2, <2>2 DEF waiting, Unfetched
  <2>6. waiting' = [waiting EXCEPT ![s] = Append(@, m)]
    BY <2>4, <2>5 DEF waiting
  <2>7. Len(waiting[s]) <= PoolSize
    <3>1. n # PoolSize
      BY <1>8 DEF PoolFull, n
    <3>2. w <= PoolSize
      BY <1>4, <1>5, <3>1
    <3> QED BY <3>2 DEF w
  <2> QED
    BY <1>1, <2>6, <2>7 DEF Channel!Accept, m
<1> QED
  BY <1>7, <1>8 DEF UdpRecvCallback

\* The fetch: the first message goes from the queue to the rx thread's hands.
LEMMA FetchChannel ==
  ASSUME UdpRecvInv, NEW s \in Sockets, RxFetch(s)
  PROVE  UNCHANGED Channel!vars
<1>1. /\ UNCHANGED <<arrived, returned, queue, rx_buf, tpc, got>>
      /\ rpc[s] = "fetch" /\ rpc'[s] = "copy" /\ msg'[s] = Head(queue[s])
      /\ \A r \in Sockets : r # s => rpc'[r] = rpc[r] /\ msg'[r] = msg[r]
  BY DEF RxFetch, irqVars, UdpRecvInv, TypeOK
<1>2. queue[s] # << >> /\ queue[s] \in Seq(Msgs) /\ msg[s] = None
  BY <1>1 DEF RxFetch, UdpRecvInv, TypeOK, RxInv
<1>3. Head(queue[s]) \in Msgs /\ Head(queue[s]) # None
  BY <1>2, NoneFacts
<1>4. InFlight(s) = << >> /\ Unfetched(s) = queue[s]
  BY <1>1, <1>2, OneReader DEF InFlight, Unfetched
<1>5. InFlight(s)' = <<Head(queue[s])>> /\ Unfetched(s)' = Tail(queue[s])
  BY <1>1, <1>3 DEF InFlight, Unfetched
<1>6. <<Head(queue[s])>> \o Tail(queue[s]) = << >> \o queue[s]
  BY <1>2
<1>7. ASSUME NEW r \in Sockets, r # s
      PROVE  InFlight(r)' = InFlight(r) /\ Unfetched(r)' = Unfetched(r)
  BY <1>1, <1>7 DEF InFlight, Unfetched, Reading
<1> QED
  BY <1>1, <1>4, <1>5, <1>6, <1>7, ChannelStutter

\* The copy overwrites rx_buf while no thread of the process reads it.
LEMMA CopyChannel ==
  ASSUME UdpRecvInv, NEW s \in Sockets, RxCopy(s)
  PROVE  UNCHANGED Channel!vars
<1>1. /\ UNCHANGED <<arrived, returned, queue, msg, tpc, got>>
      /\ rpc[s] = "copy" /\ rpc'[s] = "reply"
      /\ \A r \in Sockets : r # s => rpc'[r] = rpc[r]
  BY DEF RxCopy, irqVars, histVars, UdpRecvInv, TypeOK
<1>2. \A r \in Sockets : ~Reading(r) /\ ~Reading(r)'
  BY <1>1, OneReader DEF Reading
<1>3. ASSUME NEW r \in Sockets
      PROVE  InFlight(r)' = InFlight(r) /\ Unfetched(r)' = Unfetched(r)
  BY <1>1, <1>2 DEF InFlight, Unfetched
<1> QED
  BY <1>1, <1>3, ChannelStutter

\* The reply: the datagram in hand is now the one in rx_buf.
LEMMA ReplyChannel ==
  ASSUME UdpRecvInv, NEW s \in Sockets, RxReply(s)
  PROVE  UNCHANGED Channel!vars
<1>1. /\ UNCHANGED <<arrived, returned, queue, msg, rx_buf>>
      /\ rpc[s] = "reply" /\ rpc'[s] \notin {"copy", "reply"}
      /\ \A r \in Sockets : r # s => rpc'[r] = rpc[r]
  BY DEF RxReply, irqVars, histVars, UdpRecvInv, TypeOK
<1>2. PICK t \in Threads :
             /\ SocketOf[t] = s
             /\ tpc' = [tpc EXCEPT ![t] = "read"]
             /\ got' = [got EXCEPT ![t] = msg[s]]
  BY DEF RxReply
<1>3. /\ tpc'[t] = "read" /\ got'[t] = msg[s]
      /\ \A u \in Threads : u # t => tpc'[u] = tpc[u] /\ got'[u] = got[u]
  BY <1>2 DEF UdpRecvInv, TypeOK
<1>4. /\ \A u \in Threads : tpc[u] # "read"
      /\ \A r \in Sockets : ~Reading(r)
  BY <1>1, OneReader
<1>5. Reading(s)' <=> msg[s] # None
  BY <1>2, <1>3, <1>4 DEF Reading
<1>6. \A r \in Sockets : r # s => ~Reading(r)'
  BY <1>2, <1>3, <1>4 DEF Reading
<1>7. msg[s] # None => rx_buf = msg[s]
  BY <1>1 DEF UdpRecvInv, BufInv
<1>8. InFlight(s)' = InFlight(s)
  BY <1>1, <1>4, <1>5, <1>7 DEF InFlight
<1>9. ASSUME NEW r \in Sockets, r # s
      PROVE  InFlight(r)' = InFlight(r)
  BY <1>1, <1>4, <1>6, <1>9 DEF InFlight
<1>10. \A r \in Sockets : Unfetched(r)' = Unfetched(r)
  BY <1>1 DEF Unfetched
<1> QED
  BY <1>1, <1>8, <1>9, <1>10, ChannelStutter

\* The entry that goes back to the pool is the one of the fetched message.
LEMMA FreeMsgChannel ==
  ASSUME UdpRecvInv, NEW s \in Sockets, RxFreeMsg(s)
  PROVE  UNCHANGED Channel!vars
<1>1. /\ UNCHANGED <<arrived, returned, rx_buf, tpc, got>>
      /\ rpc[s] = "pool" /\ rpc'[s] = "top" /\ msg'[s] = None
      /\ queue'[s] = Tail(queue[s])
      /\ \A r \in Sockets : r # s =>
           rpc'[r] = rpc[r] /\ msg'[r] = msg[r] /\ queue'[r] = queue[r]
  BY DEF RxFreeMsg, irqVars, histVars, UdpRecvInv, TypeOK
<1>2. msg[s] # None
  BY <1>1 DEF UdpRecvInv, RxInv
<1>3. Reading(s)' <=> Reading(s)
  BY <1>1 DEF Reading
<1>4. InFlight(s)' = InFlight(s)
  BY <1>1, <1>3 DEF InFlight
<1>5. Unfetched(s)' = Unfetched(s)
  BY <1>1, <1>2 DEF Unfetched
<1>6. ASSUME NEW r \in Sockets, r # s
      PROVE  InFlight(r)' = InFlight(r) /\ Unfetched(r)' = Unfetched(r)
  BY <1>1, <1>6 DEF InFlight, Unfetched, Reading
<1> QED
  BY <1>1, <1>4, <1>5, <1>6, ChannelStutter

\* A call reads rx_buf, where the first datagram of its socket's channel is,
\* or learns that there was none.
LEMMA ReadChannel ==
  ASSUME UdpRecvInv, NEW t \in Threads, RecvRead(t)
  PROVE  [Channel!Take(SocketOf[t])]_(Channel!vars)
<1> DEFINE s == SocketOf[t]
<1>1. /\ UNCHANGED <<arrived, queue, msg, rpc, rx_buf>>
      /\ tpc[t] = "read" /\ tpc'[t] # "read"
      /\ \A u \in Threads : u # t => tpc'[u] = tpc[u] /\ got'[u] = got[u]
  BY DEF RecvRead, Advance, rxVars, irqVars, UdpRecvInv, TypeOK
<1>2. s \in Sockets
  BY SocketOfAssumption
<1> HIDE DEF s
<1>3. \A u \in Threads : tpc[u] = "read" => u = t
  BY <1>1 DEF UdpRecvInv, HolderInv, Holding
<1>4. \A r \in Sockets : ~Reading(r)'
  BY <1>1, <1>3 DEF Reading
<1>5. \A r \in Sockets : Reading(r) <=> r = s /\ got[t] # None
  BY <1>1, <1>2, <1>3 DEF Reading, s
<1>6. \A r \in Sockets : rpc[r] \notin {"copy", "reply"}
  BY <1>1, OneReader
<1>7. /\ \A r \in Sockets : InFlight(r)' = << >> /\ Unfetched(r)' = Unfetched(r)
      /\ \A r \in Sockets : r # s => InFlight(r) = << >>
      /\ InFlight(s) = IF got[t] # None THEN <<rx_buf>> ELSE << >>
  BY <1>1, <1>2, <1>4, <1>5, <1>6 DEF InFlight, Unfetched
<1>8. CASE got[t] = None
  <2>1. UNCHANGED returned
    BY <1>8 DEF RecvRead, Fits, None
  <2> QED
    BY <1>1, <1>7, <1>8, <2>1, ChannelStutter
<1>9. CASE got[t] # None
  <2>1. rx_buf = got[t]
    BY <1>1, <1>9 DEF UdpRecvInv, BufInv, RxBufStable
  <2>2. rx_buf \in Msgs /\ Unfetched(s) \in Seq(Msgs)
    BY <1>2, <1>9, <2>1, WaitingFacts DEF UdpRecvInv, TypeOK
  <2>3. waiting[s] = <<rx_buf>> \o Unfetched(s) /\ waiting'[s] = << >> \o Unfetched(s)
    BY <1>2, <1>7, <1>9 DEF waiting
  <2>4. waiting[s] # << >> /\ Head(waiting[s]) = rx_buf /\ Tail(waiting[s]) = waiting'[s]
    BY <2>2, <2>3
  <2>5. \A r \in Sockets : r # s => waiting'[r] = waiting[r]
    BY <1>7 DEF waiting
  <2>6. waiting' = [waiting EXCEPT ![s] = Tail(@)]
    BY <2>4, <2>5 DEF waiting
  <2>7. returned' = IF Fits(rx_buf) THEN [returned EXCEPT ![s] = Append(@, rx_buf)]
                    ELSE returned
    BY <2>1 DEF RecvRead, s
  <2>8. Fits(rx_buf) <=> Channel!Fits(rx_buf)
    BY DEF Fits, Channel!Fits
  <2>9. Channel!Take(s)
    BY <1>1, <2>4, <2>6, <2>7, <2>8 DEF Channel!Take
  <2> QED
    BY <2>9 DEF s
<1> QED
  BY <1>8, <1>9

LEMMA IrqChannel ==
  ASSUME UdpRecvInv, IrqNext
  PROVE  [Channel!Next]_(Channel!vars)
<1>1. CASE IrqWait
  BY <1>1, QuietStep DEF IrqWait, rxVars, histVars
<1>2. ASSUME NEW s \in Sockets, UdpRecvCallback(s)
      PROVE  Channel!Next
  BY <1>2, CallbackChannel DEF Channel!Next
<1>3. CASE UdpRecvSignal
  <2>1. isock \in Sockets
    BY <1>3 DEF UdpRecvSignal, UdpRecvInv, TypeOK, IrqInv
  <2>2. \A t \in Threads : tpc[t] = "read" <=> tpc'[t] = "read"
    BY <1>3, <2>1 DEF UdpRecvSignal, Signal, Waiters, UdpRecvInv, TypeOK
  <2> QED
    BY <1>3, <2>2, QuietStep DEF UdpRecvSignal, rxVars, histVars
<1>4. CASE IrqDone
  BY <1>4, QuietStep DEF IrqDone, rxVars, histVars
<1> QED
  BY <1>1, <1>2, <1>3, <1>4 DEF IrqNext

LEMMA RxChannel ==
  ASSUME UdpRecvInv, NEW s \in Sockets, RxNext(s)
  PROVE  UNCHANGED Channel!vars
<1>1. CASE RxTop(s)
  <2>1. \A t \in Threads : tpc[t] = "read" <=> tpc'[t] = "read"
    BY <1>1 DEF RxTop, Signal, Waiters, UdpRecvInv, TypeOK
  <2>2. \A r \in Sockets : rpc[r] \in {"copy", "reply"} <=> rpc'[r] \in {"copy", "reply"}
    BY <1>1 DEF RxTop, UdpRecvInv, TypeOK
  <2> QED
    BY <1>1, <2>1, <2>2, QuietStep DEF RxTop, irqVars, histVars
<1>2. CASE RxRecv(s)
  <2>1. \A t \in Threads : tpc[t] = "read" <=> tpc'[t] = "read"
    BY <1>2 DEF RxRecv, UdpRecvInv, TypeOK
  <2>2. \A r \in Sockets : rpc[r] \in {"copy", "reply"} <=> rpc'[r] \in {"copy", "reply"}
    BY <1>2 DEF RxRecv, UdpRecvInv, TypeOK
  <2> QED
    BY <1>2, <2>1, <2>2, QuietStep DEF RxRecv, irqVars, histVars
<1>3. CASE RxFetchNone(s)
  <2>1. msg[s] = None
    BY <1>3 DEF RxFetchNone, UdpRecvInv, RxInv
  <2>2. \A r \in Sockets : r # s => rpc'[r] = rpc[r]
    BY <1>3 DEF RxFetchNone, UdpRecvInv, TypeOK
  <2> QED
    BY <1>3, <2>1, <2>2, QuietStep DEF RxFetchNone, irqVars, histVars
<1>4. CASE RxFreePbuf(s)
  <2>1. \A r \in Sockets : rpc[r] \in {"copy", "reply"} <=> rpc'[r] \in {"copy", "reply"}
    BY <1>4 DEF RxFreePbuf, UdpRecvInv, TypeOK
  <2> QED
    BY <1>4, <2>1, QuietStep DEF RxFreePbuf, irqVars
<1> QED
  BY <1>1, <1>2, <1>3, <1>4, FetchChannel, CopyChannel, ReplyChannel,
     FreeMsgChannel DEF RxNext

LEMMA ThreadChannel ==
  ASSUME UdpRecvInv, NEW t \in Threads, ThreadNext(t)
  PROVE  [Channel!Next]_(Channel!vars)
<1>1. CASE RecvWait(t)
  <2>1. \A u \in Threads : tpc[u] = "read" <=> tpc'[u] = "read"
    BY <1>1 DEF RecvWait, Advance, UdpRecvInv, TypeOK
  <2> QED
    BY <1>1, <2>1, QuietStep DEF RecvWait, rxVars, irqVars, histVars
<1>2. CASE RecvTake(t)
  <2>1. \A u \in Threads : tpc[u] = "read" <=> tpc'[u] = "read"
    BY <1>2 DEF RecvTake, Advance, UdpRecvInv, TypeOK
  <2> QED
    BY <1>2, <2>1, QuietStep DEF RecvTake, rxVars, irqVars, histVars
<1>3. CASE RecvRead(t)
  <2>1. SocketOf[t] \in Sockets
    BY SocketOfAssumption
  <2> QED
    BY <1>3, <2>1, ReadChannel DEF Channel!Next
<1> QED
  BY <1>1, <1>2, <1>3 DEF ThreadNext

LEMMA ChannelInit == Init => Channel!Init
<1> SUFFICES ASSUME Init PROVE Channel!Init
  OBVIOUS
<1>1. ASSUME NEW s \in Sockets PROVE InFlight(s) = << >> /\ Unfetched(s) = << >>
  BY DEF Init, InFlight, Reading, Unfetched
<1>2. waiting = [s \in Sockets |-> << >>]
  BY <1>1 DEF waiting
<1> QED
  BY <1>2 DEF Init, Channel!Init

LEMMA ChannelStep == UdpRecvInv /\ [Next]_vars => [Channel!Next]_(Channel!vars)
<1> SUFFICES ASSUME UdpRecvInv, [Next]_vars PROVE [Channel!Next]_(Channel!vars)
  OBVIOUS
<1>1. CASE UNCHANGED vars
  BY <1>1, QuietStep DEF vars, rxVars, irqVars, histVars
<1> QED
  BY <1>1, IrqChannel, RxChannel, ThreadChannel DEF Next

\* End to end, for any sockets, receiving threads, pool size and lengths: the
\* path of a datagram through udprecv, the queue, the rx thread, the shared
\* rx_buf and sel4osapi_udp_recv is a FIFO channel per socket, which loses a
\* datagram on a full queue or in a call without room for it and nowhere else.
THEOREM ChannelImplemented == Spec => ImplementsChannel
  BY InvHolds, ChannelInit, ChannelStep, PTL DEF Spec, ImplementsChannel, Channel!Spec
=============================================================================
