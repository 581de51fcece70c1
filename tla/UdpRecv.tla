------------------------------ MODULE UdpRecv -------------------------------
(***************************************************************************)
(* Reception of UDP datagrams (src/udp.c, src/network.c): from the network *)
(* interrupt through the queue of a socket and its rx thread to the        *)
(* threads of one process that call sel4osapi_udp_recv.                    *)
(*                                                                         *)
(* The threads are the interface's interrupt thread, which runs lwIP and   *)
(* its callback udprecv under the interface's mutex; one rx thread per     *)
(* bound socket, in the root task; and the receiving threads of a process, *)
(* which share one rx_buf, guarded by the semaphore rx_buf_avail.          *)
(*                                                                         *)
(* A section under a socket's msgs_mutex is one action (nothing else it    *)
(* touches is shared, and nobody takes another lock inside it).  The       *)
(* interface's mutex is held by the interrupt thread over several actions. *)
(* A socket's queue `msgs' is the `entries' list of a simple_pool_t.       *)
(***************************************************************************)
EXTENDS Integers, SequencesExt

CONSTANTS
  Sockets,    \* bound sockets of the process
  Threads,    \* its threads that receive
  SocketOf,   \* the socket each of them receives on
  PoolSize,   \* SEL4OSAPI_UDP_MAX_MSGS_PER_CLIENT
  Lens,       \* datagram lengths that arrive, none above rx_buf_size
  MaxLen,     \* max_len of the receivers' buffers
  MaxMsgs     \* bound of the model: datagrams that arrive

ASSUME SocketOfAssumption == SocketOf \in [Threads -> Sockets]
ASSUME PoolAssumption == PoolSize \in Nat \ {0}
ASSUME LensAssumption == Lens \subseteq Nat
ASSUME MaxLenAssumption == MaxLen \in Nat \ {0}
ASSUME MaxMsgsAssumption == MaxMsgs \in Nat

\* A datagram, and with it its pbuf: the number of its arrival and its length.
Msgs == [id: 1 .. MaxMsgs, len: Lens]
None == [id |-> 0, len |-> 0]
NoSocket == "none"
ASSUME SocketsAssumption == NoSocket \notin Sockets

VARIABLES
  queue,      \* server->msgs->entries of a socket
  aep,        \* kernel: pending signal on a socket's aep_rx_data
  rpc,        \* rx thread: where it is
  msg,        \* rx thread: `msg', None for NULL
  remaining,  \* rx thread: `remaining_msgs'
  iface,      \* the interface's mutex is held by the interrupt thread
  ipc,        \* interrupt thread: "wait", "handle" or "signal"
  isock,      \* interrupt thread: the socket udprecv runs for, or NoSocket
  rx_buf,     \* content of the process's receive buffer
  avail,      \* value of the semaphore rx_buf_avail
  tpc,        \* receiving thread: where it is
  got,        \* receiving thread: the datagram the reply described
  arrived,    \* number of datagrams that arrived so far, up to MaxMsgs
  live,       \* history: pbufs handed over by lwIP and not freed
  accepted,   \* history: datagrams queued on a socket, in order
  handed,     \* history: datagrams its rx thread fetched, in order
  returned    \* history: datagrams its receivers' calls returned, in order

rxVars == <<rpc, msg, remaining>>
irqVars == <<iface, ipc, isock, arrived>>
histVars == <<live, accepted, handed, returned>>
vars == <<queue, aep, rxVars, irqVars, rx_buf, avail, tpc, got, histVars>>

RxStates == {"top", "recv", "fetch", "copy", "reply", "pbuf", "pool"}
\* "wait": blocked on the notification; "sem": taking rx_buf_avail; "call":
\* queued on ep_rx_ready; "served": received by the rx thread; "read": has
\* the reply.
ThreadStates == {"run", "wait", "sem", "call", "served", "read"}

TypeOK ==
  /\ queue \in [Sockets -> Seq(Msgs)]
  /\ \A s \in Sockets : Len(queue[s]) <= PoolSize
  /\ aep \in [Sockets -> BOOLEAN]
  /\ rpc \in [Sockets -> RxStates]
  /\ msg \in [Sockets -> Msgs \cup {None}]
  /\ remaining \in [Sockets -> Nat]
  /\ iface \in BOOLEAN
  /\ ipc \in {"wait", "handle", "signal"}
  /\ isock \in Sockets \cup {NoSocket}
  /\ rx_buf \in Msgs \cup {None}
  /\ avail \in {0, 1}
  /\ tpc \in [Threads -> ThreadStates]
  /\ got \in [Threads -> Msgs \cup {None}]
  /\ arrived \in 0 .. MaxMsgs
  /\ live \subseteq Msgs
  /\ accepted \in [Sockets -> Seq(Msgs)]
  /\ handed \in [Sockets -> Seq(Msgs)]
  /\ returned \in [Sockets -> Seq(Msgs)]

Init ==
  /\ queue = [s \in Sockets |-> << >>]
  /\ aep = [s \in Sockets |-> FALSE]
  /\ rpc = [s \in Sockets |-> "top"]
  /\ msg = [s \in Sockets |-> None]
  /\ remaining = [s \in Sockets |-> 0]
  /\ iface = FALSE
  /\ ipc = "wait"
  /\ isock = NoSocket
  /\ rx_buf = None
  /\ avail = 1
  /\ tpc = [t \in Threads |-> "run"]
  /\ got = [t \in Threads |-> None]
  /\ arrived = 0
  /\ live = {}
  /\ accepted = [s \in Sockets |-> << >>]
  /\ handed = [s \in Sockets |-> << >>]
  /\ returned = [s \in Sockets |-> << >>]

\* seL4_Send on a socket's notification: hands the signal to one of the
\* threads blocked on it, or leaves it pending.
Waiters(s) == {t \in Threads : SocketOf[t] = s /\ tpc[t] = "wait"}

Signal(s) ==
  \/ /\ Waiters(s) = {}
     /\ aep' = [aep EXCEPT ![s] = TRUE]
     /\ UNCHANGED tpc
  \/ \E t \in Waiters(s) :
       /\ tpc' = [tpc EXCEPT ![t] = "sem"]
       /\ UNCHANGED aep

-----------------------------------------------------------------------------
(* The interrupt thread, sel4osapi_eth_irq1_thread.                        *)

\* Woken by the interrupt (or by the signal the thread sends itself when it
\* starts), takes the interface's mutex and runs the driver's handler.
IrqWait ==
  /\ ipc = "wait"
  /\ ~iface
  /\ iface' = TRUE
  /\ ipc' = "handle"
  /\ UNCHANGED <<queue, aep, rxVars, isock, arrived, rx_buf, avail, tpc, got,
                 histVars>>

PoolFull(s) == Len(queue[s]) = PoolSize

\* udprecv, up to the unlock of msgs_mutex: the handler received a datagram
\* for socket s.  With a full pool it is dropped and its pbuf freed.
UdpRecvCallback(s) ==
  /\ ipc = "handle"
  /\ arrived < MaxMsgs
  /\ \E len \in Lens : LET m == [id |-> arrived + 1, len |-> len] IN
       \/ /\ PoolFull(s)
          /\ UNCHANGED <<queue, live, accepted>>
       \/ /\ ~PoolFull(s)
          /\ queue' = [queue EXCEPT ![s] = Append(@, m)]
          /\ live' = live \cup {m}
          /\ accepted' = [accepted EXCEPT ![s] = Append(@, m)]
  /\ arrived' = arrived + 1
  /\ isock' = s
  /\ ipc' = "signal"
  /\ UNCHANGED <<aep, rxVars, iface, rx_buf, avail, tpc, got, handed,
                 returned>>

\* udprecv, its seL4_Send: also for a datagram that was dropped.
UdpRecvSignal ==
  /\ ipc = "signal"
  /\ Signal(isock)
  /\ ipc' = "handle"
  /\ isock' = NoSocket
  /\ UNCHANGED <<queue, rxVars, iface, arrived, rx_buf, avail, got, histVars>>

IrqDone ==
  /\ ipc = "handle"
  /\ iface' = FALSE
  /\ ipc' = "wait"
  /\ UNCHANGED <<queue, aep, rxVars, isock, arrived, rx_buf, avail, tpc, got,
                 histVars>>

-----------------------------------------------------------------------------
(* The rx thread of a socket, sel4osapi_udp_socket_rx_thread.              *)

\* Mutant of RxTop: the client is not told about the messages left.
RxTopSilent(s) ==
  /\ rpc[s] = "top"
  /\ rpc' = [rpc EXCEPT ![s] = "recv"]
  /\ UNCHANGED <<queue, aep, msg, remaining, irqVars, rx_buf, avail, tpc, got,
                 histVars>>

\* One more signal for the messages left: signals sent by udprecv coalesce.
RxTop(s) ==
  /\ rpc[s] = "top"
  /\ IF remaining[s] > 0 THEN Signal(s) ELSE UNCHANGED <<aep, tpc>>
  /\ rpc' = [rpc EXCEPT ![s] = "recv"]
  /\ UNCHANGED <<queue, msg, remaining, irqVars, rx_buf, avail, got,
                 histVars>>

RxRecv(s) ==
  /\ rpc[s] = "recv"
  /\ \E t \in Threads :
       /\ SocketOf[t] = s
       /\ tpc[t] = "call"
       /\ tpc' = [tpc EXCEPT ![t] = "served"]
  /\ rpc' = [rpc EXCEPT ![s] = "fetch"]
  /\ UNCHANGED <<queue, aep, msg, remaining, irqVars, rx_buf, avail, got,
                 histVars>>

\* "awaken without messages": the reply will have length 0.
RxFetchNone(s) ==
  /\ rpc[s] = "fetch"
  /\ queue[s] = << >>
  /\ rpc' = [rpc EXCEPT ![s] = "reply"]
  /\ UNCHANGED <<queue, aep, msg, remaining, irqVars, rx_buf, avail, tpc, got,
                 histVars>>

\* Mutant of RxFetch: takes the newest message.
RxFetchLast(s) ==
  /\ rpc[s] = "fetch"
  /\ queue[s] # << >>
  /\ msg' = [msg EXCEPT ![s] = Last(queue[s])]
  /\ remaining' = [remaining EXCEPT ![s] = Len(queue[s])]
  /\ handed' = [handed EXCEPT ![s] = Append(@, Last(queue[s]))]
  /\ rpc' = [rpc EXCEPT ![s] = "copy"]
  /\ UNCHANGED <<queue, aep, irqVars, rx_buf, avail, tpc, got, live, accepted,
                 returned>>

\* The first message stays in the queue until RxFreeMsg.
RxFetch(s) ==
  /\ rpc[s] = "fetch"
  /\ queue[s] # << >>
  /\ msg' = [msg EXCEPT ![s] = Head(queue[s])]
  /\ remaining' = [remaining EXCEPT ![s] = Len(queue[s])]
  /\ handed' = [handed EXCEPT ![s] = Append(@, Head(queue[s]))]
  /\ rpc' = [rpc EXCEPT ![s] = "copy"]
  /\ UNCHANGED <<queue, aep, irqVars, rx_buf, avail, tpc, got, live, accepted,
                 returned>>

\* Mutant of RxCopy: the datagram is not copied before the reply.
RxCopyLater(s) ==
  /\ rpc[s] = "copy"
  /\ remaining' = [remaining EXCEPT ![s] = @ - 1]
  /\ rpc' = [rpc EXCEPT ![s] = "reply"]
  /\ UNCHANGED <<queue, aep, msg, irqVars, rx_buf, avail, tpc, got, histVars>>

RxCopy(s) ==
  /\ rpc[s] = "copy"
  /\ rx_buf' = msg[s]
  /\ remaining' = [remaining EXCEPT ![s] = @ - 1]
  /\ rpc' = [rpc EXCEPT ![s] = "reply"]
  /\ UNCHANGED <<queue, aep, msg, irqVars, avail, tpc, got, histVars>>

RxReply(s) ==
  /\ rpc[s] = "reply"
  /\ \E t \in Threads :
       /\ SocketOf[t] = s
       /\ tpc[t] = "served"
       /\ tpc' = [tpc EXCEPT ![t] = "read"]
       /\ got' = [got EXCEPT ![t] = msg[s]]
  /\ rpc' = [rpc EXCEPT ![s] = IF msg[s] = None THEN "top" ELSE "pbuf"]
  /\ UNCHANGED <<queue, aep, msg, remaining, irqVars, rx_buf, avail,
                 histVars>>

\* Mutant of RxFreePbuf: the pbuf is kept.
RxKeepPbuf(s) ==
  /\ rpc[s] = "pbuf"
  /\ ~iface
  /\ rpc' = [rpc EXCEPT ![s] = "pool"]
  /\ UNCHANGED <<queue, aep, msg, remaining, irqVars, rx_buf, avail, tpc, got,
                 histVars>>

\* pbuf_free, under the interface's mutex.
RxFreePbuf(s) ==
  /\ rpc[s] = "pbuf"
  /\ ~iface
  /\ live' = live \ {msg[s]}
  /\ rpc' = [rpc EXCEPT ![s] = "pool"]
  /\ UNCHANGED <<queue, aep, msg, remaining, irqVars, rx_buf, avail, tpc, got,
                 accepted, handed, returned>>

\* simple_pool_free(server->msgs, msg): msg is the first entry.
RxFreeMsg(s) ==
  /\ rpc[s] = "pool"
  /\ queue' = [queue EXCEPT ![s] = Tail(@)]
  /\ msg' = [msg EXCEPT ![s] = None]
  /\ rpc' = [rpc EXCEPT ![s] = "top"]
  /\ UNCHANGED <<aep, remaining, irqVars, rx_buf, avail, tpc, got, histVars>>

-----------------------------------------------------------------------------
(* A receiving thread in sel4osapi_udp_recv.                               *)

Advance(t, from, to) == tpc[t] = from /\ tpc' = [tpc EXCEPT ![t] = to]

\* Mutant of RecvWait: a pending signal is not seen.
RecvWaitBlocks(t) ==
  /\ Advance(t, "run", "wait")
  /\ UNCHANGED <<queue, aep, rxVars, irqVars, rx_buf, avail, got, histVars>>

\* seL4_Recv on aep_rx_data consumes a pending signal or blocks.
RecvWait(t) ==
  /\ LET s == SocketOf[t] IN
     \/ /\ aep[s]
        /\ Advance(t, "run", "sem")
        /\ aep' = [aep EXCEPT ![s] = FALSE]
     \/ /\ ~aep[s]
        /\ Advance(t, "run", "wait")
        /\ UNCHANGED aep
  /\ UNCHANGED <<queue, rxVars, irqVars, rx_buf, avail, got, histVars>>

\* Takes rx_buf_avail and calls the rx thread.
RecvTake(t) ==
  /\ avail > 0
  /\ avail' = avail - 1
  /\ Advance(t, "sem", "call")
  /\ UNCHANGED <<queue, aep, rxVars, irqVars, rx_buf, got, histVars>>

\* sel4osapi_udp_recv fails when the reply says 0 bytes, or more than fit the
\* caller's buffer: the datagram is gone all the same.
Fits(m) == m.len # 0 /\ m.len <= MaxLen

\* Mutant of RecvRead: the length in the reply is not checked.
RecvReadUnchecked(t) ==
  /\ Advance(t, "read", "run")
  /\ avail' = avail + 1
  /\ got' = [got EXCEPT ![t] = None]
  /\ returned' = [returned EXCEPT ![SocketOf[t]] = Append(@, rx_buf)]
  /\ UNCHANGED <<queue, aep, rxVars, irqVars, rx_buf, live, accepted, handed>>

\* Returns an error, or the content of rx_buf; then gives rx_buf_avail.
RecvRead(t) ==
  /\ Advance(t, "read", "run")
  /\ avail' = avail + 1
  /\ got' = [got EXCEPT ![t] = None]
  /\ returned' = IF Fits(got[t])
                 THEN [returned EXCEPT ![SocketOf[t]] = Append(@, rx_buf)]
                 ELSE returned
  /\ UNCHANGED <<queue, aep, rxVars, irqVars, rx_buf, live, accepted, handed>>

-----------------------------------------------------------------------------
IrqNext ==
  \/ IrqWait
  \/ \E s \in Sockets : UdpRecvCallback(s)
  \/ UdpRecvSignal
  \/ IrqDone

RxNext(s) ==
  \/ RxTop(s)
  \/ RxRecv(s)
  \/ RxFetchNone(s)
  \/ RxFetch(s)
  \/ RxCopy(s)
  \/ RxReply(s)
  \/ RxFreePbuf(s)
  \/ RxFreeMsg(s)

ThreadNext(t) == RecvWait(t) \/ RecvTake(t) \/ RecvRead(t)

Next ==
  \/ IrqNext
  \/ \E s \in Sockets : RxNext(s)
  \/ \E t \in Threads : ThreadNext(t)

Spec == Init /\ [][Next]_vars

\* The interrupt thread finishes a handler it started; rx threads run when
\* they can; the interface's mutex and rx_buf_avail wake a waiter when they
\* are released, so no waiter is overtaken forever; and the application
\* calls sel4osapi_udp_recv again after every datagram.
Fairness ==
  /\ WF_vars(UdpRecvSignal)
  /\ WF_vars(IrqDone)
  /\ \A s \in Sockets : WF_vars(RxNext(s)) /\ SF_vars(RxFreePbuf(s))
  /\ \A t \in Threads : WF_vars(ThreadNext(t)) /\ SF_vars(RecvTake(t))

FairSpec == Spec /\ Fairness

-----------------------------------------------------------------------------
(* Properties.                                                             *)

\* The messages of s that its rx thread has not fetched.
Unfetched(s) == IF msg[s] = None THEN queue[s] ELSE Tail(queue[s])

\* A thread of s that will have the rx thread look at the queue again.
Coming(s) ==
  \E t \in Threads :
    /\ SocketOf[t] = s
    /\ \/ tpc[t] \in {"sem", "call"}
       \/ tpc[t] = "served" /\ rpc[s] = "fetch"

\* The rx thread will signal when it is back at the top of its loop.
WillSignal(s) ==
  \/ rpc[s] = "copy" /\ remaining[s] > 1
  \/ rpc[s] \in {"reply", "pbuf", "pool", "top"} /\ remaining[s] > 0

\* No lost wakeup: while a message waits in the queue of a socket, a signal
\* is pending or about to be sent, or a receiver is on its way to fetch one.
\* Signals on aep_rx_data coalesce, udprecv queues the message before it
\* signals, and the rx thread counts the messages left before it has
\* replied; in every interleaving a waiting receiver is still woken.
NoLostWakeup ==
  \A s \in Sockets :
    Unfetched(s) # << >> =>
      aep[s] \/ isock = s \/ Coming(s) \/ WillSignal(s)

\* `remaining_msgs' never promises messages that are not there: the signal
\* at the top of the rx thread's loop wakes a receiver for a real message,
\* although the count was read several unlocked steps before.
RemainingBound ==
  \A s \in Sockets :
    rpc[s] # "copy" => remaining[s] <= Len(Unfetched(s))

\* Every message udprecv queued is fetched exactly once, in the order of
\* arrival, and the message the rx thread frees is the one it fetched, even
\* if others were queued since.
FetchedInOrder ==
  \A s \in Sockets :
    /\ msg[s] # None => queue[s] # << >> /\ Head(queue[s]) = msg[s]
    /\ accepted[s] = handed[s] \o Unfetched(s)

\* The pbufs the rx threads own are those of the queued messages, except
\* between pbuf_free and simple_pool_free: none leaks when a message is
\* dropped or delivered, none is freed twice, and the rx thread copies from
\* a live one.
PbufOwnership ==
  live = {m \in Msgs : \E s \in Sockets : \E i \in DOMAIN queue[s] :
            queue[s][i] = m /\ ~(i = 1 /\ rpc[s] = "pool")}

\* The process's one rx_buf, written by the rx threads of all its sockets,
\* keeps a datagram until the receiver it was copied for has read it.
RxBufStable ==
  \A t \in Threads :
    tpc[t] = "read" /\ got[t] # None => rx_buf = got[t]

\* The datagram fetched for s that is not yet with the application: with the
\* rx thread, or in rx_buf.
Reading(s) ==
  \E t \in Threads : SocketOf[t] = s /\ tpc[t] = "read" /\ got[t] # None

InFlight(s) ==
  IF rpc[s] \in {"copy", "reply"} /\ msg[s] # None THEN <<msg[s]>>
  ELSE IF Reading(s) THEN <<rx_buf>> ELSE << >>

waiting == [s \in Sockets |-> InFlight(s) \o Unfetched(s)]

Channel == INSTANCE DatagramChannel WITH Capacity <- PoolSize

\* End to end, from udprecv to the return of sel4osapi_udp_recv: whatever
\* threads receive on them, the sockets of a process are FIFO channels. A
\* datagram is dropped on a full queue only; otherwise the calls return each
\* once and in order, except those of 0 bytes and those longer than the
\* buffer, which are lost.
ImplementsChannel == Channel!Spec

\* Every datagram a socket accepts is fetched for a receiver, if receivers
\* of every socket keep calling sel4osapi_udp_recv.
EventuallyFetched ==
  \A s \in Sockets, n \in 1 .. MaxMsgs :
    Len(accepted[s]) >= n ~> Len(handed[s]) >= n
=============================================================================
