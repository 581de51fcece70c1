------------------------------ MODULE UdpSend -------------------------------
(***************************************************************************)
(* Transmission of UDP datagrams (src/udp.c): the threads of one process   *)
(* that call sel4osapi_udp_send, and the tx threads of its sockets in the  *)
(* root task.  All the sockets of a process share one tx_buf, guarded by   *)
(* the semaphore tx_buf_avail; a tx thread uses lwIP under the interface's *)
(* mutex, which the interrupt thread of the interface takes as well.       *)
(***************************************************************************)
EXTENDS Integers, Sequences

CONSTANTS
  Sockets,   \* the sockets of the process
  Threads,   \* its threads that send
  MaxSends   \* bound of the model: calls to sel4osapi_udp_send

ASSUME SendsAssumption == MaxSends \in Nat

\* A datagram is the number of the call that sends it; 0 is none.
Datagrams == 1 .. MaxSends
NoSocket == "none"
ASSUME SocketsAssumption == NoSocket \notin Sockets

VARIABLES
  avail,    \* value of the semaphore tx_buf_avail
  tx_buf,   \* content of the process's transmit buffer
  tpc,      \* sending thread: "run", "sem", "call", "served" or "done"
  msg,      \* sending thread: the datagram it passed, 0 if it is not sending
  sock,     \* sending thread: the socket it passed
  error,    \* sending thread: the error flag in the reply
  xpc,      \* tx thread: "recv", "send" or "reply"
  lwerr,    \* tx thread: whether transmission failed
  iface,    \* the interface's mutex is held by its interrupt thread
  calls,    \* number of calls so far, up to MaxSends
  wire,     \* history: datagrams handed to udp_sendto, in order
  ok        \* history: datagrams whose call returned 0

threadVars == <<msg, sock, error, calls>>
vars == <<avail, tx_buf, tpc, threadVars, xpc, lwerr, iface, wire, ok>>

TypeOK ==
  /\ avail \in {0, 1}
  /\ tx_buf \in {0} \cup Datagrams
  /\ tpc \in [Threads -> {"run", "sem", "call", "served", "done"}]
  /\ msg \in [Threads -> {0} \cup Datagrams]
  /\ sock \in [Threads -> Sockets \cup {NoSocket}]
  /\ error \in [Threads -> BOOLEAN]
  /\ xpc \in [Sockets -> {"recv", "send", "reply"}]
  /\ lwerr \in [Sockets -> BOOLEAN]
  /\ iface \in BOOLEAN
  /\ calls \in 0 .. MaxSends
  /\ wire \in Seq(Datagrams)
  /\ ok \subseteq Datagrams

Init ==
  /\ avail = 1
  /\ tx_buf = 0
  /\ tpc = [t \in Threads |-> "run"]
  /\ msg = [t \in Threads |-> 0]
  /\ sock = [t \in Threads |-> NoSocket]
  /\ error = [t \in Threads |-> FALSE]
  /\ xpc = [s \in Sockets |-> "recv"]
  /\ lwerr = [s \in Sockets |-> FALSE]
  /\ iface = FALSE
  /\ calls = 0
  /\ wire = << >>
  /\ ok = {}

-----------------------------------------------------------------------------
(* A thread in sel4osapi_udp_send.                                         *)

SendEnter(t, s) ==
  /\ tpc[t] = "run"
  /\ calls < MaxSends
  /\ calls' = calls + 1
  /\ msg' = [msg EXCEPT ![t] = calls + 1]
  /\ sock' = [sock EXCEPT ![t] = s]
  /\ tpc' = [tpc EXCEPT ![t] = "sem"]
  /\ UNCHANGED <<avail, tx_buf, error, xpc, lwerr, iface, wire, ok>>

\* Mutant of SendTake: tx_buf_avail is not taken.
SendTakeNothing(t) ==
  /\ tpc[t] = "sem"
  /\ tx_buf' = msg[t]
  /\ tpc' = [tpc EXCEPT ![t] = "call"]
  /\ UNCHANGED <<avail, threadVars, xpc, lwerr, iface, wire, ok>>

\* Takes tx_buf_avail, fills tx_buf and calls the tx thread of the socket.
SendTake(t) ==
  /\ tpc[t] = "sem"
  /\ avail > 0
  /\ avail' = avail - 1
  /\ tx_buf' = msg[t]
  /\ tpc' = [tpc EXCEPT ![t] = "call"]
  /\ UNCHANGED <<threadVars, xpc, lwerr, iface, wire, ok>>

\* Mutant of SendReturn: tx_buf_avail is not given after an error.
SendReturnKeeps(t) ==
  /\ tpc[t] = "done"
  /\ avail' = IF error[t] THEN avail ELSE avail + 1
  /\ ok' = IF error[t] THEN ok ELSE ok \cup {msg[t]}
  /\ tpc' = [tpc EXCEPT ![t] = "run"]
  /\ msg' = [msg EXCEPT ![t] = 0]
  /\ sock' = [sock EXCEPT ![t] = NoSocket]
  /\ UNCHANGED <<tx_buf, error, calls, xpc, lwerr, iface, wire>>

\* Gives tx_buf_avail and returns the error flag.
SendReturn(t) ==
  /\ tpc[t] = "done"
  /\ avail' = avail + 1
  /\ ok' = IF error[t] THEN ok ELSE ok \cup {msg[t]}
  /\ tpc' = [tpc EXCEPT ![t] = "run"]
  /\ msg' = [msg EXCEPT ![t] = 0]
  /\ sock' = [sock EXCEPT ![t] = NoSocket]
  /\ UNCHANGED <<tx_buf, error, calls, xpc, lwerr, iface, wire>>

-----------------------------------------------------------------------------
(* The tx thread of a socket, sel4osapi_udp_socket_tx_thread.              *)

TxRecv(s) ==
  /\ xpc[s] = "recv"
  /\ \E t \in Threads :
       /\ tpc[t] = "call"
       /\ sock[t] = s
       /\ tpc' = [tpc EXCEPT ![t] = "served"]
  /\ xpc' = [xpc EXCEPT ![s] = "send"]
  /\ UNCHANGED <<avail, tx_buf, threadVars, lwerr, iface, wire, ok>>

\* Mutant of TxSend: ERR_OK is the value lwerr starts with.
TxSendOptimist(s) ==
  /\ xpc[s] = "send"
  /\ ~iface
  /\ \/ wire' = Append(wire, tx_buf)
     \/ UNCHANGED wire
  /\ lwerr' = [lwerr EXCEPT ![s] = FALSE]
  /\ xpc' = [xpc EXCEPT ![s] = "reply"]
  /\ UNCHANGED <<avail, tx_buf, tpc, threadVars, iface, ok>>

\* Under the interface's mutex: a pbuf is allocated, filled from tx_buf and
\* handed to udp_sendto, unless pbuf_alloc or udp_sendto fails.
TxSend(s) ==
  /\ xpc[s] = "send"
  /\ ~iface
  /\ \/ /\ wire' = Append(wire, tx_buf)
        /\ lwerr' = [lwerr EXCEPT ![s] = FALSE]
     \/ /\ lwerr' = [lwerr EXCEPT ![s] = TRUE]
        /\ UNCHANGED wire
  /\ xpc' = [xpc EXCEPT ![s] = "reply"]
  /\ UNCHANGED <<avail, tx_buf, tpc, threadVars, iface, ok>>

TxReply(s) ==
  /\ xpc[s] = "reply"
  /\ \E t \in Threads :
       /\ tpc[t] = "served"
       /\ sock[t] = s
       /\ tpc' = [tpc EXCEPT ![t] = "done"]
       /\ error' = [error EXCEPT ![t] = lwerr[s]]
  /\ xpc' = [xpc EXCEPT ![s] = "recv"]
  /\ UNCHANGED <<avail, tx_buf, msg, sock, calls, lwerr, iface, wire, ok>>

-----------------------------------------------------------------------------
\* sel4osapi_eth_irq1_thread takes and releases the interface's mutex.
IrqLock ==
  /\ ~iface
  /\ iface' = TRUE
  /\ UNCHANGED <<avail, tx_buf, tpc, threadVars, xpc, lwerr, wire, ok>>

IrqUnlock ==
  /\ iface
  /\ iface' = FALSE
  /\ UNCHANGED <<avail, tx_buf, tpc, threadVars, xpc, lwerr, wire, ok>>

-----------------------------------------------------------------------------
ThreadNext(t) == SendTake(t) \/ SendReturn(t)
TxNext(s) == TxRecv(s) \/ TxSend(s) \/ TxReply(s)

Next ==
  \/ \E t \in Threads, s \in Sockets : SendEnter(t, s)
  \/ \E t \in Threads : ThreadNext(t)
  \/ \E s \in Sockets : TxNext(s)
  \/ IrqLock
  \/ IrqUnlock

Spec == Init /\ [][Next]_vars

\* Threads run when they can; giving a semaphore and unlocking a mutex wake
\* a waiter, so none is overtaken forever.  Nothing makes a thread send.
Fairness ==
  /\ WF_vars(IrqUnlock)
  /\ \A s \in Sockets : WF_vars(TxNext(s)) /\ SF_vars(TxSend(s))
  /\ \A t \in Threads : WF_vars(ThreadNext(t)) /\ SF_vars(SendTake(t))

FairSpec == Spec /\ Fairness

-----------------------------------------------------------------------------
(* Properties.                                                             *)

\* The process's one tx_buf holds the datagram of the thread that is in a
\* call, from its memcpy until the tx thread has copied it to a pbuf: no
\* other thread, on whatever socket, overwrites it.
TxBufStable ==
  /\ TypeOK
  /\ \A t \in Threads : tpc[t] \in {"call", "served", "done"} => tx_buf = msg[t]

\* Every datagram goes on the wire at most once, and a call returns 0 just
\* when its datagram did: the error flag is not that of another call.
SentIffOk ==
  /\ \A i, j \in DOMAIN wire : wire[i] = wire[j] => i = j
  /\ \A d \in Datagrams :
       d \in ok => \E i \in DOMAIN wire : wire[i] = d
  /\ \A i \in DOMAIN wire :
       wire[i] \in ok \/ \E t \in Threads : msg[t] = wire[i]
  /\ \A t \in Threads :
       tpc[t] = "done" =>
         (~error[t] <=> \E i \in DOMAIN wire : wire[i] = msg[t])

\* Every call returns, also after one that failed.
SendReturns == \A t \in Threads : tpc[t] = "sem" ~> tpc[t] = "run"
=============================================================================
