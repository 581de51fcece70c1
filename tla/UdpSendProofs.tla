---------------------------- MODULE UdpSendProofs ---------------------------
(***************************************************************************)
(* Proofs about UdpSend.  UdpSendInv is inductive: it adds to the two      *)
(* properties that one thread holds tx_buf_avail, that a tx thread works   *)
(* for that thread, that calls in progress have datagrams of their own,    *)
(* and which of these are on the wire at each point of the tx thread.      *)
(***************************************************************************)
EXTENDS UdpSend, TLAPS

\* The threads that hold tx_buf_avail: at most one.
Holding(t) == tpc[t] \in {"call", "served", "done"}

HolderInv ==
  /\ \A t \in Threads : Holding(t) => avail = 0
  /\ \A t, u \in Threads : Holding(t) /\ Holding(u) => t = u

\* Calls in progress have different datagrams, none with a later number than
\* the last call.
MsgInv ==
  \A t \in Threads :
    /\ msg[t] = 0 <=> tpc[t] = "run"
    /\ msg[t] <= calls
    /\ \A u \in Threads : msg[t] = msg[u] /\ msg[t] # 0 => t = u

\* A tx thread that has a request has it from a thread that waits for it.
ServedInv ==
  \A s \in Sockets :
    xpc[s] # "recv" => \E t \in Threads : tpc[t] = "served" /\ sock[t] = s

OnWire(d) == \E i \in DOMAIN wire : wire[i] = d

\* A datagram is not on the wire before the tx thread has sent it; then it is
\* if and only if lwIP reported no error.
WireInv ==
  /\ \A i \in DOMAIN wire : wire[i] <= calls
  /\ \A t \in Threads : tpc[t] \in {"sem", "call"} => ~OnWire(msg[t])
  /\ \A t \in Threads, s \in Sockets : tpc[t] = "served" /\ sock[t] = s =>
       /\ xpc[s] = "send" => ~OnWire(msg[t])
       /\ xpc[s] = "reply" => (~lwerr[s] <=> OnWire(msg[t]))

UdpSendInv ==
  /\ TxBufStable
  /\ HolderInv
  /\ MsgInv
  /\ ServedInv
  /\ WireInv
  /\ SentIffOk

-----------------------------------------------------------------------------
\* What stays when the wire does: WireInv and SentIffOk are about threads then.
LEMMA WireKept ==
  ASSUME wire' = wire, NEW d
  PROVE  OnWire(d)' <=> OnWire(d)
  BY DEF OnWire

\* Another datagram goes on the wire.
LEMMA WireGrows ==
  ASSUME wire \in Seq(Datagrams), NEW e \in Datagrams, wire' = Append(wire, e)
  PROVE  /\ wire' \in Seq(Datagrams)
         /\ DOMAIN wire' = 1 .. Len(wire) + 1
         /\ DOMAIN wire = 1 .. Len(wire)
         /\ Len(wire) \in Nat
         /\ wire'[Len(wire) + 1] = e
         /\ \A i \in DOMAIN wire : wire'[i] = wire[i]
         /\ \A i \in DOMAIN wire' : i \in DOMAIN wire \/ i = Len(wire) + 1
         /\ \A d : OnWire(d)' <=> OnWire(d) \/ d = e
<1>1. /\ wire' \in Seq(Datagrams)
      /\ DOMAIN wire' = 1 .. Len(wire) + 1
      /\ DOMAIN wire = 1 .. Len(wire)
      /\ Len(wire) \in Nat
      /\ wire'[Len(wire) + 1] = e
      /\ \A i \in DOMAIN wire : wire'[i] = wire[i]
  OBVIOUS
<1>2. \A i \in DOMAIN wire' : i \in DOMAIN wire \/ i = Len(wire) + 1
  BY <1>1
<1>3. \A i \in DOMAIN wire : i \in DOMAIN wire'
  BY <1>1
<1>4. Len(wire) + 1 \in DOMAIN wire'
  BY <1>1
<1>5. \A d : OnWire(d)' <=> OnWire(d) \/ d = e
  BY <1>1, <1>2, <1>3, <1>4 DEF OnWire
<1> QED
  BY <1>1, <1>2, <1>5

-----------------------------------------------------------------------------
\* A thread enters sel4osapi_udp_send: its datagram is new.
LEMMA SendEnterInv ==
  ASSUME UdpSendInv, NEW t \in Threads, NEW s \in Sockets, SendEnter(t, s)
  PROVE  UdpSendInv'
<1>1. /\ tpc' = [tpc EXCEPT ![t] = "sem"] /\ msg' = [msg EXCEPT ![t] = calls + 1]
      /\ sock' = [sock EXCEPT ![t] = s] /\ calls' = calls + 1 /\ tpc[t] = "run"
      /\ UNCHANGED <<avail, tx_buf, error, xpc, lwerr, iface, wire, ok>>
      /\ calls \in Nat /\ calls + 1 \in Datagrams /\ calls + 1 \in 0 .. MaxSends
  BY SendsAssumption DEF SendEnter, UdpSendInv, TxBufStable, TypeOK, Datagrams
<1>2. \A u \in Threads : msg[u] \in Nat
  BY SendsAssumption DEF UdpSendInv, TxBufStable, TypeOK, Datagrams
<1>3. \A i \in DOMAIN wire : wire[i] \in Nat /\ wire[i] <= calls
  BY SendsAssumption DEF UdpSendInv, TxBufStable, TypeOK, WireInv, Datagrams
<1>4. ~OnWire(calls + 1)
  BY <1>1, <1>3 DEF OnWire
<1>5. TxBufStable'
  BY <1>1, SendsAssumption DEF UdpSendInv, TxBufStable, TypeOK
<1>6. HolderInv'
  BY <1>1 DEF UdpSendInv, HolderInv, Holding, TxBufStable, TypeOK
<1>7. MsgInv'
  BY <1>1, <1>2 DEF UdpSendInv, MsgInv, TxBufStable, TypeOK
<1>8. ServedInv'
  BY <1>1 DEF UdpSendInv, ServedInv, TxBufStable, TypeOK
<1>9. WireInv'
  BY <1>1, <1>3, <1>4, WireKept DEF UdpSendInv, WireInv, TxBufStable, TypeOK
<1>10. SentIffOk'
  <2>1. \A u \in Threads : msg[u] # 0 => msg'[u] = msg[u]
    BY <1>1 DEF UdpSendInv, MsgInv, TxBufStable, TypeOK
  <2>2. \A i \in DOMAIN wire : wire[i] # 0
    <3>1. \A i \in DOMAIN wire : wire[i] \in Datagrams
      BY DEF UdpSendInv, TxBufStable, TypeOK
    <3> QED
      BY <3>1, SendsAssumption DEF Datagrams
  <2>3. \A u \in Threads : tpc'[u] = "done" => tpc[u] = "done" /\ msg'[u] = msg[u]
    BY <1>1 DEF UdpSendInv, TxBufStable, TypeOK
  <2>4. \A i \in DOMAIN wire : wire[i] \in ok \/ \E u \in Threads : msg'[u] = wire[i]
    <3> SUFFICES ASSUME NEW i \in DOMAIN wire, wire[i] \notin ok
                 PROVE  \E u \in Threads : msg'[u] = wire[i]
      OBVIOUS
    <3>1. PICK u \in Threads : msg[u] = wire[i]
      BY DEF UdpSendInv, SentIffOk
    <3> QED
      BY <3>1, <2>1, <2>2
  <2> QED
    BY <1>1, <2>3, <2>4 DEF UdpSendInv, SentIffOk
<1> QED
  BY <1>5, <1>6, <1>7, <1>8, <1>9, <1>10 DEF UdpSendInv

\* A thread takes tx_buf_avail: nobody else holds it, so tx_buf is its own.
LEMMA SendTakeInv ==
  ASSUME UdpSendInv, NEW t \in Threads, SendTake(t)
  PROVE  UdpSendInv'
<1>1. /\ tpc' = [tpc EXCEPT ![t] = "call"] /\ tpc[t] = "sem" /\ avail = 1 /\ avail' = 0
      /\ tx_buf' = msg[t]
      /\ UNCHANGED <<msg, sock, error, calls, xpc, lwerr, iface, wire, ok>>
  BY DEF SendTake, threadVars, UdpSendInv, TxBufStable, TypeOK
<1>2. \A u \in Threads : ~Holding(u)
  BY <1>1 DEF UdpSendInv, HolderInv
<1>3. TxBufStable'
  BY <1>1, <1>2 DEF UdpSendInv, TxBufStable, TypeOK, Holding
<1>4. HolderInv'
  BY <1>1, <1>2 DEF UdpSendInv, HolderInv, Holding, TxBufStable, TypeOK
<1>5. MsgInv'
  BY <1>1 DEF UdpSendInv, MsgInv, TxBufStable, TypeOK
<1>6. ServedInv'
  BY <1>1 DEF UdpSendInv, ServedInv, TxBufStable, TypeOK
<1>7. WireInv'
  BY <1>1, WireKept DEF UdpSendInv, WireInv, TxBufStable, TypeOK
<1>8. SentIffOk'
  BY <1>1 DEF UdpSendInv, SentIffOk, TxBufStable, TypeOK
<1> QED
  BY <1>3, <1>4, <1>5, <1>6, <1>7, <1>8 DEF UdpSendInv

\* A thread returns: the error flag in the reply tells whether it was sent.
LEMMA SendReturnInv ==
  ASSUME UdpSendInv, NEW t \in Threads, SendReturn(t)
  PROVE  UdpSendInv'
<1>1. /\ tpc' = [tpc EXCEPT ![t] = "run"] /\ tpc[t] = "done" /\ avail' = avail + 1
      /\ msg' = [msg EXCEPT ![t] = 0] /\ sock' = [sock EXCEPT ![t] = NoSocket]
      /\ ok' = IF error[t] THEN ok ELSE ok \cup {msg[t]}
      /\ UNCHANGED <<tx_buf, error, calls, xpc, lwerr, iface, wire>>
  BY DEF SendReturn
<1>2. avail = 0 /\ \A u \in Threads : Holding(u) => u = t
  BY <1>1 DEF UdpSendInv, HolderInv, Holding
<1>3. msg[t] \in Datagrams /\ calls \in Nat /\ \A u \in Threads : msg[u] \in Nat
  BY <1>1, SendsAssumption DEF UdpSendInv, MsgInv, TxBufStable, TypeOK, Datagrams
<1>4. TxBufStable'
  BY <1>1, <1>2, <1>3 DEF UdpSendInv, TxBufStable, TypeOK, Holding
<1>5. HolderInv'
  BY <1>1, <1>2 DEF UdpSendInv, HolderInv, Holding, TxBufStable, TypeOK
<1>6. MsgInv'
  BY <1>1, <1>3 DEF UdpSendInv, MsgInv, TxBufStable, TypeOK
<1>7. ServedInv'
  BY <1>1 DEF UdpSendInv, ServedInv, TxBufStable, TypeOK
<1>8. WireInv'
  BY <1>1, WireKept DEF UdpSendInv, WireInv, TxBufStable, TypeOK
<1>9. SentIffOk'
  <2>1. ~error[t] <=> \E i \in DOMAIN wire : wire[i] = msg[t]
    BY <1>1 DEF UdpSendInv, SentIffOk
  <2>2. \A i \in DOMAIN wire :
          wire[i] \in ok' \/ \E u \in Threads : msg'[u] = wire[i]
    BY <1>1, <2>1 DEF UdpSendInv, SentIffOk, TxBufStable, TypeOK
  <2> QED
    BY <1>1, <2>1, <2>2 DEF UdpSendInv, SentIffOk, TxBufStable, TypeOK
<1> QED
  BY <1>4, <1>5, <1>6, <1>7, <1>8, <1>9 DEF UdpSendInv

\* A tx thread receives a request.
LEMMA TxRecvInv ==
  ASSUME UdpSendInv, NEW s \in Sockets, TxRecv(s)
  PROVE  UdpSendInv'
<1>1. PICK t \in Threads : tpc[t] = "call" /\ sock[t] = s /\ tpc' = [tpc EXCEPT ![t] = "served"]
  BY DEF TxRecv
<1>2. /\ xpc[s] = "recv" /\ xpc' = [xpc EXCEPT ![s] = "send"]
      /\ UNCHANGED <<avail, tx_buf, msg, sock, error, calls, lwerr, iface, wire, ok>>
  BY DEF TxRecv, threadVars
<1>3. \A u \in Threads : Holding(u) => u = t
  BY <1>1 DEF UdpSendInv, HolderInv, Holding
<1>4. TxBufStable'
  BY <1>1, <1>2 DEF UdpSendInv, TxBufStable, TypeOK
<1>5. HolderInv'
  BY <1>1, <1>2 DEF UdpSendInv, HolderInv, Holding, TxBufStable, TypeOK
<1>6. MsgInv'
  BY <1>1, <1>2 DEF UdpSendInv, MsgInv, TxBufStable, TypeOK
<1>7. ServedInv'
  BY <1>1, <1>2 DEF UdpSendInv, ServedInv, TxBufStable, TypeOK
<1>8. WireInv'
  BY <1>1, <1>2, <1>3, WireKept DEF UdpSendInv, WireInv, TxBufStable, TypeOK, Holding
<1>9. SentIffOk'
  BY <1>1, <1>2 DEF UdpSendInv, SentIffOk, TxBufStable, TypeOK
<1> QED
  BY <1>4, <1>5, <1>6, <1>7, <1>8, <1>9 DEF UdpSendInv

\* A tx thread sends: what is in tx_buf is the datagram of its caller, which
\* was not sent before.
LEMMA TxSendInv ==
  ASSUME UdpSendInv, NEW s \in Sockets, TxSend(s)
  PROVE  UdpSendInv'
<1>1. /\ xpc[s] = "send" /\ xpc' = [xpc EXCEPT ![s] = "reply"]
      /\ UNCHANGED <<avail, tx_buf, tpc, msg, sock, error, calls, iface, ok>>
  BY DEF TxSend, threadVars
<1>2. PICK t \in Threads : tpc[t] = "served" /\ sock[t] = s
  BY <1>1 DEF UdpSendInv, ServedInv
<1>3. \A u \in Threads : Holding(u) => u = t
  BY <1>2 DEF UdpSendInv, HolderInv, Holding
<1>4. tx_buf = msg[t] /\ ~OnWire(msg[t]) /\ msg[t] <= calls
  BY <1>1, <1>2 DEF UdpSendInv, TxBufStable, WireInv, MsgInv
<1>5. tx_buf \in Datagrams
  BY <1>2, <1>4 DEF UdpSendInv, TxBufStable, TypeOK, MsgInv
<1>6. HolderInv' /\ MsgInv' /\ ServedInv'
  BY <1>1 DEF UdpSendInv, HolderInv, Holding, MsgInv, ServedInv, TxBufStable, TypeOK
<1>7. CASE wire' = Append(wire, tx_buf) /\ lwerr' = [lwerr EXCEPT ![s] = FALSE]
  <2>1. wire \in Seq(Datagrams)
    BY DEF UdpSendInv, TxBufStable, TypeOK
  <2>2. /\ wire' \in Seq(Datagrams)
        /\ wire'[Len(wire) + 1] = tx_buf
        /\ Len(wire) + 1 \in DOMAIN wire'
        /\ \A i \in DOMAIN wire : wire'[i] = wire[i]
        /\ \A i \in DOMAIN wire : i \in DOMAIN wire'
        /\ \A i \in DOMAIN wire' : i \in DOMAIN wire \/ i = Len(wire) + 1
    BY <1>5, <1>7, <2>1, WireGrows
  <2>3. \A d : OnWire(d)' <=> OnWire(d) \/ d = msg[t]
    BY <1>4, <1>5, <1>7, <2>1, WireGrows
  <2>4. TxBufStable'
    BY <1>1, <1>7, <2>2 DEF UdpSendInv, TxBufStable, TypeOK
  <2>5. WireInv'
    <3>1. \A i \in DOMAIN wire' : wire'[i] <= calls'
      BY <1>1, <1>4, <2>2 DEF UdpSendInv, WireInv
    <3>2. \A u \in Threads : u # t /\ msg[u] # 0 => msg[u] # msg[t]
      BY DEF UdpSendInv, MsgInv
    <3>3. ASSUME NEW u \in Threads, tpc'[u] \in {"sem", "call"}
          PROVE  ~OnWire(msg[u])'
      <4>1. u # t /\ msg[u] # 0 /\ ~OnWire(msg[u])
        BY <1>1, <1>2, <3>3 DEF UdpSendInv, MsgInv, WireInv
      <4> QED
        BY <1>1, <4>1, <3>2, <2>3
    <3>4. ASSUME NEW u \in Threads, NEW r \in Sockets, tpc'[u] = "served" /\ sock'[u] = r
          PROVE  /\ xpc'[r] = "send" => ~OnWire(msg[u])'
                 /\ xpc'[r] = "reply" => (~lwerr'[r] <=> OnWire(msg[u])')
      <4>1. u = t /\ r = s
        BY <1>1, <1>2, <1>3, <3>4 DEF Holding
      <4>2. xpc'[s] = "reply" /\ ~lwerr'[s]
        BY <1>1, <1>7 DEF UdpSendInv, TxBufStable, TypeOK
      <4>3. OnWire(msg[t])'
        BY <1>1, <2>3
      <4> QED
        BY <4>1, <4>2, <4>3
    <3> QED
      BY <3>1, <3>3, <3>4 DEF WireInv
  <2>6. SentIffOk'
    <3>1. \A i \in DOMAIN wire : wire[i] # tx_buf
      BY <1>4 DEF OnWire
    <3>2. \A i, j \in DOMAIN wire' : wire'[i] = wire'[j] => i = j
      BY <2>2, <3>1 DEF UdpSendInv, SentIffOk
    <3>3. \A d \in Datagrams : d \in ok' => \E i \in DOMAIN wire' : wire'[i] = d
      BY <1>1, <2>2 DEF UdpSendInv, SentIffOk
    <3>4. \A i \in DOMAIN wire' : wire'[i] \in ok' \/ \E u \in Threads : msg'[u] = wire'[i]
      BY <1>1, <1>4, <2>2 DEF UdpSendInv, SentIffOk
    <3>5. \A u \in Threads : tpc'[u] # "done"
      BY <1>1, <1>2, <1>3 DEF Holding
    <3> QED
      BY <3>2, <3>3, <3>4, <3>5 DEF SentIffOk
  <2> QED
    BY <1>6, <2>4, <2>5, <2>6 DEF UdpSendInv
<1>8. CASE wire' = wire /\ lwerr' = [lwerr EXCEPT ![s] = TRUE]
  <2>1. TxBufStable'
    BY <1>1, <1>8 DEF UdpSendInv, TxBufStable, TypeOK
  <2>2. WireInv'
    BY <1>1, <1>2, <1>3, <1>4, <1>8, WireKept
       DEF UdpSendInv, WireInv, TxBufStable, TypeOK, Holding
  <2>3. SentIffOk'
    BY <1>1, <1>8 DEF UdpSendInv, SentIffOk
  <2> QED
    BY <1>6, <2>1, <2>2, <2>3 DEF UdpSendInv
<1> QED
  BY <1>7, <1>8 DEF TxSend

\* A tx thread replies, to the one thread it can have served.
LEMMA TxReplyInv ==
  ASSUME UdpSendInv, NEW s \in Sockets, TxReply(s)
  PROVE  UdpSendInv'
<1>1. PICK t \in Threads : /\ tpc[t] = "served" /\ sock[t] = s
                           /\ tpc' = [tpc EXCEPT ![t] = "done"]
                           /\ error' = [error EXCEPT ![t] = lwerr[s]]
  BY DEF TxReply
<1>2. /\ xpc[s] = "reply" /\ xpc' = [xpc EXCEPT ![s] = "recv"]
      /\ UNCHANGED <<avail, tx_buf, msg, sock, calls, lwerr, iface, wire, ok>>
  BY DEF TxReply
<1>3. \A u \in Threads : Holding(u) => u = t
  BY <1>1 DEF UdpSendInv, HolderInv, Holding
<1>4. ~lwerr[s] <=> OnWire(msg[t])
  BY <1>1, <1>2 DEF UdpSendInv, WireInv
<1>5. TxBufStable'
  BY <1>1, <1>2 DEF UdpSendInv, TxBufStable, TypeOK
<1>6. HolderInv'
  BY <1>1, <1>2 DEF UdpSendInv, HolderInv, Holding, TxBufStable, TypeOK
<1>7. MsgInv'
  BY <1>1, <1>2 DEF UdpSendInv, MsgInv, TxBufStable, TypeOK
<1>8. ServedInv'
  BY <1>1, <1>2, <1>3 DEF UdpSendInv, ServedInv, TxBufStable, TypeOK, Holding
<1>9. WireInv'
  BY <1>1, <1>2, <1>3, WireKept DEF UdpSendInv, WireInv, TxBufStable, TypeOK, Holding
<1>10. SentIffOk'
  <2>1. \A u \in Threads : tpc'[u] = "done" => u = t /\ error'[u] = lwerr[s]
    BY <1>1, <1>3 DEF UdpSendInv, TxBufStable, TypeOK, Holding
  <2> QED
    BY <1>2, <1>4, <2>1 DEF UdpSendInv, SentIffOk, OnWire
<1> QED
  BY <1>5, <1>6, <1>7, <1>8, <1>9, <1>10 DEF UdpSendInv

\* The interrupt thread only touches the interface's mutex.
LEMMA IrqInv ==
  ASSUME UdpSendInv, IrqLock \/ IrqUnlock
  PROVE  UdpSendInv'
<1>1. /\ iface' \in BOOLEAN
      /\ UNCHANGED <<avail, tx_buf, tpc, msg, sock, error, calls, xpc, lwerr, wire, ok>>
  BY DEF IrqLock, IrqUnlock, threadVars
<1> QED
  BY <1>1 DEF UdpSendInv, TxBufStable, TypeOK, HolderInv, Holding, MsgInv, ServedInv, WireInv,
     OnWire, SentIffOk

-----------------------------------------------------------------------------
\* The invariant holds in every reachable state.
LEMMA Invariant == Spec => []UdpSendInv
<1>1. Init => UdpSendInv
  <2> SUFFICES ASSUME Init
               PROVE  UdpSendInv
    OBVIOUS
  <2>1. TxBufStable
    <3>1. calls \in 0 .. MaxSends /\ wire \in Seq(Datagrams)
      BY SendsAssumption DEF Init
    <3>2. \A t \in Threads : tpc[t] = "run"
      BY DEF Init
    <3>3. TypeOK
      BY <3>1 DEF Init, TypeOK
    <3> QED
      BY <3>2, <3>3 DEF TxBufStable
  <2>2. HolderInv /\ MsgInv /\ ServedInv
    BY DEF Init, HolderInv, Holding, MsgInv, ServedInv
  <2>3. DOMAIN wire = {}
    BY DEF Init
  <2>4. WireInv
    BY <2>3 DEF Init, WireInv, OnWire
  <2>5. SentIffOk
    BY <2>3 DEF Init, SentIffOk
  <2> QED
    BY <2>1, <2>2, <2>4, <2>5 DEF UdpSendInv
<1>2. UdpSendInv /\ [Next]_vars => UdpSendInv'
  <2> SUFFICES ASSUME UdpSendInv, [Next]_vars
               PROVE  UdpSendInv'
    OBVIOUS
  <2>1. CASE \E t \in Threads, s \in Sockets : SendEnter(t, s)
    BY <2>1, SendEnterInv
  <2>2. CASE \E t \in Threads : ThreadNext(t)
    BY <2>2, SendTakeInv, SendReturnInv DEF ThreadNext
  <2>3. CASE \E s \in Sockets : TxNext(s)
    BY <2>3, TxRecvInv, TxSendInv, TxReplyInv DEF TxNext
  <2>4. CASE IrqLock \/ IrqUnlock
    BY <2>4, IrqInv
  <2>5. CASE UNCHANGED vars
    BY <2>5 DEF vars, threadVars, UdpSendInv, TxBufStable, TypeOK, HolderInv, Holding, MsgInv,
       ServedInv, WireInv, OnWire, SentIffOk
  <2> QED
    BY <2>1, <2>2, <2>3, <2>4, <2>5 DEF Next
<1> QED
  BY <1>1, <1>2, PTL DEF Spec

\* sel4osapi_udp_send: the one tx_buf of a process keeps a datagram until the
\* tx thread has copied it, for any number of threads and sockets.
THEOREM TxBufKept == Spec => []TxBufStable
<1>1. UdpSendInv => TxBufStable
  BY DEF UdpSendInv
<1> QED
  BY <1>1, Invariant, PTL

\* A call returns 0 just when its own datagram was handed to udp_sendto, and
\* no datagram is handed over twice.
THEOREM ErrorsHonest == Spec => []SentIffOk
<1>1. UdpSendInv => SentIffOk
  BY DEF UdpSendInv
<1> QED
  BY <1>1, Invariant, PTL
=============================================================================
