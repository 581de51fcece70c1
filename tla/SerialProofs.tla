---------------------------- MODULE SerialProofs ----------------------------
(***************************************************************************)
(* Proofs about Serial.  SerialInv is inductive: it adds to the properties *)
(* that one thread of a process has taken buf_avail, that the endpoint     *)
(* queues the threads in a call, that the server works for the one thread  *)
(* that is served, and how far the buffer and the device are while it does.*)
(***************************************************************************)
EXTENDS Serial, SequenceTheorems, TLAPS

\* The threads of a process that have taken its buf_avail: at most one.
Holding(t) == tpc[t] \in {"call", "served", "done"}

HolderInv ==
  \A t \in Threads : Holding(t) =>
    /\ avail[ProcessOf[t]] = 0
    /\ \A u \in Threads : Holding(u) /\ ProcessOf[u] = ProcessOf[t] => u = t

\* A thread is queued once, from its call until the server receives it.
QueueInv ==
  \A k \in 1 .. Len(endpoint) :
    /\ tpc[endpoint[k]] = "call"
    /\ \A n \in 1 .. Len(endpoint) : endpoint[n] = endpoint[k] => n = k

\* A thread that has begun has a request, of which the server does one kind of
\* work.
RequestInv ==
  \A t \in Threads :
    /\ tpc[t] # "run" => req[t].op # "none"
    /\ req[t].op = "write" => req[t].size = Len(req[t].data)

ServingInv ==
  /\ spc # "recv" => serving \in Threads
  /\ \A t \in Threads : tpc[t] = "served" <=> spc # "recv" /\ serving = t
  /\ spc \in {"write", "read"} => Request.op = spc

\* What the server finds in the buffer of the thread it works for.
WorkInv ==
  /\ spc = "write" => Buffer = Data(Request.data) /\ i <= Request.size
  /\ spc = "read" => timeout = Request.timeout /\ i <= Request.size
  /\ spc # "recv" /\ Request.op = "read" => Len(Buffer.bytes) = i

SerialInv ==
  /\ BufferStable
  /\ HolderInv
  /\ QueueInv
  /\ RequestInv
  /\ ServingInv
  /\ WorkInv
  /\ WritesIntact
  /\ ShortReadTimedOut

-----------------------------------------------------------------------------
(* Facts about the operators.                                              *)

Requests == [op : {"none", "write", "read", "config"}, dev : Devices,
             data : Payloads \cup {<< >>}, size : Nat, timeout : Timeouts \cup {0}]

Buffers == [kind : {"data", "timeout", "config"}, bytes : Seq(Bytes),
            timeout : Timeouts \cup {0}]

\* The types of requests and buffers, as the provers use them.
LEMMA Types ==
  ASSUME TypeOK
  PROVE  /\ req \in [Threads -> Requests]
         /\ buf \in [Processes -> Buffers]
         /\ \A t \in Threads : req[t] \in Requests /\ ProcessOf[t] \in Processes
         /\ \A p \in Processes : buf[p] \in Buffers
  BY ProcessOfAssumption DEF TypeOK, Requests, Buffers

\* The request of a thread that makes no call.
LEMMA NoRequestType == NoRequest \in Requests /\ NoRequest.op = "none"
<1>1. (CHOOSE d \in Devices : TRUE) \in Devices
  BY DevicesAssumption
<1> QED
  BY <1>1 DEF NoRequest, Requests

\* Payloads are sequences of bytes.
LEMMA PayloadType == \A s \in Payloads \cup {<< >>} : s \in Seq(Bytes) /\ Len(s) \in Nat
<1>1. \A s \in Payloads : s \in Seq(Bytes)
  BY PayloadsAssumption
<1>2. << >> \in Seq(Bytes)
  OBVIOUS
<1>3. \A s \in Payloads \cup {<< >>} : s \in Seq(Bytes)
  BY <1>1, <1>2
<1> QED
  BY <1>3, LenProperties

\* A buffer that holds bytes.
LEMMA DataType ==
  ASSUME NEW s \in Seq(Bytes)
  PROVE  Data(s) \in Buffers /\ Data(s).bytes = s
  BY DEF Data, Buffers

\* What a caller puts into the buffer is what the server needs.
LEMMA FilledFacts ==
  ASSUME NEW r \in Requests, r.op # "none"
  PROVE  /\ Filled(r) \in Buffers
         /\ r.op = "write" => Filled(r) = Data(r.data)
         /\ r.op = "read" => Filled(r).bytes = << >> /\ Filled(r).timeout = r.timeout
<1>1. r.op \in {"write", "read", "config"} /\ r.data \in Seq(Bytes) /\ r.timeout \in Timeouts \cup {0}
  BY PayloadType DEF Requests
<1>2. CASE r.op = "write"
  BY <1>1, <1>2, DataType DEF Filled
<1>3. CASE r.op = "read"
  <2>1. Filled(r) = [kind |-> "timeout", bytes |-> << >>, timeout |-> r.timeout]
    BY <1>3 DEF Filled, Data
  <2> QED
    BY <1>1, <1>3, <2>1 DEF Buffers
<1>4. CASE r.op = "config"
  <2>1. Filled(r) = [kind |-> "config", bytes |-> << >>, timeout |-> 0]
    BY <1>4 DEF Filled, Data
  <2> QED
    BY <1>1, <1>4, <2>1 DEF Buffers
<1> QED
  BY <1>1, <1>2, <1>3, <1>4

\* The next byte of a payload, after the ones that are out.
LEMMA OneMoreByte ==
  ASSUME NEW w \in Seq(Bytes), NEW s \in Seq(Bytes), NEW n \in Nat, n < Len(s)
  PROVE  /\ Append(w \o SubSeq(s, 1, n), s[n + 1]) = w \o SubSeq(s, 1, n + 1)
         /\ w \o SubSeq(s, 1, n + 1) \in Seq(Bytes)
<1>1. n + 1 \in 1 .. Len(s) /\ s[n + 1] \in Bytes
  OBVIOUS
<1>2. SubSeq(s, 1, n) \in Seq(Bytes) /\ SubSeq(s, 1, n + 1) \in Seq(Bytes)
  <2>1. \A k \in 1 .. n + 1 : s[k] \in Bytes
    OBVIOUS
  <2>2. \A k \in 1 .. n : s[k] \in Bytes
    OBVIOUS
  <2> QED
    BY <2>1, <2>2, SubSeqProperties
<1>3. SubSeq(s, 1, n + 1) = SubSeq(s, 1, n) \o << s[n + 1] >>
  <2>1. SubSeq(s, 1, n + 1) = SubSeq(s, 1, (n + 1) - 1) \o << s[n + 1] >>
    BY <1>1, SubSeqRecursiveSecond
  <2>2. (n + 1) - 1 = n
    OBVIOUS
  <2> QED
    BY <2>1, <2>2
<1>4. w \o SubSeq(s, 1, n) \in Seq(Bytes)
  BY <1>2, ConcatProperties
<1>5. Append(w \o SubSeq(s, 1, n), s[n + 1]) = (w \o SubSeq(s, 1, n)) \o << s[n + 1] >>
  BY <1>1, <1>4, AppendIsConcat
<1>6. << s[n + 1] >> \in Seq(Bytes)
  BY <1>1
<1>7. (w \o SubSeq(s, 1, n)) \o << s[n + 1] >> = w \o (SubSeq(s, 1, n) \o << s[n + 1] >>)
  <2> DEFINE a == SubSeq(s, 1, n)
             b == << s[n + 1] >>
  <2>1. a \in Seq(Bytes) /\ b \in Seq(Bytes)
    BY <1>2, <1>6
  <2> HIDE DEF a, b
  <2>2. (w \o a) \o b = w \o (a \o b)
    BY <2>1, ConcatAssociative, SMTT(30)
  <2> QED
    BY <2>2 DEF a, b
<1>8. w \o SubSeq(s, 1, n + 1) \in Seq(Bytes)
  BY <1>2, ConcatProperties
<1> QED
  BY <1>3, <1>5, <1>7, <1>8

-----------------------------------------------------------------------------
(* What a step keeps that leaves the threads, or the server's work, alone. *)

\* A step that leaves the callers, the buffers and the endpoint alone keeps what
\* is known of them.
LEMMA ThreadsKept ==
  ASSUME SerialInv, TypeOK', UNCHANGED <<avail, buf, tpc, req, count, endpoint>>
  PROVE  BufferStable' /\ HolderInv' /\ QueueInv' /\ RequestInv'
<1>1. BufferStable'
  BY DEF SerialInv, BufferStable
<1>2. HolderInv' /\ QueueInv' /\ RequestInv'
  BY DEF SerialInv, HolderInv, Holding, QueueInv, RequestInv
<1> QED
  BY <1>1, <1>2

\* A step of a caller that is not being served keeps what is known of the
\* server's work.
LEMMA WorkKept ==
  ASSUME SerialInv, UNCHANGED <<serverVars, elapsed, output, whole>>,
         spc # "recv" => /\ req'[serving] = req[serving]
                         /\ buf'[ProcessOf[serving]] = buf[ProcessOf[serving]],
         \A t \in Threads : tpc'[t] = "served" <=> tpc[t] = "served"
  PROVE  ServingInv' /\ WorkInv' /\ WritesIntact' /\ ShortReadTimedOut'
<1>1. UNCHANGED <<spc, serving, i, ret, timeout>>
  BY DEF serverVars
<1>2. spc # "recv" => Request' = Request /\ Buffer' = Buffer
  BY <1>1 DEF Request, Buffer
<1>3. ServingInv'
  BY <1>1, <1>2 DEF SerialInv, ServingInv
<1>4. WorkInv'
  BY <1>1, <1>2 DEF SerialInv, WorkInv
<1>5. WritesIntact'
  BY <1>1, <1>2 DEF SerialInv, WritesIntact
<1>6. ShortReadTimedOut'
  BY <1>1, <1>2 DEF SerialInv, ShortReadTimedOut
<1> QED
  BY <1>3, <1>4, <1>5, <1>6

-----------------------------------------------------------------------------
(* Threads of the processes.                                               *)

\* A call begins with a request of its own; nothing shared is touched yet.
LEMMA BeginInv ==
  ASSUME SerialInv, NEW t \in Threads, NEW r \in Requests, Begin(t, r),
         r.op # "none", r.op = "write" => r.size = Len(r.data)
  PROVE  SerialInv'
<1>1. /\ tpc' = [tpc EXCEPT ![t] = "sem"] /\ tpc[t] = "run" /\ req' = [req EXCEPT ![t] = r]
      /\ calls < MaxCalls /\ calls' = calls + 1
      /\ UNCHANGED <<avail, buf, count, endpoint, serverVars, elapsed, devVars, output, histVars>>
  BY DEF Begin
<1>2. TypeOK
  BY DEF SerialInv, BufferStable
<1>3. TypeOK'
  <2>1. req' \in [Threads -> Requests]
    BY <1>1, <1>2, Types
  <2>2. calls' \in 0 .. MaxCalls
    BY <1>1, <1>2, BoundsAssumption DEF TypeOK
  <2>3. tpc' \in [Threads -> {"run", "sem", "call", "served", "done"}]
    BY <1>1, <1>2 DEF TypeOK
  <2> QED
    BY <1>1, <1>2, <2>1, <2>2, <2>3 DEF TypeOK, Requests, serverVars, devVars, histVars
<1>4. \A u \in Threads : /\ u # t => tpc'[u] = tpc[u] /\ req'[u] = req[u]
                         /\ u = t => tpc'[u] = "sem" /\ req'[u] = r
  BY <1>1, <1>2 DEF TypeOK
<1>5. BufferStable'
  BY <1>1, <1>3, <1>4 DEF SerialInv, BufferStable
<1>6. HolderInv'
  BY <1>1, <1>4 DEF SerialInv, HolderInv, Holding
<1>7. QueueInv'
  <2>1. \A k \in 1 .. Len(endpoint) : endpoint[k] \in Threads
    BY <1>2 DEF TypeOK
  <2> QED
    BY <1>1, <1>4, <2>1 DEF SerialInv, QueueInv
<1>8. RequestInv'
  BY <1>4 DEF SerialInv, RequestInv
<1>9. ServingInv' /\ WorkInv' /\ WritesIntact' /\ ShortReadTimedOut'
  <2>1. spc # "recv" => serving \in Threads /\ tpc[serving] = "served"
    BY DEF SerialInv, ServingInv
  <2>2. spc # "recv" => req'[serving] = req[serving]
    BY <1>1, <1>4, <2>1
  <2>3. \A u \in Threads : tpc'[u] = "served" <=> tpc[u] = "served"
    BY <1>1, <1>4
  <2> QED
    BY <1>1, <2>2, <2>3, WorkKept DEF histVars
<1> QED
  BY <1>5, <1>6, <1>7, <1>8, <1>9 DEF SerialInv

\* The three calls of the library.
LEMMA CallInv ==
  ASSUME SerialInv, NEW t \in Threads, SerialWrite(t) \/ SerialRead(t) \/ SerialConfigure(t)
  PROVE  SerialInv'
<1>1. CASE SerialWrite(t)
  <2>1. PICK d \in Devices, s \in Payloads :
          Begin(t, [NoRequest EXCEPT !.op = "write", !.dev = d, !.data = s, !.size = Len(s)])
    BY <1>1 DEF SerialWrite
  <2> DEFINE r == [NoRequest EXCEPT !.op = "write", !.dev = d, !.data = s, !.size = Len(s)]
  <2>2. r \in Requests /\ r.op = "write" /\ r.size = Len(r.data)
    BY NoRequestType, PayloadType DEF Requests
  <2> QED
    BY <2>1, <2>2, BeginInv
<1>2. CASE SerialRead(t)
  <2>1. PICK d \in Devices, n \in Sizes, ms \in Timeouts :
          Begin(t, [NoRequest EXCEPT !.op = "read", !.dev = d, !.size = n, !.timeout = ms])
    BY <1>2 DEF SerialRead
  <2> DEFINE r == [NoRequest EXCEPT !.op = "read", !.dev = d, !.size = n, !.timeout = ms]
  <2>2. r \in Requests /\ r.op = "read"
    BY NoRequestType, SizesAssumption DEF Requests
  <2> QED
    BY <2>1, <2>2, BeginInv
<1>3. CASE SerialConfigure(t)
  <2>1. PICK d \in Devices : Begin(t, [NoRequest EXCEPT !.op = "config", !.dev = d])
    BY <1>3 DEF SerialConfigure
  <2> DEFINE r == [NoRequest EXCEPT !.op = "config", !.dev = d]
  <2>2. r \in Requests /\ r.op = "config"
    BY NoRequestType DEF Requests
  <2> QED
    BY <2>1, <2>2, BeginInv
<1> QED
  BY <1>1, <1>2, <1>3

\* A thread takes buf_avail: no other thread of the process has it, so nobody
\* else's request is in the buffer.
LEMMA TakeInv ==
  ASSUME SerialInv, NEW t \in Threads, Take(t)
  PROVE  SerialInv'
<1> DEFINE p == ProcessOf[t]
<1>1. /\ tpc' = [tpc EXCEPT ![t] = "call"] /\ tpc[t] = "sem"
      /\ avail' = [avail EXCEPT ![p] = avail[p] - 1] /\ avail[p] > 0
      /\ buf' = [buf EXCEPT ![p] = Filled(req[t])]
      /\ endpoint' = Append(endpoint, t)
      /\ UNCHANGED <<req, count, calls, serverVars, elapsed, devVars, output, histVars>>
  BY DEF Take
<1>2. TypeOK /\ p \in Processes /\ req[t] \in Requests
  BY Types DEF SerialInv, BufferStable
<1>3. avail[p] = 1
  <2>1. avail[p] \in 0 .. 1
    BY <1>2 DEF TypeOK
  <2> QED BY <1>1, <2>1
<1>4. \A u \in Threads : Holding(u) => ProcessOf[u] # p
  BY <1>3 DEF SerialInv, HolderInv
<1>5. \A u \in Threads : /\ u # t => tpc'[u] = tpc[u]
                         /\ u = t => tpc'[u] = "call"
  BY <1>1, <1>2 DEF TypeOK
<1>6. /\ buf'[p] = Filled(req[t]) /\ avail'[p] = 0
      /\ \A q \in Processes : q # p => buf'[q] = buf[q] /\ avail'[q] = avail[q]
  BY <1>1, <1>2, <1>3 DEF TypeOK
<1>7. Filled(req[t]) \in Buffers
  BY <1>1, <1>2, FilledFacts DEF SerialInv, RequestInv
<1> HIDE DEF p
<1>8. /\ endpoint' \in Seq(Threads) /\ Len(endpoint') = Len(endpoint) + 1 /\ Len(endpoint) \in Nat
      /\ endpoint'[Len(endpoint) + 1] = t
      /\ \A k \in 1 .. Len(endpoint) : endpoint'[k] = endpoint[k] /\ endpoint[k] \in Threads
  <2>1. endpoint \in Seq(Threads) /\ endpoint' = Append(endpoint, t)
    BY <1>1, <1>2 DEF TypeOK
  <2> QED BY <2>1
<1>9. TypeOK'
  <2>1. buf' \in [Processes -> Buffers]
    BY <1>1, <1>2, <1>7, Types
  <2>2. avail' \in [Processes -> {0, 1}]
    BY <1>1, <1>2, <1>3 DEF TypeOK
  <2>3. tpc' \in [Threads -> {"run", "sem", "call", "served", "done"}]
    BY <1>1, <1>2 DEF TypeOK
  <2> QED
    BY <1>1, <1>2, <1>8, <2>1, <2>2, <2>3 DEF TypeOK, Buffers, serverVars, devVars, histVars
<1>10. \A u \in Threads : ProcessOf[u] \in Processes
  BY ProcessOfAssumption
<1>11. BufferStable'
  <2> SUFFICES ASSUME NEW u \in Threads
               PROVE  /\ tpc'[u] = "call" => buf'[ProcessOf[u]] = Filled(req[u])
                      /\ tpc'[u] = "done" /\ req[u].op = "read" =>
                           Len(buf'[ProcessOf[u]].bytes) = count[u]
    <3>1. req' = req /\ count' = count
      BY <1>1
    <3> QED
      BY <1>9, <3>1 DEF BufferStable, Filled, Data
  <2>1. CASE u = t
    BY <1>5, <1>6, <2>1 DEF p
  <2>2. CASE u # t
    BY <1>4, <1>5, <1>6, <1>10, <2>2 DEF SerialInv, BufferStable, Holding
  <2> QED
    BY <2>1, <2>2
<1>12. HolderInv'
  BY <1>4, <1>5, <1>6, <1>10 DEF SerialInv, HolderInv, Holding, p
<1>13. QueueInv'
  <2>1. \A k \in 1 .. Len(endpoint) : endpoint[k] # t
    BY <1>1 DEF SerialInv, QueueInv
  <2>2. \A k \in 1 .. Len(endpoint') : k \in 1 .. Len(endpoint) \/ k = Len(endpoint) + 1
    BY <1>8
  <2>3. ASSUME NEW k \in 1 .. Len(endpoint')
        PROVE  /\ tpc'[endpoint'[k]] = "call"
               /\ \A n \in 1 .. Len(endpoint') : endpoint'[n] = endpoint'[k] => n = k
    BY <1>5, <1>8, <2>1, <2>2 DEF SerialInv, QueueInv
  <2> QED
    BY <2>3 DEF QueueInv
<1>14. RequestInv'
  BY <1>1, <1>5 DEF SerialInv, RequestInv
<1>15. ServingInv' /\ WorkInv' /\ WritesIntact' /\ ShortReadTimedOut'
  <2>1. spc # "recv" => serving \in Threads /\ tpc[serving] = "served"
    BY DEF SerialInv, ServingInv
  <2>2. spc # "recv" => buf'[ProcessOf[serving]] = buf[ProcessOf[serving]]
    BY <1>4, <1>6, <1>10, <2>1 DEF Holding
  <2>3. \A u \in Threads : tpc'[u] = "served" <=> tpc[u] = "served"
    BY <1>1, <1>5
  <2>4. UNCHANGED <<req, serverVars, elapsed, output, whole>>
    BY <1>1 DEF histVars
  <2> QED
    BY <2>2, <2>3, <2>4, WorkKept
<1> QED
  BY <1>11, <1>12, <1>13, <1>14, <1>15 DEF SerialInv

\* A thread gives buf_avail back and returns.
LEMMA ReturnInv ==
  ASSUME SerialInv, NEW t \in Threads, Return(t)
  PROVE  SerialInv'
<1> DEFINE p == ProcessOf[t]
<1>1. /\ tpc' = [tpc EXCEPT ![t] = "run"] /\ tpc[t] = "done"
      /\ avail' = [avail EXCEPT ![p] = avail[p] + 1]
      /\ req' = [req EXCEPT ![t] = NoRequest]
      /\ count' = [count EXCEPT ![t] = 0]
      /\ UNCHANGED <<buf, calls, endpoint, serverVars, elapsed, devVars, output, histVars>>
  BY DEF Return
<1>2. TypeOK /\ p \in Processes
  BY Types DEF SerialInv, BufferStable
<1>3. avail[p] = 0 /\ \A u \in Threads : Holding(u) /\ ProcessOf[u] = p => u = t
  BY <1>1 DEF SerialInv, HolderInv, Holding
<1>4. \A u \in Threads : /\ u # t => tpc'[u] = tpc[u] /\ req'[u] = req[u] /\ count'[u] = count[u]
                         /\ u = t => tpc'[u] = "run" /\ req'[u] = NoRequest
  BY <1>1, <1>2 DEF TypeOK
<1>5. \A q \in Processes : q # p => avail'[q] = avail[q]
  BY <1>1, <1>2 DEF TypeOK
<1>6. TypeOK'
  <2>1. req' \in [Threads -> Requests]
    BY <1>1, <1>2, Types, NoRequestType
  <2>2. avail' \in [Processes -> {0, 1}]
    BY <1>1, <1>2, <1>3 DEF TypeOK
  <2>3. tpc' \in [Threads -> {"run", "sem", "call", "served", "done"}] /\ count' \in [Threads -> Nat]
    BY <1>1, <1>2 DEF TypeOK
  <2> QED
    BY <1>1, <1>2, <2>1, <2>2, <2>3 DEF TypeOK, Requests, serverVars, devVars, histVars
<1>7. \A u \in Threads : ProcessOf[u] \in Processes
  BY ProcessOfAssumption
<1> HIDE DEF p
<1>8. BufferStable'
  BY <1>1, <1>4, <1>6 DEF SerialInv, BufferStable
<1>9. HolderInv'
  <2>1. \A u \in Threads : Holding(u)' => Holding(u) /\ u # t /\ ProcessOf[u] # p
    BY <1>3, <1>4 DEF Holding
  <2> QED
    BY <1>5, <1>7, <2>1 DEF SerialInv, HolderInv
<1>10. QueueInv'
  <2>1. \A k \in 1 .. Len(endpoint) : endpoint[k] \in Threads
    BY <1>2 DEF TypeOK
  <2> QED
    BY <1>1, <1>4, <2>1 DEF SerialInv, QueueInv
<1>11. RequestInv'
  BY <1>4, NoRequestType DEF SerialInv, RequestInv
<1>12. ServingInv' /\ WorkInv' /\ WritesIntact' /\ ShortReadTimedOut'
  <2>1. spc # "recv" => serving \in Threads /\ tpc[serving] = "served"
    BY DEF SerialInv, ServingInv
  <2>2. spc # "recv" => req'[serving] = req[serving]
    BY <1>1, <1>4, <2>1
  <2>3. \A u \in Threads : tpc'[u] = "served" <=> tpc[u] = "served"
    BY <1>1, <1>4
  <2>4. UNCHANGED <<buf, serverVars, elapsed, output, whole>>
    BY <1>1 DEF histVars
  <2> QED
    BY <2>2, <2>3, <2>4, WorkKept
<1> QED
  BY <1>8, <1>9, <1>10, <1>11, <1>12 DEF SerialInv

-----------------------------------------------------------------------------
(* The server.                                                             *)

\* The server receives a request: the buffer is as the caller filled it.
LEMMA ServerRecvInv ==
  ASSUME SerialInv, ServerRecv
  PROVE  SerialInv'
<1> DEFINE t == Head(endpoint)
<1>1. /\ spc = "recv" /\ endpoint # << >> /\ serving' = t
      /\ tpc' = [tpc EXCEPT ![t] = "served"]
      /\ spc' = IF req[t].op = "config" THEN "reply" ELSE req[t].op
      /\ timeout' = IF req[t].op = "read" THEN buf[ProcessOf[t]].timeout ELSE 0
      /\ endpoint' = Tail(endpoint) /\ i' = 0 /\ ret' = EOF /\ elapsed' = 0 /\ fetched' = << >>
      /\ UNCHANGED <<avail, buf, req, count, calls, devVars, output, whole>>
  BY DEF ServerRecv
<1>2. TypeOK
  BY DEF SerialInv, BufferStable
<1>3. /\ Len(endpoint) \in Nat \ {0} /\ t = endpoint[1] /\ t \in Threads
      /\ endpoint' \in Seq(Threads) /\ Len(endpoint') = Len(endpoint) - 1
      /\ \A k \in 1 .. Len(endpoint') : endpoint'[k] = endpoint[k + 1] /\ endpoint[k + 1] \in Threads
  <2>1. endpoint \in Seq(Threads) /\ endpoint # << >>
    BY <1>1, <1>2 DEF TypeOK
  <2>2. Len(endpoint) \in Nat \ {0} /\ t = endpoint[1] /\ t \in Threads
    BY <2>1
  <2>3. /\ endpoint' \in Seq(Threads) /\ Len(endpoint') = Len(endpoint) - 1
        /\ \A k \in 1 .. Len(endpoint') : endpoint'[k] = endpoint[k + 1]
    BY <1>1, <2>1, HeadTailProperties
  <2>4. ASSUME NEW k \in 1 .. Len(endpoint')
        PROVE  endpoint[k + 1] \in Threads
    <3>1. k + 1 \in 1 .. Len(endpoint)
      BY <2>2, <2>3
    <3> QED
      BY <2>1, <3>1, ElementOfSeq
  <2> QED
    BY <2>2, <2>3, <2>4
<1> HIDE DEF t
<1>4. tpc[t] = "call" /\ req[t] \in Requests /\ req[t].op \in {"write", "read", "config"}
  <2>1. tpc[t] = "call"
    BY <1>3 DEF SerialInv, QueueInv
  <2>2. req[t] \in Requests /\ req[t].op # "none"
    BY <1>2, <1>3, <2>1, Types DEF SerialInv, RequestInv
  <2> QED
    BY <2>1, <2>2 DEF Requests
<1>5. buf[ProcessOf[t]] = Filled(req[t]) /\ ProcessOf[t] \in Processes
  BY <1>3, <1>4, ProcessOfAssumption DEF SerialInv, BufferStable
<1>6. /\ req[t].op = "write" => buf[ProcessOf[t]] = Data(req[t].data)
      /\ req[t].op = "read" => /\ buf[ProcessOf[t]].bytes = << >>
                               /\ buf[ProcessOf[t]].timeout = req[t].timeout
  BY <1>4, <1>5, FilledFacts
<1>7. \A u \in Threads : /\ u # t => tpc'[u] = tpc[u]
                         /\ u = t => tpc'[u] = "served"
  BY <1>1, <1>2 DEF TypeOK
<1>8. Request' = req[t] /\ Buffer' = buf[ProcessOf[t]]
  BY <1>1 DEF Request, Buffer
<1>9. TypeOK'
  <2>1. timeout' \in Timeouts \cup {0}
    BY <1>1, <1>2, <1>5 DEF TypeOK
  <2>2. spc' \in {"recv", "write", "read", "reply"}
    BY <1>1, <1>4
  <2>3. elapsed' \in 0 .. MaxTime
    BY <1>1, BoundsAssumption
  <2>4. tpc' \in [Threads -> {"run", "sem", "call", "served", "done"}]
    BY <1>1, <1>2 DEF TypeOK
  <2>5. i' \in Nat /\ ret' \in Bytes \cup {EOF} /\ fetched' \in Seq(Bytes)
    BY <1>1
  <2> QED
    BY <1>1, <1>2, <1>3, <2>1, <2>2, <2>3, <2>4, <2>5 DEF TypeOK, devVars
<1>10. BufferStable'
  BY <1>1, <1>7, <1>9 DEF SerialInv, BufferStable
<1>11. HolderInv'
  <2>1. \A u \in Threads : Holding(u)' => Holding(u)
    BY <1>4, <1>7 DEF Holding
  <2> QED
    BY <1>1, <2>1 DEF SerialInv, HolderInv
<1>12. QueueInv'
  <2>1. \A k \in 1 .. Len(endpoint') : k + 1 \in 1 .. Len(endpoint) /\ k + 1 # 1
    BY <1>3
  <2>2. \A k \in 1 .. Len(endpoint') : endpoint[k + 1] # t /\ tpc[endpoint[k + 1]] = "call"
    <3>1. 1 \in 1 .. Len(endpoint)
      BY <1>3
    <3> QED
      BY <1>3, <2>1, <3>1 DEF SerialInv, QueueInv
  <2>3. ASSUME NEW k \in 1 .. Len(endpoint'), NEW n \in 1 .. Len(endpoint'),
               endpoint'[n] = endpoint'[k]
        PROVE  n = k
    <3>1. n + 1 = k + 1
      BY <1>3, <2>1, <2>3 DEF SerialInv, QueueInv
    <3> QED
      BY <3>1
  <2> QED
    BY <1>3, <1>7, <2>2, <2>3 DEF QueueInv
<1>13. RequestInv'
  BY <1>1, <1>4, <1>7 DEF SerialInv, RequestInv
<1>14. ServingInv'
  <2>1. spc' # "recv"
    BY <1>1, <1>4
  <2>2. \A u \in Threads : tpc[u] # "served"
    BY <1>1 DEF SerialInv, ServingInv
  <2>3. spc' \in {"write", "read"} => req[t].op = spc'
    BY <1>1
  <2> QED
    BY <1>1, <1>3, <1>7, <1>8, <2>1, <2>2, <2>3 DEF ServingInv
<1>15. WorkInv'
  <2>1. req[t].size \in Nat /\ i' <= req[t].size
    BY <1>1, <1>4 DEF Requests
  <2>2. spc' = "write" => req[t].op = "write"
    BY <1>1
  <2>3. spc' = "read" => req[t].op = "read"
    BY <1>1
  <2>4. req[t].op = "read" => Len(buf[ProcessOf[t]].bytes) = 0
    BY <1>6
  <2> QED
    BY <1>1, <1>6, <1>8, <2>1, <2>2, <2>3, <2>4 DEF WorkInv, Data
<1>16. WritesIntact'
  <2>1. SubSeq(req[t].data, 1, 0) = << >>
    BY SubSeqEmpty
  <2>2. \A d \in Devices : output[d] = whole[d] \o << >>
    BY <1>1 DEF SerialInv, WritesIntact
  <2> QED
    BY <1>1, <1>8, <2>1, <2>2 DEF WritesIntact
<1>17. ShortReadTimedOut'
  <2>1. spc' = "reply" => req[t].op # "read"
    BY <1>1, <1>4
  <2> QED
    BY <1>8, <2>1 DEF ShortReadTimedOut
<1> QED
  BY <1>10, <1>11, <1>12, <1>13, <1>14, <1>15, <1>16, <1>17 DEF SerialInv

\* What the server knows while it writes or reads.
LEMMA Working ==
  ASSUME SerialInv, spc # "recv"
  PROVE  /\ serving \in Threads /\ tpc[serving] = "served"
         /\ Request = req[serving] /\ Request \in Requests /\ Request.dev \in Devices
         /\ Request.size \in Nat
         /\ ProcessOf[serving] \in Processes /\ Buffer = buf[ProcessOf[serving]] /\ Buffer \in Buffers
<1>1. TypeOK /\ serving \in Threads /\ tpc[serving] = "served"
  BY DEF SerialInv, BufferStable, ServingInv
<1> QED
  BY <1>1, Types DEF Request, Buffer, Requests

\* ps_cdev_putchar: the byte is the next one of the payload.
LEMMA PutCharInv ==
  ASSUME SerialInv, PutChar
  PROVE  SerialInv'
<1> DEFINE dev == Request.dev
           s == Request.data
<1>1. /\ spc = "write" /\ i < Request.size /\ i' = i + 1
      /\ output' = [output EXCEPT ![dev] = Append(output[dev], ByteAt(i + 1))]
      /\ UNCHANGED <<avail, buf, tpc, req, count, calls, endpoint, spc, serving, ret, timeout,
                     elapsed, devVars, whole, fetched>>
  BY DEF PutChar, histVars
<1>2. TypeOK /\ i \in Nat
  BY DEF SerialInv, BufferStable, TypeOK
<1>3. dev \in Devices /\ serving \in Threads /\ Request \in Requests /\ Request.op = "write"
  BY <1>1, Working DEF SerialInv, ServingInv
<1>4. s \in Seq(Bytes) /\ Request.size = Len(s) /\ i < Len(s)
  <2>1. s \in Payloads \cup {<< >>}
    BY <1>3 DEF Requests
  <2>2. Request.size = Len(s)
    BY <1>3 DEF SerialInv, RequestInv, Request
  <2> QED
    BY <1>1, <2>1, <2>2, PayloadType
<1>5. ByteAt(i + 1) = s[i + 1] /\ s[i + 1] \in Bytes
  <2>1. Buffer.bytes = s
    BY <1>1, <1>4, DataType DEF SerialInv, WorkInv
  <2>2. i + 1 \in DOMAIN s /\ i + 1 \in 1 .. Len(s)
    BY <1>2, <1>4
  <2> QED
    BY <1>4, <2>1, <2>2 DEF ByteAt
<1>6. Request' = Request /\ Buffer' = Buffer
  BY <1>1 DEF Request, Buffer
<1> HIDE DEF dev, s
<1>7. TypeOK'
  <2>1. output' \in [Devices -> Seq(Bytes \cup {Junk})]
    <3>1. output[dev] \in Seq(Bytes \cup {Junk})
      BY <1>2, <1>3 DEF TypeOK
    <3>2. Append(output[dev], ByteAt(i + 1)) \in Seq(Bytes \cup {Junk})
      BY <1>5, <3>1, AppendProperties
    <3> QED
      BY <1>1, <1>2, <3>2 DEF TypeOK
  <2>2. i' \in Nat
    BY <1>1, <1>2
  <2> QED
    BY <1>1, <1>2, <2>1, <2>2 DEF TypeOK, devVars
<1>8. BufferStable' /\ HolderInv' /\ QueueInv' /\ RequestInv'
  BY <1>1, <1>7, ThreadsKept
<1>9. ServingInv'
  BY <1>1, <1>6 DEF SerialInv, ServingInv
<1>10. WorkInv'
  BY <1>1, <1>2, <1>3, <1>4, <1>6 DEF SerialInv, WorkInv
<1>11. WritesIntact'
  <2> SUFFICES ASSUME NEW d \in Devices
               PROVE  output'[d] = whole[d] \o
                        IF Request.dev = d THEN SubSeq(Request.data, 1, i + 1) ELSE << >>
    BY <1>1, <1>6 DEF WritesIntact
  <2>1. output[d] = whole[d] \o IF dev = d THEN SubSeq(s, 1, i) ELSE << >>
    BY <1>1 DEF SerialInv, WritesIntact, dev, s
  <2>2. CASE d = dev
    <3>1. whole[d] \in Seq(Bytes)
      BY <1>2 DEF TypeOK
    <3>2. output'[d] = Append(output[d], s[i + 1])
      BY <1>1, <1>2, <1>5, <2>2 DEF TypeOK
    <3>3. output[d] = whole[d] \o SubSeq(s, 1, i)
      BY <2>1, <2>2
    <3>4. Append(whole[d] \o SubSeq(s, 1, i), s[i + 1]) = whole[d] \o SubSeq(s, 1, i + 1)
      BY <1>2, <1>4, <3>1, OneMoreByte
    <3> QED
      BY <2>2, <3>2, <3>3, <3>4 DEF dev, s
  <2>3. CASE d # dev
    BY <1>1, <1>2, <2>1, <2>3 DEF TypeOK, dev
  <2> QED
    BY <2>2, <2>3
<1>12. ShortReadTimedOut'
  BY <1>1 DEF ShortReadTimedOut
<1> QED
  BY <1>8, <1>9, <1>10, <1>11, <1>12 DEF SerialInv

\* A write ends: its whole payload is out.
LEMMA WriteDoneInv ==
  ASSUME SerialInv, WriteDone
  PROVE  SerialInv'
<1> DEFINE dev == Request.dev
           s == Request.data
<1>1. /\ spc = "write" /\ i = Request.size /\ spc' = "reply"
      /\ whole' = [whole EXCEPT ![dev] = whole[dev] \o s]
      /\ UNCHANGED <<avail, buf, tpc, req, count, calls, endpoint, serving, i, ret, timeout,
                     elapsed, devVars, output, fetched>>
  BY DEF WriteDone
<1>2. TypeOK
  BY DEF SerialInv, BufferStable
<1>3. dev \in Devices /\ serving \in Threads /\ Request \in Requests /\ Request.op = "write"
  BY <1>1, Working DEF SerialInv, ServingInv
<1>4. s \in Seq(Bytes) /\ i = Len(s)
  <2>1. s \in Payloads \cup {<< >>}
    BY <1>3 DEF Requests
  <2>2. Request.size = Len(s)
    BY <1>3 DEF SerialInv, RequestInv, Request
  <2> QED
    BY <1>1, <2>1, <2>2, PayloadType
<1>5. Request' = Request /\ Buffer' = Buffer
  BY <1>1 DEF Request, Buffer
<1> HIDE DEF dev, s
<1>6. whole[dev] \o s \in Seq(Bytes)
  <2>1. whole[dev] \in Seq(Bytes)
    BY <1>2, <1>3 DEF TypeOK
  <2> QED
    BY <1>4, <2>1, ConcatProperties
<1>7. TypeOK'
  BY <1>1, <1>2, <1>6 DEF TypeOK, devVars
<1>8. BufferStable' /\ HolderInv' /\ QueueInv' /\ RequestInv'
  BY <1>1, <1>7, ThreadsKept
<1>9. ServingInv'
  BY <1>1, <1>5 DEF SerialInv, ServingInv
<1>10. WorkInv'
  BY <1>1, <1>3, <1>5 DEF WorkInv
<1>11. WritesIntact'
  <2> SUFFICES ASSUME NEW d \in Devices
               PROVE  output[d] = whole'[d] \o << >>
    BY <1>1 DEF WritesIntact
  <2>1. output[d] = whole[d] \o IF dev = d THEN SubSeq(s, 1, i) ELSE << >>
    BY <1>1 DEF SerialInv, WritesIntact, dev, s
  <2>2. CASE d = dev
    <3>1. SubSeq(s, 1, i) = s
      BY <1>4, SubSeqFull
    <3>2. whole'[d] = whole[dev] \o s
      BY <1>1, <1>2, <2>2 DEF TypeOK
    <3>3. (whole[dev] \o s) \o << >> = whole[dev] \o s
      BY <1>6, ConcatEmptySeq
    <3> QED
      BY <2>1, <2>2, <3>1, <3>2, <3>3
  <2>3. CASE d # dev
    BY <1>1, <1>2, <2>1, <2>3 DEF TypeOK
  <2> QED
    BY <2>2, <2>3
<1>12. ShortReadTimedOut'
  BY <1>3, <1>5 DEF ShortReadTimedOut
<1> QED
  BY <1>8, <1>9, <1>10, <1>11, <1>12 DEF SerialInv

\* Steps of a read that leave the buffer alone: a byte comes from the UART, or
\* time passes.
LEMMA PollInv ==
  ASSUME SerialInv, GetChar \/ Tick
  PROVE  SerialInv'
<1>1. /\ spc = "read"
      /\ UNCHANGED <<avail, buf, tpc, req, count, calls, endpoint, spc, serving, i, timeout,
                     arrived, output, whole>>
  BY DEF GetChar, Tick, serverVars, devVars, histVars
<1>2. TypeOK /\ Request.dev \in Devices
  BY <1>1, Working DEF SerialInv, BufferStable
<1>3. TypeOK'
  <2>1. CASE GetChar
    <3>1. input[Request.dev] \in Seq(Bytes) /\ input[Request.dev] # << >>
      BY <1>2, <2>1 DEF GetChar, TypeOK
    <3>2. Head(input[Request.dev]) \in Bytes /\ Tail(input[Request.dev]) \in Seq(Bytes)
      BY <3>1, HeadTailProperties
    <3>3. ret' \in Bytes /\ input' \in [Devices -> Seq(Bytes)] /\ fetched' = Append(fetched, ret')
          /\ elapsed' = elapsed
      BY <1>2, <2>1, <3>2 DEF GetChar, TypeOK
    <3>4. fetched' \in Seq(Bytes)
      BY <1>2, <3>3, AppendProperties DEF TypeOK
    <3> QED
      BY <1>1, <1>2, <3>3, <3>4 DEF TypeOK
  <2>2. CASE Tick
    <3>1. elapsed' \in 0 .. MaxTime /\ UNCHANGED <<ret, input, fetched>>
      BY <1>2, <2>2, BoundsAssumption DEF Tick, TypeOK, serverVars, devVars, histVars
    <3> QED
      BY <1>1, <1>2, <3>1 DEF TypeOK
  <2> QED
    BY <2>1, <2>2
<1>4. BufferStable' /\ HolderInv' /\ QueueInv' /\ RequestInv'
  BY <1>1, <1>3, ThreadsKept
<1>5. Request' = Request /\ Buffer' = Buffer
  BY <1>1 DEF Request, Buffer
<1>6. ServingInv' /\ WorkInv'
  BY <1>1, <1>5 DEF SerialInv, ServingInv, WorkInv
<1>7. WritesIntact' /\ ShortReadTimedOut'
  BY <1>1 DEF SerialInv, WritesIntact, ShortReadTimedOut
<1> QED
  BY <1>4, <1>6, <1>7 DEF SerialInv

\* A byte is stored in the buffer, behind those that are there.
LEMMA StoreCharInv ==
  ASSUME SerialInv, StoreChar
  PROVE  SerialInv'
<1> DEFINE p == ProcessOf[serving]
<1>1. /\ spc = "read" /\ i < Request.size /\ i' = i + 1 /\ ret # EOF
      /\ buf' = [buf EXCEPT ![p] = Data(Append(buf[p].bytes, ret))]
      /\ UNCHANGED <<avail, tpc, req, count, calls, endpoint, spc, serving, ret, timeout,
                     elapsed, devVars, output, whole, fetched>>
  BY DEF StoreChar, histVars
<1>2. TypeOK /\ i \in Nat /\ Request.size \in Nat
  BY <1>1, Working DEF SerialInv, BufferStable, TypeOK
<1>3. /\ serving \in Threads /\ tpc[serving] = "served" /\ p \in Processes
      /\ Buffer = buf[p] /\ Buffer \in Buffers /\ Request.op = "read"
  BY <1>1, Working DEF SerialInv, ServingInv
<1>4. buf[p].bytes \in Seq(Bytes) /\ ret \in Bytes /\ Len(buf[p].bytes) = i
  BY <1>1, <1>2, <1>3 DEF SerialInv, WorkInv, TypeOK, Buffers
<1>5. /\ Append(buf[p].bytes, ret) \in Seq(Bytes)
      /\ Len(Append(buf[p].bytes, ret)) = i + 1
  BY <1>4, AppendProperties
<1> HIDE DEF p
<1>6. /\ buf'[p] \in Buffers /\ Len(buf'[p].bytes) = i + 1
      /\ \A q \in Processes : q # p => buf'[q] = buf[q]
  BY <1>1, <1>2, <1>3, <1>5, DataType DEF TypeOK
<1>7. TypeOK'
  <2>1. buf' \in [Processes -> Buffers]
    BY <1>1, <1>2, <1>3, <1>5, DataType, Types
  <2>2. i' \in Nat
    BY <1>1, <1>2
  <2> QED
    BY <1>1, <1>2, <2>1, <2>2 DEF TypeOK, Buffers, devVars
<1>8. \A u \in Threads : tpc[u] \in {"call", "done"} => ProcessOf[u] # p /\ ProcessOf[u] \in Processes
  BY <1>3, ProcessOfAssumption DEF SerialInv, HolderInv, Holding, p
<1>9. BufferStable'
  <2>1. \A u \in Threads : tpc[u] \in {"call", "done"} => buf'[ProcessOf[u]] = buf[ProcessOf[u]]
    BY <1>6, <1>8
  <2> QED
    BY <1>1, <1>7, <2>1 DEF SerialInv, BufferStable
<1>10. HolderInv' /\ QueueInv' /\ RequestInv'
  BY <1>1 DEF SerialInv, HolderInv, Holding, QueueInv, RequestInv
<1>11. Request' = Request /\ Buffer' = buf'[p]
  BY <1>1 DEF Request, Buffer, p
<1>12. ServingInv'
  BY <1>1, <1>11 DEF SerialInv, ServingInv
<1>13. WorkInv'
  BY <1>1, <1>2, <1>6, <1>11 DEF SerialInv, WorkInv
<1>14. WritesIntact' /\ ShortReadTimedOut'
  BY <1>1 DEF SerialInv, WritesIntact, ShortReadTimedOut
<1> QED
  BY <1>9, <1>10, <1>12, <1>13, <1>14 DEF SerialInv

\* A read ends: with all the bytes, or after its own timeout.
LEMMA ReadDoneInv ==
  ASSUME SerialInv, ReadDone
  PROVE  SerialInv'
<1>1. /\ spc = "read" /\ spc' = "reply" /\ (i = Request.size \/ TimedOut)
      /\ UNCHANGED <<avail, buf, tpc, req, count, calls, endpoint, serving, i, ret, timeout,
                     elapsed, devVars, output, whole, fetched>>
  BY DEF ReadDone, histVars
<1>2. TypeOK
  BY DEF SerialInv, BufferStable
<1>3. TypeOK'
  BY <1>1, <1>2 DEF TypeOK, devVars
<1>4. BufferStable' /\ HolderInv' /\ QueueInv' /\ RequestInv'
  BY <1>1, <1>3, ThreadsKept
<1>5. Request' = Request /\ Buffer' = Buffer
  BY <1>1 DEF Request, Buffer
<1>6. ServingInv' /\ WorkInv'
  BY <1>1, <1>5 DEF SerialInv, ServingInv, WorkInv
<1>7. WritesIntact'
  BY <1>1 DEF SerialInv, WritesIntact
<1>8. ShortReadTimedOut'
  <2>1. i \in Nat /\ Request.size \in Nat /\ timeout = Request.timeout
    BY <1>1, <1>2, Working DEF SerialInv, WorkInv, TypeOK
  <2> QED
    BY <1>1, <1>5, <2>1 DEF ShortReadTimedOut, TimedOut
<1> QED
  BY <1>4, <1>6, <1>7, <1>8 DEF SerialInv

\* The reply tells the caller how many bytes are in the buffer.
LEMMA ServerReplyInv ==
  ASSUME SerialInv, ServerReply
  PROVE  SerialInv'
<1>1. /\ spc = "reply" /\ tpc' = [tpc EXCEPT ![serving] = "done"]
      /\ count' = [count EXCEPT ![serving] = i] /\ spc' = "recv" /\ serving' = Nobody
      /\ i' = 0 /\ ret' = EOF /\ timeout' = 0 /\ elapsed' = 0 /\ fetched' = << >>
      /\ UNCHANGED <<avail, buf, req, calls, endpoint, devVars, output, whole>>
  BY DEF ServerReply
<1>2. TypeOK
  BY DEF SerialInv, BufferStable
<1>3. serving \in Threads /\ tpc[serving] = "served" /\ Request = req[serving]
      /\ Buffer = buf[ProcessOf[serving]]
  BY <1>1, Working
<1>4. Request.op = "read" => Len(Buffer.bytes) = i
  BY <1>1 DEF SerialInv, WorkInv
<1>5. \A u \in Threads : /\ u # serving => tpc'[u] = tpc[u] /\ count'[u] = count[u]
                         /\ u = serving => tpc'[u] = "done" /\ count'[u] = i
  BY <1>1, <1>2 DEF TypeOK
<1>6. TypeOK'
  <2>1. elapsed' \in 0 .. MaxTime
    BY <1>1, BoundsAssumption
  <2>2. /\ tpc' \in [Threads -> {"run", "sem", "call", "served", "done"}]
        /\ count' \in [Threads -> Nat]
    BY <1>1, <1>2 DEF TypeOK
  <2>3. i' \in Nat /\ ret' \in Bytes \cup {EOF} /\ fetched' \in Seq(Bytes)
        /\ timeout' \in Timeouts \cup {0} /\ serving' \in Threads \cup {Nobody}
    BY <1>1
  <2> QED
    BY <1>1, <1>2, <2>1, <2>2, <2>3 DEF TypeOK, devVars
<1>7. BufferStable'
  BY <1>1, <1>3, <1>4, <1>5, <1>6 DEF SerialInv, BufferStable
<1>8. HolderInv'
  <2>1. \A u \in Threads : Holding(u)' => Holding(u)
    BY <1>3, <1>5 DEF Holding
  <2> QED
    BY <1>1, <2>1 DEF SerialInv, HolderInv
<1>9. QueueInv'
  <2>1. \A k \in 1 .. Len(endpoint) : endpoint[k] \in Threads
    BY <1>2 DEF TypeOK
  <2> QED
    BY <1>1, <1>3, <1>5, <2>1 DEF SerialInv, QueueInv
<1>10. RequestInv'
  BY <1>1, <1>3, <1>5 DEF SerialInv, RequestInv
<1>11. ServingInv'
  BY <1>1, <1>5 DEF SerialInv, ServingInv
<1>12. WorkInv' /\ ShortReadTimedOut'
  BY <1>1 DEF WorkInv, ShortReadTimedOut
<1>13. WritesIntact'
  BY <1>1 DEF SerialInv, WritesIntact
<1> QED
  BY <1>7, <1>8, <1>9, <1>10, <1>11, <1>12, <1>13 DEF SerialInv

\* A byte arrives on a UART.
LEMMA ArriveInv ==
  ASSUME SerialInv, NEW d \in Devices, Arrive(d)
  PROVE  SerialInv'
<1>1. /\ arrived' = [arrived EXCEPT ![d] = arrived[d] + 1] /\ arrived[d] < MaxInput
      /\ \E b \in Bytes : input' = [input EXCEPT ![d] = Append(input[d], b)]
      /\ UNCHANGED <<avail, buf, tpc, req, count, calls, endpoint, serverVars, elapsed, output,
                     whole, fetched>>
  BY DEF Arrive, histVars
<1>2. TypeOK
  BY DEF SerialInv, BufferStable
<1>3. TypeOK'
  <2>1. arrived' \in [Devices -> 0 .. MaxInput]
    <3>1. arrived \in [Devices -> 0 .. MaxInput]
      BY <1>2 DEF TypeOK
    <3>2. arrived[d] + 1 \in 0 .. MaxInput
      BY <1>1, <3>1, BoundsAssumption
    <3> QED BY <1>1, <3>1, <3>2
  <2>2. input' \in [Devices -> Seq(Bytes)]
    <3>1. \A b \in Bytes : Append(input[d], b) \in Seq(Bytes)
      BY <1>2, AppendProperties DEF TypeOK
    <3> QED
      BY <1>1, <1>2, <3>1 DEF TypeOK
  <2> QED
    BY <1>1, <1>2, <2>1, <2>2 DEF TypeOK, serverVars
<1>4. BufferStable' /\ HolderInv' /\ QueueInv' /\ RequestInv'
  BY <1>1, <1>3, ThreadsKept
<1>5. ServingInv' /\ WorkInv' /\ WritesIntact' /\ ShortReadTimedOut'
  BY <1>1, WorkKept
<1> QED
  BY <1>4, <1>5 DEF SerialInv

-----------------------------------------------------------------------------
\* The invariant holds in every reachable state.
LEMMA Invariant == Spec => []SerialInv
<1>1. Init => SerialInv
  <2> SUFFICES ASSUME Init
               PROVE  SerialInv
    OBVIOUS
  <2>1. << >> \in Seq(Bytes) /\ << >> \in Seq(Threads) /\ << >> \in Seq(Bytes \cup {Junk})
    OBVIOUS
  <2>2. /\ req \in [Threads -> Requests] /\ buf \in [Processes -> Buffers]
        /\ \A t \in Threads : req[t] = NoRequest /\ req[t].op = "none"
    BY <2>1, NoRequestType, DataType DEF Init
  <2>3. /\ calls \in 0 .. MaxCalls /\ elapsed \in 0 .. MaxTime
        /\ arrived \in [Devices -> 0 .. MaxInput]
    BY BoundsAssumption DEF Init
  <2>4. TypeOK
    BY <2>1, <2>2, <2>3 DEF Init, TypeOK, Requests, Buffers
  <2>5. \A t \in Threads : tpc[t] = "run"
    BY DEF Init
  <2>6. Len(endpoint) = 0 /\ spc = "recv"
    BY DEF Init
  <2>7. BufferStable /\ HolderInv /\ RequestInv
    BY <2>2, <2>4, <2>5 DEF BufferStable, HolderInv, Holding, RequestInv
  <2>8. QueueInv
    BY <2>6 DEF QueueInv
  <2>9. ServingInv /\ WorkInv /\ ShortReadTimedOut
    BY <2>5, <2>6 DEF ServingInv, WorkInv, ShortReadTimedOut
  <2>10. WritesIntact
    <3>1. << >> \o << >> = << >>
      BY <2>1, ConcatEmptySeq
    <3> QED
      BY <2>6, <3>1 DEF Init, WritesIntact
  <2> QED
    BY <2>7, <2>8, <2>9, <2>10 DEF SerialInv
<1>2. SerialInv /\ [Next]_vars => SerialInv'
  <2> SUFFICES ASSUME SerialInv, [Next]_vars
               PROVE  SerialInv'
    OBVIOUS
  <2>1. CASE ServerNext
    BY <2>1, ServerRecvInv, PutCharInv, WriteDoneInv, PollInv, StoreCharInv, ReadDoneInv,
       ServerReplyInv DEF ServerNext
  <2>2. CASE \E t \in Threads : ThreadNext(t)
    BY <2>2, CallInv, TakeInv, ReturnInv DEF ThreadNext
  <2>3. CASE Tick
    BY <2>3, PollInv
  <2>4. CASE \E d \in Devices : Arrive(d)
    BY <2>4, ArriveInv
  <2>5. CASE UNCHANGED vars
    <3>1. UNCHANGED <<avail, buf, tpc, req, count, calls, endpoint, serverVars, elapsed, devVars,
                      output, whole, fetched>>
      BY <2>5 DEF vars, histVars
    <3>2. TypeOK'
      BY <3>1 DEF SerialInv, BufferStable, TypeOK, serverVars, devVars
    <3> QED
      BY <3>1, <3>2, ThreadsKept, WorkKept DEF SerialInv
  <2> QED
    BY <2>1, <2>2, <2>3, <2>4, <2>5 DEF Next
<1> QED
  BY <1>1, <1>2, PTL DEF Spec

\* sel4osapi_serial_server_thread: the payloads of writes come out whole and in
\* the order the server took them, for any number of processes and threads.
THEOREM WritesWhole == Spec => []WritesIntact
<1>1. SerialInv => WritesIntact
  BY DEF SerialInv
<1> QED
  BY <1>1, Invariant, PTL

\* buf_avail protects a process's buffer on the way to the server and back.
THEOREM BufferKept == Spec => []BufferStable
<1>1. SerialInv => BufferStable
  BY DEF SerialInv
<1> QED
  BY <1>1, Invariant, PTL

\* A read that returns fewer bytes than asked for has waited for its timeout,
\* that of the request and not of another one in the buffer.
THEOREM ShortReadsWaited == Spec => []ShortReadTimedOut
<1>1. SerialInv => ShortReadTimedOut
  BY DEF SerialInv
<1> QED
  BY <1>1, Invariant, PTL
=============================================================================
