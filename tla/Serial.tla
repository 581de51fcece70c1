------------------------------- MODULE Serial -------------------------------
(***************************************************************************)
(* The serial server (src/io.c): one thread of the root task that executes *)
(* the write, read and configure requests of all processes, byte by byte,  *)
(* on one of two UARTs.  Data passes through a buffer per process, guarded *)
(* by the semaphore buf_avail; the same buffer carries a read's timeout to *)
(* the server.                                                             *)
(***************************************************************************)
EXTENDS Integers, Sequences

CONSTANTS
  Processes,  \* processes with a serial client
  Threads,    \* their threads
  ProcessOf,  \* the process of a thread
  Devices,    \* SERIAL_DEV_UART1, SERIAL_DEV_UART2
  Bytes,      \* values of a byte
  Payloads,   \* what threads write: sequences of bytes, up to buf_size long
  Sizes,      \* how many bytes they ask to read
  Timeouts,   \* timeouts of reads in ms, 0 for none
  MaxTime,    \* bound of the model: ms counted during a read
  MaxInput,   \* bound of the model: bytes that arrive on a device
  MaxCalls    \* bound of the model: calls to the library

ASSUME ProcessOfAssumption == ProcessOf \in [Threads -> Processes]
ASSUME DevicesAssumption == Devices # {}
ASSUME PayloadsAssumption == Payloads \subseteq Seq(Bytes)
ASSUME SizesAssumption == Sizes \subseteq Nat
ASSUME TimeoutsAssumption == Timeouts \subseteq 0 .. MaxTime - 1
ASSUME BoundsAssumption == /\ MaxTime \in Nat \ {0}
                           /\ MaxInput \in Nat
                           /\ MaxCalls \in Nat

EOF == "EOF"
Junk == "junk"      \* what is in the buffer where no data was put
Nobody == "nobody"
ASSUME NamesAssumption ==
  EOF \notin Bytes /\ Junk \notin Bytes /\ Nobody \notin Threads

\* A request: opcode, device, payload or size, timeout.
NoRequest == [op |-> "none", dev |-> CHOOSE d \in Devices : TRUE,
              data |-> << >>, size |-> 0, timeout |-> 0]

VARIABLES
  avail,     \* value of buf_avail of a process
  buf,       \* content of the buffer of a process
  tpc,       \* thread: "run", "sem", "call", "served" or "done"
  req,       \* thread: its request
  count,     \* thread: MR[0] of the reply
  calls,     \* number of calls so far, up to MaxCalls
  endpoint,  \* kernel: threads queued on server_ep
  spc,       \* server: "recv", "write", "read" or "reply"
  serving,   \* server: the caller
  i,         \* server: bytes written or read so far
  ret,       \* server: the last result of ps_cdev_getchar in this read
  timeout,   \* server: the timeout it found in the buffer
  elapsed,   \* ms since the read began, up to MaxTime
  input,     \* bytes waiting in a UART
  arrived,   \* number of bytes that arrived on it, up to MaxInput
  output,    \* history: bytes put on a UART
  whole,     \* history: payloads of the writes completed on it, concatenated
  fetched    \* history: bytes got from the UART in this read

serverVars == <<spc, serving, i, ret, timeout>>
devVars == <<input, arrived>>
histVars == <<whole, fetched>>
vars == <<avail, buf, tpc, req, count, calls, endpoint, serverVars, elapsed,
          devVars, output, histVars>>

TypeOK ==
  /\ avail \in [Processes -> {0, 1}]
  /\ buf \in [Processes -> [kind: {"data", "timeout", "config"},
                            bytes: Seq(Bytes), timeout: Timeouts \cup {0}]]
  /\ tpc \in [Threads -> {"run", "sem", "call", "served", "done"}]
  /\ req \in [Threads -> [op: {"none", "write", "read", "config"},
                          dev: Devices, data: Payloads \cup {<< >>},
                          size: Nat, timeout: Timeouts \cup {0}]]
  /\ count \in [Threads -> Nat]
  /\ calls \in 0 .. MaxCalls
  /\ endpoint \in Seq(Threads)
  /\ spc \in {"recv", "write", "read", "reply"}
  /\ serving \in Threads \cup {Nobody}
  /\ i \in Nat
  /\ ret \in Bytes \cup {EOF}
  /\ timeout \in Timeouts \cup {0}
  /\ elapsed \in 0 .. MaxTime
  /\ input \in [Devices -> Seq(Bytes)]
  /\ arrived \in [Devices -> 0 .. MaxInput]
  /\ output \in [Devices -> Seq(Bytes \cup {Junk})]
  /\ whole \in [Devices -> Seq(Bytes)]
  /\ fetched \in Seq(Bytes)

Data(s) == [kind |-> "data", bytes |-> s, timeout |-> 0]

Init ==
  /\ avail = [p \in Processes |-> 1]
  /\ buf = [p \in Processes |-> Data(<< >>)]
  /\ tpc = [t \in Threads |-> "run"]
  /\ req = [t \in Threads |-> NoRequest]
  /\ count = [t \in Threads |-> 0]
  /\ calls = 0
  /\ endpoint = << >>
  /\ spc = "recv"
  /\ serving = Nobody
  /\ i = 0
  /\ ret = EOF
  /\ timeout = 0
  /\ elapsed = 0
  /\ input = [d \in Devices |-> << >>]
  /\ arrived = [d \in Devices |-> 0]
  /\ output = [d \in Devices |-> << >>]
  /\ whole = [d \in Devices |-> << >>]
  /\ fetched = << >>

-----------------------------------------------------------------------------
(* Threads of the processes.                                               *)

Begin(t, r) ==
  /\ tpc[t] = "run"
  /\ calls < MaxCalls
  /\ calls' = calls + 1
  /\ req' = [req EXCEPT ![t] = r]
  /\ tpc' = [tpc EXCEPT ![t] = "sem"]
  /\ UNCHANGED <<avail, buf, count, endpoint, serverVars, elapsed, devVars,
                 output, histVars>>

SerialWrite(t) ==
  \E d \in Devices, s \in Payloads :
    Begin(t, [NoRequest EXCEPT !.op = "write", !.dev = d, !.data = s,
                               !.size = Len(s)])

SerialRead(t) ==
  \E d \in Devices, n \in Sizes, ms \in Timeouts :
    Begin(t, [NoRequest EXCEPT !.op = "read", !.dev = d, !.size = n,
                               !.timeout = ms])

SerialConfigure(t) ==
  \E d \in Devices : Begin(t, [NoRequest EXCEPT !.op = "config", !.dev = d])

\* What the caller puts into the buffer.
Filled(r) ==
  CASE r.op = "write"  -> Data(r.data)
    [] r.op = "read"   -> [Data(<< >>) EXCEPT !.kind = "timeout",
                                              !.timeout = r.timeout]
    [] r.op = "config" -> [Data(<< >>) EXCEPT !.kind = "config"]

\* Mutant of Take: buf_avail is not taken.
TakeNothing(t) ==
  /\ tpc[t] = "sem"
  /\ buf' = [buf EXCEPT ![ProcessOf[t]] = Filled(req[t])]
  /\ endpoint' = Append(endpoint, t)
  /\ tpc' = [tpc EXCEPT ![t] = "call"]
  /\ UNCHANGED <<avail, req, count, calls, serverVars, elapsed, devVars, output,
                 histVars>>

\* Takes buf_avail, fills the buffer and calls the server.
Take(t) ==
  /\ tpc[t] = "sem"
  /\ avail[ProcessOf[t]] > 0
  /\ avail' = [avail EXCEPT ![ProcessOf[t]] = @ - 1]
  /\ buf' = [buf EXCEPT ![ProcessOf[t]] = Filled(req[t])]
  /\ endpoint' = Append(endpoint, t)
  /\ tpc' = [tpc EXCEPT ![t] = "call"]
  /\ UNCHANGED <<req, count, calls, serverVars, elapsed, devVars, output, histVars>>

\* A read copies `count' bytes out of the buffer; then buf_avail is given.
Return(t) ==
  /\ tpc[t] = "done"
  /\ avail' = [avail EXCEPT ![ProcessOf[t]] = @ + 1]
  /\ tpc' = [tpc EXCEPT ![t] = "run"]
  /\ req' = [req EXCEPT ![t] = NoRequest]
  /\ count' = [count EXCEPT ![t] = 0]
  /\ UNCHANGED <<buf, calls, endpoint, serverVars, elapsed, devVars, output,
                 histVars>>

-----------------------------------------------------------------------------
(* The server thread, sel4osapi_serial_server_thread.                      *)

Request == req[serving]

\* Mutant of Buffer: the search among server->clients ends at the first.
FirstBuffer == buf[CHOOSE p \in Processes : TRUE]

\* The buffer of the client with the id in the request.
Buffer == buf[ProcessOf[serving]]

ByteAt(n) == IF n \in DOMAIN Buffer.bytes THEN Buffer.bytes[n] ELSE Junk

\* The request is dispatched; a read fetches its timeout from the buffer.
ServerRecv ==
  /\ spc = "recv"
  /\ endpoint # << >>
  /\ LET t == Head(endpoint) IN
       /\ serving' = t
       /\ tpc' = [tpc EXCEPT ![t] = "served"]
       /\ spc' = IF req[t].op = "config" THEN "reply" ELSE req[t].op
       /\ timeout' = IF req[t].op = "read" THEN buf[ProcessOf[t]].timeout
                     ELSE 0
  /\ endpoint' = Tail(endpoint)
  /\ i' = 0
  /\ ret' = EOF
  /\ elapsed' = 0
  /\ fetched' = << >>
  /\ UNCHANGED <<avail, buf, req, count, calls, devVars, output, whole>>

\* One ps_cdev_putchar.
PutChar ==
  /\ spc = "write"
  /\ i < Request.size
  /\ output' = [output EXCEPT ![Request.dev] = Append(@, ByteAt(i + 1))]
  /\ i' = i + 1
  /\ UNCHANGED <<avail, buf, tpc, req, count, calls, endpoint, spc, serving, ret,
                 timeout, elapsed, devVars, histVars>>

WriteDone ==
  /\ spc = "write"
  /\ i = Request.size
  /\ whole' = [whole EXCEPT ![Request.dev] = @ \o Request.data]
  /\ spc' = "reply"
  /\ UNCHANGED <<avail, buf, tpc, req, count, calls, endpoint, serving, i, ret,
                 timeout, elapsed, devVars, output, fetched>>

\* Mutants of TimedOut: the deadline is missed by one; no deadline at all.
TimedOutEarly == timeout > 0 /\ elapsed >= timeout
NeverTimedOut == FALSE

TimedOut == timeout > 0 /\ elapsed > timeout

\* The inner loop of a read: polls the UART until it has a byte or the time
\* is over.
GetChar ==
  /\ spc = "read"
  /\ i < Request.size
  /\ ret = EOF
  /\ ~TimedOut
  /\ input[Request.dev] # << >>
  /\ ret' = Head(input[Request.dev])
  /\ input' = [input EXCEPT ![Request.dev] = Tail(@)]
  /\ fetched' = Append(fetched, ret')
  /\ UNCHANGED <<avail, buf, tpc, req, count, calls, endpoint, spc, serving, i,
                 timeout, elapsed, arrived, output, whole>>

\* Stores `ret' in the buffer.  `ret' keeps its value, so the next round of
\* the loop does not poll and stores the same byte again.
StoreChar ==
  /\ spc = "read"
  /\ i < Request.size
  /\ ret # EOF
  /\ buf' = [buf EXCEPT ![ProcessOf[serving]] = Data(Append(@.bytes, ret))]
  /\ i' = i + 1
  /\ UNCHANGED <<avail, tpc, req, count, calls, endpoint, spc, serving, ret, timeout,
                 elapsed, devVars, output, histVars>>

ReadDone ==
  /\ spc = "read"
  /\ i = Request.size \/ (ret = EOF /\ TimedOut)
  /\ spc' = "reply"
  /\ UNCHANGED <<avail, buf, tpc, req, count, calls, endpoint, serving, i, ret,
                 timeout, elapsed, devVars, output, histVars>>

ServerReply ==
  /\ spc = "reply"
  /\ tpc' = [tpc EXCEPT ![serving] = "done"]
  /\ count' = [count EXCEPT ![serving] = i]
  /\ spc' = "recv"
  /\ serving' = Nobody
  /\ i' = 0
  /\ ret' = EOF
  /\ timeout' = 0
  /\ elapsed' = 0
  /\ fetched' = << >>
  /\ UNCHANGED <<avail, buf, req, calls, endpoint, devVars, output, whole>>

-----------------------------------------------------------------------------
\* The clock, as far as a read sees it.
Tick ==
  /\ spc = "read"
  /\ elapsed < MaxTime
  /\ elapsed' = elapsed + 1
  /\ UNCHANGED <<avail, buf, tpc, req, count, calls, endpoint, serverVars, devVars,
                 output, histVars>>

\* A byte arrives on a UART.
Arrive(d) ==
  /\ arrived[d] < MaxInput
  /\ arrived' = [arrived EXCEPT ![d] = @ + 1]
  /\ \E b \in Bytes : input' = [input EXCEPT ![d] = Append(@, b)]
  /\ UNCHANGED <<avail, buf, tpc, req, count, calls, endpoint, serverVars, elapsed,
                 output, histVars>>

ServerNext ==
  \/ ServerRecv
  \/ PutChar
  \/ WriteDone
  \/ GetChar
  \/ StoreChar
  \/ ReadDone
  \/ ServerReply

ThreadNext(t) ==
  \/ SerialWrite(t)
  \/ SerialRead(t)
  \/ SerialConfigure(t)
  \/ Take(t)
  \/ Return(t)

Next ==
  \/ ServerNext
  \/ \E t \in Threads : ThreadNext(t)
  \/ Tick
  \/ \E d \in Devices : Arrive(d)

Spec == Init /\ [][Next]_vars

\* The server and callers run when they can, the clock ticks, and giving
\* buf_avail wakes a waiter, so none is overtaken forever.  Nothing makes a
\* byte arrive or a thread call.
Fairness ==
  /\ WF_vars(ServerNext)
  /\ WF_vars(Tick)
  /\ \A t \in Threads : SF_vars(Take(t)) /\ WF_vars(Return(t))

FairSpec == Spec /\ Fairness

-----------------------------------------------------------------------------
(* Properties.                                                             *)

\* What comes out of a UART is the concatenation of the payloads written to
\* it: bytes of two writes, of one process or of two, never mix.
WritesIntact ==
  \A d \in Devices :
    output[d] = whole[d] \o
      IF spc = "write" /\ Request.dev = d THEN SubSeq(Request.data, 1, i)
      ELSE << >>

\* From the time a thread fills its process's buffer until the server takes
\* up the request, and after a read until the bytes are copied out, no
\* other thread of the process writes to the buffer.
BufferStable ==
  /\ TypeOK
  /\ \A t \in Threads : LET b == buf[ProcessOf[t]] IN
       /\ tpc[t] = "call" => b = Filled(req[t])
       /\ tpc[t] = "done" /\ req[t].op = "read" => Len(b.bytes) = count[t]

\* A read returns fewer bytes than asked for only when its timeout is over.
ShortReadTimedOut ==
  spc = "reply" /\ Request.op = "read" /\ i < Request.size =>
    Request.timeout > 0 /\ elapsed > Request.timeout

\* Every call returns, of all the processes, unless the one server thread is
\* in a read without timeout.
CallsReturn ==
  \A t \in Threads :
    tpc[t] = "sem" ~>
      tpc[t] = "run" \/ (spc = "read" /\ Request.timeout = 0)

\* docs/design.md:633: a read moves data "from the selected serial device to
\* the memory buffer": what the caller gets is what the UART delivered.
ReadIsInput ==
  spc = "reply" /\ Request.op = "read" => Buffer.bytes = fetched
=============================================================================
