# libsel4osapi: models, checks and proofs

libsel4osapi is a small operating-system layer over seL4: a root task that
creates user processes and serves them (clock, serial port, UDP), and the
library the processes link with. The kernel gives synchronous endpoints
(`seL4_Call`, `seL4_Send`, `seL4_Recv`), notifications ("AEPs", one pending
signal each) and threads; all the rest, the schedules, queues, shared buffers,
locks and tables, is C code of this repository. This directory models that
code in TLA+, checks it with TLC and proves its safety properties with TLAPS.

Paths below are relative to the repository; line numbers for every definition
are in `PROJECT.json`, "map".

## 1. Inventory

| Component | State | Operations | Who else touches it |
|---|---|---|---|
| SysClock (`src/clock.c`) | `time`, `schedule` (a pool of timeouts), the slot that receives the next cap | tick and walk (`sysclock::timer`); SET_TIMEOUT, CANCEL_TIMEOUT, GET_TIME (`sysclock::server`) | two threads under `timeouts_mutex`; clients by IPC; a notification per client thread |
| Thread sleep (`src/thread.c:213`) | none of its own | schedule, assert, wait | a client of the SysClock |
| UDP reception (`src/udp.c`, `src/network.c`) | per socket `msgs` (a pool) and `aep_rx_data`; per process `rx_buf`, `rx_buf_avail` | `udprecv` (lwIP callback), rx thread, `sel4osapi_udp_recv` | interrupt thread, one rx thread per socket, any thread of the process |
| UDP transmission (`src/udp.c`) | per process `tx_buf`, `tx_buf_avail` | `sel4osapi_udp_send`, tx thread | threads of the process, one tx thread per socket, the interrupt thread (interface's mutex) |
| UDP stack server (`src/udp.c`) | the sockets; the slots its caps are in; locals that live from one request to the next | create, bind, connect | one server thread, requests of all processes; lists that the root thread extends |
| Network interfaces (`src/network.c`) | list of interfaces, an interface's mutex | create, add a virtual interface, interrupt thread | reception and transmission |
| Serial server (`src/io.c`) | two UARTs; per process `buf`, `buf_avail` | write, read, configure | one server thread, threads of all processes |
| Processes (`src/process.c`, `src/system.c`) | pool of processes, `user_untypeds_allocation` | create, spawn, signal_root, join, delete | root task and each process, on the fault endpoint |
| Threads (`src/thread.c`) | pool of threads of a process, `info.active` | create, start, stop, join, delete | the creating threads and the new one; root task and monitors on the fault endpoint |
| Pool and list (`src/pool.c`, `src/list.c`) | doubly linked lists of free and used entries | new, alloc, free, search | everything above; no lock of its own |
| Mutexes, semaphores, IPC clients | wrappers of libsel4sync; shared buffers | lock, wait, signal | everything above |
| Syslog (`src/log.c`, `log.h`) | level, console, mutex, one static buffer | log, set level, set console, monitor a thread | all threads of a process; the serial server, and through it the SysClock |
| Utilities, boot | allocators | bootstrap | sequential |

**How they interact.** A client call is `seL4_Call` on a server's endpoint,
with data in a buffer shared by *all* threads of the process and guarded by a
semaphore in the process. Asynchronous events (a timeout, a datagram) come as
a signal on a notification, which remembers one signal and forgets how many.
The rx thread of a socket therefore has to count and re-signal. Pools carry
both the SysClock's schedule and the datagram queues.

**What is hard.**
- *Interleaving*: a cancel against the timer thread's walk; `udprecv` against
  the rx thread, which releases `msgs_mutex` between reading the head of the
  queue, replying, freeing the pbuf (under another mutex) and freeing the
  message; several sockets that share one `rx_buf` and one `tx_buf`.
- *Lost and coalesced wakeups* on `aep_rx_data`, leftover signals on `wait_aep`.
- *Overflow* of the 32-bit clock, compared with `<=`.
- *Limits*: a full schedule, a full queue, no receive slots, a pool of
  processes that is never refilled, untypeds that run out.
- *Order of calls*: create and delete of processes in any order over one
  table; free by comparison of contents; the spawn handshake against a fault
  on the same endpoint.
- *Lists without a lock*: the stack server searches clients and interfaces
  while the root thread constructs them; threads of a process share a pool.
- *Caps in transit*: one variable names the slot where a cap arrives, the copy
  that is sent back and the slot for the next one.
- *Servers that call each other*: the serial server asks the SysClock for the
  time, the SysClock logs, the log writes to the serial server.
- *Progress*: sleepers wake, calls return, datagrams are fetched.

`PROJECT.json`, "hazards", lists each of these at its line, with the
properties that would catch it.

## 2. Modules

| Module | Models |
|---|---|
| `TimerService` | what the SysClock promises its clients (abstract specification) |
| `Sysclock` | `src/clock.c` and `sel4osapi_thread_sleep`; implements `TimerService` |
| `DatagramChannel` | what the sockets promise the threads that receive on them (abstract specification) |
| `UdpRecv` | reception: `udprecv`, rx thread, `sel4osapi_udp_recv`, interrupt thread; implements `DatagramChannel` |
| `UdpSend` | transmission: `sel4osapi_udp_send`, tx thread |
| `Serial` | `src/io.c` |
| `PoolSpec` | what a `simple_pool_t` promises (abstract specification) |
| `SimplePool` | `src/pool.c` on `src/list.c`, pointer by pointer; implements `PoolSpec` |
| `Process` | life of processes and the untyped table |
| `UdpStack` | the stack server, `sel4osapi_udp_create_socket`, `_bind`, `_sd_to_socket`, the lists of clients and interfaces |
| `Thread` | threads of a process, its fault endpoint, `sel4osapi_process_join`, monitors |
| `Syslog` | the log of the root task with the serial and the SysClock server behind it |
| `MC*` | instances for TLC |
| `SysclockProofs`, `UdpRecvProofs`, `UdpSendProofs`, `SerialProofs`, `ProcessProofs`, `UdpStackProofs`, `SyslogProofs` | theorems about the module of that name, their inductive invariants and lemmas |
| `PoolProofs` | the same for `PoolSpec`, `SimplePool` and `Thread`, whose tids come from a pool |

An action is the code between two points where another thread can interfere: a
critical section is one action, a blocking kernel call separates two. The
comment at the head of each module says why that grain is sound. Operators
whose comment begins with "Mutant of" are variants of the definition that
follows them, with one plausible mistake; they are used to test that a
property can fail at all and are part of no specification.

**Sysclock.** The timer thread is `TimerTick` (the interrupt: `time` advances
by the period modulo the word), `TimerLock`, then one step per entry of the
walk, holding the mutex. The server receives (`seL4_Recv` hands over the
client's notification cap into the slot `caller_ep`), serves the request under
the mutex, replies and, after a SET_TIMEOUT, allocates a new slot. The number
of that slot *is* the id of a timeout (`src/clock.c:240`), and the pool frees
by comparing it. `schedule` is a sequence: the `entries` list of a pool.
Entries carry two history fields, the milliseconds not yet elapsed (`left`)
and whether the deadline overflowed (`wraps`); `retired` and `nap` are history
as well. The flag a cancel returns is 1 whatever was found, as in the code, where
`done` is never set.

**UdpRecv.** The interrupt thread holds the interface's mutex, in which the
driver calls `udprecv` any number of times: queue under `msgs_mutex` (or drop
and free the pbuf when the pool is empty), then signal. The rx thread's loop
is cut at every unlock and every kernel call: signal if `remaining_msgs > 0`, receive a request,
fetch the head, copy to `rx_buf`, reply, free the pbuf under the interface's
mutex, free the message under `msgs_mutex`. A receiver waits on the
notification, takes `rx_buf_avail`, calls, reads, releases. A datagram is its
number and length; its pbuf has the same name. Datagrams of 0 bytes and those
longer than the receiver's buffer are returned as errors, and are gone.

**UdpSend**, **Serial**, **Process** and **SimplePool** follow the same
pattern; Serial cuts a request into one step per byte, with `ret` and the
timeout as the server keeps them; Process has the root task as one thread and
every process as another, meeting on the process's fault endpoint.

**UdpStack.** The server's loop is cut at its receive, at the replies, at the
interface's mutex and at the two entries into lwIP: `udp_new`, which begins
`ReplyCreate` and holds no mutex, and `udp_bind`, in `BindPcb` under the
interface's. A caller waits for the process's mutex in a state of its own
(`create_lock`, `sd_lock`), so that one that never gets it is seen to be in a
call; a create then keeps the mutex until it is answered. The server's locals `client`, `iface`
and `socket_server` are variables, because a lookup that finds nothing leaves
them as the request before did; `slots`, `mint` (`rx_ready_ep_mint`) and
`path` are the caps it holds and where the next one lands. A socket of a
process has the two caps it got from the server and, per thread, what its bind
received, so a cap that went to the wrong socket is visible. Entries that the
root thread is constructing hold arbitrary data: a pid, a socket id or a list
head from `JunkPids`, `JunkIds` and `wild`. A send is one step of the tx
thread; what happens in it is `UdpSend`.

**Thread.** `sel4osapi_thread_create` is three steps: read the head of the free
list, move it, read the size for the tid. When two creations take the same
element (`broken`) the model stops, since two threads then have one descriptor.
A thread that ends does so in a call that nobody answers. Faults, the exit
message of the process, the root task's join and the monitors of the log meet
on one endpoint. Deletion keeps the element.

**Syslog.** Two servers and the other threads of the root task share the log.
A message is formatted into the static buffer and written in two serial writes,
each of which reads the console again; `open` is what stands on a UART without
its newline. The serial server and the SysClock server appear with the calls
they make of each other; what they do otherwise is in `Serial` and `Sysclock`.

**Composition.** `Sysclock` and `UdpRecv` use a pool as a FIFO sequence with a
bound. `SimplePool` justifies that: for every size the linked lists implement
`PoolSpec` (`ImplementsPool`, refinement by reading both lists off the heap),
and the sequences of `PoolSpec` never share or lose an element
(`PoolPartition`). What the two are for is said by two more abstract
specifications, and both are proved to be implemented. `TimerService` has a set
of timeouts instead of a schedule with a walk, and no server: to set, cancel,
fire and wait are one step each. `DatagramChannel` has one queue per socket
instead of the pool, the rx thread, the shared buffer and its semaphore: a
datagram is accepted, dropped, or taken by a call. `Syslog` composes the log with both servers,
and `UdpStack` with the lists of `src/ipc.c` and `src/network.c`. A socket of
`UdpRecv` and `UdpSend` is one that `UdpStack` has bound: `CapsMatch` and
`OwnSocket` are what those two modules take for granted (the
queue and its mutex exist when `udprecv` runs, signals reach the thread that
waits, the buffers are those of the process).

**External code.** Endpoints, notifications, libsel4sync and lwIP are modelled
from how the code uses them: FIFO endpoint for the single-endpoint servers,
binary notification, lwIP as the caller of `udprecv` and as a `udp_sendto`
that may fail. Cap and page-table calls that stop the task on failure are
taken to succeed; the one that runs out in normal use, the slot allocation of
the SysClock server, is modelled with its failure.

## 3. Runs

All runs finish in about three minutes or less with two workers.

| Run | Bounds | Shows |
|---|---|---|
| `sysclock` | 2 clients, 2 entries, 3 slots, 3-bit word, period 3, timeout 4 | ids unique, cancelled and fired timeouts stay out, nothing due is left by a walk; implements `TimerService` |
| `sysclock_sleep` | same, 4 slots, sleeps and cancels, fairness | sleeps end, and not early; every call is answered and no assert behind it fails; every one-shot timeout retires, across the overflow |
| `udp_recv` | 1 socket, 2 receivers, queue of 2, 3 datagrams of 0, 1 or 2 bytes, buffers of 1 | no lost wakeup, order and exactly-once, pbuf ownership, stable `rx_buf`, every accepted datagram is fetched; implements `DatagramChannel` |
| `udp_send` | 2 sockets, 3 threads, 3 calls | stable `tx_buf`, error flag matches the wire, calls return |
| `serial` | 2 processes, 3 threads, 1 UART, payloads of 1 and 2 bytes, 3 calls | writes do not mix, shared buffer stable, short reads only after the timeout, calls return |
| `simple_pool` | 4 elements, 3 contents, with and without custom functions | list pointers sound, sizes right, implements `PoolSpec` |
| `process` | 3 processes, 3 untypeds of two sizes | untypeds exclusive and none lost, pids distinct, spawn and join return |
| `udp_stack` | 2 processes, 3 threads, 2 interfaces, 2 sockets, 2 ports, 4 calls | sockets, clients, interfaces and caps match; no mutex is left behind; the server stops only for five reasons; calls return |
| `thread` | 2 creators, 3 threads, 1 monitor, 1 fault | tids distinct unless creations overlap, stop and join end, the exit is reported |
| `syslog` | 1 thread of the root task and both servers, 1 client, 2 UARTs | messages whole unless the console is switched, calls return except in one circle |
| `serial_read`, `process_table` | small | documentation and code disagree, see section 5 |

The type invariants of `UdpSend`, `Serial`, `SimplePool`, `Process`, `UdpStack`,
`Thread` and `Syslog` are a conjunct of one of the invariants of their run
(`TxBufStable`, `BufferStable`, `ListsSound`, `AllocatedToLive`, `OwnSocket`,
`TidsDistinct`, `BufferStable`); those of `Sysclock` and `UdpRecv`,
`RemainingBound`, and `LeavesOnlyRetired` (which `ImplementsTimers` covers) are
proved for every instance and not repeated in a run.

**Why the bounds are enough.** They are the smallest with which every case of
the code happens. *Sysclock*: a word of 8 with a period of 3 overflows after
three ticks, so deadlines before, at and after the overflow all occur; two
entries let the schedule be full and let an entry follow a freed one; three
SET_TIMEOUTs with three slots let the slots run out (`aborted`), four leave
one. *UdpRecv*: a queue of two with three datagrams is full, drops, and is
refilled while the rx thread is between two locks; two receivers race for the
buffer; the three lengths are the three outcomes of a call. Two sockets that
share `rx_buf` are covered by the theorem `RxBufKept`. *Serial*: two threads
of one process and one of another contend for the buffer and for the server.
*SimplePool*: four nodes have a first, a last and two inner ones, and two
elements with equal contents occur. *Process*: three creations fill the pool;
the untypeds of unequal size let a process take one, several or none.
*UdpStack*: two threads of one process bind the same socket and look sockets up
while the other creates; the third, of a process registered later, competes for
the pool of sockets, which two fill; the address asked for is on no interface,
on the second, or any; with two ports two sockets are bound side by side, or
one finds its port in use; the fourth call is the send on a socket that two
others have created and bound, or the one that waits for a mutex nobody
releases. One exception of `CallsReturn`, the send that meets the mutex of a
bind that failed, takes five calls and is not reached. *Thread*: three
elements let the pool run out, and let two creations overlap with a third
before or behind them. *Syslog*: the thread of the root task and the two servers
are three that log, and the client keeps the serial server in a read meanwhile;
two UARTs let the console move between the halves of a line.

Symmetry is used in `sysclock` only, over the two clients, which are
interchangeable, and with safety properties only.

**Deadlock** is checked where the system never stops (the clock ticks, lwIP may
always run, a pool always admits an operation). It is off in `serial`, whose
calls are bounded by the model, and in `process`, where the real system stops
as well: all processes deleted and the pool exhausted, or a spawn whose
process faulted before the handshake. It is off in `udp_stack`, where an assert
stops the server with the interface's mutex held; in `thread`, where the process
is over when its threads have ended; and in `syslog`, where the servers may wait
for each other (`Circle`). In all of them a liveness property says who
may be left waiting, and why.

**Fairness.** All threads of a service have a priority under seL4's
round-robin scheduler and never spin on each other, so a step that stays
enabled is taken: weak fairness of each thread and of the kernel's delivery.
Strong fairness is assumed for taking a lock or semaphore that others take in
between: libsel4sync's waiters queue on a notification in FIFO order. Nothing
obliges a client to *begin* a call, a datagram to arrive or the interrupt
handler to be entered. `UdpStack` assumes less than fairness of each thread:
that the work of the calls under way, taken together, goes on whenever it can.
That is enough there, since calls are bounded and no step of a call is taken
twice. Three assumptions of the temporal properties concern applications and are stated
with the property: receivers keep calling `sel4osapi_udp_recv`
(`EventuallyFetched`), a process ends at some time (`JoinReturns`), and a
thread uses its `wait_aep` for sleeping only (`SleepNotEarly`). In `Thread` a
routine that is told to stop returns; one that is not need not.

## 4. Proofs

Every theorem holds for all values of the constants allowed by the `ASSUME`s of
its module (which TLC evaluates in each run), so for any number of clients,
sockets, threads, entries and any word size.

The module of a component has its theorems with one inductive invariant, the
conjunction of the properties and of what they need; below, what was added and
why the properties do not hold inductively without it. There is a lemma per
action, and in it a step per conjunct the action can disturb. Where an
invariant names a history variable (`starved`, `moved`, `overlap`), the
property holds with that exception in the code, see section 5.

**SysclockProofs** proves `TypeOK`, `UniqueIds`, `RetiredNeverScheduled`,
`DueMeansElapsed` and `ScanServesAll`. `SysclockInv`
adds: `QueueInv` and `ServingInv` (a queued client is in its call, once, and is
not the one being served; the slot holds the cap of the client being served);
`IdsInv` (every id anyone knows, or that is retired, was issued: it is at most
`caller_ep`, and equal to it only between the request and the allocation of
the next slot), which is what makes a fresh id fresh; `ScanInv` (the walk holds
the mutex and left nothing due behind it); and `DeadlineInv` (a deadline that
did not overflow is exactly `left` ahead of the clock).

Two action properties follow. `LeavesOnlyRetired`: the entry that
`simple_pool_free` takes out is the one that was served or cancelled, because
ids are unique. `SleepNotEarly`, with the hypothesis that the clients' calls are
sleep, cancel and get-time, the one under which the library itself uses a
`wait_aep`: the second invariant, `SleepInv`, says that a signal that is pending
and an entry of the schedule both belong to the sleep its client is in, so that
no earlier timeout can end a later sleep.

`ImplementsTimers` is the refinement: an entry is the timeout it describes
without its deadline, a client waits if it is blocked on its notification. A
step of the walk at a due entry is `Fire` (by `DueMeansElapsed` its time is
over, by `UniqueIds` the slot it signals is its client's), a SET_TIMEOUT is
`Set` (the id is fresh by `IdsInv`) or nothing if the pool is full, and every
step of a client but the wait is nothing. The step that `SysclockInv` does not
give is the cancel, as the server frees whatever id a request names. `TimersInv`
adds `OwnerInv`: an id that a client has, sends, or is about to be told is in a
slot with that client's notification, and its timeout is scheduled or retired.
So a cancel takes out a timeout of the client that sent it, or finds one that
is over. It is an assumption on applications, made by `CancelTimeout`, that a
client cancels the id it was last given: the server itself does not compare the
owner of an entry with the sender of a cancel (`src/clock.c:184`). The timeouts
are at most as many as the entries, hence the bound of `Set`.

**UdpRecvProofs** proves `TypeOK`, `NoLostWakeup`, `RemainingBound`,
`FetchedInOrder`, `PbufOwnership` and `RxBufStable`. `UdpRecvInv` adds:
`IrqInv` (who holds the interface's mutex), `RxInv` (when the rx thread has a
message), `HolderInv` (one holder of `rx_buf_avail`), `ServedInv` (an rx thread
that works does so for a thread that holds the semaphore), `BufInv` (from copy
to reply), `RemainingInv` and `IdsInv` (no two datagrams are the same one).

`ImplementsChannel` is the refinement. The datagrams that wait on a socket are
the one that was fetched and not yet read, with the rx thread or in `rx_buf`,
and those behind it in the queue. An arrival is `Accept` or `Drop`, the return
of a call with a datagram is `Take`; all that happens between leaves the
channel as it is. The argument is `OneReader`: while an rx thread works on a
request no thread of the process reads, so that there is one datagram in
flight at most, and `RxBufStable` makes it the one that is read. The limit of
the channel is not sharp, as the entry of a datagram is freed some steps after
the reply; the comment of `DatagramChannel` says which cases there are.

**UdpSendProofs** proves `TxBufStable` and `SentIffOk`. `UdpSendInv` adds
`HolderInv` (one holder of `tx_buf_avail`, whatever socket it sends on),
`ServedInv` (a tx thread works for that holder), `MsgInv` (calls in progress
have datagrams of their own) and `WireInv` (at which point of the tx thread the
datagram is on the wire), without which the error flag could be that of another
datagram.

**SerialProofs** proves `WritesIntact`, `BufferStable` and `ShortReadTimedOut`.
`SerialInv` adds `HolderInv`, `QueueInv` (the endpoint holds threads in a call,
once each), `RequestInv`, `ServingInv` (the server works for the one thread
that is served) and `WorkInv` (the bytes it reads are those of that thread's
request, the bytes it has stored are as many as its index, and the timeout it
took out of the shared buffer before it overwrites that is the request's). It
assumes that there is a UART.

**ProcessProofs** proves `AllocatedToLive`, `Exclusive` and `PidsDistinct`.
`ProcessInv` adds `PoolInv` (elements leave the pool in order and never return,
so the pid of a process is the position of its element) and `FedInv` (until a
process gets no memory at all, each that exists has some, so that deleting it
frees what it has and not the first untyped).

**UdpStackProofs** proves `OwnSocket`, `CapsMatch`, `MutexesOwned` and the
action property `StopsOnlyIf`. `StackInv` adds: `RootInv` (entries of the
lists are filled except the last, while the root thread constructs it),
`RunsInv`, `CallerInv` and `ServerInv` (a thread in a call has the socket it
works on, and the one being served is the only one that waits), `CapInv` (at
each place of the server's loop, which slot holds which cap), `SocketInv` (a
bound socket keeps the slot of its notification), `ProcSockInv` (how far each
socket of a process has got), `DistinctInv` (no two of them are one socket of
the server) and `IfaceInv`. A second invariant, `MutexInv`, is preserved where
`StackInv` holds and gives `MutexesOwned`: the holder of a process's mutex works
on its last socket, which `StackInv` says is the only one that may be
unfinished, or has failed when all were finished; and the server holds no other
interface's mutex when it takes one, so the one it releases, read from the
socket again, is the one it took. The two searches get a lemma each:
`FindClientFact`, the first entry with the id is the process's own even if the
unfinished last one holds the same number, and `FindIfaceFact`, the interface
found has the address, for which the existence of a largest index comes from
the well-foundedness of `<`. The junk in unfinished entries is arbitrary.

**PoolProofs** proves `PoolPartition` about `PoolSpec`: no element of a pool is
handed out twice, and none is lost, whatever is freed, also twice and by
content. That needs a finite set of elements, and that `init_fn` writes a legal
content.

It proves `ListsSound` and `ImplementsPool` of `SimplePool`. The inductive
invariant `ListInv` says that there are two sequences of nodes which share none
and together have all, that each is a chain (the first node is the list's head,
`next` and `prev` of neighbours agree, the ends are NULL) and that the sizes are
their lengths. `InsertChain` and `UnlinkChain` say what the two list operations
do to a chain, `MoveChain` what an allocation or a free does to both. The walk
along a list and the construction of a pool are recursive functions, for which
the prover has no induction over an operator; `WalkIs` and `NewListIs` exhibit
the function that satisfies the equation, and a least argument at which another
could differ leads to a contradiction.

Of `Thread` it proves `TidsDistinct`. `ThreadInv` adds `PoolInv` (the free
elements are those after `size`, in order, until one is handed out twice) and
`SoloInv` (without overlap, one creation is under way and the tid it reads is
the position of its element).

**SyslogProofs** proves `BufferStable` and `LinesWhole`. `SyslogInv` adds
`LockInv` (a thread inside `__syslog_logMessage` has the mutex), `EarlyInv`
(before there is a mutex only the first thread runs, and the console is not a
UART), `RequestInv` and `LineInv` (while nobody switches the console during a
message, a line without its newline stands on the console only, and its thread
is about to write it). It assumes that threads of the root task, the two servers
and the clients are different threads.

**Only model-checked:**
- liveness, as fairness and `ENABLED` are beyond the prover: `SleepReturns`,
  `OneShotRetires`, `CallsAnswered`, `EventuallyFetched`, `SendReturns`,
  `CallsReturn` (of `Serial`, `UdpStack`, `Syslog`), `SpawnReturns`,
  `JoinReturns`, `StopEnds` and `ExitReported`.

Every invariant, every action property and every refinement that a passing run
checks is also proved.

## 5. Findings

Two places where a document says something else than the code does; each has a
run whose counterexample shows it.

1. **`ReadIsInput`** (`src/io.c:126`): a read stores its first byte in all
   positions, as `ret` is not set back to EOF.
2. **`TableNamesOwner`** (`src/process.c:341`): deleting a process that got no
   memory marks the first untyped free, whoever has it. Until a process is
   created with nothing, `Exclusive` holds.

Several properties hold with an exception that the property names; the
exception is what the code does, not a limit of the model:

- `DueMeansElapsed`: a deadline that overflows the 32-bit clock
  (`src/clock.c:244`) is smaller than the time, and the timeout fires at the
  next tick, whereas `docs/design.md:402` speaks of `timeout_ms`.
- `SpawnReturns`: not if the process faults before the handshake.
- `StopsOnlyIf` of `UdpStack`: an exhausted pool of sockets, an address that no
  interface has, a port in use, a socket bound by two threads at once, and an
  interface under construction each stop the server of all processes; a port
  in use stops it with the interface's mutex held (`src/udp.c:412`).
- `IfaceServes` (in `OwnSocket`): an address that no interface has is silently served by the
  interface of the socket created before.
- `CallsReturn` of `UdpStack`: a create that the server never answers, because
  it has stopped (`src/udp.c:301`, for instance), or whose own assert fails as
  the process has no socket left (`src/udp.c:507`), keeps the mutex of its
  process. Every thread of the process that then creates a socket or sends and
  receives by socket id (`src/udp.c:504`, `716`) waits for good, although the
  sockets it already has are served as before. A port in use stops the sends on
  that interface too.
- `CallsAnswered`: the slots of the SysClock server run out
  (`src/clock.c:270`). That the assert in `sel4osapi_thread_sleep` holds is
  shown for a schedule with an entry per sleeper; with fewer it fails
  (`src/thread.c:226`).
- `TidsDistinct`: two creations that overlap may get one tid, or one element;
  `thread.h:28` calls the tid unique.
- `ExitReported`: a monitor may take the exit message, and
  `sel4osapi_process_join` then waits for good.
- `LinesWhole`: the console is switched without the
  log's mutex (`log.h:169`).
- `CallsReturn` of `Syslog`: the SysClock server logs that its schedule is full
  (`src/clock.c:231`) while the serial server, in a read, waits for the time
  (`src/io.c:127`); neither answers any more. And a console switched before the
  serial server has traced its start (`src/io.c:62`) makes it wait for itself.

Seen while modelling, without a property: lwIP is not entered by one thread at
a time. `udp_new` (`src/udp.c:305`) is called with no mutex while the interrupt
thread may be inside lwIP, and with a second interface `udp_bind` runs under
another mutex than the first's interrupt thread, where `docs/design.md:815` has
one mutex to protect access to the stack, which `src/udp.c:469` creates and
nothing locks; what comes of it is decided in lwIP's
lists of control blocks. The flag that a cancel returns
(`src/clock.c:201`, described at `docs/design.md:455`) is computed from a
variable no path sets, and no client looks at it; deletion does not return a
process to its pool (`src/process.c:331`), on which `PidsDistinct` depends;
`src/udp.c:138` signals a receiver also when the datagram was dropped and when
the queue has been emptied since, so `sel4osapi_udp_recv` returns without data;
a process may get less memory than the minimum `docs/design.md:1085` speaks of
(`src/process.c:48`); `tx_buf` is mapped with the page count of `rx_buf`
(`src/process.c:128`); deletion of a process revokes slots by numbers of another
CSpace and unmaps an address that is never set (`src/process.c:339-344`); the
length of a datagram is compared with `rx_buf` after the copy
(`src/udp.c:159`); a stop before a thread's wrapper has run is forgotten
(`src/thread.c:178`); `lwip_init` runs again for each further interface
(`src/network.c:152`).

## 6. Not modelled, and the plan

Not modelled: page tables and CSpaces (library calls that succeed or stop the
task), the network driver and lwIP behind `udprecv`, `udp_bind` and
`udp_sendto`, the bootstrap (straight-line, before any second thread runs), the
text of messages, `UDPSTACK_CONNECT_SOCKET` (it changes nothing the library
reads and has no client), and the notification protocol inside libsel4sync,
which is not in this repository.

Next: the pools inside `Process` and `Thread` as instances of `PoolSpec`. Both
take elements in order and never return one, and `Thread` splits the allocation
at the point where two creations can overlap; up to that point it is `Alloc`.
