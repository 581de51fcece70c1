------------------------------ MODULE UdpStack ------------------------------
(***************************************************************************)
(* Creation and binding of UDP sockets: the stack server of the root task  *)
(* (sel4osapi_udp_stack_thread, src/udp.c), the threads of the processes   *)
(* that call it, and the lists it searches, which the root task's own      *)
(* thread extends without a lock (src/ipc.c, src/network.c).               *)
(*                                                                         *)
(* A socket exists twice: in the process (psock), with endpoints to call,  *)
(* and in the server (sockets).  Caps travel in messages and land in slots *)
(* of the receiver.  A failed assert stops the server.  An action ends     *)
(* where another thread can see or change what it used; the server's walk  *)
(* of a list is one action, as lists only grow at their end.               *)
(* UDPSTACK_CONNECT_SOCKET changes nothing and no client sends it.         *)
(***************************************************************************)
EXTENDS Integers, Sequences, FiniteSets

CONSTANTS
  MaxProcesses, \* SEL4OSAPI_USER_PROCESS_MAX
  Threads,      \* their threads
  ProcessOf,    \* the process of a thread
  Addrs,        \* IP addresses
  DefaultAddr,  \* SEL4OSAPI_IP_ADDR_DEFAULT
  RequestAddrs, \* the addresses sockets are created on, AnyAddr among them
  Ports,        \* UDP ports that are bound to
  JunkPids,     \* what an entry that is not yet filled may hold for a pid,
  JunkIds,      \*   and for the id of a socket
  MaxIfaces,    \* SEL4OSAPI_NET_PHYS_IFACES
  MaxSockets,   \* SEL4OSAPI_UDP_MAX_SOCKETS
  MaxCalls      \* bound of the model: calls that threads begin

None == "none"      \* no thread, no address
AnyAddr == "any"    \* address 0
Processes == 1 .. MaxProcesses   \* by pid: the n-th to be created has pid n

ASSUME ThreadsAssumption ==
  /\ ProcessOf \in [Threads -> Processes]
  /\ None \notin Threads \cup Addrs
  /\ AnyAddr \notin Addrs
ASSUME NetAssumption ==
  /\ DefaultAddr \in Addrs
  /\ RequestAddrs \subseteq Addrs \cup {AnyAddr}
  /\ Ports \subseteq Nat \ {0}
ASSUME BoundsAssumption ==
  /\ MaxProcesses \in Nat \ {0}
  /\ MaxIfaces \in Nat \ {0}
  /\ MaxSockets \in Nat \ {0}
  /\ MaxCalls \in Nat
ASSUME JunkAssumption ==
  /\ JunkPids \subseteq Processes \cup {0}
  /\ JunkIds \subseteq 0 .. MaxSockets

VARIABLES
  rpc,      \* what the root thread constructs: "run", "client" or "iface"
  clients,  \* net->ipc->clients->entries: the id of each client
  ifaces,   \* net->ifaces->entries: the address of each one's virtual interface
  mutex,    \* who holds the mutex of an interface: "free", "stack" or "irq"
  psock,    \* sockets of a process, udp_iface.sockets->entries
  pmutex,   \* the thread that holds a process's udp_iface.mutex
  tpc,      \* where a thread is
  arg,      \* its arguments: index of its socket, port, socket id
  calls,    \* calls begun so far, up to MaxCalls
  spc,      \* where the server is
  rq,       \* the thread whose request it serves
  lclient,  \* its locals client, iface and socket_server, kept between requests
  liface,
  lserver,
  sockets,  \* udp->socket_servers->entries; the id of a socket is its index
  slots,    \* the caps in the slots it allocated
  mint,     \* rx_ready_ep_mint
  path      \* the slot that receives the next cap

rootVars == <<rpc, clients, ifaces>>
procVars == <<psock, pmutex, tpc, arg, calls>>
localVars == <<lclient, liface, lserver>>
capVars == <<slots, mint, path>>
serverVars == <<spc, rq, localVars, sockets, capVars>>
vars == <<rootVars, mutex, procVars, serverVars>>

Ids == 0 .. MaxSockets                     \* ids of sockets; 0 is none
Ifaces == 1 .. MaxIfaces
Caps == [kind : {"none", "aep", "ep"}, sock : Ids, by : Threads \cup {None}]
NoCap == [kind |-> "none", sock |-> 0, by |-> None]
NoArg == [index |-> 0, port |-> 0, sd |-> 0]

TypeOK ==
  /\ rpc \in {"run", "client", "iface"}
  /\ clients \in Seq(Processes \cup {0})
  /\ Len(clients) <= MaxProcesses
  /\ ifaces \in Seq(Addrs \cup {None})
  /\ Len(ifaces) \in Ifaces
  /\ mutex \in [Ifaces -> {"free", "stack", "irq"}]
  /\ psock \in [Processes -> Seq([id : Ids, addr : RequestAddrs, port : Ports \cup {0},
                  tx : Ids, aep : Threads \cup {None}, rx : Threads \cup {None},
                  got : [Threads -> Ids]])]
  /\ pmutex \in [Processes -> Threads \cup {None}]
  /\ tpc \in [Threads -> {"run", "create_lock", "create", "bind", "sd_lock", "send",
                          "waiting", "aborted"}]
  /\ arg \in [Threads -> [index : Ids, port : Ports \cup {0}, sd : Ids]]
  /\ calls \in 0 .. MaxCalls
  /\ spc \in {"recv", "create", "new", "start_tx", "bind", "lock", "pcb",
              "bound", "start_rx", "aborted"}
  /\ rq \in Threads \cup {None}
  /\ lclient \in 0 .. Len(clients)
  /\ liface \in 0 .. Len(ifaces)
  /\ lserver \in 0 .. Len(sockets)
  /\ sockets \in Seq([addr : RequestAddrs, iface : Ifaces, found : BOOLEAN,
                  client : Processes, port : Ports \cup {0}, aep : Nat, ep : Ids,
                  msgs : BOOLEAN, recv : BOOLEAN, bound : BOOLEAN,
                  tx : BOOLEAN, rx : BOOLEAN])
  /\ Len(sockets) <= MaxSockets
  /\ slots \in Seq(Caps)
  /\ mint \in DOMAIN slots
  /\ path \in DOMAIN slots

\* sel4osapi_network_initialize made one interface with the default address;
\* the server has set its first receive slot.
Init ==
  /\ rpc = "run"
  /\ clients = << >>
  /\ ifaces = <<DefaultAddr>>
  /\ mutex = [f \in Ifaces |-> "free"]
  /\ psock = [p \in Processes |-> << >>]
  /\ pmutex = [p \in Processes |-> None]
  /\ tpc = [t \in Threads |-> "run"]
  /\ arg = [t \in Threads |-> NoArg]
  /\ calls = 0
  /\ spc = "recv"
  /\ rq = None
  /\ lclient = 0 /\ liface = 0 /\ lserver = 0
  /\ sockets = << >>
  /\ slots = <<NoCap>>
  /\ mint = 1
  /\ path = 1

-----------------------------------------------------------------------------
(* The root thread.  An element is in its list before it is filled; until  *)
(* then its fields hold what malloc returned.                              *)

\* sel4osapi_ipc_create_client, in sel4osapi_process_create.
ClientAlloc(junk) ==
  /\ rpc = "run"
  /\ Len(clients) < MaxProcesses
  /\ clients' = Append(clients, junk)
  /\ rpc' = "client"
  /\ UNCHANGED <<ifaces, mutex, procVars, serverVars>>

ClientInit ==
  /\ rpc = "client"
  /\ clients' = [clients EXCEPT ![Len(clients)] = Len(clients)]
  /\ rpc' = "run"
  /\ UNCHANGED <<ifaces, mutex, procVars, serverVars>>

\* An additional interface: sel4osapi_network_create_interface, and then
\* sel4osapi_netiface_add_vface with its address.
IfaceAlloc ==
  /\ rpc = "run"
  /\ Len(ifaces) < MaxIfaces
  /\ ifaces' = Append(ifaces, None)
  /\ rpc' = "iface"
  /\ UNCHANGED <<clients, mutex, procVars, serverVars>>

IfaceInit(a) ==
  /\ rpc = "iface"
  /\ ifaces' = [ifaces EXCEPT ![Len(ifaces)] = a]
  /\ rpc' = "run"
  /\ UNCHANGED <<clients, mutex, procVars, serverVars>>

\* A process runs once it is created.
Registered(p) == p \in DOMAIN clients /\ (rpc = "client" => p # Len(clients))

-----------------------------------------------------------------------------
(* The threads of the processes.                                           *)

Owned(t) == psock[ProcessOf[t]]
Enter(t, from, to) == tpc[t] = from /\ tpc' = [tpc EXCEPT ![t] = to]
Begin(t, to) ==
  /\ calls < MaxCalls
  /\ calls' = calls + 1
  /\ Enter(t, "run", to)

NewSocket(a, junk) == [id |-> junk, addr |-> a, port |-> 0, tx |-> 0,
  aep |-> None, rx |-> None, got |-> [t \in Threads |-> 0]]

\* sel4osapi_udp_create_socket begins, and waits for the process's mutex.
CreateSocket(t) ==
  /\ Registered(ProcessOf[t])
  /\ Begin(t, "create_lock")
  /\ UNCHANGED <<rootVars, mutex, psock, pmutex, arg, serverVars>>

\* It has the mutex, allocates a socket on the address it was called with (the
\* id is whatever the memory held) and calls the server, still with the mutex.
AllocSocket(t, a, junk) ==
  LET p == ProcessOf[t] IN
  /\ pmutex[p] = None
  /\ pmutex' = [pmutex EXCEPT ![p] = t]
  /\ IF Len(psock[p]) < MaxSockets
     THEN /\ Enter(t, "create_lock", "create")
          /\ psock' = [psock EXCEPT ![p] = Append(@, NewSocket(a, junk))]
          /\ arg' = [arg EXCEPT ![t].index = Len(psock[p]) + 1]
     ELSE Enter(t, "create_lock", "aborted") /\ UNCHANGED <<psock, arg>>
  /\ UNCHANGED <<rootVars, mutex, calls, serverVars>>

\* The sockets that sel4osapi_udp_create_socket has returned.
Made(p) == {i \in DOMAIN psock[p] : psock[p][i].tx # 0}

\* sel4osapi_udp_bind, without the mutex: a notification and a receive slot of
\* this call are stored in the socket, and a copy of the first is sent.
Bind(t, i, port) ==
  LET p == ProcessOf[t] IN
  /\ i \in Made(p)
  /\ psock[p][i].port = 0
  /\ Begin(t, "bind")
  /\ psock' = [psock EXCEPT ![p][i].aep = t, ![p][i].rx = t]
  /\ arg' = [arg EXCEPT ![t] = [index |-> i, port |-> port, sd |-> psock[p][i].id]]
  /\ UNCHANGED <<rootVars, mutex, pmutex, serverVars>>

\* sel4osapi_udp_send_sd with the id of a finished socket begins, and waits for
\* the process's mutex; so does sel4osapi_udp_recv_sd.
SendSd(t, sd) ==
  LET p == ProcessOf[t] IN
  /\ \E i \in Made(p) : psock[p][i].id = sd
  /\ Begin(t, "sd_lock")
  /\ arg' = [arg EXCEPT ![t].sd = sd]
  /\ UNCHANGED <<rootVars, mutex, psock, pmutex, serverVars>>

\* sel4osapi_udp_sd_to_socket, under the mutex, finds the first socket with the
\* id; then its tx endpoint is called.
SdToSocket(t) ==
  LET p == ProcessOf[t] IN
  /\ Enter(t, "sd_lock", "send")
  /\ pmutex[p] = None
  /\ \E i \in DOMAIN psock[p] :
       /\ psock[p][i].id = arg[t].sd
       /\ \A j \in 1 .. i - 1 : psock[p][j].id # arg[t].sd
       /\ arg' = [arg EXCEPT ![t].index = i]
  /\ UNCHANGED <<rootVars, mutex, calls, psock, pmutex, serverVars>>

\* The tx thread of the socket, once started, takes the interface's mutex,
\* sends and replies.
TxServe(t) ==
  LET s == Owned(t)[arg[t].index].tx IN
  /\ Enter(t, "send", "run")
  /\ s # 0
  /\ sockets[s].tx
  /\ mutex[sockets[s].iface] = "free"
  /\ arg' = [arg EXCEPT ![t] = NoArg]
  /\ UNCHANGED <<rootVars, mutex, calls, psock, pmutex, serverVars>>

-----------------------------------------------------------------------------
(* The server.                                                             *)

Abort == spc' = "aborted" /\ UNCHANGED <<rq, sockets, capVars>>

\* Receives any waiting request.  The cap of a bind lands in the slot `path';
\* if that is in use the kernel leaves it out and the count of caps is wrong.
ServerRecv(t) ==
  /\ spc = "recv"
  /\ \/ /\ Enter(t, "create", "waiting")
        /\ spc' = "create" /\ rq' = t
        /\ UNCHANGED <<sockets, capVars>>
     \/ /\ Enter(t, "bind", "waiting")
        /\ IF slots[path] = NoCap
           THEN /\ slots' = [slots EXCEPT
                     ![path] = [kind |-> "aep", sock |-> arg[t].sd, by |-> t]]
                /\ spc' = "bind" /\ rq' = t
                /\ UNCHANGED <<sockets, mint, path>>
           ELSE Abort
  /\ UNCHANGED <<rootVars, mutex, calls, psock, pmutex, arg, localVars>>

Last(S) == CHOOSE n \in S : \A m \in S : m <= n
First(S) == CHOOSE n \in S : \A m \in S : n <= m

\* Mutant of FindClient: the search goes on after a match.
FindClientLast(p) ==
  LET C == {c \in DOMAIN clients : clients[c] = p}
  IN  IF C = {} THEN lclient ELSE Last(C)

\* The first client with the id; without one `client' is what it was.
FindClient(p) ==
  LET C == {c \in DOMAIN clients : clients[c] = p}
  IN  IF C = {} THEN lclient ELSE First(C)

\* The interfaces whose virtual interface has address a.  In one that is not
\* yet filled the search may find anything.
Matches(a, wild) ==
  {f \in DOMAIN ifaces : IF ifaces[f] = None THEN wild ELSE a \in {AnyAddr, ifaces[f]}}

\* The last interface that matches (only the inner loop breaks); without one
\* `iface' is what it was.
FindIface(a, wild) ==
  IF Matches(a, wild) = {} THEN liface ELSE Last(Matches(a, wild))

\* UDPSTACK_CREATE_SOCKET up to udp_new, with its three asserts.
ServeCreate(wild) ==
  LET p == ProcessOf[rq]
      a == Owned(rq)[arg[rq].index].addr
      c == FindClient(p)
      f == FindIface(a, wild)
  IN
  /\ spc = "create"
  /\ lclient' = c
  /\ liface' = f
  /\ IF c # 0 /\ f # 0 /\ Len(sockets) < MaxSockets
     THEN /\ sockets' = Append(sockets,
               [addr |-> a, iface |-> f, client |-> c,
                found |-> rpc # "iface" /\ Matches(a, wild) # {},
                port |-> 0, aep |-> 0, ep |-> 0, msgs |-> FALSE, recv |-> FALSE,
                bound |-> FALSE, tx |-> FALSE, rx |-> FALSE])
          /\ lserver' = Len(sockets) + 1
          /\ spc' = "new"
          /\ UNCHANGED <<rq, capVars>>
     ELSE Abort /\ UNCHANGED lserver
  /\ UNCHANGED <<rootVars, mutex, procVars>>

\* Its walk reads the list of an interface that has none yet.
ServeCreateFault ==
  /\ spc = "create"
  /\ \E f \in DOMAIN ifaces : ifaces[f] = None
  /\ Abort
  /\ UNCHANGED <<rootVars, mutex, procVars, localVars>>

\* Every socket has a control block of lwIP, of which there are as many as the
\* pool has sockets (SEL4OSAPI_UDP_MAX_SOCKETS is MEMP_NUM_UDP_PCB).
PcbsLeft == Len(sockets) <= MaxSockets

\* udp_new, which the server enters with no mutex, and its assert; then the
\* reply, with the id and a cap of the tx endpoint, and what the caller does
\* with it: it stores both and releases the process's mutex.
ReplyCreate ==
  LET p == ProcessOf[rq] IN
  /\ spc = "new"
  /\ IF PcbsLeft
     THEN /\ spc' = "start_tx"
          /\ Enter(rq, "waiting", "run")
          /\ psock' = [psock EXCEPT ![p][arg[rq].index].tx = lserver,
                                    ![p][arg[rq].index].id = lserver]
          /\ pmutex' = [pmutex EXCEPT ![p] = None]
          /\ arg' = [arg EXCEPT ![rq] = NoArg]
     ELSE spc' = "aborted" /\ UNCHANGED <<tpc, psock, pmutex, arg>>
  /\ UNCHANGED <<rootVars, mutex, calls, rq, localVars, sockets, capVars>>

\* Mutant of TxRuns: the tx thread is created and not started.
TxRunsNot == FALSE

TxRuns == TRUE

\* The thread is started after the reply.
StartTx ==
  /\ spc = "start_tx"
  /\ sockets' = [sockets EXCEPT ![lserver].tx = TxRuns]
  /\ spc' = "recv" /\ rq' = None
  /\ UNCHANGED <<rootVars, mutex, procVars, localVars, capVars>>

\* Mutant of RxCap: of the socket that the request before was about.
RxCapStale(s) == [kind |-> "ep", sock |-> lserver, by |-> None]

\* The cap of the rx endpoint of a socket.
RxCap(s) == [kind |-> "ep", sock |-> s, by |-> None]

\* UDPSTACK_BIND_SOCKET up to the lock: queue, mutex and rx thread are made,
\* the received notification is stored, and the slot variable is reused for a
\* copy of the rx endpoint.
ServeBind ==
  LET sd == arg[rq].sd
      s == IF sd \in DOMAIN sockets THEN sd ELSE lserver
  IN
  /\ spc = "bind"
  /\ lserver' = s
  /\ IF s # 0 /\ sockets[s].port = 0
     THEN /\ sockets' = [sockets EXCEPT ![s].msgs = TRUE, ![s].aep = mint,
                                        ![s].port = arg[rq].port, ![s].ep = s]
          /\ slots' = Append(slots, RxCap(s))
          /\ mint' = Len(slots) + 1
          /\ spc' = "lock"
          /\ UNCHANGED <<rq, path>>
     ELSE Abort
  /\ UNCHANGED <<rootVars, mutex, procVars, lclient, liface>>

BindLock ==
  /\ spc = "lock"
  /\ mutex[sockets[lserver].iface] = "free"
  /\ mutex' = [mutex EXCEPT ![sockets[lserver].iface] = "stack"]
  /\ spc' = "pcb"
  /\ UNCHANGED <<rootVars, procVars, rq, localVars, sockets, capVars>>

\* lwIP's udp_bind: the port is taken, on the same address or on any.
InUse(s) == \E o \in DOMAIN sockets \ {s} :
  /\ sockets[o].bound
  /\ sockets[o].port = sockets[s].port
  /\ \/ sockets[o].addr = sockets[s].addr
     \/ AnyAddr \in {sockets[o].addr, sockets[s].addr}

\* Mutant of BoundIface: of the request before.
BoundIfaceStale == liface

\* The interface whose mutex is released.
BoundIface == sockets[lserver].iface

\* udp_recv, udp_bind and the assert on its result, all under the mutex.
BindPcb ==
  /\ spc = "pcb"
  /\ IF InUse(lserver)
     THEN /\ sockets' = [sockets EXCEPT ![lserver].recv = TRUE]
          /\ spc' = "aborted"
          /\ UNCHANGED mutex
     ELSE /\ sockets' = [sockets EXCEPT ![lserver].recv = TRUE, ![lserver].bound = TRUE]
          /\ mutex' = [mutex EXCEPT ![BoundIface] = "free"]
          /\ spc' = "bound"
  /\ UNCHANGED <<rootVars, procVars, rq, localVars, capVars>>

\* The reply, with the copy of the rx endpoint, and what the caller does with
\* it: the cap is in its slot and the port in the socket.  A thread that finds
\* the port still 0 between the two might as well have looked before.
ReplyBind ==
  LET p == ProcessOf[rq] IN
  /\ spc = "bound"
  /\ spc' = "start_rx"
  /\ Enter(rq, "waiting", "run")
  /\ psock' = [psock EXCEPT ![p][arg[rq].index].got[rq] = slots[mint].sock,
                            ![p][arg[rq].index].port = arg[rq].port]
  /\ arg' = [arg EXCEPT ![rq] = NoArg]
  /\ UNCHANGED <<rootVars, mutex, calls, pmutex, rq, localVars, sockets, capVars>>

\* Mutant of NextPath: the receive path is not moved to the new slot.
NextPathSame == path

NextPath == Len(slots) + 1

\* Starts the rx thread and allocates the slot for the next request's cap.
StartRx ==
  /\ spc = "start_rx"
  /\ sockets' = [sockets EXCEPT ![lserver].rx = TRUE]
  /\ slots' = Append(slots, NoCap)
  /\ mint' = Len(slots) + 1
  /\ path' = NextPath
  /\ spc' = "recv" /\ rq' = None
  /\ UNCHANGED <<rootVars, mutex, procVars, localVars>>

-----------------------------------------------------------------------------
\* sel4osapi_eth_irq1_thread of the first interface, the only one that is
\* started, takes and releases its mutex around lwIP.
IrqLock ==
  /\ mutex[1] = "free"
  /\ mutex' = [mutex EXCEPT ![1] = "irq"]
  /\ UNCHANGED <<rootVars, procVars, serverVars>>

IrqUnlock ==
  /\ mutex[1] = "irq"
  /\ mutex' = [mutex EXCEPT ![1] = "free"]
  /\ UNCHANGED <<rootVars, procVars, serverVars>>

-----------------------------------------------------------------------------
RootNext ==
  \/ \E junk \in JunkPids : ClientAlloc(junk)
  \/ ClientInit
  \/ IfaceAlloc
  \/ \E a \in Addrs \ {DefaultAddr} : IfaceInit(a)

BeginNext(t) ==
  \/ CreateSocket(t)
  \/ \E i \in Ids, port \in Ports : Bind(t, i, port)
  \/ \E sd \in Ids : SendSd(t, sd)

\* Thread t gets the mutex of its process.
LockNext(t) ==
  \/ \E a \in RequestAddrs, junk \in JunkIds : AllocSocket(t, a, junk)
  \/ SdToSocket(t)

ServerNext ==
  \/ \E t \in Threads : ServerRecv(t)
  \/ \E wild \in BOOLEAN : ServeCreate(wild)
  \/ ServeCreateFault
  \/ ReplyCreate \/ StartTx
  \/ ServeBind \/ BindLock \/ BindPcb \/ ReplyBind \/ StartRx

\* The threads in a call and the server that serves it.
Work == ServerNext \/ \E t \in Threads : LockNext(t) \/ TxServe(t)

Next ==
  \/ RootNext
  \/ \E t \in Threads : BeginNext(t)
  \/ Work
  \/ IrqLock
  \/ IrqUnlock

Spec == Init /\ [][Next]_vars

\* Work that can be done again and again is done, whoever does it, and the
\* interrupt thread releases the mutex.  Nothing begins by itself.
Fairness == SF_vars(Work) /\ WF_vars(IrqUnlock)

FairSpec == Spec /\ Fairness

-----------------------------------------------------------------------------
(* Properties.                                                             *)

\* A process's socket and the server's are the same one: the id names a socket
\* server with the address asked for, which sends from and receives into the
\* buffers of that very process and not of another; no two share an id.  This
\* holds although clients are registered while the server searches them.
SameSocket ==
  \A p \in Processes : \A i \in Made(p) :
    LET s == psock[p][i].id IN
    /\ s \in DOMAIN sockets
    /\ sockets[s].addr = psock[p][i].addr
    /\ sockets[s].client = p
    /\ psock[p][i].tx = s
    /\ \A q \in Processes : \A j \in Made(q) :
         psock[q][j].id = s => q = p /\ j = i

\* A socket whose address was found is on an interface with that address.  It
\* is not when the address is nowhere (then the interface of the socket
\* before it is taken) or when the root thread fills an entry at that moment.
IfaceServes ==
  \A s \in DOMAIN sockets :
    sockets[s].found => sockets[s].addr \in {AnyAddr, ifaces[sockets[s].iface]}

\* Looking a socket up by its id yields the finished socket with that id, not
\* one that another thread is creating and whose id is still arbitrary.
SdFindsSocket ==
  \A t \in Threads : tpc[t] = "send" =>
    Owned(t)[arg[t].index].id = arg[t].sd /\ Owned(t)[arg[t].index].tx = arg[t].sd

\* The socket that a call of a process returns or finds is its own, with the
\* address and the buffers it is to have: the three above, and the types.
OwnSocket == TypeOK /\ SameSocket /\ IfaceServes /\ SdFindsSocket

\* Once a process's socket is bound, the server signals the notification the
\* socket waits on, and the endpoint it calls is the one its rx thread serves:
\* the slot that caps arrive in is never the one of another socket.  Only
\* a second thread that binds the same socket breaks this.
BoundCapsMatch ==
  \A p \in Processes : \A i \in DOMAIN psock[p] :
    LET c == psock[p][i]
        s == sockets[c.id]
        alone == \A t, u \in Threads :
          (ProcessOf[t] = p /\ ProcessOf[u] = p /\ t # u /\ c.got[t] # 0) =>
            ~(tpc[u] \in {"bind", "waiting"} /\ arg[u].index = i)
    IN  c.port # 0 /\ alone =>
          /\ slots[s.aep] = [kind |-> "aep", sock |-> c.id, by |-> c.aep]
          /\ c.got[c.rx] = s.ep
          /\ s.port = c.port

\* From the moment lwIP may call udprecv for a socket, its queue and its
\* mutex exist and its notification is there to signal.
CallbackReady ==
  \A s \in DOMAIN sockets :
    sockets[s].recv => sockets[s].msgs /\ slots[sockets[s].aep].kind = "aep"

\* Reception on a socket finds what it needs, while it is bound and after: the
\* two above.
CapsMatch == CallbackReady /\ BoundCapsMatch

\* A process's mutex, which sel4osapi_udp_create_socket keeps across its call
\* of the server, is with a thread of the process whose request is waiting, is
\* being served or was cut off when the server stopped, or whose assert has
\* failed as the process has no socket left; and a socket that is not finished
\* is the one its holder works on.
ProcessMutexOwned ==
  \A p \in Processes :
    LET h == pmutex[p] IN
    /\ h # None =>
         /\ ProcessOf[h] = p
         /\ \/ tpc[h] = "create"
            \/ tpc[h] = "waiting" /\ spc = "aborted"
            \/ tpc[h] = "waiting" /\ rq = h /\ spc \in {"create", "new"}
            \/ tpc[h] = "aborted" /\ Len(psock[p]) = MaxSockets
    /\ \A i \in DOMAIN psock[p] \ Made(p) :
         h # None /\ tpc[h] # "aborted" /\ arg[h].index = i

\* The server has the mutex of an interface only while it binds a socket of
\* that very interface, or for good if its port was in use.
IfaceMutexOwned ==
  \A f \in Ifaces : mutex[f] = "stack" =>
    /\ lserver # 0
    /\ sockets[lserver].iface = f
    /\ spc = "pcb" \/ (spc = "aborted" /\ InUse(lserver))

\* No mutex is left behind, on any path through the calls and the server: the
\* two above.
MutexesOwned == ProcessMutexOwned /\ IfaceMutexOwned

\* The server stops only for one of five reasons: no socket is left in the
\* pool that all processes share; no interface has the address, and none
\* was ever found before; an interface under construction is walked; another
\* thread bound the socket during this call; the port is in use.  So the
\* assert on udp_new holds.
StopsOnlyIf ==
  [][spc # "aborted" /\ spc' = "aborted" =>
       \/ spc = "create" /\ Len(sockets) = MaxSockets
       \/ spc = "create" /\ sockets = << >> /\
            \A f \in DOMAIN ifaces : ifaces[f] # Owned(rq)[arg[rq].index].addr
       \/ spc = "create" /\ rpc = "iface"
       \/ spc = "bind" /\ \E u \in Threads \ {rq} :
            ProcessOf[u] = ProcessOf[rq] /\ Owned(rq)[arg[rq].index].got[u] # 0
       \/ spc = "pcb" /\ \E o \in DOMAIN sockets \ {lserver} :
            sockets[o].bound /\ sockets[o].port = sockets[lserver].port]_vars

\* When no more calls begin, every call has returned, also a send that came
\* before its tx thread ran, except: a create or bind when the server has
\* stopped; a send when it has stopped with the mutex of that socket's
\* interface; and who waits for the process's mutex, to create a socket or to
\* look one up, when it is with a thread whose create is never answered or
\* whose assert has failed.
CallsReturn ==
  <>[](\A t \in Threads :
         LET h == pmutex[ProcessOf[t]] IN
         \/ tpc[t] \in {"run", "aborted"}
         \/ tpc[t] \in {"create", "bind", "waiting"} /\ spc = "aborted"
         \/ /\ tpc[t] = "send" /\ spc = "aborted"
            /\ mutex[sockets[Owned(t)[arg[t].index].tx].iface] = "stack"
         \/ /\ tpc[t] \in {"create_lock", "sd_lock"} /\ h # None
            /\ "aborted" \in {tpc[h], spc})
=============================================================================
