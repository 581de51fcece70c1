--------------------------- MODULE UdpStackProofs ---------------------------
(***************************************************************************)
(* Safety of the UDP stack server for any number of processes, threads,    *)
(* sockets, interfaces and addresses, and whatever the entries hold that   *)
(* the root thread is still constructing.                                  *)
(*                                                                         *)
(* StackInv adds to the properties: what is known of the lists while they  *)
(* grow (RootInv); that a thread in a call has the socket it works on, and *)
(* that only the one being served waits (CallerInv, ServerInv); where the  *)
(* caps are at each place of the server's loop (CapInv); that a bound      *)
(* socket keeps the slot of its notification (SocketInv); how far each     *)
(* socket of a process has got (ProcSockInv).  MutexInv says who has which *)
(* mutex; it is preserved where StackInv holds.                            *)
(***************************************************************************)
EXTENDS UdpStack, SequenceTheorems, WellFoundedInduction, TLAPS

Creating == {"create", "new"}
Bound == {"lock", "pcb", "bound"}      \* the request's socket has its port
Binding == {"bind"} \cup Bound

\* Entries of the lists are filled, except the one under construction.
RootInv ==
  /\ rpc = "client" => clients # << >>
  /\ \A c \in DOMAIN clients : clients[c] = c \/ (rpc = "client" /\ c = Len(clients))
  /\ \A f \in DOMAIN ifaces : ifaces[f] = None <=> rpc = "iface" /\ f = Len(ifaces)

\* Sockets are on interfaces that exist.
IfaceInv == \A s \in DOMAIN sockets : sockets[s].iface \in DOMAIN ifaces

\* Thread t creates the last socket of its process, under the mutex.
Creates(t) ==
  LET p == ProcessOf[t] IN
  /\ pmutex[p] = t
  /\ arg[t].index = Len(psock[p])
  /\ Len(psock[p]) # 0
  /\ psock[p][Len(psock[p])].tx = 0

\* Thread t binds a finished socket, which it has not bound before.
Binds(t) ==
  LET p == ProcessOf[t]
      i == arg[t].index
  IN  /\ i \in DOMAIN psock[p]
      /\ psock[p][i].tx # 0
      /\ psock[p][i].id = arg[t].sd
      /\ psock[p][i].got[t] = 0
      /\ psock[p][i].aep # None
      /\ arg[t].port # 0

\* Thread t sends on the socket that it looked up.
Sends(t) ==
  LET p == ProcessOf[t]
      i == arg[t].index
  IN  /\ i \in DOMAIN psock[p]
      /\ psock[p][i].id = arg[t].sd
      /\ psock[p][i].tx = arg[t].sd
      /\ arg[t].sd # 0

CallerAt(t) ==
  /\ tpc[t] = "create" => Creates(t)
  /\ tpc[t] = "bind" => Binds(t)
  /\ tpc[t] = "send" => Sends(t)
  /\ tpc[t] = "waiting" => spc = "aborted" \/ (spc \in Creating \cup Binding /\ rq = t)

CallerInv == \A t \in Threads : CallerAt(t)

\* Only processes that are registered have sockets and make calls.
RunsInv ==
  /\ \A p \in Processes : Len(psock[p]) # 0 => Registered(p)
  /\ \A t \in Threads : tpc[t] # "run" => Registered(ProcessOf[t])

ServerInv ==
  /\ spc \in Creating \cup Binding => rq \in Threads /\ tpc[rq] = "waiting"
  /\ spc \in Creating => Creates(rq)
  /\ spc \in Binding => Binds(rq)
  /\ spc = "new" =>
       /\ lserver = Len(sockets)
       /\ lserver # 0
       /\ sockets[lserver].addr = psock[ProcessOf[rq]][arg[rq].index].addr
       /\ sockets[lserver].client = ProcessOf[rq]
       /\ sockets[lserver].port = 0
       /\ \A p \in Processes : \A i \in DOMAIN psock[p] : psock[p][i].tx # lserver
  /\ spc \in Bound =>
       /\ lserver = arg[rq].sd
       /\ sockets[lserver].port = arg[rq].port
       /\ slots[sockets[lserver].aep].by = rq
  /\ spc \in {"start_tx", "start_rx"} => lserver # 0
  /\ sockets # << >> => liface # 0

\* Between requests the slot is empty; then it holds the notification that
\* came with the request, and afterwards `mint' names the copy to send back.
CapInv ==
  /\ spc \in {"recv", "start_tx"} \cup Creating => mint = path /\ slots[path] = NoCap
  /\ spc = "bind" =>
       /\ mint = path
       /\ slots[path] = [kind |-> "aep", sock |-> arg[rq].sd, by |-> rq]
  /\ spc \in Bound => slots[mint] = RxCap(lserver)

\* A socket with a port has its notification in a slot of its own.
SocketInv ==
  \A s \in DOMAIN sockets :
    /\ sockets[s].port # 0 =>
         /\ sockets[s].aep \in DOMAIN slots
         /\ slots[sockets[s].aep].kind = "aep"
         /\ slots[sockets[s].aep].sock = s
         /\ sockets[s].msgs
         /\ sockets[s].ep = s
    /\ sockets[s].recv => sockets[s].port # 0

\* A socket of a process before the server has answered.
Unmade(p, i) ==
  LET c == psock[p][i] IN
  /\ i = Len(psock[p])
  /\ pmutex[p] # None
  /\ c.aep = None
  /\ c.port = 0
  /\ \A t \in Threads : c.got[t] = 0

\* And after.
Linked(p, i) ==
  LET c == psock[p][i] IN
  /\ c.tx = c.id
  /\ c.id \in DOMAIN sockets
  /\ sockets[c.id].addr = c.addr
  /\ sockets[c.id].client = p

\* Whose notification it waits on: that thread has bound it, or still tries.
\* Who has bound it has stored one.
Waited(p, i) ==
  LET c == psock[p][i] IN
  /\ c.rx = c.aep
  /\ c.aep # None =>
       /\ ProcessOf[c.aep] = p
       /\ \/ c.got[c.aep] # 0
          \/ tpc[c.aep] \in {"bind", "waiting"} /\ arg[c.aep].index = i
  /\ c.aep = None => \A t \in Threads : c.got[t] = 0

\* Who has got the endpoint of its rx thread.
Obtained(p, i) ==
  LET c == psock[p][i] IN
  /\ \A t \in Threads : c.got[t] # 0 =>
       /\ c.got[t] = c.id
       /\ ProcessOf[t] = p
       /\ c.port # 0
       /\ slots[sockets[c.id].aep].by = t
  /\ c.port # 0 => /\ sockets[c.id].port = c.port
                   /\ \E t \in Threads : c.got[t] # 0

\* The server's socket has no port before the process's has, unless a bind is
\* under way.
PortKnown(p, i) ==
  LET c == psock[p][i] IN
  sockets[c.id].port # 0 =>
    spc = "aborted" \/ (spc \in Bound /\ lserver = c.id) \/ c.port # 0

SockAt(p, i) ==
  /\ psock[p][i].tx = 0 => Unmade(p, i)
  /\ psock[p][i].tx # 0 => Linked(p, i) /\ Obtained(p, i) /\ PortKnown(p, i)
  /\ Waited(p, i)

ProcSockInv ==
  \A p \in Processes :
    /\ Len(psock[p]) <= MaxSockets
    /\ \A i \in DOMAIN psock[p] : SockAt(p, i)

\* No two sockets of processes are one socket of the server.
DistinctInv ==
  \A p, q \in Processes : \A i \in DOMAIN psock[p], j \in DOMAIN psock[q] :
    psock[p][i].tx # 0 /\ psock[p][i].tx = psock[q][j].tx => p = q /\ i = j

StackInv ==
  /\ TypeOK /\ RootInv /\ CallerInv /\ ServerInv /\ CapInv /\ SocketInv
  /\ ProcSockInv /\ DistinctInv /\ IfaceServes /\ IfaceInv /\ RunsInv

\* What the threads of the processes, the server and lwIP know of each other,
\* without the lists of the root thread.
CoreInv ==
  /\ CallerInv /\ ServerInv /\ CapInv /\ SocketInv /\ ProcSockInv /\ DistinctInv

NetInv == IfaceServes /\ IfaceInv

\* StackInv in four parts, which different steps disturb.
LEMMA StackInvParts ==
  StackInv <=> TypeOK /\ RootInv /\ RunsInv /\ CoreInv /\ NetInv
  BY DEF StackInv, CoreInv, NetInv

\* The types in parts: of the root thread, the processes and the server.
SockType ==
  [id : Ids, addr : RequestAddrs, port : Ports \cup {0},
   tx : Ids, aep : Threads \cup {None}, rx : Threads \cup {None},
   got : [Threads -> Ids]]
ServType ==
  [addr : RequestAddrs, iface : Ifaces, found : BOOLEAN,
   client : Processes, port : Ports \cup {0}, aep : Nat, ep : Ids,
   msgs : BOOLEAN, recv : BOOLEAN, bound : BOOLEAN, tx : BOOLEAN, rx : BOOLEAN]
TpcSet == {"run", "create_lock", "create", "bind", "sd_lock", "send", "waiting", "aborted"}
ArgType == [index : Ids, port : Ports \cup {0}, sd : Ids]

RootType ==
  /\ rpc \in {"run", "client", "iface"}
  /\ clients \in Seq(Processes \cup {0})
  /\ Len(clients) <= MaxProcesses
  /\ ifaces \in Seq(Addrs \cup {None})
  /\ Len(ifaces) \in Ifaces
  /\ mutex \in [Ifaces -> {"free", "stack", "irq"}]
ProcType ==
  /\ psock \in [Processes -> Seq(SockType)]
  /\ pmutex \in [Processes -> Threads \cup {None}]
  /\ tpc \in [Threads -> TpcSet]
  /\ arg \in [Threads -> ArgType]
  /\ calls \in 0 .. MaxCalls
LocalType ==
  /\ spc \in {"recv", "create", "new", "start_tx", "bind", "lock", "pcb",
              "bound", "start_rx", "aborted"}
  /\ rq \in Threads \cup {None}
  /\ lclient \in 0 .. Len(clients)
  /\ liface \in 0 .. Len(ifaces)
  /\ lserver \in 0 .. Len(sockets)
ServerType ==
  /\ sockets \in Seq(ServType)
  /\ Len(sockets) <= MaxSockets
  /\ slots \in Seq(Caps)
  /\ mint \in DOMAIN slots
  /\ path \in DOMAIN slots

\* The conjuncts of the type invariant.
LEMMA TypeParts == TypeOK <=> RootType /\ ProcType /\ LocalType /\ ServerType
  BY DEF TypeOK, RootType, ProcType, LocalType, ServerType, SockType, ServType,
     ArgType, TpcSet

\* And in the next state.
LEMMA TypePartsNext ==
  TypeOK' <=> RootType' /\ ProcType' /\ LocalType' /\ ServerType'
  BY TypeParts, PTL

\* What the types say of the elements.
LEMMA ServerFacts ==
  ASSUME TypeOK
  PROVE  /\ sockets \in Seq(ServType)
         /\ DOMAIN sockets = 1 .. Len(sockets)
         /\ Len(sockets) \in Nat
         /\ \A s \in DOMAIN sockets : sockets[s] \in ServType
         /\ slots \in Seq(Caps)
         /\ DOMAIN slots = 1 .. Len(slots)
         /\ Len(slots) \in Nat
<1>1. sockets \in Seq(ServType) /\ slots \in Seq(Caps)
  BY TypeParts DEF ServerType
<1> QED BY <1>1

\* The types of the sockets of a process.
LEMMA PsockFacts ==
  ASSUME TypeOK, NEW p \in Processes
  PROVE  /\ psock[p] \in Seq(SockType)
         /\ DOMAIN psock[p] = 1 .. Len(psock[p])
         /\ Len(psock[p]) \in Nat
         /\ \A i \in DOMAIN psock[p] : psock[p][i] \in SockType
<1>1. psock[p] \in Seq(SockType)
  BY TypeParts DEF ProcType
<1> QED BY <1>1

\* A thread belongs to a process, and is not None.
LEMMA ThreadFacts ==
  ASSUME NEW t \in Threads
  PROVE  ProcessOf[t] \in Processes /\ t # None
  BY ThreadsAssumption

\* The socket a thread creates is the last one of its process.
LEMMA CreatesFact ==
  ASSUME TypeOK, NEW t \in Threads, Creates(t)
  PROVE  arg[t].index \in DOMAIN psock[ProcessOf[t]]
<1>1. ProcessOf[t] \in Processes
  BY ThreadFacts
<1> QED BY <1>1, PsockFacts DEF Creates

\* A nonempty set of naturals has a least element, and one that is bounded a
\* greatest: the searches below yield something.
LEMMA NatMin ==
  ASSUME NEW T \in SUBSET Nat, T # {}
  PROVE  \E n \in T : \A m \in T : n <= m
<1> DEFINE R == OpToRel(LAMBDA x, y : x < y, Nat)
<1>1. IsWellFoundedOn(R, Nat)
  BY NatLessThanWellFounded
<1>2. \A x, y \in Nat : y < x => <<y, x>> \in R
  BY DEF OpToRel
<1> HIDE DEF R
<1>3. PICK x \in T : \A y \in T : ~(<<y, x>> \in R)
  BY <1>1, WFMin
<1>4. ASSUME NEW y \in T
      PROVE  x <= y
  <2>1. x \in Nat /\ y \in Nat
    OBVIOUS
  <2>2. ~(y < x)
    BY <1>2, <1>3, <2>1, Zenon
  <2> QED BY <2>1, <2>2
<1> QED BY <1>4

\* A bounded set of numbers has a largest one.
LEMMA MaxExists ==
  ASSUME NEW N \in Nat, NEW S \in SUBSET (1 .. N), S # {}
  PROVE  \E n \in S : \A m \in S : m <= n
<1> DEFINE T == {k \in Nat : N - k \in S}
<1>1. T # {}
  <2>1. PICK n \in S : TRUE
    OBVIOUS
  <2>2. N - n \in Nat /\ N - (N - n) = n
    OBVIOUS
  <2> QED BY <2>1, <2>2
<1>2. PICK k \in T : \A m \in T : k <= m
  BY <1>1, NatMin
<1>3. N - k \in S
  BY <1>2
<1>4. ASSUME NEW m \in S
      PROVE  m <= N - k
  <2>1. m \in Int /\ N - m \in Nat /\ N - (N - m) = m
    OBVIOUS
  <2>2. N - m \in T
    BY <2>1
  <2>3. k <= N - m
    BY <1>2, <2>2
  <2> QED BY <2>1, <2>3
<1> QED BY <1>3, <1>4

-----------------------------------------------------------------------------
(* The invariant holds initially and every action preserves it.            *)

\* Before any call there are no sockets, and the first slot is empty.
LEMMA InitInv == Init => StackInv
<1> SUFFICES ASSUME Init PROVE StackInv
  OBVIOUS
<1>1. TypeOK
  <2>1. /\ clients \in Seq(Processes \cup {0}) /\ Len(clients) = 0
        /\ ifaces \in Seq(Addrs \cup {None}) /\ Len(ifaces) = 1
        /\ Len(sockets) = 0
    BY NetAssumption DEF Init
  <2>2. slots \in Seq(Caps) /\ 1 \in DOMAIN slots
    <3>1. NoCap \in Caps
      BY BoundsAssumption DEF Caps, NoCap, Ids
    <3>2. <<NoCap>> \in Seq(Caps)
      BY <3>1
    <3> QED BY <3>2 DEF Init
  <2> QED BY <2>1, <2>2, BoundsAssumption DEF Init, TypeOK, Ids, Ifaces, NoArg
<1>2. RootInv
  BY NetAssumption, ThreadsAssumption DEF Init, RootInv
<1>3. CallerInv /\ RunsInv
  BY DEF Init, CallerInv, CallerAt, RunsInv
<1>4. ServerInv /\ CapInv /\ SocketInv /\ IfaceServes /\ IfaceInv
  BY DEF Init, ServerInv, CapInv, SocketInv, IfaceServes, IfaceInv, Creating,
     Binding, Bound
<1>5. ProcSockInv /\ DistinctInv
  BY BoundsAssumption DEF Init, ProcSockInv, DistinctInv
<1> QED BY <1>1, <1>2, <1>3, <1>4, <1>5 DEF StackInv

\* A step of the root thread does not touch what the others know.
LEMMA CoreFrame ==
  ASSUME CoreInv, UNCHANGED <<mutex, procVars, serverVars>>
  PROVE  CoreInv'
<1>1. UNCHANGED <<mutex, psock, pmutex, tpc, arg, spc, rq, liface, lserver,
                  sockets, slots, mint, path>>
  BY DEF procVars, serverVars, localVars, capVars
<1>2. CallerInv' /\ ServerInv' /\ CapInv' /\ SocketInv'
  <2>1. CallerInv'
    BY <1>1, ZenonT(30) DEF CoreInv, CallerInv, CallerAt, Creates, Binds, Sends
  <2>2. ServerInv'
    BY <1>1, ZenonT(30) DEF CoreInv, ServerInv, Creates, Binds, Sends
  <2>3. CapInv'
    BY <1>1, ZenonT(30) DEF CoreInv, CapInv, Creates, Binds, RxCap
  <2>4. SocketInv'
    BY <1>1, ZenonT(30) DEF CoreInv, SocketInv, Binds, RxCap
  <2> QED BY <2>1, <2>2, <2>3, <2>4
<1>3. ProcSockInv' /\ DistinctInv'
  BY <1>1 DEF CoreInv, ProcSockInv, SockAt, DistinctInv, Unmade, Linked, Obtained, PortKnown,
     Waited
<1> QED BY <1>2, <1>3 DEF CoreInv

\* A process stays registered.
LEMMA RunsFrame ==
  ASSUME RunsInv, UNCHANGED <<procVars, serverVars>>,
         \A p \in Processes : Registered(p) => Registered(p)'
  PROVE  RunsInv'
<1>1. UNCHANGED <<psock, tpc>>
  BY DEF procVars
<1> QED BY <1>1, ThreadFacts DEF RunsInv

\* sel4osapi_ipc_create_client: the element is in the list before it has its id.
LEMMA ClientAllocInv ==
  ASSUME StackInv, NEW junk \in JunkPids, ClientAlloc(junk)
  PROVE  StackInv'
<1>1. /\ rpc = "run" /\ rpc' = "client" /\ ifaces' = ifaces
      /\ UNCHANGED <<mutex, procVars, serverVars>>
      /\ clients' = Append(clients, junk)
      /\ Len(clients) < MaxProcesses
  BY DEF ClientAlloc
<1>2. /\ clients \in Seq(Processes \cup {0}) /\ junk \in Processes \cup {0}
      /\ MaxProcesses \in Nat
  BY JunkAssumption, BoundsAssumption DEF StackInv, TypeOK
<1>3. /\ clients' \in Seq(Processes \cup {0})
      /\ Len(clients') = Len(clients) + 1
      /\ Len(clients) \in Nat
      /\ DOMAIN clients = 1 .. Len(clients)
      /\ DOMAIN clients' = 1 .. Len(clients) + 1
      /\ \A c \in 1 .. Len(clients) : clients'[c] = clients[c]
  BY <1>1, <1>2
<1>4. TypeOK'
  <2>1. lclient' = lclient /\ lclient \in 0 .. Len(clients')
    BY <1>1, <1>3 DEF StackInv, TypeOK, serverVars, localVars
  <2>2. RootType'
    BY <1>1, <1>2, <1>3, <2>1, TypeParts DEF StackInv, RootType
  <2>3. ProcType' /\ ServerType'
    BY <1>1, TypeParts DEF StackInv, ProcType, ServerType, procVars, serverVars, capVars
  <2>4. LocalType'
    BY <1>1, <2>1, TypeParts DEF StackInv, LocalType, serverVars, localVars
  <2> QED BY <2>2, <2>3, <2>4, TypePartsNext
<1>5. RootInv'
  BY <1>1, <1>3 DEF StackInv, RootInv
<1>6. \A p \in Processes : Registered(p) => Registered(p)'
  BY <1>1, <1>3 DEF Registered
<1>7. RunsInv' /\ CoreInv'
  BY <1>1, <1>6, RunsFrame, CoreFrame, StackInvParts
<1>8. NetInv'
  BY <1>1 DEF StackInv, NetInv, IfaceServes, IfaceInv, serverVars
<1> QED BY <1>4, <1>5, <1>7, <1>8, StackInvParts DEF StackInv, CoreInv, NetInv

\* Then it is filled.
LEMMA ClientInitInv ==
  ASSUME StackInv, ClientInit
  PROVE  StackInv'
<1>1. /\ rpc = "client" /\ rpc' = "run" /\ ifaces' = ifaces
      /\ UNCHANGED <<mutex, procVars, serverVars>>
      /\ clients' = [clients EXCEPT ![Len(clients)] = Len(clients)]
  BY DEF ClientInit
<1>2. /\ clients \in Seq(Processes \cup {0})
      /\ MaxProcesses \in Nat
      /\ Len(clients) \in 1 .. MaxProcesses
      /\ Len(clients) \in Processes
  BY <1>1, BoundsAssumption DEF StackInv, TypeOK, RootInv, Processes
<1>3. /\ clients' \in Seq(Processes \cup {0})
      /\ Len(clients') = Len(clients)
      /\ Len(clients) \in Nat
      /\ DOMAIN clients = 1 .. Len(clients)
      /\ DOMAIN clients' = 1 .. Len(clients)
      /\ \A c \in 1 .. Len(clients) :
           clients'[c] = IF c = Len(clients) THEN c ELSE clients[c]
  BY <1>1, <1>2
<1>4. TypeOK'
  <2>1. RootType'
    BY <1>1, <1>2, <1>3, TypeParts DEF StackInv, RootType
  <2>2. ProcType' /\ ServerType'
    BY <1>1, TypeParts DEF StackInv, ProcType, ServerType, procVars, serverVars, capVars
  <2>3. LocalType'
    BY <1>1, <1>3, TypeParts DEF StackInv, LocalType, serverVars, localVars
  <2> QED BY <2>1, <2>2, <2>3, TypePartsNext
<1>5. RootInv'
  BY <1>1, <1>3 DEF StackInv, RootInv
<1>6. \A p \in Processes : Registered(p) => Registered(p)'
  BY <1>1, <1>3 DEF Registered
<1>7. RunsInv' /\ CoreInv'
  BY <1>1, <1>6, RunsFrame, CoreFrame, StackInvParts
<1>8. NetInv'
  BY <1>1 DEF StackInv, NetInv, IfaceServes, IfaceInv, serverVars
<1> QED BY <1>4, <1>5, <1>7, <1>8, StackInvParts DEF StackInv, CoreInv, NetInv

\* sel4osapi_network_create_interface: an interface without an address.
LEMMA IfaceAllocInv ==
  ASSUME StackInv, IfaceAlloc
  PROVE  StackInv'
<1>1. /\ rpc = "run" /\ rpc' = "iface" /\ clients' = clients
      /\ UNCHANGED <<mutex, procVars, serverVars>>
      /\ ifaces' = Append(ifaces, None)
      /\ Len(ifaces) < MaxIfaces
  BY DEF IfaceAlloc
<1>2. ifaces \in Seq(Addrs \cup {None}) /\ MaxIfaces \in Nat
  BY BoundsAssumption DEF StackInv, TypeOK
<1>3. /\ ifaces' \in Seq(Addrs \cup {None})
      /\ Len(ifaces') = Len(ifaces) + 1
      /\ Len(ifaces) \in Nat
      /\ DOMAIN ifaces = 1 .. Len(ifaces)
      /\ DOMAIN ifaces' = 1 .. Len(ifaces) + 1
      /\ \A f \in 1 .. Len(ifaces) : ifaces'[f] = ifaces[f]
      /\ ifaces'[Len(ifaces) + 1] = None
  BY <1>1, <1>2
<1>4. TypeOK'
  <2>1. liface' = liface /\ liface \in 0 .. Len(ifaces') /\ Len(ifaces') \in Ifaces
    <3>1. liface' = liface
      BY <1>1 DEF serverVars, localVars
    <3>2. liface \in 0 .. Len(ifaces)
      BY DEF StackInv, TypeOK
    <3> QED BY <1>1, <1>2, <1>3, <3>1, <3>2 DEF Ifaces
  <2>2. RootType'
    BY <1>1, <1>2, <1>3, <2>1, TypeParts DEF StackInv, RootType
  <2>3. ProcType' /\ ServerType'
    BY <1>1, TypeParts DEF StackInv, ProcType, ServerType, procVars, serverVars, capVars
  <2>4. LocalType'
    BY <1>1, <2>1, TypeParts DEF StackInv, LocalType, serverVars, localVars
  <2> QED BY <2>2, <2>3, <2>4, TypePartsNext
<1>5. RootInv'
  <2>1. \A f \in DOMAIN ifaces : ifaces[f] # None
    BY <1>1 DEF StackInv, RootInv
  <2> QED BY <1>1, <1>3, <2>1 DEF StackInv, RootInv
<1>6. \A p \in Processes : Registered(p) => Registered(p)'
  BY <1>1 DEF Registered
<1>7. RunsInv' /\ CoreInv'
  BY <1>1, <1>6, RunsFrame, CoreFrame, StackInvParts
<1>8. NetInv'
  <2>1. UNCHANGED sockets
    BY <1>1 DEF serverVars
  <2> QED BY <1>3, <2>1 DEF StackInv, NetInv, IfaceServes, IfaceInv
<1> QED BY <1>4, <1>5, <1>7, <1>8, StackInvParts DEF StackInv, CoreInv, NetInv

\* sel4osapi_netiface_add_vface: it gets one, and the others keep theirs.
LEMMA IfaceInitInv ==
  ASSUME StackInv, NEW a \in Addrs, IfaceInit(a)
  PROVE  StackInv'
<1>1. /\ rpc = "iface" /\ rpc' = "run" /\ clients' = clients
      /\ UNCHANGED <<mutex, procVars, serverVars>>
      /\ ifaces' = [ifaces EXCEPT ![Len(ifaces)] = a]
  BY DEF IfaceInit
<1>2. /\ ifaces \in Seq(Addrs \cup {None})
      /\ Len(ifaces) \in Nat \ {0}
      /\ a # None
  BY BoundsAssumption, ThreadsAssumption DEF StackInv, TypeOK, Ifaces
<1>3. /\ ifaces' \in Seq(Addrs \cup {None})
      /\ Len(ifaces') = Len(ifaces)
      /\ DOMAIN ifaces = 1 .. Len(ifaces)
      /\ DOMAIN ifaces' = 1 .. Len(ifaces)
      /\ \A f \in 1 .. Len(ifaces) :
           ifaces'[f] = IF f = Len(ifaces) THEN a ELSE ifaces[f]
  BY <1>1, <1>2
<1>4. TypeOK'
  <2>1. RootType'
    BY <1>1, <1>2, <1>3, TypeParts DEF StackInv, RootType
  <2>2. ProcType' /\ ServerType'
    BY <1>1, TypeParts DEF StackInv, ProcType, ServerType, procVars, serverVars, capVars
  <2>3. LocalType'
    BY <1>1, <1>3, TypeParts DEF StackInv, LocalType, serverVars, localVars
  <2> QED BY <2>1, <2>2, <2>3, TypePartsNext
<1>5. RootInv'
  BY <1>1, <1>2, <1>3 DEF StackInv, RootInv
<1>6. \A p \in Processes : Registered(p) => Registered(p)'
  BY <1>1 DEF Registered
<1>7. RunsInv' /\ CoreInv'
  BY <1>1, <1>6, RunsFrame, CoreFrame, StackInvParts
<1>8. NetInv'
  <2>1. UNCHANGED sockets
    BY <1>1 DEF serverVars
  <2>2. \A s \in DOMAIN sockets : sockets[s].addr # None
    <3>1. \A s \in DOMAIN sockets : sockets[s].addr \in RequestAddrs
      BY ServerFacts DEF StackInv, ServType
    <3>2. None \notin RequestAddrs
      BY NetAssumption, ThreadsAssumption DEF AnyAddr, None
    <3> QED BY <3>1, <3>2
  <2>3. ifaces[Len(ifaces)] = None
    BY <1>1, <1>2, <1>3 DEF StackInv, RootInv
  <2> QED BY <1>3, <2>1, <2>2, <2>3, ZenonT(30) DEF StackInv, NetInv, IfaceServes, IfaceInv
<1> QED BY <1>4, <1>5, <1>7, <1>8, StackInvParts DEF StackInv, CoreInv, NetInv

\* The interrupt thread takes and releases the mutex of the first interface,
\* never the server's.
LEMMA IrqInv ==
  ASSUME StackInv, IrqLock \/ IrqUnlock
  PROVE  StackInv'
<1>1. /\ UNCHANGED <<rpc, clients, ifaces, psock, pmutex, tpc, arg, calls, spc, rq,
                    lclient, liface, lserver, sockets, slots, mint, path>>
      /\ mutex \in [Ifaces -> {"free", "stack", "irq"}]
  BY DEF IrqLock, IrqUnlock, rootVars, procVars, serverVars, localVars, capVars,
     StackInv, TypeOK
<1>2. /\ mutex' \in [Ifaces -> {"free", "stack", "irq"}]
      /\ \A f \in Ifaces : mutex[f] = "stack" => mutex'[f] = "stack"
  BY <1>1 DEF IrqLock, IrqUnlock
<1>3. TypeOK'
  BY <1>1, <1>2, TypeParts, TypePartsNext
     DEF StackInv, RootType, ProcType, LocalType, ServerType
<1>4. RootInv' /\ RunsInv' /\ CallerInv' /\ ServerInv' /\ CapInv' /\ SocketInv'
  <2>1. RootInv' /\ RunsInv'
    BY <1>1, SMTT(30) DEF StackInv, RootInv, RunsInv, Registered
  <2>2. CallerInv'
    BY <1>1, ZenonT(30) DEF StackInv, CallerInv, CallerAt, Creates, Binds, Sends
  <2>3. ServerInv'
    BY <1>1, ZenonT(30) DEF StackInv, ServerInv, Creates, Binds, Sends
  <2>4. CapInv'
    BY <1>1, ZenonT(30) DEF StackInv, CapInv, Creates, Binds, RxCap
  <2>5. SocketInv'
    BY <1>1, ZenonT(30) DEF StackInv, SocketInv, Binds, RxCap
  <2> QED BY <2>1, <2>2, <2>3, <2>4, <2>5
<1>5. ProcSockInv' /\ DistinctInv' /\ IfaceServes' /\ IfaceInv'
  BY <1>1, SMTT(30) DEF StackInv, ProcSockInv, SockAt, DistinctInv, Unmade, Linked, Obtained, PortKnown,
     Waited, IfaceServes, IfaceInv
<1> QED BY <1>3, <1>4, <1>5 DEF StackInv

\* sel4osapi_udp_create_socket and sel4osapi_udp_sd_to_socket, up to the mutex.
LEMMA LockWaitInv ==
  ASSUME StackInv, NEW t \in Threads,
         CreateSocket(t) \/ \E sd \in Ids : SendSd(t, sd)
  PROVE  StackInv'
<1>1. /\ UNCHANGED <<rpc, clients, ifaces, mutex, psock, pmutex, spc, rq,
                    lclient, liface, lserver, sockets, slots, mint, path>>
      /\ tpc[t] = "run"
      /\ calls < MaxCalls /\ calls' = calls + 1
      /\ \/ tpc' = [tpc EXCEPT ![t] = "create_lock"] /\ arg' = arg
         \/ tpc' = [tpc EXCEPT ![t] = "sd_lock"]
            /\ \E sd \in Ids : arg' = [arg EXCEPT ![t].sd = sd]
  BY DEF CreateSocket, SendSd, Begin, Enter, rootVars, serverVars, localVars, capVars
<1>2. /\ tpc \in [Threads -> TpcSet]
      /\ arg \in [Threads -> ArgType]
      /\ calls' \in 0 .. MaxCalls
  BY <1>1, TypeParts, BoundsAssumption DEF StackInv, ProcType
<1>3. /\ \A u \in Threads : u # t => tpc'[u] = tpc[u] /\ arg'[u] = arg[u]
      /\ tpc'[t] \in {"create_lock", "sd_lock"}
      /\ arg' \in [Threads -> ArgType]
      /\ tpc' \in [Threads -> TpcSet]
  <2>1. \A sd \in Ids : [arg[t] EXCEPT !.sd = sd] \in ArgType
    BY <1>2 DEF ArgType
  <2> QED BY <1>1, <1>2, <2>1 DEF TpcSet
<1>r. Registered(ProcessOf[t])
  <2>1. CASE CreateSocket(t)
    BY <2>1 DEF CreateSocket
  <2>2. CASE \E sd \in Ids : SendSd(t, sd)
    <3>1. ProcessOf[t] \in Processes
      BY ThreadFacts
    <3>2. DOMAIN psock[ProcessOf[t]] # {}
      BY <2>2 DEF SendSd, Made
    <3>3. Len(psock[ProcessOf[t]]) # 0
      BY <3>1, <3>2, PsockFacts DEF StackInv
    <3> QED BY <3>1, <3>3 DEF StackInv, RunsInv
  <2> QED BY <2>1, <2>2
<1>4. TypeOK'
  <2>1. RootType' /\ LocalType' /\ ServerType'
    BY <1>1, TypeParts DEF StackInv, RootType, LocalType, ServerType
  <2>2. ProcType'
    BY <1>1, <1>2, <1>3, TypeParts DEF StackInv, ProcType
  <2> QED BY <2>1, <2>2, TypePartsNext
<1>5. RootInv' /\ SocketInv' /\ IfaceServes' /\ IfaceInv' /\ DistinctInv'
  BY <1>1 DEF StackInv, RootInv, SocketInv, IfaceServes, IfaceInv, DistinctInv
<1>6. RunsInv' /\ CallerInv'
  <2>1. \A u \in Threads : CallerAt(u)'
    BY <1>1, <1>3 DEF StackInv, CallerInv, CallerAt, Creates, Binds, Sends
  <2> QED BY <1>1, <1>3, <1>r, <2>1 DEF StackInv, RunsInv, Registered, CallerInv
<1>7. spc \in Creating \cup Binding =>
         rq \in Threads /\ arg'[rq] = arg[rq] /\ tpc'[rq] = tpc[rq]
  BY <1>1, <1>3 DEF StackInv, ServerInv
<1>8. ServerInv' /\ CapInv'
  BY <1>1, <1>7 DEF StackInv, ServerInv, CapInv, Creates, Binds, RxCap, Creating,
     Binding, Bound
<1>9. ProcSockInv'
  <2>1. ASSUME NEW q \in Processes, NEW i \in DOMAIN psock[q]
        PROVE  SockAt(q, i)'
    <3>1. SockAt(q, i)
      BY DEF StackInv, ProcSockInv
    <3>2. psock[q][i].aep # None => psock[q][i].aep \in Threads
      BY PsockFacts DEF StackInv, SockType
    <3>3. Waited(q, i)'
      BY <1>1, <1>3, <3>1, <3>2 DEF SockAt, Waited
    <3> QED BY <1>1, <3>1, <3>3 DEF SockAt, Unmade, Linked, Obtained, PortKnown
  <2> QED BY <1>1, <2>1 DEF StackInv, ProcSockInv
<1> QED BY <1>4, <1>5, <1>6, <1>8, <1>9 DEF StackInv

\* sel4osapi_udp_create_socket, from its mutex up to the call.  Under the mutex
\* all sockets of the process are finished.
LEMMA AllocSocketInv ==
  ASSUME StackInv, NEW t \in Threads, NEW a \in RequestAddrs, NEW junk \in JunkIds,
         AllocSocket(t, a, junk)
  PROVE  StackInv'
<1> DEFINE p == ProcessOf[t]
<1>1. /\ UNCHANGED <<rpc, clients, ifaces, mutex, spc, rq,
                    lclient, liface, lserver, sockets, slots, mint, path>>
      /\ pmutex[p] = None
      /\ pmutex' = [pmutex EXCEPT ![p] = t]
      /\ tpc[t] = "create_lock"
      /\ calls' = calls
  BY DEF AllocSocket, Enter, rootVars, serverVars, localVars, capVars
<1>2. /\ p \in Processes /\ t # None
      /\ pmutex \in [Processes -> Threads \cup {None}]
      /\ tpc \in [Threads -> TpcSet]
      /\ arg \in [Threads -> ArgType]
      /\ psock \in [Processes -> Seq(SockType)]
  BY ThreadFacts, TypeParts DEF StackInv, ProcType
<1>c. calls' \in 0 .. MaxCalls /\ Registered(p)
  BY <1>1, TypeParts DEF StackInv, ProcType, RunsInv
<1>3. RootType' /\ LocalType' /\ ServerType'
  BY <1>1, TypeParts DEF StackInv, RootType, LocalType, ServerType
<1>4. RootInv' /\ SocketInv' /\ IfaceServes' /\ IfaceInv'
  BY <1>1 DEF StackInv, RootInv, SocketInv, IfaceServes, IfaceInv
<1>5. /\ spc \in Creating \cup Binding => rq \in Threads /\ rq # t
      /\ \A u \in Threads : u # t /\ pmutex[ProcessOf[u]] = u => ProcessOf[u] # p
      /\ \A q \in Processes : pmutex'[q] = IF q = p THEN t ELSE pmutex[q]
      /\ \A i \in DOMAIN psock[p] : psock[p][i].tx # 0
  <2>1. \A u \in Threads : u # None
    BY ThreadFacts
  <2>2. \A i \in DOMAIN psock[p] : psock[p][i].tx # 0
    BY <1>1, <1>2 DEF StackInv, ProcSockInv, SockAt, Unmade
  <2> QED BY <1>1, <1>2, <2>1, <2>2 DEF StackInv, ServerInv
<1>6. CASE /\ tpc' = [tpc EXCEPT ![t] = "aborted"]
           /\ UNCHANGED <<psock, arg>>
  <2>1. /\ \A u \in Threads : u # t => tpc'[u] = tpc[u]
        /\ tpc'[t] = "aborted"
    BY <1>2, <1>6
  <2>2. TypeOK'
    BY <1>1, <1>2, <1>3, <1>6, <1>c, TypePartsNext DEF ProcType, TpcSet
  <2>3. CallerInv'
    BY <1>1, <1>2, <1>5, <1>6, <2>1
       DEF StackInv, CallerInv, CallerAt, Creates, Binds, Sends, Creating, Binding, Bound
  <2>4. ServerInv' /\ CapInv'
    BY <1>1, <1>2, <1>5, <1>6, <2>1, SMTT(30) DEF StackInv, ServerInv, CapInv, Creates, Binds,
       RxCap, Creating, Binding, Bound
  <2>5. DistinctInv'
    BY <1>6 DEF StackInv, DistinctInv
  <2>6. ProcSockInv'
    BY <1>1, <1>2, <1>5, <1>6, <2>1, SMTT(30) DEF StackInv, ProcSockInv, SockAt, Unmade, Linked, Obtained,
       PortKnown, Waited
  <2>7. RunsInv'
    BY <1>1, <1>c, <1>6, <2>1 DEF StackInv, RunsInv, Registered
  <2> QED BY <1>4, <2>2, <2>3, <2>4, <2>5, <2>6, <2>7 DEF StackInv
<1>7. CASE /\ Len(psock[p]) < MaxSockets
           /\ tpc' = [tpc EXCEPT ![t] = "create"]
           /\ psock' = [psock EXCEPT ![p] = Append(@, NewSocket(a, junk))]
           /\ arg' = [arg EXCEPT ![t].index = Len(psock[p]) + 1]
  <2> DEFINE c == NewSocket(a, junk)
  <2>n. PICK n \in Nat \ {0} : n = Len(psock[p]) + 1
    BY <1>2
  <2>1. /\ c \in SockType
        /\ c.tx = 0 /\ c.port = 0 /\ c.aep = None /\ c.rx = None
        /\ \A u \in Threads : c.got[u] = 0
    <3>1. junk \in Ids
      BY JunkAssumption DEF Ids
    <3>2. 0 \in Ids
      BY BoundsAssumption DEF Ids
    <3> QED BY <3>1, <3>2 DEF NewSocket, SockType
  <2> HIDE DEF c
  <2>2. /\ psock' \in [Processes -> Seq(SockType)]
        /\ psock'[p] = Append(psock[p], c)
        /\ \A q \in Processes : q # p => psock'[q] = psock[q]
    BY <1>2, <1>7, <2>1 DEF c
  <2>3. /\ Len(psock[p]) \in Nat
        /\ DOMAIN psock[p] = 1 .. Len(psock[p])
        /\ Len(psock'[p]) = n
        /\ DOMAIN psock'[p] = 1 .. n
        /\ psock'[p][n] = c
        /\ \A i \in DOMAIN psock[p] : psock'[p][i] = psock[p][i]
    BY <1>2, <2>1, <2>2, <2>n
  <2>4. /\ \A u \in Threads : u # t => tpc'[u] = tpc[u] /\ arg'[u] = arg[u]
        /\ tpc'[t] = "create"
        /\ arg'[t].index = n
        /\ arg' \in [Threads -> ArgType]
    <3>1. n \in Ids
      BY <1>7, <2>3, <2>n, BoundsAssumption DEF Ids
    <3>2. arg'[t] = [arg[t] EXCEPT !.index = n] /\ arg[t] \in ArgType
      BY <1>2, <1>7, <2>n
    <3>3. arg'[t] \in ArgType /\ arg'[t].index = n
      BY <3>1, <3>2 DEF ArgType
    <3> QED BY <1>2, <1>7, <3>3
  <2>5. /\ \A q \in Processes : \A i \in DOMAIN psock[q] :
             i \in DOMAIN psock'[q] /\ psock'[q][i] = psock[q][i]
        /\ \A q \in Processes : \A i \in DOMAIN psock'[q] :
             i \in DOMAIN psock[q] \/ (q = p /\ i = n)
    <3>1. 1 .. n = 1 .. Len(psock[p]) \cup {n} /\ 1 .. Len(psock[p]) \subseteq 1 .. n
      BY <2>3, <2>n
    <3>2. ASSUME NEW q \in Processes, NEW i \in DOMAIN psock[q]
          PROVE  i \in DOMAIN psock'[q] /\ psock'[q][i] = psock[q][i]
      <4>1. CASE q = p
        <5> HIDE DEF p
        <5> QED BY <2>3, <3>1, <4>1
      <4>2. CASE q # p
        BY <2>2, <4>2
      <4> QED BY <4>1, <4>2
    <3>3. ASSUME NEW q \in Processes, NEW i \in DOMAIN psock'[q]
          PROVE  i \in DOMAIN psock[q] \/ (q = p /\ i = n)
      <4>1. CASE q = p
        <5> HIDE DEF p
        <5> QED BY <2>3, <3>1, <4>1
      <4>2. CASE q # p
        BY <2>2, <4>2
      <4> QED BY <4>1, <4>2
    <3> QED BY <3>2, <3>3
  <2>6. TypeOK'
    <3>1. /\ tpc' \in [Threads -> TpcSet]
          /\ pmutex' \in [Processes -> Threads \cup {None}]
      BY <1>1, <1>2, <1>7 DEF TpcSet
    <3> QED BY <1>3, <1>c, <2>2, <2>4, <3>1, TypePartsNext DEF ProcType
  <2>7. CallerInv'
    <3> SUFFICES ASSUME NEW u \in Threads PROVE CallerAt(u)'
      BY DEF CallerInv
    <3>0. CallerAt(u)
      BY DEF StackInv, CallerInv
    <3>1. CASE u = t
      BY <1>1, <1>2, <1>5, <2>1, <2>3, <2>4, <3>1 DEF CallerAt, Creates
    <3>2. CASE u # t
      <4>1. tpc'[u] = "create" => Creates(u)'
        BY <1>1, <1>2, <1>5, <2>2, <2>4, <3>0, <3>2, ThreadFacts DEF CallerAt, Creates
      <4>2. tpc'[u] = "bind" => Binds(u)'
        BY <2>4, <2>5, <3>0, <3>2, ThreadFacts DEF CallerAt, Binds
      <4>3. tpc'[u] = "send" => Sends(u)'
        BY <2>4, <2>5, <3>0, <3>2, ThreadFacts DEF CallerAt, Sends
      <4> QED BY <1>1, <2>4, <3>0, <3>2, <4>1, <4>2, <4>3 DEF CallerAt
    <3> QED BY <3>1, <3>2
  <2>8. ServerInv' /\ CapInv'
    <3>1. spc \in Creating => Creates(rq)' /\ ProcessOf[rq] # p
      BY <1>1, <1>2, <1>5, <2>2, <2>4, ThreadFacts DEF StackInv, ServerInv, Creates
    <3>2. spc \in Binding => Binds(rq)'
      BY <1>1, <1>5, <2>4, <2>5, ThreadFacts DEF StackInv, ServerInv, Binds, Binding
    <3>3. spc = "new" =>
            /\ psock'[ProcessOf[rq]] = psock[ProcessOf[rq]]
            /\ \A q \in Processes : \A i \in DOMAIN psock'[q] : psock'[q][i].tx # lserver
       BY <1>5, <2>1, <2>2, <2>3, <2>5, <3>1, ThreadFacts, SMTT(30) DEF StackInv, ServerInv, Creating
    <3>4. spc \in Creating \cup Binding => rq \in Threads /\ arg'[rq] = arg[rq] /\ tpc'[rq] = tpc[rq]
      BY <1>5, <2>4
    <3>5. ServerInv'
      BY <1>1, <3>1, <3>2, <3>3, <3>4 DEF StackInv, ServerInv, Creates, Binds, Creating, Binding, Bound
    <3>6. CapInv'
      BY <1>1, <3>4 DEF StackInv, CapInv, RxCap, Creating, Binding, Bound
    <3> QED BY <3>5, <3>6
  <2>9. DistinctInv'
    <3> SUFFICES ASSUME NEW q1 \in Processes, NEW q2 \in Processes,
                        NEW i \in DOMAIN psock'[q1], NEW j \in DOMAIN psock'[q2],
                        psock'[q1][i].tx # 0, psock'[q1][i].tx = psock'[q2][j].tx
                 PROVE  q1 = q2 /\ i = j
      BY DEF DistinctInv
    <3>1. i \in DOMAIN psock[q1] /\ psock'[q1][i] = psock[q1][i]
      BY <1>2, <2>1, <2>2, <2>3, <2>5
    <3>2. j \in DOMAIN psock[q2] /\ psock'[q2][j] = psock[q2][j]
      BY <1>2, <2>1, <2>2, <2>3, <2>5
    <3> QED BY <3>1, <3>2 DEF StackInv, DistinctInv
  <2>10. ProcSockInv'
    <3> SUFFICES ASSUME NEW q \in Processes
                 PROVE  /\ Len(psock'[q]) <= MaxSockets
                        /\ \A i \in DOMAIN psock'[q] : SockAt(q, i)'
      BY DEF ProcSockInv
    <3>1. Len(psock'[q]) <= MaxSockets
      BY <1>7, <2>2, <2>3, <2>n, BoundsAssumption DEF StackInv, ProcSockInv
    <3>2. ASSUME NEW i \in DOMAIN psock[q], psock'[q][i] = psock[q][i]
          PROVE  SockAt(q, i)'
      <4>0. SockAt(q, i)
        BY DEF StackInv, ProcSockInv
      <4>1. psock'[q][i].tx = 0 => Unmade(q, i)'
        BY <1>5, <2>2, <3>2, <4>0 DEF SockAt, Unmade
      <4>2. psock'[q][i].tx # 0 => Linked(q, i)' /\ Obtained(q, i)' /\ PortKnown(q, i)'
        BY <1>1, <3>2, <4>0 DEF SockAt, Linked, Obtained, PortKnown
      <4>3. Waited(q, i)'
        <5>1. psock[q][i] \in SockType
          BY PsockFacts DEF StackInv
        <5>2. psock[q][i].aep # None => psock[q][i].aep \in Threads
          BY <5>1 DEF SockType
        <5> QED BY <1>1, <2>4, <3>2, <4>0, <5>2 DEF SockAt, Waited
      <4> QED BY <4>1, <4>2, <4>3 DEF SockAt
    <3>3. CASE q # p
      BY <2>2, <3>1, <3>2, <3>3
    <3>4. CASE q = p
      <4>1. Unmade(p, n)' /\ Waited(p, n)'
        BY <1>2, <1>5, <2>1, <2>3 DEF Unmade, Waited
      <4>2. SockAt(p, n)'
        BY <2>1, <2>3, <4>1 DEF SockAt
      <4> QED BY <2>5, <3>1, <3>2, <3>4, <4>2
    <3> QED BY <3>3, <3>4
  <2>11. RunsInv'
    BY <1>1, <1>c, <2>2, <2>4 DEF StackInv, RunsInv, Registered
  <2> QED BY <1>4, <2>6, <2>7, <2>8, <2>9, <2>10, <2>11 DEF StackInv
<1> QED BY <1>6, <1>7 DEF AllocSocket, Enter

\* sel4osapi_udp_bind, up to the call.  The notification of an earlier thread
\* that binds the same socket is overwritten.
LEMMA BindInv ==
  ASSUME StackInv, NEW t \in Threads, NEW k \in Ids, NEW port \in Ports,
         Bind(t, k, port)
  PROVE  StackInv'
<1> DEFINE p == ProcessOf[t]
<1>1. /\ UNCHANGED <<rpc, clients, ifaces, mutex, pmutex, spc, rq,
                    lclient, liface, lserver, sockets, slots, mint, path>>
      /\ k \in DOMAIN psock[p] /\ psock[p][k].tx # 0
      /\ psock[p][k].port = 0
      /\ tpc[t] = "run"
  BY DEF Bind, Made, Begin, Enter, rootVars, serverVars, localVars, capVars
<1>a. /\ tpc' = [tpc EXCEPT ![t] = "bind"]
      /\ arg' = [arg EXCEPT ![t] = [index |-> k, port |-> port, sd |-> psock[p][k].id]]
      /\ psock' = [psock EXCEPT ![p][k].aep = t, ![p][k].rx = t]
  BY DEF Bind, Begin, Enter
<1>2. /\ p \in Processes /\ t # None
      /\ tpc \in [Threads -> TpcSet]
      /\ arg \in [Threads -> ArgType]
      /\ psock \in [Processes -> Seq(SockType)]
      /\ pmutex \in [Processes -> Threads \cup {None}]
  BY ThreadFacts, TypeParts DEF StackInv, ProcType
<1>c. calls' \in 0 .. MaxCalls
  <2>1. calls \in 0 .. MaxCalls
    BY TypeParts DEF StackInv, ProcType
  <2>2. calls < MaxCalls /\ calls' = calls + 1
    BY DEF Bind, Begin
  <2> QED BY <2>1, <2>2, BoundsAssumption
<1>3. RootType' /\ LocalType' /\ ServerType'
  BY <1>1, TypeParts DEF StackInv, RootType, LocalType, ServerType
<1>4. RootInv' /\ SocketInv' /\ IfaceServes' /\ IfaceInv'
  BY <1>1 DEF StackInv, RootInv, SocketInv, IfaceServes, IfaceInv
<1>5. /\ psock[p] \in Seq(SockType) /\ psock[p][k] \in SockType
      /\ psock[p][k].id \in Ids
      /\ k \in 1 .. Len(psock[p]) /\ Len(psock[p]) \in Nat
  BY <1>1, <1>2, PsockFacts DEF StackInv, SockType
<1> DEFINE c == [psock[p][k] EXCEPT !.aep = t, !.rx = t]
<1>6. /\ c \in SockType
      /\ c.aep = t /\ c.rx = t
      /\ c.tx = psock[p][k].tx /\ c.id = psock[p][k].id /\ c.port = psock[p][k].port
      /\ c.addr = psock[p][k].addr /\ c.got = psock[p][k].got
  BY <1>5 DEF SockType
<1>7. /\ psock' \in [Processes -> Seq(SockType)]
      /\ \A q \in Processes : /\ Len(psock'[q]) = Len(psock[q])
                              /\ DOMAIN psock'[q] = DOMAIN psock[q]
      /\ psock'[p][k] = c
      /\ \A q \in Processes : \A i \in DOMAIN psock[q] :
           (q # p \/ i # k) => psock'[q][i] = psock[q][i]
  <2>1. psock' = [psock EXCEPT ![p] = [psock[p] EXCEPT ![k] = c]]
    BY <1>a, <1>1, <1>2, <1>5
  <2>2. [psock[p] EXCEPT ![k] = c] \in Seq(SockType)
    BY <1>5, <1>6
  <2> HIDE DEF c
  <2>3. /\ Len([psock[p] EXCEPT ![k] = c]) = Len(psock[p])
        /\ DOMAIN [psock[p] EXCEPT ![k] = c] = DOMAIN psock[p]
    BY <1>5, <2>2
  <2> QED BY <1>2, <1>5, <2>1, <2>2, <2>3
<1> HIDE DEF c
<1>8. \A q \in Processes : \A i \in DOMAIN psock[q] :
        /\ psock'[q][i].tx = psock[q][i].tx
        /\ psock'[q][i].id = psock[q][i].id
        /\ psock'[q][i].port = psock[q][i].port
        /\ psock'[q][i].addr = psock[q][i].addr
        /\ psock'[q][i].got = psock[q][i].got
        /\ psock[q][i].aep # None => psock'[q][i].aep # None
  BY <1>2, <1>6, <1>7
<1>9. /\ \A u \in Threads : u # t => tpc'[u] = tpc[u] /\ arg'[u] = arg[u]
      /\ tpc'[t] = "bind"
      /\ arg'[t].index = k /\ arg'[t].port = port /\ arg'[t].sd = psock[p][k].id
      /\ arg' \in [Threads -> ArgType]
      /\ tpc' \in [Threads -> TpcSet]
  BY <1>a, <1>2, <1>5 DEF ArgType, TpcSet
<1>10. TypeOK'
  <2>1. pmutex' \in [Processes -> Threads \cup {None}]
    BY <1>1, <1>2
  <2> QED BY <1>3, <1>c, <1>7, <1>9, <2>1, TypePartsNext DEF ProcType
<1>11. spc \in Creating \cup Binding =>
         /\ rq \in Threads /\ rq # t
         /\ arg'[rq] = arg[rq] /\ tpc'[rq] = tpc[rq] /\ ProcessOf[rq] \in Processes
  BY <1>1, <1>9, ThreadFacts DEF StackInv, ServerInv
<1>12. Linked(p, k) /\ Obtained(p, k) /\ Waited(p, k)
  BY <1>1, <1>2 DEF StackInv, ProcSockInv, SockAt
<1>13. psock[p][k].got[t] = 0 /\ port # 0
  BY <1>1, <1>12, NetAssumption DEF Obtained
<1>14. RunsInv'
  <2>1. Registered(p)
    BY <1>2, <1>5 DEF StackInv, RunsInv
  <2> QED BY <1>1, <1>7, <1>9, <2>1 DEF StackInv, RunsInv, Registered
<1>15. CallerInv'
  <2> SUFFICES ASSUME NEW u \in Threads PROVE CallerAt(u)'
    BY DEF CallerInv
  <2>1. CallerAt(u)
    BY DEF StackInv, CallerInv
  <2>2. CASE u = t
    BY <1>1, <1>2, <1>6, <1>7, <1>9, <1>13, <2>2 DEF CallerAt, Binds
  <2>3. CASE u # t
    <3>1. tpc'[u] = "create" => Creates(u)'
      BY <1>1, <1>5, <1>7, <1>8, <1>9, <2>1, <2>3, ThreadFacts, PsockFacts
         DEF CallerAt, Creates, StackInv
    <3>2. tpc'[u] = "bind" => Binds(u)'
      BY <1>7, <1>8, <1>9, <2>1, <2>3, ThreadFacts DEF CallerAt, Binds
    <3>3. tpc'[u] = "send" => Sends(u)'
      BY <1>7, <1>8, <1>9, <2>1, <2>3, ThreadFacts DEF CallerAt, Sends
    <3> QED BY <1>1, <1>9, <2>1, <2>3, <3>1, <3>2, <3>3 DEF CallerAt
  <2> QED BY <2>2, <2>3
<1>16. ServerInv'
  <2>1. spc \in Creating => Creates(rq)'
    BY <1>1, <1>7, <1>8, <1>11, PsockFacts DEF StackInv, ServerInv, Creates
  <2>2. spc \in Binding => Binds(rq)'
    BY <1>1, <1>7, <1>8, <1>11, SMTT(30) DEF StackInv, ServerInv, Binds
  <2>3. spc = "new" =>
          /\ psock'[ProcessOf[rq]][arg[rq].index].addr = psock[ProcessOf[rq]][arg[rq].index].addr
          /\ \A q \in Processes : \A i \in DOMAIN psock'[q] : psock'[q][i].tx # lserver
    <3>1. spc = "new" => arg[rq].index \in DOMAIN psock[ProcessOf[rq]]
      BY <1>11, CreatesFact DEF StackInv, ServerInv, Creating
    <3> QED BY <1>7, <1>8, <1>11, <3>1, SMTT(30) DEF StackInv, ServerInv, Creating
  <2> QED BY <1>1, <1>11, <2>1, <2>2, <2>3 DEF StackInv, ServerInv, Creating, Binding, Bound
<1>17. CapInv'
  BY <1>1, <1>11 DEF StackInv, CapInv, RxCap, Creating, Binding, Bound
<1>18. DistinctInv'
  BY <1>7, <1>8 DEF StackInv, DistinctInv
<1>19. ProcSockInv'
  <2>1. ASSUME NEW q \in Processes, NEW i \in DOMAIN psock[q]
        PROVE  SockAt(q, i)'
    <3>1. SockAt(q, i)
      BY DEF StackInv, ProcSockInv
    <3>2. psock'[q][i].tx = 0 => Unmade(q, i)'
      BY <1>1, <1>7, <1>8, <3>1 DEF SockAt, Unmade
    <3>3. psock'[q][i].tx # 0 => Linked(q, i)' /\ Obtained(q, i)' /\ PortKnown(q, i)'
      BY <1>1, <1>8, <3>1 DEF SockAt, Linked, Obtained, PortKnown
    <3>4. Waited(q, i)'
      <4>1. CASE q = p /\ i = k
        BY <1>2, <1>6, <1>7, <1>9, <4>1 DEF Waited
      <4>2. CASE q # p \/ i # k
        <5>1. psock[q][i].aep # None => psock[q][i].aep \in Threads
          BY PsockFacts DEF StackInv, SockType
        <5> QED BY <1>1, <1>7, <1>9, <3>1, <4>2, <5>1, ZenonT(30) DEF SockAt, Waited
      <4> QED BY <4>1, <4>2
    <3> QED BY <3>2, <3>3, <3>4 DEF SockAt
  <2> QED BY <1>7, <2>1 DEF StackInv, ProcSockInv
<1> QED BY <1>4, <1>10, <1>14, <1>15, <1>16, <1>17, <1>18, <1>19 DEF StackInv

\* sel4osapi_udp_sd_to_socket: under the mutex all sockets of the process are
\* finished, so the first one with the id is the one it names.
LEMMA SdToSocketInv ==
  ASSUME StackInv, NEW t \in Threads, SdToSocket(t)
  PROVE  StackInv'
<1> DEFINE p == ProcessOf[t]
           sd == arg[t].sd
<1>1. /\ UNCHANGED <<rpc, clients, ifaces, mutex, psock, pmutex, calls, spc, rq,
                    lclient, liface, lserver, sockets, slots, mint, path>>
      /\ pmutex[p] = None
      /\ tpc[t] = "sd_lock"
      /\ tpc' = [tpc EXCEPT ![t] = "send"]
  BY DEF SdToSocket, Enter, rootVars, serverVars, localVars, capVars
<1>2. PICK k \in DOMAIN psock[p] :
        /\ psock[p][k].id = sd
        /\ arg' = [arg EXCEPT ![t].index = k]
  BY DEF SdToSocket
<1>3. /\ p \in Processes /\ t # None
      /\ tpc \in [Threads -> TpcSet]
      /\ arg \in [Threads -> ArgType]
  BY ThreadFacts, TypeParts DEF StackInv, ProcType
<1>4. psock[p][k].tx = sd /\ sd # 0
  <2>1. SockAt(p, k)
    BY <1>3 DEF StackInv, ProcSockInv
  <2> QED BY <1>1, <1>2, <2>1 DEF SockAt, Unmade, Linked
<1>5. k \in Ids
  BY <1>3, PsockFacts, BoundsAssumption DEF StackInv, ProcSockInv, Ids
<1>6. /\ \A u \in Threads : u # t => tpc'[u] = tpc[u] /\ arg'[u] = arg[u]
      /\ tpc'[t] = "send"
      /\ arg'[t].index = k /\ arg'[t].sd = sd
      /\ arg' \in [Threads -> ArgType]
      /\ tpc' \in [Threads -> TpcSet]
  <2>1. arg[t] \in ArgType /\ arg'[t] = [arg[t] EXCEPT !.index = k]
    BY <1>2, <1>3
  <2>2. arg'[t] \in ArgType /\ arg'[t].index = k /\ arg'[t].sd = sd
    BY <1>5, <2>1 DEF ArgType
  <2> QED BY <1>1, <1>2, <1>3, <2>2 DEF TpcSet
<1>7. TypeOK'
  <2>1. RootType' /\ LocalType' /\ ServerType'
    BY <1>1, TypeParts DEF StackInv, RootType, LocalType, ServerType
  <2>2. ProcType'
    BY <1>1, <1>6, TypeParts DEF StackInv, ProcType
  <2> QED BY <2>1, <2>2, TypePartsNext
<1>8. RootInv' /\ SocketInv' /\ IfaceServes' /\ IfaceInv' /\ DistinctInv'
  BY <1>1 DEF StackInv, RootInv, SocketInv, IfaceServes, IfaceInv, DistinctInv
<1>9. RunsInv'
  <2>1. Registered(p)
    <3>1. Len(psock[p]) # 0
      BY <1>3, PsockFacts DEF StackInv
    <3> QED BY <1>3, <3>1 DEF StackInv, RunsInv
  <2> QED BY <1>1, <1>6, <2>1 DEF StackInv, RunsInv, Registered
<1>10. CallerInv'
  <2> SUFFICES ASSUME NEW u \in Threads PROVE CallerAt(u)'
    BY DEF CallerInv
  <2>1. CallerAt(u)
    BY DEF StackInv, CallerInv
  <2>2. CASE u = t
    BY <1>1, <1>2, <1>4, <1>6, <2>2 DEF CallerAt, Sends
  <2>3. CASE u # t
    BY <1>1, <1>6, <2>1, <2>3 DEF CallerAt, Creates, Binds, Sends
  <2> QED BY <2>2, <2>3
<1>11. spc \in Creating \cup Binding =>
         rq \in Threads /\ arg'[rq] = arg[rq] /\ tpc'[rq] = tpc[rq]
  BY <1>1, <1>6 DEF StackInv, ServerInv
<1>12. ServerInv' /\ CapInv'
  BY <1>1, <1>11 DEF StackInv, ServerInv, CapInv, Creates, Binds, RxCap, Creating,
     Binding, Bound
<1>13. ProcSockInv'
  <2>1. ASSUME NEW q \in Processes, NEW i \in DOMAIN psock[q]
        PROVE  SockAt(q, i)'
    <3>1. SockAt(q, i)
      BY DEF StackInv, ProcSockInv
    <3>2. psock[q][i].aep # None => psock[q][i].aep \in Threads
      BY PsockFacts DEF StackInv, SockType
    <3>3. Waited(q, i)'
      BY <1>1, <1>6, <3>1, <3>2 DEF SockAt, Waited
    <3> QED BY <1>1, <3>1, <3>3 DEF SockAt, Unmade, Linked, Obtained, PortKnown
  <2> QED BY <1>1, <2>1 DEF StackInv, ProcSockInv
<1> QED BY <1>7, <1>8, <1>9, <1>10, <1>12, <1>13 DEF StackInv

\* The tx thread answers.
LEMMA TxServeInv ==
  ASSUME StackInv, NEW t \in Threads, TxServe(t)
  PROVE  StackInv'
<1>1. /\ UNCHANGED <<rpc, clients, ifaces, mutex, psock, pmutex, calls, spc, rq,
                    lclient, liface, lserver, sockets, slots, mint, path>>
      /\ tpc[t] = "send"
      /\ tpc' = [tpc EXCEPT ![t] = "run"]
      /\ arg' = [arg EXCEPT ![t] = NoArg]
  BY DEF TxServe, Enter, rootVars, serverVars, localVars, capVars
<1>2. /\ tpc \in [Threads -> TpcSet]
      /\ arg \in [Threads -> ArgType]
  BY TypeParts DEF StackInv, ProcType
<1>3. /\ \A u \in Threads : u # t => tpc'[u] = tpc[u] /\ arg'[u] = arg[u]
      /\ tpc'[t] = "run"
      /\ arg' \in [Threads -> ArgType]
      /\ tpc' \in [Threads -> TpcSet]
  <2>1. NoArg \in ArgType
    BY BoundsAssumption DEF ArgType, NoArg, Ids
  <2> QED BY <1>1, <1>2, <2>1 DEF TpcSet
<1>4. TypeOK'
  <2>1. RootType' /\ LocalType' /\ ServerType'
    BY <1>1, TypeParts DEF StackInv, RootType, LocalType, ServerType
  <2>2. ProcType'
    BY <1>1, <1>3, TypeParts DEF StackInv, ProcType
  <2> QED BY <2>1, <2>2, TypePartsNext
<1>5. RootInv' /\ SocketInv' /\ IfaceServes' /\ IfaceInv' /\ DistinctInv'
  BY <1>1 DEF StackInv, RootInv, SocketInv, IfaceServes, IfaceInv, DistinctInv
<1>6. RunsInv' /\ CallerInv'
  <2>1. \A u \in Threads : CallerAt(u)'
    BY <1>1, <1>3 DEF StackInv, CallerInv, CallerAt, Creates, Binds, Sends
  <2> QED BY <1>1, <1>3, <2>1 DEF StackInv, RunsInv, Registered, CallerInv
<1>7. spc \in Creating \cup Binding =>
         rq \in Threads /\ arg'[rq] = arg[rq] /\ tpc'[rq] = tpc[rq]
  BY <1>1, <1>3 DEF StackInv, ServerInv
<1>8. ServerInv' /\ CapInv'
  BY <1>1, <1>7 DEF StackInv, ServerInv, CapInv, Creates, Binds, RxCap, Creating,
     Binding, Bound
<1>9. ProcSockInv'
  <2>1. ASSUME NEW q \in Processes, NEW i \in DOMAIN psock[q]
        PROVE  SockAt(q, i)'
    <3>1. SockAt(q, i)
      BY DEF StackInv, ProcSockInv
    <3>2. psock[q][i].aep # None => psock[q][i].aep \in Threads
      BY PsockFacts DEF StackInv, SockType
    <3>3. Waited(q, i)'
      BY <1>1, <1>3, <3>1, <3>2 DEF SockAt, Waited
    <3> QED BY <1>1, <3>1, <3>3 DEF SockAt, Unmade, Linked, Obtained, PortKnown
  <2> QED BY <1>1, <2>1 DEF StackInv, ProcSockInv
<1> QED BY <1>4, <1>5, <1>6, <1>8, <1>9 DEF StackInv

\* What the socket server of a finished socket is.
LEMMA LinkedFact ==
  ASSUME StackInv, NEW q \in Processes, NEW i \in DOMAIN psock[q], psock[q][i].tx # 0
  PROVE  /\ Linked(q, i) /\ Obtained(q, i) /\ PortKnown(q, i)
         /\ psock[q][i].id \in DOMAIN sockets
  BY DEF StackInv, ProcSockInv, SockAt, Linked

\* A thread is served at a time, and it is the only one that waits.
LEMMA ServedFact ==
  ASSUME StackInv, spc # "aborted"
  PROVE  /\ spc \in Creating \cup Binding =>
              rq \in Threads /\ tpc[rq] = "waiting" /\ ProcessOf[rq] \in Processes
         /\ \A u \in Threads : tpc[u] = "waiting" => spc \in Creating \cup Binding /\ rq = u
  BY ThreadFacts DEF StackInv, ServerInv, CallerInv, CallerAt

\* The socket that is being bound.
LEMMA BindingFact ==
  ASSUME StackInv, spc \in Binding
  PROVE  /\ arg[rq].sd \in DOMAIN sockets
         /\ spc \in Bound => lserver = arg[rq].sd
<1>1. rq \in Threads /\ Binds(rq)
  BY DEF StackInv, ServerInv
<1>2. ProcessOf[rq] \in Processes
  BY <1>1, ThreadFacts
<1> QED BY <1>1, <1>2, LinkedFact DEF Binds, StackInv, ServerInv

\* seL4_Recv.  The slot for the cap of a bind is always empty, so the server
\* never stops here.
LEMMA ServerRecvInv ==
  ASSUME StackInv, NEW t \in Threads, ServerRecv(t)
  PROVE  StackInv' /\ spc' # "aborted"
<1>1. /\ UNCHANGED <<rpc, clients, ifaces, mutex, psock, pmutex, arg, calls,
                    lclient, liface, lserver, sockets>>
      /\ spc = "recv"
  BY DEF ServerRecv, Abort, rootVars, localVars, capVars
<1>2. mint = path /\ slots[path] = NoCap
  BY <1>1 DEF StackInv, CapInv
<1>3. /\ tpc[t] \in {"create", "bind"} /\ spc' = tpc[t] /\ rq' = t
      /\ tpc' = [tpc EXCEPT ![t] = "waiting"]
      /\ mint' = mint /\ path' = path
      /\ tpc[t] = "create" => slots' = slots
      /\ tpc[t] = "bind" =>
           slots' = [slots EXCEPT ![path] = [kind |-> "aep", sock |-> arg[t].sd, by |-> t]]
  BY <1>2 DEF ServerRecv, Enter, capVars
<1>4. /\ tpc \in [Threads -> TpcSet]
      /\ path \in DOMAIN slots
      /\ arg[t].sd \in Ids
      /\ slots \in Seq(Caps)
  BY TypeParts DEF StackInv, ProcType, ServerType, ArgType
<1>5. /\ slots' \in Seq(Caps)
      /\ DOMAIN slots' = DOMAIN slots
      /\ \A n \in DOMAIN slots : n # path => slots'[n] = slots[n]
      /\ tpc[t] = "create" => slots'[path] = NoCap
      /\ tpc[t] = "bind" =>
           slots'[path] = [kind |-> "aep", sock |-> arg[t].sd, by |-> t]
  <2>1. [kind |-> "aep", sock |-> arg[t].sd, by |-> t] \in Caps
    BY <1>4 DEF Caps
  <2> QED BY <1>2, <1>3, <1>4, <2>1
<1>6. /\ \A u \in Threads : u # t => tpc'[u] = tpc[u] /\ tpc[u] # "waiting"
      /\ tpc'[t] = "waiting"
      /\ tpc' \in [Threads -> TpcSet]
  <2>1. \A u \in Threads : tpc[u] # "waiting"
    BY <1>1, ServedFact DEF Creating, Binding, Bound
  <2> QED BY <1>3, <1>4, <2>1 DEF TpcSet
<1>7. \A s \in DOMAIN sockets : sockets[s].port # 0 =>
        slots'[sockets[s].aep] = slots[sockets[s].aep]
  BY <1>2, <1>5 DEF StackInv, SocketInv, NoCap
<1>8. TypeOK'
  <2>1. RootType' /\ LocalType'
    BY <1>1, <1>3, TypeParts DEF StackInv, RootType, LocalType
  <2>2. ProcType'
    BY <1>1, <1>6, TypeParts DEF StackInv, ProcType
  <2>3. ServerType'
    BY <1>1, <1>3, <1>5, TypeParts DEF StackInv, ServerType
  <2> QED BY <2>1, <2>2, <2>3, TypePartsNext
<1>9. RootInv' /\ IfaceServes' /\ IfaceInv' /\ DistinctInv'
  BY <1>1, <1>3 DEF StackInv, RootInv, IfaceServes, IfaceInv, DistinctInv
<1>10. RunsInv'
  BY <1>1, <1>3, <1>6 DEF StackInv, RunsInv, Registered
<1>11. CallerInv'
  <2> SUFFICES ASSUME NEW u \in Threads PROVE CallerAt(u)'
    BY DEF CallerInv
  <2>1. CallerAt(u)
    BY DEF StackInv, CallerInv
  <2>2. CASE u = t
    BY <1>3, <1>6, <2>2 DEF CallerAt, Creating, Binding
  <2>3. CASE u # t
    BY <1>1, <1>6, <2>1, <2>3 DEF CallerAt, Creates, Binds, Sends
  <2> QED BY <2>2, <2>3
<1>12. ServerInv' /\ CapInv' /\ SocketInv'
  <2>1. CallerAt(t)
    BY DEF StackInv, CallerInv
  <2>2. tpc[t] = "create" => Creates(t)'
    BY <1>1, <2>1 DEF CallerAt, Creates
  <2>3. tpc[t] = "bind" => Binds(t)'
    BY <1>1, <2>1 DEF CallerAt, Binds
  <2>4. ServerInv'
    BY <1>1, <1>3, <1>6, <2>2, <2>3
       DEF StackInv, ServerInv, Creates, Binds, Creating, Binding, Bound
  <2>5. CapInv'
    BY <1>1, <1>2, <1>3, <1>5 DEF CapInv, Creating, Bound
  <2>6. SocketInv'
    BY <1>1, <1>5, <1>7 DEF StackInv, SocketInv
  <2> QED BY <2>4, <2>5, <2>6
<1>13. ProcSockInv'
  <2>1. ASSUME NEW q \in Processes, NEW i \in DOMAIN psock[q]
        PROVE  SockAt(q, i)'
    <3>1. SockAt(q, i)
      BY DEF StackInv, ProcSockInv
    <3>2. psock[q][i].aep # None => psock[q][i].aep \in Threads
      BY PsockFacts DEF StackInv, SockType
    <3>3. Waited(q, i)'
      BY <1>1, <1>3, <1>6, <3>1, <3>2 DEF SockAt, Waited
    <3>4. psock'[q][i].tx # 0 => Linked(q, i)' /\ PortKnown(q, i)'
      BY <1>1, <1>3, <3>1 DEF SockAt, Linked, PortKnown, Bound
    <3>5. psock'[q][i].tx # 0 => Obtained(q, i)'
      BY <1>1, <1>7, <3>1 DEF SockAt, Linked, Obtained
    <3> QED BY <1>1, <3>1, <3>3, <3>4, <3>5 DEF SockAt, Unmade
  <2> QED BY <1>1, <2>1 DEF StackInv, ProcSockInv
<1>14. spc' # "aborted"
  BY <1>3
<1> QED BY <1>8, <1>9, <1>10, <1>11, <1>12, <1>13, <1>14 DEF StackInv

\* A failed assert of the server: nobody is served any more.
LEMMA AbortInv ==
  ASSUME StackInv, spc' = "aborted", rq' = rq, LocalType',
         sockets # << >> => liface' # 0,
         UNCHANGED <<rootVars, mutex, procVars, sockets, capVars>>
  PROVE  StackInv'
<1>1. UNCHANGED <<rpc, clients, ifaces, mutex, psock, pmutex, tpc, arg, calls,
                  sockets, slots, mint, path>>
  BY DEF rootVars, procVars, capVars
<1>2. TypeOK'
  <2>1. RootType' /\ ProcType' /\ ServerType'
    BY <1>1, TypeParts DEF StackInv, RootType, ProcType, ServerType
  <2> QED BY <2>1, TypePartsNext
<1>3. RootInv' /\ RunsInv' /\ IfaceServes' /\ IfaceInv' /\ DistinctInv'
  BY <1>1 DEF StackInv, RootInv, RunsInv, Registered, IfaceServes, IfaceInv, DistinctInv
<1>4. CallerInv' /\ ServerInv' /\ CapInv' /\ SocketInv'
  BY <1>1, SMTT(30) DEF StackInv, CallerInv, CallerAt, Creates, Binds, Sends, ServerInv, CapInv,
     SocketInv, Creating, Binding, Bound
<1>5. ProcSockInv'
  BY <1>1, SMTT(30) DEF StackInv, ProcSockInv, SockAt, Unmade, Linked, Obtained, PortKnown, Waited
<1> QED BY <1>2, <1>3, <1>4, <1>5 DEF StackInv

\* A step of the server that leaves alone what the others know of a socket: it
\* changes only whether its threads run and what lwIP has of it.
Kept(s) ==
  /\ sockets'[s].addr = sockets[s].addr
  /\ sockets'[s].client = sockets[s].client
  /\ sockets'[s].iface = sockets[s].iface
  /\ sockets'[s].found = sockets[s].found
  /\ sockets'[s].port = sockets[s].port
  /\ sockets'[s].aep = sockets[s].aep
  /\ sockets'[s].ep = sockets[s].ep
  /\ sockets'[s].msgs = sockets[s].msgs
  /\ sockets'[s].recv => sockets[s].recv \/ sockets[s].port # 0

\* A step of the server that keeps the sockets and the slots there are.
LEMMA ServerFrame ==
  ASSUME StackInv, spc # "aborted",
         UNCHANGED <<rootVars, procVars, localVars>>,
         DOMAIN sockets' = DOMAIN sockets,
         \A s \in DOMAIN sockets : Kept(s),
         \A n \in DOMAIN slots : n \in DOMAIN slots' /\ slots'[n] = slots[n],
         \/ spc' = "aborted" /\ rq' = rq
         \/ spc \in Bound /\ spc' \in Bound /\ rq' = rq
         \/ spc \notin Creating \cup Binding /\ spc' \notin Creating \cup Binding
  PROVE  /\ ProcType' /\ RootInv' /\ RunsInv' /\ IfaceServes' /\ IfaceInv' /\ CallerInv'
         /\ SocketInv' /\ DistinctInv' /\ ProcSockInv'
<1>1. UNCHANGED <<rpc, clients, ifaces, psock, pmutex, tpc, arg, calls, lserver>>
  BY DEF rootVars, procVars, localVars
<1>2. ProcType' /\ RootInv' /\ RunsInv' /\ DistinctInv'
  BY <1>1, TypeParts DEF StackInv, ProcType, RootInv, RunsInv, Registered, DistinctInv
<1>3. IfaceServes' /\ IfaceInv'
  BY <1>1 DEF StackInv, IfaceServes, IfaceInv, Kept
<1>4. CallerInv'
  BY <1>1 DEF StackInv, CallerInv, CallerAt, Creates, Binds, Sends, Creating, Binding, Bound
<1>5. SocketInv'
  BY DEF StackInv, SocketInv, Kept
<1>6. ASSUME NEW q \in Processes, NEW i \in DOMAIN psock[q]
      PROVE  SockAt(q, i)'
  <2>1. SockAt(q, i)
    BY DEF StackInv, ProcSockInv
  <2>2. ASSUME psock[q][i].tx # 0
        PROVE  Linked(q, i)' /\ Obtained(q, i)' /\ PortKnown(q, i)'
    <3>1. psock[q][i].id \in DOMAIN sockets
      BY <2>1, <2>2 DEF SockAt, Linked
    <3>2. Linked(q, i)'
      BY <1>1, <2>1, <2>2, <3>1 DEF SockAt, Linked, Kept
    <3>3. sockets[psock[q][i].id].port # 0 =>
            slots'[sockets[psock[q][i].id].aep] = slots[sockets[psock[q][i].id].aep]
      BY <3>1 DEF StackInv, SocketInv
    <3>4. Obtained(q, i)'
      BY <1>1, <2>1, <2>2, <3>1, <3>3 DEF SockAt, Obtained, Kept
    <3>5. PortKnown(q, i)'
      BY <1>1, <2>1, <2>2, <3>1 DEF SockAt, PortKnown, Kept, Binding
    <3> QED BY <3>2, <3>4, <3>5
  <2> QED BY <1>1, <2>1, <2>2 DEF SockAt, Unmade, Waited
<1>7. ProcSockInv'
  BY <1>1, <1>6 DEF StackInv, ProcSockInv
<1> QED BY <1>2, <1>3, <1>4, <1>5, <1>7

\* The mutex of the socket's interface is taken before lwIP is entered.
LEMMA BindLockInv ==
  ASSUME StackInv, BindLock
  PROVE  StackInv'
<1> DEFINE f == sockets[lserver].iface
<1>1. /\ UNCHANGED <<rootVars, procVars, localVars, rq, sockets, slots, mint, path>>
      /\ UNCHANGED <<psock, arg, tpc, pmutex, lserver, liface>>
      /\ spc = "lock" /\ spc' = "pcb"
      /\ mutex' = [mutex EXCEPT ![f] = "stack"]
  BY DEF BindLock, capVars, procVars, localVars
<1>2. lserver \in DOMAIN sockets
  BY <1>1, BindingFact DEF Binding, Bound
<1>3. f \in Ifaces
  BY <1>2, ServerFacts DEF StackInv, ServType
<1>4. mutex \in [Ifaces -> {"free", "stack", "irq"}]
  BY TypeParts DEF StackInv, RootType
<1>5. mutex' \in [Ifaces -> {"free", "stack", "irq"}] /\ mutex'[f] = "stack"
  BY <1>1, <1>3, <1>4
<1>6. /\ ProcType' /\ RootInv' /\ RunsInv' /\ IfaceServes' /\ IfaceInv' /\ CallerInv'
      /\ SocketInv' /\ DistinctInv' /\ ProcSockInv'
  BY <1>1, ServerFrame DEF Kept, Bound
<1>7. RootType' /\ LocalType' /\ ServerType'
  BY <1>1, <1>5, TypeParts DEF StackInv, RootType, LocalType, ServerType, rootVars, localVars
<1>8. ServerInv' /\ CapInv'
  BY <1>1 DEF StackInv, ServerInv, CapInv, Creates, Binds, RxCap, Creating, Binding, Bound
<1> QED BY <1>6, <1>7, <1>8, TypePartsNext DEF StackInv

\* The tx thread is started, and the server waits for the next request.
LEMMA StartTxInv ==
  ASSUME StackInv, StartTx
  PROVE  StackInv'
<1> DEFINE s == lserver
<1>1. /\ UNCHANGED <<rootVars, procVars, localVars, mutex, slots, mint, path>>
      /\ UNCHANGED <<lserver, liface>>
      /\ spc = "start_tx" /\ spc' = "recv" /\ rq' = None
      /\ sockets' = [sockets EXCEPT ![s].tx = TRUE]
  BY DEF StartTx, TxRuns, capVars, localVars
<1>2. s \in DOMAIN sockets
  BY <1>1, ServerFacts DEF StackInv, ServerInv, TypeOK
<1>3. /\ sockets' \in Seq(ServType) /\ DOMAIN sockets' = DOMAIN sockets
      /\ Len(sockets') = Len(sockets)
      /\ \A o \in DOMAIN sockets : Kept(o)
  <2>1. /\ sockets \in Seq(ServType) /\ sockets[s] \in ServType
        /\ \A o \in DOMAIN sockets : sockets[o] \in ServType
    BY <1>2, ServerFacts DEF StackInv
  <2>2. [sockets[s] EXCEPT !.tx = TRUE] \in ServType
    BY <2>1 DEF ServType
  <2>3. /\ sockets' \in Seq(ServType) /\ DOMAIN sockets' = DOMAIN sockets
        /\ Len(sockets') = Len(sockets)
    BY <1>1, <1>2, <2>1, <2>2
  <2>4. \A o \in DOMAIN sockets : Kept(o)
    BY <1>1, <1>2, <2>1 DEF Kept, ServType
  <2> QED BY <2>3, <2>4
<1>4. /\ ProcType' /\ RootInv' /\ RunsInv' /\ IfaceServes' /\ IfaceInv' /\ CallerInv'
      /\ SocketInv' /\ DistinctInv' /\ ProcSockInv'
  BY <1>1, <1>3, ServerFrame DEF Creating, Binding, Bound
<1>5. RootType' /\ LocalType' /\ ServerType'
  BY <1>1, <1>3, TypeParts DEF StackInv, RootType, LocalType, ServerType, rootVars, localVars
<1>6. sockets' # << >> => liface' # 0
  BY <1>1, <1>2 DEF StackInv, ServerInv
<1>7. ServerInv' /\ CapInv'
  BY <1>1, <1>6 DEF StackInv, ServerInv, CapInv, Creating, Binding, Bound
<1> QED BY <1>4, <1>5, <1>7, TypePartsNext DEF StackInv

\* udp_bind: on success the mutex is released, on failure the server stops.
LEMMA BindPcbInv ==
  ASSUME StackInv, BindPcb
  PROVE  /\ StackInv'
         /\ spc' = "aborted" => InUse(lserver)
<1> DEFINE s == lserver
           f == sockets[lserver].iface
<1>1. /\ UNCHANGED <<rootVars, procVars, localVars, rq, slots, mint, path>>
      /\ UNCHANGED <<psock, arg, tpc, pmutex, lserver, liface>>
      /\ spc = "pcb"
      /\ \/ /\ InUse(lserver) /\ spc' = "aborted" /\ mutex' = mutex
            /\ sockets' = [sockets EXCEPT ![s].recv = TRUE]
         \/ /\ spc' = "bound" /\ mutex' = [mutex EXCEPT ![f] = "free"]
            /\ sockets' = [sockets EXCEPT ![s].recv = TRUE, ![s].bound = TRUE]
  BY DEF BindPcb, BoundIface, capVars, procVars, localVars
<1>2. lserver \in DOMAIN sockets
  BY <1>1, BindingFact DEF Binding, Bound
<1>3. mutex' \in [Ifaces -> {"free", "stack", "irq"}]
  BY <1>1, TypeParts DEF StackInv, RootType
<1>4. sockets[s].port # 0
  BY <1>1 DEF StackInv, ServerInv, Binds, Binding, Bound
<1>5. /\ sockets' \in Seq(ServType) /\ DOMAIN sockets' = DOMAIN sockets
      /\ Len(sockets') = Len(sockets)
      /\ \A o \in DOMAIN sockets : Kept(o)
  <2>1. /\ sockets \in Seq(ServType) /\ sockets[s] \in ServType
        /\ \A o \in DOMAIN sockets : sockets[o] \in ServType
    BY <1>2, ServerFacts DEF StackInv
  <2>2. /\ [sockets[s] EXCEPT !.recv = TRUE] \in ServType
        /\ [sockets[s] EXCEPT !.recv = TRUE, !.bound = TRUE] \in ServType
    BY <2>1 DEF ServType
  <2>3. /\ sockets' \in Seq(ServType) /\ DOMAIN sockets' = DOMAIN sockets
        /\ Len(sockets') = Len(sockets)
    <3>1. \E r \in ServType : sockets' = [sockets EXCEPT ![s] = r]
      <4>1. CASE sockets' = [sockets EXCEPT ![s].recv = TRUE]
        BY <2>2, <4>1
      <4>2. CASE sockets' = [sockets EXCEPT ![s].recv = TRUE, ![s].bound = TRUE]
        <5>1. sockets' = [sockets EXCEPT ![s] = [sockets[s] EXCEPT !.recv = TRUE, !.bound = TRUE]]
          BY <1>2, <2>1, <4>2 DEF ServType
        <5> QED BY <2>2, <5>1
      <4> QED BY <1>1, <4>1, <4>2
    <3> QED BY <1>2, <2>1, <3>1
  <2>4. \A o \in DOMAIN sockets : Kept(o)
    BY <1>1, <1>2, <1>4, <2>1 DEF Kept, ServType
  <2> QED BY <2>3, <2>4
<1>6. /\ ProcType' /\ RootInv' /\ RunsInv' /\ IfaceServes' /\ IfaceInv' /\ CallerInv'
      /\ SocketInv' /\ DistinctInv' /\ ProcSockInv'
  BY <1>1, <1>5, ServerFrame DEF Creating, Binding, Bound
<1>7. RootType' /\ LocalType' /\ ServerType'
  BY <1>1, <1>3, <1>5, TypeParts DEF StackInv, RootType, LocalType, ServerType, rootVars,
     localVars
<1>8. sockets' # << >> => liface' # 0
  BY <1>1, <1>2 DEF StackInv, ServerInv
<1>9. /\ sockets'[lserver].port = sockets[lserver].port
      /\ sockets'[lserver].aep = sockets[lserver].aep
  BY <1>2, <1>5 DEF Kept
<1>10. ServerInv' /\ CapInv'
  BY <1>1, <1>8, <1>9
     DEF StackInv, ServerInv, CapInv, Binds, RxCap, Creating, Binding, Bound
<1>11. StackInv'
  BY <1>6, <1>7, <1>10, TypePartsNext DEF StackInv
<1> QED BY <1>1, <1>11

\* The rx thread is started, and a new empty slot takes the next request's cap.
LEMMA StartRxInv ==
  ASSUME StackInv, StartRx
  PROVE  StackInv'
<1> DEFINE s == lserver
<1>1. /\ UNCHANGED <<rootVars, procVars, localVars, mutex>>
      /\ UNCHANGED <<lserver, liface>>
      /\ spc = "start_rx" /\ spc' = "recv" /\ rq' = None
      /\ sockets' = [sockets EXCEPT ![s].rx = TRUE]
      /\ slots' = Append(slots, NoCap)
      /\ mint' = Len(slots) + 1 /\ path' = Len(slots) + 1
  BY DEF StartRx, NextPath, localVars
<1>2. s \in DOMAIN sockets
  BY <1>1, ServerFacts DEF StackInv, ServerInv, TypeOK
<1>3. /\ sockets' \in Seq(ServType) /\ DOMAIN sockets' = DOMAIN sockets
      /\ Len(sockets') = Len(sockets)
      /\ \A o \in DOMAIN sockets : Kept(o)
  <2>1. /\ sockets \in Seq(ServType) /\ sockets[s] \in ServType
        /\ \A o \in DOMAIN sockets : sockets[o] \in ServType
    BY <1>2, ServerFacts DEF StackInv
  <2>2. [sockets[s] EXCEPT !.rx = TRUE] \in ServType
    BY <2>1 DEF ServType
  <2>3. /\ sockets' \in Seq(ServType) /\ DOMAIN sockets' = DOMAIN sockets
        /\ Len(sockets') = Len(sockets)
    BY <1>1, <1>2, <2>1, <2>2
  <2>4. \A o \in DOMAIN sockets : Kept(o)
    BY <1>1, <1>2, <2>1 DEF Kept, ServType
  <2> QED BY <2>3, <2>4
<1>4. /\ slots' \in Seq(Caps)
      /\ DOMAIN slots' = 1 .. Len(slots) + 1
      /\ Len(slots) \in Nat
      /\ \A n \in DOMAIN slots : n \in DOMAIN slots' /\ slots'[n] = slots[n]
      /\ slots'[Len(slots) + 1] = NoCap
  <2>1. NoCap \in Caps
    BY BoundsAssumption DEF Caps, NoCap, Ids
  <2>2. slots \in Seq(Caps)
    BY ServerFacts DEF StackInv
  <2> QED BY <1>1, <2>1, <2>2
<1>5. /\ ProcType' /\ RootInv' /\ RunsInv' /\ IfaceServes' /\ IfaceInv' /\ CallerInv'
      /\ SocketInv' /\ DistinctInv' /\ ProcSockInv'
  BY <1>1, <1>3, <1>4, ServerFrame DEF Creating, Binding, Bound
<1>6. RootType' /\ LocalType'
  BY <1>1, <1>3, TypeParts DEF StackInv, RootType, LocalType, rootVars, localVars
<1>7. ServerType'
  <2>1. Len(sockets) <= MaxSockets
    BY TypeParts DEF StackInv, ServerType
  <2> QED BY <1>1, <1>3, <1>4, <2>1 DEF ServerType
<1>8. sockets' # << >> => liface' # 0
  BY <1>1, <1>2 DEF StackInv, ServerInv
<1>9. ServerInv' /\ CapInv'
  BY <1>1, <1>4, <1>8 DEF StackInv, ServerInv, CapInv, Creating, Binding, Bound
<1> QED BY <1>5, <1>6, <1>7, <1>9, TypePartsNext DEF StackInv

\* UDPSTACK_BIND_SOCKET.  The socket is found; it has a port already only if
\* its process knows of one, and then another thread has bound it.
LEMMA ServeBindInv ==
  ASSUME StackInv, ServeBind
  PROVE  /\ StackInv'
         /\ spc' = "aborted" => \E u \in Threads \ {rq} :
              ProcessOf[u] = ProcessOf[rq] /\ Owned(rq)[arg[rq].index].got[u] # 0
<1> DEFINE s == arg[rq].sd
           p == ProcessOf[rq]
           k == arg[rq].index
<1>1. s \in DOMAIN sockets /\ spc = "bind"
  BY BindingFact DEF ServeBind, Binding
<1>2. /\ UNCHANGED <<rootVars, procVars, mutex, lclient, liface, rq, path>>
      /\ UNCHANGED <<rpc, clients, ifaces, psock, pmutex, tpc, arg, calls>>
      /\ lserver' = s
      /\ \/ /\ sockets[s].port = 0 /\ spc' = "lock"
            /\ sockets' = [sockets EXCEPT ![s].msgs = TRUE, ![s].aep = mint,
                                          ![s].port = arg[rq].port, ![s].ep = s]
            /\ slots' = Append(slots, RxCap(s))
            /\ mint' = Len(slots) + 1
         \/ sockets[s].port # 0 /\ spc' = "aborted" /\ UNCHANGED <<sockets, capVars>>
  <2>1. s # 0
    BY <1>1, ServerFacts DEF StackInv
  <2> QED BY <1>1, <2>1 DEF ServeBind, Abort, rootVars, procVars, capVars
<1>3. /\ rq \in Threads /\ p \in Processes /\ Binds(rq) /\ tpc[rq] = "waiting"
      /\ k \in DOMAIN psock[p] /\ psock[p][k].tx # 0 /\ psock[p][k].id = s
      /\ psock[p][k].got[rq] = 0 /\ arg[rq].port # 0
  BY <1>1, ThreadFacts DEF StackInv, ServerInv, Binding, Binds
<1>4. CASE sockets[s].port # 0 /\ spc' = "aborted" /\ UNCHANGED <<sockets, capVars>>
  <2>1. LocalType'
    BY <1>1, <1>2, <1>4, ServerFacts, TypeParts DEF StackInv, LocalType
  <2>2. StackInv'
    BY <1>2, <1>4, <2>1, AbortInv DEF StackInv, ServerInv
  <2>3. \E u \in Threads \ {rq} : ProcessOf[u] = p /\ psock[p][k].got[u] # 0
    <3>1. psock[p][k].port # 0
      BY <1>1, <1>3, <1>4, LinkedFact DEF PortKnown, Bound
    <3> QED BY <1>3, <3>1, LinkedFact, SMTT(30) DEF Obtained
  <2> QED BY <2>2, <2>3 DEF Owned
<1>5. CASE /\ sockets[s].port = 0 /\ spc' = "lock"
           /\ sockets' = [sockets EXCEPT ![s].msgs = TRUE, ![s].aep = mint,
                                         ![s].port = arg[rq].port, ![s].ep = s]
           /\ slots' = Append(slots, RxCap(s))
           /\ mint' = Len(slots) + 1
  <2>1. /\ sockets \in Seq(ServType) /\ sockets[s] \in ServType
        /\ \A o \in DOMAIN sockets : sockets[o] \in ServType
        /\ slots \in Seq(Caps) /\ Len(slots) \in Nat
        /\ DOMAIN slots = 1 .. Len(slots) /\ mint \in DOMAIN slots /\ path \in DOMAIN slots
        /\ arg[rq].port \in Ports \cup {0} /\ s \in Ids
        /\ Len(sockets) <= MaxSockets
    BY <1>1, <1>3, ServerFacts, TypeParts DEF StackInv, ServerType, ProcType, ArgType
  <2>2. /\ slots' \in Seq(Caps)
        /\ DOMAIN slots' = 1 .. Len(slots) + 1
        /\ \A n \in DOMAIN slots : n \in DOMAIN slots' /\ slots'[n] = slots[n]
        /\ slots'[Len(slots) + 1] = RxCap(s)
    <3>1. RxCap(s) \in Caps
      BY <2>1 DEF RxCap, Caps
    <3> QED BY <1>5, <2>1, <3>1
  <2>3. sockets' = [sockets EXCEPT ![s] = [sockets[s] EXCEPT !.msgs = TRUE, !.aep = mint,
                                             !.port = arg[rq].port, !.ep = s]]
    BY <1>1, <1>5, <2>1 DEF ServType
  <2>4. [sockets[s] EXCEPT !.msgs = TRUE, !.aep = mint, !.port = arg[rq].port, !.ep = s]
          \in ServType
    <3>1. mint \in Nat
      BY <2>1
    <3>2. sockets[s] \in ServType /\ arg[rq].port \in Ports \cup {0} /\ s \in Ids
      BY <2>1
    <3> HIDE DEF s
    <3> QED BY <3>1, <3>2 DEF ServType
  <2>5. /\ sockets' \in Seq(ServType) /\ DOMAIN sockets' = DOMAIN sockets
        /\ Len(sockets') = Len(sockets)
        /\ \A o \in DOMAIN sockets : o # s => sockets'[o] = sockets[o]
    BY <1>1, <2>1, <2>3, <2>4
  <2>6. /\ \A o \in DOMAIN sockets :
             /\ sockets'[o].addr = sockets[o].addr
             /\ sockets'[o].client = sockets[o].client
             /\ sockets'[o].iface = sockets[o].iface
             /\ sockets'[o].found = sockets[o].found
             /\ sockets'[o].recv = sockets[o].recv
        /\ sockets'[s].msgs /\ sockets'[s].aep = mint /\ sockets'[s].ep = s
        /\ sockets'[s].port = arg[rq].port
    BY <1>1, <2>1, <2>3 DEF ServType
  <2>7. slots'[mint] = [kind |-> "aep", sock |-> s, by |-> rq]
    BY <1>1, <2>1, <2>2 DEF StackInv, CapInv
  <2>8. TypeOK'
    <3>1. RootType' /\ ProcType'
      BY <1>2, TypeParts DEF StackInv, RootType, ProcType
    <3>2. LocalType'
      BY <1>1, <1>2, <1>5, <2>5, ServerFacts, TypeParts DEF StackInv, LocalType
    <3>3. ServerType'
      BY <1>2, <1>5, <2>1, <2>2, <2>5, SMTT(30) DEF ServerType
    <3> QED BY <3>1, <3>2, <3>3, TypePartsNext
  <2>9. RootInv' /\ RunsInv' /\ DistinctInv' /\ IfaceServes' /\ IfaceInv'
    <3>1. RootInv' /\ RunsInv' /\ DistinctInv'
      BY <1>2, SMTT(30) DEF StackInv, RootInv, RunsInv, Registered, DistinctInv
    <3>2. IfaceServes' /\ IfaceInv'
      BY <1>2, <2>5, <2>6, ZenonT(30) DEF StackInv, IfaceServes, IfaceInv
    <3> QED BY <3>1, <3>2
  <2>10. CallerInv'
    BY <1>1, <1>2, <1>5 DEF StackInv, CallerInv, CallerAt, Creates, Binds, Sends, Creating,
       Binding, Bound
  <2>11. ServerInv'
    <3>1. Binds(rq)'
      BY <1>2, <1>3 DEF Binds
    <3>2. sockets' # << >> => liface' # 0
      BY <1>1, <1>2 DEF StackInv, ServerInv
    <3>3. /\ lserver' = arg'[rq'].sd
          /\ sockets'[lserver'].port = arg'[rq'].port
          /\ slots'[sockets'[lserver'].aep].by = rq'
      BY <1>2, <2>6, <2>7, SMTT(30)
    <3>4. rq' \in Threads /\ tpc'[rq'] = "waiting"
      BY <1>2, <1>3
    <3> QED BY <1>2, <1>5, <3>1, <3>2, <3>3, <3>4
         DEF ServerInv, Creating, Binding, Bound
  <2>12. CapInv'
    BY <1>2, <1>5, <2>2 DEF CapInv, RxCap, Creating, Bound
  <2>13. SocketInv'
    <3> SUFFICES ASSUME NEW o \in DOMAIN sockets
                 PROVE  /\ sockets'[o].port # 0 =>
                             /\ sockets'[o].aep \in DOMAIN slots'
                             /\ slots'[sockets'[o].aep].kind = "aep"
                             /\ slots'[sockets'[o].aep].sock = o
                             /\ sockets'[o].msgs
                             /\ sockets'[o].ep = o
                        /\ sockets'[o].recv => sockets'[o].port # 0
      BY <2>5 DEF SocketInv
    <3>1. CASE o = s
      BY <1>3, <2>1, <2>2, <2>6, <2>7, <3>1
    <3>2. CASE o # s
      BY <2>2, <2>5, <3>2 DEF StackInv, SocketInv
    <3> QED BY <3>1, <3>2
  <2>14. ASSUME NEW q \in Processes, NEW i \in DOMAIN psock[q]
         PROVE  SockAt(q, i)'
    <3>1. SockAt(q, i)
      BY DEF StackInv, ProcSockInv
    <3>2. ASSUME psock[q][i].tx # 0
          PROVE  Linked(q, i)' /\ Obtained(q, i)' /\ PortKnown(q, i)'
      <4>1. psock[q][i].id \in DOMAIN sockets
        BY <3>2, LinkedFact
      <4>2. Linked(q, i)'
        BY <1>2, <2>5, <2>6, <3>2, <4>1, LinkedFact, ZenonT(30) DEF Linked
      <4>3. CASE psock[q][i].id = s
        <5>1. psock[q][i].port = 0
          BY <1>5, <3>2, <4>3, LinkedFact, SMTT(30) DEF Obtained
        <5>2. \A t \in Threads : psock[q][i].got[t] = 0
          BY <3>2, <5>1, LinkedFact DEF Obtained
        <5>3. Obtained(q, i)' /\ PortKnown(q, i)'
          BY <1>2, <1>5, <4>3, <5>1, <5>2 DEF Obtained, PortKnown, Bound
        <5> QED BY <4>2, <5>3
      <4>4. CASE psock[q][i].id # s
        <5>1. sockets'[psock[q][i].id] = sockets[psock[q][i].id]
          BY <2>5, <4>1, <4>4
        <5>2. sockets[psock[q][i].id].port # 0 =>
                slots'[sockets[psock[q][i].id].aep] = slots[sockets[psock[q][i].id].aep]
          BY <2>2, <4>1 DEF StackInv, SocketInv
        <5>3. Obtained(q, i)'
          <6>1. Obtained(q, i)
            BY <3>2, LinkedFact
          <6>2. \A t \in Threads : psock[q][i].got[t] # 0 =>
                  sockets[psock[q][i].id].port # 0
            BY <6>1 DEF Obtained
          <6> QED BY <1>2, <5>1, <5>2, <6>1, <6>2 DEF Obtained
        <5>4. PortKnown(q, i)'
          BY <1>1, <1>2, <3>2, <5>1, LinkedFact DEF PortKnown, Bound
        <5> QED BY <4>2, <5>3, <5>4
      <4> QED BY <4>3, <4>4
    <3> QED BY <1>2, <3>1, <3>2 DEF SockAt, Unmade, Waited
  <2>15. ProcSockInv'
    BY <1>2, <2>14 DEF StackInv, ProcSockInv
  <2> QED BY <1>5, <2>8, <2>9, <2>10, <2>11, <2>12, <2>13, <2>15 DEF StackInv
<1> QED BY <1>2, <1>4, <1>5

\* The reply to a bind: the caller has the endpoint and stores the port.
LEMMA ReplyBindInv ==
  ASSUME StackInv, ReplyBind
  PROVE  StackInv'
<1>1. /\ UNCHANGED <<rpc, clients, ifaces, mutex, calls, pmutex, rq, lclient, liface,
                     lserver, sockets, slots, mint, path>>
      /\ spc = "bound" /\ spc' = "start_rx"
  BY DEF ReplyBind, rootVars, localVars, capVars
<1>2. PICK t \in Threads : t = rq
  BY <1>1 DEF StackInv, ServerInv, Binding, Bound
<1>3. Binds(t) /\ tpc[t] = "waiting"
  BY <1>1, <1>2 DEF StackInv, ServerInv, Binding, Bound
<1> DEFINE p == ProcessOf[t]
<1>4. p \in Processes
  BY ThreadFacts
<1>5. PICK k \in DOMAIN psock[p] : k = arg[t].index
  BY <1>3 DEF Binds
<1>6. PICK s \in DOMAIN sockets : s = lserver
  BY <1>1, BindingFact DEF Binding, Bound
<1>7. PICK port \in Ports \cup {0} : port = arg[t].port
  BY TypeParts DEF StackInv, ProcType, ArgType
<1>8. /\ psock[p][k].tx = s /\ psock[p][k].id = s /\ port # 0 /\ s # 0 /\ s \in Ids
      /\ sockets[s].port = port
      /\ slots[sockets[s].aep].by = t
      /\ slots[mint].sock = s
  <2>1. psock[p][k].tx # 0 /\ psock[p][k].id = s /\ port # 0
    BY <1>1, <1>2, <1>3, <1>5, <1>6, <1>7, BindingFact DEF Binds, Binding, Bound
  <2>2. psock[p][k].tx = s
    BY <1>4, <2>1, LinkedFact DEF Linked
  <2>3. sockets[s].port = port /\ slots[sockets[s].aep].by = t
    BY <1>1, <1>2, <1>6, <1>7 DEF StackInv, ServerInv, Bound
  <2>4. slots[mint].sock = s
    BY <1>1, <1>6 DEF StackInv, CapInv, RxCap, Bound
  <2>5. s \in Ids
    BY <1>4, <2>1, PsockFacts DEF StackInv, SockType
  <2> QED BY <2>1, <2>2, <2>3, <2>4, <2>5
<1>a. /\ tpc' = [tpc EXCEPT ![t] = "run"]
      /\ arg' = [arg EXCEPT ![t] = NoArg]
      /\ psock' = [psock EXCEPT ![p][k].got[t] = s, ![p][k].port = port]
  BY <1>2, <1>5, <1>7, <1>8 DEF ReplyBind, Enter
<1>9. /\ psock \in [Processes -> Seq(SockType)]
      /\ psock[p] \in Seq(SockType) /\ psock[p][k] \in SockType
      /\ psock[p][k].got \in [Threads -> Ids]
      /\ k \in 1 .. Len(psock[p]) /\ Len(psock[p]) \in Nat
      /\ tpc \in [Threads -> TpcSet]
      /\ arg \in [Threads -> ArgType]
  BY <1>4, PsockFacts, TypeParts DEF StackInv, SockType, ProcType
<1> DEFINE g == [psock[p][k].got EXCEPT ![t] = s]
           c == [psock[p][k] EXCEPT !.got = g, !.port = port]
<1>10. /\ g \in [Threads -> Ids] /\ g[t] = s
       /\ \A u \in Threads : u # t => g[u] = psock[p][k].got[u]
  BY <1>8, <1>9
<1>11. psock' = [psock EXCEPT ![p] = [psock[p] EXCEPT ![k] = c]]
  BY <1>a, <1>4, <1>9 DEF SockType
<1> HIDE DEF g
<1>12. /\ c \in SockType /\ c.got = g /\ c.port = port
       /\ c.tx = psock[p][k].tx /\ c.id = psock[p][k].id
       /\ c.addr = psock[p][k].addr /\ c.aep = psock[p][k].aep /\ c.rx = psock[p][k].rx
  BY <1>9, <1>10 DEF SockType
<1> HIDE DEF c
<1>13. /\ psock' \in [Processes -> Seq(SockType)]
       /\ \A q \in Processes : /\ Len(psock'[q]) = Len(psock[q])
                               /\ DOMAIN psock'[q] = DOMAIN psock[q]
       /\ psock'[p][k] = c
       /\ \A q \in Processes : \A i \in DOMAIN psock[q] :
            (q # p \/ i # k) => psock'[q][i] = psock[q][i]
  <2>1. [psock[p] EXCEPT ![k] = c] \in Seq(SockType)
    BY <1>9, <1>12
  <2>2. /\ Len([psock[p] EXCEPT ![k] = c]) = Len(psock[p])
        /\ DOMAIN [psock[p] EXCEPT ![k] = c] = DOMAIN psock[p]
    BY <1>9, <2>1
  <2> QED BY <1>4, <1>9, <1>11, <2>1, <2>2
<1>14. /\ \A u \in Threads : u # t =>
            tpc'[u] = tpc[u] /\ arg'[u] = arg[u] /\ tpc[u] # "waiting"
       /\ tpc'[t] = "run"
       /\ arg' \in [Threads -> ArgType]
       /\ tpc' \in [Threads -> TpcSet]
  <2>1. NoArg \in ArgType
    BY BoundsAssumption DEF ArgType, NoArg, Ids
  <2>2. \A u \in Threads : u # t => tpc[u] # "waiting"
    BY <1>1, <1>2, ServedFact
  <2> QED BY <1>a, <1>9, <2>1, <2>2 DEF TpcSet
<1>15. \A q \in Processes : \A i \in DOMAIN psock[q] :
         /\ psock'[q][i].tx = psock[q][i].tx
         /\ psock'[q][i].id = psock[q][i].id
         /\ psock'[q][i].addr = psock[q][i].addr
         /\ psock'[q][i].aep = psock[q][i].aep
         /\ psock'[q][i].rx = psock[q][i].rx
         /\ \A u \in Threads : u # t => psock'[q][i].got[u] = psock[q][i].got[u]
  BY <1>10, <1>12, <1>13
<1>16. TypeOK'
  <2>1. RootType' /\ LocalType' /\ ServerType'
    BY <1>1, TypeParts DEF StackInv, RootType, LocalType, ServerType
  <2>2. ProcType'
    BY <1>1, <1>13, <1>14, TypeParts DEF StackInv, ProcType
  <2> QED BY <2>1, <2>2, TypePartsNext
<1>17. RootInv' /\ SocketInv' /\ IfaceServes' /\ IfaceInv'
  BY <1>1 DEF StackInv, RootInv, SocketInv, IfaceServes, IfaceInv
<1>18. RunsInv' /\ DistinctInv'
  <2>1. DistinctInv'
    BY <1>13, <1>15 DEF StackInv, DistinctInv
  <2>2. RunsInv'
    BY <1>1, <1>13, <1>14 DEF StackInv, RunsInv, Registered
  <2> QED BY <2>1, <2>2
<1>19. CallerInv'
  <2> SUFFICES ASSUME NEW u \in Threads PROVE CallerAt(u)'
    BY DEF CallerInv
  <2>1. CallerAt(u) /\ ProcessOf[u] \in Processes
    BY ThreadFacts DEF StackInv, CallerInv
  <2>2. CASE u = t
    BY <1>14, <2>2 DEF CallerAt
  <2>3. CASE u # t
    <3>1. tpc'[u] = "create" => Creates(u)'
      BY <1>1, <1>13, <1>14, <1>15, <2>1, <2>3, PsockFacts DEF CallerAt, Creates, StackInv
    <3>2. tpc'[u] = "bind" => Binds(u)'
      BY <1>13, <1>14, <1>15, <2>1, <2>3 DEF CallerAt, Binds
    <3>3. tpc'[u] = "send" => Sends(u)'
      BY <1>13, <1>14, <1>15, <2>1, <2>3 DEF CallerAt, Sends
    <3> QED BY <1>14, <2>3, <3>1, <3>2, <3>3 DEF CallerAt
  <2> QED BY <2>2, <2>3
<1>20. ServerInv' /\ CapInv'
  BY <1>1, <1>6, <1>8 DEF StackInv, ServerInv, CapInv, Creating, Binding, Bound
<1>21. ASSUME NEW q \in Processes, NEW i \in DOMAIN psock[q], q # p \/ i # k
       PROVE  SockAt(q, i)'
  <2>1. SockAt(q, i) /\ psock'[q][i] = psock[q][i]
    BY <1>13, <1>21 DEF StackInv, ProcSockInv
  <2>2. psock'[q][i].tx = 0 => Unmade(q, i)'
    BY <1>1, <1>13, <2>1 DEF SockAt, Unmade
  <2>3. ASSUME psock[q][i].tx # 0
        PROVE  Linked(q, i)' /\ Obtained(q, i)' /\ PortKnown(q, i)'
    <3>1. psock[q][i].id # s
      BY <1>4, <1>8, <1>21, <2>3, LinkedFact DEF StackInv, DistinctInv, Linked
    <3> QED BY <1>1, <1>6, <2>1, <2>3, <3>1, LinkedFact DEF Linked, Obtained, PortKnown
  <2>4. Waited(q, i)'
    <3>1. psock[q][i].aep # None => psock[q][i].aep \in Threads
      BY PsockFacts DEF StackInv, SockType
    <3>2. Waited(q, i)
      BY <2>1 DEF SockAt
    <3>3. psock[q][i].aep = t => psock[q][i].got[t] # 0
      BY <1>5, <1>21, <3>2, ThreadFacts DEF Waited
    <3> QED BY <1>14, <2>1, <3>1, <3>2, <3>3 DEF Waited
  <2> QED BY <2>1, <2>2, <2>3, <2>4 DEF SockAt
<1>22. SockAt(p, k)'
  <2>1. Linked(p, k) /\ Obtained(p, k) /\ Waited(p, k)
    BY <1>4, <1>8 DEF StackInv, ProcSockInv, SockAt
  <2>2. Linked(p, k)'
    BY <1>1, <1>4, <1>15, <2>1 DEF Linked
  <2>3. \A u \in Threads : u # t => g[u] = 0
    BY <1>8, <1>10, <2>1 DEF Obtained
  <2>4. Obtained(p, k)'
    BY <1>1, <1>8, <1>10, <1>12, <1>13, <2>3 DEF Obtained
  <2>5. PortKnown(p, k)'
    BY <1>8, <1>12, <1>13 DEF PortKnown
  <2>6. Waited(p, k)'
    <3>1. psock[p][k].aep # None => psock[p][k].aep \in Threads
      BY <1>9 DEF SockType
    <3>2. psock[p][k].aep # None
      BY <1>3, <1>5 DEF Binds
    <3> QED BY <1>8, <1>10, <1>12, <1>13, <1>14, <2>1, <3>1, <3>2 DEF Waited
  <2> QED BY <1>8, <1>12, <1>13, <2>2, <2>4, <2>5, <2>6 DEF SockAt
<1>23. ProcSockInv'
  BY <1>13, <1>21, <1>22 DEF StackInv, ProcSockInv
<1> QED BY <1>16, <1>17, <1>18, <1>19, <1>20, <1>23 DEF StackInv

\* The reply to a create: lwIP has a control block for every socket of the pool,
\* the socket is finished and the mutex released.
LEMMA ReplyCreateInv ==
  ASSUME StackInv, ReplyCreate
  PROVE  StackInv' /\ PcbsLeft /\ spc' = "start_tx"
<1>0. PcbsLeft
  BY TypeParts DEF StackInv, ServerType, PcbsLeft
<1>1. /\ UNCHANGED <<rpc, clients, ifaces, mutex, calls, rq, lclient, liface,
                     lserver, sockets, slots, mint, path>>
      /\ spc = "new" /\ spc' = "start_tx"
  BY <1>0 DEF ReplyCreate, rootVars, localVars, capVars
<1>2. PICK t \in Threads : t = rq
  BY <1>1 DEF StackInv, ServerInv, Creating
<1>3. Creates(t) /\ tpc[t] = "waiting"
  BY <1>1, <1>2 DEF StackInv, ServerInv, Creating
<1> DEFINE p == ProcessOf[t]
<1>4. p \in Processes
  BY ThreadFacts
<1>5. PICK k \in DOMAIN psock[p] : k = arg[t].index
  BY <1>3, CreatesFact DEF StackInv
<1>6. PICK s \in DOMAIN sockets : s = lserver
  BY <1>1, ServerFacts DEF StackInv, ServerInv
<1>7. /\ k = Len(psock[p]) /\ pmutex[p] = t /\ psock[p][k].tx = 0 /\ Unmade(p, k)
      /\ s # 0 /\ s \in Ids
      /\ sockets[s].addr = psock[p][k].addr /\ sockets[s].client = p
      /\ sockets[s].port = 0
      /\ \A q \in Processes : \A i \in DOMAIN psock[q] : psock[q][i].tx # s
  <2>1. k = Len(psock[p]) /\ pmutex[p] = t /\ psock[p][k].tx = 0
    BY <1>3, <1>5 DEF Creates
  <2>2. Unmade(p, k)
    BY <1>4, <2>1 DEF StackInv, ProcSockInv, SockAt
  <2>3. s \in Ids /\ s # 0
    BY <1>6, ServerFacts, BoundsAssumption, TypeParts DEF StackInv, Ids, ServerType
  <2> QED BY <1>1, <1>2, <1>5, <1>6, <2>1, <2>2, <2>3 DEF StackInv, ServerInv
<1>a. /\ tpc' = [tpc EXCEPT ![t] = "run"]
      /\ arg' = [arg EXCEPT ![t] = NoArg]
      /\ pmutex' = [pmutex EXCEPT ![p] = None]
      /\ psock' = [psock EXCEPT ![p][k].tx = s, ![p][k].id = s]
  BY <1>0, <1>2, <1>5, <1>6 DEF ReplyCreate, Enter
<1>8. /\ psock \in [Processes -> Seq(SockType)]
      /\ pmutex \in [Processes -> Threads \cup {None}]
      /\ psock[p] \in Seq(SockType) /\ psock[p][k] \in SockType
      /\ k \in 1 .. Len(psock[p]) /\ Len(psock[p]) \in Nat
      /\ tpc \in [Threads -> TpcSet]
      /\ arg \in [Threads -> ArgType]
  BY <1>4, PsockFacts, TypeParts DEF StackInv, ProcType
<1> DEFINE c == [psock[p][k] EXCEPT !.tx = s, !.id = s]
<1>9. psock' = [psock EXCEPT ![p] = [psock[p] EXCEPT ![k] = c]]
  BY <1>a, <1>4, <1>8 DEF SockType
<1>10. /\ c \in SockType /\ c.tx = s /\ c.id = s
       /\ c.got = psock[p][k].got /\ c.port = psock[p][k].port
       /\ c.addr = psock[p][k].addr /\ c.aep = psock[p][k].aep /\ c.rx = psock[p][k].rx
  BY <1>7, <1>8 DEF SockType
<1> HIDE DEF c
<1>11. /\ psock' \in [Processes -> Seq(SockType)]
       /\ \A q \in Processes : /\ Len(psock'[q]) = Len(psock[q])
                               /\ DOMAIN psock'[q] = DOMAIN psock[q]
       /\ psock'[p][k] = c
       /\ \A q \in Processes : \A i \in DOMAIN psock[q] :
            (q # p \/ i # k) => psock'[q][i] = psock[q][i]
  <2>1. [psock[p] EXCEPT ![k] = c] \in Seq(SockType)
    BY <1>8, <1>10
  <2>2. /\ Len([psock[p] EXCEPT ![k] = c]) = Len(psock[p])
        /\ DOMAIN [psock[p] EXCEPT ![k] = c] = DOMAIN psock[p]
    BY <1>8, <2>1
  <2> QED BY <1>4, <1>8, <1>9, <2>1, <2>2
<1>12. /\ \A u \in Threads : u # t =>
            tpc'[u] = tpc[u] /\ arg'[u] = arg[u] /\ tpc[u] # "waiting"
       /\ tpc'[t] = "run"
       /\ arg' \in [Threads -> ArgType]
       /\ tpc' \in [Threads -> TpcSet]
       /\ pmutex' \in [Processes -> Threads \cup {None}]
       /\ \A q \in Processes : q # p => pmutex'[q] = pmutex[q]
  <2>1. NoArg \in ArgType
    BY BoundsAssumption DEF ArgType, NoArg, Ids
  <2>2. \A u \in Threads : u # t => tpc[u] # "waiting"
    BY <1>1, <1>2, ServedFact
  <2> QED BY <1>a, <1>8, <2>1, <2>2 DEF TpcSet
<1>13. TypeOK'
  <2>1. RootType' /\ LocalType' /\ ServerType'
    BY <1>1, TypeParts DEF StackInv, RootType, LocalType, ServerType
  <2>2. ProcType'
    BY <1>1, <1>11, <1>12, TypeParts DEF StackInv, ProcType
  <2> QED BY <2>1, <2>2, TypePartsNext
<1>14. RootInv' /\ SocketInv' /\ IfaceServes' /\ IfaceInv'
  BY <1>1 DEF StackInv, RootInv, SocketInv, IfaceServes, IfaceInv
<1>15. RunsInv'
  BY <1>1, <1>11, <1>12 DEF StackInv, RunsInv, Registered
<1>16. DistinctInv'
  <2> SUFFICES ASSUME NEW q \in Processes, NEW r \in Processes,
                      NEW i \in DOMAIN psock[q], NEW j \in DOMAIN psock[r],
                      psock'[q][i].tx # 0, psock'[q][i].tx = psock'[r][j].tx
               PROVE  q = r /\ i = j
    BY <1>11 DEF DistinctInv
  <2>1. CASE q = p /\ i = k
    BY <1>7, <1>10, <1>11, <2>1
  <2>2. CASE r = p /\ j = k
    BY <1>7, <1>10, <1>11, <2>2
  <2>3. CASE (q # p \/ i # k) /\ (r # p \/ j # k)
    <3>1. psock'[q][i] = psock[q][i] /\ psock'[r][j] = psock[r][j]
      BY <1>11, <2>3
    <3> QED BY <3>1 DEF StackInv, DistinctInv
  <2> QED BY <2>1, <2>2, <2>3
<1>17. CallerInv'
  <2> SUFFICES ASSUME NEW u \in Threads PROVE CallerAt(u)'
    BY DEF CallerInv
  <2>1. CallerAt(u) /\ ProcessOf[u] \in Processes
    BY ThreadFacts DEF StackInv, CallerInv
  <2>2. CASE u = t
    BY <1>12, <2>2 DEF CallerAt
  <2>3. CASE u # t
    <3>1. tpc'[u] = "create" => Creates(u)'
      <4>1. tpc[u] = "create" => ProcessOf[u] # p
        BY <1>7, <2>1, <2>3 DEF CallerAt, Creates
      <4>2. \A q \in Processes : q # p /\ Len(psock[q]) # 0 =>
              psock'[q][Len(psock[q])] = psock[q][Len(psock[q])]
        BY <1>11, PsockFacts DEF StackInv
      <4> QED BY <1>11, <1>12, <2>1, <2>3, <4>1, <4>2 DEF CallerAt, Creates
    <3>2. tpc'[u] = "bind" => Binds(u)'
      <4> SUFFICES ASSUME tpc'[u] = "bind" PROVE Binds(u)'
        OBVIOUS
      <4>1. tpc[u] = "bind" /\ arg'[u] = arg[u]
        BY <1>12, <2>3
      <4>2. Binds(u)
        BY <2>1, <4>1 DEF CallerAt
      <4>3. psock'[ProcessOf[u]][arg[u].index] = psock[ProcessOf[u]][arg[u].index]
        BY <1>7, <1>11, <2>1, <4>2 DEF Binds
      <4> QED BY <1>11, <2>1, <4>1, <4>2, <4>3 DEF Binds
    <3>3. tpc'[u] = "send" => Sends(u)'
      BY <1>7, <1>11, <1>12, <2>1, <2>3, SMTT(30) DEF CallerAt, Sends
    <3> QED BY <1>12, <2>3, <3>1, <3>2, <3>3 DEF CallerAt
  <2> QED BY <2>2, <2>3
<1>18. ServerInv' /\ CapInv'
  BY <1>1, <1>6, <1>7 DEF StackInv, ServerInv, CapInv, Creating, Binding, Bound
<1>19. ASSUME NEW q \in Processes, NEW i \in DOMAIN psock[q], q # p \/ i # k
       PROVE  SockAt(q, i)'
  <2>1. SockAt(q, i) /\ psock'[q][i] = psock[q][i]
    BY <1>11, <1>19 DEF StackInv, ProcSockInv
  <2>2. psock'[q][i].tx = 0 => Unmade(q, i)'
    <3>1. psock[q][i].tx = 0 => i = Len(psock[q]) /\ Unmade(q, i)
      BY <2>1 DEF SockAt, Unmade
    <3>2. psock[q][i].tx = 0 => q # p
      BY <1>7, <1>19, <3>1
    <3> QED BY <1>11, <1>12, <2>1, <3>1, <3>2 DEF Unmade
  <2>3. psock[q][i].tx # 0 => Linked(q, i)' /\ Obtained(q, i)' /\ PortKnown(q, i)'
    BY <1>1, <2>1, LinkedFact DEF Linked, Obtained, PortKnown, Bound
  <2>4. Waited(q, i)'
    <3>1. psock[q][i].aep # None => psock[q][i].aep \in Threads
      BY PsockFacts DEF StackInv, SockType
    <3>2. Waited(q, i)
      BY <2>1 DEF SockAt
    <3>3. psock[q][i].aep = t => psock[q][i].got[t] # 0
      BY <1>5, <1>19, <3>2, ThreadFacts DEF Waited
    <3> QED BY <1>12, <2>1, <3>1, <3>2, <3>3 DEF Waited
  <2> QED BY <2>1, <2>2, <2>3, <2>4 DEF SockAt
<1>20. SockAt(p, k)'
  <2>1. /\ psock[p][k].aep = None /\ psock[p][k].port = 0
        /\ \A u \in Threads : psock[p][k].got[u] = 0
        /\ Waited(p, k)
    BY <1>4, <1>7 DEF StackInv, ProcSockInv, SockAt, Unmade
  <2>2. Linked(p, k)' /\ Obtained(p, k)' /\ PortKnown(p, k)' /\ Waited(p, k)'
    BY <1>1, <1>7, <1>10, <1>11, <2>1 DEF Linked, Obtained, PortKnown, Waited
  <2> QED BY <1>7, <1>10, <1>11, <2>2 DEF SockAt
<1>21. ProcSockInv'
  BY <1>11, <1>19, <1>20 DEF StackInv, ProcSockInv
<1> QED BY <1>0, <1>1, <1>13, <1>14, <1>15, <1>16, <1>17, <1>18, <1>21 DEF StackInv

\* The search for a client finds the one of the process: the ids before it are
\* other ones, and the entry that the root thread fills is not before it.
LEMMA FindClientFact ==
  ASSUME StackInv, NEW p \in Processes, Registered(p)
  PROVE  FindClient(p) = p
<1> DEFINE C == {c \in DOMAIN clients : clients[c] = p}
<1>1. /\ DOMAIN clients = 1 .. Len(clients) /\ Len(clients) \in Nat
      /\ p \in 1 .. Len(clients)
      /\ \A c \in DOMAIN clients : clients[c] = c \/ c = Len(clients)
      /\ clients[p] = p
  <2>1. clients \in Seq(Processes \cup {0})
    BY TypeParts DEF StackInv, RootType
  <2> QED BY <2>1 DEF StackInv, RootInv, Registered
<1>2. p \in C /\ \A m \in C : p <= m
  BY <1>1
<1>3. \A m \in C : m \in Nat
  BY <1>1
<1> HIDE DEF C
<1>4. First(C) \in C /\ \A m \in C : First(C) <= m
  BY <1>2 DEF First
<1>5. First(C) = p
  <2>1. First(C) \in Nat /\ p \in Nat /\ First(C) <= p /\ p <= First(C)
    BY <1>2, <1>3, <1>4
  <2> QED BY <2>1
<1> QED BY <1>2, <1>5 DEF FindClient, C

\* The search for an interface yields one that matches, if there is one.
LEMMA FindIfaceFact ==
  ASSUME StackInv, NEW a, NEW wild \in BOOLEAN
  PROVE  /\ Matches(a, wild) # {} => FindIface(a, wild) \in Matches(a, wild)
         /\ Matches(a, wild) = {} => FindIface(a, wild) = liface
         /\ FindIface(a, wild) \in 0 .. Len(ifaces)
         /\ FindIface(a, wild) # 0 => FindIface(a, wild) \in DOMAIN ifaces
<1> DEFINE M == Matches(a, wild)
<1>1. DOMAIN ifaces = 1 .. Len(ifaces) /\ Len(ifaces) \in Nat
  BY TypeParts DEF StackInv, RootType
<1>2. M \subseteq 1 .. Len(ifaces)
  BY <1>1 DEF Matches
<1>3. liface \in 0 .. Len(ifaces)
  BY TypeParts DEF StackInv, LocalType
<1> HIDE DEF M
<1>4. CASE M = {}
  <2>1. FindIface(a, wild) = liface
    BY <1>4 DEF FindIface, M
  <2> QED BY <1>1, <1>3, <1>4, <2>1 DEF M
<1>5. CASE M # {}
  <2>1. \E n \in M : \A m \in M : m <= n
    BY <1>1, <1>2, <1>5, MaxExists
  <2>2. Last(M) \in M
    BY <2>1 DEF Last
  <2>3. FindIface(a, wild) = Last(M)
    BY <1>5 DEF FindIface, M
  <2>4. FindIface(a, wild) \in 1 .. Len(ifaces)
    BY <1>2, <2>2, <2>3
  <2> QED BY <1>1, <1>5, <2>2, <2>3, <2>4 DEF M
<1> QED BY <1>4, <1>5

\* UDPSTACK_CREATE_SOCKET.  The client found is that of the calling process.
LEMMA ServeCreateInv ==
  ASSUME StackInv, NEW wild \in BOOLEAN, ServeCreate(wild)
  PROVE  /\ StackInv'
         /\ spc' = "aborted" =>
              \/ Len(sockets) = MaxSockets
              \/ sockets = << >> /\
                   \A f \in DOMAIN ifaces : ifaces[f] # Owned(rq)[arg[rq].index].addr
<1>1. /\ UNCHANGED <<rootVars, mutex, procVars, rq, capVars>>
      /\ UNCHANGED <<rpc, clients, ifaces, psock, pmutex, tpc, arg, calls, slots, mint, path>>
      /\ spc = "create"
  BY DEF ServeCreate, Abort, rootVars, procVars, capVars
<1>2. PICK t \in Threads : t = rq
  BY <1>1 DEF StackInv, ServerInv, Creating
<1>3. Creates(t) /\ tpc[t] = "waiting"
  BY <1>1, <1>2 DEF StackInv, ServerInv, Creating
<1> DEFINE p == ProcessOf[t]
<1>4. p \in Processes /\ p # 0 /\ p \in Nat
  BY ThreadFacts, BoundsAssumption DEF Processes
<1>5. PICK k \in DOMAIN psock[p] : k = arg[t].index
  BY <1>3, CreatesFact DEF StackInv
<1>6. PICK a \in RequestAddrs : a = psock[p][k].addr
  BY <1>4, PsockFacts DEF StackInv, SockType
<1>7. FindClient(p) = p /\ p \in DOMAIN clients
  <2>1. Registered(p)
    BY <1>3 DEF StackInv, RunsInv
  <2> QED BY <1>4, <2>1, FindClientFact DEF Registered
<1>8. PICK f \in 0 .. Len(ifaces) : f = FindIface(a, wild)
  BY FindIfaceFact
<1>9. PICK found \in BOOLEAN : found = (rpc # "iface" /\ Matches(a, wild) # {})
  OBVIOUS
<1> DEFINE r == [addr |-> a, iface |-> f, client |-> p, found |-> found,
                 port |-> 0, aep |-> 0, ep |-> 0, msgs |-> FALSE, recv |-> FALSE,
                 bound |-> FALSE, tx |-> FALSE, rx |-> FALSE]
<1>10. /\ lclient' = p /\ liface' = f
       /\ \/ /\ f # 0 /\ Len(sockets) < MaxSockets
             /\ sockets' = Append(sockets, r)
             /\ lserver' = Len(sockets) + 1
             /\ spc' = "new"
          \/ /\ f = 0 \/ ~(Len(sockets) < MaxSockets)
             /\ spc' = "aborted" /\ UNCHANGED <<sockets, lserver>>
  BY <1>2, <1>4, <1>5, <1>6, <1>7, <1>8, <1>9 DEF ServeCreate, Abort, Owned
<1>11. sockets # << >> => f # 0
  <2>1. sockets # << >> => liface # 0
    BY DEF StackInv, ServerInv
  <2>2. Matches(a, wild) # {} => f # 0
    <3>1. Matches(a, wild) # {} => f \in DOMAIN ifaces
      BY <1>8, FindIfaceFact DEF Matches
    <3>2. DOMAIN ifaces = 1 .. Len(ifaces)
      BY TypeParts DEF StackInv, RootType
    <3> QED BY <3>1, <3>2
  <2> QED BY <1>8, <2>1, <2>2, FindIfaceFact
<1>12. /\ Len(sockets) \in Nat /\ Len(sockets) <= MaxSockets
       /\ DOMAIN sockets = 1 .. Len(sockets) /\ sockets \in Seq(ServType)
       /\ DOMAIN clients = 1 .. Len(clients)
       /\ DOMAIN ifaces = 1 .. Len(ifaces)
       /\ MaxSockets \in Nat
  BY ServerFacts, TypeParts, BoundsAssumption DEF StackInv, ServerType, RootType
<1>13. lclient' \in 0 .. Len(clients') /\ liface' \in 0 .. Len(ifaces')
  BY <1>1, <1>7, <1>8, <1>10, <1>12
<1>14. CASE /\ f = 0 \/ ~(Len(sockets) < MaxSockets)
            /\ spc' = "aborted" /\ UNCHANGED <<sockets, lserver>>
  <2>1. LocalType'
    BY <1>1, <1>13, <1>14, TypeParts DEF StackInv, LocalType
  <2>2. StackInv'
    BY <1>1, <1>10, <1>11, <1>14, <2>1, AbortInv
  <2>3. CASE f # 0
    <3>1. Len(sockets) = MaxSockets
      <4>1. ~(Len(sockets) < MaxSockets)
        BY <1>14, <2>3
      <4>2. Len(sockets) \in Nat /\ MaxSockets \in Nat /\ Len(sockets) <= MaxSockets
        BY <1>12
      <4> QED BY <4>1, <4>2
    <3> QED BY <2>2, <3>1
  <2>4. CASE f = 0
    <3>1. sockets = << >>
      BY <1>11, <2>4
    <3>2. Matches(a, wild) = {}
      <4>1. Matches(a, wild) # {} => f \in Matches(a, wild)
        BY <1>8, FindIfaceFact
      <4>2. 0 \notin Matches(a, wild)
        BY <1>12 DEF Matches
      <4> QED BY <2>4, <4>1, <4>2
    <3>3. a # None
      BY <1>6, ThreadsAssumption, NetAssumption DEF None, AnyAddr
    <3>4. \A n \in DOMAIN ifaces : ifaces[n] # a
      BY <3>2, <3>3 DEF Matches
    <3> QED BY <1>2, <1>5, <1>6, <2>2, <3>1, <3>4 DEF Owned
  <2> QED BY <2>3, <2>4
<1>15. CASE /\ f # 0 /\ Len(sockets) < MaxSockets
            /\ sockets' = Append(sockets, r)
            /\ lserver' = Len(sockets) + 1
            /\ spc' = "new"
  <2> DEFINE s == Len(sockets) + 1
  <2>1. f \in DOMAIN ifaces /\ f \in Ifaces
    BY <1>8, <1>12, <1>15, TypeParts, BoundsAssumption DEF StackInv, RootType, Ifaces
  <2>2. r \in ServType
    BY <1>4, <2>1, BoundsAssumption DEF ServType, Ids
  <2>3. /\ r.addr = a /\ r.iface = f /\ r.client = p /\ r.found = found
        /\ r.port = 0 /\ ~r.recv
    OBVIOUS
  <2> HIDE DEF r
  <2>4. /\ sockets' \in Seq(ServType) /\ Len(sockets') = Len(sockets) + 1
        /\ DOMAIN sockets' = 1 .. Len(sockets) + 1
        /\ \A o \in DOMAIN sockets : o \in DOMAIN sockets' /\ sockets'[o] = sockets[o]
        /\ sockets'[Len(sockets) + 1] = r
        /\ DOMAIN sockets' = DOMAIN sockets \cup {Len(sockets) + 1}
    BY <1>12, <1>15, <2>2
  <2>5. TypeOK'
    <3>1. RootType' /\ ProcType'
      BY <1>1, TypeParts DEF StackInv, RootType, ProcType
    <3>2. LocalType'
      BY <1>1, <1>2, <1>12, <1>13, <1>15, <2>4 DEF LocalType
    <3>3. ServerType'
      BY <1>1, <1>12, <1>15, <2>4, TypeParts DEF StackInv, ServerType
    <3> QED BY <3>1, <3>2, <3>3, TypePartsNext
  <2>6. RootInv' /\ RunsInv' /\ DistinctInv'
    BY <1>1 DEF StackInv, RootInv, RunsInv, Registered, DistinctInv
  <2>7. found => a \in {AnyAddr, ifaces[f]}
    <3>1. found => rpc # "iface" /\ f \in Matches(a, wild)
      BY <1>8, <1>9, FindIfaceFact
    <3>2. rpc # "iface" => ifaces[f] # None
      BY <2>1 DEF StackInv, RootInv
    <3> QED BY <3>1, <3>2 DEF Matches
  <2>8. IfaceServes' /\ IfaceInv'
    BY <1>1, <2>1, <2>3, <2>4, <2>7 DEF StackInv, IfaceServes, IfaceInv
  <2>9. CallerInv'
    BY <1>1, <1>15 DEF StackInv, CallerInv, CallerAt, Creates, Binds, Sends, Creating,
       Binding, Bound
  <2>10. \A q \in Processes : \A i \in DOMAIN psock[q] : psock[q][i].tx # Len(sockets) + 1
    <3>1. ASSUME NEW q \in Processes, NEW i \in DOMAIN psock[q], psock[q][i].tx # 0
          PROVE  psock[q][i].tx \in DOMAIN sockets
      BY <3>1, LinkedFact DEF Linked
    <3> QED BY <1>12, <3>1
  <2>11. ServerInv'
    <3>1. Creates(rq)' /\ rq' \in Threads /\ tpc'[rq'] = "waiting"
      BY <1>1, <1>2, <1>3 DEF Creates
    <3>2. /\ lserver' = Len(sockets') /\ lserver' # 0
          /\ sockets'[lserver'].addr = psock'[ProcessOf[rq']][arg'[rq'].index].addr
          /\ sockets'[lserver'].client = ProcessOf[rq']
          /\ sockets'[lserver'].port = 0
      BY <1>1, <1>2, <1>5, <1>6, <1>12, <1>15, <2>3, <2>4
    <3>3. \A q \in Processes : \A i \in DOMAIN psock'[q] : psock'[q][i].tx # lserver'
      BY <1>1, <1>15, <2>10
    <3> QED BY <1>10, <1>15, <3>1, <3>2, <3>3 DEF ServerInv, Creating, Binding, Bound
  <2>12. CapInv'
    BY <1>1, <1>15 DEF StackInv, CapInv, Creating, Bound
  <2>13. SocketInv'
    <3> SUFFICES ASSUME NEW n \in DOMAIN sockets'
                 PROVE  /\ sockets'[n].port # 0 =>
                             /\ sockets'[n].aep \in DOMAIN slots'
                             /\ slots'[sockets'[n].aep].kind = "aep"
                             /\ slots'[sockets'[n].aep].sock = n
                             /\ sockets'[n].msgs
                             /\ sockets'[n].ep = n
                        /\ sockets'[n].recv => sockets'[n].port # 0
      BY DEF SocketInv
    <3>1. CASE n \in DOMAIN sockets
      <4>1. sockets'[n] = sockets[n]
        BY <2>4, <3>1
      <4> QED BY <1>1, <3>1, <4>1 DEF StackInv, SocketInv
    <3>2. CASE n \notin DOMAIN sockets
      BY <2>3, <2>4, <3>2
    <3> QED BY <3>1, <3>2
  <2>14. ASSUME NEW q \in Processes, NEW i \in DOMAIN psock[q]
         PROVE  SockAt(q, i)'
    <3>1. SockAt(q, i)
      BY DEF StackInv, ProcSockInv
    <3>2. psock[q][i].tx # 0 => Linked(q, i)' /\ Obtained(q, i)' /\ PortKnown(q, i)'
      BY <1>1, <2>4, LinkedFact, SMTT(30) DEF Linked, Obtained, PortKnown, Bound
    <3> QED BY <1>1, <3>1, <3>2 DEF SockAt, Unmade, Waited
  <2>15. ProcSockInv'
    BY <1>1, <2>14 DEF StackInv, ProcSockInv
  <2> QED BY <1>15, <2>5, <2>6, <2>8, <2>9, <2>11, <2>12, <2>13, <2>15 DEF StackInv
<1> QED BY <1>10, <1>14, <1>15

\* The walk of the interfaces fails only while one is under construction.
LEMMA ServeCreateFaultInv ==
  ASSUME StackInv, ServeCreateFault
  PROVE  StackInv' /\ rpc = "iface"
<1>1. /\ UNCHANGED <<rootVars, mutex, procVars, sockets, capVars>>
      /\ UNCHANGED <<clients, ifaces, lclient, liface, lserver>>
      /\ spc' = "aborted" /\ rq' = rq
  BY DEF ServeCreateFault, Abort, rootVars, localVars
<1>2. LocalType'
  BY <1>1, TypeParts DEF StackInv, LocalType
<1>3. rpc = "iface"
  BY DEF ServeCreateFault, StackInv, RootInv
<1>4. sockets # << >> => liface' # 0
  BY <1>1 DEF StackInv, ServerInv
<1> QED BY <1>1, <1>2, <1>3, <1>4, AbortInv

-----------------------------------------------------------------------------
(* Every step, and what follows from the invariant.                        *)

\* Every step of every thread keeps StackInv.
LEMMA StepInv == StackInv /\ [Next]_vars => StackInv'
<1> SUFFICES ASSUME StackInv, [Next]_vars PROVE StackInv'
  OBVIOUS
<1>1. CASE RootNext
  BY <1>1, ClientAllocInv, ClientInitInv, IfaceAllocInv, IfaceInitInv DEF RootNext
<1>2. ASSUME NEW t \in Threads, BeginNext(t) \/ LockNext(t) \/ TxServe(t)
      PROVE  StackInv'
  BY <1>2, LockWaitInv, BindInv, AllocSocketInv, SdToSocketInv, TxServeInv
     DEF BeginNext, LockNext
<1>3. CASE ServerNext
  BY <1>3, ServerRecvInv, ServeCreateInv, ServeCreateFaultInv, ReplyCreateInv, StartTxInv,
     ServeBindInv, BindLockInv, BindPcbInv, ReplyBindInv, StartRxInv DEF ServerNext
<1>4. CASE IrqLock \/ IrqUnlock
  BY <1>4, IrqInv
<1>5. CASE UNCHANGED vars
  <2>1. UNCHANGED <<rootVars, mutex, procVars, serverVars>>
    BY <1>5 DEF vars
  <2>2. CoreInv'
    BY <2>1, CoreFrame, StackInvParts
  <2>3. UNCHANGED <<rpc, clients, ifaces, mutex, psock, pmutex, tpc, arg, calls, spc, rq,
                    lclient, liface, lserver, sockets, slots, mint, path>>
    BY <2>1 DEF rootVars, procVars, serverVars, localVars, capVars
  <2>4. TypeOK'
    <3>1. RootType' /\ ProcType' /\ LocalType' /\ ServerType'
      BY <2>3, TypeParts DEF StackInv, RootType, ProcType, LocalType, ServerType
    <3> QED BY <3>1, TypePartsNext
  <2>5. RootInv' /\ RunsInv' /\ IfaceServes' /\ IfaceInv'
    BY <2>3 DEF StackInv, RootInv, RunsInv, Registered, IfaceServes, IfaceInv
  <2> QED BY <2>2, <2>4, <2>5 DEF StackInv, CoreInv
<1> QED BY <1>1, <1>2, <1>3, <1>4, <1>5 DEF Next, Work

\* StackInv holds in every reachable state.
LEMMA InvHolds == Spec => []StackInv
  BY InitInv, StepInv, PTL DEF Spec

\* Every socket that a call of a process has returned, or that one finds by its
\* id, is the process's own: the server's socket has the address asked for,
\* serves that process and no other, and is on an interface with the address
\* if one was found, although the root thread extends the lists that
\* sel4osapi_udp_stack_thread searches meanwhile.
THEOREM SocketsOwn == Spec => []OwnSocket
<1>1. StackInv => SameSocket
  <2> SUFFICES ASSUME StackInv, NEW p \in Processes, NEW i \in Made(p)
               PROVE  /\ psock[p][i].id \in DOMAIN sockets
                      /\ sockets[psock[p][i].id].addr = psock[p][i].addr
                      /\ sockets[psock[p][i].id].client = p
                      /\ psock[p][i].tx = psock[p][i].id
                      /\ \A q \in Processes : \A j \in Made(q) :
                           psock[q][j].id = psock[p][i].id => q = p /\ j = i
    BY DEF SameSocket
  <2>1. \A q \in Processes : \A j \in Made(q) :
          /\ j \in DOMAIN psock[q] /\ psock[q][j].tx # 0 /\ Linked(q, j)
    BY LinkedFact DEF Made
  <2>2. ASSUME NEW q \in Processes, NEW j \in Made(q), psock[q][j].id = psock[p][i].id
        PROVE  q = p /\ j = i
    BY <2>1, <2>2 DEF StackInv, DistinctInv, Linked
  <2> QED BY <2>1, <2>2 DEF Linked
<1>2. StackInv => SdFindsSocket
  BY DEF StackInv, CallerInv, CallerAt, Sends, SdFindsSocket, Owned
<1>3. StackInv => OwnSocket
  BY <1>1, <1>2 DEF StackInv, OwnSocket
<1> QED BY <1>3, InvHolds, PTL

\* Once a process's socket is bound, the server signals the notification that
\* the process waits on, and the endpoint that the process calls is that of the
\* rx thread, as long as no second thread binds the socket; and lwIP calls
\* udprecv only for a socket whose queue and notification exist.
THEOREM CapsArrive == Spec => []CapsMatch
<1>1. StackInv => CallbackReady
  BY DEF StackInv, SocketInv, CallbackReady
<1>2. ASSUME StackInv, NEW p \in Processes, NEW i \in DOMAIN psock[p],
             psock[p][i].port # 0,
             \A t, u \in Threads :
               (ProcessOf[t] = p /\ ProcessOf[u] = p /\ t # u /\ psock[p][i].got[t] # 0) =>
                 ~(tpc[u] \in {"bind", "waiting"} /\ arg[u].index = i)
      PROVE  /\ slots[sockets[psock[p][i].id].aep]
                  = [kind |-> "aep", sock |-> psock[p][i].id, by |-> psock[p][i].aep]
             /\ psock[p][i].got[psock[p][i].rx] = sockets[psock[p][i].id].ep
             /\ sockets[psock[p][i].id].port = psock[p][i].port
  <2> DEFINE c == psock[p][i]
             s == sockets[c.id]
  <2>1. c.tx # 0 /\ Waited(p, i)
    BY <1>2 DEF StackInv, ProcSockInv, SockAt, Unmade
  <2>2. Linked(p, i) /\ Obtained(p, i)
    BY <1>2, <2>1, LinkedFact
  <2>3. PICK t \in Threads : c.got[t] # 0
    BY <1>2, <2>2 DEF Obtained
  <2>4. c.got[t] = c.id /\ ProcessOf[t] = p /\ slots[s.aep].by = t /\ s.port = c.port
    BY <1>2, <2>2, <2>3 DEF Obtained
  <2>5. /\ s.aep \in DOMAIN slots /\ slots[s.aep].kind = "aep" /\ slots[s.aep].sock = c.id
        /\ s.ep = c.id
    BY <1>2, <2>2, <2>4 DEF StackInv, SocketInv, Linked
  <2>6. c.aep = t /\ c.rx = t
    <3>1. c.aep # None /\ c.aep \in Threads
      <4>1. c.aep \in Threads \cup {None}
        BY <1>2, PsockFacts DEF StackInv, SockType
      <4>2. c.aep # None
        BY <2>1, <2>3 DEF Waited
      <4> QED BY <4>1, <4>2
    <3>2. c.aep = t
      BY <1>2, <2>1, <2>2, <2>3, <2>4, <3>1 DEF Waited, Obtained
    <3> QED BY <2>1, <3>2 DEF Waited
  <2>7. slots[s.aep] = [kind |-> "aep", sock |-> c.id, by |-> t]
    <3>1. slots[s.aep] \in Caps
      BY <1>2, <2>5, ServerFacts DEF StackInv
    <3> QED BY <2>4, <2>5, <3>1 DEF Caps
  <2> QED BY <2>3, <2>4, <2>5, <2>6, <2>7
<1>3. StackInv => BoundCapsMatch
  BY <1>2 DEF BoundCapsMatch
<1>4. StackInv => CapsMatch
  BY <1>1, <1>3 DEF CapsMatch
<1> QED BY <1>4, InvHolds, PTL

\* The asserts of sel4osapi_udp_stack_thread fail for five reasons only: the
\* pool of sockets is used up, the first socket is on an unknown address, an
\* interface is under construction, another thread of the process has bound the
\* socket, or the port is in use.  In particular the client is always found,
\* udp_new always has a control block, and the cap of a bind always arrives.
THEOREM StopsFor == Spec => StopsOnlyIf
<1> DEFINE Reason ==
      spc # "aborted" /\ spc' = "aborted" =>
       \/ spc = "create" /\ Len(sockets) = MaxSockets
       \/ spc = "create" /\ sockets = << >> /\
            \A f \in DOMAIN ifaces : ifaces[f] # Owned(rq)[arg[rq].index].addr
       \/ spc = "create" /\ rpc = "iface"
       \/ spc = "bind" /\ \E u \in Threads \ {rq} :
            ProcessOf[u] = ProcessOf[rq] /\ Owned(rq)[arg[rq].index].got[u] # 0
       \/ spc = "pcb" /\ \E o \in DOMAIN sockets \ {lserver} :
            sockets[o].bound /\ sockets[o].port = sockets[lserver].port
<1>1. ASSUME StackInv, [Next]_vars, spc # "aborted", spc' = "aborted"
      PROVE  Reason
  <2>1. \/ \E t \in Threads : ServerRecv(t)
        \/ \E wild \in BOOLEAN : ServeCreate(wild)
        \/ ServeCreateFault \/ ReplyCreate \/ StartTx
        \/ ServeBind \/ BindLock \/ BindPcb \/ ReplyBind \/ StartRx
    <3>1. spc' # spc
      BY <1>1
    <3>2. ServerNext
      <4>1. CASE RootNext
        BY <3>1, <4>1 DEF RootNext, ClientAlloc, ClientInit, IfaceAlloc, IfaceInit, serverVars
      <4>2. ASSUME NEW t \in Threads, BeginNext(t) \/ LockNext(t) \/ TxServe(t)
            PROVE  ServerNext
        BY <3>1, <4>2 DEF BeginNext, LockNext, CreateSocket, AllocSocket, Bind, SendSd,
           SdToSocket, TxServe, serverVars
      <4>3. CASE IrqLock \/ IrqUnlock
        BY <3>1, <4>3 DEF IrqLock, IrqUnlock, serverVars
      <4>4. CASE UNCHANGED vars
        BY <3>1, <4>4 DEF vars, serverVars
      <4> QED BY <1>1, <4>1, <4>2, <4>3, <4>4 DEF Next, Work
    <3> QED BY <3>2 DEF ServerNext
  <2>2. ASSUME NEW t \in Threads, ServerRecv(t)
        PROVE  FALSE
    BY <1>1, <2>2, ServerRecvInv
  <2>3. ASSUME NEW wild \in BOOLEAN, ServeCreate(wild)
        PROVE  Reason
    <3>1. spc = "create"
      BY <2>3 DEF ServeCreate
    <3> QED BY <1>1, <2>3, <3>1, ServeCreateInv
  <2>4. CASE ServeCreateFault
    <3>1. spc = "create"
      BY <2>4 DEF ServeCreateFault
    <3> QED BY <1>1, <2>4, <3>1, ServeCreateFaultInv
  <2>5. CASE ServeBind
    <3>1. spc = "bind"
      BY <2>5 DEF ServeBind
    <3> QED BY <1>1, <2>5, <3>1, ServeBindInv
  <2>6. CASE BindPcb
    <3>1. spc = "pcb"
      BY <2>6 DEF BindPcb
    <3>2. InUse(lserver)
      BY <1>1, <2>6, BindPcbInv
    <3> QED BY <3>1, <3>2 DEF InUse
  <2>7. CASE StartTx \/ BindLock \/ ReplyBind \/ StartRx
    BY <1>1, <2>7 DEF StartTx, BindLock, ReplyBind, StartRx
  <2>8. CASE ReplyCreate
    BY <1>1, <2>8, ReplyCreateInv
  <2> QED BY <2>1, <2>2, <2>3, <2>4, <2>5, <2>6, <2>7, <2>8
<1>2. StackInv /\ [Next]_vars => [Reason]_vars
  BY <1>1
<1> QED BY <1>2, InvHolds, PTL DEF Spec, StopsOnlyIf
-----------------------------------------------------------------------------
(* The mutexes.                                                            *)

\* The thread that has the mutex of process p is in sel4osapi_udp_create_socket,
\* at its call of the server or in its failed assert, and if it got as far as
\* the call it works on the last socket.
HolderAt(p) ==
  LET h == pmutex[p] IN
  h # None =>
    /\ ProcessOf[h] = p
    /\ \/ tpc[h] = "create"
       \/ tpc[h] = "waiting" /\ (spc = "aborted" \/ (rq = h /\ spc \in Creating))
       \/ /\ tpc[h] = "aborted"
          /\ Len(psock[p]) = MaxSockets
          /\ \A i \in DOMAIN psock[p] : psock[p][i].tx # 0
    /\ tpc[h] # "aborted" => arg[h].index = Len(psock[p])

MutexInv == (\A p \in Processes : HolderAt(p)) /\ IfaceMutexOwned

\* The threads that may have the mutex of their process.
Holding(u) ==
  \/ tpc[u] \in {"create", "aborted"}
  \/ tpc[u] = "waiting" /\ (spc = "aborted" \/ (rq = u /\ spc \in Creating))

\* A process's mutex stays where it is in a step that leaves its holder alone,
\* adds no socket to the process and does not end the service of a create.
LEMMA HolderFrame ==
  ASSUME TypeOK, NEW p \in Processes, HolderAt(p), pmutex'[p] = pmutex[p],
         \A u \in Threads : ProcessOf[u] = p /\ Holding(u) =>
           tpc'[u] = tpc[u] /\ arg'[u] = arg[u],
         Len(psock'[p]) = Len(psock[p]),
         DOMAIN psock'[p] = DOMAIN psock[p],
         \A i \in DOMAIN psock[p] : psock[p][i].tx # 0 => psock'[p][i].tx # 0,
         spc = "aborted" => spc' = "aborted",
         spc \in Creating => spc' = "aborted" \/ (spc' \in Creating /\ rq' = rq)
  PROVE  HolderAt(p)'
<1> DEFINE h == pmutex[p]
<1> SUFFICES ASSUME h # None
             PROVE  HolderAt(p)'
  BY DEF HolderAt
<1>1. h \in Threads
  BY TypeParts DEF ProcType
<1>2. ProcessOf[h] = p /\ Holding(h)
  BY DEF HolderAt, Holding
<1>3. tpc'[h] = tpc[h] /\ arg'[h] = arg[h] /\ pmutex'[p] = h
  BY <1>1, <1>2
<1>4. tpc[h] = "waiting" => spc' = "aborted" \/ (rq' = h /\ spc' \in Creating)
  BY <1>1, <1>2 DEF Holding
<1> HIDE DEF h
<1>5. /\ \/ tpc'[h] = "create"
         \/ tpc'[h] = "waiting" /\ (spc' = "aborted" \/ (rq' = h /\ spc' \in Creating))
         \/ /\ tpc'[h] = "aborted"
            /\ Len(psock'[p]) = MaxSockets
            /\ \A i \in DOMAIN psock'[p] : psock'[p][i].tx # 0
      /\ tpc'[h] # "aborted" => arg'[h].index = Len(psock'[p])
  BY <1>3, <1>4 DEF HolderAt, h
<1> QED BY <1>2, <1>3, <1>5 DEF HolderAt

\* The server keeps the mutex of an interface in a step that takes none for it
\* and leaves its bind, or its failed assert, alone.
LEMMA IfaceMutexFrame ==
  ASSUME IfaceMutexOwned,
         \A f \in Ifaces : mutex'[f] = "stack" => mutex[f] = "stack",
         spc \in {"pcb", "aborted"} => UNCHANGED <<spc, lserver, sockets>>
  PROVE  IfaceMutexOwned'
<1> SUFFICES ASSUME NEW f \in Ifaces, mutex'[f] = "stack"
             PROVE  /\ lserver' # 0
                    /\ sockets'[lserver'].iface = f
                    /\ spc' = "pcb" \/ (spc' = "aborted" /\ InUse(lserver)')
  BY DEF IfaceMutexOwned
<1>1. /\ lserver # 0
      /\ sockets[lserver].iface = f
      /\ spc = "pcb" \/ (spc = "aborted" /\ InUse(lserver))
  BY DEF IfaceMutexOwned
<1>2. UNCHANGED <<spc, lserver, sockets>>
  BY <1>1
<1>3. InUse(lserver) => InUse(lserver)'
  BY <1>2 DEF InUse
<1> QED BY <1>1, <1>2, <1>3

\* No mutex is held in the beginning.
LEMMA MutexInit == Init => MutexInv
  BY DEF Init, MutexInv, HolderAt, IfaceMutexOwned

\* The root thread and the interrupt thread.
LEMMA RootMutex ==
  ASSUME StackInv, MutexInv, RootNext \/ IrqLock \/ IrqUnlock \/ UNCHANGED vars
  PROVE  MutexInv'
<1>1. UNCHANGED <<procVars, serverVars>>
  BY DEF RootNext, ClientAlloc, ClientInit, IfaceAlloc, IfaceInit, IrqLock, IrqUnlock, vars
<1>2. UNCHANGED <<psock, pmutex, tpc, arg, spc, rq, lserver, sockets>>
  BY <1>1 DEF procVars, serverVars, localVars
<1>3. \A f \in Ifaces : mutex'[f] = "stack" => mutex[f] = "stack"
  <2>1. mutex \in [Ifaces -> {"free", "stack", "irq"}]
    BY DEF StackInv, TypeOK
  <2>2. mutex' = mutex \/ mutex' = [mutex EXCEPT ![1] = "irq"]
          \/ mutex' = [mutex EXCEPT ![1] = "free"]
    BY DEF RootNext, ClientAlloc, ClientInit, IfaceAlloc, IfaceInit, IrqLock, IrqUnlock, vars
  <2> QED BY <2>1, <2>2
<1>4. IfaceMutexOwned'
  BY <1>2, <1>3, IfaceMutexFrame DEF MutexInv
<1>5. ASSUME NEW p \in Processes
      PROVE  HolderAt(p)'
  BY <1>2 DEF MutexInv, HolderAt
<1> QED BY <1>4, <1>5 DEF MutexInv

\* A thread that begins a call, finds the socket to send on or has sent on it
\* has no mutex.
LEMMA CallMutex ==
  ASSUME StackInv, MutexInv, NEW t \in Threads,
         BeginNext(t) \/ SdToSocket(t) \/ TxServe(t)
  PROVE  MutexInv'
<1>1. /\ tpc[t] \in {"run", "sd_lock", "send"}
      /\ \E v \in TpcSet : tpc' = [tpc EXCEPT ![t] = v]
      /\ UNCHANGED <<mutex, pmutex, spc, rq, lserver, sockets>>
  <2>1. CASE BeginNext(t)
    BY <2>1 DEF BeginNext, CreateSocket, Bind, SendSd, Begin, Enter, TpcSet, serverVars,
       localVars
  <2>2. CASE SdToSocket(t) \/ TxServe(t)
    BY <2>2 DEF SdToSocket, TxServe, Enter, TpcSet, serverVars, localVars
  <2> QED BY <2>1, <2>2
<1>2. \A u \in Threads : u # t => arg'[u] = arg[u]
  <2>1. arg \in [Threads -> ArgType]
    BY TypeParts DEF StackInv, ProcType
  <2>2. CASE CreateSocket(t)
    BY <2>2 DEF CreateSocket
  <2>3. ASSUME NEW i, NEW port, Bind(t, i, port)
        PROVE  \A u \in Threads : u # t => arg'[u] = arg[u]
    BY <2>1, <2>3 DEF Bind
  <2>4. ASSUME NEW sd, SendSd(t, sd)
        PROVE  \A u \in Threads : u # t => arg'[u] = arg[u]
    BY <2>1, <2>4 DEF SendSd
  <2>5. CASE SdToSocket(t) \/ TxServe(t)
    BY <2>1, <2>5 DEF SdToSocket, TxServe
  <2> QED BY <2>2, <2>3, <2>4, <2>5 DEF BeginNext
<1>3. \A q \in Processes :
        /\ Len(psock'[q]) = Len(psock[q])
        /\ DOMAIN psock'[q] = DOMAIN psock[q]
        /\ \A i \in DOMAIN psock[q] : psock'[q][i].tx = psock[q][i].tx
  <2>1. CASE psock' = psock
    BY <2>1
  <2>2. ASSUME NEW i \in Ids, NEW port \in Ports, Bind(t, i, port), NEW q \in Processes
        PROVE  /\ Len(psock'[q]) = Len(psock[q])
               /\ DOMAIN psock'[q] = DOMAIN psock[q]
               /\ \A j \in DOMAIN psock[q] : psock'[q][j].tx = psock[q][j].tx
    <3> DEFINE p == ProcessOf[t]
               c == [psock[p][i] EXCEPT !.aep = t, !.rx = t]
    <3>1. p \in Processes /\ psock \in [Processes -> Seq(SockType)]
      BY ThreadFacts, TypeParts DEF StackInv, ProcType
    <3>2. i \in DOMAIN psock[p] /\ psock[p] \in Seq(SockType) /\ psock[p][i] \in SockType
      BY <2>2, <3>1, PsockFacts DEF Bind, Made, StackInv
    <3>3. psock' = [psock EXCEPT ![p] = [psock[p] EXCEPT ![i] = c]]
      BY <2>2, <3>1, <3>2 DEF Bind, SockType
    <3>4. c.tx = psock[p][i].tx /\ c \in SockType
      BY <3>2 DEF SockType
    <3> HIDE DEF c
    <3>5. [psock[p] EXCEPT ![i] = c] \in Seq(SockType)
      BY <3>2, <3>4
    <3>6. /\ Len([psock[p] EXCEPT ![i] = c]) = Len(psock[p])
          /\ DOMAIN [psock[p] EXCEPT ![i] = c] = DOMAIN psock[p]
      BY <3>2, <3>5
    <3>7. \A j \in DOMAIN psock[p] : [psock[p] EXCEPT ![i] = c][j].tx = psock[p][j].tx
      BY <3>2, <3>4
    <3> QED BY <3>1, <3>3, <3>6, <3>7
  <2> QED BY <2>1, <2>2 DEF BeginNext, CreateSocket, SendSd, SdToSocket, TxServe
<1>4. \A u \in Threads : Holding(u) => tpc'[u] = tpc[u] /\ arg'[u] = arg[u]
  <2>1. tpc \in [Threads -> TpcSet]
    BY TypeParts DEF StackInv, ProcType
  <2> QED BY <1>1, <1>2, <2>1 DEF Holding
<1>5. ASSUME NEW p \in Processes
      PROVE  HolderAt(p)'
  <2>1. HolderAt(p) /\ pmutex'[p] = pmutex[p] /\ TypeOK
    BY <1>1 DEF MutexInv, StackInv
  <2> QED BY <1>1, <1>3, <1>4, <2>1, HolderFrame
<1>6. IfaceMutexOwned'
  BY <1>1, IfaceMutexFrame DEF MutexInv
<1> QED BY <1>5, <1>6 DEF MutexInv

\* sel4osapi_udp_create_socket takes the mutex; if its assert fails every
\* socket of the process is finished, as an unfinished one has a holder.
LEMMA AllocMutex ==
  ASSUME StackInv, MutexInv, NEW t \in Threads, NEW a \in RequestAddrs,
         NEW junk \in JunkIds, AllocSocket(t, a, junk)
  PROVE  MutexInv'
<1> DEFINE p == ProcessOf[t]
<1>1. /\ tpc[t] = "create_lock" /\ pmutex[p] = None
      /\ pmutex' = [pmutex EXCEPT ![p] = t]
      /\ UNCHANGED <<mutex, spc, rq, lserver, sockets>>
  BY DEF AllocSocket, Enter, serverVars, localVars
<1>2. /\ p \in Processes /\ psock \in [Processes -> Seq(SockType)]
      /\ pmutex \in [Processes -> Threads \cup {None}]
      /\ tpc \in [Threads -> TpcSet] /\ arg \in [Threads -> ArgType]
      /\ psock[p] \in Seq(SockType) /\ Len(psock[p]) \in Nat /\ MaxSockets \in Nat
      /\ Len(psock[p]) <= MaxSockets
  BY ThreadFacts, PsockFacts, TypeParts, BoundsAssumption
     DEF StackInv, ProcType, ProcSockInv
<1>3. HolderAt(p)'
  <2>1. CASE Len(psock[p]) < MaxSockets
    <3>1. /\ tpc'[t] = "create"
          /\ psock'[p] = Append(psock[p], NewSocket(a, junk))
          /\ arg'[t].index = Len(psock[p]) + 1
      BY <1>2, <2>1 DEF AllocSocket, Enter, ArgType
    <3>2. Len(psock'[p]) = Len(psock[p]) + 1
      BY <1>2, <3>1
    <3> QED BY <1>1, <1>2, <3>1, <3>2 DEF HolderAt
  <2>2. CASE ~(Len(psock[p]) < MaxSockets)
    <3>1. tpc'[t] = "aborted" /\ psock' = psock
      BY <1>2, <2>2 DEF AllocSocket, Enter
    <3>2. \A i \in DOMAIN psock[p] : psock[p][i].tx # 0
      BY <1>1, <1>2 DEF StackInv, ProcSockInv, SockAt, Unmade
    <3> QED BY <1>1, <1>2, <2>2, <3>1, <3>2 DEF HolderAt
  <2> QED BY <2>1, <2>2
<1>4. ASSUME NEW q \in Processes, q # p
      PROVE  HolderAt(q)'
  <2>1. pmutex'[q] = pmutex[q] /\ psock'[q] = psock[q]
    BY <1>1, <1>2, <1>4 DEF AllocSocket
  <2>2. \A u \in Threads : ProcessOf[u] = q => tpc'[u] = tpc[u] /\ arg'[u] = arg[u]
    BY <1>2, <1>4 DEF AllocSocket, Enter
  <2>3. HolderAt(q) /\ TypeOK
    BY DEF MutexInv, StackInv
  <2> QED BY <1>1, <2>1, <2>2, <2>3, HolderFrame
<1>5. IfaceMutexOwned'
  BY <1>1, IfaceMutexFrame DEF MutexInv
<1> QED BY <1>3, <1>4, <1>5 DEF MutexInv

\* Between creates the server's steps leave a process's mutex alone: who has one
\* has not been received yet, or has failed.
LEMMA ServeMutexFrame ==
  ASSUME StackInv, MutexInv, UNCHANGED <<mutex, pmutex, psock, tpc, arg>>,
         spc \notin {"pcb", "aborted"},
         spc \in Creating => rq' = rq /\ (spc' = "aborted" \/ spc' \in Creating)
  PROVE  MutexInv'
<1>1. ASSUME NEW p \in Processes
      PROVE  HolderAt(p)'
  <2>1. HolderAt(p) /\ TypeOK
    BY DEF MutexInv, StackInv
  <2> QED BY <2>1, HolderFrame
<1>2. IfaceMutexOwned'
  BY IfaceMutexFrame DEF MutexInv
<1> QED BY <1>1, <1>2 DEF MutexInv

\* seL4_Recv: the request that is received may be the one of a holder.
LEMMA RecvMutex ==
  ASSUME StackInv, MutexInv, NEW t \in Threads, ServerRecv(t)
  PROVE  MutexInv'
<1>1. /\ spc = "recv" /\ UNCHANGED <<mutex, pmutex, psock, arg, lserver>>
      /\ tpc' = [tpc EXCEPT ![t] = "waiting"]
      /\ \/ tpc[t] = "create" /\ spc' = "create" /\ rq' = t
         \/ tpc[t] = "bind"
  BY DEF ServerRecv, Enter, localVars
<1>2. tpc \in [Threads -> TpcSet]
  BY TypeParts DEF StackInv, ProcType
<1>3. ASSUME NEW p \in Processes
      PROVE  HolderAt(p)'
  <2>1. HolderAt(p) /\ TypeOK
    BY DEF MutexInv, StackInv
  <2>2. CASE pmutex[p] # t
    <3>1. CASE pmutex[p] = None
      BY <1>1, <3>1 DEF HolderAt
    <3>2. CASE pmutex[p] # None
      <4>1. PICK h \in Threads : h = pmutex[p]
        BY <3>2, <2>1, TypeParts DEF ProcType
      <4>2. tpc'[h] = tpc[h] /\ tpc[h] # "waiting"
        BY <1>1, <1>2, <2>1, <2>2, <3>2, <4>1 DEF HolderAt, Creating
      <4> QED BY <1>1, <2>1, <3>2, <4>1, <4>2 DEF HolderAt
    <3> QED BY <3>1, <3>2
  <2>3. CASE pmutex[p] = t
    <3>1. t # None /\ tpc[t] = "create"
      BY <1>1, <2>1, <2>3, ThreadFacts DEF HolderAt
    <3>2. tpc'[t] = "waiting" /\ spc' = "create" /\ rq' = t
      BY <1>1, <1>2, <3>1
    <3> QED BY <1>1, <2>1, <2>3, <3>1, <3>2 DEF HolderAt, Creating
  <2> QED BY <2>2, <2>3
<1>4. IfaceMutexOwned'
  BY <1>1, IfaceMutexFrame DEF MutexInv
<1> QED BY <1>3, <1>4 DEF MutexInv

\* The answer to a create releases the mutex of the caller's process.
LEMMA ReplyCreateMutex ==
  ASSUME StackInv, MutexInv, ReplyCreate
  PROVE  MutexInv'
<1>1. spc = "new" /\ spc' = "start_tx" /\ PcbsLeft
  BY ReplyCreateInv DEF ReplyCreate
<1>2. PICK t \in Threads : t = rq
  BY <1>1 DEF StackInv, ServerInv, Creating
<1> DEFINE p == ProcessOf[t]
<1>3. /\ tpc' = [tpc EXCEPT ![t] = "run"] /\ tpc[t] = "waiting"
      /\ psock' = [psock EXCEPT ![p][arg[t].index].tx = lserver,
                                ![p][arg[t].index].id = lserver]
      /\ pmutex' = [pmutex EXCEPT ![p] = None]
      /\ arg' = [arg EXCEPT ![t] = NoArg]
      /\ UNCHANGED <<mutex, lserver, sockets>>
  BY <1>1, <1>2 DEF ReplyCreate, Enter, localVars
<1>4. /\ p \in Processes /\ psock \in [Processes -> Seq(SockType)]
      /\ pmutex \in [Processes -> Threads \cup {None}]
      /\ tpc \in [Threads -> TpcSet] /\ arg \in [Threads -> ArgType]
  BY ThreadFacts, TypeParts DEF StackInv, ProcType
<1>5. HolderAt(p)'
  BY <1>3, <1>4 DEF HolderAt
<1>6. ASSUME NEW q \in Processes, q # p
      PROVE  HolderAt(q)'
  <2>1. pmutex'[q] = pmutex[q] /\ psock'[q] = psock[q]
    BY <1>3, <1>4, <1>6
  <2>2. \A u \in Threads : ProcessOf[u] = q =>
          tpc'[u] = tpc[u] /\ arg'[u] = arg[u] /\ u # rq
    BY <1>2, <1>3, <1>4, <1>6
  <2>3. HolderAt(q) /\ TypeOK
    BY DEF MutexInv, StackInv
  <2>4. CASE pmutex[q] = None
    BY <2>1, <2>4 DEF HolderAt
  <2>5. CASE pmutex[q] # None
    <3>1. PICK h \in Threads : h = pmutex[q]
      BY <2>3, <2>5, TypeParts DEF ProcType
    <3>2. ProcessOf[h] = q /\ tpc[h] # "waiting"
      BY <1>1, <2>2, <2>3, <2>5, <3>1 DEF HolderAt
    <3> QED BY <2>1, <2>2, <2>3, <2>5, <3>1, <3>2 DEF HolderAt
  <2> QED BY <2>4, <2>5
<1>7. IfaceMutexOwned'
  BY <1>1, <1>3, IfaceMutexFrame DEF MutexInv
<1> QED BY <1>5, <1>6, <1>7 DEF MutexInv

\* The answer to a bind: its caller has no mutex.
LEMMA ReplyBindMutex ==
  ASSUME StackInv, MutexInv, ReplyBind
  PROVE  MutexInv'
<1>1. spc = "bound" /\ spc' = "start_rx" /\ UNCHANGED <<mutex, pmutex, rq, lserver, sockets>>
  BY DEF ReplyBind, localVars
<1>2. PICK t \in Threads : t = rq
  BY <1>1 DEF StackInv, ServerInv, Binding, Bound
<1> DEFINE p == ProcessOf[t]
           k == arg[t].index
<1>3. k \in DOMAIN psock[p] /\ tpc[t] = "waiting"
  BY <1>1, <1>2 DEF StackInv, ServerInv, Binds, Binding, Bound
<1>4. /\ p \in Processes /\ psock \in [Processes -> Seq(SockType)]
      /\ psock[p] \in Seq(SockType) /\ psock[p][k] \in SockType
      /\ psock[p][k].got \in [Threads -> Ids]
      /\ tpc \in [Threads -> TpcSet] /\ arg \in [Threads -> ArgType]
  BY <1>3, ThreadFacts, PsockFacts, TypeParts DEF StackInv, ProcType, SockType
<1>5. /\ tpc' = [tpc EXCEPT ![t] = "run"]
      /\ arg' = [arg EXCEPT ![t] = NoArg]
      /\ psock' = [psock EXCEPT ![p][k].got[t] = slots[mint].sock,
                                ![p][k].port = arg[t].port]
  BY <1>2 DEF ReplyBind, Enter
<1>6. \A u \in Threads : Holding(u) => u # t
  BY <1>1, <1>3 DEF Holding, Creating
<1>7. \A q \in Processes :
        /\ Len(psock'[q]) = Len(psock[q])
        /\ DOMAIN psock'[q] = DOMAIN psock[q]
        /\ \A i \in DOMAIN psock[q] : psock'[q][i].tx = psock[q][i].tx
  <2> DEFINE c == [psock[p][k] EXCEPT !.got = [psock[p][k].got EXCEPT ![t] = slots[mint].sock],
                                      !.port = arg[t].port]
  <2>1. psock' = [psock EXCEPT ![p] = [psock[p] EXCEPT ![k] = c]]
    BY <1>3, <1>4, <1>5 DEF SockType
  <2>2. c.tx = psock[p][k].tx
    BY <1>4 DEF SockType
  <2> HIDE DEF c
  <2>3. /\ DOMAIN [psock[p] EXCEPT ![k] = c] = DOMAIN psock[p]
        /\ Len([psock[p] EXCEPT ![k] = c]) = Len(psock[p])
        /\ \A i \in DOMAIN psock[p] : [psock[p] EXCEPT ![k] = c][i].tx = psock[p][i].tx
    <3>1. StackInv'
      BY ReplyBindInv
    <3>2. psock'[p] = [psock[p] EXCEPT ![k] = c]
      BY <1>4, <2>1
    <3>3. [psock[p] EXCEPT ![k] = c] \in Seq(SockType)
      <4>1. psock' \in [Processes -> Seq(SockType)]
        BY <3>1, TypePartsNext DEF StackInv, ProcType
      <4>2. psock'[p] \in Seq(SockType)
        BY <1>4, <4>1
      <4> QED BY <3>2, <4>2, Zenon
    <3>4. /\ DOMAIN [psock[p] EXCEPT ![k] = c] = DOMAIN psock[p]
          /\ Len([psock[p] EXCEPT ![k] = c]) = Len(psock[p])
      BY <1>4, <3>3
    <3>5. \A i \in DOMAIN psock[p] : [psock[p] EXCEPT ![k] = c][i].tx = psock[p][i].tx
      BY <1>3, <1>4, <2>2
    <3> QED BY <3>4, <3>5
  <2> QED BY <1>4, <2>1, <2>3
<1>8. ASSUME NEW q \in Processes
      PROVE  HolderAt(q)'
  <2>1. HolderAt(q) /\ TypeOK /\ pmutex'[q] = pmutex[q]
    BY <1>1 DEF MutexInv, StackInv
  <2>2. \A u \in Threads : Holding(u) => tpc'[u] = tpc[u] /\ arg'[u] = arg[u]
    BY <1>4, <1>5, <1>6
  <2> QED BY <1>1, <1>7, <2>1, <2>2, HolderFrame DEF Creating
<1>9. IfaceMutexOwned'
  BY <1>1, IfaceMutexFrame DEF MutexInv
<1> QED BY <1>8, <1>9 DEF MutexInv

\* sel4osapi_mutex_lock and _unlock around lwIP in a bind: the mutex that is
\* released is the one that was taken, as lserver names the same socket.
LEMMA BindMutex ==
  ASSUME StackInv, MutexInv, BindLock \/ BindPcb
  PROVE  MutexInv'
<1>1. /\ spc \in {"lock", "pcb"} /\ UNCHANGED <<psock, pmutex, tpc, arg, rq, lserver>>
      /\ mutex \in [Ifaces -> {"free", "stack", "irq"}]
  BY DEF BindLock, BindPcb, procVars, localVars, StackInv, TypeOK
<1>2. ASSUME NEW p \in Processes
      PROVE  HolderAt(p)'
  <2>1. HolderAt(p) /\ TypeOK
    BY DEF MutexInv, StackInv
  <2> QED BY <1>1, <2>1, HolderFrame DEF Creating
<1>3. lserver \in DOMAIN sockets /\ lserver # 0 /\ sockets[lserver].iface \in Ifaces
  <2>1. lserver \in DOMAIN sockets
    BY <1>1, BindingFact DEF Binding, Bound
  <2> QED BY <2>1, ServerFacts DEF StackInv, ServType
<1>4. CASE BindLock
  <2>1. /\ mutex' = [mutex EXCEPT ![sockets[lserver].iface] = "stack"]
        /\ spc = "lock" /\ spc' = "pcb" /\ sockets' = sockets
    BY <1>4 DEF BindLock
  <2>2. \A f \in Ifaces : mutex[f] # "stack"
    BY <2>1 DEF MutexInv, IfaceMutexOwned
  <2>3. IfaceMutexOwned'
    BY <1>1, <1>3, <2>1, <2>2 DEF IfaceMutexOwned
  <2> QED BY <1>2, <2>3 DEF MutexInv
<1>5. CASE BindPcb /\ InUse(lserver)
  <2>1. /\ sockets' = [sockets EXCEPT ![lserver].recv = TRUE]
        /\ spc = "pcb" /\ spc' = "aborted" /\ mutex' = mutex
    BY <1>5 DEF BindPcb
  <2>2. /\ DOMAIN sockets' = DOMAIN sockets
        /\ \A s \in DOMAIN sockets :
             /\ sockets'[s].bound = sockets[s].bound /\ sockets'[s].port = sockets[s].port
             /\ sockets'[s].addr = sockets[s].addr /\ sockets'[s].iface = sockets[s].iface
    BY <2>1, ServerFacts DEF StackInv, ServType
  <2>3. InUse(lserver)'
    BY <1>1, <1>3, <1>5, <2>2 DEF InUse
  <2>4. IfaceMutexOwned'
    BY <1>1, <1>3, <2>1, <2>2, <2>3 DEF IfaceMutexOwned, MutexInv
  <2> QED BY <1>2, <2>4 DEF MutexInv
<1>6. CASE BindPcb /\ ~InUse(lserver)
  <2>1. spc = "pcb" /\ mutex' = [mutex EXCEPT ![sockets[lserver].iface] = "free"]
    BY <1>6 DEF BindPcb, BoundIface
  <2>2. \A f \in Ifaces : mutex'[f] # "stack"
    BY <1>1, <1>3, <2>1 DEF MutexInv, IfaceMutexOwned
  <2> QED BY <1>2, <2>2 DEF MutexInv, IfaceMutexOwned
<1> QED BY <1>4, <1>5, <1>6

\* Every step keeps MutexInv.
LEMMA MutexStep == StackInv /\ MutexInv /\ [Next]_vars => MutexInv'
<1> SUFFICES ASSUME StackInv, MutexInv, [Next]_vars PROVE MutexInv'
  OBVIOUS
<1>1. CASE RootNext \/ IrqLock \/ IrqUnlock \/ UNCHANGED vars
  BY <1>1, RootMutex
<1>2. ASSUME NEW t \in Threads, BeginNext(t) \/ LockNext(t) \/ TxServe(t)
      PROVE  MutexInv'
  BY <1>2, CallMutex, AllocMutex DEF LockNext
<1>3. CASE ServerNext
  <2>1. ASSUME NEW wild \in BOOLEAN, ServeCreate(wild)
        PROVE  MutexInv'
    <3>1. /\ spc = "create" /\ spc' \in {"new", "aborted"} /\ rq' = rq
          /\ UNCHANGED <<mutex, pmutex, psock, tpc, arg>>
      BY <2>1 DEF ServeCreate, Abort, procVars
    <3> QED BY <3>1, ServeMutexFrame DEF Creating
  <2>2. CASE ServeCreateFault
    <3>1. /\ spc = "create" /\ spc' = "aborted" /\ rq' = rq
          /\ UNCHANGED <<mutex, pmutex, psock, tpc, arg>>
      BY <2>2 DEF ServeCreateFault, Abort, procVars
    <3> QED BY <3>1, ServeMutexFrame
  <2>3. CASE StartTx \/ ServeBind \/ StartRx
    <3>1. spc \in {"start_tx", "bind", "start_rx"} /\ UNCHANGED <<mutex, pmutex, psock, tpc, arg>>
      BY <2>3 DEF StartTx, ServeBind, StartRx, procVars
    <3> QED BY <3>1, ServeMutexFrame DEF Creating
  <2> QED BY <1>3, <2>1, <2>2, <2>3, RecvMutex, ReplyCreateMutex, ReplyBindMutex, BindMutex
          DEF ServerNext
<1> QED BY <1>1, <1>2, <1>3 DEF Next, Work

\* No mutex is left behind.  The one of a process is with a thread of it that
\* waits for the answer to its create, or whose assert failed, and the socket
\* that is not finished is that thread's; so a socket is never left half made
\* with the mutex free, where sel4osapi_udp_sd_to_socket would find it.  The one
\* of an interface is with the server only while it binds a socket there, or
\* after its assert on udp_bind failed.
THEOREM MutexesKept == Spec => []MutexesOwned
<1>1. StackInv /\ MutexInv => MutexesOwned
  <2> SUFFICES ASSUME StackInv, MutexInv PROVE ProcessMutexOwned
    BY DEF MutexesOwned, MutexInv
  <2>1. ASSUME NEW p \in Processes, pmutex[p] # None
        PROVE  LET h == pmutex[p] IN
               /\ ProcessOf[h] = p
               /\ \/ tpc[h] = "create"
                  \/ tpc[h] = "waiting" /\ spc = "aborted"
                  \/ tpc[h] = "waiting" /\ rq = h /\ spc \in {"create", "new"}
                  \/ tpc[h] = "aborted" /\ Len(psock[p]) = MaxSockets
    BY <2>1 DEF MutexInv, HolderAt, Creating
  <2>2. ASSUME NEW p \in Processes, NEW i \in DOMAIN psock[p] \ Made(p)
        PROVE  /\ pmutex[p] # None
               /\ tpc[pmutex[p]] # "aborted"
               /\ arg[pmutex[p]].index = i
    <3>1. psock[p][i].tx = 0
      BY DEF Made
    <3>2. Unmade(p, i)
      BY <3>1 DEF StackInv, ProcSockInv, SockAt
    <3>3. i = Len(psock[p]) /\ pmutex[p] # None
      BY <3>2 DEF Unmade
    <3> QED BY <3>1, <3>3 DEF MutexInv, HolderAt
  <2> QED BY <2>1, <2>2 DEF ProcessMutexOwned
<1>2. Spec => []MutexInv
  BY InvHolds, MutexInit, MutexStep, PTL DEF Spec
<1> QED BY <1>1, <1>2, InvHolds, PTL
=============================================================================
