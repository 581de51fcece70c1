---------------------------- MODULE ProcessProofs ---------------------------
(***************************************************************************)
(* Proofs about Process.  ProcessInv is inductive: elements leave the pool *)
(* in order and never return, so the pid of a process is the position of   *)
(* its element; and until a process gets no memory at all, every process   *)
(* that exists has some, so that deleting it releases just what it has.    *)
(***************************************************************************)
EXTENDS Process, TLAPS

\* The number of processes ever created.
Created == MaxProcesses - Len(free)

PoolInv ==
  /\ Len(free) <= MaxProcesses
  /\ \A k \in 1 .. Len(free) : free[k] = Created + k
  /\ \A p \in Processes :
       /\ p <= Created => pid[p] = p
       /\ p > Created => ppc[p] = "none"

FedInv == ~starved => \A p \in Live : indices[p] # {}

ProcessInv ==
  /\ AllocatedToLive
  /\ PoolInv
  /\ FedInv
  /\ Exclusive

-----------------------------------------------------------------------------
\* The next element of the pool is the one after those that were allocated,
\* and that number is the new pid.
LEMMA NextElement ==
  ASSUME free \in Seq(Processes), PoolInv, free # << >>
  PROVE  /\ Len(free) \in Nat \ {0}
         /\ Head(free) = Created + 1
         /\ Head(free) \in Processes
         /\ NewPid = Created + 1
         /\ Tail(free) \in Seq(Processes)
         /\ Len(Tail(free)) = Len(free) - 1
         /\ \A k \in 1 .. Len(Tail(free)) : Tail(free)[k] = free[k + 1]
<1>1. Len(free) \in Nat \ {0} /\ Head(free) = free[1] /\ free[1] \in Processes
  OBVIOUS
<1>2. /\ Tail(free) \in Seq(Processes)
      /\ Len(Tail(free)) = Len(free) - 1
      /\ \A k \in 1 .. Len(Tail(free)) : Tail(free)[k] = free[k + 1]
  BY <1>1
<1>3. free[1] = Created + 1
  BY <1>1 DEF PoolInv
<1>4. NewPid = Created + 1
  BY <1>1, <1>2, ProcessesAssumption DEF NewPid, Created
<1> QED
  BY <1>1, <1>2, <1>3, <1>4

\* Processes that exist were created, and have their position as pid.
LEMMA LivePids ==
  ASSUME PoolInv, free \in Seq(Processes)
  PROVE  \A p \in Live : p <= Created /\ pid[p] = p /\ p \in Processes /\ p # 0
  BY ProcessesAssumption DEF PoolInv, Live, Processes, Created

\* Steps that only move a process from a state to another, neither of them
\* one in which it does not exist, or do nothing to it.
LEMMA MoveInv ==
  ASSUME ProcessInv, TypeOK', Live' = Live, UNCHANGED <<allocation, free, procVars, starved>>,
         \A p \in Processes : ppc[p] = "none" <=> ppc'[p] = "none"
  PROVE  ProcessInv'
<1>1. AllocatedToLive'
  BY DEF ProcessInv, AllocatedToLive, procVars
<1>2. PoolInv'
  BY DEF ProcessInv, PoolInv, procVars, Created
<1>3. FedInv' /\ Exclusive'
  BY DEF ProcessInv, FedInv, Exclusive, procVars
<1> QED
  BY <1>1, <1>2, <1>3 DEF ProcessInv

\* sel4osapi_process_create takes only untypeds that are available.
LEMMA CreateInv ==
  ASSUME ProcessInv, Create
  PROVE  ProcessInv'
<1> DEFINE new == Head(free)
<1>1. TypeOK /\ PoolInv
  BY DEF ProcessInv, AllocatedToLive
<1>2. /\ Len(free) \in Nat \ {0}
      /\ new = Created + 1
      /\ new \in Processes
      /\ NewPid = new
      /\ Tail(free) \in Seq(Processes)
      /\ Len(Tail(free)) = Len(free) - 1
      /\ \A k \in 1 .. Len(Tail(free)) : Tail(free)[k] = free[k + 1]
  BY <1>1, NextElement DEF Create, TypeOK
<1>3. new # 0 /\ new \in 0 .. MaxProcesses /\ Created \in Int
  BY <1>2, ProcessesAssumption DEF Processes, Created
<1>4. /\ free' = Tail(free)
      /\ pid' = [pid EXCEPT ![new] = new]
      /\ indices' = [indices EXCEPT ![new] = Taken]
      /\ allocation' = [u \in Untypeds |-> IF u \in Taken THEN new ELSE allocation[u]]
      /\ starved' = (starved \/ Taken = {})
      /\ ppc' = [ppc EXCEPT ![new] = "created"]
      /\ UNCHANGED <<root, target, label>>
  BY <1>2 DEF Create, InitEnv, rootVars
<1>5. \A u \in Taken : u \in Untypeds /\ allocation[u] = 0
  BY DEF Taken, Available
<1>6. new \notin Live
  BY <1>1, <1>2, <1>3, LivePids DEF TypeOK
<1> HIDE DEF new
<1>7. \A p \in Processes : p \in Live' <=> p \in Live \/ p = new
  BY <1>1, <1>2, <1>4 DEF Live, TypeOK
<1>8. \A p \in Live : p \in Processes /\ p # new /\ pid'[p] = pid[p] /\ indices'[p] = indices[p]
  BY <1>1, <1>4, <1>6 DEF Live, TypeOK
<1>9. pid'[new] = new /\ indices'[new] = Taken
  BY <1>1, <1>2, <1>4 DEF TypeOK
<1>10. TypeOK'
  <2>1. Taken \in SUBSET Untypeds
    BY <1>5
  <2>2. starved' \in BOOLEAN /\ "created" \in States
    BY <1>1, <1>4 DEF TypeOK, States
  <2>3. allocation' \in [Untypeds -> 0 .. MaxProcesses]
    BY <1>1, <1>3, <1>4 DEF TypeOK
  <2> QED
    BY <1>1, <1>2, <1>3, <1>4, <2>1, <2>2, <2>3 DEF TypeOK
<1>11. AllocatedToLive'
  <2> SUFFICES ASSUME NEW u \in Untypeds, allocation'[u] # 0
               PROVE  \E p \in Live' : pid'[p] = allocation'[u] /\ u \in indices'[p]
    BY <1>10 DEF AllocatedToLive
  <2>1. CASE u \in Taken
    BY <1>2, <1>4, <1>7, <1>9, <2>1
  <2>2. CASE u \notin Taken
    <3>1. allocation[u] # 0 /\ allocation'[u] = allocation[u]
      BY <1>4, <2>2
    <3>2. PICK p \in Live : pid[p] = allocation[u] /\ u \in indices[p]
      BY <3>1 DEF ProcessInv, AllocatedToLive
    <3> QED
      BY <1>7, <1>8, <3>1, <3>2
  <2> QED
    BY <2>1, <2>2
<1>12. PoolInv'
  <2>1. Created' = new /\ Len(free') = Len(free) - 1 /\ Len(free') \in Nat
    BY <1>2, <1>4, ProcessesAssumption DEF Created
  <2>2. Len(free') <= MaxProcesses
    BY <1>1, <1>2, <2>1, ProcessesAssumption DEF PoolInv
  <2>3. ASSUME NEW k \in 1 .. Len(free')
        PROVE  free'[k] = Created' + k
    <3>1. free'[k] = free[k + 1] /\ k + 1 \in 1 .. Len(free)
      BY <1>2, <1>4, <2>1
    <3>2. free[k + 1] = Created + (k + 1)
      BY <1>1, <3>1 DEF PoolInv
    <3> QED
      BY <1>2, <1>3, <2>1, <3>1, <3>2
  <2>4. ASSUME NEW p \in Processes
        PROVE  /\ p <= new => pid'[p] = p
               /\ p > new => ppc'[p] = "none"
    <3>1. p \in Int /\ new \in Int
      BY <1>3, ProcessesAssumption DEF Processes
    <3>2. CASE p = new
      BY <1>9, <3>1, <3>2
    <3>3. CASE p # new
      <4>1. pid'[p] = pid[p] /\ ppc'[p] = ppc[p]
        BY <1>1, <1>4, <3>3 DEF TypeOK
      <4> QED
        BY <1>1, <1>2, <1>3, <3>1, <3>3, <4>1 DEF PoolInv
    <3> QED
      BY <3>2, <3>3
  <2> QED
    BY <2>1, <2>2, <2>3, <2>4 DEF PoolInv
<1>13. ~starved' => ~starved /\ Taken # {}
  BY <1>4
<1>14. FedInv'
  <2> SUFFICES ASSUME ~starved', NEW p \in Live'
               PROVE  indices'[p] # {}
    BY DEF FedInv
  <2> QED
    BY <1>7, <1>8, <1>9, <1>13 DEF ProcessInv, FedInv, Live
<1>15. Exclusive'
  <2> SUFFICES ASSUME ~starved', NEW p \in Live', NEW u \in indices'[p]
               PROVE  /\ allocation'[u] = pid'[p]
                      /\ \A q \in Live' \ {p} : u \notin indices'[q]
    BY DEF Exclusive
  <2>1. \A q \in Live : /\ \A v \in indices[q] : allocation[v] = pid[q] /\ v \in Untypeds
                        /\ pid[q] # 0
    BY <1>1, <1>13, LivePids DEF ProcessInv, Exclusive, TypeOK, Live
  <2>2. \A q \in Live : \A v \in indices[q] : v \notin Taken
    BY <1>5, <2>1
  <2>3. p \in Processes /\ \A q \in Live' : q \in Processes
    BY DEF Live
  <2>4. CASE p = new
    BY <1>4, <1>5, <1>7, <1>8, <1>9, <2>2, <2>3, <2>4
  <2>5. CASE p # new
    <3>1. p \in Live /\ indices'[p] = indices[p] /\ pid'[p] = pid[p] /\ u \in indices[p]
      BY <1>7, <1>8, <2>3, <2>5
    <3>2. allocation'[u] = pid'[p]
      BY <1>4, <2>1, <2>2, <3>1
    <3>3. \A q \in Live \ {p} : u \notin indices[q]
      BY <1>13, <3>1 DEF ProcessInv, Exclusive
    <3>4. ASSUME NEW q \in Live' \ {p}
          PROVE  u \notin indices'[q]
      BY <1>7, <1>8, <1>9, <2>2, <2>3, <3>1, <3>3
    <3> QED
      BY <3>2, <3>4
  <2> QED
    BY <2>4, <2>5
<1> QED
  BY <1>11, <1>12, <1>14, <1>15 DEF ProcessInv

\* sel4osapi_process_delete releases what the process has, and, while no
\* process is without memory, nothing else.
LEMMA DeleteInv ==
  ASSUME ProcessInv, NEW p \in Processes, Delete(p)
  PROVE  ProcessInv'
<1>1. TypeOK /\ PoolInv /\ p \in Live
  BY DEF ProcessInv, AllocatedToLive, Delete
<1>2. /\ allocation' = [u \in Untypeds |-> IF u \in Released(p) THEN 0 ELSE allocation[u]]
      /\ ppc' = [ppc EXCEPT ![p] = "deleted"]
      /\ UNCHANGED <<free, pid, indices, root, target, label, starved>>
  BY DEF Delete, procVars, rootVars
<1>3. \A q \in Processes : q \in Live' <=> q \in Live /\ q # p
  BY <1>1, <1>2 DEF Live, TypeOK
<1>4. indices[p] \subseteq Released(p)
  BY DEF Released
<1>5. TypeOK'
  <2>1. allocation' \in [Untypeds -> 0 .. MaxProcesses]
    BY <1>1, <1>2, ProcessesAssumption DEF TypeOK
  <2>2. "deleted" \in States
    BY DEF States
  <2> QED
    BY <1>1, <1>2, <2>1, <2>2 DEF TypeOK
<1>6. AllocatedToLive'
  <2> SUFFICES ASSUME NEW u \in Untypeds, allocation'[u] # 0
               PROVE  \E q \in Live' : pid'[q] = allocation'[u] /\ u \in indices'[q]
    BY <1>5 DEF AllocatedToLive
  <2>1. allocation[u] # 0 /\ allocation'[u] = allocation[u] /\ u \notin Released(p)
    BY <1>2
  <2>2. PICK q \in Live : pid[q] = allocation[u] /\ u \in indices[q]
    BY <2>1 DEF ProcessInv, AllocatedToLive
  <2>3. q # p /\ q \in Processes
    BY <1>4, <2>1, <2>2 DEF Live
  <2> QED
    BY <1>2, <1>3, <2>1, <2>2, <2>3
<1>7. PoolInv'
  <2>1. \A q \in Processes : ppc[q] = "none" => ppc'[q] = "none"
    BY <1>1, <1>2 DEF Live, TypeOK
  <2> QED
    BY <1>1, <1>2, <2>1 DEF PoolInv, Created
<1>8. FedInv'
  BY <1>2, <1>3 DEF ProcessInv, FedInv, Live
<1>9. Exclusive'
  <2> SUFFICES ASSUME ~starved, NEW q \in Live', NEW u \in indices[q]
               PROVE  /\ allocation'[u] = pid[q]
                      /\ \A r \in Live' \ {q} : u \notin indices[r]
    BY <1>2 DEF Exclusive
  <2>1. q \in Live /\ q # p /\ q \in Processes
    BY <1>3 DEF Live
  <2>2. Released(p) = indices[p]
    BY <1>1 DEF Released, ProcessInv, FedInv
  <2>3. /\ allocation[u] = pid[q] /\ u \notin indices[p] /\ u \in Untypeds
        /\ \A r \in Live \ {q} : u \notin indices[r]
    BY <1>1, <2>1 DEF ProcessInv, Exclusive, TypeOK
  <2>4. \A r \in Live' : r \in Live
    BY <1>3 DEF Live
  <2> QED
    BY <1>2, <2>2, <2>3, <2>4
<1> QED
  BY <1>6, <1>7, <1>8, <1>9 DEF ProcessInv

\* The other steps of a process and of the root task.
LEMMA StepInv ==
  ASSUME ProcessInv, NEW p \in Processes,
         Spawn(p) \/ Join(p) \/ Kernel(p) \/ ProcessNext(p)
  PROVE  ProcessInv'
<1> DEFINE Existing == States \ {"none", "deleted"}
<1>1. TypeOK
  BY DEF ProcessInv, AllocatedToLive
<1>2. UNCHANGED <<allocation, free, procVars, starved>>
  BY DEF Spawn, Join, Kernel, SendEnv, JoinReturn, ProcessNext, ProcessRecv, ProcessFault,
     SignalRoot
<1>3. ppc' = ppc \/ \E to \in Existing : ppc[p] \in Existing /\ ppc' = [ppc EXCEPT ![p] = to]
  <2>1. CASE Spawn(p) \/ Join(p)
    BY <2>1 DEF Spawn, Join, States
  <2>2. CASE Kernel(p)
    BY <2>2 DEF Kernel, SendEnv, JoinReturn, Move, States
  <2>3. CASE ProcessNext(p)
    BY <2>3 DEF ProcessNext, ProcessRecv, ProcessFault, SignalRoot, Move, States
  <2> QED
    BY <2>1, <2>2, <2>3
<1>4. /\ root' \in {"run", "spawn", "join"}
      /\ target' \in Processes \cup {NoProcess}
      /\ label' \in {"none", "exited", "faulted"}
  <2>1. CASE Spawn(p) \/ Join(p)
    BY <1>1, <2>1 DEF Spawn, Join, TypeOK
  <2>2. CASE Kernel(p)
    BY <1>1, <2>2 DEF Kernel, SendEnv, JoinReturn, TypeOK
  <2>3. CASE ProcessNext(p)
    BY <1>1, <2>3 DEF ProcessNext, ProcessRecv, ProcessFault, SignalRoot, rootVars, TypeOK
  <2> QED
    BY <2>1, <2>2, <2>3
<1>5. /\ ppc' \in [Processes -> States]
      /\ \A q \in Processes : ppc[q] = "none" <=> ppc'[q] = "none"
      /\ \A q \in Processes : ppc[q] = "deleted" <=> ppc'[q] = "deleted"
  BY <1>1, <1>3 DEF TypeOK
<1>6. Live' = Live
  BY <1>5 DEF Live
<1>7. TypeOK'
  BY <1>1, <1>2, <1>4, <1>5 DEF TypeOK, procVars
<1> QED
  BY <1>2, <1>5, <1>6, <1>7, MoveInv

-----------------------------------------------------------------------------
\* The invariant holds in every reachable state.
LEMMA Invariant == Spec => []ProcessInv
<1>1. Init => ProcessInv
  <2> SUFFICES ASSUME Init
               PROVE  ProcessInv
    OBVIOUS
  <2>1. free \in Seq(Processes) /\ Len(free) = MaxProcesses
    <3>1. free \in [1 .. MaxProcesses -> Processes]
      BY DEF Init, Processes
    <3> QED
      BY <3>1, ProcessesAssumption
  <2>2. TypeOK
    <3>1. 0 \in 0 .. MaxProcesses
      BY ProcessesAssumption
    <3>2. /\ allocation \in [Untypeds -> 0 .. MaxProcesses]
          /\ pid \in [Processes -> 0 .. MaxProcesses]
      BY <3>1 DEF Init
    <3>3. indices \in [Processes -> SUBSET Untypeds] /\ ppc \in [Processes -> States]
      BY DEF Init, States
    <3>4. starved \in BOOLEAN /\ target \in Processes \cup {NoProcess}
      BY DEF Init
    <3>5. root \in {"run", "spawn", "join"} /\ label \in {"none", "exited", "faulted"}
      BY DEF Init
    <3> QED
      BY <2>1, <3>2, <3>3, <3>4, <3>5 DEF TypeOK
  <2>3. Live = {}
    BY DEF Init, Live
  <2>4. PoolInv
    <3>1. Created = 0
      BY <2>1, ProcessesAssumption DEF Created
    <3>2. \A k \in 1 .. Len(free) : free[k] = 0 + k
      BY <2>1, ProcessesAssumption DEF Init
    <3>3. \A p \in Processes : p > 0 /\ ppc[p] = "none"
      BY ProcessesAssumption DEF Init, Processes
    <3>4. \A p \in Processes : ~(p <= 0)
      BY ProcessesAssumption DEF Processes
    <3> QED
      BY <2>1, <3>1, <3>2, <3>3, <3>4, ProcessesAssumption DEF PoolInv
  <2>5. AllocatedToLive /\ FedInv /\ Exclusive
    BY <2>2, <2>3 DEF Init, AllocatedToLive, FedInv, Exclusive
  <2> QED
    BY <2>4, <2>5 DEF ProcessInv
<1>2. ProcessInv /\ [Next]_vars => ProcessInv'
  <2> SUFFICES ASSUME ProcessInv, [Next]_vars
               PROVE  ProcessInv'
    OBVIOUS
  <2>1. CASE Create
    BY <2>1, CreateInv
  <2>2. CASE \E p \in Processes : RootNext(p) \/ Kernel(p) \/ ProcessNext(p)
    BY <2>2, DeleteInv, StepInv DEF RootNext
  <2>3. CASE UNCHANGED vars
    <3>1. TypeOK' /\ Live' = Live
      BY <2>3 DEF vars, procVars, rootVars, ProcessInv, AllocatedToLive, TypeOK, Live
    <3> QED
      BY <2>3, <3>1, MoveInv DEF vars
  <2> QED
    BY <2>1, <2>2, <2>3 DEF Next
<1> QED
  BY <1>1, <1>2, PTL DEF Spec

\* sel4osapi_process_init_env and sel4osapi_process_delete lose no untyped:
\* one that is marked in the table belongs to a process that exists and will
\* release it, whatever was created and deleted before and however short of
\* memory a process was.
THEOREM NoUntypedLost == Spec => []AllocatedToLive
<1>1. ProcessInv => AllocatedToLive
  BY DEF ProcessInv
<1> QED
  BY <1>1, Invariant, PTL

\* The processes' memory is disjoint and the table names the owner, until a
\* process is created without any untyped.
THEOREM MemoryExclusive == Spec => []Exclusive
<1>1. ProcessInv => Exclusive
  BY DEF ProcessInv
<1> QED
  BY <1>1, Invariant, PTL

\* simple_pool_get_current_size as a pid is unique, as sel4osapi_process_delete
\* does not return the element.
THEOREM PidsUnique == Spec => []PidsDistinct
<1>1. ProcessInv => PidsDistinct
  BY LivePids DEF ProcessInv, AllocatedToLive, TypeOK, PidsDistinct
<1> QED
  BY <1>1, Invariant, PTL
=============================================================================
