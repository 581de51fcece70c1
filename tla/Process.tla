------------------------------- MODULE Process ------------------------------
(***************************************************************************)
(* User processes (src/process.c, src/system.c): their creation, with the  *)
(* untyped memory the root task hands them, the handshake that starts      *)
(* them, their termination and deletion.                                   *)
(*                                                                         *)
(* The root task is one thread; every process is its initial thread.  Both *)
(* meet on the process's fault endpoint, which carries three messages:     *)
(* the environment from sel4osapi_process_spawn, the exit code from        *)
(* sel4osapi_process_signal_root, and a fault the kernel reports.          *)
(* Operations of the root task that do not block are one action: no other  *)
(* thread uses what they touch.                                            *)
(***************************************************************************)
EXTENDS Integers, Sequences, FiniteSets, FiniteSetsExt

CONSTANTS
  MaxProcesses,  \* SEL4OSAPI_USER_PROCESS_MAX
  NumUntypeds,   \* user_untypeds_num
  SizeBits,      \* user_untypeds_size_bits
  MemSize        \* SEL4OSAPI_USER_PROCESS_UNTYPED_MEM_SIZE

Untypeds == 0 .. NumUntypeds - 1
Processes == 1 .. MaxProcesses   \* the elements of system->processes
NoProcess == 0

ASSUME ProcessesAssumption == MaxProcesses \in Nat \ {0}
ASSUME UntypedsAssumption == NumUntypeds \in Nat \ {0}
ASSUME SizeBitsAssumption == SizeBits \in [Untypeds -> Nat]
ASSUME MemSizeAssumption == MemSize \in Nat \ {0}

VARIABLES
  allocation,  \* user_untypeds_allocation: the pid an untyped is given to, or 0
  free,        \* free elements of the pool system->processes
  pid,         \* env->pid
  indices,     \* env->untyped_indices, as a set
  ppc,         \* where the process's initial thread is
  root,        \* what the root thread does: "run", "spawn" or "join"
  target,      \* the process it spawns or joins
  label,       \* what its last sel4osapi_process_join returned
  starved      \* history: a process was created without any untyped

procVars == <<pid, indices>>
rootVars == <<root, target, label>>
vars == <<allocation, free, procVars, ppc, rootVars, starved>>

\* "created": not started; "start": before its seL4_Recv; "recv": in it;
\* "stuck": faulted before it; "exit", "fault": sending to the root task;
\* "idle": in sel4osapi_idle after exit; "suspended": its fault was received.
States == {"none", "created", "start", "recv", "stuck", "run", "exit", "fault",
           "idle", "suspended", "deleted"}
Live == {p \in Processes : ppc[p] \notin {"none", "deleted"}}

TypeOK ==
  /\ allocation \in [Untypeds -> 0 .. MaxProcesses]
  /\ free \in Seq(Processes)
  /\ pid \in [Processes -> 0 .. MaxProcesses]
  /\ indices \in [Processes -> SUBSET Untypeds]
  /\ ppc \in [Processes -> States]
  /\ root \in {"run", "spawn", "join"}
  /\ target \in Processes \cup {NoProcess}
  /\ label \in {"none", "exited", "faulted"}
  /\ starved \in BOOLEAN

Init ==
  /\ allocation = [u \in Untypeds |-> 0]
  /\ free = [i \in 1 .. MaxProcesses |-> i]
  /\ pid = [p \in Processes |-> 0]
  /\ indices = [p \in Processes |-> {}]
  /\ ppc = [p \in Processes |-> "none"]
  /\ root = "run"
  /\ target = NoProcess
  /\ label = "none"
  /\ starved = FALSE

-----------------------------------------------------------------------------
(* Creation.                                                               *)

Available == {u \in Untypeds : allocation[u] = 0}

Bytes(us) == MapThenSumSet(LAMBDA u : 2 ^ SizeBits[u], us)

\* Mutant of Taken: untypeds that are given away are not skipped.
TakenAny ==
  {u \in Untypeds : Bytes({v \in Available : v < u}) < MemSize}

\* The loop of sel4osapi_process_init_env: available untypeds are taken in
\* order for as long as the memory taken before is less than MemSize.
Taken == {u \in Available : Bytes({v \in Available : v < u}) < MemSize}

\* simple_pool_get_current_size, after the element was allocated.
NewPid == MaxProcesses - Len(Tail(free))

\* sel4osapi_process_init_env.  The memory found is not compared with MemSize
\* after the loop; copying caps and mapping the shared buffers either
\* succeeds or stops the root task.
InitEnv(p) ==
  /\ pid' = [pid EXCEPT ![p] = NewPid]
  /\ indices' = [indices EXCEPT ![p] = Taken]
  /\ allocation' = [u \in Untypeds |->
                      IF u \in Taken THEN NewPid ELSE allocation[u]]
  /\ starved' = (starved \/ Taken = {})

\* sel4osapi_process_create; with an empty pool it returns NULL.
Create ==
  /\ root = "run"
  /\ free # << >>
  /\ free' = Tail(free)
  /\ InitEnv(Head(free))
  /\ ppc' = [ppc EXCEPT ![Head(free)] = "created"]
  /\ UNCHANGED rootVars

-----------------------------------------------------------------------------
(* The handshake.                                                          *)

\* Mutant of Spawn: the process is not resumed.
SpawnSuspended(p) ==
  /\ root = "run"
  /\ ppc[p] = "created"
  /\ root' = "spawn"
  /\ target' = p
  /\ UNCHANGED <<allocation, free, procVars, ppc, label, starved>>

\* sel4osapi_process_spawn: starts the process, then blocks in seL4_Send on
\* the fault endpoint with the address of the environment.
Spawn(p) ==
  /\ root = "run"
  /\ ppc[p] = "created"
  /\ ppc' = [ppc EXCEPT ![p] = "start"]
  /\ root' = "spawn"
  /\ target' = p
  /\ UNCHANGED <<allocation, free, procVars, label, starved>>

Move(p, from, to) == ppc[p] = from /\ ppc' = [ppc EXCEPT ![p] = to]

\* The process reaches the seL4_Recv of sel4osapi_system_initialize_process.
ProcessRecv(p) ==
  /\ Move(p, "start", "recv")
  /\ UNCHANGED <<allocation, free, procVars, rootVars, starved>>

\* The message with the environment: both sides go on.
SendEnv(p) ==
  /\ root = "spawn"
  /\ target = p
  /\ Move(p, "recv", "run")
  /\ root' = "run"
  /\ target' = NoProcess
  /\ UNCHANGED <<allocation, free, procVars, label, starved>>

\* A fault: the kernel sends to the fault endpoint in the name of the thread.
\* Before the handshake the root task does not receive, it sends.
ProcessFault(p) ==
  /\ Move(p, "start", "stuck") \/ Move(p, "run", "fault")
  /\ UNCHANGED <<allocation, free, procVars, rootVars, starved>>

-----------------------------------------------------------------------------
(* Termination.                                                            *)

\* Mutant of SignalRoot: the process idles without telling the root task.
SignalNobody(p) ==
  /\ Move(p, "run", "idle")
  /\ UNCHANGED <<allocation, free, procVars, rootVars, starved>>

\* sel4osapi_process_signal_root, up to its seL4_Send.
SignalRoot(p) ==
  /\ Move(p, "run", "exit")
  /\ UNCHANGED <<allocation, free, procVars, rootVars, starved>>

\* sel4osapi_process_join: blocks in seL4_Recv.  Joined once: a second call
\* would wait for a message nobody sends.
Join(p) ==
  /\ root = "run"
  /\ ppc[p] \in {"run", "exit", "fault"}
  /\ root' = "join"
  /\ target' = p
  /\ UNCHANGED <<allocation, free, procVars, ppc, label, starved>>

\* The message it waits for: the process that exited goes on to
\* sel4osapi_idle; one that faulted gets no reply and stays suspended.
JoinReturn(p) ==
  /\ root = "join"
  /\ target = p
  /\ \/ Move(p, "exit", "idle") /\ label' = "exited"
     \/ Move(p, "fault", "suspended") /\ label' = "faulted"
  /\ root' = "run"
  /\ target' = NoProcess
  /\ UNCHANGED <<allocation, free, procVars, starved>>

\* What sel4osapi_process_delete returns: end - start + 1 is 1 for a process
\* that was given nothing, and its zeroed untyped_indices name untyped 0.
Released(p) == IF indices[p] = {} THEN {0} ELSE indices[p]

\* Mutant of Delete: the untypeds stay allocated.
DeleteKeepsUntypeds(p) ==
  /\ root = "run"
  /\ p \in Live
  /\ ppc' = [ppc EXCEPT ![p] = "deleted"]
  /\ UNCHANGED <<allocation, free, procVars, rootVars, starved>>

\* Mutant of Delete: the element returns to the pool.
DeleteReturnsElement(p) ==
  /\ root = "run"
  /\ p \in Live
  /\ allocation' = [u \in Untypeds |->
                      IF u \in Released(p) THEN 0 ELSE allocation[u]]
  /\ ppc' = [ppc EXCEPT ![p] = "deleted"]
  /\ free' = Append(free, p)
  /\ UNCHANGED <<procVars, rootVars, starved>>

\* sel4osapi_process_delete, at any time after sel4osapi_process_create.  The
\* element does not return to the pool.
Delete(p) ==
  /\ root = "run"
  /\ p \in Live
  /\ allocation' = [u \in Untypeds |->
                      IF u \in Released(p) THEN 0 ELSE allocation[u]]
  /\ ppc' = [ppc EXCEPT ![p] = "deleted"]
  /\ UNCHANGED <<free, procVars, rootVars, starved>>

-----------------------------------------------------------------------------
RootNext(p) == Spawn(p) \/ Join(p) \/ Delete(p)

Kernel(p) == SendEnv(p) \/ JoinReturn(p)

ProcessNext(p) == ProcessRecv(p) \/ ProcessFault(p) \/ SignalRoot(p)

Next ==
  \/ Create
  \/ \E p \in Processes : RootNext(p) \/ Kernel(p) \/ ProcessNext(p)

Spec == Init /\ [][Next]_vars

\* The kernel passes a message on when both sides are there; a process runs
\* when it can, and terminates, by a fault or by the call to
\* sel4osapi_process_signal_root that it owes the root task.
Fairness ==
  \A p \in Processes : WF_vars(Kernel(p)) /\ WF_vars(ProcessNext(p))

FairSpec == Spec /\ Fairness

-----------------------------------------------------------------------------
(* Properties.                                                             *)

\* No untyped is lost: one the table says is allocated belongs to a process
\* that exists and will release it.  Deleting every process makes all the
\* memory available again.
AllocatedToLive ==
  /\ TypeOK
  /\ \A u \in Untypeds :
       allocation[u] # 0 =>
         \E p \in Live : pid[p] = allocation[u] /\ u \in indices[p]

\* Until a process is created without any memory, no untyped is given to
\* two processes and the table names the one that has it, through every
\* order of creations and deletions.
Exclusive ==
  ~starved =>
    \A p \in Live : \A u \in indices[p] :
      /\ allocation[u] = pid[p]
      /\ \A q \in Live \ {p} : u \notin indices[q]

\* Processes that exist have different pids: they are the pool's size at
\* creation, so this needs that deletion does not shrink the pool.
PidsDistinct == \A p, q \in Live : pid[p] = pid[q] => p = q

\* sel4osapi_process_spawn returns, unless the process faults before it asks
\* for its environment: then both send on the same endpoint forever.
SpawnReturns ==
  \A p \in Processes :
    root = "spawn" /\ target = p ~> root = "run" \/ ppc[p] = "stuck"

\* sel4osapi_process_join returns, for a process that faults as for one that
\* exits, before the call or after.
JoinReturns == root = "join" ~> root = "run"

\* include/sel4osapi/system.h:99: the table stores "the pid of the user
\* process to which an untyped is currently allocated to".
TableNamesOwner ==
  \A p \in Live : \A u \in indices[p] : allocation[u] = pid[p]
=============================================================================
