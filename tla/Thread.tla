------------------------------- MODULE Thread -------------------------------
(***************************************************************************)
(* The threads of one user process (src/thread.c) and those that watch     *)
(* them (sel4osapi_syslog_monitor_thread, src/log.c).                      *)
(*                                                                         *)
(* Threads are created from a pool that has no lock.  A thread ends in a   *)
(* seL4_Call on its local endpoint, where sel4osapi_thread_join waits.     *)
(* All threads of the process have one fault endpoint: faults arrive there *)
(* and so does the exit message of the process; the root task in           *)
(* sel4osapi_process_join and every monitor wait on it.                    *)
(***************************************************************************)
EXTENDS Integers, Sequences, FiniteSets

CONSTANTS
  Creators,    \* the threads that call the library, the process's first among them
  Main,        \* that first thread, which ends the process
  MaxThreads,  \* SEL4OSAPI_MAX_THREADS_PER_PROCESS
  MaxMonitors, \* bound of the model: monitors that are asked for
  MaxFaults    \* bound of the model: threads that fault and are not deleted

ASSUME CreatorsAssumption == Main \in Creators
ASSUME ThreadsAssumption == MaxThreads \in Nat \ {0}
ASSUME BoundsAssumption == MaxMonitors \in Nat /\ MaxFaults \in Nat

Elements == 1 .. MaxThreads    \* of env->threads
NoElement == 0

VARIABLES
  free,      \* env->threads->free_entries
  size,      \* env->threads->current_size
  cpc,       \* what a creator does
  elem,      \* the element it creates, starts or joins
  role,      \* what the routine of a thread is: "app" or "monitor"
  tid,       \* info.tid; 0 before it is set
  state,     \* where a thread is
  active,    \* info.active
  root,      \* the root task: "run", or "join" in sel4osapi_process_join
  label,     \* what that call returned
  overlap,   \* history: two creations overlapped
  broken,    \* an element was handed out twice
  taken      \* history: what took the exit message: "none", "root" or "monitor"

poolVars == <<free, size, overlap, broken>>
rootVars == <<root, label, taken>>
vars == <<poolVars, cpc, elem, role, tid, state, active, rootVars>>

\* "new": created; "started": before its wrapper ran; "run": in its routine;
\* "wait": a monitor on the fault endpoint; "ended": in its seL4_Call;
\* "joined": that call was received; "fault": reporting a fault; "dead":
\* the fault was received and not answered.
States == {"free", "alloc", "new", "started", "run", "wait", "ended", "joined",
           "fault", "dead", "deleted"}

TypeOK ==
  /\ free \in Seq(Elements)
  /\ size \in 0 .. MaxThreads + 1    \* the assert behind the count fails then
  /\ cpc \in [Creators -> {"run", "picked", "taken", "join", "exit", "idle", "aborted"}]
  /\ elem \in [Creators -> Elements \cup {NoElement}]
  /\ role \in [Elements -> {"app", "monitor"}]
  /\ tid \in [Elements -> 0 .. MaxThreads]
  /\ state \in [Elements -> States]
  /\ active \in [Elements -> BOOLEAN]
  /\ root \in {"run", "join"}
  /\ label \in {"none", "exit", "fault"}
  /\ overlap \in BOOLEAN
  /\ broken \in BOOLEAN
  /\ taken \in {"none", "root", "monitor"}

Init ==
  /\ free = [i \in Elements |-> i]
  /\ size = 0
  /\ cpc = [c \in Creators |-> "run"]
  /\ elem = [c \in Creators |-> NoElement]
  /\ role = [e \in Elements |-> "app"]
  /\ tid = [e \in Elements |-> 0]
  /\ state = [e \in Elements |-> "free"]
  /\ active = [e \in Elements |-> FALSE]
  /\ root = "run"
  /\ label = "none"
  /\ overlap = FALSE
  /\ broken = FALSE
  /\ taken = "none"

Step(c, from, to) == cpc[c] = from /\ cpc' = [cpc EXCEPT ![c] = to]
Move(e, from, to) == state[e] = from /\ state' = [state EXCEPT ![e] = to]

-----------------------------------------------------------------------------
(* Creation, sel4osapi_thread_create.                                      *)

\* simple_pool_alloc reads the head of the free entries; with none left the
\* assert behind it fails.
CreatePick(c) ==
  /\ IF free = << >>
     THEN Step(c, "run", "aborted") /\ UNCHANGED <<elem, overlap>>
     ELSE /\ Step(c, "run", "picked")
          /\ elem' = [elem EXCEPT ![c] = Head(free)]
          /\ overlap' = (overlap \/ \E d \in Creators : cpc[d] \in {"picked", "taken"})
  /\ UNCHANGED <<free, size, broken, role, tid, state, active, rootVars>>

\* Mutant of NewSize: the entry is not counted.
NewSizeSame == size

NewSize == size + 1

\* It moves the entry to the used ones and counts it.  An entry that another
\* creator moved meanwhile is moved again: two threads are one.
CreateTake(c, r) ==
  LET e == elem[c] IN
  /\ Step(c, "picked", "taken")
  /\ IF free # << >> /\ Head(free) = e
     THEN free' = Tail(free) /\ UNCHANGED broken
     ELSE broken' = TRUE /\ UNCHANGED free
  /\ size' = NewSize
  /\ role' = [role EXCEPT ![e] = r]
  /\ state' = [state EXCEPT ![e] = "alloc"]
  /\ UNCHANGED <<overlap, elem, tid, active, rootVars>>

\* The tid is the size of the pool, read now; the endpoints and the native
\* thread are made.  sel4osapi_syslog_monitor_thread starts its thread itself.
CreateInit(c) ==
  LET e == elem[c] IN
  /\ Step(c, "taken", "run")
  /\ tid' = [tid EXCEPT ![e] = size]
  /\ state' = [state EXCEPT ![e] = IF role[e] = "monitor" THEN "started" ELSE "new"]
  /\ elem' = [elem EXCEPT ![c] = NoElement]
  /\ UNCHANGED <<poolVars, role, active, rootVars>>

-----------------------------------------------------------------------------
(* A thread's life.  Nobody has the handle of a monitor.                   *)

Handle(c, e) == cpc[c] = "run" /\ role[e] = "app"

\* sel4osapi_thread_start.
Start(c, e) ==
  /\ Handle(c, e)
  /\ Move(e, "new", "started")
  /\ UNCHANGED <<poolVars, cpc, elem, role, tid, active, rootVars>>

\* sel4osapi_thread_routine_wrapper sets the flag and calls the routine.
Wrapper(e) ==
  /\ Move(e, "started", "run")
  /\ active' = [active EXCEPT ![e] = TRUE]
  /\ UNCHANGED <<poolVars, cpc, elem, role, tid, rootVars>>

\* An application tells a thread to stop: it clears the flag at any time after
\* the creation.  (Before the wrapper ran that has no effect.)
Stop(c, e) ==
  /\ Handle(c, e)
  /\ state[e] \in {"new", "started", "run"}
  /\ active' = [active EXCEPT ![e] = FALSE]
  /\ UNCHANGED <<poolVars, cpc, elem, role, tid, state, rootVars>>

\* Mutant of AfterRoutine: nobody is told.
AfterRoutineSilent == "joined"

AfterRoutine == "ended"

\* The routine returns, told to or not; the wrapper clears the flag and calls
\* the local endpoint.  (A monitor's flag is never cleared.)
Return(e) ==
  /\ role[e] = "app"
  /\ Move(e, "run", AfterRoutine)
  /\ active' = [active EXCEPT ![e] = FALSE]
  /\ UNCHANGED <<poolVars, cpc, elem, role, tid, rootVars>>

\* sel4osapi_thread_join, called once for a thread.
Join(c, e) ==
  /\ Handle(c, e) /\ Step(c, "run", "join")
  /\ state[e] \notin {"free", "alloc", "joined", "deleted"}
  /\ \A d \in Creators : elem[d] # e
  /\ elem' = [elem EXCEPT ![c] = e]
  /\ UNCHANGED <<poolVars, role, tid, state, active, rootVars>>

\* The kernel passes the message on; the thread is not answered.
JoinReturn(c) ==
  /\ Step(c, "join", "run")
  /\ Move(elem[c], "ended", "joined")
  /\ elem' = [elem EXCEPT ![c] = NoElement]
  /\ UNCHANGED <<poolVars, role, tid, active, rootVars>>

\* sel4osapi_thread_delete, of a thread that does not run and is not joined.
\* Its element stays used.
Delete(c, e) ==
  /\ Handle(c, e)
  /\ state[e] \in {"new", "joined", "dead"}
  /\ \A d \in Creators : elem[d] # e
  /\ state' = [state EXCEPT ![e] = "deleted"]
  /\ UNCHANGED <<poolVars, cpc, elem, role, tid, active, rootVars>>

-----------------------------------------------------------------------------
(* The fault endpoint.                                                     *)

\* A thread faults: the kernel sends in its name.
Fault(e) ==
  /\ role[e] = "app"
  /\ Move(e, "run", "fault")
  /\ UNCHANGED <<poolVars, cpc, elem, role, tid, active, rootVars>>

\* sel4osapi_process_signal_root, by the first thread.
Exit ==
  /\ Step(Main, "run", "exit")
  /\ UNCHANGED <<poolVars, elem, role, tid, state, active, rootVars>>

\* sel4osapi_process_join.
RootJoin ==
  /\ root = "run" /\ label = "none"
  /\ root' = "join"
  /\ UNCHANGED <<poolVars, cpc, elem, role, tid, state, active, label, taken>>

\* Mutant of Returned: only a fault has a label.
ReturnedFault(l) == IF l = "fault" THEN l ELSE "none"

Returned(l) == l

\* It returns with the first message that it gets.
RootReceive ==
  /\ root = "join"
  /\ root' = "run"
  /\ \/ /\ Step(Main, "exit", "idle")
        /\ label' = Returned("exit") /\ taken' = "root"
        /\ UNCHANGED state
     \/ /\ \E e \in Elements : Move(e, "fault", "dead")
        /\ label' = Returned("fault")
        /\ UNCHANGED <<cpc, taken>>
  /\ UNCHANGED <<poolVars, elem, role, tid, active>>

\* sel4osapi_syslog_monitoring_thread waits.
MonitorWait(m) ==
  /\ role[m] = "monitor" /\ active[m]
  /\ Move(m, "run", "wait")
  /\ UNCHANGED <<poolVars, cpc, elem, role, tid, active, rootVars>>

\* It takes any message for a fault of the thread it watches.
MonitorReceive(m) ==
  /\ state[m] = "wait"
  /\ \/ /\ Step(Main, "exit", "idle")
        /\ taken' = "monitor"
        /\ state' = [state EXCEPT ![m] = "run"]
     \/ /\ \E e \in Elements : state[e] = "fault" /\ state' = [state EXCEPT ![e] = "dead", ![m] = "run"]
        /\ UNCHANGED <<cpc, taken>>
  /\ UNCHANGED <<poolVars, elem, role, tid, active, root, label>>

-----------------------------------------------------------------------------
CreatorNext(c) ==
  \/ CreatePick(c)
  \/ CreateInit(c)
  \/ CreateTake(c, "app")
  \/ Cardinality({e \in Elements : role[e] = "monitor"}) < MaxMonitors /\ CreateTake(c, "monitor")
  \/ \E e \in Elements : Start(c, e) \/ Stop(c, e) \/ Join(c, e) \/ Delete(c, e)
  \/ JoinReturn(c)

ThreadNext(e) ==
  \/ Wrapper(e) \/ Return(e) \/ MonitorWait(e)
  \/ Cardinality({f \in Elements : state[f] \in {"fault", "dead"}}) < MaxFaults /\ Fault(e)

Receive == RootReceive \/ \E m \in Elements : MonitorReceive(m)

Next ==
  /\ ~broken
  /\ \/ \E c \in Creators : CreatorNext(c)
     \/ \E e \in Elements : ThreadNext(e)
     \/ Exit \/ RootJoin \/ Receive

Spec == Init /\ [][Next]_vars

\* Threads that were started run; one that is told to stop sees it, as its
\* routine looks at the flag.  The kernel passes messages on.
Fairness ==
  /\ \A e \in Elements :
       WF_vars(~broken /\ (Wrapper(e) \/ MonitorWait(e) \/ (~active[e] /\ Return(e))))
  /\ \A c \in Creators : WF_vars(~broken /\ JoinReturn(c))
  /\ WF_vars(~broken /\ Receive)

FairSpec == Spec /\ Fairness

-----------------------------------------------------------------------------
(* Properties.                                                             *)

\* Threads of the process that exist have different tids (thread.h: "unique
\* within enclosing process"), different from the first thread's 0, and
\* different elements, as long as no two creations overlap: the pool has no
\* lock, and the tid is read after the allocation.  It rests on
\* sel4osapi_thread_delete never shrinking the pool.
TidsDistinct ==
  LET live == {e \in Elements : state[e] \notin {"free", "alloc", "deleted"}} IN
  /\ TypeOK
  /\ ~overlap =>
       /\ ~broken
       /\ \A e, f \in live : tid[e] # 0 /\ (tid[e] = tid[f] => e = f)

\* A thread told to stop (info.active cleared) while its routine runs ends, and
\* a sel4osapi_thread_join on it returns; it may fault instead.
StopEnds ==
  \A c \in Creators :
    cpc[c] = "join" /\ state[elem[c]] = "run" /\ ~active[elem[c]] ~>
      cpc[c] # "join" \/ state[elem[c]] \in {"fault", "dead"} \/ broken

\* The exit of the process reaches a sel4osapi_process_join that waits for it,
\* unless a fault of one of its threads ended that call before, or a monitor
\* took the message, which sel4osapi_process_join then never gets.
ExitReported ==
  cpc[Main] = "exit" /\ root = "join" ~>
    label = "exit" \/ label = "fault" \/ taken = "monitor" \/ broken
=============================================================================
