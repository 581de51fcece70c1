------------------------------ MODULE Sysclock ------------------------------
(***************************************************************************)
(* The SysClock service (src/clock.c) with the client calls that use it    *)
(* (src/clock.c, sel4osapi_thread_sleep of src/thread.c).                  *)
(*                                                                         *)
(* Three kinds of threads interleave: sysclock::timer, woken by the        *)
(* hardware timer, advances `time' and walks the schedule under            *)
(* timeouts_mutex; sysclock::server receives one request at a time on its  *)
(* endpoint and edits the schedule under the same mutex; client threads    *)
(* call the server and wait on their notification (wait_aep).              *)
(*                                                                         *)
(* The schedule is the `entries' list of a simple_pool_t: SimplePool shows *)
(* that such a pool is a FIFO sequence of at most MaxEntries elements.     *)
(* A step of the server between lock and unlock is one action, enabled     *)
(* when nobody holds the mutex: everything it touches, except `time', is   *)
(* touched by the timer thread under the mutex only, and it reads `time'   *)
(* once.  The timer thread holds the mutex over one step per entry.        *)
(*                                                                         *)
(* `time' and next_event are words of the machine: arithmetic on them is   *)
(* modulo Word (2^32 in the code).                                         *)
(***************************************************************************)
EXTENDS Integers, SequencesExt

CONSTANTS
  Clients,     \* client threads, one per process, each with its own wait_aep
  MaxEntries,  \* SEL4OSAPI_SYSCLOCK_MAX_ENTRIES
  Period,      \* SEL4OSAPI_SYSCLOCK_PERIOD_MS
  Word,        \* number of values of a uint32_t
  Timeouts,    \* the timeout_ms values clients ask for
  Ops,         \* the library calls clients make
  Slots,       \* CSpace slots the server can allocate to receive caps
  MaxSets      \* bound of the model: SET_TIMEOUT requests in one behaviour

None == "none"
AllOps == {"set", "sleep", "cancel", "time", "wait", "waitcancel"}

ASSUME ClientsAssumption == None \notin Clients
ASSUME EntriesAssumption == MaxEntries \in Nat \ {0}
ASSUME WordAssumption == Word \in Nat \ {0}
ASSUME PeriodAssumption == Period \in 1 .. Word - 1
ASSUME TimeoutsAssumption == Timeouts \subseteq 0 .. Word - 1
ASSUME OpsAssumption == Ops \subseteq AllOps
ASSUME SlotsAssumption == Slots \in Nat \ {0}
ASSUME SetsAssumption == MaxSets \in Nat

VARIABLES
  time,       \* sysclock->time
  schedule,   \* sysclock->schedule->entries
  mutex,      \* holder of sysclock->timeouts_mutex over several steps
  tpc,        \* timer thread: "wait", "lock" or "scan"
  cursor,     \* timer thread: index of `entry', past the end for NULL
  spc,        \* server thread: "recv", "serve", "reply", "slot", "aborted"
  serving,    \* server thread: the client whose request is being served
  reply,      \* server thread: message registers 0 and 1 of the reply
  caller_ep,  \* server thread: the slot that receives the next cap
  slot,       \* server's CSpace: whose notification cap a slot holds
  endpoint,   \* kernel: clients queued on server_ep_obj
  signalled,  \* kernel: state of each client's notification
  cpc,        \* client: where it is, see ClientStates
  creq,       \* client: the request in its message registers
  tid,        \* client: the last timeout id it was given (0: none)
  sets,       \* number of SET_TIMEOUT requests made so far, up to MaxSets
  retired,    \* history: ids that fired (one-shot) or were cancelled
  nap         \* history: ms of a sleep that have not elapsed on the clock

timerVars == <<time, mutex, tpc, cursor>>
serverVars == <<spc, serving, reply, caller_ep, slot>>
clientVars == <<creq, tid, sets>>
vars == <<timerVars, schedule, serverVars, endpoint, signalled, cpc,
          clientVars, retired, nap>>

Add(x, y) == (x + y) % Word

SlotIds == 1 .. Slots
SetOps == {"set", "sleep"}

\* "run": in application code; "call": in seL4_Call; "nap": in
\* sel4osapi_thread_sleep, about to wait; "sleep", "wait", "waitcancel":
\* blocked on its notification; "docancel": woken with `cancel' set;
\* "aborted": an assertion failed.
Blocked == {"sleep", "wait", "waitcancel"}
ClientStates == {"run", "call", "nap", "docancel", "aborted"} \cup Blocked

Request(op, periodic, ms, id) ==
  [op |-> op, periodic |-> periodic, ms |-> ms, id |-> id]

NoRequest == Request("time", FALSE, 0, 0)

\* struct timeout_entry.  `left' and `wraps' are history: the milliseconds
\* that must still elapse on the clock, and whether the deadline overflowed.
Entry(aep, caller, periodic, period) ==
  [aep |-> aep, caller |-> caller, periodic |-> periodic, period |-> period,
   next_event |-> Add(time, period),
   left |-> period, wraps |-> time + period >= Word]

EntryType ==
  [aep: SlotIds, caller: Clients, periodic: BOOLEAN, period: Timeouts \cup {0},
   next_event: 0 .. Word - 1, left: 0 .. Word - 1, wraps: BOOLEAN]

\* Milliseconds left after the clock advanced by one Period.
Elapse(left) == IF left > Period THEN left - Period ELSE 0

TypeOK ==
  /\ time \in 0 .. Word - 1
  /\ schedule \in Seq(EntryType)
  /\ mutex \in {None, "timer"}
  /\ tpc \in {"wait", "lock", "scan"}
  /\ cursor \in Nat \ {0}
  /\ spc \in {"recv", "serve", "reply", "slot", "aborted"}
  /\ serving \in Clients \cup {None}
  /\ reply \in [mr0: 0 .. Word, mr1: {0} \cup SlotIds]
  /\ caller_ep \in SlotIds
  /\ slot \in [SlotIds -> Clients \cup {None}]
  /\ endpoint \in Seq(Clients)
  /\ signalled \in [Clients -> BOOLEAN]
  /\ cpc \in [Clients -> ClientStates]
  /\ creq \in [Clients -> [op: AllOps, periodic: BOOLEAN,
                           ms: Timeouts \cup {0}, id: {0} \cup SlotIds]]
  /\ tid \in [Clients -> {0} \cup SlotIds]
  /\ sets \in 0 .. MaxSets
  /\ retired \subseteq SlotIds
  /\ nap \in [Clients -> [left: 0 .. Word - 1, wraps: BOOLEAN]]

Init ==
  /\ time = 0
  /\ schedule = << >>
  /\ mutex = None
  /\ tpc = "wait"
  /\ cursor = 1
  /\ spc = "recv"
  /\ serving = None
  /\ reply = [mr0 |-> 0, mr1 |-> 0]
  /\ caller_ep = 1
  /\ slot = [s \in SlotIds |-> None]
  /\ endpoint = << >>
  /\ signalled = [c \in Clients |-> FALSE]
  /\ cpc = [c \in Clients |-> "run"]
  /\ creq = [c \in Clients |-> NoRequest]
  /\ tid = [c \in Clients |-> 0]
  /\ sets = 0
  /\ retired = {}
  /\ nap = [c \in Clients |-> [left |-> 0, wraps |-> FALSE]]

-----------------------------------------------------------------------------
(* The pool operations on the schedule.                                    *)

\* Mutants of FreeByAep: nothing is freed; any two entries compare equal.
FreeNone(s, id) == s
FreeAny(s, id) == IF s = << >> THEN s ELSE RemoveAt(s, 1)

\* simple_pool_find_node with timer_entry_compare: the first with this aep.
FindByAep(s, id) ==
  CHOOSE i \in DOMAIN s : s[i].aep = id /\ \A j \in 1 .. i - 1 : s[j].aep # id

\* simple_pool_free; a no-op when no entry compares equal.
FreeByAep(s, id) ==
  IF \E i \in DOMAIN s : s[i].aep = id
  THEN RemoveAt(s, FindByAep(s, id)) ELSE s

Scheduled(id) == \E i \in DOMAIN schedule : schedule[i].aep = id

-----------------------------------------------------------------------------
(* The timer thread, sel4osapi_sysclock_timer_thread.                      *)

\* The timer interrupt wakes the thread and the clock advances, outside the
\* mutex.  The interrupt stays masked until handle_timer_irq, so there is
\* at most one tick per round.
TimerTick ==
  /\ tpc = "wait"
  /\ tpc' = "lock"
  /\ time' = Add(time, Period)
  /\ schedule' = [i \in DOMAIN schedule |->
                    [schedule[i] EXCEPT !.left = Elapse(@)]]
  /\ nap' = [c \in Clients |-> [nap[c] EXCEPT !.left = Elapse(@)]]
  /\ UNCHANGED <<mutex, cursor, serverVars, endpoint, signalled, cpc,
                 clientVars, retired>>

TimerLock ==
  /\ tpc = "lock"
  /\ mutex = None
  /\ mutex' = "timer"
  /\ tpc' = "scan"
  /\ cursor' = 1
  /\ UNCHANGED <<time, schedule, serverVars, endpoint, signalled, cpc,
                 clientVars, retired, nap>>

\* Mutants of Due: off by one, either way.
DueEarly(e) == e.aep # 0 /\ e.next_event <= time + 1
DueLate(e) == e.aep # 0 /\ e.next_event < time

Due(e) == e.aep # 0 /\ e.next_event <= time

\* Where a client goes when its seL4_Wait returns.
Resume(state) == IF state = "waitcancel" THEN "docancel" ELSE "run"

\* Mutants of Signal: a signal nobody waits for is lost; the signal that
\* wakes a thread also stays pending.
SignalLost(c) ==
  /\ cpc' = IF cpc[c] \in Blocked
            THEN [cpc EXCEPT ![c] = Resume(@)] ELSE cpc
  /\ UNCHANGED signalled
SignalTwice(c) ==
  /\ cpc' = IF cpc[c] \in Blocked
            THEN [cpc EXCEPT ![c] = Resume(@)] ELSE cpc
  /\ signalled' = [signalled EXCEPT ![c] = TRUE]

\* seL4_Send on a notification: wakes the thread blocked on it, or stays
\* pending; a signal on a pending notification is absorbed.
Signal(c) ==
  IF cpc[c] \in Blocked
  THEN /\ cpc' = [cpc EXCEPT ![c] = Resume(@)]
       /\ UNCHANGED signalled
  ELSE /\ signalled' = [signalled EXCEPT ![c] = TRUE]
       /\ UNCHANGED cpc

\* Mutant of NextAfterFree: the walk steps over the entry that followed.
SkipAfterFree(i) == i + 1

\* `next' is read before the entry is freed, so the walk goes on with the
\* entry that followed: that one takes over the index of the freed entry.
NextAfterFree(i) == i

\* One entry of the walk.
TimerScan ==
  /\ tpc = "scan"
  /\ cursor <= Len(schedule)
  /\ LET e == schedule[cursor] IN
     \/ /\ ~Due(e)
        /\ cursor' = cursor + 1
        /\ UNCHANGED <<schedule, signalled, cpc, retired>>
     \/ /\ Due(e)
        /\ e.periodic
        /\ Signal(slot[e.aep])
        /\ schedule' = [schedule EXCEPT ![cursor] =
                          Entry(e.aep, e.caller, e.periodic, e.period)]
        /\ cursor' = cursor + 1
        /\ UNCHANGED retired
     \/ /\ Due(e)
        /\ ~e.periodic
        /\ Signal(slot[e.aep])
        /\ schedule' = FreeByAep(schedule, e.aep)
        /\ retired' = retired \cup {e.aep}
        /\ cursor' = NextAfterFree(cursor)
  /\ UNCHANGED <<time, mutex, tpc, serverVars, endpoint, clientVars, nap>>

ScanDone == tpc = "scan" /\ cursor > Len(schedule)

\* The walk is over: unlock, and sel4platsupport_handle_timer_irq unmasks
\* the interrupt.
TimerUnlock ==
  /\ ScanDone
  /\ mutex' = None
  /\ tpc' = "wait"
  /\ cursor' = 1
  /\ UNCHANGED <<time, schedule, serverVars, endpoint, signalled, cpc,
                 clientVars, retired, nap>>

-----------------------------------------------------------------------------
(* The server thread, sel4osapi_sysclock_server_thread.                    *)

IsSet(c) == creq[c].op \in SetOps

\* seL4_Recv; the cap sent with a SET_TIMEOUT lands in slot caller_ep.
ServerRecv ==
  /\ spc = "recv"
  /\ endpoint # << >>
  /\ LET c == Head(endpoint) IN
       /\ serving' = c
       /\ slot' = IF IsSet(c) THEN [slot EXCEPT ![caller_ep] = c] ELSE slot
  /\ endpoint' = Tail(endpoint)
  /\ spc' = "serve"
  /\ UNCHANGED <<timerVars, schedule, reply, caller_ep, signalled, cpc,
                 clientVars, retired, nap>>

\* Mutant of PoolFull: off by one.
PoolNearlyFull == Len(schedule) >= MaxEntries - 1

\* simple_pool_alloc finds no free entry.
PoolFull == Len(schedule) = MaxEntries

ServeSetTimeout ==
  /\ spc = "serve"
  /\ IsSet(serving)
  /\ mutex = None
  /\ \/ /\ PoolFull
        /\ reply' = [mr0 |-> 1, mr1 |-> 0]
        /\ UNCHANGED <<schedule, nap>>
     \/ /\ ~PoolFull
        /\ LET r == creq[serving]
               e == Entry(caller_ep, serving, r.periodic, r.ms)
           IN /\ schedule' = Append(schedule, e)
              /\ nap' = IF r.op = "sleep"
                        THEN [nap EXCEPT ![serving] =
                                [left |-> e.left, wraps |-> e.wraps]]
                        ELSE nap
        /\ reply' = [mr0 |-> 0, mr1 |-> caller_ep]
  /\ spc' = "reply"
  /\ UNCHANGED <<timerVars, serving, caller_ep, slot, endpoint, signalled,
                 cpc, clientVars, retired>>

\* `done' is never set: the flag in the reply is 1 whatever was found.
ServeCancelTimeout ==
  /\ spc = "serve"
  /\ creq[serving].op = "cancel"
  /\ mutex = None
  /\ LET id == creq[serving].id IN
       /\ schedule' = FreeByAep(schedule, id)
       /\ retired' = retired \cup ({id} \ {0})
  /\ reply' = [mr0 |-> 1, mr1 |-> 0]
  /\ spc' = "reply"
  /\ UNCHANGED <<timerVars, serving, caller_ep, slot, endpoint, signalled,
                 cpc, clientVars, nap>>

ServeGetTime ==
  /\ spc = "serve"
  /\ creq[serving].op = "time"
  /\ reply' = [mr0 |-> time, mr1 |-> 0]
  /\ spc' = "reply"
  /\ UNCHANGED <<timerVars, schedule, serving, caller_ep, slot, endpoint,
                 signalled, cpc, clientVars, retired, nap>>

\* What the client does with the reply: schedule_timeout returns the id (0
\* on error), which sleep asserts not to be 0.
AfterReply(c) ==
  CASE creq[c].op # "sleep" -> "run"
    [] creq[c].op = "sleep" /\ reply.mr0 = 0 -> "nap"
    [] OTHER -> "aborted"

ServerReply ==
  /\ spc = "reply"
  /\ cpc' = [cpc EXCEPT ![serving] = AfterReply(serving)]
  /\ tid' = IF IsSet(serving)
            THEN [tid EXCEPT ![serving] = reply.mr1] ELSE tid
  /\ spc' = IF IsSet(serving) THEN "slot" ELSE "recv"
  /\ serving' = None
  /\ reply' = [mr0 |-> 0, mr1 |-> 0]
  /\ creq' = [creq EXCEPT ![serving] = NoRequest]
  /\ UNCHANGED <<timerVars, schedule, caller_ep, slot, endpoint, signalled,
                 sets, retired, nap>>

\* Mutant of ServerNewSlot: the slot is used again.
ServerSameSlot ==
  /\ spc = "slot"
  /\ spc' = "recv"
  /\ UNCHANGED <<timerVars, schedule, serving, reply, caller_ep, slot,
                 endpoint, signalled, cpc, clientVars, retired, nap>>

\* A fresh receive slot after every SET_TIMEOUT, the failed ones included.
\* Slots are never freed; when none is left the assertion stops the server.
ServerNewSlot ==
  /\ spc = "slot"
  /\ \/ /\ caller_ep < Slots
        /\ caller_ep' = caller_ep + 1
        /\ spc' = "recv"
     \/ /\ caller_ep = Slots
        /\ spc' = "aborted"
        /\ UNCHANGED caller_ep
  /\ UNCHANGED <<timerVars, schedule, serving, reply, slot, endpoint,
                 signalled, cpc, clientVars, retired, nap>>

-----------------------------------------------------------------------------
(* Clients.                                                                *)

Call(c, r) ==
  /\ cpc' = [cpc EXCEPT ![c] = "call"]
  /\ creq' = [creq EXCEPT ![c] = r]
  /\ endpoint' = Append(endpoint, c)
  /\ UNCHANGED <<timerVars, schedule, serverVars, signalled, tid, retired,
                 nap>>

ScheduleTimeout(c, op, periodic, ms) ==
  /\ op \in Ops
  /\ cpc[c] = "run"
  /\ sets < MaxSets
  /\ sets' = sets + 1
  /\ Call(c, Request(op, periodic, ms, 0))

ClientSchedule(c) ==
  \E periodic \in BOOLEAN, ms \in Timeouts :
    ScheduleTimeout(c, "set", periodic, ms)

ThreadSleep(c) == \E ms \in Timeouts : ScheduleTimeout(c, "sleep", FALSE, ms)

CancelTimeout(c) ==
  /\ \/ cpc[c] = "run" /\ "cancel" \in Ops
     \/ cpc[c] = "docancel"
  /\ Call(c, Request("cancel", FALSE, 0, tid[c]))
  /\ UNCHANGED sets

GetTime(c) ==
  /\ "time" \in Ops
  /\ cpc[c] = "run"
  /\ Call(c, Request("time", FALSE, 0, 0))
  /\ UNCHANGED sets

\* seL4_Wait: consumes a pending signal or blocks.
Wait(c, state) ==
  /\ IF signalled[c]
     THEN /\ signalled' = [signalled EXCEPT ![c] = FALSE]
          /\ cpc' = [cpc EXCEPT ![c] = Resume(state)]
     ELSE /\ cpc' = [cpc EXCEPT ![c] = state]
          /\ UNCHANGED signalled
  /\ UNCHANGED <<timerVars, schedule, serverVars, endpoint, clientVars,
                 retired, nap>>

WaitForTimeout(c) ==
  /\ cpc[c] = "run"
  /\ \E state \in Ops \cap {"wait", "waitcancel"} : Wait(c, state)

SleepWait(c) == cpc[c] = "nap" /\ Wait(c, "sleep")

-----------------------------------------------------------------------------
TimerNext == TimerTick \/ TimerLock \/ TimerScan \/ TimerUnlock

ServerNext ==
  \/ ServerRecv
  \/ ServeSetTimeout
  \/ ServeCancelTimeout
  \/ ServeGetTime
  \/ ServerReply
  \/ ServerNewSlot

ClientNext(c) ==
  \/ ClientSchedule(c)
  \/ ThreadSleep(c)
  \/ CancelTimeout(c)
  \/ GetTime(c)
  \/ WaitForTimeout(c)
  \/ SleepWait(c)

Next == TimerNext \/ ServerNext \/ \E c \in Clients : ClientNext(c)

Spec == Init /\ [][Next]_vars

\* The hardware timer is periodic and both sysclock threads run at
\* seL4_MaxPrio, so they are scheduled whenever they can run; releasing
\* timeouts_mutex signals the notification a blocked server waits on, so the
\* timer thread cannot overtake it forever; a client in the library finishes
\* its call.  Nothing makes an application call again.
Fairness ==
  /\ WF_vars(TimerNext)
  /\ WF_vars(ServerNext)
  /\ SF_vars(ServeSetTimeout \/ ServeCancelTimeout)
  /\ \A c \in Clients : WF_vars(SleepWait(c))

FairSpec == Spec /\ Fairness

-----------------------------------------------------------------------------
(* Properties.                                                             *)

\* The slot caller_ep already holds the cap of a served SET_TIMEOUT.
SlotUsed ==
  spc \in {"slot", "aborted"} \/ (spc = "reply" /\ IsSet(serving))

\* The id of a timeout names one entry: no two scheduled entries share an
\* aep, an id still to be handed out is not in use, and the slot an entry
\* signals holds the notification of the client that asked for it.  The
\* pool frees by comparing aep (timer_entry_compare), so this is what makes
\* simple_pool_free take out the entry it was called for.
UniqueIds ==
  /\ \A i, j \in DOMAIN schedule :
       schedule[i].aep = schedule[j].aep => i = j
  /\ \A i \in DOMAIN schedule :
       /\ slot[schedule[i].aep] = schedule[i].caller
       /\ schedule[i].aep <= caller_ep
       /\ schedule[i].aep = caller_ep => SlotUsed

\* A timeout that was cancelled, or a one-shot timeout that has fired, is
\* never in the schedule again, so the timer thread cannot signal it again:
\* neither a cancel that races a walk nor a reused id brings it back.
RetiredNeverScheduled ==
  \A i \in DOMAIN schedule : schedule[i].aep \notin retired

\* An entry the timer thread finds due (next_event <= time) has waited its
\* whole timeout, unless the sum insert_time + timeout_ms overflowed.
DueMeansElapsed ==
  \A i \in DOMAIN schedule :
    Due(schedule[i]) /\ ~schedule[i].wraps => schedule[i].left = 0

\* When the walk ends every due entry has been served: what is still due is
\* a periodic entry re-armed from the current time (period 0, or a deadline
\* that overflowed).  Freeing the current entry during the walk must not
\* make it miss the next one.
ScanServesAll ==
  ScanDone =>
    \A i \in DOMAIN schedule : LET e == schedule[i] IN
      Due(e) => e.periodic /\ e.next_event = Add(time, e.period)

\* A timeout leaves the schedule only because it fired or was cancelled, and
\* only one leaves in a step: neither simple_pool_free call takes out
\* another client's entry.
LeavesOnlyRetired ==
  [][\A id \in SlotIds : Scheduled(id) /\ ~Scheduled(id)' =>
       /\ id \in retired' \ retired
       /\ Len(schedule') = Len(schedule) - 1]_vars

\* An entry as its client knows it.
View(e) ==
  [id |-> e.aep, client |-> e.caller, periodic |-> e.periodic,
   period |-> e.period, left |-> e.left, wraps |-> e.wraps]

armed == {View(schedule[i]) : i \in DOMAIN schedule}
waiting == [c \in Clients |-> cpc[c] \in Blocked]

Timers == INSTANCE TimerService
            WITH Ids <- SlotIds, Capacity <- MaxEntries, gone <- retired,
                 pending <- signalled

\* The two threads and the shared schedule are a timer service: a timeout
\* fires only when its time is over (unless its deadline overflowed), a
\* one-shot once, for the client that set it and no other; only its client
\* cancels it; an id is never used again; and a client's wait ends for a
\* timeout of its own only, which it does not miss if it waits too late.
ImplementsTimers == Timers!Spec

\* sel4osapi_thread_sleep does not return before its milliseconds have
\* elapsed on the clock (if the deadline fits a word), as long as threads
\* use their wait_aep for nothing else.
SleepNotEarly ==
  [][\A c \in Clients :
       /\ cpc[c] \in {"nap", "sleep"}
       /\ cpc'[c] = "run"
       /\ ~nap[c].wraps
       => nap[c].left = 0]_vars

\* A sleeping thread is woken: also when `time' overflows while it sleeps.
SleepReturns ==
  \A c \in Clients : cpc[c] \in {"nap", "sleep"} ~> cpc[c] = "run"

\* Every call to the server is answered while it has receive slots left; and a
\* schedule with room for one entry per sleeping thread never makes the
\* assertion on the timeout id in sel4osapi_thread_sleep fail, as fired
\* one-shot entries return to the pool.
CallsAnswered ==
  \A c \in Clients :
    cpc[c] = "call" ~> (cpc[c] \notin {"call", "aborted"} \/ spc = "aborted")

\* Every one-shot timeout fires or is cancelled, also when `time' overflows
\* before its deadline.
OneShotRetires ==
  \A id \in SlotIds :
    (\E i \in DOMAIN schedule : schedule[i].aep = id /\ ~schedule[i].periodic)
      ~> id \in retired

=============================================================================
