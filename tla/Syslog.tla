------------------------------- MODULE Syslog -------------------------------
(***************************************************************************)
(* The log of the root task (src/log.c, log.h) and what it calls: the      *)
(* serial server (src/io.c), which calls the SysClock server (src/clock.c) *)
(* while it reads, which logs when its schedule is full.                   *)
(*                                                                         *)
(* The two servers and the other threads of the root task share the log.   *)
(* Threads of other processes, which have logs of their own, are clients   *)
(* of the servers only.  A message is known by the thread that logs it;    *)
(* the messages of sel4osapi_log_set_console before the switch are one.    *)
(***************************************************************************)
EXTENDS Integers

CONSTANTS
  Main,         \* the first thread of the root task
  RootThreads,  \* threads of the root task, except the two servers
  Clients,      \* threads of other processes, each with a serial client
  Clock,        \* sel4osapi_sysclock_server_thread
  Serial,       \* sel4osapi_serial_server_thread
  MaxLevel,     \* SEL4OSAPI_LOG_LEVEL_TRACE
  MaxDevice     \* the UARTs are 1 .. MaxDevice

ASSUME LevelsAssumption == MaxLevel \in Nat \ {0} /\ MaxDevice \in Nat
ASSUME ThreadsAssumption ==
  /\ Main \in RootThreads
  /\ Clock # Serial
  /\ {Clock, Serial} \cap (RootThreads \cup Clients) = {}
  /\ RootThreads \cap Clients = {}

Loggers == RootThreads \cup {Clock, Serial}
Threads == Loggers \cup Clients
Devices == 1 .. MaxDevice
Puts == 0                        \* sel4osapi_logconsole before it is set
Consoles == Devices \cup {Puts}
Levels == 0 .. MaxLevel
ErrorLevel == 0
InfoLevel == MaxLevel - 1
None == "none"
NewLine == "newline"
ASSUME NamesAssumption == {None, NewLine} \cap Threads = {}

VARIABLES
  created,   \* sel4osapi_gv_logmutex is not NULL
  owner,     \* who holds it
  level,     \* sel4osapi_gv_loglevel
  console,   \* sel4osapi_logconsole
  buffer,    \* the static buffer of __syslog_logMessage: whose message it holds
  pc,        \* what a thread does
  next,      \* where it goes on after the log call
  request,   \* the serial write of the root task: device and data
  server,    \* the serial server: "idle", "gettime", "poll" or "stopped"
  open,      \* what the root task wrote to a UART without a newline behind it
  torn,      \* history: a line was not written whole
  moved      \* history: the console was switched during a message

logVars == <<created, owner, level, console, buffer>>
serialVars == <<request, server, open, torn>>
vars == <<logVars, pc, next, serialVars, moved>>

\* In a serial call, and so with buf_avail of the process taken.
InSerial == {"text call", "newline call", "read call", "read"}

Logging == {"lock", "format", "out", "text", "text call", "newline", "newline call", "unlock"}

TypeOK ==
  /\ created \in BOOLEAN
  /\ owner \in Loggers \cup {None}
  /\ level \in Levels
  /\ console \in Consoles
  /\ buffer \in Loggers \cup {None}
  /\ pc \in [Threads -> Logging \cup InSerial \cup
                        {"off", "idle", "assign", "reply", "clock call", "clock", "aborted"}]
  /\ next \in [Loggers -> {"idle", "assign", "reply"}]
  /\ request \in [dev : Consoles, data : Loggers \cup {None, NewLine}]
  /\ server \in {"idle", "gettime", "poll", "stopped"}
  /\ open \in [Devices -> Loggers \cup {None}]
  /\ torn \in BOOLEAN
  /\ moved \in BOOLEAN

NoRequest == [dev |-> Puts, data |-> None]

Init ==
  /\ created = FALSE
  /\ owner = None
  /\ level = InfoLevel
  /\ console = Puts
  /\ buffer = None
  /\ pc = [t \in Threads |-> IF t = Main THEN "idle" ELSE "off"]
  /\ next = [t \in Loggers |-> "idle"]
  /\ request = NoRequest
  /\ server = "idle"
  /\ open = [d \in Devices |-> None]
  /\ torn = FALSE
  /\ moved = FALSE

Go(t, from, to) == pc[t] = from /\ pc' = [pc EXCEPT ![t] = to]

-----------------------------------------------------------------------------
(* __syslog_logMessage.                                                    *)

\* Where a log call at level l begins, or ends if the level is not logged.
Entry(l, then) == IF level < l THEN then ELSE IF created THEN "lock" ELSE "format"

\* A thread at `from' logs at level l and goes on at `then'.
LogMessage(t, from, l, then) ==
  /\ Go(t, from, Entry(l, then))
  /\ next' = [next EXCEPT ![t] = then]

\* Mutant of LockFree: sel4osapi_log_lock does not wait.
LockFreeAlways == TRUE

LockFree == owner = None

\* sel4osapi_log_lock.
LogLock(t) ==
  /\ LockFree
  /\ Go(t, "lock", "format")
  /\ owner' = t
  /\ UNCHANGED <<created, level, console, buffer, next, serialVars, moved>>

\* snprintf and vsnprintf into the buffer.
Format(t) ==
  /\ Go(t, "format", "out")
  /\ buffer' = t
  /\ UNCHANGED <<created, owner, level, console, next, serialVars, moved>>

ToSerial == console # Puts

\* __syslog_outMessage: puts, or two serial writes.
OutMessage(t) ==
  /\ Go(t, "out", IF ToSerial THEN "text" ELSE "unlock")
  /\ UNCHANGED <<logVars, next, serialVars, moved>>

BufAvail(t) ==
  t \in Clients \/ \A u \in Loggers : pc[u] \notin InSerial

\* sel4osapi_io_serial_write up to the call: takes buf_avail and copies the
\* data.  The console is read again.
SerialWrite(t) ==
  /\ BufAvail(t)
  /\ \/ Go(t, "text", "text call") /\ request' = [dev |-> console, data |-> buffer]
     \/ Go(t, "newline", "newline call") /\ request' = [dev |-> console, data |-> NewLine]
  /\ UNCHANGED <<logVars, next, server, open, torn, moved>>

\* Mutant of Released: the mutex stays locked after a message on a UART.
ReleasedIfPuts(t) == IF ToSerial THEN owner ELSE None

Released(t) == IF created THEN None ELSE owner

\* Mutant of LogUnlock: the mutex is unlocked between the two writes.
LogUnlockEarly(t) ==
  \/ /\ pc[t] = "newline" /\ owner = t /\ owner' = None
     /\ UNCHANGED <<created, level, console, buffer, pc, next, serialVars, moved>>
  \/ /\ Go(t, "unlock", next[t])
     /\ next' = [next EXCEPT ![t] = "idle"]
     /\ owner' = IF owner = t THEN None ELSE owner
     /\ UNCHANGED <<created, level, console, buffer, serialVars, moved>>

\* sel4osapi_log_unlock; the caller goes on.
LogUnlock(t) ==
  /\ Go(t, "unlock", next[t])
  /\ next' = [next EXCEPT ![t] = "idle"]
  /\ owner' = Released(t)
  /\ UNCHANGED <<created, level, console, buffer, serialVars, moved>>

-----------------------------------------------------------------------------
(* The other calls of log.h.                                               *)

\* sel4osapi_log_initialize; after it sel4osapi_system_initialize starts the
\* servers and the serial server's thread traces that it serves requests.  A
\* second call of sel4osapi_log_initialize only logs.
LogInitialize ==
  /\ pc[Main] = "idle" /\ ~created
  /\ created' = TRUE
  /\ pc' = [t \in Threads |-> IF t = Serial /\ level = MaxLevel THEN "lock" ELSE "idle"]
  /\ UNCHANGED <<owner, level, console, buffer, next, serialVars, moved>>

LevelOk(l) == l >= ErrorLevel /\ l <= MaxLevel

\* sel4osapi_log_set_level.
SetLevel(t, l) ==
  /\ IF LevelOk(l)
     THEN pc[t] = "idle" /\ level' = l /\ UNCHANGED pc
     ELSE Go(t, "idle", "aborted") /\ UNCHANGED level
  /\ UNCHANGED <<created, owner, console, buffer, next, serialVars, moved>>

\* sel4osapi_log_set_console: messages, the assignment, without the mutex, and
\* one more message.
SetConsole(t) ==
  /\ LogMessage(t, "idle", InfoLevel, "assign")
  /\ UNCHANGED <<logVars, serialVars, moved>>

AssignConsole(t, d) ==
  /\ console' = d
  /\ moved' = (moved \/ owner # None)
  /\ LogMessage(t, "assign", InfoLevel, "idle")
  /\ UNCHANGED <<created, owner, level, buffer, serialVars>>

\* Any other caller.
Log(t, l) ==
  /\ LogMessage(t, "idle", l, "idle")
  /\ UNCHANGED <<logVars, serialVars, moved>>

-----------------------------------------------------------------------------
(* The serial server.                                                      *)

\* It serves when its own thread is not in the trace at its start.
Serves == server = "idle" /\ pc[Serial] = "idle"

\* A write request is served whole; a device that does not exist stops the
\* server (assert(device)).
ServeWrite(t) ==
  LET d == request.dev IN
  /\ Serves
  /\ IF d = Puts
     THEN /\ pc[t] \in {"text call", "newline call"}
          /\ server' = "stopped"
          /\ UNCHANGED <<pc, request, open, torn>>
     ELSE /\ \/ /\ Go(t, "text call", "newline")
                /\ torn' = (torn \/ open[d] # None)
                /\ open' = [open EXCEPT ![d] = request.data]
             \/ /\ Go(t, "newline call", "unlock")
                /\ torn' = (torn \/ open[d] # t)
                /\ open' = [open EXCEPT ![d] = None]
          /\ request' = NoRequest
          /\ UNCHANGED server
  /\ UNCHANGED <<logVars, next, moved>>

\* sel4osapi_io_serial_read up to the call.
SerialRead(t) ==
  /\ BufAvail(t)
  /\ Go(t, "idle", "read call")
  /\ UNCHANGED <<logVars, next, serialVars, moved>>

\* A read request: the server calls the SysClock before every poll of the UART.
\* One call stands for all.
ServeRead(t) ==
  /\ Serves
  /\ Go(t, "read call", "read")
  /\ server' = "gettime"
  /\ UNCHANGED <<logVars, next, request, open, torn, moved>>

\* The last byte came, or the time is up.
ReadDone(t) ==
  /\ server = "poll" /\ server' = "idle"
  /\ Go(t, "read", "idle")
  /\ UNCHANGED <<logVars, next, request, open, torn, moved>>

-----------------------------------------------------------------------------
(* The SysClock server.                                                    *)

\* SYSCLOCK_OP_GET_TIME for the serial server.
ServeGetTime ==
  /\ pc[Clock] = "idle"
  /\ server = "gettime" /\ server' = "poll"
  /\ UNCHANGED <<logVars, pc, next, request, open, torn, moved>>

\* sel4osapi_sysclock_schedule_timeout.
ScheduleTimeout(t) ==
  /\ Go(t, "idle", "clock call")
  /\ UNCHANGED <<logVars, next, serialVars, moved>>

\* SYSCLOCK_OP_SET_TIMEOUT: done, or the schedule is full, which the server
\* logs (with timeouts_mutex locked) before it replies.
ServeSetTimeout(t) ==
  /\ pc[Clock] = "idle" /\ pc[t] = "clock call"
  /\ \/ Go(t, "clock call", "idle") /\ UNCHANGED next
     \/ /\ pc' = [pc EXCEPT ![t] = "clock", ![Clock] = Entry(ErrorLevel, "reply")]
        /\ next' = [next EXCEPT ![Clock] = "reply"]
  /\ UNCHANGED <<logVars, serialVars, moved>>

ClockReply(t) ==
  /\ pc[Clock] = "reply" /\ pc[t] = "clock"
  /\ pc' = [pc EXCEPT ![t] = "idle", ![Clock] = "idle"]
  /\ UNCHANGED <<logVars, next, serialVars, moved>>

-----------------------------------------------------------------------------
\* A thread calls the log, or what needs the servers once these are started.
StartLog(t) ==
  \/ \E l \in Levels : Log(t, l)
  \/ \E l \in 0 .. MaxLevel + 1 : SetLevel(t, l)

StartCall(t) == created /\ (SerialRead(t) \/ ScheduleTimeout(t) \/ (t \in RootThreads /\ SetConsole(t)))

\* A thread goes on with its call, or is served.
Continue(t) ==
  \/ LogLock(t) \/ Format(t) \/ OutMessage(t) \/ SerialWrite(t) \/ ServeWrite(t) \/ LogUnlock(t)
  \/ \E d \in Consoles : AssignConsole(t, d)

Served(t) == ServeRead(t) \/ ReadDone(t) \/ ServeSetTimeout(t) \/ ClockReply(t)

Next ==
  \/ LogInitialize
  \/ \E t \in RootThreads : StartLog(t)
  \/ \E t \in RootThreads \cup Clients : StartCall(t) \/ Served(t)
  \/ \E t \in Loggers : Continue(t)
  \/ ServeGetTime

Spec == Init /\ [][Next]_vars

\* A thread is not overtaken for ever on the mutex, on buf_avail or on an
\* endpoint: the kernel's queues are FIFO.  A read ends as it has a timeout and
\* the time goes on.
Fairness ==
  /\ SF_vars(ServeGetTime)
  /\ \A t \in Loggers : SF_vars(Continue(t))
  /\ \A t \in RootThreads \cup Clients : SF_vars(Served(t))

FairSpec == Spec /\ Fairness

-----------------------------------------------------------------------------
(* Properties.                                                             *)

\* The static buffer of __syslog_logMessage holds the caller's message until
\* __syslog_outMessage has handed it over, although all threads share it.
BufferStable ==
  /\ TypeOK
  /\ \A t \in Loggers : pc[t] \in {"out", "text", "text call"} => buffer = t

\* Of what the process writes to a UART, a message and its newline follow each
\* other, although they are two serial writes, and the serial server's
\* assert(device) does not fail for it; unless somebody switched the console
\* between the test in __syslog_outMessage and the reads of the console for the
\* two writes, as sel4osapi_log_set_console does not lock.
LinesWhole == torn \/ server = "stopped" => moved

\* The serial server waits for the SysClock server, which waits for it to log
\* that the schedule is full; or it waits for itself or for the mutex of a
\* thread that waits for it, when the console is switched before the server's
\* thread has traced that it is started.
Circle ==
  \/ server = "gettime" /\ pc[Clock] \in Logging \ {"unlock"}
  \/ /\ pc[Serial] \in Logging
     /\ \E t \in Loggers : pc[t] \in {"text", "text call", "newline", "newline call"}

\* Every call to the log, the serial server and the SysClock returns, unless
\* the serial server is stopped or in the circle: the servers' calls of each
\* other are the only way in which everybody waits for everybody.
CallsReturn ==
  \A t \in RootThreads \cup Clients :
    pc[t] \notin {"off", "idle"} ~> pc[t] \in {"idle", "aborted"} \/ server = "stopped" \/ Circle
=============================================================================
