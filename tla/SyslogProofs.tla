---------------------------- MODULE SyslogProofs ----------------------------
(***************************************************************************)
(* Proofs about Syslog.  SyslogInv is inductive: it adds to the properties *)
(* that a thread inside __syslog_logMessage has locked the log's mutex,    *)
(* that before there is a mutex only the first thread runs, and, as long   *)
(* as nobody switches the console during a message, what the message on    *)
(* its way has left on the UART and in the serial request.                 *)
(***************************************************************************)
EXTENDS Syslog, TLAPS

\* Between sel4osapi_log_lock and sel4osapi_log_unlock.
Inside == Logging \ {"lock"}

LockInv == created => \A t \in Loggers : pc[t] \in Inside => owner = t

EarlyInv ==
  ~created =>
    /\ owner = None
    /\ console = Puts
    /\ \A t \in Threads \ {Main} : pc[t] = "off"
    /\ pc[Main] \in {"idle", "format", "out", "unlock", "aborted"}
    /\ next[Main] = "idle"

RequestInv == \A t \in Loggers : pc[t] = "text call" => request.data = t

\* The text is written, its newline is not.
HalfWritten == {"newline", "newline call"}

LineInv ==
  ~moved =>
    /\ \A t \in Loggers :
         /\ pc[t] \in {"text", "text call"} \cup HalfWritten => console # Puts
         /\ pc[t] \in {"text call", "newline call"} => request.dev = console
         /\ pc[t] \in HalfWritten => open[console] = t
    /\ \A d \in Devices :
         open[d] # None => d = console /\ \E t \in Loggers : pc[t] \in HalfWritten

SyslogInv ==
  /\ BufferStable
  /\ LockInv
  /\ EarlyInv
  /\ RequestInv
  /\ LineInv
  /\ LinesWhole

-----------------------------------------------------------------------------
\* Threads of the root task and of other processes.
LEMMA ThreadFacts ==
  /\ Main \in Loggers /\ Main \in Threads /\ Clock \in Loggers /\ Serial \in Loggers
  /\ Loggers \subseteq Threads /\ RootThreads \subseteq Loggers /\ Clients \subseteq Threads
  /\ None \notin Loggers /\ NewLine \notin Loggers
  /\ Main # Clock /\ Main # Serial
  /\ \A t \in RootThreads \cup Clients : t # Clock /\ t \in Threads
  BY ThreadsAssumption, NamesAssumption DEF Loggers, Threads

\* One thread at a time is inside.
LEMMA OneInside ==
  ASSUME SyslogInv, NEW t \in Loggers, NEW u \in Loggers, pc[t] \in Inside, pc[u] \in Inside
  PROVE  t = u
<1>1. CASE created
  BY <1>1 DEF SyslogInv, LockInv
<1>2. CASE ~created
  <2>1. "off" \notin Inside
    BY DEF Inside, Logging
  <2> QED
    BY <1>2, <2>1, ThreadFacts DEF SyslogInv, EarlyInv
<1> QED
  BY <1>1, <1>2

\* A step that does not write to the buffer, the console, the request or the
\* UARTs, and after which whoever has a message on its way is where it was.
LEMMA Outside ==
  ASSUME SyslogInv, TypeOK', EarlyInv',
         UNCHANGED <<created, owner, console, buffer, request, open, torn, moved>>,
         server' = "stopped" => server = "stopped",
         \A u \in Loggers :
           /\ pc[u] \in Inside \ {"format", "unlock"} \/ pc'[u] \in Inside \ {"format", "unlock"} =>
                pc'[u] = pc[u]
           /\ created /\ pc'[u] \in Inside => pc'[u] = pc[u]
  PROVE  SyslogInv'
<1>1. \A u \in Loggers : \A S \in SUBSET {"out", "text", "text call", "newline", "newline call"} :
        pc'[u] \in S <=> pc[u] \in S
  BY DEF Inside, Logging
<1>2. BufferStable'
  <2>1. \A u \in Loggers : pc'[u] \in {"out", "text", "text call"} => pc[u] \in {"out", "text", "text call"}
    BY <1>1
  <2> QED
    BY <2>1 DEF SyslogInv, BufferStable
<1>3. LockInv'
  BY DEF SyslogInv, LockInv
<1>4. LineInv'
  <2>1. \A u \in Loggers :
          /\ pc'[u] \in {"text", "text call"} \cup HalfWritten <=>
               pc[u] \in {"text", "text call"} \cup HalfWritten
          /\ pc'[u] \in {"text call", "newline call"} <=> pc[u] \in {"text call", "newline call"}
          /\ pc'[u] \in HalfWritten <=> pc[u] \in HalfWritten
    BY DEF Inside, Logging, HalfWritten
  <2> QED
    BY <2>1 DEF SyslogInv, LineInv
<1>5. RequestInv' /\ LinesWhole'
  BY DEF SyslogInv, RequestInv, LinesWhole, Inside, Logging
<1> QED
  BY <1>2, <1>3, <1>4, <1>5 DEF SyslogInv

-----------------------------------------------------------------------------
(* __syslog_logMessage.                                                    *)

PCs == Logging \cup InSerial \cup
         {"off", "idle", "assign", "reply", "clock call", "clock", "aborted"}

\* A thread that is at a place only threads reach once the log has a mutex.
LEMMA HasMutex ==
  ASSUME SyslogInv, NEW t \in Threads,
         pc[t] \notin {"off", "idle", "format", "out", "unlock", "aborted"}
  PROVE  created
  BY DEF SyslogInv, EarlyInv

\* sel4osapi_log_lock: nobody else is inside.
LEMMA LogLockInv ==
  ASSUME SyslogInv, NEW t \in Loggers, LogLock(t)
  PROVE  SyslogInv'
<1>1. /\ owner = None /\ pc[t] = "lock" /\ pc' = [pc EXCEPT ![t] = "format"] /\ owner' = t
      /\ UNCHANGED <<created, level, console, buffer, next, request, server, open, torn, moved>>
  BY DEF LogLock, LockFree, Go, serialVars
<1>2. TypeOK /\ t \in Threads
  BY ThreadFacts DEF SyslogInv, BufferStable
<1>3. created
  BY <1>1, <1>2, HasMutex
<1>4. \A u \in Threads : /\ u # t => pc'[u] = pc[u]
                         /\ u = t => pc'[u] = "format"
  BY <1>1, <1>2 DEF TypeOK
<1>5. \A u \in Loggers : pc[u] \notin Inside
  BY <1>1, <1>3, ThreadFacts DEF SyslogInv, LockInv
<1>6. TypeOK'
  <2>1. pc' \in [Threads -> PCs]
    BY <1>1, <1>2 DEF TypeOK, PCs, Logging
  <2> QED
    BY <1>1, <1>2, <2>1 DEF TypeOK, PCs
<1>7. \A u \in Loggers : pc'[u] \notin Inside \ {"format"}
  BY <1>4, <1>5, ThreadFacts
<1>8. BufferStable'
  BY <1>6, <1>7 DEF BufferStable, Inside, Logging
<1>9. LockInv'
  BY <1>1, <1>4, <1>5, ThreadFacts DEF LockInv
<1>10. EarlyInv'
  BY <1>1, <1>3 DEF EarlyInv
<1>11. LineInv'
  <2>1. \A u \in Loggers : pc[u] \notin HalfWritten
    BY <1>5 DEF Inside, Logging, HalfWritten
  <2> QED
    BY <1>1, <1>7, <2>1 DEF SyslogInv, LineInv, Inside, Logging, HalfWritten
<1>12. RequestInv' /\ LinesWhole'
  BY <1>1, <1>7 DEF SyslogInv, RequestInv, LinesWhole, Inside, Logging
<1> QED
  BY <1>8, <1>9, <1>10, <1>11, <1>12 DEF SyslogInv

\* What a step of the thread inside does to the places: only its own changes,
\* and nobody else is inside.
LEMMA InsideStep ==
  ASSUME SyslogInv, NEW t \in Loggers, pc[t] \in Inside, NEW to, pc' = [pc EXCEPT ![t] = to]
  PROVE  /\ t \in Threads /\ pc'[t] = to
         /\ \A u \in Threads : u # t => pc'[u] = pc[u]
         /\ \A u \in Loggers : u # t => pc[u] \notin Inside /\ pc'[u] \notin Inside
<1>1. TypeOK /\ t \in Threads
  BY ThreadFacts DEF SyslogInv, BufferStable
<1>2. pc'[t] = to /\ \A u \in Threads : u # t => pc'[u] = pc[u]
  BY <1>1 DEF TypeOK
<1> QED
  BY <1>1, <1>2, OneInside, ThreadFacts

\* The message is formatted into the static buffer.
LEMMA FormatInv ==
  ASSUME SyslogInv, NEW t \in Loggers, Format(t)
  PROVE  SyslogInv'
<1>1. /\ pc[t] = "format" /\ pc' = [pc EXCEPT ![t] = "out"] /\ buffer' = t
      /\ UNCHANGED <<created, owner, level, console, next, request, server, open, torn, moved>>
  BY DEF Format, Go, serialVars
<1>2. TypeOK /\ pc[t] \in Inside
  BY <1>1 DEF SyslogInv, BufferStable, Inside, Logging
<1>3. /\ t \in Threads /\ pc'[t] = "out"
      /\ \A u \in Threads : u # t => pc'[u] = pc[u]
      /\ \A u \in Loggers : u # t => pc[u] \notin Inside /\ pc'[u] \notin Inside
  BY <1>1, <1>2, InsideStep
<1>4. TypeOK'
  <2>1. pc' \in [Threads -> PCs]
    BY <1>1, <1>2, <1>3 DEF TypeOK, PCs, Logging
  <2> QED
    BY <1>1, <1>2, <2>1 DEF TypeOK, PCs
<1>5. BufferStable'
  BY <1>1, <1>3, <1>4 DEF BufferStable, Inside, Logging
<1>6. LockInv'
  BY <1>1, <1>2, <1>3 DEF SyslogInv, LockInv
<1>7. EarlyInv'
  BY <1>1, <1>3, ThreadFacts DEF SyslogInv, EarlyInv
<1>8. LineInv'
  <2>1. \A u \in Loggers : pc[u] \notin HalfWritten
    BY <1>1, <1>3 DEF Inside, Logging, HalfWritten
  <2>2. \A u \in Loggers : pc'[u] \notin {"text", "text call"} \cup HalfWritten
    BY <1>3 DEF Inside, Logging, HalfWritten
  <2> QED
    BY <1>1, <2>1, <2>2 DEF SyslogInv, LineInv, HalfWritten
<1>9. RequestInv' /\ LinesWhole'
  BY <1>1, <1>3 DEF SyslogInv, RequestInv, LinesWhole, Inside, Logging
<1> QED
  BY <1>5, <1>6, <1>7, <1>8, <1>9 DEF SyslogInv

\* The console is chosen: puts, or the two serial writes.
LEMMA OutMessageInv ==
  ASSUME SyslogInv, NEW t \in Loggers, OutMessage(t)
  PROVE  SyslogInv'
<1> DEFINE to == IF ToSerial THEN "text" ELSE "unlock"
<1>1. /\ pc[t] = "out" /\ pc' = [pc EXCEPT ![t] = to]
      /\ UNCHANGED <<created, owner, level, console, buffer, next, request, server, open, torn, moved>>
  BY DEF OutMessage, Go, logVars, serialVars
<1>2. TypeOK /\ pc[t] \in Inside
  BY <1>1 DEF SyslogInv, BufferStable, Inside, Logging
<1>3. to \in {"text", "unlock"} /\ (to = "text" => console # Puts)
  BY DEF ToSerial
<1> HIDE DEF to
<1>4. /\ t \in Threads /\ pc'[t] = to
      /\ \A u \in Threads : u # t => pc'[u] = pc[u]
      /\ \A u \in Loggers : u # t => pc[u] \notin Inside /\ pc'[u] \notin Inside
  BY <1>1, <1>2, InsideStep
<1>5. TypeOK'
  <2>1. pc' \in [Threads -> PCs]
    BY <1>1, <1>2, <1>3, <1>4 DEF TypeOK, PCs, Logging
  <2> QED
    BY <1>1, <1>2, <2>1 DEF TypeOK, PCs
<1>6. BufferStable'
  <2>1. buffer = t
    BY <1>1 DEF SyslogInv, BufferStable
  <2> QED
    BY <1>1, <1>4, <1>5, <2>1 DEF BufferStable, Inside, Logging
<1>7. LockInv'
  BY <1>1, <1>2, <1>4 DEF SyslogInv, LockInv
<1>8. EarlyInv'
  BY <1>1, <1>3, <1>4, ThreadFacts DEF SyslogInv, EarlyInv
<1>9. LineInv'
  <2>1. \A u \in Loggers : pc[u] \notin HalfWritten
    BY <1>1, <1>4 DEF Inside, Logging, HalfWritten
  <2>2. \A u \in Loggers : pc'[u] \notin {"text call"} \cup HalfWritten /\ (pc'[u] = "text" => console # Puts)
    BY <1>3, <1>4 DEF Inside, Logging, HalfWritten
  <2> QED
    BY <1>1, <2>1, <2>2 DEF SyslogInv, LineInv, HalfWritten
<1>10. RequestInv' /\ LinesWhole'
  BY <1>1, <1>3, <1>4 DEF SyslogInv, RequestInv, LinesWhole, Inside, Logging
<1> QED
  BY <1>6, <1>7, <1>8, <1>9, <1>10 DEF SyslogInv

\* The request holds the message that is in the buffer, or the newline.
LEMMA SerialWriteInv ==
  ASSUME SyslogInv, NEW t \in Loggers, SerialWrite(t)
  PROVE  SyslogInv'
<1>1. PICK to \in {"text call", "newline call"}, x \in {buffer, NewLine} :
        /\ pc' = [pc EXCEPT ![t] = to] /\ request' = [dev |-> console, data |-> x]
        /\ to = "text call" => pc[t] = "text" /\ x = buffer
        /\ to = "newline call" => pc[t] = "newline"
  <2>1. CASE pc[t] = "text" /\ pc' = [pc EXCEPT ![t] = "text call"]
             /\ request' = [dev |-> console, data |-> buffer]
    BY <2>1
  <2>2. CASE pc[t] = "newline" /\ pc' = [pc EXCEPT ![t] = "newline call"]
             /\ request' = [dev |-> console, data |-> NewLine]
    BY <2>2
  <2> QED
    BY <2>1, <2>2 DEF SerialWrite, Go
<1>2. UNCHANGED <<created, owner, level, console, buffer, next, server, open, torn, moved>>
  BY DEF SerialWrite, logVars
<1>3. TypeOK /\ pc[t] \in {"text", "newline"} /\ pc[t] \in Inside
  BY <1>1 DEF SyslogInv, BufferStable, Inside, Logging
<1>4. /\ t \in Threads /\ pc'[t] = to
      /\ \A u \in Threads : u # t => pc'[u] = pc[u]
      /\ \A u \in Loggers : u # t => pc[u] \notin Inside /\ pc'[u] \notin Inside
  BY <1>1, <1>3, InsideStep
<1>5. created
  BY <1>3, <1>4, HasMutex
<1>6. TypeOK'
  <2>1. pc' \in [Threads -> PCs]
    BY <1>1, <1>3, <1>4 DEF TypeOK, PCs, Logging
  <2>2. request' \in [dev : Consoles, data : Loggers \cup {None, NewLine}]
    <3>1. console \in Consoles /\ x \in Loggers \cup {None, NewLine}
      BY <1>3 DEF TypeOK
    <3> QED
      BY <1>1, <3>1
  <2> QED
    BY <1>2, <1>3, <2>1, <2>2 DEF TypeOK, PCs
<1>7. /\ pc[t] = "text" => buffer = t
      /\ request'.dev = console /\ request'.data = x
  BY <1>1 DEF SyslogInv, BufferStable
<1>8. BufferStable'
  BY <1>1, <1>2, <1>4, <1>6, <1>7 DEF BufferStable, Inside, Logging
<1>9. LockInv'
  BY <1>2, <1>3, <1>4 DEF SyslogInv, LockInv
<1>10. EarlyInv'
  BY <1>2, <1>5 DEF EarlyInv
<1>11. LineInv'
  <2> SUFFICES ASSUME ~moved
               PROVE  LineInv'
    BY <1>2 DEF LineInv
  <2>1. console # Puts /\ (to = "newline call" => open[console] = t)
    BY <1>1, <1>3 DEF SyslogInv, LineInv, HalfWritten
  <2>2. request'.dev = console
    BY <1>7
  <2>3. \A u \in Loggers : pc'[u] \in {"text", "text call"} \cup HalfWritten => u = t
    BY <1>4 DEF Inside, Logging, HalfWritten
  <2>4. ASSUME NEW d \in Devices, open[d] # None
        PROVE  d = console /\ \E u \in Loggers : pc'[u] \in HalfWritten
    <3>1. PICK u \in Loggers : d = console /\ pc[u] \in HalfWritten
      BY <2>4 DEF SyslogInv, LineInv
    <3>2. u = t
      BY <1>4, <3>1 DEF Inside, Logging, HalfWritten
    <3>3. pc[t] = "newline" /\ to = "newline call"
      BY <1>1, <1>3, <3>1, <3>2 DEF HalfWritten
    <3> QED
      BY <1>4, <3>1, <3>3 DEF HalfWritten
  <2> QED
    BY <1>2, <1>4, <2>1, <2>2, <2>3, <2>4 DEF LineInv, HalfWritten
<1>12. RequestInv'
  BY <1>1, <1>4, <1>7 DEF RequestInv, Inside, Logging
<1>13. LinesWhole'
  BY <1>2 DEF SyslogInv, LinesWhole
<1> QED
  BY <1>8, <1>9, <1>10, <1>11, <1>12, <1>13 DEF SyslogInv

\* sel4osapi_log_unlock: the line is complete on the UART.
LEMMA LogUnlockInv ==
  ASSUME SyslogInv, NEW t \in Loggers, LogUnlock(t)
  PROVE  SyslogInv'
<1>1. /\ pc[t] = "unlock" /\ pc' = [pc EXCEPT ![t] = next[t]]
      /\ next' = [next EXCEPT ![t] = "idle"] /\ owner' = IF created THEN None ELSE owner
      /\ UNCHANGED <<created, level, console, buffer, request, server, open, torn, moved>>
  BY DEF LogUnlock, Go, Released, serialVars
<1>2. TypeOK /\ pc[t] \in Inside
  BY <1>1 DEF SyslogInv, BufferStable, Inside, Logging
<1>3. /\ t \in Threads /\ pc'[t] = next[t]
      /\ \A u \in Threads : u # t => pc'[u] = pc[u]
      /\ \A u \in Loggers : u # t => pc[u] \notin Inside /\ pc'[u] \notin Inside
  BY <1>1, <1>2, InsideStep
<1>4. next[t] \in {"idle", "assign", "reply"}
  BY <1>2 DEF TypeOK
<1>5. \A u \in Loggers : pc'[u] \notin Inside
  BY <1>3, <1>4 DEF Inside, Logging
<1>6. TypeOK'
  <2>1. pc' \in [Threads -> PCs]
    BY <1>1, <1>2, <1>3, <1>4 DEF TypeOK, PCs, Logging
  <2>2. next' \in [Loggers -> {"idle", "assign", "reply"}] /\ owner' \in Loggers \cup {None}
    BY <1>1, <1>2 DEF TypeOK
  <2> QED
    BY <1>1, <1>2, <2>1, <2>2 DEF TypeOK, PCs
<1>7. BufferStable'
  BY <1>5, <1>6 DEF BufferStable, Inside, Logging
<1>8. LockInv'
  BY <1>5 DEF LockInv
<1>9. EarlyInv'
  <2> SUFFICES ASSUME ~created
               PROVE  EarlyInv'
    BY <1>1 DEF EarlyInv
  <2>1. t = Main
    BY <1>1, <1>3 DEF SyslogInv, EarlyInv
  <2>2. next'[Main] = "idle"
    BY <1>1, <1>2, <2>1 DEF TypeOK
  <2> QED
    BY <1>1, <1>3, <2>1, <2>2 DEF SyslogInv, EarlyInv
<1>10. LineInv'
  <2>1. \A u \in Loggers : pc[u] \notin HalfWritten
    BY <1>1, <1>3 DEF Inside, Logging, HalfWritten
  <2>2. \A u \in Loggers : pc'[u] \notin {"text", "text call"} \cup HalfWritten
    BY <1>5 DEF Inside, Logging, HalfWritten
  <2> QED
    BY <1>1, <2>1, <2>2 DEF SyslogInv, LineInv, HalfWritten
<1>11. RequestInv' /\ LinesWhole'
  BY <1>1, <1>5 DEF SyslogInv, RequestInv, LinesWhole, Inside, Logging
<1> QED
  BY <1>7, <1>8, <1>9, <1>10, <1>11 DEF SyslogInv

-----------------------------------------------------------------------------
(* The serial server: the text goes to a UART on which no line is open, the*)
(* newline to the one on which the text is.                                *)

\* The serial server copies the text, or the newline, to the UART.
LEMMA ServeWriteInv ==
  ASSUME SyslogInv, NEW t \in Loggers, ServeWrite(t)
  PROVE  SyslogInv'
<1> DEFINE d == request.dev
<1>1. /\ pc[t] \in {"text call", "newline call"}
      /\ UNCHANGED <<created, owner, level, console, buffer, next, moved>>
  BY DEF ServeWrite, Go, logVars
<1>2. TypeOK /\ pc[t] \in Inside /\ t \in Threads
  BY <1>1, ThreadFacts DEF SyslogInv, BufferStable, Inside, Logging
<1>3. created
  BY <1>1, <1>2, HasMutex
<1>4. EarlyInv'
  BY <1>1, <1>3 DEF EarlyInv
<1>5. ~moved => d = console /\ d # Puts
  BY <1>1 DEF SyslogInv, LineInv, HalfWritten
<1>6. CASE d = Puts
  <2>1. server' = "stopped" /\ UNCHANGED <<pc, request, open, torn>>
    BY <1>6 DEF ServeWrite
  <2>2. TypeOK'
    BY <1>1, <1>2, <2>1 DEF TypeOK
  <2>3. BufferStable' /\ LockInv' /\ RequestInv' /\ LineInv'
    BY <1>1, <2>1, <2>2 DEF SyslogInv, BufferStable, LockInv, RequestInv, LineInv
  <2>4. LinesWhole'
    BY <1>1, <1>5, <1>6 DEF LinesWhole
  <2> QED
    BY <1>4, <2>3, <2>4 DEF SyslogInv
<1>7. CASE d # Puts
  <2>1. PICK to \in {"newline", "unlock"} :
          /\ pc' = [pc EXCEPT ![t] = to]
          /\ to = "newline" => /\ pc[t] = "text call" /\ torn' = (torn \/ open[d] # None)
                               /\ open' = [open EXCEPT ![d] = request.data]
          /\ to = "unlock" => /\ pc[t] = "newline call" /\ torn' = (torn \/ open[d] # t)
                              /\ open' = [open EXCEPT ![d] = None]
    BY <1>7 DEF ServeWrite, Go
  <2>2. request' = NoRequest /\ server' = server
    BY <1>7 DEF ServeWrite
  <2>3. /\ pc'[t] = to
        /\ \A u \in Threads : u # t => pc'[u] = pc[u]
        /\ \A u \in Loggers : u # t => pc[u] \notin Inside /\ pc'[u] \notin Inside
    BY <1>2, <2>1, InsideStep
  <2>4. d \in Devices
    BY <1>2, <1>7 DEF TypeOK, Consoles
  <2>5. pc[t] = "text call" => request.data = t
    BY DEF SyslogInv, RequestInv
  <2>6. pc[t] = "text call" /\ ~moved => open[d] = None
    <3> SUFFICES ASSUME pc[t] = "text call", ~moved, open[d] # None
                 PROVE  FALSE
      OBVIOUS
    <3>1. PICK u \in Loggers : pc[u] \in HalfWritten
      BY <2>4 DEF SyslogInv, LineInv
    <3> QED
      BY <2>3, <3>1 DEF HalfWritten, Inside, Logging
  <2>7. pc[t] = "newline call" /\ ~moved => open[d] = t
    BY <1>5 DEF SyslogInv, LineInv, HalfWritten
  <2>8. \A e \in Devices : e # d /\ ~moved => open[e] = None
    BY <1>5 DEF SyslogInv, LineInv
  <2> HIDE DEF d
  <2>9. BufferStable' /\ RequestInv'
    <3>1. pc' \in [Threads -> PCs]
      BY <1>2, <2>1, <2>3 DEF TypeOK, PCs, Logging
    <3>2. open' \in [Devices -> Loggers \cup {None}] /\ torn' \in BOOLEAN
      <4>1. CASE to = "newline"
        <5>1. request.data \in Loggers
          BY <2>1, <2>5, <4>1
        <5>2. open' \in [Devices -> Loggers \cup {None}]
          BY <1>2, <2>1, <4>1, <5>1 DEF TypeOK
        <5>3. torn' \in BOOLEAN
          BY <2>1, <4>1
        <5> QED
          BY <5>2, <5>3
      <4>2. CASE to = "unlock"
        <5>1. open' \in [Devices -> Loggers \cup {None}]
          BY <1>2, <2>1, <4>2 DEF TypeOK
        <5>2. torn' \in BOOLEAN
          BY <2>1, <4>2
        <5> QED
          BY <5>1, <5>2
      <4> QED
        BY <4>1, <4>2
    <3>3. request' \in [dev : Consoles, data : Loggers \cup {None, NewLine}]
      BY <2>2 DEF NoRequest, Consoles
    <3>4. TypeOK'
      BY <1>1, <1>2, <2>2, <3>1, <3>2, <3>3 DEF TypeOK, PCs
    <3> QED
      BY <2>3, <3>4 DEF BufferStable, RequestInv, Inside, Logging
  <2>10. LinesWhole'
    BY <1>1, <2>1, <2>2, <2>6, <2>7 DEF SyslogInv, LinesWhole
  <2>11. LockInv'
    BY <1>1, <1>2, <2>3 DEF SyslogInv, LockInv
  <2>12. \A e \in Devices : open'[e] = IF e = d THEN (IF to = "newline" THEN request.data ELSE None)
                                       ELSE open[e]
    BY <1>2, <2>1 DEF TypeOK
  <2>13. LineInv'
    <3> SUFFICES ASSUME ~moved
                 PROVE  LineInv'
      BY <1>1 DEF LineInv
    <3>1. \A u \in Loggers : pc'[u] \in {"text", "text call"} \cup HalfWritten => u = t /\ to = "newline"
      BY <2>1, <2>3 DEF Inside, Logging, HalfWritten
    <3>2. to = "newline" => pc'[t] \in HalfWritten /\ open'[d] = t
      BY <2>1, <2>3, <2>4, <2>5, <2>12 DEF HalfWritten
    <3>3. \A e \in Devices : open'[e] # None => e = d /\ to = "newline"
      BY <2>8, <2>12
    <3>4. d = console /\ console # Puts
      BY <1>5 DEF d
    <3> QED
      BY <1>1, <2>3, <3>1, <3>2, <3>3, <3>4 DEF LineInv, HalfWritten
  <2> QED
    BY <1>4, <2>9, <2>10, <2>11, <2>13 DEF SyslogInv
<1> QED
  BY <1>6, <1>7

-----------------------------------------------------------------------------
(* The other calls of log.h.                                               *)

\* The log gets its mutex and the other threads start.
LEMMA LogInitializeInv ==
  ASSUME SyslogInv, LogInitialize
  PROVE  SyslogInv'
<1>1. /\ ~created /\ pc[Main] = "idle" /\ created' = TRUE
      /\ pc' = [t \in Threads |-> IF t = Serial /\ level = MaxLevel THEN "lock" ELSE "idle"]
      /\ UNCHANGED <<owner, level, console, buffer, next, request, server, open, torn, moved>>
  BY DEF LogInitialize, serialVars
<1>2. TypeOK
  BY DEF SyslogInv, BufferStable
<1>3. \A t \in Threads : pc'[t] \in {"lock", "idle"} /\ pc[t] \in {"off", "idle"}
  BY <1>1 DEF SyslogInv, EarlyInv
<1>4. TypeOK'
  <2>1. pc' \in [Threads -> PCs]
    BY <1>1 DEF PCs, Logging
  <2> QED
    BY <1>1, <1>2, <2>1 DEF TypeOK, PCs
<1>5. \A t \in Loggers : pc'[t] \in {"lock", "idle"} /\ pc[t] \in {"off", "idle"}
  BY <1>3, ThreadFacts
<1>6. BufferStable' /\ RequestInv'
  BY <1>4, <1>5 DEF BufferStable, RequestInv
<1>7. LockInv' /\ EarlyInv'
  BY <1>1, <1>5 DEF LockInv, EarlyInv, Inside, Logging
<1>8. LineInv'
  BY <1>1, <1>5 DEF SyslogInv, LineInv, HalfWritten
<1>9. LinesWhole'
  BY <1>1 DEF SyslogInv, LinesWhole
<1> QED
  BY <1>6, <1>7, <1>8, <1>9 DEF SyslogInv

\* Where a log call begins: outside, unless there is no mutex yet.
LEMMA EntryFacts ==
  ASSUME SyslogInv, NEW l, NEW then \in {"idle", "assign", "reply"}
  PROVE  /\ Entry(l, then) \in {then, "lock", "format"}
         /\ created => Entry(l, then) \in {then, "lock"}
         /\ ~created => Entry(l, then) \in {then, "format"}
  BY DEF Entry

\* A thread calls the log, without switching the console.
LEMMA LogInv ==
  ASSUME SyslogInv, NEW t \in RootThreads, NEW l, NEW then \in {"idle", "assign"},
         LogMessage(t, "idle", l, then), then = "assign" => created,
         UNCHANGED <<logVars, serialVars, moved>>
  PROVE  SyslogInv'
<1> DEFINE to == Entry(l, then)
<1>1. /\ pc[t] = "idle" /\ pc' = [pc EXCEPT ![t] = to] /\ next' = [next EXCEPT ![t] = then]
      /\ UNCHANGED <<created, owner, level, console, buffer, request, server, open, torn, moved>>
  BY DEF LogMessage, Go, logVars, serialVars
<1>2. TypeOK /\ t \in Threads /\ t \in Loggers
  BY ThreadFacts DEF SyslogInv, BufferStable
<1>3. /\ to \in {then, "lock", "format"}
      /\ created => to \in {then, "lock"}
      /\ ~created => to \in {"idle", "format"}
  BY EntryFacts
<1> HIDE DEF to
<1>4. \A u \in Threads : /\ u # t => pc'[u] = pc[u]
                         /\ u = t => pc'[u] = to
  BY <1>1, <1>2 DEF TypeOK
<1>5. TypeOK'
  <2>1. pc' \in [Threads -> PCs]
    BY <1>1, <1>2, <1>3 DEF TypeOK, PCs, Logging
  <2>2. next' \in [Loggers -> {"idle", "assign", "reply"}]
    BY <1>1, <1>2 DEF TypeOK
  <2> QED
    BY <1>1, <1>2, <2>1, <2>2 DEF TypeOK, PCs
<1>6. EarlyInv'
  <2> SUFFICES ASSUME ~created
               PROVE  EarlyInv'
    BY <1>1 DEF EarlyInv
  <2>1. t = Main /\ then = "idle"
    BY <1>1, <1>2 DEF SyslogInv, EarlyInv
  <2>2. next'[Main] = "idle"
    BY <1>1, <1>2, <2>1 DEF TypeOK
  <2> QED
    BY <1>1, <1>2, <1>3, <1>4, <2>1, <2>2 DEF SyslogInv, EarlyInv
<1>7. \A u \in Loggers :
        /\ pc[u] \in Inside \ {"format", "unlock"} \/ pc'[u] \in Inside \ {"format", "unlock"} =>
             pc'[u] = pc[u]
        /\ created /\ pc'[u] \in Inside => pc'[u] = pc[u]
  BY <1>1, <1>3, <1>4, ThreadFacts DEF Inside, Logging
<1> QED
  BY <1>1, <1>5, <1>6, <1>7, Outside

\* The level is set, or the assert on it fails.
LEMMA SetLevelInv ==
  ASSUME SyslogInv, NEW t \in RootThreads, NEW l \in 0 .. MaxLevel + 1, SetLevel(t, l)
  PROVE  SyslogInv'
<1>1. /\ pc[t] = "idle" /\ (pc' = pc \/ pc' = [pc EXCEPT ![t] = "aborted"])
      /\ level' = level \/ (level' = l /\ LevelOk(l))
      /\ UNCHANGED <<created, owner, console, buffer, next, request, server, open, torn, moved>>
  BY DEF SetLevel, Go, serialVars
<1>2. TypeOK /\ t \in Threads /\ t \in Loggers
  BY ThreadFacts DEF SyslogInv, BufferStable
<1>3. \A u \in Threads : /\ u # t => pc'[u] = pc[u]
                         /\ u = t => pc'[u] \in {"idle", "aborted"}
  BY <1>1, <1>2 DEF TypeOK
<1>4. TypeOK'
  <2>1. level' \in Levels
    <3>1. LevelOk(l) => l \in Levels
      BY LevelsAssumption DEF LevelOk, Levels, ErrorLevel
    <3>2. level \in Levels
      BY <1>2 DEF TypeOK
    <3> QED
      BY <1>1, <3>1, <3>2
  <2>2. pc' \in [Threads -> PCs]
    BY <1>1, <1>2 DEF TypeOK, PCs
  <2> QED
    BY <1>1, <1>2, <2>1, <2>2 DEF TypeOK, PCs
<1>5. EarlyInv'
  BY <1>1, <1>2, <1>3, ThreadFacts DEF SyslogInv, EarlyInv
<1>6. \A u \in Loggers :
        /\ pc[u] \in Inside \ {"format", "unlock"} \/ pc'[u] \in Inside \ {"format", "unlock"} =>
             pc'[u] = pc[u]
        /\ created /\ pc'[u] \in Inside => pc'[u] = pc[u]
  BY <1>1, <1>3, ThreadFacts DEF Inside, Logging
<1> QED
  BY <1>1, <1>4, <1>5, <1>6, Outside

\* sel4osapi_log_set_console does not lock: when somebody is inside, `moved'
\* records it; otherwise nothing depends on the console.
LEMMA AssignConsoleInv ==
  ASSUME SyslogInv, NEW t \in Loggers, NEW c \in Consoles, AssignConsole(t, c)
  PROVE  SyslogInv'
<1> DEFINE to == Entry(InfoLevel, "idle")
<1>1. /\ console' = c /\ moved' = (moved \/ owner # None)
      /\ pc[t] = "assign" /\ pc' = [pc EXCEPT ![t] = to] /\ next' = [next EXCEPT ![t] = "idle"]
      /\ UNCHANGED <<created, owner, level, buffer, request, server, open, torn>>
  BY DEF AssignConsole, LogMessage, Go, serialVars
<1>2. TypeOK /\ t \in Threads
  BY ThreadFacts DEF SyslogInv, BufferStable
<1>3. created /\ to \in {"idle", "lock"}
  BY <1>1, <1>2, HasMutex, EntryFacts
<1> HIDE DEF to
<1>4. \A u \in Threads : /\ u # t => pc'[u] = pc[u]
                         /\ u = t => pc'[u] \in {"idle", "lock"}
  BY <1>1, <1>2, <1>3 DEF TypeOK
<1>5. TypeOK'
  <2>1. pc' \in [Threads -> PCs]
    BY <1>1, <1>2, <1>3 DEF TypeOK, PCs, Logging
  <2>2. next' \in [Loggers -> {"idle", "assign", "reply"}]
    BY <1>1, <1>2 DEF TypeOK
  <2>3. moved' \in BOOLEAN
    BY <1>1
  <2> QED
    BY <1>1, <1>2, <2>1, <2>2, <2>3 DEF TypeOK, PCs
<1>6. \A u \in Loggers : pc'[u] \in Inside => pc'[u] = pc[u]
  BY <1>3, <1>4, ThreadFacts DEF Inside, Logging
<1>7. BufferStable' /\ LockInv' /\ RequestInv'
  <2>1. BufferStable'
    BY <1>1, <1>5, <1>6 DEF SyslogInv, BufferStable, Inside, Logging
  <2>2. LockInv'
    BY <1>1, <1>6 DEF SyslogInv, LockInv
  <2>3. RequestInv'
    BY <1>1, <1>6 DEF SyslogInv, RequestInv, Inside, Logging
  <2> QED
    BY <2>1, <2>2, <2>3
<1>8. EarlyInv'
  BY <1>1, <1>3 DEF EarlyInv
<1>9. LineInv'
  <2> SUFFICES ASSUME ~moved'
               PROVE  LineInv'
    BY DEF LineInv
  <2>1. ~moved /\ owner = None
    BY <1>1
  <2>2. \A u \in Loggers : pc[u] \notin Inside
    BY <1>3, <2>1, ThreadFacts DEF SyslogInv, LockInv
  <2>3. \A u \in Loggers : pc'[u] \notin Inside
    BY <1>6, <2>2
  <2>4. \A d \in Devices : open[d] = None
    BY <2>1, <2>2 DEF SyslogInv, LineInv, Inside, Logging, HalfWritten
  <2> QED
    BY <1>1, <2>3, <2>4 DEF LineInv, Inside, Logging, HalfWritten
<1>10. LinesWhole'
  BY <1>1 DEF SyslogInv, LinesWhole
<1> QED
  BY <1>7, <1>8, <1>9, <1>10 DEF SyslogInv

-----------------------------------------------------------------------------
(* Calls of the servers that do not log.                                   *)

\* A thread moves between places outside the log.
LEMMA CallInv ==
  ASSUME SyslogInv, created, NEW t \in RootThreads \cup Clients,
         NEW to \in {"idle", "read call", "read", "clock call", "clock"},
         pc' = [pc EXCEPT ![t] = to], pc[t] \notin Inside,
         server' \in {"idle", "gettime", "poll", server},
         UNCHANGED <<logVars, next, request, open, torn, moved>>
  PROVE  SyslogInv'
<1>1. UNCHANGED <<created, owner, level, console, buffer, next, request, open, torn, moved>>
  BY DEF logVars
<1>2. TypeOK /\ t \in Threads
  BY ThreadFacts DEF SyslogInv, BufferStable
<1>3. \A u \in Threads : /\ u # t => pc'[u] = pc[u]
                         /\ u = t => pc'[u] = to
  BY <1>2 DEF TypeOK
<1>4. TypeOK'
  <2>1. pc' \in [Threads -> PCs]
    BY <1>2 DEF TypeOK, PCs, InSerial
  <2> QED
    BY <1>1, <1>2, <2>1 DEF TypeOK, PCs
<1>5. EarlyInv'
  BY <1>1 DEF EarlyInv
<1>6. \A u \in Loggers :
        /\ pc[u] \in Inside \ {"format", "unlock"} \/ pc'[u] \in Inside \ {"format", "unlock"} =>
             pc'[u] = pc[u]
        /\ created /\ pc'[u] \in Inside => pc'[u] = pc[u]
  BY <1>3, ThreadFacts DEF Inside, Logging
<1> QED
  BY <1>1, <1>4, <1>5, <1>6, Outside

\* A call of the log or of a server begins.
LEMMA StartCallInv ==
  ASSUME SyslogInv, NEW t \in RootThreads \cup Clients, StartCall(t)
  PROVE  SyslogInv'
<1>1. "idle" \notin Inside
  BY DEF Inside, Logging
<1>2. CASE SerialRead(t) \/ ScheduleTimeout(t)
  BY <1>1, <1>2, CallInv DEF StartCall, SerialRead, ScheduleTimeout, Go, serialVars
<1>3. CASE t \in RootThreads /\ SetConsole(t)
  BY <1>3, LogInv DEF StartCall, SetConsole
<1> QED
  BY <1>2, <1>3 DEF StartCall

\* The SysClock server serves; when its schedule is full it logs first.
LEMMA ServeSetTimeoutInv ==
  ASSUME SyslogInv, NEW t \in RootThreads \cup Clients, ServeSetTimeout(t)
  PROVE  SyslogInv'
<1>1. /\ pc[Clock] = "idle" /\ pc[t] = "clock call"
      /\ UNCHANGED <<created, owner, level, console, buffer, request, server, open, torn, moved>>
  BY DEF ServeSetTimeout, logVars, serialVars
<1>2. TypeOK /\ t \in Threads /\ t # Clock /\ Clock \in Loggers /\ Clock \in Threads
  BY ThreadFacts DEF SyslogInv, BufferStable
<1>3. created
  BY <1>1, <1>2, HasMutex
<1>4. CASE pc' = [pc EXCEPT ![t] = "idle"] /\ next' = next
  <2>1. "clock call" \notin Inside
    BY DEF Inside, Logging
  <2> QED
    BY <1>1, <1>3, <1>4, <2>1, CallInv DEF logVars
<1>5. CASE /\ pc' = [pc EXCEPT ![t] = "clock", ![Clock] = Entry(ErrorLevel, "reply")]
           /\ next' = [next EXCEPT ![Clock] = "reply"]
  <2>1. Entry(ErrorLevel, "reply") \in {"reply", "lock"}
    BY <1>3, EntryFacts
  <2>2. \A u \in Threads : /\ u # t /\ u # Clock => pc'[u] = pc[u]
                           /\ u = t => pc'[u] = "clock"
                           /\ u = Clock => pc'[u] \in {"reply", "lock"}
    BY <1>2, <1>5, <2>1 DEF TypeOK
  <2>3. TypeOK'
    <3>1. pc' \in [Threads -> PCs]
      BY <1>2, <1>5, <2>1 DEF TypeOK, PCs, Logging
    <3>2. next' \in [Loggers -> {"idle", "assign", "reply"}]
      BY <1>2, <1>5 DEF TypeOK
    <3> QED
      BY <1>1, <1>2, <3>1, <3>2 DEF TypeOK, PCs
  <2>4. EarlyInv'
    BY <1>1, <1>3 DEF EarlyInv
  <2>5. \A u \in Loggers :
          /\ pc[u] \in Inside \ {"format", "unlock"} \/ pc'[u] \in Inside \ {"format", "unlock"} =>
               pc'[u] = pc[u]
          /\ created /\ pc'[u] \in Inside => pc'[u] = pc[u]
    BY <1>1, <2>2, ThreadFacts DEF Inside, Logging
  <2> QED
    BY <1>1, <2>3, <2>4, <2>5, Outside
<1> QED
  BY <1>4, <1>5 DEF ServeSetTimeout, Go

\* The SysClock server answers a thread.
LEMMA ClockReplyInv ==
  ASSUME SyslogInv, NEW t \in RootThreads \cup Clients, ClockReply(t)
  PROVE  SyslogInv'
<1>1. /\ pc[Clock] = "reply" /\ pc[t] = "clock"
      /\ pc' = [pc EXCEPT ![t] = "idle", ![Clock] = "idle"]
      /\ UNCHANGED <<created, owner, level, console, buffer, next, request, server, open, torn, moved>>
  BY DEF ClockReply, logVars, serialVars
<1>2. TypeOK /\ t \in Threads /\ t # Clock /\ Clock \in Threads
  BY ThreadFacts DEF SyslogInv, BufferStable
<1>3. created
  BY <1>1, <1>2, HasMutex
<1>4. \A u \in Threads : /\ u # t /\ u # Clock => pc'[u] = pc[u]
                         /\ u = t \/ u = Clock => pc'[u] = "idle"
  BY <1>1, <1>2 DEF TypeOK
<1>5. TypeOK'
  <2>1. pc' \in [Threads -> PCs]
    BY <1>1, <1>2 DEF TypeOK, PCs
  <2> QED
    BY <1>1, <1>2, <2>1 DEF TypeOK, PCs
<1>6. EarlyInv'
  BY <1>1, <1>3 DEF EarlyInv
<1>7. \A u \in Loggers :
        /\ pc[u] \in Inside \ {"format", "unlock"} \/ pc'[u] \in Inside \ {"format", "unlock"} =>
             pc'[u] = pc[u]
        /\ created /\ pc'[u] \in Inside => pc'[u] = pc[u]
  BY <1>1, <1>4, ThreadFacts DEF Inside, Logging
<1> QED
  BY <1>1, <1>5, <1>6, <1>7, Outside

\* What a server does for a thread that waits for it: outside the log, except
\* that the SysClock server may log itself.
LEMMA ServedInv ==
  ASSUME SyslogInv, NEW t \in RootThreads \cup Clients, Served(t)
  PROVE  SyslogInv'
<1>1. t \in Threads
  BY ThreadFacts
<1>2. CASE ServeRead(t) \/ ReadDone(t)
  <2>1. pc[t] \in {"read call", "read"}
    BY <1>2 DEF ServeRead, ReadDone, Go
  <2>2. created /\ pc[t] \notin Inside
    BY <1>1, <2>1, HasMutex DEF Inside, Logging
  <2> QED
    BY <1>2, <2>2, CallInv DEF ServeRead, ReadDone, Go
<1>3. CASE ServeSetTimeout(t) \/ ClockReply(t)
  BY <1>3, ServeSetTimeoutInv, ClockReplyInv
<1> QED
  BY <1>2, <1>3 DEF Served

\* Steps that leave all threads where they are.
LEMMA StillInv ==
  ASSUME SyslogInv, ServeGetTime \/ UNCHANGED vars
  PROVE  SyslogInv'
<1>1. /\ UNCHANGED <<created, owner, level, console, buffer, pc, next, request, open, torn, moved>>
      /\ server' \in {"poll", server}
  BY DEF ServeGetTime, vars, logVars, serialVars
<1>2. TypeOK'
  BY <1>1 DEF SyslogInv, BufferStable, TypeOK
<1>3. EarlyInv'
  BY <1>1 DEF SyslogInv, EarlyInv
<1> QED
  BY <1>1, <1>2, <1>3, Outside

-----------------------------------------------------------------------------
\* The invariant holds in every reachable state.
LEMMA Invariant == Spec => []SyslogInv
<1>1. Init => SyslogInv
  <2> SUFFICES ASSUME Init
               PROVE  SyslogInv
    OBVIOUS
  <2>1. \A t \in Threads : pc[t] = IF t = Main THEN "idle" ELSE "off"
    BY DEF Init
  <2>2. TypeOK
    <3>1. pc \in [Threads -> PCs]
      BY DEF Init, PCs
    <3>2. level \in Levels /\ console \in Consoles
      BY LevelsAssumption DEF Init, Levels, InfoLevel, Consoles
    <3>3. request \in [dev : Consoles, data : Loggers \cup {None, NewLine}]
      BY DEF Init, NoRequest, Consoles
    <3> QED
      BY <3>1, <3>2, <3>3 DEF Init, TypeOK, PCs
  <2>3. \A t \in Loggers : pc[t] \in {"idle", "off"}
    BY <2>1, ThreadFacts
  <2>4. BufferStable /\ RequestInv
    BY <2>2, <2>3 DEF BufferStable, RequestInv
  <2>5. LockInv /\ LinesWhole
    BY DEF Init, LockInv, LinesWhole
  <2>6. EarlyInv
    BY <2>1, ThreadFacts DEF Init, EarlyInv
  <2>7. LineInv
    BY <2>3 DEF Init, LineInv, HalfWritten
  <2> QED
    BY <2>4, <2>5, <2>6, <2>7 DEF SyslogInv
<1>2. SyslogInv /\ [Next]_vars => SyslogInv'
  <2> SUFFICES ASSUME SyslogInv, [Next]_vars
               PROVE  SyslogInv'
    OBVIOUS
  <2>1. CASE LogInitialize
    BY <2>1, LogInitializeInv
  <2>2. ASSUME NEW t \in RootThreads, StartLog(t)
        PROVE  SyslogInv'
    BY <2>2, LogInv, SetLevelInv DEF StartLog, Log
  <2>3. ASSUME NEW t \in RootThreads \cup Clients, StartCall(t) \/ Served(t)
        PROVE  SyslogInv'
    BY <2>3, StartCallInv, ServedInv
  <2>4. ASSUME NEW t \in Loggers, Continue(t)
        PROVE  SyslogInv'
    BY <2>4, LogLockInv, FormatInv, OutMessageInv, SerialWriteInv, ServeWriteInv, LogUnlockInv,
       AssignConsoleInv DEF Continue
  <2>5. CASE ServeGetTime \/ UNCHANGED vars
    BY <2>5, StillInv
  <2> QED
    BY <2>1, <2>2, <2>3, <2>4, <2>5 DEF Next
<1> QED
  BY <1>1, <1>2, PTL DEF Spec

\* __syslog_logMessage: the static buffer is the caller's from vsnprintf until
\* the serial client or puts has the message, whatever thread logs.
THEOREM MessageKept == Spec => []BufferStable
<1>1. SyslogInv => BufferStable
  BY DEF SyslogInv
<1> QED
  BY <1>1, Invariant, PTL

\* __syslog_outMessage: a message and its newline, two serial writes, are not
\* torn, and the server's assert(device) does not fail, unless the console was
\* switched during a message.
THEOREM LinesKept == Spec => []LinesWhole
<1>1. SyslogInv => LinesWhole
  BY DEF SyslogInv
<1> QED
  BY <1>1, Invariant, PTL
=============================================================================
