--------------------------- MODULE SysclockProofs ---------------------------
(***************************************************************************)
(* Safety of the SysClock service for any number of clients, entries and   *)
(* slots, any period and any word size.                                    *)
(*                                                                         *)
(* The strengthening SysclockInv adds to the properties: who is queued at  *)
(* the endpoint and who is being served (QueueInv, ServingInv), that ids   *)
(* are handed out in increasing order (IdsInv), that the timer thread      *)
(* walks the schedule under the mutex and what it has already walked       *)
(* (ScanInv), and the exact distance of a deadline that did not overflow   *)
(* (DeadlineInv).  Two properties of steps follow.  What leaves the        *)
(* schedule is read off each action; that a sleep does not end early needs *)
(* SleepInv: a signal that is pending, or an entry that will send one, is  *)
(* always that of the sleep its client is in.                              *)
(*                                                                         *)
(* That the service implements TimerService rests on TimersInv: the ids a  *)
(* client has, sends or is about to be told are its own (OwnerInv), the    *)
(* schedule fits its pool, and requests carry what their clients asked     *)
(* for.  Then every step is one of the service or none: a cancel is one of *)
(* the canceller's own timeout, a due entry fires the timeout it is.       *)
(***************************************************************************)
EXTENDS Sysclock, SequenceTheorems, FiniteSetTheorems, TLAPS

\* Clients queued at the endpoint are in seL4_Call, once each, and the
\* client being served is not queued.
QueueInv ==
  /\ \A i \in DOMAIN endpoint : cpc[endpoint[i]] = "call"
  /\ \A i, j \in DOMAIN endpoint : endpoint[i] = endpoint[j] => i = j
  /\ spc \in {"serve", "reply"} =>
       \A i \in DOMAIN endpoint : endpoint[i] # serving

\* The client being served waits for the reply, and the slot caller_ep
\* holds its notification if the request is a SET_TIMEOUT.
ServingInv ==
  spc \in {"serve", "reply"} =>
    /\ serving \in Clients
    /\ cpc[serving] = "call"
    /\ IsSet(serving) => slot[caller_ep] = serving

\* An id that is known to a client or retired was handed out before
\* caller_ep, or is caller_ep after the request it was allocated for.
Issued(id) == id <= caller_ep /\ (id = caller_ep => SlotUsed)

IdsInv ==
  /\ \A c \in Clients : Issued(tid[c]) /\ Issued(creq[c].id)
  /\ \A id \in retired : Issued(id)
  /\ spc = "reply" => reply.mr1 <= caller_ep

\* What the walk has left behind: entries that are not due, or periodic
\* entries re-armed from the current time.
Served(e) == Due(e) => e.periodic /\ e.next_event = Add(time, e.period)

ScanInv ==
  /\ tpc = "scan" <=> mutex = "timer"
  /\ tpc = "scan" =>
       \A i \in DOMAIN schedule : i < cursor => Served(schedule[i])

\* A deadline that did not overflow is exactly `left' ahead of the clock.
DeadlineInv ==
  \A i \in DOMAIN schedule : LET e == schedule[i] IN
    ~e.wraps => e.left = 0 \/ e.next_event = time + e.left

SysclockInv ==
  /\ TypeOK
  /\ UniqueIds
  /\ RetiredNeverScheduled
  /\ QueueInv
  /\ ServingInv
  /\ IdsInv
  /\ ScanInv
  /\ DeadlineInv

-----------------------------------------------------------------------------
(* Facts about the operators.                                              *)

\* Modular addition stays in the word, and is addition if the sum fits.
LEMMA AddFacts ==
  ASSUME NEW x \in 0 .. Word - 1, NEW y \in 0 .. Word - 1
  PROVE  /\ Add(x, y) \in 0 .. Word - 1
         /\ x + y < Word => Add(x, y) = x + y
<1>1. Word \in Nat \ {0}
  BY WordAssumption
<1>2. \A n \in Nat : n % Word \in 0 .. Word - 1
  BY <1>1
<1>3. \A n \in Nat : n < Word => n % Word = n
  BY <1>1
<1> QED BY <1>1, <1>2, <1>3 DEF Add

\* A new entry is well typed, and its deadline is `left' ahead of the clock
\* unless it overflowed.
LEMMA EntryFacts ==
  ASSUME time \in 0 .. Word - 1,
         NEW aep \in SlotIds, NEW c \in Clients, NEW periodic \in BOOLEAN,
         NEW ms \in Timeouts \cup {0}
  PROVE  LET e == Entry(aep, c, periodic, ms) IN
         /\ e \in EntryType
         /\ e.aep = aep /\ e.caller = c /\ e.periodic = periodic
         /\ e.period = ms /\ e.next_event = Add(time, ms)
         /\ e.left = ms
         /\ ~e.wraps => e.next_event = time + e.left
<1>1. Word \in Nat \ {0} /\ ms \in 0 .. Word - 1
  BY WordAssumption, TimeoutsAssumption
<1>2. /\ Add(time, ms) \in 0 .. Word - 1
      /\ time + ms < Word => Add(time, ms) = time + ms
  BY <1>1, AddFacts
<1> DEFINE e == Entry(aep, c, periodic, ms)
<1>3. /\ e.aep = aep /\ e.caller = c /\ e.periodic = periodic
      /\ e.period = ms /\ e.next_event = Add(time, ms) /\ e.left = ms
  BY DEF Entry
<1>w. ~e.wraps => ~(time + ms >= Word)
  BY DEF Entry
<1>4. e \in EntryType
  <2>1. (time + ms >= Word) \in BOOLEAN
    OBVIOUS
  <2> QED BY <1>1, <1>2, <2>1 DEF Entry, EntryType
<1> HIDE DEF e
<1>5. ~e.wraps => e.next_event = time + e.left
  BY <1>1, <1>2, <1>3, <1>w
<1> QED BY <1>3, <1>4, <1>5 DEF e

\* What RemoveAt returns.
LEMMA RemoveAtFacts ==
  ASSUME NEW S, NEW s \in Seq(S), NEW k \in 1 .. Len(s)
  PROVE  /\ RemoveAt(s, k) \in Seq(S)
         /\ Len(RemoveAt(s, k)) = Len(s) - 1
         /\ \A i \in 1 .. Len(s) - 1 :
              RemoveAt(s, k)[i] = IF i < k THEN s[i] ELSE s[i + 1]
<1> DEFINE front == SubSeq(s, 1, k - 1)
           back  == SubSeq(s, k + 1, Len(s))
<1>1. /\ front \in Seq(S)
      /\ Len(front) = k - 1
      /\ \A i \in 1 .. k - 1 : front[i] = s[i]
  <2>1. \A i \in 1 .. k - 1 : s[i] \in S
    OBVIOUS
  <2> QED BY <2>1, SubSeqProperties
<1>2. /\ back \in Seq(S)
      /\ Len(back) = Len(s) - k
      /\ \A i \in 1 .. Len(s) - k : back[i] = s[k + i]
  <2>1. \A i \in k + 1 .. Len(s) : s[i] \in S
    OBVIOUS
  <2>2. /\ SubSeq(s, k + 1, Len(s)) \in Seq(S)
        /\ Len(SubSeq(s, k + 1, Len(s))) =
             IF k + 1 <= Len(s) THEN Len(s) - (k + 1) + 1 ELSE 0
        /\ \A i \in 1 .. Len(s) - (k + 1) + 1 :
             SubSeq(s, k + 1, Len(s))[i] = s[(k + 1) + i - 1]
    BY <2>1, SubSeqProperties
  <2> QED BY <2>2
<1>3. RemoveAt(s, k) = front \o back
  BY DEF RemoveAt
<1> HIDE DEF front, back
<1>4. /\ front \o back \in Seq(S)
      /\ Len(front \o back) = Len(front) + Len(back)
      /\ \A i \in 1 .. Len(front) + Len(back) :
           (front \o back)[i] = IF i <= Len(front) THEN front[i] ELSE back[i - Len(front)]
  BY <1>1, <1>2, ConcatProperties
<1>5. Len(front) + Len(back) = Len(s) - 1
  BY <1>1, <1>2
<1>6. ASSUME NEW i \in 1 .. Len(s) - 1
      PROVE  (front \o back)[i] = IF i < k THEN s[i] ELSE s[i + 1]
  <2>1. (front \o back)[i] =
          IF i <= k - 1 THEN front[i] ELSE back[i - (k - 1)]
    BY <1>1, <1>4, <1>5
  <2>2. CASE i < k
    BY <1>1, <2>1, <2>2
  <2>3. CASE i >= k
    <3>1. i - (k - 1) \in 1 .. Len(s) - k
      BY <2>3
    <3>2. back[i - (k - 1)] = s[k + (i - (k - 1))]
      BY <1>2, <3>1
    <3>3. k + (i - (k - 1)) = i + 1
      OBVIOUS
    <3> QED BY <2>1, <2>3, <3>2, <3>3
  <2>4. i < k \/ i >= k
    <3>1. Len(s) \in Nat
      OBVIOUS
    <3> QED BY <3>1
  <2> QED BY <2>2, <2>3, <2>4, Zenon
<1> QED BY <1>3, <1>4, <1>5, <1>6

\* With unique ids, freeing by aep takes out the entry with that aep, or
\* nothing when there is none.
LEMMA FreeByAepFacts ==
  ASSUME NEW s \in Seq(EntryType), NEW id,
         \A i, j \in DOMAIN s : s[i].aep = s[j].aep => i = j
  PROVE  \/ /\ \A i \in DOMAIN s : s[i].aep # id
            /\ FreeByAep(s, id) = s
         \/ \E k \in 1 .. Len(s) : s[k].aep = id /\ FreeByAep(s, id) = RemoveAt(s, k)
<1>1. CASE \A i \in DOMAIN s : s[i].aep # id
  BY <1>1 DEF FreeByAep
<1>2. CASE \E i \in DOMAIN s : s[i].aep = id
  <2>1. PICK k \in DOMAIN s : s[k].aep = id
    BY <1>2
  <2>2. FindByAep(s, id) = k
    BY <2>1 DEF FindByAep
  <2>3. FreeByAep(s, id) = RemoveAt(s, k)
    BY <2>1, <2>2 DEF FreeByAep
  <2> QED BY <2>1, <2>3
<1> QED BY <1>1, <1>2

-----------------------------------------------------------------------------
(* The invariant holds initially and every action preserves it.            *)

\* The service starts in a state that satisfies SysclockInv.
LEMMA InitInv == Init => SysclockInv
<1> SUFFICES ASSUME Init PROVE SysclockInv
  OBVIOUS
<1> USE DEF Init
<1>1. TypeOK
  <2>1. Word \in Nat \ {0} /\ Slots \in Nat \ {0} /\ MaxSets \in Nat
    BY WordAssumption, SlotsAssumption, SetsAssumption
  <2> QED BY <2>1 DEF TypeOK, SlotIds, NoRequest, Request, ClientStates,
                      AllOps, Blocked
<1>2. UniqueIds /\ RetiredNeverScheduled /\ DeadlineInv
  BY DEF UniqueIds, RetiredNeverScheduled, DeadlineInv
<1>3. QueueInv /\ ServingInv /\ ScanInv
  BY DEF QueueInv, ServingInv, ScanInv, None
<1>4. IdsInv
  BY DEF IdsInv, Issued, NoRequest, Request
<1> QED BY <1>1, <1>2, <1>3, <1>4 DEF SysclockInv

\* The clock advances: every deadline that has not overflowed comes nearer
\* by exactly one Period, or is reached.
LEMMA TimerTickInv == SysclockInv /\ TimerTick => SysclockInv'
<1> SUFFICES ASSUME SysclockInv, TimerTick PROVE SysclockInv'
  OBVIOUS
<1> USE DEF SysclockInv
<1>0. Word \in Nat \ {0} /\ Period \in 1 .. Word - 1 /\ TypeOK
  BY WordAssumption, PeriodAssumption
<1>1. /\ time \in 0 .. Word - 1
      /\ time' \in 0 .. Word - 1
      /\ time + Period < Word => time' = time + Period
  BY <1>0, AddFacts DEF TypeOK, TimerTick
<1>2. \A n \in 0 .. Word - 1 : Elapse(n) \in 0 .. Word - 1
  BY <1>0 DEF Elapse
<1>3. /\ DOMAIN schedule' = DOMAIN schedule
      /\ \A i \in DOMAIN schedule :
           /\ schedule[i] \in EntryType
           /\ schedule'[i] = [schedule[i] EXCEPT !.left = Elapse(@)]
  BY DEF TimerTick, TypeOK
<1>4. \A i \in DOMAIN schedule :
        /\ schedule'[i] \in EntryType
        /\ schedule'[i].aep = schedule[i].aep
        /\ schedule'[i].caller = schedule[i].caller
        /\ schedule'[i].next_event = schedule[i].next_event
        /\ schedule'[i].wraps = schedule[i].wraps
        /\ schedule'[i].left = Elapse(schedule[i].left)
  BY <1>2, <1>3 DEF EntryType
<1>5. schedule' \in Seq(EntryType)
  <2>1. DOMAIN schedule = 1 .. Len(schedule) /\ Len(schedule) \in Nat
    BY DEF TypeOK
  <2>2. schedule' \in [1 .. Len(schedule) -> EntryType]
    BY <1>4, <2>1 DEF TimerTick
  <2> QED BY <2>1, <2>2, SeqDef
<1>6. TypeOK'
  <2>1. nap' \in [Clients -> [left: 0 .. Word - 1, wraps: BOOLEAN]]
    BY <1>2 DEF TimerTick, TypeOK
  <2> QED BY <1>1, <1>5, <2>1
      DEF TypeOK, TimerTick, serverVars, clientVars
<1>7. UniqueIds' /\ RetiredNeverScheduled'
  <2>1. UNCHANGED <<slot, caller_ep, retired>> /\ SlotUsed' = SlotUsed
    BY DEF TimerTick, serverVars, clientVars, SlotUsed, IsSet
  <2>2. UniqueIds'
    BY <1>3, <1>4, <2>1 DEF UniqueIds
  <2>3. RetiredNeverScheduled'
    BY <1>3, <1>4, <2>1 DEF RetiredNeverScheduled
  <2> QED BY <2>2, <2>3
<1>8. QueueInv' /\ ServingInv' /\ IdsInv' /\ ScanInv'
  BY DEF QueueInv, ServingInv, IdsInv, ScanInv, TimerTick, serverVars,
         clientVars, IsSet, Issued, SlotUsed
<1>9. DeadlineInv'
  <2> SUFFICES ASSUME NEW i \in DOMAIN schedule, ~schedule[i].wraps
               PROVE  \/ schedule'[i].left = 0
                      \/ schedule'[i].next_event = time' + schedule'[i].left
    BY <1>3, <1>4 DEF DeadlineInv
  <2>1. /\ schedule[i].left \in 0 .. Word - 1
        /\ schedule[i].next_event \in 0 .. Word - 1
    BY <1>3 DEF EntryType
  <2>2. schedule[i].left = 0 \/ schedule[i].next_event = time + schedule[i].left
    BY DEF DeadlineInv
  <2>3. CASE schedule[i].left <= Period
    BY <2>1, <2>3, <1>4, <1>0 DEF Elapse
  <2>4. CASE schedule[i].left > Period
    BY <2>1, <2>2, <2>4, <1>0, <1>1, <1>4 DEF Elapse
  <2> QED BY <2>1, <2>3, <2>4, <1>0
<1> QED BY <1>6, <1>7, <1>8, <1>9

\* Taking the mutex starts a walk that has served nothing yet.
LEMMA TimerLockInv == SysclockInv /\ TimerLock => SysclockInv'
<1> SUFFICES ASSUME SysclockInv, TimerLock PROVE SysclockInv'
  OBVIOUS
<1> USE DEF SysclockInv, TimerLock, serverVars, clientVars
<1>1. TypeOK'
  BY DEF TypeOK
<1>2. UniqueIds' /\ RetiredNeverScheduled' /\ DeadlineInv'
  BY DEF UniqueIds, RetiredNeverScheduled, DeadlineInv, SlotUsed, IsSet
<1>3. QueueInv' /\ ServingInv' /\ IdsInv'
  BY DEF QueueInv, ServingInv, IdsInv, IsSet, Issued, SlotUsed
<1>4. ScanInv'
  BY DEF ScanInv, TypeOK
<1> QED BY <1>1, <1>2, <1>3, <1>4

\* The end of the walk releases the mutex.
LEMMA TimerUnlockInv == SysclockInv /\ TimerUnlock => SysclockInv'
<1> SUFFICES ASSUME SysclockInv, TimerUnlock PROVE SysclockInv'
  OBVIOUS
<1> USE DEF SysclockInv, TimerUnlock, serverVars, clientVars
<1>1. TypeOK'
  BY DEF TypeOK
<1>2. UniqueIds' /\ RetiredNeverScheduled' /\ DeadlineInv'
  BY DEF UniqueIds, RetiredNeverScheduled, DeadlineInv, SlotUsed, IsSet
<1>3. QueueInv' /\ ServingInv' /\ IdsInv'
  BY DEF QueueInv, ServingInv, IdsInv, IsSet, Issued, SlotUsed
<1>4. ScanInv'
  BY DEF ScanInv, None
<1> QED BY <1>1, <1>2, <1>3, <1>4

\* Taking one entry out of the schedule keeps the ids of the others unique
\* and their deadlines exact, and its own id is gone.
LEMMA RemovalInv ==
  ASSUME SysclockInv, NEW k \in DOMAIN schedule,
         schedule' = RemoveAt(schedule, k),
         UNCHANGED <<slot, caller_ep, time>>, SlotUsed => SlotUsed'
  PROVE  /\ schedule' \in Seq(EntryType)
         /\ UniqueIds'
         /\ DeadlineInv'
         /\ Len(schedule') = Len(schedule) - 1
         /\ \A i \in DOMAIN schedule' :
              /\ schedule'[i] = IF i < k THEN schedule[i] ELSE schedule[i + 1]
              /\ (IF i < k THEN i ELSE i + 1) \in DOMAIN schedule
              /\ schedule'[i].aep # schedule[k].aep
<1> USE DEF SysclockInv
<1>1. schedule \in Seq(EntryType) /\ k \in 1 .. Len(schedule)
  BY DEF TypeOK
<1>2. /\ schedule' \in Seq(EntryType)
      /\ Len(schedule') = Len(schedule) - 1
      /\ \A i \in 1 .. Len(schedule) - 1 :
           schedule'[i] = IF i < k THEN schedule[i] ELSE schedule[i + 1]
  BY <1>1, RemoveAtFacts
<1>3. /\ DOMAIN schedule' = 1 .. Len(schedule) - 1
      /\ DOMAIN schedule = 1 .. Len(schedule)
      /\ Len(schedule) \in Nat
  BY <1>1, <1>2
<1> DEFINE old(i) == IF i < k THEN i ELSE i + 1
<1>4. \A i \in DOMAIN schedule' :
        /\ old(i) \in DOMAIN schedule /\ old(i) # k
        /\ schedule'[i] = schedule[old(i)]
  BY <1>1, <1>2, <1>3
<1>5. \A i, j \in DOMAIN schedule' : old(i) = old(j) => i = j
  BY <1>1, <1>3
<1>6. UniqueIds'
  <2>1. \A i, j \in DOMAIN schedule' :
          schedule'[i].aep = schedule'[j].aep => i = j
    <3> HIDE DEF old
    <3> QED BY <1>4, <1>5 DEF UniqueIds
  <2>2. \A i \in DOMAIN schedule' :
          /\ slot'[schedule'[i].aep] = schedule'[i].caller
          /\ schedule'[i].aep <= caller_ep'
          /\ schedule'[i].aep = caller_ep' => SlotUsed'
    <3> HIDE DEF old
    <3> QED BY <1>4 DEF UniqueIds
  <2> QED BY <2>1, <2>2 DEF UniqueIds
<1>7. DeadlineInv'
  <2> HIDE DEF old
  <2> QED BY <1>4 DEF DeadlineInv
<1>8. \A i \in DOMAIN schedule' : schedule'[i].aep # schedule[k].aep
  <2> HIDE DEF old
  <2> QED BY <1>4 DEF UniqueIds
<1> QED BY <1>2, <1>4, <1>6, <1>7, <1>8

\* A signal wakes a blocked client or stays pending; it neither starts nor
\* ends a call.
LEMMA SignalFacts ==
  ASSUME TypeOK, NEW c \in Clients, Signal(c)
  PROVE  /\ cpc' \in [Clients -> ClientStates]
         /\ signalled' \in [Clients -> BOOLEAN]
         /\ \A d \in Clients : cpc[d] = "call" => cpc'[d] = "call"
<1>1. CASE cpc[c] \in Blocked
  BY <1>1 DEF Signal, TypeOK, ClientStates, Blocked, Resume
<1>2. CASE cpc[c] \notin Blocked
  BY <1>2 DEF Signal, TypeOK, ClientStates, Blocked
<1> QED BY <1>1, <1>2

\* One step of the walk: entries before the cursor are served, and a fired
\* one-shot entry leaves the schedule and becomes retired.
LEMMA TimerScanInv == SysclockInv /\ TimerScan => SysclockInv'
<1> SUFFICES ASSUME SysclockInv, TimerScan PROVE SysclockInv'
  OBVIOUS
<1> USE DEF SysclockInv
<1> DEFINE e == schedule[cursor]
<1>1. /\ tpc = "scan" /\ tpc' = "scan"
      /\ cursor \in DOMAIN schedule
      /\ cursor \in Nat \ {0}
      /\ e \in EntryType
      /\ slot[e.aep] = e.caller /\ e.caller \in Clients /\ e.aep \in SlotIds
      /\ mutex' = mutex /\ time' = time
      /\ UNCHANGED <<spc, serving, reply, caller_ep, slot, endpoint, creq,
                     tid, sets, nap>>
  <2>1. /\ tpc = "scan" /\ cursor <= Len(schedule) /\ tpc' = tpc
        /\ mutex' = mutex /\ time' = time
        /\ UNCHANGED <<spc, serving, reply, caller_ep, slot, endpoint, creq,
                       tid, sets, nap>>
    BY DEF TimerScan, serverVars, clientVars
  <2>2. cursor \in DOMAIN schedule /\ cursor \in Nat \ {0}
    BY <2>1 DEF TypeOK
  <2>3. e \in EntryType
    BY <2>2 DEF TypeOK
  <2>4. slot[e.aep] = e.caller
    BY <2>2 DEF UniqueIds
  <2> QED BY <2>1, <2>2, <2>3, <2>4 DEF EntryType
<1>2. IsSet(serving)' = IsSet(serving) /\ SlotUsed' = SlotUsed
  BY <1>1 DEF IsSet, SlotUsed
<1>3. CASE /\ ~Due(e) /\ cursor' = cursor + 1
           /\ UNCHANGED <<schedule, signalled, cpc, retired>>
  <2>1. TypeOK'
    BY <1>1, <1>3 DEF TypeOK
  <2>2. UniqueIds' /\ RetiredNeverScheduled' /\ DeadlineInv'
    BY <1>1, <1>2, <1>3 DEF UniqueIds, RetiredNeverScheduled, DeadlineInv
  <2>3. QueueInv' /\ ServingInv' /\ IdsInv'
    BY <1>1, <1>2, <1>3 DEF QueueInv, ServingInv, IdsInv, Issued
  <2>4. ScanInv'
    <3>1. \A i \in DOMAIN schedule : i < cursor + 1 => Served(schedule[i])
      <4>1. \A i \in DOMAIN schedule : i < cursor => Served(schedule[i])
        BY <1>1 DEF ScanInv
      <4>2. Served(schedule[cursor])
        BY <1>3 DEF Served
      <4>3. DOMAIN schedule = 1 .. Len(schedule) /\ Len(schedule) \in Nat /\ cursor \in Nat
        BY <1>1 DEF TypeOK
      <4>4. \A i \in DOMAIN schedule : i < cursor + 1 => i < cursor \/ i = cursor
        BY <4>3
      <4> QED BY <4>1, <4>2, <4>4
    <3> QED BY <1>1, <1>3, <3>1 DEF ScanInv, Served, Due, Add
  <2> QED BY <2>1, <2>2, <2>3, <2>4
<1>s. ASSUME Signal(slot[e.aep])
      PROVE  /\ cpc' \in [Clients -> ClientStates]
             /\ signalled' \in [Clients -> BOOLEAN]
             /\ QueueInv' /\ ServingInv'
  <2>1. /\ cpc' \in [Clients -> ClientStates]
        /\ signalled' \in [Clients -> BOOLEAN]
        /\ \A d \in Clients : cpc[d] = "call" => cpc'[d] = "call"
    BY <1>1, <1>s, SignalFacts
  <2>2. \A i \in DOMAIN endpoint : endpoint[i] \in Clients
    BY DEF TypeOK
  <2>3. QueueInv'
    BY <1>1, <2>1, <2>2 DEF QueueInv
  <2>4. ServingInv'
    BY <1>1, <1>2, <2>1 DEF ServingInv
  <2> QED BY <2>1, <2>3, <2>4
<1>4. CASE /\ Due(e) /\ e.periodic
           /\ Signal(slot[e.aep])
           /\ schedule' = [schedule EXCEPT ![cursor] =
                             Entry(e.aep, e.caller, e.periodic, e.period)]
           /\ cursor' = cursor + 1
           /\ UNCHANGED retired
  <2> DEFINE f == Entry(e.aep, e.caller, e.periodic, e.period)
  <2>1. /\ f \in EntryType
        /\ f.aep = e.aep /\ f.caller = e.caller /\ f.periodic = e.periodic
        /\ f.period = e.period /\ f.next_event = Add(time, e.period)
        /\ ~f.wraps => f.next_event = time + f.left
    <3>1. /\ time \in 0 .. Word - 1
          /\ e.period \in Timeouts \cup {0} /\ e.periodic \in BOOLEAN
      BY <1>1 DEF TypeOK, EntryType
    <3> HIDE DEF e
    <3> QED BY <1>1, <3>1, EntryFacts
  <2> HIDE DEF f
  <2>2. schedule' = [schedule EXCEPT ![cursor] = f]
    BY <1>4 DEF f
  <2>3. /\ schedule' \in Seq(EntryType)
        /\ DOMAIN schedule' = DOMAIN schedule
        /\ \A i \in DOMAIN schedule :
             schedule'[i] = IF i = cursor THEN f ELSE schedule[i]
    <3>1. schedule \in Seq(EntryType)
      BY DEF TypeOK
    <3> QED BY <1>1, <2>1, <2>2, <3>1
  <2>s. /\ cpc' \in [Clients -> ClientStates]
        /\ signalled' \in [Clients -> BOOLEAN]
        /\ cursor' \in Nat \ {0} /\ retired' = retired
        /\ QueueInv' /\ ServingInv'
    BY <1>1, <1>4, <1>s
  <2>4. TypeOK'
    <3> HIDE DEF e
    <3> QED BY <1>1, <2>s, <2>3 DEF TypeOK
  <2>5. \A i \in DOMAIN schedule : /\ schedule'[i].aep = schedule[i].aep
                                   /\ schedule'[i].caller = schedule[i].caller
    BY <2>1, <2>3
  <2>6. UniqueIds' /\ RetiredNeverScheduled'
    <3>1. UNCHANGED <<slot, caller_ep, retired>> /\ SlotUsed' = SlotUsed
      BY <1>1, <1>2, <2>s
    <3>2. DOMAIN schedule' = DOMAIN schedule
      BY <2>3
    <3>3. UniqueIds'
      BY <2>5, <3>1, <3>2 DEF UniqueIds
    <3>4. RetiredNeverScheduled'
      BY <2>5, <3>1, <3>2 DEF RetiredNeverScheduled
    <3> QED BY <3>3, <3>4
  <2>7. DeadlineInv'
    BY <1>1, <2>1, <2>3 DEF DeadlineInv
  <2>8. IdsInv'
    BY <1>1, <1>2, <1>4 DEF IdsInv, Issued
  <2>9. ScanInv'
    <3>1. Served(f)
      BY <1>4, <2>1 DEF Served
    <3>2. \A i \in DOMAIN schedule : i < cursor + 1 => Served(schedule'[i])
      <4> SUFFICES ASSUME NEW i \in DOMAIN schedule, i < cursor + 1
                   PROVE  Served(schedule'[i])
        OBVIOUS
      <4>1. i \in Nat
        BY DEF TypeOK
      <4>2. CASE i = cursor
        BY <2>3, <3>1, <4>2
      <4>3. CASE i < cursor
        BY <1>1, <2>3, <4>3 DEF ScanInv
      <4> QED BY <1>1, <4>1, <4>2, <4>3
    <3> QED BY <1>1, <1>4, <2>3, <3>2, ZenonT(30) DEF ScanInv, Served, Due, Add
  <2> QED BY <2>s, <2>4, <2>6, <2>7, <2>8, <2>9
<1>5. CASE /\ Due(e) /\ ~e.periodic
           /\ Signal(slot[e.aep])
           /\ schedule' = FreeByAep(schedule, e.aep)
           /\ retired' = retired \cup {e.aep}
           /\ cursor' = NextAfterFree(cursor)
  <2>0. schedule \in Seq(EntryType)
    BY DEF TypeOK
  <2>1. schedule' = RemoveAt(schedule, cursor)
    <3>1. \A i, j \in DOMAIN schedule : schedule[i].aep = schedule[j].aep => i = j
      BY DEF UniqueIds
    <3>2. PICK k \in 1 .. Len(schedule) :
            schedule[k].aep = e.aep /\ schedule' = RemoveAt(schedule, k)
      BY <1>1, <1>5, <2>0, <3>1, FreeByAepFacts
    <3>3. k = cursor
      BY <1>1, <2>0, <3>1, <3>2
    <3> QED BY <3>2, <3>3
  <2>2. /\ schedule' \in Seq(EntryType)
        /\ UniqueIds'
        /\ DeadlineInv'
        /\ \A i \in DOMAIN schedule' :
             /\ schedule'[i] = IF i < cursor THEN schedule[i] ELSE schedule[i + 1]
             /\ (IF i < cursor THEN i ELSE i + 1) \in DOMAIN schedule
             /\ schedule'[i].aep # e.aep
    BY <1>1, <1>2, <2>1, RemovalInv
  <2>3. TypeOK'
    BY <1>1, <1>5, <1>s, <2>2 DEF TypeOK, NextAfterFree
  <2>4. RetiredNeverScheduled'
    <3> SUFFICES ASSUME NEW i \in DOMAIN schedule'
                 PROVE  schedule'[i].aep \notin retired \cup {e.aep}
      BY <1>5 DEF RetiredNeverScheduled
    <3>1. \E j \in DOMAIN schedule : schedule'[i] = schedule[j]
      BY <2>2
    <3> QED BY <2>2, <3>1 DEF RetiredNeverScheduled
  <2>5. IdsInv'
    <3>1. Issued(e.aep)
      BY <1>1 DEF UniqueIds, Issued
    <3> QED BY <1>1, <1>2, <1>5, <3>1 DEF IdsInv, Issued
  <2>6. ScanInv'
    <3> SUFFICES ASSUME NEW i \in DOMAIN schedule', i < cursor
                 PROVE  Served(schedule'[i])
      BY <1>1, <1>5 DEF ScanInv, NextAfterFree, Served, Due, Add
    <3> QED BY <1>1, <2>2 DEF ScanInv
  <2> QED BY <1>5, <1>s, <2>2, <2>3, <2>4, <2>5, <2>6
<1> QED BY <1>3, <1>4, <1>5 DEF TimerScan

\* The server takes the first client of the queue; the cap of a SET_TIMEOUT
\* goes to a slot no scheduled entry uses.
LEMMA ServerRecvInv == SysclockInv /\ ServerRecv => SysclockInv'
<1> SUFFICES ASSUME SysclockInv, ServerRecv PROVE SysclockInv'
  OBVIOUS
<1> USE DEF SysclockInv
<1> DEFINE c == Head(endpoint)
<1>1. /\ spc = "recv" /\ spc' = "serve" /\ serving' = c
      /\ slot' = IF IsSet(c) THEN [slot EXCEPT ![caller_ep] = c] ELSE slot
      /\ UNCHANGED <<time, mutex, tpc, cursor, schedule, reply, caller_ep,
                     signalled, cpc, creq, tid, sets, retired, nap>>
  BY DEF ServerRecv, timerVars, clientVars
<1>2. /\ endpoint \in Seq(Clients) /\ endpoint # << >>
      /\ endpoint' = Tail(endpoint)
  BY DEF ServerRecv, TypeOK
<1>3. /\ c \in Clients /\ c = endpoint[1] /\ 1 \in DOMAIN endpoint
      /\ endpoint' \in Seq(Clients)
      /\ DOMAIN endpoint' = 1 .. Len(endpoint) - 1
      /\ DOMAIN endpoint = 1 .. Len(endpoint) /\ Len(endpoint) \in Nat
      /\ \A i \in DOMAIN endpoint' :
           i + 1 \in DOMAIN endpoint /\ endpoint'[i] = endpoint[i + 1]
  BY <1>2, HeadTailProperties
<1> HIDE DEF c
<1>4. ~SlotUsed /\ SlotUsed' = SlotUsed /\ caller_ep \in SlotIds
  BY <1>1 DEF SlotUsed, TypeOK
<1>5. TypeOK'
  <2>1. slot' \in [SlotIds -> Clients \cup {None}]
    BY <1>1, <1>3, <1>4 DEF TypeOK
  <2> QED BY <1>1, <1>3, <2>1 DEF TypeOK
<1>6. UniqueIds' /\ RetiredNeverScheduled' /\ DeadlineInv'
  <2>1. \A i \in DOMAIN schedule : schedule[i].aep # caller_ep
    BY <1>4 DEF UniqueIds
  <2>2. \A i \in DOMAIN schedule : slot'[schedule[i].aep] = slot[schedule[i].aep]
    BY <1>1, <2>1 DEF TypeOK
  <2> QED BY <1>1, <1>4, <2>2 DEF UniqueIds, RetiredNeverScheduled, DeadlineInv
<1>7. QueueInv'
  BY <1>1, <1>3 DEF QueueInv
<1>8. ServingInv'
  BY <1>1, <1>3, <1>4 DEF ServingInv, QueueInv, IsSet, TypeOK
<1>9. IdsInv' /\ ScanInv'
  BY <1>1, <1>4 DEF IdsInv, ScanInv, Issued, Served, Due, Add
<1> QED BY <1>5, <1>6, <1>7, <1>8, <1>9

\* A SET_TIMEOUT adds an entry under an id that was never used before, or
\* changes nothing when the pool is full.
LEMMA ServeSetTimeoutInv == SysclockInv /\ ServeSetTimeout => SysclockInv'
<1> SUFFICES ASSUME SysclockInv, ServeSetTimeout PROVE SysclockInv'
  OBVIOUS
<1> USE DEF SysclockInv
<1>1. /\ spc = "serve" /\ spc' = "reply" /\ IsSet(serving) /\ mutex = None
      /\ UNCHANGED <<time, mutex, tpc, cursor, serving, caller_ep, slot,
                     endpoint, signalled, cpc, creq, tid, sets, retired>>
  BY DEF ServeSetTimeout, timerVars, clientVars
<1>2. /\ serving \in Clients /\ slot[caller_ep] = serving
      /\ caller_ep \in SlotIds /\ cpc[serving] = "call"
      /\ ~SlotUsed /\ SlotUsed' /\ tpc # "scan"
  BY <1>1 DEF ServingInv, TypeOK, SlotUsed, ScanInv, None, IsSet
<1>3. 1 \in 0 .. Word /\ Slots \in Nat
  BY WordAssumption, SlotsAssumption
<1>4. QueueInv' /\ ServingInv' /\ ScanInv'
  BY <1>1, <1>2 DEF QueueInv, ServingInv, ScanInv, IsSet
<1>5. CASE reply' = [mr0 |-> 1, mr1 |-> 0] /\ UNCHANGED <<schedule, nap>>
  <2>1. TypeOK'
    BY <1>1, <1>3, <1>5 DEF TypeOK
  <2>2. UniqueIds' /\ RetiredNeverScheduled' /\ DeadlineInv'
    BY <1>1, <1>2, <1>5 DEF UniqueIds, RetiredNeverScheduled, DeadlineInv
  <2>3. IdsInv'
    BY <1>1, <1>2, <1>3, <1>5 DEF IdsInv, Issued, SlotIds
  <2> QED BY <1>4, <2>1, <2>2, <2>3
<1>6. CASE ~PoolFull
  <2> DEFINE r == creq[serving]
             e == Entry(caller_ep, serving, r.periodic, r.ms)
  <2>1. /\ schedule' = Append(schedule, e)
        /\ reply' = [mr0 |-> 0, mr1 |-> caller_ep]
        /\ nap' = IF r.op = "sleep"
                  THEN [nap EXCEPT ![serving] =
                          [left |-> e.left, wraps |-> e.wraps]]
                  ELSE nap
    BY <1>6 DEF ServeSetTimeout
  <2>2. /\ e \in EntryType
        /\ e.aep = caller_ep /\ e.caller = serving
        /\ ~e.wraps => e.next_event = time + e.left
    <3>1. /\ time \in 0 .. Word - 1 /\ r.periodic \in BOOLEAN
          /\ r.ms \in Timeouts \cup {0}
      BY <1>2 DEF TypeOK
    <3> HIDE DEF r
    <3> QED BY <1>2, <3>1, EntryFacts
  <2> HIDE DEF e
  <2>3. /\ schedule \in Seq(EntryType)
        /\ schedule' \in Seq(EntryType)
        /\ DOMAIN schedule' = 1 .. Len(schedule) + 1
        /\ DOMAIN schedule = 1 .. Len(schedule) /\ Len(schedule) \in Nat
        /\ \A i \in DOMAIN schedule :
             i # Len(schedule) + 1 /\ schedule'[i] = schedule[i]
        /\ schedule'[Len(schedule) + 1] = e
    <3>1. schedule \in Seq(EntryType)
      BY DEF TypeOK
    <3> QED BY <2>1, <2>2, <3>1
  <2>4. \A i \in DOMAIN schedule' :
          \/ i \in DOMAIN schedule /\ schedule'[i] = schedule[i]
          \/ i = Len(schedule) + 1 /\ schedule'[i] = e
    BY <2>3
  <2>5. \A i \in DOMAIN schedule : schedule[i].aep # caller_ep
    BY <1>2 DEF UniqueIds
  <2>6. TypeOK'
    <3>1. nap' \in [Clients -> [left: 0 .. Word - 1, wraps: BOOLEAN]]
      <4>1. [left |-> e.left, wraps |-> e.wraps]
              \in [left: 0 .. Word - 1, wraps: BOOLEAN]
        BY <2>2 DEF EntryType
      <4> HIDE DEF r
      <4> QED BY <1>2, <2>1, <4>1 DEF TypeOK
    <3>2. reply' \in [mr0: 0 .. Word, mr1: {0} \cup SlotIds]
      BY <1>2, <1>3, <2>1, WordAssumption
    <3> HIDE DEF r
    <3> QED BY <1>1, <2>3, <3>1, <3>2 DEF TypeOK
  <2>7. UniqueIds'
    <3>1. \A i, j \in DOMAIN schedule' :
            schedule'[i].aep = schedule'[j].aep => i = j
      BY <2>2, <2>4, <2>5 DEF UniqueIds
    <3>2. \A i \in DOMAIN schedule' :
            /\ slot'[schedule'[i].aep] = schedule'[i].caller
            /\ schedule'[i].aep <= caller_ep'
            /\ schedule'[i].aep = caller_ep' => SlotUsed'
      BY <1>1, <1>2, <1>3, <2>2, <2>4 DEF UniqueIds, SlotIds
    <3> QED BY <3>1, <3>2 DEF UniqueIds
  <2>8. RetiredNeverScheduled'
    <3>1. caller_ep \notin retired
      BY <1>2 DEF IdsInv, Issued
    <3> QED BY <1>1, <2>2, <2>4, <3>1 DEF RetiredNeverScheduled
  <2>9. DeadlineInv'
    BY <1>1, <2>2, <2>4 DEF DeadlineInv
  <2>10. IdsInv'
    BY <1>1, <1>2, <1>3, <2>1 DEF IdsInv, Issued, SlotIds
  <2> QED BY <1>4, <2>6, <2>7, <2>8, <2>9, <2>10
<1> QED BY <1>5, <1>6 DEF ServeSetTimeout

\* A cancel takes out the entry with that id, if there is one; the id was
\* handed out before.
LEMMA ServeCancelTimeoutInv ==
  SysclockInv /\ ServeCancelTimeout => SysclockInv'
<1> SUFFICES ASSUME SysclockInv, ServeCancelTimeout PROVE SysclockInv'
  OBVIOUS
<1> USE DEF SysclockInv
<1> DEFINE id == creq[serving].id
<1>1. /\ spc = "serve" /\ spc' = "reply" /\ mutex = None
      /\ creq[serving].op = "cancel"
      /\ schedule' = FreeByAep(schedule, id)
      /\ retired' = retired \cup ({id} \ {0})
      /\ reply' = [mr0 |-> 1, mr1 |-> 0]
      /\ UNCHANGED <<time, mutex, tpc, cursor, serving, caller_ep, slot,
                     endpoint, signalled, cpc, creq, tid, sets, nap>>
  BY DEF ServeCancelTimeout, timerVars, clientVars
<1>2. /\ serving \in Clients /\ caller_ep \in SlotIds
      /\ ~SlotUsed /\ ~SlotUsed' /\ tpc # "scan"
      /\ id \in {0} \cup SlotIds /\ Issued(id)
  BY <1>1 DEF ServingInv, TypeOK, SlotUsed, ScanInv, None, IdsInv, IsSet,
                  SetOps
<1> HIDE DEF id
<1>3. 1 \in 0 .. Word /\ Slots \in Nat
  BY WordAssumption, SlotsAssumption
<1>4. QueueInv' /\ ServingInv' /\ ScanInv'
  BY <1>1, <1>2 DEF QueueInv, ServingInv, ScanInv, IsSet
<1>5. IdsInv'
  BY <1>1, <1>2, <1>3 DEF IdsInv, Issued, SlotIds
<1>6. schedule \in Seq(EntryType)
  BY DEF TypeOK
<1>7. \/ /\ \A i \in DOMAIN schedule : schedule[i].aep # id
         /\ schedule' = schedule
      \/ \E k \in 1 .. Len(schedule) :
           schedule[k].aep = id /\ schedule' = RemoveAt(schedule, k)
  <2>1. \A i, j \in DOMAIN schedule : schedule[i].aep = schedule[j].aep => i = j
    BY DEF UniqueIds
  <2> QED BY <1>1, <1>6, <2>1, FreeByAepFacts
<1>8. /\ schedule' \in Seq(EntryType)
      /\ UniqueIds'
      /\ DeadlineInv'
      /\ \A i \in DOMAIN schedule' :
           /\ schedule'[i].aep # id
           /\ \E j \in DOMAIN schedule : schedule'[i] = schedule[j]
  <2>1. CASE /\ \A i \in DOMAIN schedule : schedule[i].aep # id
             /\ schedule' = schedule
    BY <1>1, <1>2, <1>6, <2>1 DEF UniqueIds, DeadlineInv
  <2>2. CASE \E k \in 1 .. Len(schedule) :
               schedule[k].aep = id /\ schedule' = RemoveAt(schedule, k)
    <3>1. PICK k \in DOMAIN schedule :
                 schedule[k].aep = id /\ schedule' = RemoveAt(schedule, k)
      BY <1>6, <2>2
    <3>2. UNCHANGED <<slot, caller_ep, time>>
      BY <1>1
    <3>3. /\ schedule' \in Seq(EntryType)
          /\ UniqueIds'
          /\ DeadlineInv'
          /\ \A i \in DOMAIN schedule' :
               /\ schedule'[i] = IF i < k THEN schedule[i] ELSE schedule[i + 1]
               /\ (IF i < k THEN i ELSE i + 1) \in DOMAIN schedule
               /\ schedule'[i].aep # schedule[k].aep
      BY <1>2, <3>1, <3>2, RemovalInv
    <3> QED BY <3>1, <3>3
  <2> QED BY <1>7, <2>1, <2>2
<1>9. TypeOK'
  <2>1. retired' \subseteq SlotIds
    BY <1>1, <1>2 DEF TypeOK
  <2> QED BY <1>1, <1>3, <1>8, <2>1 DEF TypeOK
<1>10. RetiredNeverScheduled'
  BY <1>1, <1>8 DEF RetiredNeverScheduled
<1> QED BY <1>4, <1>5, <1>8, <1>9, <1>10

\* A reading of the clock changes nothing the invariant speaks of.
LEMMA ServeGetTimeInv == SysclockInv /\ ServeGetTime => SysclockInv'
<1> SUFFICES ASSUME SysclockInv, ServeGetTime PROVE SysclockInv'
  OBVIOUS
<1> USE DEF SysclockInv, ServeGetTime, timerVars, clientVars
<1>1. TypeOK'
  BY WordAssumption DEF TypeOK
<1>s. ~SlotUsed /\ ~SlotUsed'
  BY DEF SlotUsed, IsSet, SetOps
<1>2. UniqueIds' /\ RetiredNeverScheduled' /\ DeadlineInv'
  BY <1>s DEF UniqueIds, RetiredNeverScheduled, DeadlineInv
<1>3. QueueInv' /\ ServingInv' /\ ScanInv'
  BY DEF QueueInv, ServingInv, ScanInv, IsSet, Served, Due, Add
<1>4. IdsInv'
  BY <1>s, SlotsAssumption DEF IdsInv, Issued, TypeOK, SlotIds
<1> QED BY <1>1, <1>2, <1>3, <1>4

\* The reply ends the call of the client that was served, and of no other.
LEMMA ServerReplyInv == SysclockInv /\ ServerReply => SysclockInv'
<1> SUFFICES ASSUME SysclockInv, ServerReply PROVE SysclockInv'
  OBVIOUS
<1> USE DEF SysclockInv
<1>1. /\ spc = "reply" /\ serving' = None
      /\ spc' = IF IsSet(serving) THEN "slot" ELSE "recv"
      /\ cpc' = [cpc EXCEPT ![serving] = AfterReply(serving)]
      /\ creq' = [creq EXCEPT ![serving] = NoRequest]
      /\ tid' = IF IsSet(serving)
                THEN [tid EXCEPT ![serving] = reply.mr1] ELSE tid
      /\ reply' = [mr0 |-> 0, mr1 |-> 0]
      /\ UNCHANGED <<time, mutex, tpc, cursor, schedule, caller_ep, slot,
                     endpoint, signalled, sets, retired, nap>>
  BY DEF ServerReply, timerVars
<1>2. /\ serving \in Clients /\ caller_ep \in SlotIds /\ Slots \in Nat
      /\ reply.mr1 \in {0} \cup SlotIds /\ reply.mr1 <= caller_ep
      /\ AfterReply(serving) \in ClientStates
      /\ spc' \in {"slot", "recv"}
  BY <1>1, SlotsAssumption
     DEF ServingInv, TypeOK, IdsInv, AfterReply, ClientStates, IsSet
<1>3. SlotUsed' <=> IsSet(serving)
  BY <1>1 DEF SlotUsed
<1>4. TypeOK'
  <2>1. cpc' \in [Clients -> ClientStates]
    BY <1>1, <1>2 DEF TypeOK
  <2>2. NoRequest \in [op: AllOps, periodic: BOOLEAN, ms: Timeouts \cup {0},
                       id: {0} \cup SlotIds]
    BY DEF NoRequest, Request, AllOps
  <2>3. creq' \in [Clients -> [op: AllOps, periodic: BOOLEAN,
                               ms: Timeouts \cup {0}, id: {0} \cup SlotIds]]
    BY <1>1, <2>2 DEF TypeOK
  <2>4. tid' \in [Clients -> {0} \cup SlotIds]
    BY <1>1, <1>2 DEF TypeOK
  <2>5. reply' \in [mr0: 0 .. Word, mr1: {0} \cup SlotIds]
    BY <1>1, WordAssumption
  <2> QED BY <1>1, <1>2, <2>1, <2>3, <2>4, <2>5 DEF TypeOK
<1>5. SlotUsed <=> IsSet(serving)
  BY <1>1 DEF SlotUsed
<1>6. UniqueIds' /\ RetiredNeverScheduled' /\ DeadlineInv' /\ ScanInv'
  BY <1>1, <1>3, <1>5 DEF UniqueIds, RetiredNeverScheduled, DeadlineInv,
                          ScanInv, Served, Due, Add
<1>7. QueueInv' /\ ServingInv'
  BY <1>1, <1>2 DEF QueueInv, ServingInv, TypeOK
<1>8. IdsInv'
  <2>1. \A id : Issued(id)' <=> Issued(id)
    BY <1>1, <1>3, <1>5 DEF Issued
  <2>2. \A c \in Clients : Issued(tid'[c])
    <3>1. IsSet(serving) => Issued(reply.mr1)
      BY <1>2, <1>5 DEF Issued
    <3> QED BY <1>1, <1>2, <3>1 DEF IdsInv, TypeOK
  <2>3. \A c \in Clients : Issued(creq'[c].id)
    <3>1. Issued(0)
      BY <1>2 DEF Issued, SlotIds
    <3> QED BY <1>1, <3>1 DEF IdsInv, NoRequest, Request, TypeOK
  <2>4. spc' # "reply"
    BY <1>2
  <2> QED BY <1>1, <1>3, <1>5, <2>2, <2>3, <2>4 DEF IdsInv, Issued
<1> QED BY <1>4, <1>6, <1>7, <1>8

\* A new receive slot is one no entry, client or retired id refers to.
LEMMA ServerNewSlotInv == SysclockInv /\ ServerNewSlot => SysclockInv'
<1> SUFFICES ASSUME SysclockInv, ServerNewSlot PROVE SysclockInv'
  OBVIOUS
<1> USE DEF SysclockInv
<1>1. /\ spc = "slot" /\ caller_ep \in SlotIds /\ Slots \in Nat
      /\ UNCHANGED <<time, mutex, tpc, cursor, schedule, serving, reply, slot,
                     endpoint, signalled, cpc, creq, tid, sets, retired, nap>>
  BY SlotsAssumption DEF ServerNewSlot, timerVars, clientVars, TypeOK
<1>2. \/ caller_ep' = caller_ep + 1 /\ caller_ep < Slots /\ spc' = "recv"
      \/ caller_ep' = caller_ep /\ spc' = "aborted"
  BY DEF ServerNewSlot
<1>3. TypeOK'
  <2>1. caller_ep' \in SlotIds /\ spc' \in {"recv", "aborted"}
    BY <1>1, <1>2 DEF SlotIds
  <2> QED BY <1>1, <2>1 DEF TypeOK
<1>4. \A id \in Int : id <= caller_ep =>
                         id <= caller_ep' /\ (id = caller_ep' => SlotUsed')
  BY <1>1, <1>2 DEF SlotUsed, SlotIds
<1>5. UniqueIds'
  <2>1. \A i \in DOMAIN schedule : schedule[i].aep \in Int
    <3>1. \A i \in DOMAIN schedule : schedule[i] \in EntryType
      BY DEF TypeOK
    <3> QED BY <1>1, <3>1 DEF EntryType, SlotIds
  <2> QED BY <1>1, <1>4, <2>1 DEF UniqueIds
<1>6. RetiredNeverScheduled' /\ DeadlineInv' /\ ScanInv'
  BY <1>1 DEF RetiredNeverScheduled, DeadlineInv, ScanInv, Served, Due, Add
<1>7. QueueInv' /\ ServingInv'
  BY <1>1, <1>2 DEF QueueInv, ServingInv
<1>8. IdsInv'
  <2>1. /\ \A c \in Clients : tid[c] \in Int /\ creq[c].id \in Int
        /\ \A id \in retired : id \in Int
    BY DEF TypeOK, SlotIds
  <2> QED BY <1>1, <1>2, <1>4, <2>1 DEF IdsInv, Issued
<1> QED BY <1>3, <1>5, <1>6, <1>7, <1>8

\* A call queues a client that was neither queued nor being served.
LEMMA CallInv ==
  ASSUME SysclockInv, NEW c \in Clients, cpc[c] \in {"run", "docancel"},
         NEW r \in [op: AllOps, periodic: BOOLEAN, ms: Timeouts \cup {0},
                    id: {0} \cup SlotIds],
         Issued(r.id), Call(c, r), sets' \in 0 .. MaxSets
  PROVE  SysclockInv'
<1> USE DEF SysclockInv
<1>1. /\ cpc' = [cpc EXCEPT ![c] = "call"]
      /\ creq' = [creq EXCEPT ![c] = r]
      /\ endpoint' = Append(endpoint, c)
      /\ UNCHANGED <<time, mutex, tpc, cursor, schedule, spc, serving, reply,
                     caller_ep, slot, signalled, tid, retired, nap>>
  BY DEF Call, timerVars, serverVars
<1>2. endpoint \in Seq(Clients) /\ cpc \in [Clients -> ClientStates]
  BY DEF TypeOK
<1>3. /\ endpoint' \in Seq(Clients)
      /\ \A i \in DOMAIN endpoint' :
           \/ /\ i \in DOMAIN endpoint /\ endpoint'[i] = endpoint[i]
              /\ i # Len(endpoint) + 1
           \/ i = Len(endpoint) + 1 /\ endpoint'[i] = c
  BY <1>1, <1>2
<1>4. \A i \in DOMAIN endpoint : endpoint[i] # c /\ endpoint[i] \in Clients
  BY <1>2 DEF QueueInv
<1>5. spc \in {"serve", "reply"} => serving # c /\ serving \in Clients
  BY DEF ServingInv
<1>6. (spc \in {"serve", "reply"} => (IsSet(serving)' <=> IsSet(serving)))
      /\ (SlotUsed' <=> SlotUsed)
  <2>1. spc \in {"serve", "reply"} => (IsSet(serving)' <=> IsSet(serving))
    BY <1>1, <1>5 DEF IsSet, TypeOK
  <2> QED BY <1>1, <2>1 DEF SlotUsed
<1>7. TypeOK'
  <2>1. cpc' \in [Clients -> ClientStates]
    BY <1>1, <1>2 DEF ClientStates
  <2>2. creq' \in [Clients -> [op: AllOps, periodic: BOOLEAN,
                               ms: Timeouts \cup {0}, id: {0} \cup SlotIds]]
    BY <1>1 DEF TypeOK
  <2> QED BY <1>1, <1>3, <2>1, <2>2 DEF TypeOK
<1>8. UniqueIds' /\ RetiredNeverScheduled' /\ DeadlineInv' /\ ScanInv'
  BY <1>1, <1>6 DEF UniqueIds, RetiredNeverScheduled, DeadlineInv, ScanInv,
                    Served, Due, Add
<1>9. QueueInv'
  <2>1. \A i \in DOMAIN endpoint' : cpc'[endpoint'[i]] = "call"
    BY <1>1, <1>2, <1>3, <1>4 DEF QueueInv
  <2>2. \A i, j \in DOMAIN endpoint' : endpoint'[i] = endpoint'[j] => i = j
    BY <1>3, <1>4 DEF QueueInv
  <2>3. spc' \in {"serve", "reply"} =>
          \A i \in DOMAIN endpoint' : endpoint'[i] # serving'
    BY <1>1, <1>3, <1>5 DEF QueueInv
  <2> QED BY <2>1, <2>2, <2>3 DEF QueueInv
<1>10. ServingInv'
  BY <1>1, <1>2, <1>5, <1>6 DEF ServingInv
<1>11. IdsInv'
  <2>1. \A d \in Clients : Issued(creq'[d].id)
    BY <1>1 DEF IdsInv, TypeOK
  <2> QED BY <1>1, <1>6, <2>1 DEF IdsInv, Issued
<1> QED BY <1>7, <1>8, <1>9, <1>10, <1>11

\* Waiting consumes a pending signal or blocks the client.
LEMMA WaitInv ==
  ASSUME SysclockInv, NEW c \in Clients, cpc[c] \in {"run", "nap"},
         NEW state \in Blocked, Wait(c, state)
  PROVE  SysclockInv'
<1> USE DEF SysclockInv
<1>1. UNCHANGED <<time, mutex, tpc, cursor, schedule, spc, serving, reply,
                  caller_ep, slot, endpoint, creq, tid, sets, retired, nap>>
  BY DEF Wait, timerVars, serverVars, clientVars
<1>2. /\ cpc' \in [Clients -> ClientStates]
      /\ signalled' \in [Clients -> BOOLEAN]
      /\ \A d \in Clients : cpc[d] = "call" => cpc'[d] = "call"
  BY ZenonT(30) DEF Wait, TypeOK, ClientStates, Resume
<1>3. TypeOK'
  BY <1>1, <1>2 DEF TypeOK
<1>4. UniqueIds' /\ RetiredNeverScheduled' /\ DeadlineInv' /\ ScanInv' /\ IdsInv'
  BY <1>1 DEF UniqueIds, RetiredNeverScheduled, DeadlineInv, ScanInv, IdsInv,
              Served, Due, Add, Issued, SlotUsed, IsSet
<1>5. QueueInv' /\ ServingInv'
  <2>1. \A i \in DOMAIN endpoint : endpoint[i] \in Clients
    BY DEF TypeOK
  <2> QED BY <1>1, <1>2, <2>1 DEF QueueInv, ServingInv, IsSet
<1> QED BY <1>3, <1>4, <1>5

\* Every step of a client preserves the invariant.
LEMMA ClientInv ==
  ASSUME SysclockInv, NEW c \in Clients, ClientNext(c)
  PROVE  SysclockInv'
<1> USE DEF SysclockInv
<1>1. /\ Issued(0) /\ Issued(tid[c]) /\ tid[c] \in {0} \cup SlotIds
      /\ sets \in 0 .. MaxSets /\ MaxSets \in Nat
  BY SlotsAssumption, SetsAssumption DEF IdsInv, TypeOK, Issued, SlotIds
<1>2. ASSUME NEW op \in AllOps, NEW periodic \in BOOLEAN, NEW ms \in Timeouts,
             ScheduleTimeout(c, op, periodic, ms)
      PROVE  SysclockInv'
  <2> DEFINE r == Request(op, periodic, ms, 0)
  <2>1. /\ r \in [op: AllOps, periodic: BOOLEAN, ms: Timeouts \cup {0},
                  id: {0} \cup SlotIds]
        /\ r.id = 0
    BY DEF Request
  <2>2. cpc[c] = "run" /\ Call(c, r) /\ sets' \in 0 .. MaxSets
    BY <1>1, <1>2 DEF ScheduleTimeout
  <2> HIDE DEF r
  <2> QED BY <1>1, <2>1, <2>2, CallInv
<1>3. CASE ClientSchedule(c)
  BY <1>2, <1>3 DEF ClientSchedule, AllOps
<1>4. CASE ThreadSleep(c)
  BY <1>2, <1>4 DEF ThreadSleep, AllOps
<1>5. CASE CancelTimeout(c)
  <2> DEFINE r == Request("cancel", FALSE, 0, tid[c])
  <2>1. /\ r \in [op: AllOps, periodic: BOOLEAN, ms: Timeouts \cup {0},
                  id: {0} \cup SlotIds]
        /\ r.id = tid[c]
    BY <1>1 DEF Request, AllOps
  <2>2. cpc[c] \in {"run", "docancel"} /\ Call(c, r) /\ sets' = sets
    BY <1>5 DEF CancelTimeout
  <2> HIDE DEF r
  <2> QED BY <1>1, <2>1, <2>2, CallInv
<1>6. CASE GetTime(c)
  <2> DEFINE r == Request("time", FALSE, 0, 0)
  <2>1. /\ r \in [op: AllOps, periodic: BOOLEAN, ms: Timeouts \cup {0},
                  id: {0} \cup SlotIds]
        /\ r.id = 0
    BY DEF Request, AllOps
  <2>2. cpc[c] = "run" /\ Call(c, r) /\ sets' = sets
    BY <1>6 DEF GetTime
  <2> HIDE DEF r
  <2> QED BY <1>1, <2>1, <2>2, CallInv
<1>7. CASE WaitForTimeout(c)
  BY <1>7, WaitInv DEF WaitForTimeout, Blocked
<1>8. CASE SleepWait(c)
  BY <1>8, WaitInv DEF SleepWait, Blocked
<1> QED BY <1>3, <1>4, <1>5, <1>6, <1>7, <1>8 DEF ClientNext

\* A due entry whose deadline did not overflow has waited its timeout.
LEMMA EarlyFact == SysclockInv => DueMeansElapsed
<1> SUFFICES ASSUME SysclockInv, NEW i \in DOMAIN schedule,
                    Due(schedule[i]), ~schedule[i].wraps
             PROVE  schedule[i].left = 0
  BY DEF DueMeansElapsed
<1>1. schedule[i] \in EntryType /\ time \in 0 .. Word - 1
  BY DEF SysclockInv, TypeOK
<1>2. /\ schedule[i].left \in 0 .. Word - 1
      /\ schedule[i].next_event <= time
  BY <1>1 DEF EntryType, Due
<1>3. schedule[i].left = 0 \/ schedule[i].next_event = time + schedule[i].left
  BY DEF SysclockInv, DeadlineInv
<1> QED BY <1>1, <1>2, <1>3, WordAssumption

\* SysclockInv is inductive.
LEMMA StepInv == SysclockInv /\ [Next]_vars => SysclockInv'
<1> SUFFICES ASSUME SysclockInv, [Next]_vars PROVE SysclockInv'
  OBVIOUS
<1>1. CASE TimerNext
  BY <1>1, TimerTickInv, TimerLockInv, TimerScanInv, TimerUnlockInv
     DEF TimerNext
<1>2. CASE ServerNext
  BY <1>2, ServerRecvInv, ServeSetTimeoutInv, ServeCancelTimeoutInv,
     ServeGetTimeInv, ServerReplyInv, ServerNewSlotInv DEF ServerNext
<1>3. CASE \E c \in Clients : ClientNext(c)
  BY <1>3, ClientInv
<1>4. CASE UNCHANGED vars
  BY <1>4 DEF vars, timerVars, serverVars, clientVars, SysclockInv, TypeOK,
     UniqueIds, RetiredNeverScheduled, QueueInv, ServingInv, IdsInv, ScanInv,
     DeadlineInv, Served, Due, Add, Issued, SlotUsed, IsSet
<1> QED BY <1>1, <1>2, <1>3, <1>4 DEF Next

-----------------------------------------------------------------------------
(* What leaves the schedule.                                               *)

\* simple_pool_free takes out the entry it was called for and nothing else.
LEMMA FreeLeaves ==
  ASSUME SysclockInv, NEW a, schedule' = FreeByAep(schedule, a),
         NEW id \in SlotIds, Scheduled(id), ~Scheduled(id)'
  PROVE  id = a /\ Len(schedule') = Len(schedule) - 1
<1>1. /\ schedule \in Seq(EntryType)
      /\ DOMAIN schedule = 1 .. Len(schedule)
      /\ Len(schedule) \in Nat
      /\ \A i, j \in DOMAIN schedule : schedule[i].aep = schedule[j].aep => i = j
  BY DEF SysclockInv, TypeOK, UniqueIds
<1>2. schedule' # schedule
  BY DEF Scheduled
<1>3. PICK k \in 1 .. Len(schedule) :
        schedule[k].aep = a /\ schedule' = RemoveAt(schedule, k)
  BY <1>1, <1>2, FreeByAepFacts
<1>4. /\ schedule' \in Seq(EntryType)
      /\ Len(schedule') = Len(schedule) - 1
      /\ \A i \in 1 .. Len(schedule) - 1 :
           schedule'[i] = IF i < k THEN schedule[i] ELSE schedule[i + 1]
  <2>1. schedule \in Seq(EntryType)
    BY <1>1
  <2> QED BY <1>3, <2>1, RemoveAtFacts
<1>5. PICK i \in 1 .. Len(schedule) : schedule[i].aep = id
  BY <1>1 DEF Scheduled
<1>6. \A j \in 1 .. Len(schedule) - 1 : schedule'[j].aep # id
  BY <1>4 DEF Scheduled
<1>7. i = k
  <2>1. CASE i < k
    <3>1. i \in 1 .. Len(schedule) - 1 /\ schedule'[i] = schedule[i]
      BY <1>1, <1>4, <2>1
    <3> QED BY <1>5, <1>6, <3>1
  <2>2. CASE i > k
    <3>1. /\ i - 1 \in 1 .. Len(schedule) - 1
          /\ schedule'[i - 1] = schedule[(i - 1) + 1]
          /\ (i - 1) + 1 = i
      BY <1>1, <1>4, <2>2
    <3> QED BY <1>5, <1>6, <3>1
  <2> QED BY <2>1, <2>2
<1> QED BY <1>3, <1>4, <1>5, <1>7

\* A timeout leaves the schedule in a step that retires it, and alone.
LEMMA StepLeaves ==
  ASSUME SysclockInv, [Next]_vars, NEW id \in SlotIds,
         Scheduled(id), ~Scheduled(id)'
  PROVE  id \in retired' \ retired /\ Len(schedule') = Len(schedule) - 1
<1>1. id \notin retired
  BY DEF SysclockInv, RetiredNeverScheduled, Scheduled
<1>2. schedule' # schedule
  BY DEF Scheduled
<1>3. schedule \in Seq(EntryType) /\ DOMAIN schedule = 1 .. Len(schedule)
      /\ Len(schedule) \in Nat
  BY DEF SysclockInv, TypeOK
<1>4. PICK i \in DOMAIN schedule : schedule[i].aep = id
  BY DEF Scheduled
<1>5. CASE TimerTick
  <2>1. /\ DOMAIN schedule' = DOMAIN schedule
        /\ schedule'[i] = [schedule[i] EXCEPT !.left = Elapse(@)]
    BY <1>5 DEF TimerTick
  <2>2. schedule[i] \in EntryType
    BY <1>3
  <2>3. schedule'[i].aep = schedule[i].aep
    BY <2>1, <2>2 DEF EntryType
  <2> QED BY <1>4, <2>1, <2>3 DEF Scheduled
<1>6. CASE TimerScan
  <2> DEFINE e == schedule[cursor]
  <2>1. cursor \in DOMAIN schedule
    BY <1>3, <1>6 DEF TimerScan, SysclockInv, TypeOK
  <2>2. CASE /\ Due(e) /\ e.periodic
             /\ schedule' = [schedule EXCEPT ![cursor] =
                               Entry(e.aep, e.caller, e.periodic, e.period)]
    <3>1. DOMAIN schedule' = DOMAIN schedule
      BY <2>2
    <3>2. schedule'[i].aep = schedule[i].aep
      <4>1. CASE i = cursor
        BY <1>4, <2>1, <2>2, <4>1 DEF Entry
      <4>2. CASE i # cursor
        BY <1>4, <2>1, <2>2, <4>2
      <4> QED BY <4>1, <4>2
    <3> QED BY <1>4, <3>1, <3>2 DEF Scheduled
  <2>3. CASE /\ schedule' = FreeByAep(schedule, e.aep)
             /\ retired' = retired \cup {e.aep}
    BY <1>1, <2>3, FreeLeaves
  <2> QED BY <1>2, <1>6, <2>2, <2>3 DEF TimerScan
<1>7. CASE ServeSetTimeout
  <2>1. PICK x : schedule' = Append(schedule, x)
    BY <1>2, <1>7 DEF ServeSetTimeout
  <2>2. /\ DOMAIN schedule' = 1 .. Len(schedule) + 1
        /\ schedule'[i] = schedule[i]
        /\ i \in 1 .. Len(schedule) + 1
    BY <1>3, <1>4, <2>1
  <2> QED BY <1>4, <2>2 DEF Scheduled
<1>8. CASE ServeCancelTimeout
  <2> DEFINE r == creq[serving].id
  <2>1. /\ schedule' = FreeByAep(schedule, r)
        /\ retired' = retired \cup ({r} \ {0})
    BY <1>8 DEF ServeCancelTimeout
  <2>2. id = r /\ Len(schedule') = Len(schedule) - 1
    BY <2>1, FreeLeaves
  <2>3. id # 0
    BY SlotsAssumption DEF SlotIds
  <2> QED BY <1>1, <2>1, <2>2, <2>3
<1>9. CASE TimerLock \/ TimerUnlock \/ ServerRecv \/ ServeGetTime
           \/ ServerReply \/ ServerNewSlot
  BY <1>2, <1>9 DEF TimerLock, TimerUnlock, ServerRecv, ServeGetTime,
     ServerReply, ServerNewSlot
<1>10. CASE \E c \in Clients : ClientNext(c)
  BY <1>2, <1>10 DEF ClientNext, ClientSchedule, ThreadSleep, CancelTimeout,
     GetTime, WaitForTimeout, SleepWait, ScheduleTimeout, Call, Wait
<1>11. CASE UNCHANGED vars
  BY <1>2, <1>11 DEF vars
<1> QED BY <1>5, <1>6, <1>7, <1>8, <1>9, <1>10, <1>11
        DEF Next, TimerNext, ServerNext

-----------------------------------------------------------------------------
(* A sleep does not end early.                                             *)

SleepOps == {"sleep", "cancel", "time"}

\* Client c has scheduled the timeout of a sleep and not yet got its signal.
Awaiting(c) ==
  \/ cpc[c] \in {"nap", "sleep"}
  \/ spc = "reply" /\ serving = c /\ creq[c].op = "sleep" /\ reply.mr0 = 0

\* Clients make no other requests, and sleep with one-shot timeouts.
SleepTypes ==
  \A c \in Clients :
    /\ creq[c].op \in SleepOps
    /\ creq[c].op = "sleep" => ~creq[c].periodic
    /\ cpc[c] \notin {"wait", "waitcancel", "docancel"}

\* A pending signal is that of the sleep the client is in, whose time is over.
\* In particular none is left from a sleep before.
PendingInv ==
  \A c \in Clients : signalled[c] =>
    /\ Awaiting(c)
    /\ cpc[c] # "sleep"
    /\ nap[c].wraps \/ nap[c].left = 0

\* An entry of the schedule belongs to the sleep its client is in.
PendingEntry(e) ==
  /\ ~e.periodic
  /\ Awaiting(e.caller)
  /\ ~signalled[e.caller]
  /\ e.left = nap[e.caller].left
  /\ e.wraps = nap[e.caller].wraps

EntriesInv ==
  /\ \A i \in DOMAIN schedule : PendingEntry(schedule[i])
  /\ \A i, j \in DOMAIN schedule :
       schedule[i].caller = schedule[j].caller => i = j

SleepInv == SleepTypes /\ PendingInv /\ EntriesInv

\* With an entry taken out, the others are still there, once each.
LEMMA FewerEntries ==
  ASSUME SysclockInv, NEW k \in DOMAIN schedule,
         schedule' = RemoveAt(schedule, k), EntriesInv
  PROVE  /\ \A i \in DOMAIN schedule' : \E j \in DOMAIN schedule :
              j # k /\ schedule'[i] = schedule[j]
         /\ \A i, j \in DOMAIN schedule' :
              schedule'[i].caller = schedule'[j].caller => i = j
<1>1. schedule \in Seq(EntryType) /\ k \in 1 .. Len(schedule)
  BY DEF SysclockInv, TypeOK
<1>2. /\ schedule' \in Seq(EntryType)
      /\ Len(schedule') = Len(schedule) - 1
      /\ \A i \in 1 .. Len(schedule) - 1 :
           schedule'[i] = IF i < k THEN schedule[i] ELSE schedule[i + 1]
  BY <1>1, RemoveAtFacts
<1>3. /\ DOMAIN schedule' = 1 .. Len(schedule) - 1
      /\ DOMAIN schedule = 1 .. Len(schedule)
      /\ Len(schedule) \in Nat
  BY <1>1, <1>2
<1> DEFINE old(i) == IF i < k THEN i ELSE i + 1
<1>4. \A i \in DOMAIN schedule' :
        /\ old(i) \in DOMAIN schedule /\ old(i) # k
        /\ schedule'[i] = schedule[old(i)]
  BY <1>1, <1>2, <1>3
<1>5. \A i, j \in DOMAIN schedule' : old(i) = old(j) => i = j
  BY <1>1, <1>3
<1> HIDE DEF old
<1> QED BY <1>4, <1>5 DEF EntriesInv

\* The same for simple_pool_free, which may find nothing.
LEMMA FreeEntries ==
  ASSUME SysclockInv, EntriesInv, NEW a, schedule' = FreeByAep(schedule, a)
  PROVE  /\ \A i \in DOMAIN schedule' : \E j \in DOMAIN schedule :
              schedule[j].aep # a /\ schedule'[i] = schedule[j]
         /\ \A i, j \in DOMAIN schedule' :
              schedule'[i].caller = schedule'[j].caller => i = j
<1>1. /\ schedule \in Seq(EntryType)
      /\ DOMAIN schedule = 1 .. Len(schedule)
      /\ \A i, j \in DOMAIN schedule : schedule[i].aep = schedule[j].aep => i = j
  BY DEF SysclockInv, TypeOK, UniqueIds
<1>2. CASE /\ \A i \in DOMAIN schedule : schedule[i].aep # a
           /\ schedule' = schedule
  BY <1>2 DEF EntriesInv
<1>3. ASSUME NEW k \in 1 .. Len(schedule),
             schedule[k].aep = a, schedule' = RemoveAt(schedule, k)
      PROVE  /\ \A i \in DOMAIN schedule' : \E j \in DOMAIN schedule :
                  schedule[j].aep # a /\ schedule'[i] = schedule[j]
             /\ \A i, j \in DOMAIN schedule' :
                  schedule'[i].caller = schedule'[j].caller => i = j
  <2>1. k \in DOMAIN schedule
    BY <1>1
  <2>2. /\ \A i \in DOMAIN schedule' : \E j \in DOMAIN schedule :
              j # k /\ schedule'[i] = schedule[j]
        /\ \A i, j \in DOMAIN schedule' :
              schedule'[i].caller = schedule'[j].caller => i = j
    BY <1>3, <2>1, FewerEntries
  <2> QED BY <1>1, <1>3, <2>1, <2>2
<1> QED BY <1>1, <1>2, <1>3, FreeByAepFacts

\* Entries belong to clients.
LEMMA CallersFact ==
  ASSUME SysclockInv
  PROVE  \A i \in DOMAIN schedule : schedule[i].caller \in Clients
<1>1. schedule \in Seq(EntryType)
  BY DEF SysclockInv, TypeOK
<1>2. \A i \in DOMAIN schedule : schedule[i] \in EntryType
  BY <1>1
<1> QED BY <1>2 DEF EntryType

\* Nobody sleeps at the beginning.
LEMMA SleepInit == Init => SleepInv
  BY DEF Init, SleepInv, SleepTypes, PendingInv, EntriesInv, NoRequest, Request,
     SleepOps

\* A tick shortens a sleep and its entry alike.
LEMMA SleepTick ==
  ASSUME SysclockInv, SleepInv, TimerTick
  PROVE  SleepInv'
<1>1. /\ nap \in [Clients -> [left: 0 .. Word - 1, wraps: BOOLEAN]]
      /\ schedule \in Seq(EntryType)
      /\ signalled \in [Clients -> BOOLEAN]
  BY DEF SysclockInv, TypeOK
<1>2. UNCHANGED <<cpc, spc, serving, creq, reply, signalled>>
  BY DEF TimerTick, serverVars, clientVars
<1>3. \A c \in Clients : /\ nap'[c].left = Elapse(nap[c].left)
                         /\ nap'[c].wraps = nap[c].wraps
  BY <1>1 DEF TimerTick
<1>4. SleepTypes'
  BY <1>2 DEF SleepInv, SleepTypes
<1>5. PendingInv'
  <2>1. Elapse(0) = 0
    BY PeriodAssumption, WordAssumption DEF Elapse
  <2>2. \A c \in Clients : signalled[c] => nap'[c].wraps \/ nap'[c].left = 0
    BY <1>3, <2>1 DEF SleepInv, PendingInv
  <2> QED BY <1>2, <2>2 DEF SleepInv, PendingInv, Awaiting
<1>6. /\ DOMAIN schedule' = DOMAIN schedule
      /\ \A i \in DOMAIN schedule :
           /\ schedule[i] \in EntryType
           /\ schedule'[i] = [schedule[i] EXCEPT !.left = Elapse(@)]
  BY <1>1 DEF TimerTick
<1>7. \A i \in DOMAIN schedule :
        /\ schedule'[i].caller = schedule[i].caller
        /\ schedule'[i].periodic = schedule[i].periodic
        /\ schedule'[i].wraps = schedule[i].wraps
        /\ schedule'[i].left = Elapse(schedule[i].left)
        /\ schedule[i].caller \in Clients
  BY <1>6 DEF EntryType
<1>8. ASSUME NEW i \in DOMAIN schedule
      PROVE  PendingEntry(schedule[i])'
  <2>1. PendingEntry(schedule[i])
    BY DEF SleepInv, EntriesInv
  <2> QED BY <1>2, <1>3, <1>7, <2>1 DEF PendingEntry, Awaiting
<1>9. EntriesInv'
  BY <1>6, <1>7, <1>8 DEF SleepInv, EntriesInv
<1> QED BY <1>4, <1>5, <1>9 DEF SleepInv

\* One entry of the walk: a sleeper whose entry fires has slept its time.
LEMMA SleepScan ==
  ASSUME SysclockInv, SleepInv, TimerScan
  PROVE  SleepInv'
<1> DEFINE e == schedule[cursor]
<1>1. /\ UNCHANGED <<spc, serving, creq, reply, nap, time>>
      /\ cursor \in DOMAIN schedule
      /\ signalled \in [Clients -> BOOLEAN]
      /\ cpc \in [Clients -> ClientStates]
      /\ nap \in [Clients -> [left: 0 .. Word - 1, wraps: BOOLEAN]]
      /\ \A i \in DOMAIN schedule : schedule[i] \in EntryType
  BY DEF TimerScan, serverVars, clientVars, SysclockInv, TypeOK
<1>2. PendingEntry(e)
  BY <1>1 DEF SleepInv, EntriesInv
<1>3. CASE /\ ~Due(e)
           /\ UNCHANGED <<schedule, signalled, cpc, retired>>
  BY <1>1, <1>3 DEF SleepInv, SleepTypes, PendingInv, EntriesInv, PendingEntry, Awaiting
<1>4. CASE /\ Due(e)
           /\ Signal(slot[e.aep])
           /\ schedule' = FreeByAep(schedule, e.aep)
  <2> DEFINE c == e.caller
  <2>1. slot[e.aep] = c /\ c \in Clients
    BY <1>1 DEF SysclockInv, UniqueIds, EntryType
  <2>2. nap[c].wraps \/ nap[c].left = 0
    BY <1>1, <1>2, <1>4, EarlyFact DEF PendingEntry, DueMeansElapsed
  <2>3. /\ \A d \in Clients \ {c} : cpc'[d] = cpc[d] /\ signalled'[d] = signalled[d]
        /\ cpc[c] = "sleep" => cpc'[c] = "run" /\ ~signalled'[c]
        /\ cpc[c] # "sleep" => cpc'[c] = cpc[c]
    <3>1. cpc[c] = "sleep" \/ cpc[c] \notin Blocked
      BY <2>1 DEF SleepInv, SleepTypes, Blocked
    <3>2. ~signalled[c]
      BY <1>2 DEF PendingEntry
    <3>3. CASE cpc[c] = "sleep"
      BY <1>1, <1>4, <2>1, <3>2, <3>3 DEF Signal, Blocked, Resume
    <3>4. CASE cpc[c] \notin Blocked
      BY <1>1, <1>4, <2>1, <3>4 DEF Signal, Blocked
    <3> QED BY <3>1, <3>3, <3>4
  <2> HIDE DEF c
  <2>4. SleepTypes'
    BY <1>1, <2>1, <2>3 DEF SleepInv, SleepTypes
  <2>5. PendingInv'
    <3> SUFFICES ASSUME NEW d \in Clients, signalled'[d]
                 PROVE  /\ Awaiting(d)'
                        /\ cpc'[d] # "sleep"
                        /\ nap'[d].wraps \/ nap'[d].left = 0
      BY DEF PendingInv
    <3>1. CASE d = c
      <4>1. Awaiting(c)
        BY <1>2 DEF PendingEntry, c
      <4>2. cpc[c] # "sleep" /\ cpc'[c] = cpc[c]
        BY <2>3, <3>1
      <4> QED BY <1>1, <2>2, <3>1, <4>1, <4>2 DEF Awaiting
    <3>2. CASE d # c
      BY <1>1, <2>3, <3>2 DEF SleepInv, PendingInv, Awaiting
    <3> QED BY <3>1, <3>2
  <2>6. /\ \A i \in DOMAIN schedule' : \E j \in DOMAIN schedule :
              schedule[j].aep # e.aep /\ schedule'[i] = schedule[j]
        /\ \A i, j \in DOMAIN schedule' :
              schedule'[i].caller = schedule'[j].caller => i = j
    BY <1>4, FreeEntries DEF SleepInv
  <2>7. ASSUME NEW i \in DOMAIN schedule'
        PROVE  PendingEntry(schedule[i])'
    <3>1. PICK j \in DOMAIN schedule :
            schedule[j].aep # e.aep /\ schedule'[i] = schedule[j]
      BY <2>6
    <3>2. schedule[j].caller # c /\ schedule[j].caller \in Clients
      BY <1>1, <3>1 DEF SleepInv, EntriesInv, EntryType, c
    <3>3. PendingEntry(schedule[j])
      BY DEF SleepInv, EntriesInv
    <3> QED BY <1>1, <2>3, <3>1, <3>2, <3>3 DEF PendingEntry, Awaiting
  <2> QED BY <2>4, <2>5, <2>6, <2>7 DEF SleepInv, EntriesInv
<1> QED BY <1>2, <1>3, <1>4 DEF TimerScan, PendingEntry

\* A new entry is the first of its client, which has no signal pending.
LEMMA SleepSetTimeout ==
  ASSUME SysclockInv, SleepInv, ServeSetTimeout
  PROVE  SleepInv'
<1> DEFINE c == serving
<1>1. /\ UNCHANGED <<cpc, serving, creq, signalled>>
      /\ spc = "serve" /\ spc' = "reply"
      /\ c \in Clients /\ cpc[c] = "call"
      /\ creq[c].op = "sleep" /\ ~creq[c].periodic
      /\ nap \in [Clients -> [left: 0 .. Word - 1, wraps: BOOLEAN]]
      /\ schedule \in Seq(EntryType)
  BY DEF ServeSetTimeout, clientVars, SysclockInv, TypeOK, ServingInv, IsSet,
     SetOps, SleepInv, SleepTypes, SleepOps
<1>2. \A d \in Clients : Awaiting(d) => d # c /\ Awaiting(d)'
  BY <1>1 DEF Awaiting
<1>3. SleepTypes'
  BY <1>1 DEF SleepInv, SleepTypes
<1>4. CASE UNCHANGED <<schedule, nap>>
  <2>1. \A i \in DOMAIN schedule : schedule[i].caller \in Clients
    BY CallersFact
  <2>2. PendingInv'
    BY <1>1, <1>2, <1>4 DEF SleepInv, PendingInv
  <2>3. EntriesInv'
    BY <1>1, <1>4, <2>1 DEF SleepInv, EntriesInv, PendingEntry, Awaiting
  <2> QED BY <1>3, <2>2, <2>3 DEF SleepInv
<1>5. CASE ~PoolFull /\ reply' = [mr0 |-> 0, mr1 |-> caller_ep]
  <2> DEFINE x == Entry(caller_ep, c, creq[c].periodic, creq[c].ms)
  <2>1. /\ schedule' = Append(schedule, x)
        /\ nap' = [nap EXCEPT ![c] = [left |-> x.left, wraps |-> x.wraps]]
    <3>1. CASE PoolFull
      BY <1>5, <3>1
    <3>2. CASE ~PoolFull
      BY <1>1, <3>2 DEF ServeSetTimeout
    <3> QED BY <3>1, <3>2
  <2>2. x.caller = c /\ ~x.periodic
    BY <1>1 DEF Entry
  <2> HIDE DEF x, c
  <2>3. /\ nap'[c].left = x.left /\ nap'[c].wraps = x.wraps
        /\ \A d \in Clients \ {c} : nap'[d] = nap[d]
    BY <1>1, <2>1
  <2>4. c' = c /\ Awaiting(c)'
    BY <1>1, <1>5 DEF Awaiting, c
  <2>5. PendingInv'
    BY <1>1, <1>2, <2>3 DEF SleepInv, PendingInv
  <2>6. /\ DOMAIN schedule' = 1 .. Len(schedule) + 1
        /\ DOMAIN schedule = 1 .. Len(schedule)
        /\ Len(schedule) \in Nat
        /\ \A i \in DOMAIN schedule : /\ schedule'[i] = schedule[i]
                                      /\ schedule[i].caller \in Clients
        /\ schedule'[Len(schedule) + 1] = x
    BY <1>1, <2>1, CallersFact
  <2>7. \A i \in DOMAIN schedule : schedule[i].caller # c
    BY <1>2, <2>6 DEF SleepInv, EntriesInv, PendingEntry
  <2>8. ASSUME NEW i \in DOMAIN schedule
        PROVE  PendingEntry(schedule[i])'
    <3>1. PendingEntry(schedule[i])
      BY DEF SleepInv, EntriesInv
    <3>2. nap'[schedule[i].caller] = nap[schedule[i].caller]
      BY <2>3, <2>6, <2>7
    <3> QED BY <1>1, <2>6, <3>1, <3>2 DEF PendingEntry, Awaiting
  <2>9. ~signalled[c]
    BY <1>1, <1>2 DEF SleepInv, PendingInv
  <2>10. ASSUME NEW n \in DOMAIN schedule', n = Len(schedule) + 1
         PROVE  PendingEntry(schedule[n])'
    <3>1. schedule'[n] = x
      BY <2>6, <2>10
    <3>2. ~signalled'[c]
      BY <1>1, <2>9
    <3> QED BY <2>2, <2>3, <2>4, <3>1, <3>2 DEF PendingEntry, Awaiting
  <2>11. EntriesInv'
    <3>1. \A i \in DOMAIN schedule' : i \in DOMAIN schedule \/ i = Len(schedule) + 1
      BY <2>6
    <3>2. \A i \in DOMAIN schedule' : PendingEntry(schedule[i])'
      BY <2>8, <2>10, <3>1
    <3>3. \A i, j \in DOMAIN schedule' :
            schedule'[i].caller = schedule'[j].caller => i = j
      BY <2>2, <2>6, <2>7, <3>1 DEF SleepInv, EntriesInv
    <3> QED BY <3>2, <3>3 DEF EntriesInv
  <2> QED BY <1>3, <2>5, <2>11 DEF SleepInv
<1> QED BY <1>4, <1>5 DEF ServeSetTimeout

\* A cancel takes out an entry at most.
LEMMA SleepCancel ==
  ASSUME SysclockInv, SleepInv, ServeCancelTimeout
  PROVE  SleepInv'
<1>1. /\ UNCHANGED <<cpc, serving, creq, signalled, nap>>
      /\ spc = "serve" /\ spc' = "reply"
      /\ creq[serving].op = "cancel"
      /\ schedule' = FreeByAep(schedule, creq[serving].id)
  BY DEF ServeCancelTimeout, clientVars
<1>2. /\ \A i \in DOMAIN schedule' : \E j \in DOMAIN schedule : schedule'[i] = schedule[j]
      /\ \A i, j \in DOMAIN schedule' :
            schedule'[i].caller = schedule'[j].caller => i = j
  BY <1>1, FreeEntries DEF SleepInv
<1>3. SleepTypes' /\ PendingInv'
  BY <1>1 DEF SleepInv, SleepTypes, PendingInv, Awaiting
<1>4. EntriesInv'
  BY <1>1, <1>2 DEF SleepInv, EntriesInv, PendingEntry, Awaiting
<1> QED BY <1>3, <1>4 DEF SleepInv

\* The reply lets a sleeping client go on to wait.
LEMMA SleepReply ==
  ASSUME SysclockInv, SleepInv, ServerReply
  PROVE  SleepInv'
<1> DEFINE c == serving
<1>1. /\ UNCHANGED <<schedule, signalled, nap>>
      /\ spc = "reply" /\ spc' # "reply"
      /\ c \in Clients /\ cpc[c] = "call"
      /\ cpc \in [Clients -> ClientStates]
      /\ creq \in [Clients -> [op: AllOps, periodic: BOOLEAN,
                              ms: Timeouts \cup {0}, id: {0} \cup SlotIds]]
      /\ \A i \in DOMAIN schedule : schedule[i].caller \in Clients
  BY CallersFact DEF ServerReply, SysclockInv, TypeOK, ServingInv
<1>2. /\ cpc' = [cpc EXCEPT ![c] = AfterReply(c)]
      /\ creq' = [creq EXCEPT ![c] = NoRequest]
  BY DEF ServerReply
<1>3. /\ AfterReply(c) \in {"run", "nap", "aborted"}
      /\ Awaiting(c) => AfterReply(c) = "nap"
  BY <1>1 DEF AfterReply, Awaiting
<1>4. \A d \in Clients : Awaiting(d) => Awaiting(d)'
  BY <1>1, <1>2, <1>3 DEF Awaiting
<1>5. SleepTypes'
  BY <1>1, <1>2, <1>3 DEF SleepInv, SleepTypes, NoRequest, Request, SleepOps
<1>6. PendingInv'
  BY <1>1, <1>2, <1>3, <1>4 DEF SleepInv, PendingInv
<1>7. EntriesInv'
  BY <1>1, <1>2, <1>3 DEF SleepInv, EntriesInv, PendingEntry, Awaiting
<1> QED BY <1>5, <1>6, <1>7 DEF SleepInv

\* The other steps of the two threads touch neither signals nor entries.
LEMMA SleepOther ==
  ASSUME SysclockInv, SleepInv,
         \/ TimerLock \/ TimerUnlock \/ ServerRecv \/ ServeGetTime
         \/ ServerNewSlot \/ UNCHANGED vars
  PROVE  SleepInv'
<1>1. /\ UNCHANGED <<cpc, creq, signalled, nap, schedule>>
      /\ \A d \in Clients : Awaiting(d) => Awaiting(d)'
  BY DEF TimerLock, TimerUnlock, ServerRecv, ServeGetTime, ServerNewSlot, vars,
     timerVars, serverVars, clientVars, Awaiting, SysclockInv, TypeOK
<1>2. \A i \in DOMAIN schedule : schedule[i].caller \in Clients
  BY CallersFact
<1>3. SleepTypes' /\ PendingInv'
  BY <1>1 DEF SleepInv, SleepTypes, PendingInv
<1>4. EntriesInv'
  <2> SUFFICES ASSUME NEW i \in DOMAIN schedule
               PROVE  PendingEntry(schedule[i])'
    BY <1>1 DEF SleepInv, EntriesInv
  <2>1. PendingEntry(schedule[i])
    BY DEF SleepInv, EntriesInv
  <2>2. Awaiting(schedule[i].caller)'
    BY <1>1, <1>2, <2>1 DEF PendingEntry, Awaiting
  <2> QED BY <1>1, <2>1, <2>2 DEF PendingEntry, Awaiting
<1> QED BY <1>3, <1>4 DEF SleepInv

\* A client that calls sleeps no more: it has neither entry nor signal.
LEMMA SleepCall ==
  ASSUME SysclockInv, SleepInv, NEW c \in Clients, NEW r, cpc[c] = "run",
         Call(c, r), r.op \in SleepOps, r.op = "sleep" => ~r.periodic
  PROVE  SleepInv'
<1>1. /\ UNCHANGED <<schedule, signalled, nap, spc, serving, reply>>
      /\ cpc' = [cpc EXCEPT ![c] = "call"]
      /\ creq' = [creq EXCEPT ![c] = r]
      /\ cpc \in [Clients -> ClientStates]
      /\ creq \in [Clients -> [op: AllOps, periodic: BOOLEAN,
                              ms: Timeouts \cup {0}, id: {0} \cup SlotIds]]
      /\ \A i \in DOMAIN schedule : schedule[i].caller \in Clients
  BY CallersFact DEF Call, serverVars, SysclockInv, TypeOK
<1>2. ~Awaiting(c)
  BY DEF Awaiting, SysclockInv, ServingInv
<1>3. SleepTypes'
  BY <1>1 DEF SleepInv, SleepTypes
<1>4. PendingInv'
  BY <1>1, <1>2 DEF SleepInv, PendingInv, Awaiting
<1>5. EntriesInv'
  <2> SUFFICES ASSUME NEW i \in DOMAIN schedule
               PROVE  PendingEntry(schedule[i])'
    BY <1>1 DEF SleepInv, EntriesInv
  <2>1. PendingEntry(schedule[i])
    BY DEF SleepInv, EntriesInv
  <2>2. schedule[i].caller # c /\ schedule[i].caller \in Clients
    BY <1>1, <1>2, <2>1 DEF PendingEntry
  <2> QED BY <1>1, <2>1, <2>2 DEF PendingEntry, Awaiting
<1> QED BY <1>3, <1>4, <1>5 DEF SleepInv

\* A client that waits consumes the signal of its sleep, or blocks.
LEMMA SleepSleepWait ==
  ASSUME SysclockInv, SleepInv, NEW c \in Clients, SleepWait(c)
  PROVE  SleepInv'
<1>1. /\ UNCHANGED <<schedule, nap, spc, serving, reply, creq>>
      /\ cpc[c] = "nap"
      /\ cpc \in [Clients -> ClientStates]
      /\ signalled \in [Clients -> BOOLEAN]
      /\ \A i \in DOMAIN schedule : schedule[i].caller \in Clients
  BY CallersFact DEF SleepWait, Wait, serverVars, clientVars, SysclockInv, TypeOK
<1>2. CASE signalled[c]
  <2>1. /\ signalled' = [signalled EXCEPT ![c] = FALSE]
        /\ cpc' = [cpc EXCEPT ![c] = "run"]
    BY <1>2 DEF SleepWait, Wait, Resume
  <2>2. SleepTypes' /\ PendingInv'
    BY <1>1, <2>1 DEF SleepInv, SleepTypes, PendingInv, Awaiting
  <2>3. EntriesInv'
    BY <1>1, <1>2, <2>1 DEF SleepInv, EntriesInv, PendingEntry, Awaiting
  <2> QED BY <2>2, <2>3 DEF SleepInv
<1>3. CASE ~signalled[c]
  <2>1. signalled' = signalled /\ cpc' = [cpc EXCEPT ![c] = "sleep"]
    BY <1>3 DEF SleepWait, Wait
  <2>2. SleepTypes' /\ PendingInv'
    BY <1>1, <1>3, <2>1 DEF SleepInv, SleepTypes, PendingInv, Awaiting
  <2>3. EntriesInv'
    BY <1>1, <2>1 DEF SleepInv, EntriesInv, PendingEntry, Awaiting
  <2> QED BY <2>2, <2>3 DEF SleepInv
<1> QED BY <1>2, <1>3

\* SleepInv is inductive where clients only sleep, cancel and ask the time.
LEMMA SleepStep ==
  ASSUME Ops \subseteq SleepOps, SysclockInv, SleepInv, [Next]_vars
  PROVE  SleepInv'
<1>1. CASE TimerNext
  BY <1>1, SleepTick, SleepScan, SleepOther DEF TimerNext
<1>2. CASE ServerNext
  BY <1>2, SleepOther, SleepSetTimeout, SleepCancel, SleepReply DEF ServerNext
<1>3. ASSUME NEW c \in Clients, ClientNext(c)
      PROVE  SleepInv'
  <2>1. CASE ClientSchedule(c)
    BY <2>1 DEF ClientSchedule, ScheduleTimeout, SleepOps
  <2>2. CASE ThreadSleep(c)
    <3>1. PICK ms : cpc[c] = "run" /\ Call(c, Request("sleep", FALSE, ms, 0))
      BY <2>2 DEF ThreadSleep, ScheduleTimeout
    <3> QED BY <3>1, SleepCall DEF Request, SleepOps
  <2>3. CASE CancelTimeout(c)
    <3>1. cpc[c] = "run" /\ Call(c, Request("cancel", FALSE, 0, tid[c]))
      BY <2>3 DEF CancelTimeout, SleepInv, SleepTypes
    <3> QED BY <3>1, SleepCall DEF Request, SleepOps
  <2>4. CASE GetTime(c)
    <3>1. cpc[c] = "run" /\ Call(c, Request("time", FALSE, 0, 0))
      BY <2>4 DEF GetTime
    <3> QED BY <3>1, SleepCall DEF Request, SleepOps
  <2>5. CASE WaitForTimeout(c)
    BY <2>5 DEF WaitForTimeout, SleepOps
  <2>6. CASE SleepWait(c)
    BY <2>6, SleepSleepWait
  <2> QED BY <1>3, <2>1, <2>2, <2>3, <2>4, <2>5, <2>6 DEF ClientNext
<1>4. CASE UNCHANGED vars
  BY <1>4, SleepOther
<1> QED BY <1>1, <1>2, <1>3, <1>4 DEF Next

-----------------------------------------------------------------------------
(* The service is a timer service.                                         *)

\* The id was handed out to client c, and its timeout is still scheduled or
\* it has fired or been cancelled.
Owned(c, id) == slot[id] = c /\ (Scheduled(id) \/ id \in retired)

\* The ids a client has, sends, or is about to be told.
Known(c, id) == id \in {tid[c], creq[c].id} \/ (c = serving /\ id = reply.mr1)

\* They are its own: so a client cancels no timeout but its own.
OwnerInv ==
  /\ \A c \in Clients, id \in SlotIds : Known(c, id) => Owned(c, id)
  /\ reply.mr1 # 0 => spc = "reply" /\ IsSet(serving)

\* The schedule fits its pool, and a SET_TIMEOUT carries the milliseconds its
\* client asked for.
RoomInv == Len(schedule) <= MaxEntries
RequestInv == \A c \in Clients : IsSet(c) => creq[c].ms \in Timeouts

TimersInv == OwnerInv /\ RoomInv /\ RequestInv

\* Nobody has an id yet.
LEMMA TimersInit == Init => TimersInv
<1> SUFFICES ASSUME Init PROVE TimersInv
  OBVIOUS
<1>1. OwnerInv
  <2>1. 0 \notin SlotIds
    BY DEF SlotIds
  <2> QED BY <2>1 DEF Init, OwnerInv, Known, NoRequest, Request
<1>2. RoomInv
  BY EntriesAssumption DEF Init, RoomInv
<1>3. RequestInv
  BY DEF Init, RequestInv, IsSet, SetOps, NoRequest, Request
<1> QED BY <1>1, <1>2, <1>3 DEF TimersInv

\* A timeout stays its client's: its slot is not given away, and it leaves the
\* schedule only for retired.
LEMMA OwnedKept ==
  ASSUME SysclockInv, [Next]_vars, NEW c \in Clients, NEW id \in SlotIds,
         Issued(id), Owned(c, id)
  PROVE  Owned(c, id)'
<1>1. retired \subseteq retired'
  BY DEF Next, TimerNext, TimerTick, TimerLock, TimerScan, TimerUnlock,
     ServerNext, ServerRecv, ServeSetTimeout, ServeCancelTimeout, ServeGetTime,
     ServerReply, ServerNewSlot, ClientNext, ClientSchedule, ThreadSleep,
     CancelTimeout, GetTime, WaitForTimeout, SleepWait, ScheduleTimeout, Call,
     Wait, vars
<1>2. slot'[id] = slot[id]
  <2>1. CASE ServerRecv
    <3>1. id # caller_ep
      BY <2>1 DEF ServerRecv, Issued, SlotUsed
    <3> QED BY <2>1, <3>1 DEF ServerRecv, SysclockInv, TypeOK
  <2>2. CASE ~ServerRecv
    BY <2>2 DEF Next, TimerNext, TimerTick, TimerLock, TimerScan, TimerUnlock,
       ServerNext, ServeSetTimeout, ServeCancelTimeout, ServeGetTime,
       ServerReply, ServerNewSlot, ClientNext, ClientSchedule, ThreadSleep,
       CancelTimeout, GetTime, WaitForTimeout, SleepWait, ScheduleTimeout,
       Call, Wait, vars, serverVars
  <2> QED BY <2>1, <2>2
<1>3. Scheduled(id) => Scheduled(id)' \/ id \in retired'
  BY StepLeaves
<1> QED BY <1>1, <1>2, <1>3 DEF Owned

\* The ids that are known stay their clients'.
LEMMA OwnersKept ==
  ASSUME SysclockInv, OwnerInv, [Next]_vars, NEW c \in Clients,
         NEW id \in SlotIds, Known(c, id)
  PROVE  Owned(c, id)'
<1>1. Issued(id)
  <2>1. CASE id \in {tid[c], creq[c].id}
    BY <2>1 DEF SysclockInv, IdsInv
  <2>2. CASE id = reply.mr1
    <3>1. id # 0
      BY DEF SlotIds
    <3> QED BY <2>2, <3>1 DEF OwnerInv, SysclockInv, IdsInv, Issued, SlotUsed
  <2> QED BY <2>1, <2>2 DEF Known
<1> QED BY <1>1, OwnedKept DEF OwnerInv

\* A step that makes no id known to a client keeps OwnerInv.
LEMMA OwnerKept ==
  ASSUME SysclockInv, OwnerInv, [Next]_vars,
         \A c \in Clients, id \in SlotIds : Known(c, id)' => Known(c, id),
         reply'.mr1 # 0 => spc' = "reply" /\ IsSet(serving)'
  PROVE  OwnerInv'
<1>1. \A c \in Clients, id \in SlotIds : Known(c, id)' => Owned(c, id)'
  BY OwnersKept
<1> QED BY <1>1 DEF OwnerInv

\* The walk, and what the server does between two requests.
LEMMA OwnerOther ==
  ASSUME SysclockInv, TimersInv,
         TimerNext \/ ServerRecv \/ ServerNewSlot \/ UNCHANGED vars
  PROVE  OwnerInv' /\ RequestInv'
<1>1. UNCHANGED <<tid, creq, reply>>
  BY DEF TimerNext, TimerTick, TimerLock, TimerScan, TimerUnlock, ServerRecv,
     ServerNewSlot, vars, serverVars, clientVars
<1>2. RequestInv'
  BY <1>1 DEF TimersInv, RequestInv, IsSet
<1>3. [Next]_vars
  BY DEF Next, ServerNext
<1>4. CASE reply.mr1 = 0
  <2>1. \A c \in Clients, id \in SlotIds : Known(c, id)' => Known(c, id)
    <3>1. 0 \notin SlotIds
      BY DEF SlotIds
    <3> QED BY <1>1, <1>4, <3>1 DEF Known
  <2> QED BY <1>1, <1>2, <1>3, <1>4, <2>1, OwnerKept DEF TimersInv
<1>5. CASE reply.mr1 # 0
  <2>1. spc = "reply" /\ IsSet(serving)
    BY <1>5 DEF TimersInv, OwnerInv
  <2>2. UNCHANGED <<spc, serving>>
    BY <2>1 DEF TimerNext, TimerTick, TimerLock, TimerScan, TimerUnlock,
       ServerRecv, ServerNewSlot, vars, serverVars
  <2>3. \A c \in Clients, id \in SlotIds : Known(c, id)' => Known(c, id)
    BY <1>1, <2>2 DEF Known
  <2>4. spc' = "reply" /\ IsSet(serving)'
    BY <1>1, <2>1, <2>2 DEF IsSet
  <2> QED BY <1>2, <1>3, <2>3, <2>4, OwnerKept DEF TimersInv
<1> QED BY <1>4, <1>5

\* A cancel and a reading of the clock reply no id.
LEMMA OwnerServe ==
  ASSUME SysclockInv, TimersInv, ServeCancelTimeout \/ ServeGetTime
  PROVE  OwnerInv' /\ RequestInv'
<1>1. UNCHANGED <<tid, creq>> /\ reply'.mr1 = 0
  BY DEF ServeCancelTimeout, ServeGetTime, clientVars
<1>2. RequestInv'
  BY <1>1 DEF TimersInv, RequestInv, IsSet
<1>3. \A c \in Clients, id \in SlotIds : Known(c, id)' => Known(c, id)
  <2>1. 0 \notin SlotIds
    BY DEF SlotIds
  <2> QED BY <1>1, <2>1 DEF Known
<1>4. [Next]_vars
  BY DEF Next, ServerNext
<1> QED BY <1>1, <1>2, <1>3, <1>4, OwnerKept DEF TimersInv

\* The id in the reply to a SET_TIMEOUT is that of the entry just added, in
\* the slot with the notification of its client.
LEMMA OwnerSet ==
  ASSUME SysclockInv, TimersInv, ServeSetTimeout
  PROVE  OwnerInv' /\ RequestInv'
<1>1. /\ UNCHANGED <<tid, creq, serving, slot, caller_ep>>
      /\ spc = "serve" /\ spc' = "reply" /\ IsSet(serving)
  BY DEF ServeSetTimeout, clientVars
<1>2. RequestInv' /\ IsSet(serving)'
  BY <1>1 DEF TimersInv, RequestInv, IsSet
<1>3. [Next]_vars
  BY DEF Next, ServerNext
<1>4. CASE reply'.mr1 = 0
  <2>1. \A c \in Clients, id \in SlotIds : Known(c, id)' => Known(c, id)
    <3>1. 0 \notin SlotIds
      BY DEF SlotIds
    <3> QED BY <1>1, <1>4, <3>1 DEF Known
  <2> QED BY <1>2, <1>3, <1>4, <2>1, OwnerKept DEF TimersInv
<1>5. CASE reply'.mr1 # 0
  <2>1. /\ reply'.mr1 = caller_ep
        /\ \E e : schedule' = Append(schedule, e) /\ e.aep = caller_ep
    BY <1>5 DEF ServeSetTimeout, Entry
  <2>2. PICK e : schedule' = Append(schedule, e) /\ e.aep = caller_ep
    BY <2>1
  <2>3. /\ Len(schedule) + 1 \in DOMAIN schedule'
        /\ schedule'[Len(schedule) + 1] = e
    BY <2>2 DEF SysclockInv, TypeOK
  <2>4. slot'[caller_ep] = serving /\ Scheduled(caller_ep)'
    BY <1>1, <2>2, <2>3 DEF SysclockInv, ServingInv, Scheduled
  <2>5. ASSUME NEW c \in Clients, NEW id \in SlotIds, Known(c, id)'
        PROVE  Owned(c, id)'
    <3>1. CASE Known(c, id)
      BY <1>3, <3>1, OwnersKept DEF TimersInv
    <3>2. CASE c = serving /\ id = caller_ep
      BY <1>1, <2>4, <3>2 DEF Owned, Scheduled
    <3> QED BY <1>1, <2>1, <2>5, <3>1, <3>2 DEF Known
  <2> QED BY <1>1, <1>2, <2>5 DEF OwnerInv
<1> QED BY <1>4, <1>5

\* The reply hands the id to the client it was made for.
LEMMA OwnerReply ==
  ASSUME SysclockInv, TimersInv, ServerReply
  PROVE  OwnerInv' /\ RequestInv'
<1>1. /\ serving \in Clients /\ reply'.mr1 = 0
      /\ tid' \in {tid, [tid EXCEPT ![serving] = reply.mr1]}
      /\ creq' = [creq EXCEPT ![serving] = NoRequest]
  BY DEF ServerReply, SysclockInv, ServingInv
<1>2. RequestInv'
  BY <1>1 DEF TimersInv, RequestInv, IsSet, SetOps, NoRequest, Request,
     SysclockInv, TypeOK
<1>3. ASSUME NEW c \in Clients, NEW id \in SlotIds, Known(c, id)'
      PROVE  Known(c, id)
  <2>1. id # 0
    BY DEF SlotIds
  <2>2. id = tid'[c] \/ id = creq'[c].id
    BY <1>1, <1>3, <2>1 DEF Known
  <2>3. tid'[c] = tid[c] \/ (c = serving /\ tid'[c] = reply.mr1)
    BY <1>1 DEF SysclockInv, TypeOK
  <2>4. creq'[c] = creq[c] \/ creq'[c].id = 0
    BY <1>1 DEF SysclockInv, TypeOK, NoRequest, Request
  <2> QED BY <2>1, <2>2, <2>3, <2>4 DEF Known
<1>4. [Next]_vars
  BY DEF Next, ServerNext
<1> QED BY <1>1, <1>2, <1>3, <1>4, OwnerKept DEF TimersInv

\* A request carries no id, or the last one its client was given.
LEMMA OwnerCall ==
  ASSUME SysclockInv, TimersInv, [Next]_vars, NEW c \in Clients,
         cpc[c] \in {"run", "docancel"}, NEW r, Call(c, r), tid' = tid,
         r.id \in {0, tid[c]}, r.op \in SetOps => r.ms \in Timeouts
  PROVE  OwnerInv' /\ RequestInv'
<1>1. /\ creq' = [creq EXCEPT ![c] = r]
      /\ UNCHANGED <<reply, serving, spc>>
      /\ \A d \in Clients : creq'[d] = IF d = c THEN r ELSE creq[d]
  BY DEF Call, serverVars, SysclockInv, TypeOK
<1>2. RequestInv'
  BY <1>1 DEF TimersInv, RequestInv, IsSet
<1>3. \A d \in Clients, id \in SlotIds : Known(d, id)' => Known(d, id)
  <2>1. 0 \notin SlotIds
    BY DEF SlotIds
  <2> QED BY <1>1, <2>1 DEF Known
<1>4. reply'.mr1 # 0 => spc' = "reply" /\ IsSet(serving)'
  <2>1. spc = "reply" => serving \in Clients \ {c}
    BY DEF SysclockInv, ServingInv
  <2> QED BY <1>1, <2>1 DEF TimersInv, OwnerInv, IsSet
<1> QED BY <1>2, <1>3, <1>4, OwnerKept DEF TimersInv

\* Every step of a client keeps what the two threads know of it.
LEMMA OwnerClient ==
  ASSUME SysclockInv, TimersInv, NEW c \in Clients, ClientNext(c)
  PROVE  OwnerInv' /\ RequestInv' /\ schedule' = schedule
<1>0. [Next]_vars
  BY DEF Next
<1>1. CASE ClientSchedule(c) \/ ThreadSleep(c)
  <2>1. PICK op \in SetOps, periodic \in BOOLEAN, ms \in Timeouts :
          ScheduleTimeout(c, op, periodic, ms)
    BY <1>1 DEF ClientSchedule, ThreadSleep, SetOps
  <2> DEFINE r == Request(op, periodic, ms, 0)
  <2>2. cpc[c] = "run" /\ Call(c, r) /\ tid' = tid /\ schedule' = schedule
    BY <2>1 DEF ScheduleTimeout, Call
  <2>3. r.id = 0 /\ r.ms = ms
    BY DEF Request
  <2> HIDE DEF r
  <2> QED BY <1>0, <2>2, <2>3, OwnerCall
<1>2. CASE CancelTimeout(c)
  <2> DEFINE r == Request("cancel", FALSE, 0, tid[c])
  <2>1. /\ cpc[c] \in {"run", "docancel"} /\ Call(c, r) /\ tid' = tid
        /\ schedule' = schedule
    BY <1>2 DEF CancelTimeout, Call
  <2>2. r.id = tid[c] /\ r.op \notin SetOps
    BY DEF Request, SetOps
  <2> HIDE DEF r
  <2> QED BY <1>0, <2>1, <2>2, OwnerCall
<1>3. CASE GetTime(c)
  <2> DEFINE r == Request("time", FALSE, 0, 0)
  <2>1. cpc[c] = "run" /\ Call(c, r) /\ tid' = tid /\ schedule' = schedule
    BY <1>3 DEF GetTime, Call
  <2>2. r.id = 0 /\ r.op \notin SetOps
    BY DEF Request, SetOps
  <2> HIDE DEF r
  <2> QED BY <1>0, <2>1, <2>2, OwnerCall
<1>4. CASE WaitForTimeout(c) \/ SleepWait(c)
  <2>1. UNCHANGED <<tid, creq, reply, spc, serving, schedule>>
    BY <1>4 DEF WaitForTimeout, SleepWait, Wait, serverVars, clientVars
  <2>2. RequestInv' /\ IsSet(serving)' = IsSet(serving)
    BY <2>1 DEF TimersInv, RequestInv, IsSet
  <2>3. \A d \in Clients, id \in SlotIds : Known(d, id)' => Known(d, id)
    BY <2>1 DEF Known
  <2>4. reply'.mr1 # 0 => spc' = "reply" /\ IsSet(serving)'
    BY <2>1, <2>2 DEF TimersInv, OwnerInv
  <2> QED BY <1>0, <2>1, <2>2, <2>3, <2>4, OwnerKept DEF TimersInv
<1> QED BY <1>1, <1>2, <1>3, <1>4 DEF ClientNext

\* simple_pool_free takes out at most one entry.
LEMMA FreeLen ==
  ASSUME NEW s \in Seq(EntryType), NEW id,
         \A i, j \in DOMAIN s : s[i].aep = s[j].aep => i = j
  PROVE  Len(FreeByAep(s, id)) <= Len(s)
<1>1. CASE FreeByAep(s, id) = s
  BY <1>1
<1>2. CASE \E k \in 1 .. Len(s) : FreeByAep(s, id) = RemoveAt(s, k)
  <2>1. PICK k \in 1 .. Len(s) : FreeByAep(s, id) = RemoveAt(s, k)
    BY <1>2
  <2>2. Len(RemoveAt(s, k)) = Len(s) - 1
    BY RemoveAtFacts
  <2> QED BY <2>1, <2>2
<1> QED BY <1>1, <1>2, FreeByAepFacts

\* The server adds an entry only where the pool has one.
LEMMA RoomStep ==
  ASSUME SysclockInv, RoomInv, TimerNext \/ ServerNext
  PROVE  RoomInv'
<1>1. /\ schedule \in Seq(EntryType)
      /\ Len(schedule) \in Nat /\ Len(schedule) <= MaxEntries
      /\ DOMAIN schedule = 1 .. Len(schedule)
      /\ \A i, j \in DOMAIN schedule : schedule[i].aep = schedule[j].aep => i = j
      /\ MaxEntries \in Nat
  BY EntriesAssumption DEF SysclockInv, TypeOK, UniqueIds, RoomInv
<1>6. SysclockInv'
  BY StepInv DEF Next
<1>7. schedule' \in Seq(EntryType)
  BY <1>6 DEF SysclockInv, TypeOK
<1>2. CASE schedule' = schedule
  BY <1>1, <1>2 DEF RoomInv
<1>3. CASE DOMAIN schedule' = DOMAIN schedule /\ schedule' \in Seq(EntryType)
  <2>1. Len(schedule') = Len(schedule)
    BY <1>1, <1>3
  <2> QED BY <1>1, <2>1 DEF RoomInv
<1>4. ASSUME NEW id, schedule' = FreeByAep(schedule, id)
      PROVE  RoomInv'
  <2>1. Len(schedule') <= Len(schedule)
    BY <1>1, <1>4, FreeLen
  <2>2. Len(schedule') \in Nat
    BY <1>7
  <2> QED BY <1>1, <2>1, <2>2 DEF RoomInv
<1>5. ASSUME NEW e, schedule' = Append(schedule, e), ~PoolFull
      PROVE  RoomInv'
  <2>1. Len(schedule') = Len(schedule) + 1
    BY <1>1, <1>5
  <2>2. Len(schedule) # MaxEntries
    BY <1>5 DEF PoolFull
  <2>3. /\ Len(schedule) \in Nat /\ Len(schedule) <= MaxEntries
        /\ MaxEntries \in Nat
    BY <1>1
  <2> QED BY <2>1, <2>2, <2>3 DEF RoomInv
<1>8. CASE TimerTick
  BY <1>3, <1>7, <1>8 DEF TimerTick
<1>9. CASE TimerScan
  BY <1>2, <1>3, <1>4, <1>7, <1>9 DEF TimerScan
<1>10. CASE ServeSetTimeout
  BY <1>2, <1>5, <1>10 DEF ServeSetTimeout
<1>11. CASE ServeCancelTimeout
  BY <1>4, <1>11 DEF ServeCancelTimeout
<1>12. CASE TimerLock \/ TimerUnlock \/ ServerRecv \/ ServeGetTime
            \/ ServerReply \/ ServerNewSlot
  BY <1>2, <1>12 DEF TimerLock, TimerUnlock, ServerRecv, ServeGetTime,
     ServerReply, ServerNewSlot
<1> QED BY <1>8, <1>9, <1>10, <1>11, <1>12 DEF TimerNext, ServerNext

\* TimersInv is inductive, relative to SysclockInv.
LEMMA TimersStep ==
  ASSUME SysclockInv, TimersInv, [Next]_vars
  PROVE  TimersInv'
<1>1. CASE TimerNext
  BY <1>1, OwnerOther, RoomStep DEF TimersInv
<1>2. CASE ServerNext
  <2>1. OwnerInv' /\ RequestInv'
    BY <1>2, OwnerOther, OwnerServe, OwnerSet, OwnerReply DEF ServerNext
  <2> QED BY <1>2, <2>1, RoomStep DEF TimersInv
<1>3. CASE \E c \in Clients : ClientNext(c)
  BY <1>3, OwnerClient DEF TimersInv, RoomInv
<1>4. CASE UNCHANGED vars
  BY <1>4, OwnerOther DEF TimersInv, RoomInv, vars
<1> QED BY <1>1, <1>2, <1>3, <1>4 DEF Next
\* The timeouts of the abstract service are the views of the entries.
LEMMA ArmedFacts ==
  ASSUME SysclockInv
  PROVE  /\ \A i \in DOMAIN schedule : View(schedule[i]) \in armed
         /\ \A e \in armed : \E i \in DOMAIN schedule : e = View(schedule[i])
         /\ \A i, j \in DOMAIN schedule :
              View(schedule[i]) = View(schedule[j]) => i = j
<1>1. \A x : View(x).id = x.aep
  BY DEF View
<1> QED BY <1>1 DEF armed, SysclockInv, UniqueIds

\* As many timeouts as entries, at most.
LEMMA ArmedBound ==
  ASSUME SysclockInv, RoomInv, ~PoolFull
  PROVE  Timers!Cardinality(armed) < MaxEntries
<1> DEFINE n == Len(schedule)
           f == [i \in 1 .. n |-> View(schedule[i])]
<1>1. n \in Nat /\ MaxEntries \in Nat /\ DOMAIN schedule = 1 .. n
  BY EntriesAssumption DEF SysclockInv, TypeOK
<1>2. f \in Surjection(1 .. n, armed)
  BY <1>1 DEF Surjection, armed
<1>3. n <= MaxEntries /\ n # MaxEntries
  BY DEF RoomInv, PoolFull
<1> HIDE DEF n, f
<1>7. n < MaxEntries
  BY <1>1, <1>3
<1>8. IsFiniteSet(1 .. n) /\ Cardinality(1 .. n) = n
  BY <1>1, FS_Interval
<1>4. Cardinality(armed) <= n /\ IsFiniteSet(armed)
  BY <1>2, <1>8, FS_Surjection
<1>5. Cardinality(armed) \in Nat
  BY <1>4, FS_CardinalityType
<1>6. Timers!Cardinality(armed) = Cardinality(armed)
  BY DEF Timers!Cardinality, Cardinality
<1> QED BY <1>1, <1>4, <1>5, <1>6, <1>7

\* A new entry is, to its client, a timeout set now.
LEMMA NewView ==
  ASSUME NEW a, NEW c, NEW p, NEW ms
  PROVE  View(Entry(a, c, p, ms)) = Timers!Timeout(a, c, p, ms)
BY DEF View, Entry, Timers!Timeout

\* Taking an entry out of the schedule takes out its timeout, and no other.
LEMMA RemovedView ==
  ASSUME SysclockInv, NEW k \in DOMAIN schedule,
         schedule' = RemoveAt(schedule, k)
  PROVE  armed' = armed \ {View(schedule[k])}
<1> DEFINE n == Len(schedule)
           D == DOMAIN schedule
<1>1. schedule \in Seq(EntryType) /\ n \in Nat /\ D = 1 .. n /\ k \in 1 .. n
  BY DEF SysclockInv, TypeOK
<1>2. /\ schedule' \in Seq(EntryType)
      /\ Len(schedule') = n - 1
      /\ \A i \in 1 .. n - 1 :
           schedule'[i] = IF i < k THEN schedule[i] ELSE schedule[i + 1]
  BY <1>1, RemoveAtFacts
<1>3. DOMAIN schedule' = 1 .. n - 1
  BY <1>2
<1> HIDE DEF n
<1>4. ASSUME NEW i \in DOMAIN schedule'
      PROVE  \E j \in D : j # k /\ schedule'[i] = schedule[j]
  <2>1. CASE i < k
    BY <1>1, <1>2, <1>3, <2>1
  <2>2. CASE i >= k
    <3>1. i + 1 \in D /\ i + 1 # k /\ schedule'[i] = schedule[i + 1]
      BY <1>1, <1>2, <1>3, <2>2
    <3> QED BY <3>1
  <2> QED BY <1>1, <1>3, <2>1, <2>2
<1>5. ASSUME NEW j \in D, j # k
      PROVE  \E i \in DOMAIN schedule' : schedule'[i] = schedule[j]
  <2>1. CASE j < k
    <3>1. j \in DOMAIN schedule' /\ schedule'[j] = schedule[j]
      BY <1>1, <1>2, <1>3, <2>1
    <3> QED BY <3>1
  <2>2. CASE j > k
    <3>1. /\ j - 1 \in DOMAIN schedule'
          /\ schedule'[j - 1] = schedule[(j - 1) + 1]
          /\ (j - 1) + 1 = j
      BY <1>1, <1>2, <1>3, <2>2
    <3> QED BY <3>1
  <2> QED BY <1>1, <1>5, <2>1, <2>2
<1> HIDE DEF D
<1>6. /\ armed = {View(schedule[j]) : j \in D}
      /\ armed' = {View(schedule'[i]) : i \in DOMAIN schedule'}
      /\ \A i, j \in D : View(schedule[i]) = View(schedule[j]) => i = j
      /\ k \in D
  BY ArmedFacts DEF armed, D, View
<1>7. \A e : e \in armed' => e \in armed /\ e # View(schedule[k])
  BY <1>4, <1>6
<1>8. \A e : e \in armed /\ e # View(schedule[k]) => e \in armed'
  BY <1>5, <1>6
<1> QED BY <1>7, <1>8

\* The clock advances by one Period for the clients too.
LEMMA SimTick ==
  ASSUME SysclockInv, TimerTick
  PROVE  Timers!Tick
<1> DEFINE F(e) == [e EXCEPT !.left = IF @ > Period THEN @ - Period ELSE 0]
<1>1. /\ time' = (time + Period) % Word
      /\ UNCHANGED <<retired, signalled, cpc>>
      /\ DOMAIN schedule' = DOMAIN schedule
      /\ \A i \in DOMAIN schedule :
           schedule'[i] = [schedule[i] EXCEPT !.left = Elapse(@)]
      /\ \A i \in DOMAIN schedule : schedule[i] \in EntryType
  BY DEF TimerTick, Add, SysclockInv, TypeOK
<1>2. \A x \in EntryType :
        View([x EXCEPT !.left = Elapse(@)]) = F(View(x))
  BY DEF View, EntryType, Elapse
<1>3. \A i \in DOMAIN schedule : View(schedule'[i]) = F(View(schedule[i]))
  BY <1>1, <1>2
<1> HIDE DEF F
<1>4. armed' = {F(e) : e \in armed}
  <2>1. /\ armed = {View(schedule[j]) : j \in DOMAIN schedule}
        /\ armed' = {View(schedule'[i]) : i \in DOMAIN schedule'}
    BY DEF armed, View
  <2> QED BY <1>1, <1>3, <2>1
<1>5. waiting' = waiting
  BY <1>1 DEF waiting
<1> QED BY <1>1, <1>4, <1>5 DEF Timers!Tick, F

\* Who waits is unchanged where nobody blocks or is woken.
LEMMA WaitingSame ==
  ASSUME \A d \in Clients : cpc'[d] \in Blocked <=> cpc[d] \in Blocked
  PROVE  waiting' = waiting
<1>1. ASSUME NEW d \in Clients
      PROVE  (cpc'[d] \in Blocked) = (cpc[d] \in Blocked)
  OBVIOUS
<1>2. /\ waiting = [d \in Clients |-> cpc[d] \in Blocked]
      /\ waiting' = [d \in Clients |-> cpc'[d] \in Blocked]
  BY DEF waiting, Blocked
<1>3. \A d \in Clients : (cpc'[d] \in Blocked) = (cpc[d] \in Blocked)
  BY <1>1
<1> QED BY <1>2, <1>3, Zenon

\* One client blocks or is woken.
LEMMA WaitingExcept ==
  ASSUME NEW c \in Clients, NEW b \in BOOLEAN, (cpc'[c] \in Blocked) = b,
         \A d \in Clients \ {c} : cpc'[d] = cpc[d]
  PROVE  waiting' = [waiting EXCEPT ![c] = b]
<1> DEFINE A(d) == cpc[d] \in Blocked
           B(d) == cpc'[d] \in Blocked
<1>1. /\ waiting = [d \in Clients |-> A(d)]
      /\ waiting' = [d \in Clients |-> B(d)]
  BY DEF waiting, Blocked
<1>2. \A d \in Clients \ {c} : B(d) = A(d)
  BY Zenon
<1>3. B(c) = b
  OBVIOUS
<1> HIDE DEF A, B
<1>4. \A d \in Clients : B(d) = IF d = c THEN b ELSE A(d)
  BY <1>2, <1>3, Zenon
<1>5. [waiting EXCEPT ![c] = b] = [d \in Clients |-> IF d = c THEN b ELSE A(d)]
  BY <1>1, Zenon
<1>6. [d \in Clients |-> B(d)] = [d \in Clients |-> IF d = c THEN b ELSE A(d)]
  BY <1>4, Zenon
<1> QED BY <1>1, <1>5, <1>6, Zenon

\* The kernel wakes a blocked client, or keeps the signal.
LEMMA SimSignal ==
  ASSUME SysclockInv, NEW c \in Clients, Signal(c)
  PROVE  Timers!Signal(c)
<1>1. cpc \in [Clients -> ClientStates] /\ \A x : Resume(x) \notin Blocked
  BY DEF SysclockInv, TypeOK, Resume, Blocked
<1>2. CASE cpc[c] \in Blocked
  <2>1. cpc' = [cpc EXCEPT ![c] = Resume(cpc[c])] /\ signalled' = signalled
    BY <1>2 DEF Signal
  <2>2. waiting[c]
    BY <1>2 DEF waiting
  <2>3. waiting' = [waiting EXCEPT ![c] = FALSE]
    <3>1. /\ (cpc'[c] \in Blocked) = FALSE
          /\ \A d \in Clients \ {c} : cpc'[d] = cpc[d]
      BY <1>1, <2>1
    <3> QED BY <3>1, WaitingExcept
  <2> QED BY <2>1, <2>2, <2>3 DEF Timers!Signal
<1>3. CASE cpc[c] \notin Blocked
  <2>1. cpc' = cpc /\ signalled' = [signalled EXCEPT ![c] = TRUE]
    BY <1>3 DEF Signal
  <2>2. ~waiting[c]
    BY <1>3 DEF waiting
  <2>3. waiting' = waiting
    BY <2>1 DEF waiting
  <2> QED BY <2>1, <2>2, <2>3 DEF Timers!Signal
<1> QED BY <1>2, <1>3

\* An entry that is due fires its timeout: its time is over, the slot holds
\* its client's notification, and no other entry is taken out or re-armed.
LEMMA SimScan ==
  ASSUME SysclockInv, TimerScan
  PROVE  (\E e \in armed : Timers!Fire(e)) \/ UNCHANGED Timers!vars
<1> DEFINE x == schedule[cursor]
           v == View(x)
<1>1. /\ cursor \in DOMAIN schedule
      /\ x \in EntryType
      /\ slot[x.aep] = x.caller /\ x.caller \in Clients
      /\ v \in armed
      /\ time' = time
  <2>1. cursor \in DOMAIN schedule /\ time' = time
    BY DEF TimerScan, SysclockInv, TypeOK
  <2>2. x \in EntryType /\ slot[x.aep] = x.caller
    BY <2>1 DEF SysclockInv, TypeOK, UniqueIds
  <2>3. x.caller \in Clients
    BY <2>2 DEF EntryType
  <2> QED BY <2>1, <2>2, <2>3, ArmedFacts
<1>2. /\ v.id = x.aep /\ v.client = x.caller /\ v.periodic = x.periodic
      /\ v.period = x.period /\ v.left = x.left /\ v.wraps = x.wraps
  BY DEF View
<1>3. CASE ~Due(x) /\ UNCHANGED <<schedule, signalled, cpc, retired>>
  BY <1>1, <1>3 DEF Timers!vars, armed, waiting
<1>4. Due(x) => v.left = 0 \/ v.wraps
  BY <1>1, <1>2, EarlyFact DEF DueMeansElapsed
<1>5. Signal(slot[x.aep]) => Timers!Signal(v.client)
  BY <1>1, <1>2, SimSignal
<1>6. CASE /\ Due(x) /\ x.periodic
           /\ Signal(slot[x.aep])
           /\ schedule' = [schedule EXCEPT ![cursor] =
                             Entry(x.aep, x.caller, x.periodic, x.period)]
           /\ UNCHANGED retired
  <2> DEFINE f == Entry(x.aep, x.caller, x.periodic, x.period)
             w == Timers!Timeout(v.id, v.client, TRUE, v.period)
  <2>1. View(f) = w
    <3>1. x.periodic = TRUE
      BY <1>1, <1>6 DEF EntryType
    <3>2. View(f) = Timers!Timeout(x.aep, x.caller, x.periodic, x.period)
      BY NewView
    <3> HIDE DEF f, x, v
    <3> QED BY <1>2, <3>1, <3>2
  <2> HIDE DEF f, w
  <2>2. /\ DOMAIN schedule' = DOMAIN schedule
        /\ schedule'[cursor] = f
        /\ \A i \in DOMAIN schedule \ {cursor} : schedule'[i] = schedule[i]
    BY <1>1, <1>6 DEF f
  <2>3. /\ armed = {View(schedule[j]) : j \in DOMAIN schedule}
        /\ armed' = {View(schedule'[i]) : i \in DOMAIN schedule'}
        /\ \A i, j \in DOMAIN schedule :
             View(schedule[i]) = View(schedule[j]) => i = j
    BY ArmedFacts DEF armed, View
  <2>4. armed' = (armed \ {v}) \cup {w}
    <3> HIDE DEF x
    <3>1. v = View(schedule[cursor])
      BY DEF x
    <3> HIDE DEF v
    <3>2. \A e : e \in armed' => e \in (armed \ {v}) \cup {w}
      BY <1>1, <2>1, <2>2, <2>3, <3>1
    <3>3. \A e : e \in (armed \ {v}) \cup {w} => e \in armed'
      BY <1>1, <2>1, <2>2, <2>3, <3>1
    <3> QED BY <3>2, <3>3
  <2>5. Timers!Fire(v)
    <3>1. v.left = 0 \/ v.wraps
      BY <1>4, <1>6
    <3>2. Timers!Signal(v.client)
      BY <1>5, <1>6
    <3>3. v.periodic /\ retired' = retired
      BY <1>2, <1>6
    <3> HIDE DEF v
    <3> QED BY <1>1, <2>4, <3>1, <3>2, <3>3 DEF Timers!Fire, w
  <2> QED BY <1>1, <2>5
<1>7. CASE /\ Due(x) /\ ~x.periodic
           /\ Signal(slot[x.aep])
           /\ schedule' = FreeByAep(schedule, x.aep)
           /\ retired' = retired \cup {x.aep}
  <2>1. armed' = armed \ {v}
    <3>1. /\ schedule \in Seq(EntryType)
          /\ \A i, j \in DOMAIN schedule :
               schedule[i].aep = schedule[j].aep => i = j
      BY DEF SysclockInv, TypeOK, UniqueIds
    <3>2. PICK k \in 1 .. Len(schedule) :
            schedule[k].aep = x.aep /\ schedule' = RemoveAt(schedule, k)
      BY <1>1, <1>7, <3>1, FreeByAepFacts
    <3>3. k = cursor
      BY <1>1, <3>1, <3>2
    <3> QED BY <1>1, <3>2, <3>3, RemovedView
  <2>2. Timers!Fire(v)
    <3>1. v.left = 0 \/ v.wraps
      BY <1>4, <1>7
    <3>2. Timers!Signal(v.client)
      BY <1>5, <1>7
    <3>3. ~v.periodic /\ retired' = retired \cup {v.id}
      BY <1>2, <1>7
    <3> HIDE DEF v
    <3> QED BY <1>1, <2>1, <3>1, <3>2, <3>3 DEF Timers!Fire
  <2> QED BY <1>1, <2>2
<1> QED BY <1>3, <1>6, <1>7 DEF TimerScan

\* A SET_TIMEOUT sets a timeout under an id that was never used, if the pool
\* has an entry for it.
LEMMA SimSet ==
  ASSUME SysclockInv, TimersInv, ServeSetTimeout
  PROVE  Timers!Set(serving) \/ UNCHANGED Timers!vars
<1>1. /\ spc = "serve" /\ IsSet(serving)
      /\ UNCHANGED <<time, retired, signalled, cpc>>
      /\ serving \in Clients /\ caller_ep \in SlotIds
  BY DEF ServeSetTimeout, timerVars, SysclockInv, ServingInv, TypeOK
<1>2. waiting' = waiting
  BY <1>1 DEF waiting
<1>3. CASE UNCHANGED schedule
  BY <1>1, <1>2, <1>3 DEF Timers!vars, armed
<1>4. CASE ~PoolFull
  <2> DEFINE r == creq[serving]
             f == Entry(caller_ep, serving, r.periodic, r.ms)
             w == Timers!Timeout(caller_ep, serving, r.periodic, r.ms)
  <2>1. schedule' = Append(schedule, f)
    BY <1>4 DEF ServeSetTimeout
  <2>2. View(f) = w
    BY NewView
  <2>3. r.periodic \in BOOLEAN /\ r.ms \in Timeouts
    BY <1>1 DEF SysclockInv, TypeOK, TimersInv, RequestInv
  <2>4. Timers!Fresh(caller_ep)
    <3>1. ~SlotUsed
      BY <1>1 DEF SlotUsed
    <3>2. caller_ep \notin retired
      BY <3>1 DEF SysclockInv, IdsInv, Issued
    <3>3. \A i \in DOMAIN schedule : schedule[i].aep # caller_ep
      BY <3>1 DEF SysclockInv, UniqueIds
    <3>4. \A e \in armed : e.id # caller_ep
      BY <3>3 DEF armed, View
    <3> QED BY <3>2, <3>4 DEF Timers!Fresh
  <2> HIDE DEF f, w, r
  <2>5. armed' = armed \cup {w}
    <3>1. /\ DOMAIN schedule' = 1 .. Len(schedule) + 1
          /\ DOMAIN schedule = 1 .. Len(schedule) /\ Len(schedule) \in Nat
          /\ \A i \in DOMAIN schedule : schedule'[i] = schedule[i]
          /\ schedule'[Len(schedule) + 1] = f
      BY <2>1 DEF SysclockInv, TypeOK
    <3>2. \A i \in DOMAIN schedule' : i \in DOMAIN schedule \/ i = Len(schedule) + 1
      BY <3>1
    <3>3. /\ armed = {View(schedule[j]) : j \in DOMAIN schedule}
          /\ armed' = {View(schedule'[i]) : i \in DOMAIN schedule'}
      BY DEF armed, View
    <3>4. \A e : e \in armed' => e \in armed \cup {w}
      BY <2>2, <3>1, <3>2, <3>3
    <3>5. DOMAIN schedule \subseteq DOMAIN schedule' /\ Len(schedule) + 1 \in DOMAIN schedule'
      BY <3>1
    <3>6. \A e : e \in armed \cup {w} => e \in armed'
      BY <2>2, <3>1, <3>3, <3>5
    <3> QED BY <3>4, <3>6
  <2>6. Timers!Cardinality(armed) < MaxEntries
    BY <1>4, ArmedBound DEF TimersInv
  <2>7. Timers!Set(serving)
    BY <1>1, <1>2, <2>3, <2>4, <2>5, <2>6 DEF Timers!Set, w
  <2> QED BY <2>7
<1> QED BY <1>3, <1>4 DEF ServeSetTimeout

\* A cancel takes out a timeout of the client that sent it, or finds that it
\* has fired or been cancelled already.
LEMMA SimCancel ==
  ASSUME SysclockInv, TimersInv, ServeCancelTimeout
  PROVE  Timers!Cancel(serving) \/ UNCHANGED Timers!vars
<1> DEFINE id == creq[serving].id
<1>1. /\ spc = "serve" /\ serving \in Clients
      /\ UNCHANGED <<time, signalled, cpc>>
      /\ schedule' = FreeByAep(schedule, id)
      /\ retired' = retired \cup ({id} \ {0})
      /\ id \in {0} \cup SlotIds
  BY DEF ServeCancelTimeout, timerVars, SysclockInv, ServingInv, TypeOK
<1>2. waiting' = waiting
  BY <1>1 DEF waiting
<1>3. id \in SlotIds => Owned(serving, id)
  BY <1>1 DEF TimersInv, OwnerInv, Known
<1> HIDE DEF id
<1>4. /\ schedule \in Seq(EntryType)
      /\ DOMAIN schedule = 1 .. Len(schedule)
      /\ \A i, j \in DOMAIN schedule : schedule[i].aep = schedule[j].aep => i = j
      /\ \A i \in DOMAIN schedule : schedule[i].aep \in SlotIds
  <2>1. /\ schedule \in Seq(EntryType)
        /\ \A i, j \in DOMAIN schedule : schedule[i].aep = schedule[j].aep => i = j
    BY DEF SysclockInv, TypeOK, UniqueIds
  <2>2. \A i \in DOMAIN schedule : schedule[i] \in EntryType
    BY <2>1
  <2>3. \A x \in EntryType : x.aep \in SlotIds
    BY DEF EntryType
  <2> QED BY <2>1, <2>2, <2>3
<1>5. CASE \A i \in DOMAIN schedule : schedule[i].aep # id
  <2>1. schedule' = schedule
    BY <1>1, <1>5 DEF FreeByAep
  <2>2. id = 0 \/ id \in retired
    BY <1>1, <1>3, <1>5 DEF Owned, Scheduled
  <2>3. retired' = retired
    BY <1>1, <2>2
  <2> QED BY <1>1, <1>2, <2>1, <2>3 DEF Timers!vars, armed
<1>6. CASE \E i \in DOMAIN schedule : schedule[i].aep = id
  <2>1. PICK k \in DOMAIN schedule :
          schedule[k].aep = id /\ schedule' = RemoveAt(schedule, k)
    BY <1>1, <1>4, <1>6, FreeByAepFacts
  <2> DEFINE v == View(schedule[k])
  <2>2. armed' = armed \ {v}
    BY <2>1, RemovedView
  <2>3. v \in armed
    BY ArmedFacts
  <2>4. id \in SlotIds /\ id # 0
    BY <1>4, <2>1 DEF SlotIds
  <2>5. v.id = id /\ v.client = serving
    <3>1. slot[id] = serving
      BY <1>3, <2>4 DEF Owned
    <3> QED BY <2>1, <3>1 DEF View, SysclockInv, UniqueIds
  <2>6. retired' = retired \cup {id}
    BY <1>1, <2>4
  <2> HIDE DEF v
  <2>7. Timers!Cancel(serving)
    BY <1>1, <1>2, <2>2, <2>3, <2>5, <2>6 DEF Timers!Cancel
  <2> QED BY <2>7
<1> QED BY <1>5, <1>6

\* A wait takes the pending signal or blocks.
LEMMA SimWait ==
  ASSUME SysclockInv, NEW c \in Clients, cpc[c] \notin Blocked,
         NEW state \in Blocked, Wait(c, state)
  PROVE  Timers!Wait(c)
<1>1. /\ cpc \in [Clients -> ClientStates]
      /\ \A s : Resume(s) \notin Blocked
      /\ UNCHANGED <<time, schedule, retired>>
  BY DEF SysclockInv, TypeOK, Resume, Blocked, Wait, timerVars
<1>2. armed' = armed /\ ~waiting[c]
  BY <1>1 DEF armed, waiting
<1>3. CASE signalled[c]
  <2>1. /\ signalled' = [signalled EXCEPT ![c] = FALSE]
        /\ cpc' = [cpc EXCEPT ![c] = Resume(state)]
    BY <1>3 DEF Wait
  <2>2. cpc'[c] \notin Blocked /\ \A d \in Clients \ {c} : cpc'[d] = cpc[d]
    BY <1>1, <2>1
  <2>3. waiting' = waiting
    BY <2>2, WaitingSame
  <2> QED BY <1>1, <1>2, <1>3, <2>1, <2>3 DEF Timers!Wait
<1>4. CASE ~signalled[c]
  <2>1. signalled' = signalled /\ cpc' = [cpc EXCEPT ![c] = state]
    BY <1>4 DEF Wait
  <2>2. /\ (cpc'[c] \in Blocked) = TRUE
        /\ \A d \in Clients \ {c} : cpc'[d] = cpc[d]
    BY <1>1, <2>1
  <2>3. waiting' = [waiting EXCEPT ![c] = TRUE]
    BY <2>2, WaitingExcept
  <2> QED BY <1>1, <1>2, <1>4, <2>1, <2>3 DEF Timers!Wait
<1> QED BY <1>3, <1>4

\* No other step of the two threads or of a client is one of the service.
LEMMA SimOther ==
  ASSUME SysclockInv,
         \/ TimerLock \/ TimerUnlock \/ ServerRecv \/ ServeGetTime
         \/ ServerReply \/ ServerNewSlot \/ UNCHANGED vars
         \/ \E c \in Clients : \/ ClientSchedule(c) \/ ThreadSleep(c)
                               \/ CancelTimeout(c) \/ GetTime(c)
  PROVE  UNCHANGED Timers!vars
<1>1. UNCHANGED <<time, schedule, retired, signalled>>
  BY DEF TimerLock, TimerUnlock, ServerRecv, ServeGetTime, ServerReply,
     ServerNewSlot, vars, ClientSchedule, ThreadSleep, CancelTimeout, GetTime,
     ScheduleTimeout, Call, timerVars
<1>2. \A d \in Clients : cpc'[d] \in Blocked <=> cpc[d] \in Blocked
  <2>1. cpc \in [Clients -> ClientStates]
    BY DEF SysclockInv, TypeOK
  <2>2. CASE ServerReply
    <3>1. /\ serving \in Clients /\ cpc[serving] = "call"
          /\ cpc' = [cpc EXCEPT ![serving] = AfterReply(serving)]
          /\ AfterReply(serving) \notin Blocked
      BY <2>2 DEF ServerReply, SysclockInv, ServingInv, AfterReply, Blocked
    <3> QED BY <2>1, <3>1 DEF Blocked
  <2>3. CASE \E c \in Clients : \/ ClientSchedule(c) \/ ThreadSleep(c)
                                \/ CancelTimeout(c) \/ GetTime(c)
    <3>1. PICK c \in Clients : /\ cpc[c] \notin Blocked
                               /\ cpc' = [cpc EXCEPT ![c] = "call"]
      BY <2>3 DEF ClientSchedule, ThreadSleep, CancelTimeout, GetTime,
         ScheduleTimeout, Call, Blocked
    <3> QED BY <2>1, <3>1 DEF Blocked
  <2>4. CASE \/ TimerLock \/ TimerUnlock \/ ServerRecv \/ ServeGetTime
             \/ ServerNewSlot \/ UNCHANGED vars
    BY <2>4 DEF TimerLock, TimerUnlock, ServerRecv, ServeGetTime,
       ServerNewSlot, vars
  <2> QED BY <2>2, <2>3, <2>4
<1>3. waiting' = waiting
  BY <1>2, WaitingSame
<1> QED BY <1>1, <1>3 DEF Timers!vars, armed

\* Every step of the system is a step of the service, or none.
LEMMA SimStep ==
  ASSUME SysclockInv, TimersInv, [Next]_vars
  PROVE  [Timers!Next]_(Timers!vars)
<1>1. CASE TimerTick
  BY <1>1, SimTick DEF Timers!Next
<1>2. CASE TimerScan
  BY <1>2, SimScan DEF Timers!Next
<1>3. CASE ServeSetTimeout
  <2>1. serving \in Clients
    BY <1>3 DEF ServeSetTimeout, SysclockInv, ServingInv
  <2> QED BY <1>3, <2>1, SimSet DEF Timers!Next
<1>4. CASE ServeCancelTimeout
  <2>1. serving \in Clients
    BY <1>4 DEF ServeCancelTimeout, SysclockInv, ServingInv
  <2> QED BY <1>4, <2>1, SimCancel DEF Timers!Next
<1>5. ASSUME NEW c \in Clients, WaitForTimeout(c) \/ SleepWait(c)
      PROVE  [Timers!Next]_(Timers!vars)
  <2>1. PICK state \in Blocked : Wait(c, state) /\ cpc[c] \notin Blocked
    BY <1>5 DEF WaitForTimeout, SleepWait, Blocked
  <2>2. Timers!Wait(c)
    BY <2>1, SimWait
  <2> QED BY <2>2 DEF Timers!Next
<1>6. CASE \/ TimerLock \/ TimerUnlock \/ ServerRecv \/ ServeGetTime
           \/ ServerReply \/ ServerNewSlot \/ UNCHANGED vars
           \/ \E c \in Clients : \/ ClientSchedule(c) \/ ThreadSleep(c)
                                 \/ CancelTimeout(c) \/ GetTime(c)
  BY <1>6, SimOther
<1> QED BY <1>1, <1>2, <1>3, <1>4, <1>5, <1>6
        DEF Next, TimerNext, ServerNext, ClientNext

\* The service starts with no timeout set and nobody waiting.
LEMMA SimInit == Init => Timers!Init
<1> SUFFICES ASSUME Init PROVE Timers!Init
  OBVIOUS
<1>1. armed = {}
  BY DEF Init, armed
<1>2. waiting = [c \in Clients |-> FALSE]
  <2>1. \A c \in Clients : (cpc[c] \in Blocked) = FALSE
    BY DEF Init, Blocked
  <2> QED BY <2>1, Zenon DEF waiting
<1> QED BY <1>1, <1>2 DEF Init, Timers!Init

-----------------------------------------------------------------------------
(* Theorems.                                                               *)

\* The strengthened invariant holds in every reachable state.
THEOREM InvHolds == Spec => []SysclockInv
<1> QED BY InitInv, StepInv, PTL DEF Spec

\* Type correctness of the service's and the clients' state.
THEOREM TypeCorrect == Spec => []TypeOK
<1>1. SysclockInv => TypeOK
  BY DEF SysclockInv
<1> QED BY <1>1, InvHolds, PTL

\* A timeout id names at most one entry, and its slot holds the notification
\* of the client that asked for it.
THEOREM IdsUnique == Spec => []UniqueIds
<1>1. SysclockInv => UniqueIds
  BY DEF SysclockInv
<1> QED BY <1>1, InvHolds, PTL

\* A cancelled timeout, and a one-shot timeout that has fired, is never in
\* the schedule again.
THEOREM RetiredStayOut == Spec => []RetiredNeverScheduled
<1>1. SysclockInv => RetiredNeverScheduled
  BY DEF SysclockInv
<1> QED BY <1>1, InvHolds, PTL

\* No timeout whose deadline fits the clock's word is due early.
THEOREM NotEarly == Spec => []DueMeansElapsed
<1> QED BY EarlyFact, InvHolds, PTL

\* A walk of the timer thread serves every entry that is due.
THEOREM WalkComplete == Spec => []ScanServesAll
<1>1. SysclockInv => ScanServesAll
  <2> SUFFICES ASSUME SysclockInv, ScanDone, NEW i \in DOMAIN schedule
               PROVE  Served(schedule[i])
    BY DEF ScanServesAll, Served
  <2>1. i < cursor
    BY DEF ScanDone, SysclockInv, TypeOK
  <2> QED BY <2>1 DEF SysclockInv, ScanInv, ScanDone
<1> QED BY <1>1, InvHolds, PTL

\* A timeout leaves the schedule only when it fired or was cancelled, and no
\* other leaves with it: simple_pool_free, which compares the contents of
\* entries, never takes out another client's.
THEOREM OnlyRetiredLeave == Spec => LeavesOnlyRetired
<1>1. SysclockInv /\ [Next]_vars =>
        [\A id \in SlotIds : Scheduled(id) /\ ~Scheduled(id)' =>
           /\ id \in retired' \ retired
           /\ Len(schedule') = Len(schedule) - 1]_vars
  BY StepLeaves
<1> QED BY <1>1, InvHolds, PTL DEF Spec, LeavesOnlyRetired

\* Where threads use their wait_aep for sleeping only, which is what the model
\* says with the library calls they make: sel4osapi_thread_sleep does not
\* return before its time has elapsed on the clock, unless the deadline
\* overflowed.  No signal of an earlier sleep is left over, and the timer
\* thread may fire between the server's reply and the client's wait.
THEOREM SleepsWhole ==
  ASSUME Ops \subseteq SleepOps
  PROVE  Spec => SleepNotEarly
<1> DEFINE Early == \A c \in Clients :
                      /\ cpc[c] \in {"nap", "sleep"}
                      /\ cpc'[c] = "run"
                      /\ ~nap[c].wraps
                      => nap[c].left = 0
<1>1. SysclockInv /\ SleepInv /\ [Next]_vars => [Early]_vars
  <2> SUFFICES ASSUME SysclockInv, SleepInv, Next, NEW c \in Clients,
                      cpc[c] \in {"nap", "sleep"}, cpc'[c] = "run", ~nap[c].wraps
               PROVE  nap[c].left = 0
    OBVIOUS
  <2>1. cpc' # cpc /\ cpc \in [Clients -> ClientStates]
    BY DEF SysclockInv, TypeOK
  <2>2. CASE TimerScan
    <3> DEFINE e == schedule[cursor]
    <3>1. /\ cursor \in DOMAIN schedule
          /\ Due(e) /\ Signal(slot[e.aep])
      BY <2>1, <2>2 DEF TimerScan, SysclockInv, TypeOK
    <3>2. slot[e.aep] = e.caller
      BY <3>1 DEF SysclockInv, UniqueIds
    <3>3. e.caller = c
      BY <2>1, <3>1, <3>2 DEF Signal
    <3>4. e.wraps \/ e.left = 0
      BY <3>1, EarlyFact DEF DueMeansElapsed
    <3>5. PendingEntry(e)
      BY <3>1 DEF SleepInv, EntriesInv
    <3> QED BY <3>3, <3>4, <3>5 DEF PendingEntry
  <2>3. CASE ServerReply
    <3>1. cpc[serving] = "call" /\ serving \in Clients
      BY <2>3 DEF ServerReply, SysclockInv, ServingInv
    <3> QED BY <2>1, <2>3, <3>1 DEF ServerReply
  <2>4. ASSUME NEW d \in Clients, ClientNext(d)
        PROVE  nap[c].left = 0
    <3>1. CASE SleepWait(d)
      <4>1. d = c /\ signalled[c]
        BY <2>1, <3>1 DEF SleepWait, Wait
      <4> QED BY <4>1 DEF SleepInv, PendingInv
    <3>2. CASE WaitForTimeout(d)
      BY <3>2 DEF WaitForTimeout, SleepOps
    <3>3. CASE ClientSchedule(d) \/ ThreadSleep(d) \/ CancelTimeout(d) \/ GetTime(d)
      BY <2>1, <3>3 DEF ClientSchedule, ThreadSleep, CancelTimeout, GetTime,
         ScheduleTimeout, Call
    <3> QED BY <2>4, <3>1, <3>2, <3>3 DEF ClientNext
  <2>5. CASE TimerTick \/ TimerLock \/ TimerUnlock \/ ServerRecv \/ ServeSetTimeout
             \/ ServeCancelTimeout \/ ServeGetTime \/ ServerNewSlot
    BY <2>1, <2>5 DEF TimerTick, TimerLock, TimerUnlock, ServerRecv,
       ServeSetTimeout, ServeCancelTimeout, ServeGetTime, ServerNewSlot
  <2> QED BY <2>2, <2>3, <2>4, <2>5 DEF Next, TimerNext, ServerNext
<1>2. SysclockInv /\ SleepInv /\ [Next]_vars => SleepInv'
  BY SleepStep
<1>3. Spec => []SleepInv
  BY <1>2, SleepInit, InvHolds, PTL DEF Spec
<1> QED BY <1>1, <1>3, InvHolds, PTL DEF Spec, SleepNotEarly

\* The sysclock threads, the pool behind the schedule and the kernel's
\* notifications together are a timer service: a timeout that is set fires
\* for its own client, not before its time is over (unless its deadline
\* overflowed), is cancelled by its own client only, and its id is never used
\* again.
THEOREM TimersImplemented == Spec => ImplementsTimers
<1>1. Init => Timers!Init
  BY SimInit
<1>2. SysclockInv /\ TimersInv /\ [Next]_vars => TimersInv'
  BY TimersStep
<1>3. SysclockInv /\ TimersInv /\ [Next]_vars => [Timers!Next]_(Timers!vars)
  BY SimStep
<1> QED BY <1>1, <1>2, <1>3, TimersInit, InvHolds, PTL
        DEF Spec, ImplementsTimers, Timers!Spec
=============================================================================
