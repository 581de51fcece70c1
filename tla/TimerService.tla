---------------------------- MODULE TimerService ----------------------------
(***************************************************************************)
(* What the SysClock service promises its clients.  A timeout that is set  *)
(* gets an id that no other has or had; it fires once its time is over, a  *)
(* one-shot once, a periodic one again and again, until its own client     *)
(* cancels it; and firing wakes its client and nobody else, or is          *)
(* remembered for the client's next wait.                                  *)
(*                                                                         *)
(* The clock is a word of the machine.  A timeout whose deadline does not  *)
(* fit one may fire at any time.                                           *)
(***************************************************************************)
EXTENDS Integers, FiniteSets

CONSTANTS
  Clients,
  Ids,       \* what timeouts are known by
  Capacity,  \* timeouts that may be set at a time
  Timeouts,  \* the milliseconds clients ask for
  Period,    \* milliseconds between two interrupts of the timer
  Word       \* number of values of a uint32_t

VARIABLES
  time,     \* the clock
  armed,    \* the timeouts that are set
  gone,     \* ids of those that have fired for good or were cancelled
  pending,  \* a signal waits for a client's next wait
  waiting   \* a client waits

vars == <<time, armed, gone, pending, waiting>>

Init ==
  /\ time = 0
  /\ armed = {}
  /\ gone = {}
  /\ pending = [c \in Clients |-> FALSE]
  /\ waiting = [c \in Clients |-> FALSE]

\* A timeout set now: `left' milliseconds have to pass before it fires.
Timeout(id, client, periodic, period) ==
  [id |-> id, client |-> client, periodic |-> periodic, period |-> period,
   left |-> period, wraps |-> time + period >= Word]

Fresh(id) == id \notin gone /\ \A e \in armed : e.id # id

Set(c) ==
  /\ Cardinality(armed) < Capacity
  /\ \E id \in Ids, periodic \in BOOLEAN, ms \in Timeouts :
       /\ Fresh(id)
       /\ armed' = armed \cup {Timeout(id, c, periodic, ms)}
  /\ UNCHANGED <<time, gone, pending, waiting>>

\* One id is gone; others are not touched.
Cancel(c) ==
  /\ \E e \in armed :
       /\ e.client = c
       /\ armed' = armed \ {e}
       /\ gone' = gone \cup {e.id}
  /\ UNCHANGED <<time, pending, waiting>>

Tick ==
  /\ time' = (time + Period) % Word
  /\ armed' = {[e EXCEPT !.left = IF @ > Period THEN @ - Period ELSE 0] :
                 e \in armed}
  /\ UNCHANGED <<gone, pending, waiting>>

Signal(c) ==
  IF waiting[c]
  THEN /\ waiting' = [waiting EXCEPT ![c] = FALSE]
       /\ UNCHANGED pending
  ELSE /\ pending' = [pending EXCEPT ![c] = TRUE]
       /\ UNCHANGED waiting

Fire(e) ==
  /\ e.left = 0 \/ e.wraps
  /\ Signal(e.client)
  /\ \/ /\ e.periodic
        /\ armed' = (armed \ {e}) \cup
                      {Timeout(e.id, e.client, TRUE, e.period)}
        /\ UNCHANGED gone
     \/ /\ ~e.periodic
        /\ armed' = armed \ {e}
        /\ gone' = gone \cup {e.id}
  /\ UNCHANGED time

Wait(c) ==
  /\ ~waiting[c]
  /\ IF pending[c]
     THEN /\ pending' = [pending EXCEPT ![c] = FALSE]
          /\ UNCHANGED waiting
     ELSE /\ waiting' = [waiting EXCEPT ![c] = TRUE]
          /\ UNCHANGED pending
  /\ UNCHANGED <<time, armed, gone>>

Next ==
  \/ Tick
  \/ \E e \in armed : Fire(e)
  \/ \E c \in Clients : Set(c) \/ Cancel(c) \/ Wait(c)

Spec == Init /\ [][Next]_vars
=============================================================================
