-------------------------- MODULE DatagramChannel ---------------------------
(***************************************************************************)
(* What a bound socket promises the threads that call sel4osapi_udp_recv:  *)
(* a FIFO channel.  A datagram is lost only when it arrives while the      *)
(* channel is full, or when the call that takes it has no room for it.     *)
(*                                                                         *)
(* The limit is not sharp: the entry of a datagram goes back to the pool   *)
(* some time after its receiver got the reply.  So one may be dropped with *)
(* Capacity - 1 waiting, if an entry whose datagram is returned already is *)
(* not free yet; and one may be accepted with Capacity waiting, if the     *)
(* first is still to be read and its entry is free.                        *)
(***************************************************************************)
EXTENDS Integers, Sequences

CONSTANTS
  Sockets,
  Lens,      \* the lengths datagrams have
  Capacity,  \* entries of a socket's pool of messages
  MaxLen     \* room in the receivers' buffers

VARIABLES
  arrived,   \* number of datagrams that arrived on any socket
  waiting,   \* datagrams of a socket that no call has taken, oldest first
  returned   \* datagrams that calls returned, in order

vars == <<arrived, waiting, returned>>

Init ==
  /\ arrived = 0
  /\ waiting = [s \in Sockets |-> << >>]
  /\ returned = [s \in Sockets |-> << >>]

Accept(s) ==
  /\ Len(waiting[s]) <= Capacity
  /\ arrived' = arrived + 1
  /\ \E len \in Lens :
       waiting' = [waiting EXCEPT ![s] =
                     Append(@, [id |-> arrived + 1, len |-> len])]
  /\ UNCHANGED returned

Drop(s) ==
  /\ Len(waiting[s]) >= Capacity - 1
  /\ arrived' = arrived + 1
  /\ UNCHANGED <<waiting, returned>>

Fits(m) == m.len # 0 /\ m.len <= MaxLen

\* A call takes the oldest datagram; it fails when it has no room for it.
Take(s) ==
  /\ waiting[s] # << >>
  /\ waiting' = [waiting EXCEPT ![s] = Tail(@)]
  /\ returned' = IF Fits(Head(waiting[s]))
                 THEN [returned EXCEPT ![s] = Append(@, Head(waiting[s]))]
                 ELSE returned
  /\ UNCHANGED arrived

Next == \E s \in Sockets : Accept(s) \/ Drop(s) \/ Take(s)

Spec == Init /\ [][Next]_vars
=============================================================================
