------------------------------ MODULE PoolSpec ------------------------------
(***************************************************************************)
(* What a simple_pool_t (src/pool.c) promises its users: a fixed set of    *)
(* elements, each either in use or free; alloc hands out the element that  *)
(* has been free longest and free takes one back.  The used elements are a *)
(* FIFO sequence: Sysclock and UdpRecv rely on that.                       *)
(*                                                                         *)
(* A pool is made with an init and a compare function (the timeouts of the *)
(* SysClock) or with neither (all others): `custom'.                       *)
(***************************************************************************)
EXTENDS Integers, SequencesExt, FiniteSets

CONSTANTS
  Elements,  \* the elements malloc'ed by simple_pool_new
  Values,    \* what users write to an element (aep of a timeout)
  Cleared    \* what init_fn writes

VARIABLES
  used,    \* the elements in use, in the order they were allocated
  free,    \* the free elements, in the order they will be allocated
  value,   \* the content of every element
  custom   \* the pool has init_fn and compare_fn

vars == <<used, free, value, custom>>

PoolType ==
  /\ used \in Seq(Elements)
  /\ free \in Seq(Elements)
  /\ value \in [Elements -> Values]
  /\ custom \in BOOLEAN

\* An enumeration of the elements: simple_pool_new inserts them one by one.
Orders == {s \in [1 .. Cardinality(Elements) -> Elements] : IsInjective(s)}

Init ==
  /\ used = << >>
  /\ free \in Orders
  /\ custom \in BOOLEAN
  /\ value \in [Elements -> Values]
  /\ custom => value = [e \in Elements |-> Cleared]

\* init_fn, when there is one.
Reset(e) == IF custom THEN [value EXCEPT ![e] = Cleared] ELSE value

\* An empty free list: simple_pool_alloc returns NULL and nothing changes.
Alloc ==
  /\ free # << >>
  /\ used' = Append(used, Head(free))
  /\ free' = Tail(free)
  /\ value' = Reset(Head(free))
  /\ UNCHANGED custom

\* The owner of an element writes to it.
Write(e, v) ==
  /\ e \in Range(used)
  /\ value' = [value EXCEPT ![e] = v]
  /\ UNCHANGED <<used, free, custom>>

\* compare_fn compares contents; without one elements are compared by address.
Same(e, f) == IF custom THEN value[e] = value[f] ELSE e = f

\* The place of the first used element that compares equal to e.
IsFirst(i, e) ==
  /\ i \in DOMAIN used
  /\ Same(used[i], e)
  /\ \A j \in 1 .. i - 1 : ~Same(used[j], e)

\* No element compares equal: simple_pool_free returns -1.
Free(e) ==
  \E i \in DOMAIN used :
    /\ IsFirst(i, e)
    /\ used' = RemoveAt(used, i)
    /\ free' = Append(free, used[i])
    /\ value' = Reset(used[i])
    /\ UNCHANGED custom

Next ==
  \/ Alloc
  \/ \E e \in Elements, v \in Values : Write(e, v)
  \/ \E e \in Elements : Free(e)

Spec == Init /\ [][Next]_vars

-----------------------------------------------------------------------------
\* Every element is in exactly one place, once: an element that is in use is
\* never handed out again before it is freed, and none is lost.
Partition ==
  /\ IsInjective(used)
  /\ IsInjective(free)
  /\ Range(used) \cap Range(free) = {}
  /\ Range(used) \cup Range(free) = Elements
=============================================================================
