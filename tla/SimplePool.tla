----------------------------- MODULE SimplePool -----------------------------
(***************************************************************************)
(* simple_pool_t (src/pool.c) on the doubly linked lists of src/list.c,    *)
(* node by node.  A node and the element it carries are one thing: neither *)
(* changes partner after simple_pool_new.                                  *)
(*                                                                         *)
(* A pool has no lock of its own.  An operation is one action: the users   *)
(* call it with the mutex that guards the pool, or have one thread.        *)
(***************************************************************************)
EXTENDS Integers, SequencesExt, FiniteSets

CONSTANTS
  Size,     \* the `size' the pool is made with
  Values,   \* what users write to an element
  Cleared   \* what init_fn writes

Nodes == 1 .. Size
NULL == 0

ASSUME SizeAssumption == Size \in Nat \ {0}
ASSUME ValuesAssumption == Cleared \in Values

VARIABLES
  heap,          \* the fields `next' and `prev' of every node
  free_entries,  \* first node of the free list, or NULL
  entries,       \* first node of the list of nodes in use, or NULL
  current_size,
  value,         \* the content of every element
  custom         \* init_fn and compare_fn are given

listVars == <<heap, free_entries, entries, current_size, value, custom>>

ListTypeOK ==
  /\ heap \in [Nodes -> [next: Nodes \cup {NULL}, prev: Nodes \cup {NULL}]]
  /\ free_entries \in Nodes \cup {NULL}
  /\ entries \in Nodes \cup {NULL}
  /\ current_size \in 0 .. Size
  /\ value \in [Nodes -> Values]
  /\ custom \in BOOLEAN

-----------------------------------------------------------------------------
(* Lists.  A list is its first node; an operation yields the heap and the  *)
(* new first node.                                                         *)

List(h, first) == [heap |-> h, head |-> first]

\* sel4osapi_list_to_array: the nodes from `first' on, at most n of them.
ListToArray(h, first, n) ==
  LET node[i \in 1 .. n] ==
        IF i = 1 THEN first
        ELSE IF node[i - 1] = NULL THEN NULL ELSE h[node[i - 1]].next
      length == Cardinality({i \in 1 .. n : node[i] # NULL})
  IN [i \in 1 .. length |-> node[i]]

\* sel4osapi_list_insert_node: walks to the last node and appends.
InsertNode(h, first, node) ==
  LET all == ListToArray(h, first, Size) IN
  IF all = << >>
  THEN List([h EXCEPT ![node] = [next |-> NULL, prev |-> NULL]], node)
  ELSE List([h EXCEPT ![node] = [next |-> NULL, prev |-> Last(all)],
                      ![Last(all)].next = node], first)

\* Mutant of Unlink: the next node keeps its pointer to the unlinked one.
UnlinkNoPrev(h, first, node) ==
  LET p == h[node].prev
      n == h[node].next
  IN List([m \in Nodes |->
             IF m = node THEN [next |-> NULL, prev |-> NULL]
             ELSE [next |-> IF m = p THEN n ELSE h[m].next,
                   prev |-> h[m].prev]],
          IF first = node THEN n ELSE first)

\* sel4osapi_list_unlink.
Unlink(h, first, node) ==
  LET p == h[node].prev
      n == h[node].next
  IN List([m \in Nodes |->
             IF m = node THEN [next |-> NULL, prev |-> NULL]
             ELSE [next |-> IF m = p THEN n ELSE h[m].next,
                   prev |-> IF m = n THEN p ELSE h[m].prev]],
          IF first = node THEN n ELSE first)

-----------------------------------------------------------------------------
\* simple_pool_new: one sel4osapi_list_insert per element.
NewList ==
  LET after[k \in 0 .. Size] ==
        IF k = 0
        THEN List([m \in Nodes |-> [next |-> NULL, prev |-> NULL]], NULL)
        ELSE InsertNode(after[k - 1].heap, after[k - 1].head, k)
  IN after[Size]

\* The content of an element is whatever malloc returned if there is no
\* init_fn.
ListInit ==
  /\ heap = NewList.heap
  /\ free_entries = NewList.head
  /\ entries = NULL
  /\ current_size = 0
  /\ custom \in BOOLEAN
  /\ value \in [Nodes -> Values]
  /\ custom => value = [m \in Nodes |-> Cleared]

Reset(m) == IF custom THEN [value EXCEPT ![m] = Cleared] ELSE value

\* Moves a node from one list to the end of the other.
MoveNode(node, from, to) ==
  LET a == Unlink(heap, from, node)
      b == InsertNode(a.heap, to, node)
  IN [heap |-> b.heap, from |-> a.head, to |-> b.head]

AllocEntry ==
  /\ free_entries # NULL
  /\ LET m == MoveNode(free_entries, free_entries, entries) IN
       /\ heap' = m.heap
       /\ free_entries' = m.from
       /\ entries' = m.to
  /\ value' = Reset(free_entries)
  /\ current_size' = current_size + 1
  /\ UNCHANGED custom

\* The user writes to an element it was given.
Write(node, v) ==
  /\ node \in Range(ListToArray(heap, entries, Size))
  /\ value' = [value EXCEPT ![node] = v]
  /\ UNCHANGED <<heap, free_entries, entries, current_size, custom>>

Same(m, node) == IF custom THEN value[m] = value[node] ELSE m = node

\* Mutant of FindNode: the last node that compares equal.
FindLastNode(node) ==
  LET all == ListToArray(heap, entries, Size)
      equal == {i \in DOMAIN all : Same(all[i], node)}
  IN IF equal = {} THEN NULL ELSE all[Max(equal)]

\* simple_pool_find_node: the first node that compares equal, or NULL.
FindNode(node) ==
  LET all == ListToArray(heap, entries, Size)
      equal == {i \in DOMAIN all : Same(all[i], node)}
  IN IF equal = {} THEN NULL ELSE all[Min(equal)]

\* simple_pool_free of any element, one that is free already included: with
\* no node that compares equal it returns -1.
FreeEntry(node) ==
  /\ FindNode(node) # NULL
  /\ LET e == FindNode(node)
         m == MoveNode(e, entries, free_entries)
     IN /\ heap' = m.heap
        /\ entries' = m.from
        /\ free_entries' = m.to
        /\ value' = Reset(e)
  /\ current_size' = current_size - 1
  /\ UNCHANGED custom

ListNext ==
  \/ AllocEntry
  \/ \E m \in Nodes, v \in Values : Write(m, v)
  \/ \E m \in Nodes : FreeEntry(m)

ListSpec == ListInit /\ [][ListNext]_listVars

-----------------------------------------------------------------------------
(* Properties.                                                             *)

usedNodes == ListToArray(heap, entries, Size)
freeNodes == ListToArray(heap, free_entries, Size)

\* A list is sound: it ends, no node is in it twice, and `prev' leads back.
SoundList(s) ==
  /\ IsInjective(s)
  /\ \A i \in DOMAIN s :
       /\ heap[s[i]].next = IF i = Len(s) THEN NULL ELSE s[i + 1]
       /\ heap[s[i]].prev = IF i = 1 THEN NULL ELSE s[i - 1]

\* Each node is in one of the lists, and current_size counts those in use
\* (processes and threads take their ids from it).
Accounted ==
  /\ Range(usedNodes) \cap Range(freeNodes) = {}
  /\ Len(usedNodes) + Len(freeNodes) = Size
  /\ current_size = Len(usedNodes)

\* Whatever is allocated and freed, in any order, both lists stay sound
\* doubly linked lists: freeing a node in the middle, the last one or the
\* only one leaves no dangling pointer and no cycle, and loses no node.
ListsSound == ListTypeOK /\ SoundList(usedNodes) /\ SoundList(freeNodes) /\ Accounted

Pool == INSTANCE PoolSpec
          WITH Elements <- Nodes, used <- usedNodes, free <- freeNodes

\* The linked lists implement the two FIFO sequences of PoolSpec.
ImplementsPool == Pool!Spec
=============================================================================
