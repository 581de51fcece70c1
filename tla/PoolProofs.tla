----------------------------- MODULE PoolProofs -----------------------------
(***************************************************************************)
(* Proofs about the pools.  PoolSpec: each element is free or in use, and  *)
(* only once.  SimplePool: the linked lists of every size stay sound and   *)
(* implement PoolSpec.  Thread: the tids that a process takes from the     *)
(* size of its pool of threads.                                            *)
(*                                                                         *)
(* For SimplePool the inductive invariant is ListInv: the nodes that a     *)
(* walk sees are a chain, linked in both directions.  The walk and         *)
(* simple_pool_new are recursive functions; what they yield is shown by    *)
(* a function that satisfies their equation, and that no other does, for   *)
(* there is no least argument at which another could differ.               *)
(*                                                                         *)
(* ThreadInv is inductive for Thread: until an element of the pool is      *)
(* handed out twice, the free ones are those after the `size' that were    *)
(* taken, in order; and until two creations overlap, the one that is under *)
(* way has the next element, so that the tid it reads is the position of   *)
(* its element.                                                            *)
(***************************************************************************)
EXTENDS Thread, SimplePool, SequenceTheorems, FiniteSetTheorems,
        WellFoundedInduction, TLAPS

-----------------------------------------------------------------------------
(* Facts about sequences.                                                  *)

\* A set of natural numbers has a least element.
LEMMA LeastIndex ==
  ASSUME NEW T, T \subseteq Nat, T # {}
  PROVE  \E k \in T : \A j \in T : k <= j
<1>1. IsWellFoundedOn(OpToRel(<, Nat), Nat)
  BY NatLessThanWellFounded
<1>2. PICK k \in T : \A y \in T : ~(<<y, k>> \in OpToRel(<, Nat))
  BY <1>1, WFMin
<1>3. \A y \in T : ~(y < k)
  BY <1>2 DEF OpToRel
<1> QED BY <1>3

\* The elements of a sequence that grows by one, or loses its first.
LEMMA RangeFacts ==
  ASSUME NEW S, NEW q \in Seq(S), NEW e \in S
  PROVE  /\ Append(q, e) \in Seq(S)
         /\ Range(Append(q, e)) = Range(q) \cup {e}
         /\ IsInjective(q) /\ e \notin Range(q) => IsInjective(Append(q, e))
<1>1. /\ Append(q, e) \in Seq(S)
      /\ DOMAIN q = 1 .. Len(q)
      /\ DOMAIN Append(q, e) = 1 .. Len(q) + 1
      /\ Append(q, e)[Len(q) + 1] = e
      /\ \A i \in 1 .. Len(q) : Append(q, e)[i] = q[i]
      /\ Len(q) \in Nat
  OBVIOUS
<1>2. \A i \in 1 .. Len(q) + 1 : i \in 1 .. Len(q) \/ i = Len(q) + 1
  BY <1>1
<1>3. 1 .. Len(q) \subseteq 1 .. Len(q) + 1 /\ Len(q) + 1 \in 1 .. Len(q) + 1
  BY <1>1
<1>4. Range(Append(q, e)) = Range(q) \cup {e}
  BY <1>1, <1>2, <1>3 DEF Range
<1>5. ASSUME IsInjective(q), e \notin Range(q)
      PROVE  IsInjective(Append(q, e))
  BY <1>1, <1>2, <1>5 DEF IsInjective, Range
<1> QED
  BY <1>1, <1>4, <1>5

\* What RemoveAt returns.
LEMMA RemoveAtFacts ==
  ASSUME NEW S, NEW s \in Seq(S), NEW k \in 1 .. Len(s)
  PROVE  /\ RemoveAt(s, k) \in Seq(S)
         /\ Len(RemoveAt(s, k)) = Len(s) - 1
         /\ \A i \in 1 .. Len(s) - 1 :
              RemoveAt(s, k)[i] = IF i < k THEN s[i] ELSE s[i + 1]
<1> DEFINE front == SubSeq(s, 1, k - 1)
           back  == SubSeq(s, k + 1, Len(s))
<1>1. /\ front \in Seq(S)
      /\ Len(front) = k - 1
      /\ \A i \in 1 .. k - 1 : front[i] = s[i]
  <2>1. \A i \in 1 .. k - 1 : s[i] \in S
    OBVIOUS
  <2> QED BY <2>1, SubSeqProperties
<1>2. /\ back \in Seq(S)
      /\ Len(back) = Len(s) - k
      /\ \A i \in 1 .. Len(s) - k : back[i] = s[k + i]
  <2>1. \A i \in k + 1 .. Len(s) : s[i] \in S
    OBVIOUS
  <2>2. /\ SubSeq(s, k + 1, Len(s)) \in Seq(S)
        /\ Len(SubSeq(s, k + 1, Len(s))) =
             IF k + 1 <= Len(s) THEN Len(s) - (k + 1) + 1 ELSE 0
        /\ \A i \in 1 .. Len(s) - (k + 1) + 1 :
             SubSeq(s, k + 1, Len(s))[i] = s[(k + 1) + i - 1]
    BY <2>1, SubSeqProperties
  <2> QED BY <2>2
<1>3. RemoveAt(s, k) = front \o back
  BY DEF RemoveAt
<1> HIDE DEF front, back
<1>4. /\ front \o back \in Seq(S)
      /\ Len(front \o back) = Len(front) + Len(back)
      /\ \A i \in 1 .. Len(front) + Len(back) :
           (front \o back)[i] = IF i <= Len(front) THEN front[i] ELSE back[i - Len(front)]
  BY <1>1, <1>2, ConcatProperties
<1>5. Len(front) + Len(back) = Len(s) - 1
  BY <1>1, <1>2
<1>6. ASSUME NEW i \in 1 .. Len(s) - 1
      PROVE  (front \o back)[i] = IF i < k THEN s[i] ELSE s[i + 1]
  <2>1. (front \o back)[i] =
          IF i <= k - 1 THEN front[i] ELSE back[i - (k - 1)]
    BY <1>1, <1>4, <1>5
  <2>2. CASE i < k
    BY <1>1, <2>1, <2>2
  <2>3. CASE i >= k
    <3>1. i - (k - 1) \in 1 .. Len(s) - k
      BY <2>3
    <3>2. back[i - (k - 1)] = s[k + (i - (k - 1))]
      BY <1>2, <3>1
    <3>3. k + (i - (k - 1)) = i + 1
      OBVIOUS
    <3> QED BY <2>1, <2>3, <3>2, <3>3
  <2>4. i < k \/ i >= k
    <3>1. Len(s) \in Nat
      OBVIOUS
    <3> QED BY <3>1
  <2> QED BY <2>2, <2>3, <2>4, Zenon
<1> QED BY <1>3, <1>4, <1>5, <1>6

\* r is q without its element at k.
Without(q, k, r) ==
  /\ Len(r) = Len(q) - 1
  /\ \A i \in 1 .. Len(q) - 1 : r[i] = IF i < k THEN q[i] ELSE q[i + 1]

\* What an injective sequence keeps when its element at k is taken out.
LEMMA RemovalFacts ==
  ASSUME NEW S, NEW q \in Seq(S), NEW k \in 1 .. Len(q), NEW r \in Seq(S),
         IsInjective(q), Without(q, k, r)
  PROVE  /\ IsInjective(r)
         /\ Range(r) = Range(q) \ {q[k]}
<1>1. /\ Len(q) \in Nat
      /\ DOMAIN q = 1 .. Len(q)
      /\ DOMAIN r = 1 .. Len(q) - 1
      /\ \A i \in 1 .. Len(q) - 1 : r[i] = IF i < k THEN q[i] ELSE q[i + 1]
  BY DEF Without
<1> DEFINE g(i) == IF i < k THEN i ELSE i + 1
<1>2. \A i \in DOMAIN r : g(i) \in DOMAIN q /\ g(i) # k /\ r[i] = q[g(i)]
  BY <1>1
<1>3. \A i, j \in DOMAIN r : g(i) = g(j) => i = j
  BY <1>1
<1>4. \A i \in DOMAIN q : i # k => \E j \in DOMAIN r : g(j) = i
  <2> SUFFICES ASSUME NEW i \in DOMAIN q, i # k
               PROVE  \E j \in DOMAIN r : g(j) = i
    OBVIOUS
  <2>1. CASE i < k
    BY <1>1, <2>1
  <2>2. CASE i > k
    <3>1. i - 1 \in DOMAIN r /\ g(i - 1) = i
      BY <1>1, <2>2
    <3> QED
      BY <3>1
  <2> QED
    BY <1>1, <2>1, <2>2
<1> HIDE DEF g
<1>5. IsInjective(r)
  BY <1>2, <1>3 DEF IsInjective
<1>6. Range(r) \subseteq Range(q) \ {q[k]}
  BY <1>1, <1>2 DEF Range, IsInjective
<1>7. Range(q) \ {q[k]} \subseteq Range(r)
  BY <1>1, <1>2, <1>4 DEF Range
<1> QED
  BY <1>5, <1>6, <1>7

\* What Tail returns is RemoveAt of the first place.
LEMMA RemoveHead ==
  ASSUME NEW S, NEW q \in Seq(S), q # << >>
  PROVE  RemoveAt(q, 1) = Tail(q) /\ Len(Tail(q)) = Len(q) - 1
<1> DEFINE r == RemoveAt(q, 1)
           n == Len(q) - 1
<1>1. Len(q) \in Nat /\ 1 \in 1 .. Len(q) /\ n \in Nat
  OBVIOUS
<1>2. r \in Seq(S) /\ Len(r) = n /\ \A i \in 1 .. n : r[i] = q[i + 1]
  <2>1. /\ r \in Seq(S) /\ Len(r) = n
        /\ \A i \in 1 .. n : r[i] = IF i < 1 THEN q[i] ELSE q[i + 1]
    <3> HIDE DEF r
    <3> QED BY <1>1, RemoveAtFacts DEF r
  <2> HIDE DEF r
  <2> QED BY <1>1, <2>1
<1> DEFINE t == Tail(q)
<1>3. t \in Seq(S) /\ Len(t) = n /\ \A i \in 1 .. n : t[i] = q[i + 1]
  OBVIOUS
<1> HIDE DEF r, t
<1>4. r = [i \in 1 .. n |-> q[i + 1]]
  BY <1>2
<1>5. t = [i \in 1 .. n |-> q[i + 1]]
  BY <1>3
<1> QED BY <1>3, <1>4, <1>5 DEF r, t

\* A sequence that grows by one.
LEMMA AppendFacts ==
  ASSUME NEW S, NEW q \in Seq(S), NEW e \in S
  PROVE  /\ Append(q, e) \in Seq(S) /\ Append(q, e) # << >>
         /\ Len(Append(q, e)) = Len(q) + 1
         /\ DOMAIN Append(q, e) = 1 .. Len(q) + 1
         /\ Append(q, e)[Len(q) + 1] = e
         /\ \A i \in 1 .. Len(q) : Append(q, e)[i] = q[i]
  OBVIOUS

-----------------------------------------------------------------------------
(* PoolSpec, for a pool of any finite set of objects.                      *)

CONSTANT Objects
VARIABLES inUse, unused

AnyPool == INSTANCE PoolSpec WITH Elements <- Objects, used <- inUse, free <- unused

Parted ==
  /\ IsInjective(inUse)
  /\ IsInjective(unused)
  /\ Range(inUse) \cap Range(unused) = {}
  /\ Range(inUse) \cup Range(unused) = Objects

\* The types are needed to take an element out of a sequence.
PartInv == AnyPool!PoolType /\ Parted

\* simple_pool_new puts every element on the free list.
LEMMA AnyPoolInit ==
  ASSUME IsFiniteSet(Objects), AnyPool!Init
  PROVE  PartInv
<1>1. Cardinality(Objects) \in Nat
  BY FS_CardinalityType
<1>2. /\ unused \in [1 .. Cardinality(Objects) -> Objects]
      /\ IsInjective(unused)
  <2>1. AnyPool!Cardinality(Objects) = Cardinality(Objects)
    BY DEF AnyPool!Cardinality, Cardinality
  <2> QED BY <2>1 DEF AnyPool!Init, AnyPool!Orders, AnyPool!IsInjective, IsInjective
<1>3. unused \in Seq(Objects)
  BY <1>1, <1>2
<1>4. Range(unused) = Objects
  <2>1. Range(unused) \subseteq Objects
    BY <1>2 DEF Range
  <2>2. Cardinality(Range(unused)) = Cardinality(Objects)
    <3>1. /\ IsFiniteSet(1 .. Cardinality(Objects))
          /\ Cardinality(1 .. Cardinality(Objects)) = Cardinality(Objects)
      BY <1>1, FS_Interval
    <3>2. unused \in Bijection(1 .. Cardinality(Objects), Range(unused))
      BY <1>2 DEF Bijection, Injection, Surjection, IsInjective, Range, Range, IsInjective
    <3>3. ExistsBijection(1 .. Cardinality(Objects), Range(unused))
      BY <3>2 DEF ExistsBijection
    <3> QED
      BY <3>1, <3>3, FS_Bijection
  <2> QED
    BY <2>1, <2>2, FS_Subset
<1> QED
  BY <1>2, <1>3, <1>4 DEF AnyPool!Init, PartInv, AnyPool!PoolType, Parted, IsInjective, Range

\* An element that is handed out leaves the free list.
LEMMA AnyPoolAlloc ==
  ASSUME PartInv, AnyPool!Alloc
  PROVE  PartInv'
<1>1. /\ unused \in Seq(Objects) /\ inUse \in Seq(Objects) /\ unused # << >>
      /\ Len(unused) \in Nat \ {0}
      /\ Head(unused) = unused[1] /\ Head(unused) \in Objects /\ 1 \in 1 .. Len(unused)
      /\ DOMAIN unused = 1 .. Len(unused)
      /\ Tail(unused) \in Seq(Objects)
      /\ Len(Tail(unused)) = Len(unused) - 1
      /\ \A i \in 1 .. Len(unused) - 1 : Tail(unused)[i] = unused[i + 1]
  BY DEF PartInv, AnyPool!PoolType, AnyPool!Alloc
<1>2. Without(unused, 1, Tail(unused))
  BY <1>1 DEF Without
<1>3. /\ IsInjective(Tail(unused))
      /\ Range(Tail(unused)) = Range(unused) \ {Head(unused)}
  <2>1. IsInjective(unused)
    BY DEF PartInv, Parted
  <2>2. /\ unused \in Seq(Objects) /\ 1 \in 1 .. Len(unused)
        /\ Tail(unused) \in Seq(Objects)
    BY <1>1
  <2>3. /\ IsInjective(Tail(unused))
        /\ Range(Tail(unused)) = Range(unused) \ {unused[1]}
    BY <1>2, <2>1, <2>2, RemovalFacts, ZenonT(30)
  <2> QED
    BY <1>1, <2>3
<1>4. Head(unused) \in Range(unused) /\ Head(unused) \notin Range(inUse)
  BY <1>1 DEF PartInv, Parted, Range
<1>5. /\ Append(inUse, Head(unused)) \in Seq(Objects)
      /\ Range(Append(inUse, Head(unused))) = Range(inUse) \cup {Head(unused)}
      /\ IsInjective(Append(inUse, Head(unused)))
  <2>1. IsInjective(inUse)
    BY DEF PartInv, Parted
  <2> QED
    BY <1>1, <1>4, <2>1, RangeFacts
<1>6. value' \in [Objects -> Values]
  BY <1>1, ValuesAssumption DEF PartInv, AnyPool!PoolType, AnyPool!Alloc, AnyPool!Reset
<1>7. AnyPool!PoolType'
  BY <1>1, <1>5, <1>6 DEF PartInv, AnyPool!PoolType, AnyPool!Alloc
<1>8. Parted'
  BY <1>3, <1>4, <1>5 DEF PartInv, Parted, AnyPool!Alloc
<1> QED
  BY <1>7, <1>8 DEF PartInv

\* Whichever element compares equal is taken out of those in use and put on
\* the free list.
LEMMA AnyPoolFree ==
  ASSUME PartInv, NEW e \in Objects, AnyPool!Free(e)
  PROVE  PartInv'
<1>1. PICK k \in DOMAIN inUse : /\ inUse' = AnyPool!RemoveAt(inUse, k)
                              /\ unused' = Append(unused, inUse[k])
                              /\ value' = AnyPool!Reset(inUse[k])
                              /\ custom' = custom
  BY DEF AnyPool!Free
<1>2. /\ unused \in Seq(Objects) /\ inUse \in Seq(Objects)
      /\ k \in 1 .. Len(inUse) /\ inUse[k] \in Objects
  BY DEF PartInv, AnyPool!PoolType
<1>3. inUse' \in Seq(Objects) /\ Without(inUse, k, inUse')
  <2>1. inUse' = RemoveAt(inUse, k)
    BY <1>1 DEF AnyPool!RemoveAt, RemoveAt
  <2> QED
    BY <1>2, <2>1, RemoveAtFacts DEF Without
<1>4. IsInjective(inUse') /\ Range(inUse') = Range(inUse) \ {inUse[k]}
  <2>1. IsInjective(inUse)
    BY DEF PartInv, Parted
  <2> QED
    BY <1>2, <1>3, <2>1, RemovalFacts
<1>5. inUse[k] \in Range(inUse) /\ inUse[k] \notin Range(unused)
  BY <1>2 DEF PartInv, Parted, Range
<1>6. /\ unused' \in Seq(Objects)
      /\ Range(unused') = Range(unused) \cup {inUse[k]}
      /\ IsInjective(unused')
  <2>1. IsInjective(unused)
    BY DEF PartInv, Parted
  <2> QED
    BY <1>1, <1>2, <1>5, <2>1, RangeFacts
<1>7. value' \in [Objects -> Values]
  BY <1>1, <1>2, ValuesAssumption DEF PartInv, AnyPool!PoolType, AnyPool!Reset
<1>8. AnyPool!PoolType'
  BY <1>1, <1>3, <1>6, <1>7 DEF PartInv, AnyPool!PoolType
<1>9. Parted'
  BY <1>4, <1>5, <1>6 DEF PartInv, Parted
<1> QED
  BY <1>8, <1>9 DEF PartInv

\* For a pool of any size, in any order of allocations, writes and frees,
\* freeing twice and freeing by content included: no element is handed out
\* twice (simple_pool_alloc) and none is lost (simple_pool_free).
THEOREM PoolPartition ==
  ASSUME IsFiniteSet(Objects)
  PROVE  AnyPool!Spec => [](AnyPool!PoolType /\ AnyPool!Partition)
<1>1. AnyPool!Init => PartInv
  BY AnyPoolInit
<1>2. PartInv /\ [AnyPool!Next]_AnyPool!vars => PartInv'
  <2> SUFFICES ASSUME PartInv, [AnyPool!Next]_AnyPool!vars
               PROVE  PartInv'
    OBVIOUS
  <2>1. CASE AnyPool!Alloc
    BY <2>1, AnyPoolAlloc
  <2>2. ASSUME NEW e \in Objects, NEW v \in Values, AnyPool!Write(e, v)
        PROVE  PartInv'
    BY <2>2 DEF PartInv, AnyPool!PoolType, Parted, AnyPool!Write
  <2>3. ASSUME NEW e \in Objects, AnyPool!Free(e)
        PROVE  PartInv'
    BY <2>3, AnyPoolFree
  <2>4. CASE UNCHANGED AnyPool!vars
    BY <2>4 DEF PartInv, AnyPool!PoolType, Parted, AnyPool!vars
  <2> QED
    BY <2>1, <2>2, <2>3, <2>4 DEF AnyPool!Next
<1>3. PartInv => AnyPool!PoolType /\ AnyPool!Partition
  BY DEF PartInv, Parted, AnyPool!Partition, AnyPool!Range, Range,
         AnyPool!IsInjective, IsInjective
<1> QED
  BY <1>1, <1>2, <1>3, PTL DEF AnyPool!Spec

-----------------------------------------------------------------------------
(* Linked lists.                                                           *)

\* The nodes of s, from `first' on, are linked by `next' and back by `prev'.
Chain(h, first, s) ==
  /\ s \in Seq(Nodes)
  /\ IsInjective(s)
  /\ first = IF s = << >> THEN NULL ELSE s[1]
  /\ \A i \in DOMAIN s :
       /\ h[s[i]].next = IF i = Len(s) THEN NULL ELSE s[i + 1]
       /\ h[s[i]].prev = IF i = 1 THEN NULL ELSE s[i - 1]

\* A chain as a function of its positions.
LEMMA ChainFacts ==
  ASSUME NEW h, NEW first, NEW s, Chain(h, first, s)
  PROVE  /\ s \in Seq(Nodes) /\ Len(s) \in Nat /\ DOMAIN s = 1 .. Len(s)
         /\ \A i \in 1 .. Len(s) : s[i] \in Nodes /\ s[i] \in Nat /\ s[i] # NULL
         /\ \A i, j \in 1 .. Len(s) : s[i] = s[j] => i = j
         /\ Range(s) = {s[i] : i \in 1 .. Len(s)}
         /\ s = << >> <=> Len(s) = 0
         /\ s # << >> <=> first # NULL
         /\ first = IF Len(s) = 0 THEN NULL ELSE s[1]
         /\ \A i \in 1 .. Len(s) :
              /\ h[s[i]].next = IF i = Len(s) THEN NULL ELSE s[i + 1]
              /\ h[s[i]].prev = IF i = 1 THEN NULL ELSE s[i - 1]
<1>1. s \in Seq(Nodes) /\ Len(s) \in Nat /\ DOMAIN s = 1 .. Len(s)
  BY DEF Chain
<1>2. ASSUME NEW i \in 1 .. Len(s) PROVE s[i] \in Nodes /\ s[i] \in Nat /\ s[i] # NULL
  BY <1>1, SizeAssumption DEF Nodes, NULL
<1>3. \A i, j \in 1 .. Len(s) : s[i] = s[j] => i = j
  BY <1>1 DEF Chain, IsInjective
<1>4. s = << >> <=> Len(s) = 0
  BY <1>1
<1>5. s # << >> <=> first # NULL
  BY <1>1, <1>2, <1>4 DEF Chain
<1>6. first = IF Len(s) = 0 THEN NULL ELSE s[1]
  BY <1>4 DEF Chain
<1>7. \A i \in 1 .. Len(s) :
        /\ h[s[i]].next = IF i = Len(s) THEN NULL ELSE s[i + 1]
        /\ h[s[i]].prev = IF i = 1 THEN NULL ELSE s[i - 1]
  BY <1>1 DEF Chain
<1> QED BY <1>1, <1>2, <1>3, <1>4, <1>5, <1>6, <1>7 DEF Range

\* sel4osapi_list_to_array, and every other loop over a list, sees the nodes
\* of the chain in order, if it may make as many steps.
LEMMA WalkIs ==
  ASSUME NEW h, NEW first, NEW s, NEW n \in Nat, Chain(h, first, s), Len(s) <= n
  PROVE  ListToArray(h, first, n) = s
<1> DEFINE len == Len(s)
           step(f) == [i \in 1 .. n |-> IF i = 1 THEN first
                        ELSE IF f[i - 1] = NULL THEN NULL ELSE h[f[i - 1]].next]
           node == CHOOSE f : f = step(f)
           g == [i \in 1 .. n |-> IF i <= len THEN s[i] ELSE NULL]
<1>1. /\ len \in Nat /\ len <= n
      /\ first = IF len = 0 THEN NULL ELSE s[1]
      /\ \A i \in 1 .. len : s[i] # NULL
      /\ \A i \in 1 .. len : h[s[i]].next = IF i = len THEN NULL ELSE s[i + 1]
      /\ s = [i \in 1 .. len |-> s[i]]
  <2>1. s = [i \in 1 .. Len(s) |-> s[i]]
    BY DEF Chain
  <2> QED BY <2>1, ChainFacts
<1> HIDE DEF len
<1>2. g = step(g)
  <2>1. ASSUME NEW i \in 1 .. n
        PROVE  g[i] = IF i = 1 THEN first
                      ELSE IF g[i - 1] = NULL THEN NULL ELSE h[g[i - 1]].next
    <3>1. CASE i = 1
      BY <1>1, <3>1
    <3>2. CASE i # 1
      <4>1. i - 1 \in 1 .. n /\ i - 1 \in Nat
        BY <3>2
      <4>2. CASE i - 1 <= len
        <5>1. i - 1 \in 1 .. len /\ g[i - 1] = s[i - 1]
          BY <4>1, <4>2
        <5>2. h[s[i - 1]].next = IF i - 1 = len THEN NULL ELSE s[i]
          <6>1. h[s[i - 1]].next = IF i - 1 = len THEN NULL ELSE s[(i - 1) + 1]
            BY <1>1, <5>1
          <6> QED BY <6>1
        <5>3. g[i] = IF i - 1 = len THEN NULL ELSE s[i]
          BY <1>1, <4>1, <4>2
        <5> QED BY <1>1, <3>2, <5>1, <5>2, <5>3
      <4>3. CASE ~(i - 1 <= len)
        BY <1>1, <3>2, <4>1, <4>3
      <4> QED BY <4>2, <4>3
    <3> QED BY <3>1, <3>2
  <2> QED BY <2>1
<1>3. node = step(node)
  BY <1>2
<1> HIDE DEF node
<1>4. \A i \in 1 .. n : node[i] = g[i]
  <2> DEFINE T == {i \in 1 .. n : node[i] # g[i]}
  <2> SUFFICES ASSUME T # {} PROVE FALSE
    OBVIOUS
  <2>1. PICK k \in T : \A j \in T : k <= j
    <3>1. T \subseteq Nat
      OBVIOUS
    <3> QED BY <3>1, LeastIndex
  <2>2. k \in 1 .. n /\ node[k] # g[k]
    BY <2>1
  <2>3. /\ node[k] = IF k = 1 THEN first
                     ELSE IF node[k - 1] = NULL THEN NULL ELSE h[node[k - 1]].next
        /\ g[k] = IF k = 1 THEN first
                  ELSE IF g[k - 1] = NULL THEN NULL ELSE h[g[k - 1]].next
    <3> HIDE DEF g, T
    <3> QED BY <1>2, <1>3, <2>2
  <2>4. k # 1
    BY <2>2, <2>3
  <2>5. k - 1 \in 1 .. n /\ ~(k <= k - 1)
    BY <2>2, <2>4
  <2>6. node[k - 1] = g[k - 1]
    BY <2>1, <2>5
  <2> HIDE DEF g, T
  <2> QED BY <2>2, <2>3, <2>4, <2>6
<1>5. {i \in 1 .. n : node[i] # NULL} = 1 .. len
  <2>1. \A i \in 1 .. n : node[i] # NULL <=> i <= len
    BY <1>1, <1>4
  <2> QED BY <1>1, <2>1
<1>6. Cardinality({i \in 1 .. n : node[i] # NULL}) = len
  <2>1. len \in Nat /\ len \in Int
    BY <1>1
  <2>2. Cardinality(1 .. len) = len
    BY <2>1, FS_Interval
  <2> QED BY <1>5, <2>2
<1>7. ListToArray(h, first, n) =
        [i \in 1 .. Cardinality({i \in 1 .. n : node[i] # NULL}) |-> node[i]]
  BY DEF ListToArray, node
<1>8. ListToArray(h, first, n) = [i \in 1 .. len |-> node[i]]
  BY <1>6, <1>7
<1>9. \A i \in 1 .. len : node[i] = s[i]
  BY <1>1, <1>4
<1> QED BY <1>1, <1>8, <1>9

\* Only the nodes of a chain matter to it.
LEMMA ChainFrame ==
  ASSUME NEW h, NEW g, NEW first, NEW s, Chain(h, first, s),
         \A m \in Range(s) : g[m] = h[m]
  PROVE  Chain(g, first, s)
<1>1. \A i \in DOMAIN s : g[s[i]] = h[s[i]]
  BY DEF Range
<1> QED BY <1>1 DEF Chain

\* The fields of a node.
Links == [next: Nodes \cup {NULL}, prev: Nodes \cup {NULL}]

\* sel4osapi_list_insert_node appends.
LEMMA InsertChain ==
  ASSUME NEW h \in [Nodes -> Links], NEW first, NEW s, Chain(h, first, s),
         Len(s) <= Size, NEW node \in Nodes, node \notin Range(s)
  PROVE  LET b == InsertNode(h, first, node) IN
         /\ Chain(b.heap, b.head, Append(s, node))
         /\ b.heap \in [Nodes -> Links]
         /\ \A m \in Nodes : m # node /\ m \notin Range(s) => b.heap[m] = h[m]
<1>1. /\ s \in Seq(Nodes) /\ Len(s) \in Nat /\ DOMAIN s = 1 .. Len(s)
      /\ \A i \in 1 .. Len(s) : s[i] \in Nodes
      /\ \A i, j \in 1 .. Len(s) : s[i] = s[j] => i = j
      /\ Range(s) = {s[i] : i \in 1 .. Len(s)}
      /\ s = << >> <=> Len(s) = 0
  BY ChainFacts
<1>2. ListToArray(h, first, Size) = s
  BY WalkIs, SizeAssumption
<1>3. node \in Nat /\ node # NULL
  BY SizeAssumption DEF Nodes, NULL
<1>4. CASE s = << >>
  <2> DEFINE g == [h EXCEPT ![node] = [next |-> NULL, prev |-> NULL]]
  <2>1. InsertNode(h, first, node) = [heap |-> g, head |-> node]
    BY <1>2, <1>4 DEF InsertNode, List
  <2>2. /\ g \in [Nodes -> Links]
        /\ g[node] = [next |-> NULL, prev |-> NULL]
        /\ \A m \in Nodes : m # node => g[m] = h[m]
    BY DEF Links
  <2> HIDE DEF g
  <2>3. Append(s, node) = <<node>>
    BY <1>4
  <2>4. Chain(g, node, <<node>>)
    BY <2>2 DEF Chain, IsInjective
  <2> QED BY <2>1, <2>2, <2>3, <2>4
<1>5. CASE s # << >>
  <2> DEFINE last == s[Len(s)]
             g == [h EXCEPT ![node] = [next |-> NULL, prev |-> last],
                            ![last].next = node]
             t == Append(s, node)
  <2>1. InsertNode(h, first, node) = [heap |-> g, head |-> first]
    BY <1>2, <1>5 DEF InsertNode, List, Last
  <2>2. Len(s) \in 1 .. Len(s) /\ last \in Nodes /\ last \in Range(s) /\ last # node
    BY <1>1, <1>5
  <2>3. /\ g[node] = [next |-> NULL, prev |-> last]
        /\ g[last].next = node /\ g[last].prev = h[last].prev
        /\ \A m \in Nodes : m # node /\ m # last => g[m] = h[m]
    BY <2>2
  <2>4. g \in [Nodes -> Links]
    BY <2>2 DEF Links
  <2>5. /\ t \in Seq(Nodes) /\ Len(t) = Len(s) + 1 /\ DOMAIN t = 1 .. Len(s) + 1
        /\ t[Len(s) + 1] = node /\ \A i \in 1 .. Len(s) : t[i] = s[i]
        /\ t # << >>
    BY <1>1, AppendFacts
  <2> HIDE DEF t, g, last
  <2>6. IsInjective(t)
    <3> SUFFICES ASSUME NEW i \in 1 .. Len(s) + 1, NEW j \in 1 .. Len(s) + 1, t[i] = t[j]
                 PROVE  i = j
      BY <2>5 DEF IsInjective
    <3>1. \A k \in 1 .. Len(s) : s[k] # node
      BY <1>1
    <3>2. i \in 1 .. Len(s) \/ i = Len(s) + 1
      BY <1>1
    <3>3. j \in 1 .. Len(s) \/ j = Len(s) + 1
      BY <1>1
    <3> QED BY <1>1, <2>5, <3>1, <3>2, <3>3
  <2>7. first = t[1]
    BY <1>1, <1>5, <2>5 DEF Chain
  <2>8. ASSUME NEW i \in 1 .. Len(s) + 1
        PROVE  /\ g[t[i]].next = IF i = Len(s) + 1 THEN NULL ELSE t[i + 1]
               /\ g[t[i]].prev = IF i = 1 THEN NULL ELSE t[i - 1]
    <3>1. CASE i = Len(s) + 1
      <4>1. i # 1 /\ i - 1 = Len(s) /\ t[i - 1] = last
        BY <1>1, <1>5, <2>2, <2>5, <3>1 DEF last
      <4> QED BY <2>3, <2>5, <3>1, <4>1
    <3>2. CASE i = Len(s)
      <4>1. i \in 1 .. Len(s) /\ t[i] = last /\ t[i + 1] = node /\ i # Len(s) + 1
        BY <1>1, <2>2, <2>5, <3>2 DEF last
      <4>2. h[last].prev = IF i = 1 THEN NULL ELSE s[i - 1]
        BY <1>1, <3>2, <4>1 DEF Chain, last
      <4>3. i # 1 => t[i - 1] = s[i - 1]
        BY <1>1, <2>5, <4>1
      <4> QED BY <2>3, <4>1, <4>2, <4>3
    <3>3. CASE i # Len(s) /\ i # Len(s) + 1
      <4>1. /\ i \in 1 .. Len(s) /\ i + 1 \in 1 .. Len(s) /\ i # Len(s)
            /\ i # 1 => i - 1 \in 1 .. Len(s)
        <5>1. Len(s) \in Nat
          BY <1>1
        <5> QED BY <3>3, <5>1
      <4>2. s[i] \in Nodes /\ s[i] # last /\ s[i] # node
        BY <1>1, <2>2, <4>1 DEF last
      <4>3. /\ h[s[i]].next = s[i + 1]
            /\ h[s[i]].prev = IF i = 1 THEN NULL ELSE s[i - 1]
        BY <1>1, <4>1 DEF Chain
      <4> QED BY <2>3, <2>5, <3>3, <4>1, <4>2, <4>3
    <3> QED BY <3>1, <3>2, <3>3
  <2>9. Chain(g, first, t)
    BY <2>5, <2>6, <2>7, <2>8 DEF Chain
  <2> QED BY <2>1, <2>2, <2>3, <2>4, <2>9 DEF t
<1> QED BY <1>4, <1>5

\* sel4osapi_list_unlink takes one node out, wherever it is.
LEMMA UnlinkChain ==
  ASSUME NEW h \in [Nodes -> Links], NEW first, NEW s, Chain(h, first, s),
         NEW k \in 1 .. Len(s)
  PROVE  LET a == Unlink(h, first, s[k]) IN
         /\ Chain(a.heap, a.head, RemoveAt(s, k))
         /\ a.heap \in [Nodes -> Links]
         /\ \A m \in Nodes : m \notin Range(s) => a.heap[m] = h[m]
<1> DEFINE node == s[k]
           r == RemoveAt(s, k)
           p == h[node].prev
           n == h[node].next
           g == [m \in Nodes |->
                   IF m = node THEN [next |-> NULL, prev |-> NULL]
                   ELSE [next |-> IF m = p THEN n ELSE h[m].next,
                         prev |-> IF m = n THEN p ELSE h[m].prev]]
           head == IF first = node THEN n ELSE first
           len == Len(s)
<1>1. /\ s \in Seq(Nodes) /\ len \in Nat /\ DOMAIN s = 1 .. len
      /\ \A i \in 1 .. len : s[i] \in Nodes /\ s[i] # NULL
      /\ \A i, j \in 1 .. len : s[i] = s[j] => i = j
      /\ Range(s) = {s[i] : i \in 1 .. len}
      /\ first = IF len = 0 THEN NULL ELSE s[1]
      /\ \A i \in 1 .. len :
           /\ h[s[i]].next = IF i = len THEN NULL ELSE s[i + 1]
           /\ h[s[i]].prev = IF i = 1 THEN NULL ELSE s[i - 1]
      /\ IsInjective(s)
  <2>1. IsInjective(s)
    BY DEF Chain
  <2> QED BY <2>1, ChainFacts
<1>2. Unlink(h, first, s[k]) = [heap |-> g, head |-> head]
  BY DEF Unlink, List
<1>3. /\ r \in Seq(Nodes) /\ Len(r) = len - 1
      /\ \A i \in 1 .. len - 1 : r[i] = IF i < k THEN s[i] ELSE s[i + 1]
      /\ IsInjective(r)
  <2>1. /\ r \in Seq(Nodes) /\ Len(r) = len - 1
        /\ \A i \in 1 .. len - 1 : r[i] = IF i < k THEN s[i] ELSE s[i + 1]
    <3>1. s \in Seq(Nodes)
      BY <1>1
    <3> HIDE DEF r
    <3> QED BY <3>1, RemoveAtFacts DEF r
  <2>2. Without(s, k, r)
    BY <2>1 DEF Without
  <2> HIDE DEF r
  <2>3. IsInjective(r)
    BY <1>1, <2>1, <2>2, RemovalFacts
  <2> QED BY <2>1, <2>3
<1>4. /\ k \in Nat /\ k >= 1 /\ k <= len /\ len \in Nat /\ node \in Nodes
      /\ p = IF k = 1 THEN NULL ELSE s[k - 1]
      /\ n = IF k = len THEN NULL ELSE s[k + 1]
  <2>1. len \in Nat /\ k \in 1 .. len
    BY <1>1
  <2>2. node \in Nodes
    BY <1>1, <2>1
  <2>3. /\ p = IF k = 1 THEN NULL ELSE s[k - 1]
        /\ n = IF k = len THEN NULL ELSE s[k + 1]
    <3> HIDE DEF len
    <3> QED BY <1>1, <2>1
  <2> HIDE DEF len, p, n, node
  <2> QED BY <2>1, <2>2, <2>3
<1>5. /\ p \in Nodes \cup {NULL} /\ n \in Nodes \cup {NULL}
      /\ \A m \in Nodes : h[m] = [next |-> h[m].next, prev |-> h[m].prev]
  BY <1>4 DEF Links
<1>6. /\ g \in [Nodes -> Links]
      /\ \A m \in Nodes : m # node =>
           /\ g[m].next = IF m = p THEN n ELSE h[m].next
           /\ g[m].prev = IF m = n THEN p ELSE h[m].prev
  BY <1>5 DEF Links
<1>7. ASSUME NEW m \in Nodes, m \notin Range(s) PROVE g[m] = h[m]
  <2>1. m # NULL
    BY SizeAssumption DEF NULL, Nodes
  <2>2. \A i \in 1 .. len : m # s[i]
    BY <1>1, <1>7
  <2>3. k \in 1 .. len /\ (k # 1 => k - 1 \in 1 .. len) /\ (k # len => k + 1 \in 1 .. len)
    <3> HIDE DEF len
    <3> QED BY <1>4
  <2> HIDE DEF len
  <2>4. m # node
    BY <2>2, <2>3
  <2>5. m # p /\ m # n
    <3> HIDE DEF p, n
    <3> QED BY <1>4, <2>1, <2>2, <2>3
  <2> HIDE DEF p, n, node
  <2> QED BY <1>5, <2>4, <2>5
<1> HIDE DEF g, r, len, p, n, node
\* Where the neighbours of the node taken out are.
<1>8. \A j \in 1 .. len : s[j] = p <=> j = k - 1
  <2>1. k # 1 => k - 1 \in 1 .. len
    BY <1>4
  <2>2. ASSUME NEW j \in 1 .. len, k = 1 PROVE s[j] # p /\ j # k - 1
    BY <1>1, <1>4, <2>2
  <2> QED BY <1>1, <1>4, <2>1, <2>2
<1>9. \A j \in 1 .. len : s[j] = n <=> j = k + 1
  <2>1. k # len => k + 1 \in 1 .. len
    BY <1>4
  <2>2. ASSUME NEW j \in 1 .. len, k = len PROVE s[j] # n /\ j # k + 1
    BY <1>1, <1>4, <2>2
  <2> QED BY <1>1, <1>4, <2>1, <2>2
<1>10. \A j \in 1 .. len : j # k =>
         /\ g[s[j]].next = IF j = k - 1 THEN n ELSE IF j = len THEN NULL ELSE s[j + 1]
         /\ g[s[j]].prev = IF j = k + 1 THEN p ELSE IF j = 1 THEN NULL ELSE s[j - 1]
  <2> SUFFICES ASSUME NEW j \in 1 .. len, j # k
               PROVE  /\ g[s[j]].next = IF j = k - 1 THEN n ELSE IF j = len THEN NULL ELSE s[j + 1]
                      /\ g[s[j]].prev = IF j = k + 1 THEN p ELSE IF j = 1 THEN NULL ELSE s[j - 1]
    OBVIOUS
  <2>1. s[j] \in Nodes /\ s[j] # node
    BY <1>1, <1>4 DEF node
  <2> QED BY <1>1, <1>6, <1>8, <1>9, <2>1
<1>11. ASSUME NEW i \in 1 .. len - 1
       PROVE  /\ g[r[i]].next = IF i = len - 1 THEN NULL ELSE r[i + 1]
              /\ g[r[i]].prev = IF i = 1 THEN NULL ELSE r[i - 1]
  <2>1. i \in Nat /\ i >= 1 /\ i <= len - 1 /\ i \in 1 .. len /\ i + 1 \in 1 .. len
    BY <1>4
  <2>2. CASE i < k
    <3>1. r[i] = s[i] /\ i # k /\ i # k + 1
      BY <1>3, <1>4, <2>1, <2>2
    <3>2. /\ g[s[i]].next = IF i = k - 1 THEN n ELSE s[i + 1]
          /\ g[s[i]].prev = IF i = 1 THEN NULL ELSE s[i - 1]
      BY <1>4, <1>10, <2>1, <3>1
    <3>3. i # 1 => r[i - 1] = s[i - 1]
      <4>1. i # 1 => i - 1 \in 1 .. len - 1 /\ i - 1 < k
        BY <1>4, <2>1, <2>2
      <4> QED BY <1>3, <4>1
    <3>4. CASE i = k - 1
      <4>1. i = len - 1 <=> k = len
        BY <1>4, <2>1, <3>4
      <4>2. i # len - 1 => i + 1 \in 1 .. len - 1 /\ ~(i + 1 < k) /\ i + 2 = k + 1
        BY <1>4, <2>1, <3>4
      <4>3. i # len - 1 => r[i + 1] = s[k + 1]
        BY <1>3, <3>4, <4>2
      <4> QED BY <1>4, <3>1, <3>2, <3>3, <3>4, <4>1, <4>3
    <3>5. CASE i # k - 1
      <4>1. i + 1 < k /\ i # len - 1 /\ i + 1 \in 1 .. len - 1
        BY <1>4, <2>1, <2>2, <3>5
      <4>2. r[i + 1] = s[i + 1]
        BY <1>3, <4>1
      <4> QED BY <3>1, <3>2, <3>3, <3>5, <4>1, <4>2
    <3> QED BY <3>4, <3>5
  <2>3. CASE i >= k
    <3>1. r[i] = s[i + 1] /\ i + 1 # k /\ i + 1 # k - 1 /\ i + 1 # 1
      BY <1>3, <1>4, <2>1, <2>3
    <3>2. /\ g[s[i + 1]].next = IF i + 1 = len THEN NULL ELSE s[i + 2]
          /\ g[s[i + 1]].prev = IF i + 1 = k + 1 THEN p ELSE s[i]
      <4>1. (i + 1) + 1 = i + 2 /\ (i + 1) - 1 = i
        BY <2>1
      <4> QED BY <1>10, <2>1, <3>1, <4>1
    <3>3. i # len - 1 => r[i + 1] = s[i + 2]
      <4>1. i # len - 1 => i + 1 \in 1 .. len - 1 /\ ~(i + 1 < k) /\ (i + 1) + 1 = i + 2
        BY <1>4, <2>1, <2>3
      <4> QED BY <1>3, <4>1
    <3>4. i = len - 1 <=> i + 1 = len
      BY <1>4, <2>1
    <3>5. CASE i = k
      <4>1. i # 1 => i - 1 \in 1 .. len - 1 /\ i - 1 < k
        BY <1>4, <2>1, <3>5
      <4>2. i # 1 => r[i - 1] = s[k - 1]
        BY <1>3, <3>5, <4>1
      <4> QED BY <1>4, <3>1, <3>2, <3>3, <3>4, <3>5, <4>2
    <3>6. CASE i # k
      <4>1. i # 1 /\ i - 1 \in 1 .. len - 1 /\ ~(i - 1 < k) /\ (i - 1) + 1 = i /\ i + 1 # k + 1
        BY <1>4, <2>1, <2>3, <3>6
      <4>2. r[i - 1] = s[i]
        BY <1>3, <4>1
      <4> QED BY <3>1, <3>2, <3>3, <3>4, <4>1, <4>2
    <3> QED BY <3>5, <3>6
  <2> QED BY <1>4, <2>1, <2>2, <2>3
<1>12. head = IF r = << >> THEN NULL ELSE r[1]
  <2>1. r = << >> <=> len = 1
    BY <1>3, <1>4
  <2>2. first = s[1] /\ 1 \in 1 .. len
    BY <1>1, <1>4
  <2>3. len # 1 => r[1] = IF 1 < k THEN s[1] ELSE s[2]
    <3>1. len # 1 => 1 \in 1 .. len - 1
      BY <1>4
    <3> QED BY <1>3, <3>1
  <2>4. first = node <=> k = 1
    BY <1>1, <1>4, <2>2 DEF node
  <2>5. CASE k = 1
    BY <1>4, <2>1, <2>3, <2>4, <2>5
  <2>6. CASE k # 1
    <3>1. len # 1 /\ 1 < k
      BY <1>4, <2>6
    <3> QED BY <2>1, <2>2, <2>3, <2>4, <2>6, <3>1
  <2> QED BY <2>5, <2>6
<1>13. Chain(g, head, r)
  <2>1. DOMAIN r = 1 .. len - 1
    BY <1>3
  <2> QED BY <1>3, <1>11, <1>12, <2>1 DEF Chain
<1> QED BY <1>2, <1>6, <1>7, <1>13 DEF r, node

\* A node goes from one list to the end of the other.
LEMMA MoveChain ==
  ASSUME heap \in [Nodes -> Links], NEW from, NEW s, Chain(heap, from, s),
         NEW to, NEW t, Chain(heap, to, t), Range(s) \cap Range(t) = {},
         Len(t) <= Size, NEW k \in 1 .. Len(s)
  PROVE  LET m == MoveNode(s[k], from, to) IN
         /\ Chain(m.heap, m.from, RemoveAt(s, k))
         /\ Chain(m.heap, m.to, Append(t, s[k]))
         /\ m.heap \in [Nodes -> Links]
         /\ Range(RemoveAt(s, k)) \cap Range(Append(t, s[k])) = {}
<1> DEFINE node == s[k]
           r == RemoveAt(s, k)
           a == Unlink(heap, from, node)
           b == InsertNode(a.heap, to, node)
<1>1. MoveNode(s[k], from, to) = [heap |-> b.heap, from |-> a.head, to |-> b.head]
  BY DEF MoveNode
<1>2. /\ s \in Seq(Nodes) /\ node \in Nodes /\ node \in Range(s) /\ IsInjective(s)
      /\ t \in Seq(Nodes) /\ Range(s) \subseteq Nodes /\ Range(t) \subseteq Nodes
  <2>1. s \in Seq(Nodes) /\ IsInjective(s) /\ t \in Seq(Nodes)
    BY DEF Chain
  <2>2. node \in Nodes /\ node \in Range(s)
    BY <2>1 DEF Range
  <2>3. Range(s) \subseteq Nodes /\ Range(t) \subseteq Nodes
    BY <2>1 DEF Range
  <2> QED BY <2>1, <2>2, <2>3
<1>3. /\ Chain(a.heap, a.head, r)
      /\ a.heap \in [Nodes -> Links]
      /\ \A m \in Nodes : m \notin Range(s) => a.heap[m] = heap[m]
  <2> HIDE DEF r, a, node
  <2> QED BY UnlinkChain DEF r, a, node
<1>4. Range(r) = Range(s) \ {node}
  <2>1. /\ r \in Seq(Nodes) /\ Len(r) = Len(s) - 1
        /\ \A i \in 1 .. Len(s) - 1 : r[i] = IF i < k THEN s[i] ELSE s[i + 1]
    <3> HIDE DEF r
    <3> QED BY <1>2, RemoveAtFacts DEF r
  <2>2. Without(s, k, r)
    BY <2>1 DEF Without
  <2> HIDE DEF r
  <2> QED BY <1>2, <2>1, <2>2, RemovalFacts
<1> HIDE DEF r, a, node
<1>5. Chain(a.heap, to, t)
  <2>1. \A m \in Range(t) : a.heap[m] = heap[m]
    BY <1>2, <1>3
  <2> QED BY <2>1, ChainFrame
<1>6. node \notin Range(t)
  BY <1>2
<1>7. /\ Chain(b.heap, b.head, Append(t, node))
      /\ b.heap \in [Nodes -> Links]
      /\ \A m \in Nodes : m # node /\ m \notin Range(t) => b.heap[m] = a.heap[m]
  <2> HIDE DEF b
  <2> QED BY <1>2, <1>3, <1>5, <1>6, InsertChain DEF b
<1> HIDE DEF b
<1>8. Chain(b.heap, a.head, r)
  <2>1. \A m \in Range(r) : b.heap[m] = a.heap[m]
    BY <1>2, <1>4, <1>7
  <2> QED BY <1>3, <2>1, ChainFrame
<1>9. Range(Append(t, node)) = Range(t) \cup {node}
  BY <1>2, RangeFacts
<1>10. Range(r) \cap Range(Append(t, node)) = {}
  BY <1>4, <1>9
<1> QED BY <1>1, <1>7, <1>8, <1>10 DEF r, node

-----------------------------------------------------------------------------
(* SimplePool.                                                             *)

\* What the walks from `entries' and `free_entries' see are chains.
ListInv ==
  /\ ListTypeOK
  /\ Chain(heap, entries, usedNodes)
  /\ Chain(heap, free_entries, freeNodes)
  /\ Accounted

\* The first node of a chain.
LEMMA FirstFacts ==
  ASSUME NEW h, NEW first, NEW s, Chain(h, first, s)
  PROVE  first \in Nodes \cup {NULL}
<1>1. s = << >> \/ 1 \in 1 .. Len(s)
  BY DEF Chain
<1>2. \A i \in 1 .. Len(s) : s[i] \in Nodes
  BY DEF Chain
<1> QED BY <1>1, <1>2 DEF Chain

\* Both lists are read off the heap by the same walk.
LEMMA NodesAre ==
  /\ \A s : Chain(heap, entries, s) /\ Len(s) <= Size => usedNodes = s
  /\ \A s : Chain(heap, free_entries, s) /\ Len(s) <= Size => freeNodes = s
  BY WalkIs, SizeAssumption DEF usedNodes, freeNodes

\* The same after a step.
LEMMA NodesAreNext ==
  /\ \A s : Chain(heap', entries', s) /\ Len(s) <= Size => usedNodes' = s
  /\ \A s : Chain(heap', free_entries', s) /\ Len(s) <= Size => freeNodes' = s
  BY WalkIs, SizeAssumption DEF usedNodes, freeNodes

\* ListInv, for the leaves that need a part of it.
LEMMA InvFacts ==
  ASSUME ListInv
  PROVE  /\ heap \in [Nodes -> Links]
         /\ Chain(heap, entries, usedNodes) /\ Chain(heap, free_entries, freeNodes)
         /\ usedNodes \in Seq(Nodes) /\ freeNodes \in Seq(Nodes)
         /\ Len(usedNodes) \in Nat /\ Len(freeNodes) \in Nat
         /\ Len(usedNodes) + Len(freeNodes) = Size /\ current_size = Len(usedNodes)
         /\ Len(usedNodes) <= Size /\ Len(freeNodes) <= Size
         /\ Range(usedNodes) \cap Range(freeNodes) = {}
         /\ Range(freeNodes) \cap Range(usedNodes) = {}
         /\ free_entries # NULL <=> freeNodes # << >>
<1>1. /\ usedNodes \in Seq(Nodes) /\ freeNodes \in Seq(Nodes)
  BY DEF ListInv, Chain
<1>2. Len(usedNodes) \in Nat /\ Len(freeNodes) \in Nat
  BY <1>1
<1>3. free_entries # NULL <=> freeNodes # << >>
  BY ChainFacts DEF ListInv
<1>4. /\ Range(usedNodes) \cap Range(freeNodes) = {}
      /\ Len(usedNodes) + Len(freeNodes) = Size /\ current_size = Len(usedNodes)
  BY DEF ListInv, Accounted
<1>5. Len(usedNodes) <= Size /\ Len(freeNodes) <= Size
  BY <1>2, <1>4
<1>6. heap \in [Nodes -> Links]
  BY DEF ListInv, ListTypeOK, Links
<1> QED BY <1>1, <1>2, <1>3, <1>4, <1>5, <1>6 DEF ListInv

\* init_fn, if there is one, writes a content of the right type.
LEMMA ResetType ==
  ASSUME value \in [Nodes -> Values], NEW m \in Nodes
  PROVE  Reset(m) \in [Nodes -> Values]
  BY ValuesAssumption DEF Reset

\* simple_pool_alloc: the first free node goes to the end of `entries'.
LEMMA AllocLists ==
  ASSUME ListInv, AllocEntry
  PROVE  /\ ListInv'
         /\ freeNodes # << >>
         /\ free_entries = Head(freeNodes)
         /\ usedNodes' = Append(usedNodes, Head(freeNodes))
         /\ freeNodes' = Tail(freeNodes)
<1> DEFINE m == MoveNode(free_entries, free_entries, entries)
           node == Head(freeNodes)
<1>1. freeNodes # << >> /\ 1 \in 1 .. Len(freeNodes) /\ node = freeNodes[1] /\ node \in Nodes
  <2>1. freeNodes # << >> /\ freeNodes \in Seq(Nodes)
    BY InvFacts DEF AllocEntry
  <2> QED BY <2>1
<1>2. free_entries = freeNodes[1] /\ free_entries = node
  <2>1. free_entries = freeNodes[1]
    BY <1>1 DEF ListInv, Chain
  <2> QED BY <1>1, <2>1
<1>3. /\ Chain(m.heap, m.from, RemoveAt(freeNodes, 1))
      /\ Chain(m.heap, m.to, Append(usedNodes, node))
      /\ m.heap \in [Nodes -> Links]
      /\ Range(RemoveAt(freeNodes, 1)) \cap Range(Append(usedNodes, node)) = {}
  <2> HIDE DEF m, node
  <2>1. m = MoveNode(freeNodes[1], free_entries, entries) /\ node = freeNodes[1]
    BY <1>1, <1>2 DEF m
  <2> QED BY <1>1, <2>1, InvFacts, MoveChain
<1>4. heap' = m.heap /\ free_entries' = m.from /\ entries' = m.to
  BY DEF AllocEntry
<1> HIDE DEF m, node
<1>5. /\ RemoveAt(freeNodes, 1) = Tail(freeNodes)
      /\ Len(Tail(freeNodes)) = Len(freeNodes) - 1
  BY <1>1, InvFacts, RemoveHead
<1>6. Len(Append(usedNodes, node)) = Len(usedNodes) + 1
  BY <1>1, InvFacts, AppendFacts
<1>7. Len(Tail(freeNodes)) <= Size /\ Len(usedNodes) + 1 <= Size
  BY <1>1, <1>5, InvFacts
<1>8. usedNodes' = Append(usedNodes, node) /\ freeNodes' = Tail(freeNodes)
  BY <1>3, <1>4, <1>5, <1>6, <1>7, NodesAreNext
<1>9. Accounted'
  <2>1. current_size' = current_size + 1
    BY DEF AllocEntry
  <2>2. Range(usedNodes') \cap Range(freeNodes') = {}
    BY <1>3, <1>5, <1>8
  <2>3. Len(usedNodes') + Len(freeNodes') = Size /\ current_size' = Len(usedNodes')
    <3>1. /\ Len(usedNodes) \in Nat /\ Len(freeNodes) \in Nat
          /\ Len(usedNodes) + Len(freeNodes) = Size /\ current_size = Len(usedNodes)
      BY InvFacts
    <3>2. Len(usedNodes') = Len(usedNodes) + 1 /\ Len(freeNodes') = Len(freeNodes) - 1
      BY <1>5, <1>6, <1>8
    <3> QED BY <2>1, <3>1, <3>2
  <2> QED BY <2>2, <2>3 DEF Accounted
<1>10. Chain(heap', entries', usedNodes') /\ Chain(heap', free_entries', freeNodes')
  BY <1>3, <1>4, <1>5, <1>8
<1>11. ListTypeOK'
  <2>1. entries' \in Nodes \cup {NULL} /\ free_entries' \in Nodes \cup {NULL}
    BY <1>10, FirstFacts
  <2>2. heap' \in [Nodes -> [next: Nodes \cup {NULL}, prev: Nodes \cup {NULL}]]
    BY <1>3, <1>4 DEF Links
  <2>3. current_size' \in 0 .. Size
    BY <1>6, <1>7, <1>8, InvFacts DEF AllocEntry
  <2>4. value' \in [Nodes -> Values] /\ custom' \in BOOLEAN
    BY <1>1, <1>2, ResetType DEF AllocEntry, ListInv, ListTypeOK
  <2> QED BY <2>1, <2>2, <2>3, <2>4 DEF ListTypeOK
<1>12. ListInv'
  BY <1>9, <1>10, <1>11 DEF ListInv
<1> QED BY <1>1, <1>2, <1>8, <1>12 DEF node

\* simple_pool_find_node: the place of the node it finds.
LEMMA FindFacts ==
  ASSUME ListInv, NEW e \in Nodes, FindNode(e) # NULL
  PROVE  \E k \in 1 .. Len(usedNodes) :
           /\ FindNode(e) = usedNodes[k]
           /\ Same(usedNodes[k], e)
           /\ \A j \in 1 .. k - 1 : ~Same(usedNodes[j], e)
<1> DEFINE equal == {i \in DOMAIN usedNodes : Same(usedNodes[i], e)}
<1>1. FindNode(e) = IF equal = {} THEN NULL ELSE usedNodes[Min(equal)]
  BY DEF FindNode, usedNodes
<1>2. equal # {} /\ FindNode(e) = usedNodes[Min(equal)]
  <2> HIDE DEF equal
  <2> QED BY <1>1
<1>3. DOMAIN usedNodes = 1 .. Len(usedNodes) /\ Len(usedNodes) \in Nat
  <2>1. usedNodes \in Seq(Nodes)
    BY InvFacts
  <2> QED BY <2>1
<1>4. \E k \in equal : \A j \in equal : k <= j
  <2>1. equal \subseteq Nat
    BY <1>3
  <2> HIDE DEF equal
  <2> QED BY <1>2, <2>1, LeastIndex
<1>5. Min(equal) \in equal /\ \A j \in equal : Min(equal) <= j
  <2> HIDE DEF equal
  <2> QED BY <1>4 DEF Min
<1> DEFINE k == Min(equal)
<1> HIDE DEF k
<1>6. k \in 1 .. Len(usedNodes) /\ Same(usedNodes[k], e)
  BY <1>3, <1>5 DEF k
<1>7. ASSUME NEW j \in 1 .. k - 1 PROVE ~Same(usedNodes[j], e)
  <2>1. j \in 1 .. Len(usedNodes) /\ ~(k <= j)
    BY <1>3, <1>6
  <2>2. j \notin equal
    BY <1>5, <2>1 DEF k
  <2> QED BY <1>3, <2>1, <2>2
<1> QED BY <1>2, <1>6, <1>7 DEF k

\* simple_pool_free: the node found goes to the end of the free list.
LEMMA FreeLists ==
  ASSUME ListInv, NEW e \in Nodes, FreeEntry(e)
  PROVE  /\ ListInv'
         /\ \E k \in 1 .. Len(usedNodes) :
              /\ Same(usedNodes[k], e)
              /\ \A j \in 1 .. k - 1 : ~Same(usedNodes[j], e)
              /\ usedNodes' = RemoveAt(usedNodes, k)
              /\ freeNodes' = Append(freeNodes, usedNodes[k])
              /\ value' = Reset(usedNodes[k])
<1>1. PICK k \in 1 .. Len(usedNodes) :
        /\ FindNode(e) = usedNodes[k]
        /\ Same(usedNodes[k], e)
        /\ \A j \in 1 .. k - 1 : ~Same(usedNodes[j], e)
  BY FindFacts DEF FreeEntry
<1> DEFINE node == usedNodes[k]
           m == MoveNode(node, entries, free_entries)
<1>2. /\ heap' = m.heap /\ entries' = m.from /\ free_entries' = m.to
      /\ value' = Reset(node) /\ current_size' = current_size - 1 /\ custom' = custom
  BY <1>1 DEF FreeEntry
<1>3. node \in Nodes /\ usedNodes \in Seq(Nodes) /\ freeNodes \in Seq(Nodes)
  <2>1. usedNodes \in Seq(Nodes) /\ freeNodes \in Seq(Nodes)
    BY InvFacts
  <2> QED BY <2>1
<1>4. /\ Chain(m.heap, m.from, RemoveAt(usedNodes, k))
      /\ Chain(m.heap, m.to, Append(freeNodes, node))
      /\ m.heap \in [Nodes -> Links]
      /\ Range(RemoveAt(usedNodes, k)) \cap Range(Append(freeNodes, node)) = {}
  <2> HIDE DEF m
  <2> QED BY InvFacts, MoveChain DEF m
<1> HIDE DEF m, node
<1>5. Len(RemoveAt(usedNodes, k)) = Len(usedNodes) - 1
  BY <1>3, RemoveAtFacts
<1>6. Len(Append(freeNodes, node)) = Len(freeNodes) + 1
  BY <1>3, AppendFacts
<1>7. /\ Len(usedNodes) \in Nat \ {0} /\ Len(freeNodes) \in Nat
      /\ Len(usedNodes) + Len(freeNodes) = Size /\ current_size = Len(usedNodes)
  BY InvFacts
<1>8. Len(usedNodes) - 1 <= Size /\ Len(freeNodes) + 1 <= Size
  BY <1>7
<1>9. usedNodes' = RemoveAt(usedNodes, k) /\ freeNodes' = Append(freeNodes, node)
  BY <1>2, <1>4, <1>5, <1>6, <1>8, NodesAreNext
<1>10. Accounted'
  <2>1. Range(usedNodes') \cap Range(freeNodes') = {}
    BY <1>4, <1>9
  <2>2. Len(usedNodes') = Len(usedNodes) - 1 /\ Len(freeNodes') = Len(freeNodes) + 1
    BY <1>5, <1>6, <1>9
  <2>3. Len(usedNodes') + Len(freeNodes') = Size /\ current_size' = Len(usedNodes')
    BY <1>2, <1>7, <2>2
  <2> QED BY <2>1, <2>3 DEF Accounted
<1>11. Chain(heap', entries', usedNodes') /\ Chain(heap', free_entries', freeNodes')
  BY <1>2, <1>4, <1>9
<1>12. ListTypeOK'
  <2>1. entries' \in Nodes \cup {NULL} /\ free_entries' \in Nodes \cup {NULL}
    BY <1>11, FirstFacts
  <2>2. heap' \in [Nodes -> [next: Nodes \cup {NULL}, prev: Nodes \cup {NULL}]]
    BY <1>2, <1>4 DEF Links
  <2>3. current_size' \in 0 .. Size
    BY <1>2, <1>7
  <2>4. value' \in [Nodes -> Values] /\ custom' \in BOOLEAN
    BY <1>2, <1>3, ResetType DEF ListInv, ListTypeOK
  <2> QED BY <2>1, <2>2, <2>3, <2>4 DEF ListTypeOK
<1>13. ListInv'
  BY <1>10, <1>11, <1>12 DEF ListInv
<1> QED BY <1>1, <1>2, <1>9, <1>13 DEF node

\* The lists do not depend on the contents.
LEMMA WriteLists ==
  ASSUME ListInv, NEW e \in Nodes, NEW v \in Values, Write(e, v)
  PROVE  /\ ListInv'
         /\ usedNodes' = usedNodes /\ freeNodes' = freeNodes
<1>1. UNCHANGED <<heap, free_entries, entries, current_size, custom>>
  BY DEF Write
<1>2. usedNodes' = usedNodes /\ freeNodes' = freeNodes
  BY <1>1 DEF usedNodes, freeNodes
<1>3. ListTypeOK'
  BY <1>1 DEF Write, ListInv, ListTypeOK
<1>4. Accounted'
  BY <1>1, <1>2 DEF ListInv, Accounted
<1>5. Chain(heap', entries', usedNodes') /\ Chain(heap', free_entries', freeNodes')
  BY <1>1, <1>2 DEF ListInv
<1> QED BY <1>2, <1>3, <1>4, <1>5 DEF ListInv

\* The list simple_pool_new has after k insertions.
First(k) == [i \in 1 .. k |-> i]
NewHeap(k) ==
  [m \in Nodes |-> [next |-> IF m < k THEN m + 1 ELSE NULL,
                    prev |-> IF 1 < m /\ m <= k THEN m - 1 ELSE NULL]]
NewHead(k) == IF k = 0 THEN NULL ELSE 1

\* That list is a chain.
LEMMA NewChain ==
  ASSUME NEW k \in 0 .. Size
  PROVE  /\ Chain(NewHeap(k), NewHead(k), First(k))
         /\ NewHeap(k) \in [Nodes -> Links]
         /\ Len(First(k)) = k
<1>1. k \in Nat /\ Size \in Nat /\ k <= Size
  BY SizeAssumption
<1>2. /\ First(k) \in Seq(Nodes) /\ Len(First(k)) = k /\ DOMAIN First(k) = 1 .. k
      /\ \A i \in 1 .. k : First(k)[i] = i
  <2>1. \A i \in 1 .. k : i \in Nodes
    BY <1>1 DEF Nodes
  <2> QED BY <1>1, <2>1 DEF First
<1>3. NewHeap(k) \in [Nodes -> Links]
  <2>1. \A m \in Nodes : /\ m < k => m + 1 \in Nodes
                         /\ 1 < m => m - 1 \in Nodes
    BY <1>1 DEF Nodes
  <2> QED BY <2>1 DEF NewHeap, Links
<1>4. IsInjective(First(k))
  BY <1>2 DEF IsInjective
<1>5. NewHead(k) = IF First(k) = << >> THEN NULL ELSE First(k)[1]
  <2>1. First(k) = << >> <=> k = 0
    BY <1>1, <1>2
  <2>2. k # 0 => 1 \in 1 .. k
    BY <1>1
  <2> QED BY <1>2, <2>1, <2>2 DEF NewHead
<1>6. ASSUME NEW i \in 1 .. k
      PROVE  /\ NewHeap(k)[i].next = IF i = k THEN NULL ELSE i + 1
             /\ NewHeap(k)[i].prev = IF i = 1 THEN NULL ELSE i - 1
  <2>1. i \in Nodes /\ i \in Nat /\ i >= 1 /\ i <= k
    BY <1>1 DEF Nodes
  <2>2. (i < k <=> i # k) /\ (1 < i <=> i # 1)
    BY <1>1, <2>1
  <2> QED BY <2>1, <2>2 DEF NewHeap
<1>7. \A i \in 1 .. k :
        /\ i # k => First(k)[i + 1] = i + 1
        /\ i # 1 => First(k)[i - 1] = i - 1
  <2>1. \A i \in 1 .. k : /\ i # k => i + 1 \in 1 .. k
                          /\ i # 1 => i - 1 \in 1 .. k
    BY <1>1
  <2> QED BY <1>2, <2>1
<1> QED BY <1>2, <1>3, <1>4, <1>5, <1>6, <1>7 DEF Chain

\* And the next insertion makes the next one.
LEMMA NewInsert ==
  ASSUME NEW k \in 1 .. Size
  PROVE  InsertNode(NewHeap(k - 1), NewHead(k - 1), k) = List(NewHeap(k), NewHead(k))
<1>1. k - 1 \in 0 .. Size /\ k \in 0 .. Size /\ k \in Nodes /\ k \in Nat /\ k >= 1
      /\ Size \in Nat
  BY SizeAssumption DEF Nodes
<1>2. /\ Chain(NewHeap(k - 1), NewHead(k - 1), First(k - 1)) /\ Len(First(k - 1)) = k - 1
      /\ NewHeap(k - 1) \in [Nodes -> Links]
  BY <1>1, NewChain
<1>3. ListToArray(NewHeap(k - 1), NewHead(k - 1), Size) = First(k - 1)
  BY <1>1, <1>2, WalkIs
<1> DEFINE h == NewHeap(k - 1)
<1>4. \A m \in Nodes : m \in Nat /\ m >= 1
  BY <1>1 DEF Nodes
<1>5. CASE k = 1
  <2>1. First(k - 1) = << >> /\ NewHead(k) = k
    BY <1>1, <1>5 DEF First, NewHead
  <2>2. [h EXCEPT ![k] = [next |-> NULL, prev |-> NULL]] = NewHeap(k)
    <3>1. \A m \in Nodes : ~(m < k - 1) /\ ~(m < k) /\ ~(1 < m /\ m <= k) /\ ~(1 < m /\ m <= k - 1)
      BY <1>4, <1>5
    <3> QED BY <1>1, <3>1 DEF NewHeap
  <2> QED BY <1>3, <2>1, <2>2 DEF InsertNode
<1>6. CASE k # 1
  <2>1. /\ First(k - 1) # << >> /\ Last(First(k - 1)) = k - 1
        /\ NewHead(k - 1) = 1 /\ NewHead(k) = 1
    <3>1. k - 1 \in 1 .. k - 1 /\ k - 1 # 0 /\ k # 0
      BY <1>1, <1>6
    <3> QED BY <1>2, <3>1 DEF First, NewHead, Last
  <2>2. [h EXCEPT ![k] = [next |-> NULL, prev |-> k - 1], ![k - 1].next = k] = NewHeap(k)
    <3> DEFINE g == [h EXCEPT ![k] = [next |-> NULL, prev |-> k - 1], ![k - 1].next = k]
    <3>1. k - 1 \in Nodes /\ k - 1 # k
      BY <1>1, <1>6 DEF Nodes
    <3>2. /\ g \in [Nodes -> Links]
          /\ g[k] = [next |-> NULL, prev |-> k - 1]
          /\ g[k - 1] = [next |-> k, prev |-> h[k - 1].prev]
          /\ \A m \in Nodes : m # k /\ m # k - 1 => g[m] = h[m]
      BY <1>1, <1>2, <3>1 DEF Links
    <3> HIDE DEF g, h
    <3>3. ASSUME NEW m \in Nodes
          PROVE  g[m] = [next |-> IF m < k THEN m + 1 ELSE NULL,
                         prev |-> IF 1 < m /\ m <= k THEN m - 1 ELSE NULL]
      <4>0. h[m] = [next |-> IF m < k - 1 THEN m + 1 ELSE NULL,
                    prev |-> IF 1 < m /\ m <= k - 1 THEN m - 1 ELSE NULL]
        BY DEF h, NewHeap
      <4>1. CASE m = k
        <5>1. ~(m < k) /\ 1 < m /\ m <= k
          BY <1>1, <1>6, <4>1
        <5> QED BY <3>2, <4>1, <5>1
      <4>2. CASE m = k - 1
        <5>1. m < k /\ m + 1 = k /\ m <= k /\ m <= k - 1
          BY <1>1, <4>2
        <5>2. g[m] = [next |-> k, prev |-> h[m].prev]
          BY <3>2, <4>2
        <5> QED BY <4>0, <5>1, <5>2
      <4>3. CASE m # k /\ m # k - 1
        <5>1. (m < k <=> m < k - 1) /\ (m <= k <=> m <= k - 1)
          BY <1>1, <1>4, <4>3
        <5> QED BY <3>2, <4>0, <4>3, <5>1
      <4> QED BY <4>1, <4>2, <4>3
    <3>4. g = [m \in Nodes |-> g[m]]
      BY <3>2
    <3> QED BY <3>3, <3>4 DEF g, NewHeap
  <2> QED BY <1>3, <2>1, <2>2 DEF InsertNode
<1> QED BY <1>5, <1>6

\* simple_pool_new makes one chain of all nodes.
LEMMA NewListIs == NewList = List(NewHeap(Size), NewHead(Size))
<1> DEFINE step(f) == [k \in 0 .. Size |->
                         IF k = 0
                         THEN List([m \in Nodes |-> [next |-> NULL, prev |-> NULL]], NULL)
                         ELSE InsertNode(f[k - 1].heap, f[k - 1].head, k)]
           after == CHOOSE f : f = step(f)
           g == [k \in 0 .. Size |-> List(NewHeap(k), NewHead(k))]
<1>1. NewList = after[Size]
  BY DEF NewList
<1>2. g = step(g)
  <2>1. NewHeap(0) = [m \in Nodes |-> [next |-> NULL, prev |-> NULL]] /\ NewHead(0) = NULL
    <3>1. \A m \in Nodes : ~(m < 0) /\ ~(1 < m /\ m <= 0)
      BY SizeAssumption DEF Nodes
    <3> QED BY <3>1 DEF NewHeap, NewHead
  <2>2. ASSUME NEW k \in 0 .. Size, k # 0
        PROVE  g[k] = InsertNode(g[k - 1].heap, g[k - 1].head, k)
    <3>1. k \in 1 .. Size /\ k - 1 \in 0 .. Size
      BY <2>2, SizeAssumption
    <3>2. g[k - 1].heap = NewHeap(k - 1) /\ g[k - 1].head = NewHead(k - 1)
      BY <3>1 DEF List
    <3> QED BY <3>1, <3>2, NewInsert
  <2>3. 0 \in 0 .. Size /\ g[0] = List([m \in Nodes |-> [next |-> NULL, prev |-> NULL]], NULL)
    BY <2>1, SizeAssumption
  <2> QED BY <2>2, <2>3
<1>3. after = step(after)
  BY <1>2
<1> HIDE DEF after, g
<1>4. \A k \in 0 .. Size : after[k] = g[k]
  <2> DEFINE T == {k \in 0 .. Size : after[k] # g[k]}
  <2> SUFFICES ASSUME T # {} PROVE FALSE
    OBVIOUS
  <2>1. PICK k \in T : \A j \in T : k <= j
    <3>1. T \subseteq Nat
      BY SizeAssumption
    <3> QED BY <3>1, LeastIndex
  <2>2. k \in 0 .. Size /\ after[k] # g[k]
    BY <2>1
  <2>3. after[k] = step(after)[k] /\ g[k] = step(g)[k]
    BY <1>2, <1>3
  <2>4. k # 0
    BY <2>2, <2>3
  <2>5. k - 1 \in 0 .. Size /\ ~(k <= k - 1)
    BY <2>2, <2>4, SizeAssumption
  <2>6. after[k - 1] = g[k - 1]
    BY <2>1, <2>5
  <2>7. /\ after[k] = InsertNode(after[k - 1].heap, after[k - 1].head, k)
        /\ g[k] = InsertNode(g[k - 1].heap, g[k - 1].head, k)
    BY <2>2, <2>3, <2>4
  <2> QED BY <2>2, <2>6, <2>7
<1>5. Size \in 0 .. Size
  BY SizeAssumption
<1> QED BY <1>1, <1>4, <1>5 DEF g

\* A new pool: all nodes are free, in order.
LEMMA InitLists ==
  ASSUME ListInit
  PROVE  ListInv /\ usedNodes = << >> /\ freeNodes = First(Size)
<1>1. /\ Size \in 0 .. Size /\ Size \in Nat
      /\ heap = NewHeap(Size) /\ free_entries = NewHead(Size)
      /\ entries = NULL /\ current_size = 0
  BY SizeAssumption, NewListIs DEF ListInit, List
<1>2. Chain(heap, free_entries, First(Size)) /\ heap \in [Nodes -> Links] /\ Len(First(Size)) = Size
  BY <1>1, NewChain
<1>3. Chain(heap, entries, << >>)
  BY <1>1 DEF Chain, IsInjective
<1>4. usedNodes = << >> /\ freeNodes = First(Size)
  <2>1. Len(<< >>) <= Size /\ Len(First(Size)) <= Size
    BY <1>1, <1>2
  <2> QED BY <1>2, <1>3, <2>1, NodesAre
<1>5. Accounted
  <2>1. Len(usedNodes) = 0 /\ Len(freeNodes) = Size
    BY <1>2, <1>4
  <2>2. Range(usedNodes) = {}
    BY <1>4 DEF Range
  <2> QED BY <1>1, <2>1, <2>2 DEF Accounted
<1>6. ListTypeOK
  <2>1. entries \in Nodes \cup {NULL} /\ free_entries \in Nodes \cup {NULL}
    BY <1>2, <1>3, FirstFacts
  <2>2. heap \in [Nodes -> [next: Nodes \cup {NULL}, prev: Nodes \cup {NULL}]]
    BY <1>2 DEF Links
  <2>3. current_size \in 0 .. Size
    BY <1>1
  <2> QED BY <2>1, <2>2, <2>3 DEF ListInit, ListTypeOK
<1> QED BY <1>2, <1>3, <1>4, <1>5, <1>6 DEF ListInv

\* Without a step the lists are as they were.
LEMMA ListStutter ==
  ListInv /\ UNCHANGED listVars =>
    ListInv' /\ usedNodes' = usedNodes /\ freeNodes' = freeNodes
<1> SUFFICES ASSUME ListInv, UNCHANGED listVars
             PROVE  ListInv' /\ usedNodes' = usedNodes /\ freeNodes' = freeNodes
  OBVIOUS
<1>1. usedNodes' = usedNodes /\ freeNodes' = freeNodes
  BY DEF usedNodes, freeNodes, listVars
<1>2. Accounted'
  BY <1>1 DEF ListInv, Accounted, listVars
<1> QED BY <1>1, <1>2 DEF ListInv, ListTypeOK, listVars

\* Every step keeps ListInv.
LEMMA ListStep == ListInv /\ [ListNext]_listVars => ListInv'
  BY AllocLists, FreeLists, WriteLists, ListStutter DEF ListNext

\* ListInv holds.
LEMMA ListHolds == ListSpec => []ListInv
  BY InitLists, ListStep, PTL DEF ListSpec

\* For a pool of every size: whatever is allocated, written and freed, in any
\* order, also twice and by content, both lists of simple_pool_t stay sound
\* doubly linked lists that share no node and lose none, and current_size
\* counts those in use.
THEOREM PoolListsSound == ListSpec => []ListsSound
<1>1. ListInv => ListsSound
  <2> SUFFICES ASSUME ListInv PROVE ListsSound
    OBVIOUS
  <2>1. SoundList(usedNodes) /\ SoundList(freeNodes)
    BY DEF ListInv, Chain, SoundList
  <2> QED BY <2>1 DEF ListInv, ListsSound
<1> QED BY <1>1, ListHolds, PTL
\* A new pool is one of PoolSpec.
LEMMA PoolInitImplemented == ListInit => Pool!Init
<1> SUFFICES ASSUME ListInit PROVE Pool!Init
  OBVIOUS
<1>1. usedNodes = << >> /\ freeNodes = First(Size)
  BY InitLists
<1>2. Pool!Cardinality(Nodes) = Size
  <2>1. Size \in Nat /\ Size \in Int
    BY SizeAssumption
  <2>2. Cardinality(1 .. Size) = Size
    BY <2>1, FS_Interval
  <2>3. Pool!Cardinality(Nodes) = Cardinality(Nodes)
    BY DEF Pool!Cardinality, Cardinality
  <2> QED BY <2>2, <2>3 DEF Nodes
<1>3. First(Size) \in [1 .. Size -> Nodes] /\ Pool!IsInjective(First(Size))
  BY DEF First, Nodes, Pool!IsInjective
<1> QED BY <1>1, <1>2, <1>3 DEF Pool!Init, Pool!Orders, ListInit

\* Every operation on the lists is the operation of PoolSpec.
LEMMA PoolStepImplemented == ListInv /\ [ListNext]_listVars => [Pool!Next]_(Pool!vars)
<1> SUFFICES ASSUME ListInv, [ListNext]_listVars PROVE [Pool!Next]_(Pool!vars)
  OBVIOUS
<1>1. CASE AllocEntry
  <2>1. Pool!Alloc
    BY <1>1, AllocLists DEF AllocEntry, Pool!Alloc, Reset, Pool!Reset
  <2> QED BY <2>1 DEF Pool!Next
<1>2. ASSUME NEW e \in Nodes, NEW v \in Values, Write(e, v) PROVE Pool!Next
  <2>1. Pool!Write(e, v)
    BY <1>2, WriteLists DEF Write, Pool!Write, usedNodes, Range, Pool!Range
  <2> QED BY <2>1 DEF Pool!Next
<1>3. ASSUME NEW e \in Nodes, FreeEntry(e) PROVE Pool!Next
  <2>1. PICK k \in 1 .. Len(usedNodes) :
          /\ Same(usedNodes[k], e)
          /\ \A j \in 1 .. k - 1 : ~Same(usedNodes[j], e)
          /\ usedNodes' = RemoveAt(usedNodes, k)
          /\ freeNodes' = Append(freeNodes, usedNodes[k])
          /\ value' = Reset(usedNodes[k])
    BY <1>3, FreeLists
  <2>2. k \in DOMAIN usedNodes
    BY InvFacts
  <2>3. Pool!IsFirst(k, e)
    BY <2>1, <2>2 DEF Pool!IsFirst, Same, Pool!Same
  <2>4. Pool!RemoveAt(usedNodes, k) = RemoveAt(usedNodes, k) /\ Pool!Reset(usedNodes[k]) = Reset(usedNodes[k])
    BY DEF Pool!RemoveAt, RemoveAt, Pool!Reset, Reset
  <2>5. custom' = custom
    BY <1>3 DEF FreeEntry
  <2>6. Pool!Free(e)
    BY <2>1, <2>2, <2>3, <2>4, <2>5 DEF Pool!Free
  <2> QED BY <2>6 DEF Pool!Next
<1>4. CASE UNCHANGED listVars
  BY <1>4, ListStutter DEF Pool!vars, listVars
<1> QED BY <1>1, <1>2, <1>3, <1>4 DEF ListNext

\* The pointers of src/list.c and src/pool.c implement the two sequences of
\* PoolSpec: simple_pool_alloc hands out what has been free longest, and
\* simple_pool_free takes back the first element in use that compares equal.
THEOREM PoolImplemented == ListSpec => ImplementsPool
  BY ListHolds, PoolInitImplemented, PoolStepImplemented, PTL DEF ListSpec, ImplementsPool, Pool!Spec

-----------------------------------------------------------------------------
(* The threads of a process.                                               *)

Under == {"picked", "taken"}   \* a creation is under way

\* The free elements.
PoolInv ==
  ~broken =>
    /\ Len(free) = MaxThreads - size
    /\ \A k \in 1 .. Len(free) : free[k] = size + k

\* Without overlap.
SoloInv ==
  ~overlap =>
    /\ ~broken
    /\ \A c, d \in Creators : cpc[c] \in Under /\ cpc[d] \in Under => c = d
    /\ \A c \in Creators : cpc[c] = "picked" => free # << >> /\ elem[c] = size + 1
    /\ \A c \in Creators : cpc[c] = "taken" => elem[c] = size /\ size # 0
    /\ \A e \in Elements : state[e] \notin {"free", "alloc"} => tid[e] = e

ThreadInv == TypeOK /\ PoolInv /\ SoloInv

-----------------------------------------------------------------------------
\* All elements are free and nobody creates.
LEMMA InitInv == Init => ThreadInv
<1> SUFFICES ASSUME Init PROVE ThreadInv
  OBVIOUS
<1>1. free \in Seq(Elements) /\ Len(free) = MaxThreads
  BY ThreadsAssumption DEF Init, Elements
<1>2. TypeOK
  <2>1. size \in 0 .. MaxThreads + 1 /\ tid \in [Elements -> 0 .. MaxThreads]
    BY ThreadsAssumption DEF Init
  <2>2. /\ cpc \in [Creators -> {"run", "picked", "taken", "join", "exit", "idle", "aborted"}]
        /\ elem \in [Creators -> Elements \cup {NoElement}]
        /\ role \in [Elements -> {"app", "monitor"}]
        /\ state \in [Elements -> States]
        /\ active \in [Elements -> BOOLEAN]
    BY DEF Init, States
  <2>3. /\ root \in {"run", "join"} /\ label \in {"none", "exit", "fault"}
        /\ overlap \in BOOLEAN /\ broken \in BOOLEAN
        /\ taken \in {"none", "root", "monitor"}
    BY DEF Init
  <2> QED BY <1>1, <2>1, <2>2, <2>3 DEF TypeOK
<1>3. PoolInv
  BY <1>1, ThreadsAssumption DEF Init, PoolInv, Elements
<1>4. SoloInv
  BY DEF Init, SoloInv, Under
<1> QED BY <1>2, <1>3, <1>4 DEF ThreadInv

\* The size while nothing is broken.
LEMMA SizeFacts ==
  ASSUME ThreadInv, ~broken
  PROVE  /\ size \in 0 .. MaxThreads
         /\ Len(free) \in Nat
         /\ free # << >> => Head(free) = size + 1 /\ Head(free) \in Elements /\ size < MaxThreads
<1>1. free \in Seq(Elements) /\ size \in 0 .. MaxThreads + 1 /\ MaxThreads \in Nat
  BY ThreadsAssumption DEF ThreadInv, TypeOK
<1>2. Len(free) \in Nat
  BY <1>1
<1>3. Len(free) = MaxThreads - size
  BY DEF ThreadInv, PoolInv
<1>4. free # << >> => Len(free) # 0 /\ Head(free) = free[1] /\ free[1] \in Elements
  BY <1>1
<1>5. free # << >> => free[1] = size + 1
  BY <1>2, <1>4 DEF ThreadInv, PoolInv
<1> QED BY <1>1, <1>2, <1>3, <1>4, <1>5

\* Steps outside a creation: a thread that exists stays one, and a creation
\* under way is not disturbed.
LEMMA LifeInv ==
  ASSUME ThreadInv, TypeOK', UNCHANGED <<free, size, overlap, broken, tid>>,
         \A e \in Elements : state[e] \in {"free", "alloc"} => state'[e] = state[e],
         \A c \in Creators : cpc'[c] = cpc[c] \/ (cpc[c] \notin Under /\ cpc'[c] \notin Under),
         \A c \in Creators : cpc[c] \in Under => elem'[c] = elem[c]
  PROVE  ThreadInv'
<1>1. PoolInv'
  BY DEF ThreadInv, PoolInv
<1>2. SoloInv'
  BY DEF ThreadInv, SoloInv, Under
<1> QED BY <1>1, <1>2 DEF ThreadInv

\* simple_pool_alloc reads the head.
LEMMA PickInv ==
  ASSUME ThreadInv, ~broken, NEW c \in Creators, CreatePick(c)
  PROVE  ThreadInv'
<1>1. /\ UNCHANGED <<free, size, broken, role, tid, state, active, root, label, taken>>
      /\ cpc[c] = "run"
  BY DEF CreatePick, Step, rootVars
<1>2. /\ cpc \in [Creators -> {"run", "picked", "taken", "join", "exit", "idle", "aborted"}]
      /\ elem \in [Creators -> Elements \cup {NoElement}]
  BY DEF ThreadInv, TypeOK
<1>3. CASE free = << >>
  <2>1. cpc' = [cpc EXCEPT ![c] = "aborted"] /\ UNCHANGED <<elem, overlap>>
    BY <1>3 DEF CreatePick, Step
  <2>2. TypeOK'
    BY <1>1, <2>1 DEF ThreadInv, TypeOK
  <2> QED BY <1>1, <1>2, <2>1, <2>2, LifeInv DEF Under
<1>4. CASE free # << >>
  <2>1. /\ cpc' = [cpc EXCEPT ![c] = "picked"]
        /\ elem' = [elem EXCEPT ![c] = Head(free)]
        /\ overlap' = (overlap \/ \E d \in Creators : cpc[d] \in Under)
    BY <1>4 DEF CreatePick, Step, Under
  <2>2. Head(free) \in Elements /\ Head(free) = size + 1
    BY <1>4, SizeFacts
  <2>3. TypeOK'
    <3>1. overlap' \in BOOLEAN
      BY <2>1
    <3> QED BY <1>1, <2>1, <2>2, <3>1 DEF ThreadInv, TypeOK
  <2>4. PoolInv'
    BY <1>1 DEF ThreadInv, PoolInv
  <2>5. SoloInv'
    <3> SUFFICES ASSUME ~overlap'
                 PROVE  /\ \A a, d \in Creators : cpc'[a] \in Under /\ cpc'[d] \in Under => a = d
                        /\ \A d \in Creators : cpc'[d] = "picked" => elem'[d] = size + 1
                        /\ \A d \in Creators : cpc'[d] = "taken" => elem'[d] = size /\ size # 0
                        /\ \A e \in Elements : state[e] \notin {"free", "alloc"} => tid[e] = e
      BY <1>1, <1>4 DEF ThreadInv, SoloInv
    <3>1. ~overlap /\ \A d \in Creators : cpc[d] \notin Under
      BY <2>1
    <3>2. \A d \in Creators : d # c => cpc'[d] \notin Under
      BY <1>2, <2>1, <3>1
    <3>3. cpc'[c] = "picked" /\ elem'[c] = size + 1
      BY <1>2, <2>1, <2>2
    <3> QED BY <3>1, <3>2, <3>3 DEF ThreadInv, SoloInv, Under
  <2> QED BY <2>3, <2>4, <2>5 DEF ThreadInv
<1> QED BY <1>3, <1>4

\* It takes the element.  Alone, that is the one it has read.
LEMMA TakeInv ==
  ASSUME ThreadInv, ~broken, NEW c \in Creators, NEW r \in {"app", "monitor"},
         CreateTake(c, r)
  PROVE  ThreadInv'
<1>1. /\ UNCHANGED <<overlap, elem, tid, active, root, label, taken>>
      /\ cpc[c] = "picked"
      /\ cpc' = [cpc EXCEPT ![c] = "taken"]
      /\ size' = size + 1
      /\ role' = [role EXCEPT ![elem[c]] = r]
      /\ state' = [state EXCEPT ![elem[c]] = "alloc"]
      /\ \/ /\ free # << >> /\ Head(free) = elem[c]
            /\ free' = Tail(free) /\ broken' = broken
         \/ /\ ~(free # << >> /\ Head(free) = elem[c])
            /\ broken' = TRUE /\ free' = free
  BY DEF CreateTake, Step, NewSize, rootVars
<1>2. /\ cpc \in [Creators -> {"run", "picked", "taken", "join", "exit", "idle", "aborted"}]
      /\ state \in [Elements -> States]
      /\ free \in Seq(Elements)
      /\ MaxThreads \in Nat
      /\ broken \in BOOLEAN
  BY ThreadsAssumption DEF ThreadInv, TypeOK
<1>3. free # << >> =>
        /\ Tail(free) \in Seq(Elements)
        /\ Len(Tail(free)) = Len(free) - 1
        /\ \A k \in 1 .. Len(Tail(free)) : Tail(free)[k] = free[k + 1]
  BY <1>2
<1>4. TypeOK'
  <2>1. size' \in 0 .. MaxThreads + 1
    BY <1>1, <1>2, SizeFacts
  <2>2. free' \in Seq(Elements) /\ broken' \in BOOLEAN
    BY <1>1, <1>2, <1>3
  <2>3. role' \in [Elements -> {"app", "monitor"}] /\ state' \in [Elements -> States]
    BY <1>1 DEF ThreadInv, TypeOK, States
  <2> QED BY <1>1, <2>1, <2>2, <2>3 DEF ThreadInv, TypeOK
<1>5. PoolInv'
  <2> SUFFICES ASSUME ~broken' PROVE PoolInv'
    BY DEF PoolInv
  <2>1. free # << >> /\ free' = Tail(free)
    BY <1>1
  <2>2. Len(free) = MaxThreads - size /\ \A k \in 1 .. Len(free) : free[k] = size + k
    BY DEF ThreadInv, PoolInv
  <2>3. size \in Nat /\ Len(free) \in Nat
    BY SizeFacts
  <2>4. Len(free') = MaxThreads - size'
    BY <1>1, <1>2, <1>3, <2>1, <2>2, <2>3
  <2>5. ASSUME NEW k \in 1 .. Len(free')
        PROVE  free'[k] = size' + k
    <3>1. k + 1 \in 1 .. Len(free) /\ free'[k] = free[k + 1]
      BY <1>3, <2>1, <2>3
    <3>2. free[k + 1] = size + (k + 1)
      BY <2>2, <3>1
    <3> QED BY <1>1, <2>3, <3>1, <3>2
  <2> QED BY <2>4, <2>5 DEF PoolInv
<1>6. SoloInv'
  <2> SUFFICES ASSUME ~overlap PROVE SoloInv'
    BY <1>1 DEF SoloInv
  <2>1. /\ free # << >> /\ elem[c] = size + 1
        /\ \A d \in Creators : d # c => cpc[d] \notin Under
        /\ \A e \in Elements : state[e] \notin {"free", "alloc"} => tid[e] = e
    BY <1>1 DEF ThreadInv, SoloInv, Under
  <2>2. ~broken'
    BY <1>1, <2>1, SizeFacts
  <2>3. size' # 0 /\ elem'[c] = size'
    BY <1>1, <2>1, SizeFacts
  <2>4. cpc'[c] = "taken" /\ \A d \in Creators : d # c => cpc'[d] \notin Under
    BY <1>1, <1>2, <2>1
  <2>5. \A e \in Elements : state'[e] \notin {"free", "alloc"} => tid'[e] = e
    BY <1>1, <1>2, <2>1
  <2> QED BY <2>2, <2>3, <2>4, <2>5 DEF SoloInv, Under
<1> QED BY <1>4, <1>5, <1>6 DEF ThreadInv

\* The tid is the size, which alone is the element's position.
LEMMA CreateInitInv ==
  ASSUME ThreadInv, ~broken, NEW c \in Creators, CreateInit(c)
  PROVE  ThreadInv'
<1>1. /\ UNCHANGED <<free, size, overlap, broken, role, active, root, label, taken>>
      /\ cpc[c] = "taken"
      /\ cpc' = [cpc EXCEPT ![c] = "run"]
      /\ tid' = [tid EXCEPT ![elem[c]] = size]
      /\ elem' = [elem EXCEPT ![c] = NoElement]
      /\ \E s \in {"started", "new"} : state' = [state EXCEPT ![elem[c]] = s]
  BY DEF CreateInit, Step, poolVars, rootVars
<1>2. /\ cpc \in [Creators -> {"run", "picked", "taken", "join", "exit", "idle", "aborted"}]
      /\ elem \in [Creators -> Elements \cup {NoElement}]
      /\ state \in [Elements -> States]
      /\ tid \in [Elements -> 0 .. MaxThreads]
      /\ size \in 0 .. MaxThreads
  BY SizeFacts DEF ThreadInv, TypeOK
<1>3. TypeOK'
  <2>1. state' \in [Elements -> States] /\ tid' \in [Elements -> 0 .. MaxThreads]
    BY <1>1, <1>2 DEF States
  <2> QED BY <1>1, <2>1 DEF ThreadInv, TypeOK
<1>4. PoolInv'
  BY <1>1 DEF ThreadInv, PoolInv
<1>5. SoloInv'
  <2> SUFFICES ASSUME ~overlap PROVE SoloInv'
    BY <1>1 DEF SoloInv
  <2>1. /\ elem[c] = size
        /\ \A d \in Creators : d # c => cpc[d] \notin Under
        /\ \A e \in Elements : state[e] \notin {"free", "alloc"} => tid[e] = e
    BY <1>1 DEF ThreadInv, SoloInv, Under
  <2>2. \A d \in Creators : cpc'[d] \notin Under
    BY <1>1, <1>2, <2>1 DEF Under
  <2>3. \A e \in Elements : state'[e] \notin {"free", "alloc"} => tid'[e] = e
    BY <1>1, <1>2, <2>1
  <2> QED BY <1>1, <2>2, <2>3 DEF SoloInv, Under
<1> QED BY <1>3, <1>4, <1>5 DEF ThreadInv

\* What happens in a thread's life, and at the fault endpoint.
LEMMA LifeSteps ==
  ASSUME ThreadInv, NEW e \in Elements,
         \/ \E c \in Creators : Start(c, e) \/ Stop(c, e) \/ Join(c, e) \/ Delete(c, e)
         \/ Wrapper(e) \/ Return(e) \/ MonitorWait(e) \/ Fault(e)
  PROVE  ThreadInv'
<1>1. /\ cpc \in [Creators -> {"run", "picked", "taken", "join", "exit", "idle", "aborted"}]
      /\ elem \in [Creators -> Elements \cup {NoElement}]
      /\ state \in [Elements -> States]
      /\ active \in [Elements -> BOOLEAN]
  BY DEF ThreadInv, TypeOK
<1>2. UNCHANGED <<free, size, overlap, broken, role, tid, root, label, taken>>
  BY DEF Start, Stop, Join, Delete, Wrapper, Return, MonitorWait, Fault, poolVars, rootVars
<1>3. /\ state' \in [Elements -> States]
      /\ \A f \in Elements : state[f] \in {"free", "alloc"} => state'[f] = state[f]
  BY <1>1 DEF Start, Stop, Join, Delete, Wrapper, Return, MonitorWait, Fault, Move, States,
     AfterRoutine
<1>4. active' \in [Elements -> BOOLEAN]
  BY <1>1 DEF Start, Stop, Join, Delete, Wrapper, Return, MonitorWait, Fault
<1>5. /\ cpc' \in [Creators -> {"run", "picked", "taken", "join", "exit", "idle", "aborted"}]
      /\ elem' \in [Creators -> Elements \cup {NoElement}]
      /\ \A d \in Creators : cpc'[d] = cpc[d] \/ (cpc[d] \notin Under /\ cpc'[d] \notin Under)
      /\ \A d \in Creators : cpc[d] \in Under => elem'[d] = elem[d]
  BY <1>1 DEF Start, Stop, Join, Delete, Wrapper, Return, MonitorWait, Fault, Step, Under
<1>6. TypeOK'
  BY <1>2, <1>3, <1>4, <1>5 DEF ThreadInv, TypeOK
<1> QED BY <1>2, <1>3, <1>5, <1>6, LifeInv

\* Steps on the fault endpoint leave the pool and the tids alone.
LEMMA EndpointSteps ==
  ASSUME ThreadInv,
         \/ \E c \in Creators : JoinReturn(c)
         \/ Exit \/ RootJoin \/ Receive
  PROVE  ThreadInv'
<1>1. /\ cpc \in [Creators -> {"run", "picked", "taken", "join", "exit", "idle", "aborted"}]
      /\ elem \in [Creators -> Elements \cup {NoElement}]
      /\ state \in [Elements -> States]
  BY DEF ThreadInv, TypeOK
<1>2. UNCHANGED <<free, size, overlap, broken, role, tid, active>>
  BY DEF JoinReturn, Exit, RootJoin, Receive, RootReceive, MonitorReceive, poolVars
<1>3. /\ root' \in {"run", "join"} /\ label' \in {"none", "exit", "fault"}
      /\ taken' \in {"none", "root", "monitor"}
  BY DEF ThreadInv, TypeOK, JoinReturn, Exit, RootJoin, Receive, RootReceive, MonitorReceive,
     rootVars, Returned
<1>4. /\ state' \in [Elements -> States]
      /\ \A f \in Elements : state[f] \in {"free", "alloc"} => state'[f] = state[f]
  BY <1>1 DEF JoinReturn, Exit, RootJoin, Receive, RootReceive, MonitorReceive, Move, States
<1>5. /\ cpc' \in [Creators -> {"run", "picked", "taken", "join", "exit", "idle", "aborted"}]
      /\ elem' \in [Creators -> Elements \cup {NoElement}]
      /\ \A d \in Creators : cpc'[d] = cpc[d] \/ (cpc[d] \notin Under /\ cpc'[d] \notin Under)
      /\ \A d \in Creators : cpc[d] \in Under => elem'[d] = elem[d]
  BY <1>1, CreatorsAssumption
     DEF JoinReturn, Exit, RootJoin, Receive, RootReceive, MonitorReceive, Step, Under
<1>6. TypeOK'
  BY <1>2, <1>3, <1>4, <1>5 DEF ThreadInv, TypeOK
<1> QED BY <1>2, <1>4, <1>5, <1>6, LifeInv

\* Every step keeps ThreadInv; creation is the one that matters.
LEMMA StepInv == ThreadInv /\ [Next]_vars => ThreadInv'
<1> SUFFICES ASSUME ThreadInv, [Next]_vars PROVE ThreadInv'
  OBVIOUS
<1>1. ASSUME ~broken, NEW c \in Creators, CreatorNext(c)
      PROVE  ThreadInv'
  BY <1>1, PickInv, TakeInv, CreateInitInv, LifeSteps, EndpointSteps DEF CreatorNext
<1>2. ASSUME NEW e \in Elements, ThreadNext(e)
      PROVE  ThreadInv'
  BY <1>2, LifeSteps DEF ThreadNext
<1>3. CASE Exit \/ RootJoin \/ Receive
  BY <1>3, EndpointSteps
<1>4. CASE UNCHANGED vars
  BY <1>4 DEF vars, poolVars, rootVars, ThreadInv, TypeOK, PoolInv, SoloInv
<1> QED BY <1>1, <1>2, <1>3, <1>4 DEF Next

\* As long as no two calls of sel4osapi_thread_create overlap, no element of the
\* pool is handed out twice and the threads of a process that exist have
\* different tids, none of them the first thread's 0, whatever is joined,
\* deleted, faults or is monitored meanwhile.
THEOREM TidsUnique == Spec => []TidsDistinct
<1>1. Spec => []ThreadInv
  BY InitInv, StepInv, PTL DEF Spec
<1>2. ThreadInv => TidsDistinct
  BY ThreadsAssumption DEF ThreadInv, SoloInv, TidsDistinct, Elements
<1> QED BY <1>1, <1>2, PTL
=============================================================================
