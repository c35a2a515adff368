-------------------------- MODULE CacheList_proofs --------------------------
(***************************************************************************)
(* What addToCache does to the list, for any capacity and any queries.     *)
(***************************************************************************)
EXTENDS CacheList, FiniteSetTheorems, Recursion_proofs

\* After(c)[k] is what k turns of the loop have come to.
LEMMA AfterSteps ==
    ASSUME NEW c
    PROVE  /\ After(c)[0] = c.head
           /\ \A k \in 1 .. CACHE_CAPACITY + 1 :
                 After(c)[k] = IF After(c)[k - 1] = NULL THEN NULL ELSE c.next[After(c)[k - 1]]
<1> DEFINE N == CACHE_CAPACITY + 1
           Turn(at, k) == IF k = 0 THEN c.head
                          ELSE IF at[k - 1] = NULL THEN NULL ELSE c.next[at[k - 1]]
           Defines(at, n) == at = [k \in 0 .. n |-> Turn(at, k)]
           Defined == {n \in 0 .. N : \E at : Defines(at, n)}
<1>0. N \in Nat
  BY CacheListAssumption
<1>1. 0 \in Defined
  <2>1. Defines([k \in 0 .. 0 |-> c.head], 0)
    OBVIOUS
  <2> HIDE DEF Defines
  <2> QED
    BY <1>0, <2>1
<1>2. ASSUME NEW n \in 0 .. N, n \in Defined, n < N
      PROVE  n + 1 \in Defined
  <2>1. PICK at : Defines(at, n)
    BY <1>2
  <2> DEFINE to == [k \in 0 .. n + 1 |-> IF k = n + 1 THEN Turn(at, k) ELSE at[k]]
  <2>2. ASSUME NEW k \in 0 .. n + 1
        PROVE  to[k] = Turn(to, k)
    <3>1. k > 0 => to[k - 1] = at[k - 1]
      BY <1>0
    <3>2. k # n + 1 => at[k] = Turn(at, k)
      BY <1>0, <2>1
    <3> QED
      BY <1>0, <3>1, <3>2
  <2>3. Defines(to, n + 1)
    BY <1>0, <2>2
  <2> HIDE DEF Defines
  <2> QED
    BY <1>0, <1>2, <2>3
<1>3. \E at : Defines(at, N)
  <2> HIDE DEF Defined
  <2>1. N \in Defined
    BY <1>0, <1>1, <1>2, Stepwise
  <2> QED
    BY <2>1 DEF Defined
<1>4. Defines(After(c), N)
  <2>1. After(c) = CHOOSE at : Defines(at, N)
    BY DEF After
  <2> HIDE DEF Defines
  <2> QED
    BY <1>3, <2>1
<1> QED
  BY <1>0, <1>4
-----------------------------------------------------------------------------
(* The two shapes of a list.                                               *)

\* Caches, and what a cache is while it holds one entry too many.
Heaps ==
    [head : Pointers, tail : Pointers, size : Nat,
     query : [Addresses -> Queries \cup {NULL}],
     prev : [Addresses -> Pointers], next : [Addresses -> Pointers],
     live : SUBSET Addresses]

\* ch numbers the entries in the order in which the pointers link them.
Numbers(c, ch) ==
    /\ ch \in [1 .. c.size -> c.live]
    /\ \A a \in c.live : \E i \in 1 .. c.size : ch[i] = a
    /\ \A i, j \in 1 .. c.size : ch[i] = ch[j] => i = j

Linked(c, ch) ==
    /\ c.head = IF c.size = 0 THEN NULL ELSE ch[1]
    /\ c.tail = IF c.size = 0 THEN NULL ELSE ch[c.size]
    /\ \A i \in 1 .. c.size :
          /\ c.next[ch[i]] = IF i = c.size THEN NULL ELSE ch[i + 1]
          /\ c.prev[ch[i]] = IF i = 1 THEN NULL ELSE ch[i - 1]

Distinct(c) == \A a, b \in c.live : c.query[a] = c.query[b] => a = b

Ordered(c, ch) == Numbers(c, ch) /\ Linked(c, ch) /\ Distinct(c)

\* The head follows itself, both ways; what is behind it is lost.
Damaged(c) ==
    /\ c.head \in c.live
    /\ c.next[c.head] = c.head /\ c.prev[c.head] = c.head
    /\ c.tail \in c.live \cup {NULL} /\ c.tail # c.head
    /\ c.size = Cardinality(c.live)

\* Every cache that addToCache makes is one or the other.
ListInv(c) == c \in Caches /\ ((\E ch : Ordered(c, ch)) \/ Damaged(c))
-----------------------------------------------------------------------------
(* findInCache                                                             *)

LEMMA NullIsNoAddress == NULL \notin Addresses
  BY CacheListAssumption DEF Addresses

\* The loop goes along the numbers and ends after the last.
LEMMA Walk ==
    ASSUME NEW c \in Caches, NEW ch, Ordered(c, ch)
    PROVE  \A k \in 0 .. CACHE_CAPACITY + 1 :
              After(c)[k] = IF k < c.size THEN ch[k + 1] ELSE NULL
<1> DEFINE N == CACHE_CAPACITY + 1
           Right == {k \in 0 .. N : After(c)[k] = IF k < c.size THEN ch[k + 1] ELSE NULL}
<1>0. /\ CACHE_CAPACITY \in Nat /\ c.size \in 0 .. CACHE_CAPACITY
      /\ \A i \in 1 .. c.size : ch[i] # NULL
  BY CacheListAssumption, NullIsNoAddress DEF Caches, Ordered, Numbers
<1>1. 0 \in Right
  BY <1>0, AfterSteps DEF Ordered, Linked
<1>2. ASSUME NEW k \in 0 .. N, k \in Right, k < N
      PROVE  k + 1 \in Right
  <2>1. After(c)[k + 1] = IF After(c)[k] = NULL THEN NULL ELSE c.next[After(c)[k]]
    <3>1. k + 1 \in 1 .. CACHE_CAPACITY + 1 /\ (k + 1) - 1 = k
      BY <1>0, <1>2
    <3> QED
      BY <3>1, AfterSteps
  <2>2. CASE k < c.size
    <3>1. After(c)[k] = ch[k + 1] /\ ch[k + 1] # NULL
      BY <1>0, <1>2, <2>2
    <3>2. c.next[ch[k + 1]] = IF k + 1 = c.size THEN NULL ELSE ch[k + 2]
      BY <1>0, <2>2 DEF Ordered, Linked
    <3> QED
      BY <1>0, <1>2, <2>1, <2>2, <3>1, <3>2
  <2>3. CASE ~(k < c.size)
    BY <1>0, <1>2, <2>1, <2>3
  <2> QED
    BY <2>2, <2>3
<1> HIDE DEF Right
<1>3. \A k \in 0 .. N : k \in Right
  BY <1>0, <1>1, <1>2, Stepwise
<1> QED
  BY <1>3 DEF Right

\* So it meets every entry and no other.
LEMMA OrderedSearch ==
    ASSUME NEW c \in Caches, NEW ch, Ordered(c, ch)
    PROVE  /\ Reached(c) = c.live
           /\ \A q : ~Loops(c, q)
           /\ \A q : Hit(c, q) => Entry(c, q) \in c.live /\ c.query[Entry(c, q)] = q
           /\ WellFormed(c)
<1>0. /\ CACHE_CAPACITY \in Nat /\ c.size \in 0 .. CACHE_CAPACITY
      /\ \A i \in 1 .. c.size : ch[i] \in c.live /\ ch[i] # NULL
  BY CacheListAssumption, NullIsNoAddress DEF Caches, Ordered, Numbers
<1>1. \A k \in 0 .. CACHE_CAPACITY + 1 : After(c)[k] = IF k < c.size THEN ch[k + 1] ELSE NULL
  BY Walk
<1>2. \A i \in 1 .. c.size : i - 1 \in 0 .. CACHE_CAPACITY + 1 /\ After(c)[i - 1] = ch[i]
  BY <1>0, <1>1
<1>3. Reached(c) = c.live
  <2>1. Reached(c) \subseteq c.live
    BY <1>0, <1>1 DEF Reached
  <2>2. ASSUME NEW a \in c.live
        PROVE  a \in Reached(c)
    <3>1. PICK i \in 1 .. c.size : ch[i] = a
      BY DEF Ordered, Numbers
    <3> QED
      BY <1>0, <1>2, <3>1 DEF Reached
  <2> QED
    BY <2>1, <2>2
<1>4. \A q : ~Loops(c, q)
  BY <1>0, <1>1 DEF Loops
<1>5. ASSUME NEW q, Hit(c, q)
      PROVE  Entry(c, q) \in c.live /\ c.query[Entry(c, q)] = q
  <2> DEFINE turns == {k \in 0 .. CACHE_CAPACITY + 1 :
                         After(c)[k] # NULL /\ c.query[After(c)[k]] = q}
             found == CHOOSE k \in turns : \A j \in turns : k <= j
  <2>1. PICK a \in c.live : c.query[a] = q
    BY <1>3, <1>5 DEF Hit
  <2>2. PICK i \in 1 .. c.size : ch[i] = a
    BY DEF Ordered, Numbers
  <2>3. i - 1 \in turns
    BY <1>0, <1>2, <2>1, <2>2
  <2>4. \A j \in turns : j = i - 1
    <3> SUFFICES ASSUME NEW j \in turns
                 PROVE  j = i - 1
      OBVIOUS
    <3>1. j < c.size /\ After(c)[j] = ch[j + 1] /\ j + 1 \in 1 .. c.size
      BY <1>0, <1>1
    <3>2. ch[j + 1] = ch[i]
      BY <1>0, <2>1, <2>2, <3>1 DEF Ordered, Distinct
    <3>3. j + 1 = i
      BY <2>2, <3>1, <3>2 DEF Ordered, Numbers
    <3> QED
      BY <1>0, <3>3
  <2>5. found = i - 1
    <3> HIDE DEF turns
    <3>1. \A j \in turns : i - 1 <= j
      BY <1>0, <2>4
    <3> QED
      BY <2>3, <2>4, <3>1
  <2>6. Entry(c, q) = After(c)[found]
    BY DEF Entry
  <2> QED
    BY <1>2, <2>1, <2>2, <2>5, <2>6
<1>6. WellFormed(c)
  <2>1. \A i \in 1 .. c.size : Chain(c)[i] = ch[i]
    BY <1>2 DEF Chain
  <2>2. After(c)[c.size] = NULL
    BY <1>0, <1>1
  <2>3. {Chain(c)[i] : i \in 1 .. c.size} = c.live
    BY <1>0, <2>1 DEF Ordered, Numbers
  <2>4. c.tail = IF c.size = 0 THEN NULL ELSE Chain(c)[c.size]
    BY <1>0, <2>1 DEF Ordered, Linked
  <2>5. \A i \in 1 .. c.size : c.prev[Chain(c)[i]] = IF i = 1 THEN NULL ELSE Chain(c)[i - 1]
    BY <1>0, <2>1 DEF Ordered, Linked
  <2> QED
    BY <1>0, <2>1, <2>2, <2>3, <2>4, <2>5 DEF WellFormed, Ordered, Distinct
<1> QED
  BY <1>3, <1>4, <1>5, <1>6

\* From a head that follows itself the loop does not come on.
LEMMA DamagedSearch ==
    ASSUME NEW c \in Caches, Damaged(c)
    PROVE  /\ Reached(c) = {c.head}
           /\ HeadLoops(c)
           /\ \A q : Hit(c, q) => Entry(c, q) = c.head
           /\ \A q : Loops(c, q) <=> c.query[c.head] # q
<1> DEFINE N == CACHE_CAPACITY + 1
           Stuck == {k \in 0 .. N : After(c)[k] = c.head}
<1>0. CACHE_CAPACITY \in Nat /\ c.head # NULL /\ c.next[c.head] = c.head
  BY CacheListAssumption, NullIsNoAddress DEF Caches, Damaged
<1>1. 0 \in Stuck
  BY <1>0, AfterSteps
<1>2. ASSUME NEW k \in 0 .. N, k \in Stuck, k < N
      PROVE  k + 1 \in Stuck
  <2>1. k + 1 \in 1 .. CACHE_CAPACITY + 1 /\ (k + 1) - 1 = k
    BY <1>0, <1>2
  <2> QED
    BY <1>0, <1>2, <2>1, AfterSteps
<1>3. \A k \in 0 .. N : After(c)[k] = c.head
  <2> HIDE DEF Stuck
  <2>1. \A k \in 0 .. N : k \in Stuck
    BY <1>0, <1>1, <1>2, Stepwise
  <2> QED
    BY <2>1 DEF Stuck
<1>4. Reached(c) = {c.head}
  BY <1>0, <1>1, <1>3 DEF Reached
<1>5. \A q : Hit(c, q) <=> c.query[c.head] = q
  BY <1>4 DEF Hit
<1>6. ASSUME NEW q, Hit(c, q)
      PROVE  Entry(c, q) = c.head
  <2> DEFINE turns == {k \in 0 .. CACHE_CAPACITY + 1 :
                         After(c)[k] # NULL /\ c.query[After(c)[k]] = q}
             found == CHOOSE k \in turns : \A j \in turns : k <= j
  <2>1. 0 \in turns /\ \A j \in turns : 0 <= j
    BY <1>0, <1>3, <1>5, <1>6
  <2>2. found \in turns
    <3> HIDE DEF turns
    <3> QED
      BY <2>1
  <2>3. Entry(c, q) = After(c)[found]
    BY DEF Entry
  <2> QED
    BY <1>3, <2>2, <2>3
<1>7. \A q : Loops(c, q) <=> c.query[c.head] # q
  BY <1>0, <1>3, <1>5 DEF Loops
<1> QED
  BY <1>0, <1>4, <1>6, <1>7 DEF HeadLoops
-----------------------------------------------------------------------------
(* The parts of addToCache, field by field.                                *)

LEMMA UnlinkFields ==
    ASSUME NEW c \in Heaps, NEW e \in Addresses
    PROVE  LET d == Unlink(c, e)
           IN  /\ d \in Heaps
               /\ d.head = c.head /\ d.size = c.size /\ d.query = c.query /\ d.live = c.live
               /\ d.tail = IF c.tail = e THEN c.prev[e] ELSE c.tail
               /\ \A a \in Addresses :
                     /\ d.next[a] = IF a = c.prev[e] THEN c.next[e] ELSE c.next[a]
                     /\ d.prev[a] = IF a = c.next[e] THEN c.prev[e] ELSE c.prev[a]
<1> DEFINE nexts == IF c.prev[e] = NULL THEN c.next ELSE [c.next EXCEPT ![c.prev[e]] = c.next[e]]
           prevs == IF c.next[e] = NULL THEN c.prev ELSE [c.prev EXCEPT ![c.next[e]] = c.prev[e]]
           last  == IF c.tail = e THEN c.prev[e] ELSE c.tail
<1>1. c.prev[e] \in Pointers /\ c.next[e] \in Pointers
  BY DEF Heaps
<1>2. /\ nexts \in [Addresses -> Pointers]
      /\ \A a \in Addresses : nexts[a] = IF a = c.prev[e] THEN c.next[e] ELSE c.next[a]
  BY <1>1, NullIsNoAddress DEF Heaps
<1>3. /\ prevs \in [Addresses -> Pointers]
      /\ \A a \in Addresses : prevs[a] = IF a = c.next[e] THEN c.prev[e] ELSE c.prev[a]
  BY <1>1, NullIsNoAddress DEF Heaps
<1>4. last \in Pointers
  BY <1>1 DEF Heaps
<1>5. Unlink(c, e) = [c EXCEPT !.next = nexts, !.prev = prevs, !.tail = last]
  BY DEF Unlink
<1> HIDE DEF nexts, prevs
<1> QED
  BY <1>2, <1>3, <1>4, <1>5 DEF Heaps

LEMMA PutFirstFields ==
    ASSUME NEW c \in Heaps, NEW e \in Addresses
    PROVE  LET d == PutFirst(c, e)
           IN  /\ d \in Heaps
               /\ d.head = e
               /\ d.tail = c.tail /\ d.size = c.size /\ d.query = c.query /\ d.live = c.live
               /\ \A a \in Addresses :
                     /\ d.next[a] = IF a = e THEN c.head ELSE c.next[a]
                     /\ d.prev[a] = IF a = c.head THEN e ELSE IF a = e THEN NULL ELSE c.prev[a]
<1> DEFINE cleared == [c.prev EXCEPT ![e] = NULL]
           prevs == IF c.head = NULL THEN cleared ELSE [cleared EXCEPT ![c.head] = e]
           nexts == [c.next EXCEPT ![e] = c.head]
<1>1. e \in Pointers /\ c.head \in Pointers /\ NULL \in Pointers
  BY DEF Heaps, Pointers
<1>2. /\ nexts \in [Addresses -> Pointers]
      /\ \A a \in Addresses : nexts[a] = IF a = e THEN c.head ELSE c.next[a]
  BY <1>1 DEF Heaps
<1>3. cleared \in [Addresses -> Pointers] /\ \A a \in Addresses : cleared[a] = IF a = e THEN NULL ELSE c.prev[a]
  BY <1>1 DEF Heaps
<1>4. /\ prevs \in [Addresses -> Pointers]
      /\ \A a \in Addresses : prevs[a] = IF a = c.head THEN e ELSE cleared[a]
  <2> HIDE DEF cleared
  <2> QED
    BY <1>1, <1>3, NullIsNoAddress
<1>5. PutFirst(c, e) = [c EXCEPT !.next = nexts, !.prev = prevs, !.head = e]
  BY DEF PutFirst
<1> HIDE DEF nexts, prevs, cleared
<1> QED
  BY <1>1, <1>2, <1>3, <1>4, <1>5 DEF Heaps

LEMMA NewEntryFields ==
    ASSUME NEW c \in Heaps, NEW q \in Queries, Allocate(c) \in Addresses
    PROVE  LET d == NewEntry(c, q)
               e == Allocate(c)
           IN  /\ d \in Heaps
               /\ d.head = e /\ d.size = c.size + 1
               /\ d.tail = IF c.tail = NULL THEN e ELSE c.tail
               /\ d.live = c.live \cup {e}
               /\ d.query = [c.query EXCEPT ![e] = q]
               /\ \A a \in Addresses :
                     /\ d.next[a] = IF a = e THEN c.head ELSE c.next[a]
                     /\ d.prev[a] = IF a = c.head THEN e ELSE IF a = e THEN NULL ELSE c.prev[a]
<1> DEFINE e == Allocate(c)
           b == [c EXCEPT !.query[e] = q, !.live = @ \cup {e}]
           p == PutFirst(b, e)
<1>0. e \in Pointers
  BY DEF Pointers
<1> HIDE DEF e
<1>1. /\ b \in Heaps
      /\ b.head = c.head /\ b.tail = c.tail /\ b.size = c.size
      /\ b.next = c.next /\ b.prev = c.prev
      /\ b.live = c.live \cup {e} /\ b.query = [c.query EXCEPT ![e] = q]
  BY DEF Heaps, e
<1> HIDE DEF b
<1>2. /\ p \in Heaps
      /\ p.head = e
      /\ p.tail = b.tail /\ p.size = b.size /\ p.query = b.query /\ p.live = b.live
      /\ \A a \in Addresses :
            /\ p.next[a] = IF a = e THEN b.head ELSE b.next[a]
            /\ p.prev[a] = IF a = b.head THEN e ELSE IF a = e THEN NULL ELSE b.prev[a]
  BY <1>1, PutFirstFields DEF e
<1>3. NewEntry(c, q) = [p EXCEPT !.tail = IF @ = NULL THEN e ELSE @, !.size = @ + 1]
  BY DEF NewEntry, e, b
<1> HIDE DEF p
<1>4. /\ NewEntry(c, q).tail = IF p.tail = NULL THEN e ELSE p.tail
      /\ NewEntry(c, q).size = p.size + 1
      /\ NewEntry(c, q).head = p.head /\ NewEntry(c, q).live = p.live
      /\ NewEntry(c, q).query = p.query
      /\ NewEntry(c, q).next = p.next /\ NewEntry(c, q).prev = p.prev
  BY <1>2, <1>3 DEF Heaps
<1>5. NewEntry(c, q) \in Heaps
  <2> DEFINE last == IF p.tail = NULL THEN e ELSE p.tail
             count == p.size + 1
  <2>1. last \in Pointers /\ count \in Nat
    BY <1>0, <1>2 DEF Heaps
  <2>2. NewEntry(c, q) = [p EXCEPT !.tail = last, !.size = count]
    BY <1>3
  <2> HIDE DEF last, count
  <2> QED
    BY <1>2, <2>1, <2>2 DEF Heaps
<1> QED
  BY <1>1, <1>2, <1>4, <1>5 DEF e

LEMMA RemoveTailFields ==
    ASSUME NEW c \in Heaps, c.tail \in Addresses, c.size > 0
    PROVE  LET d == RemoveTail(c)
               p == c.prev[c.tail]
           IN  /\ d \in Heaps
               /\ d.head = c.head /\ d.tail = p /\ d.size = c.size - 1
               /\ d.live = c.live \ {c.tail}
               /\ d.query = c.query /\ d.prev = c.prev
               /\ \A a \in Addresses : d.next[a] = IF a = p THEN NULL ELSE c.next[a]
<1> DEFINE p == c.prev[c.tail]
           nexts == IF p = NULL THEN c.next ELSE [c.next EXCEPT ![p] = NULL]
<1>1. p \in Pointers /\ NULL \in Pointers
  BY DEF Heaps, Pointers
<1>2. /\ nexts \in [Addresses -> Pointers]
      /\ \A a \in Addresses : nexts[a] = IF a = p THEN NULL ELSE c.next[a]
  BY <1>1, NullIsNoAddress DEF Heaps
<1>3. RemoveTail(c) = [c EXCEPT !.next = nexts, !.tail = p, !.live = @ \ {c.tail}, !.size = @ - 1]
  BY DEF RemoveTail
<1> HIDE DEF nexts, p
<1>4. RemoveTail(c) \in Heaps
  <2> DEFINE left == c.live \ {c.tail}
             count == c.size - 1
  <2>1. left \in SUBSET Addresses /\ count \in Nat
    BY DEF Heaps
  <2>2. RemoveTail(c) = [c EXCEPT !.next = nexts, !.tail = p, !.live = left, !.size = count]
    BY <1>3
  <2> HIDE DEF left, count
  <2> QED
    BY <1>1, <1>2, <2>1, <2>2 DEF Heaps
<1>5. /\ RemoveTail(c).head = c.head /\ RemoveTail(c).tail = p
      /\ RemoveTail(c).size = c.size - 1
      /\ RemoveTail(c).live = c.live \ {c.tail}
      /\ RemoveTail(c).query = c.query /\ RemoveTail(c).prev = c.prev
      /\ RemoveTail(c).next = nexts
  BY <1>3 DEF Heaps
<1> QED
  BY <1>2, <1>4, <1>5 DEF p
-----------------------------------------------------------------------------
(* addToCache                                                              *)

LEMMA EntriesCounted ==
    ASSUME NEW c \in Heaps, NEW ch, Numbers(c, ch)
    PROVE  IsFiniteSet(c.live) /\ Cardinality(c.live) = c.size
<1>1. c.size \in Nat
  BY DEF Heaps
<1>2. ch \in Bijection(1 .. c.size, c.live)
  BY DEF Numbers, Bijection, Injection, Surjection, IsInjective
<1>3. ExistsBijection(1 .. c.size, c.live)
  BY <1>2 DEF ExistsBijection
<1> QED
  BY <1>1, <1>3, FS_NatBijection, FS_CountingElements

LEMMA CachesAreHeaps ==
    ASSUME NEW c
    PROVE  c \in Caches <=> c \in Heaps /\ c.size \in 0 .. CACHE_CAPACITY
<1>1. CACHE_CAPACITY \in Nat
  BY CacheListAssumption
<1>2. ASSUME c \in Caches
      PROVE  c \in Heaps /\ c.size \in 0 .. CACHE_CAPACITY
  BY <1>1, <1>2 DEF Caches, Heaps
<1>3. ASSUME c \in Heaps, c.size \in 0 .. CACHE_CAPACITY
      PROVE  c \in Caches
  BY <1>1, <1>3 DEF Caches, Heaps
<1> QED
  BY <1>2, <1>3

\* There is a block for one entry too many.
LEMMA RoomForOneMore ==
    ASSUME NEW c \in Caches, NEW ch, Numbers(c, ch)
    PROVE  Allocate(c) \in Addresses \ c.live
<1>1. Cardinality(c.live) = c.size /\ c.live \subseteq Addresses
  BY EntriesCounted, CachesAreHeaps DEF Heaps
<1>2. Cardinality(Addresses) = CACHE_CAPACITY + 1
  BY CacheListAssumption, FS_Interval DEF Addresses
<1>3. c.live # Addresses
  BY <1>1, <1>2, CacheListAssumption DEF Caches
<1> QED
  BY <1>1, <1>3 DEF Allocate

\* Adding the head once more makes it follow itself ...
LEMMA HeadAgain ==
    ASSUME NEW c \in Caches, NEW ch, Ordered(c, ch), c.size > 0
    PROVE  MoveToFront(c, c.head) \in Caches /\ Damaged(MoveToFront(c, c.head))
<1> DEFINE e == c.head
           u == Unlink(c, e)
           d == MoveToFront(c, e)
<1>1. /\ c \in Heaps /\ c.size \in 0 .. CACHE_CAPACITY
      /\ c.size = Cardinality(c.live) /\ c.live \subseteq Addresses
  BY EntriesCounted, CachesAreHeaps DEF Ordered, Heaps
<1>2. /\ e = ch[1] /\ e \in c.live
      /\ c.prev[e] = NULL /\ c.next[e] # e
      /\ c.tail \in c.live
  <2>1. 1 \in 1 .. c.size /\ c.size \in 1 .. c.size
    BY <1>1
  <2>2. e = ch[1] /\ ch[1] \in c.live /\ c.tail = ch[c.size] /\ ch[c.size] \in c.live
    BY <2>1 DEF Ordered, Numbers, Linked
  <2>3. c.prev[ch[1]] = NULL /\ c.next[ch[1]] = IF 1 = c.size THEN NULL ELSE ch[2]
    BY <2>1 DEF Ordered, Linked
  <2>4. c.size # 1 => ch[2] # ch[1]
    BY <1>1, <2>1 DEF Ordered, Numbers
  <2> QED
    BY <1>1, <2>2, <2>3, <2>4, NullIsNoAddress
<1>3. /\ u \in Heaps
      /\ u.head = e /\ u.size = c.size /\ u.live = c.live
      /\ u.tail = IF c.tail = e THEN NULL ELSE c.tail
  BY <1>1, <1>2, UnlinkFields
<1>4. d = PutFirst(u, e)
  BY DEF MoveToFront
<1> HIDE DEF e, u, d
<1>5. /\ d \in Heaps
      /\ d.head = e /\ d.tail = u.tail /\ d.size = c.size /\ d.live = c.live
      /\ d.next[e] = e /\ d.prev[e] = e
  BY <1>1, <1>2, <1>3, <1>4, PutFirstFields
<1> QED
  BY <1>1, <1>2, <1>3, <1>5, CachesAreHeaps, NullIsNoAddress DEF Damaged, d, e

\* ... and adding it again changes nothing that matters.
LEMMA DamagedAgain ==
    ASSUME NEW c \in Caches, Damaged(c)
    PROVE  MoveToFront(c, c.head) \in Caches /\ Damaged(MoveToFront(c, c.head))
<1> DEFINE e == c.head
           u == Unlink(c, e)
           d == MoveToFront(c, e)
<1>1. /\ c \in Heaps /\ c.size \in 0 .. CACHE_CAPACITY /\ c.live \subseteq Addresses
      /\ e \in c.live /\ c.tail # e
  BY CachesAreHeaps DEF Heaps, Damaged
<1>2. /\ u \in Heaps
      /\ u.head = e /\ u.size = c.size /\ u.live = c.live /\ u.tail = c.tail
  BY <1>1, UnlinkFields
<1>3. d = PutFirst(u, e)
  BY DEF MoveToFront
<1> HIDE DEF e, u, d
<1>4. /\ d \in Heaps
      /\ d.head = e /\ d.tail = c.tail /\ d.size = c.size /\ d.live = c.live
      /\ d.next[e] = e /\ d.prev[e] = e
  BY <1>1, <1>2, <1>3, PutFirstFields
<1> QED
  BY <1>1, <1>4, CachesAreHeaps DEF Damaged, d, e

\* Any other entry moves to the front; those before it move one place back.
LEMMA EntryAgain ==
    ASSUME NEW c \in Caches, NEW ch, Ordered(c, ch),
           NEW i \in 2 .. c.size
    PROVE  LET d  == MoveToFront(c, ch[i])
               to == [j \in 1 .. c.size |->
                         IF j = 1 THEN ch[i] ELSE IF j <= i THEN ch[j - 1] ELSE ch[j]]
           IN  d \in Caches /\ d.size = c.size /\ Ordered(d, to)
<1> DEFINE e == ch[i]
           u == Unlink(c, e)
           d == MoveToFront(c, e)
           n == c.size
           to == [j \in 1 .. c.size |->
                     IF j = 1 THEN ch[i] ELSE IF j <= i THEN ch[j - 1] ELSE ch[j]]
<1>1. /\ c \in Heaps /\ n \in Nat /\ n <= CACHE_CAPACITY
      /\ c.live \subseteq Addresses /\ NULL \notin Addresses
      /\ i \in Nat /\ 2 <= i /\ i <= n
      /\ \A j \in 1 .. n : ch[j] \in c.live
      /\ \A a \in c.live : \E j \in 1 .. n : ch[j] = a
      /\ \A j, k \in 1 .. n : ch[j] = ch[k] => j = k
  <2>1. c \in Heaps /\ n \in 0 .. CACHE_CAPACITY /\ CACHE_CAPACITY \in Nat
    BY CachesAreHeaps, CacheListAssumption
  <2>2. c.live \subseteq Addresses
    BY <2>1 DEF Heaps
  <2> QED
    BY <2>1, <2>2, NullIsNoAddress DEF Ordered, Numbers
<1>2. /\ c.head = ch[1] /\ c.tail = ch[n]
      /\ \A j \in 1 .. n :
            /\ c.next[ch[j]] = IF j = n THEN NULL ELSE ch[j + 1]
            /\ c.prev[ch[j]] = IF j = 1 THEN NULL ELSE ch[j - 1]
  BY <1>1 DEF Ordered, Linked
<1> HIDE DEF n
<1>3. e \in Addresses /\ e # c.head /\ c.prev[e] = ch[i - 1]
      /\ c.next[e] = IF i = n THEN NULL ELSE ch[i + 1]
  BY <1>1, <1>2
<1>4. /\ u \in Heaps
      /\ u.head = c.head /\ u.size = c.size /\ u.query = c.query /\ u.live = c.live
      /\ u.tail = IF c.tail = e THEN c.prev[e] ELSE c.tail
      /\ \A a \in Addresses :
            /\ u.next[a] = IF a = c.prev[e] THEN c.next[e] ELSE c.next[a]
            /\ u.prev[a] = IF a = c.next[e] THEN c.prev[e] ELSE c.prev[a]
  BY <1>1, <1>3, UnlinkFields
<1>5. d = PutFirst(u, e)
  BY DEF MoveToFront
<1> HIDE DEF e, u, d
<1>6. /\ d \in Heaps
      /\ d.head = e
      /\ d.tail = u.tail /\ d.size = u.size /\ d.query = u.query /\ d.live = u.live
      /\ \A a \in Addresses :
            /\ d.next[a] = IF a = e THEN u.head ELSE u.next[a]
            /\ d.prev[a] = IF a = u.head THEN e ELSE IF a = e THEN NULL ELSE u.prev[a]
  BY <1>3, <1>4, <1>5, PutFirstFields
<1>7. /\ \A j \in 1 .. n : to[j] = IF j = 1 THEN e ELSE IF j <= i THEN ch[j - 1] ELSE ch[j]
      /\ \A j \in 1 .. n : to[j] \in c.live
  BY <1>1 DEF e, n
<1>8. DOMAIN to = 1 .. n /\ to \in [1 .. n -> c.live]
  BY <1>7 DEF n
<1> HIDE DEF to
<1>9. Numbers(d, to)
  <2>1. ASSUME NEW a \in c.live
        PROVE  \E j \in 1 .. n : to[j] = a
    <3>1. PICK k \in 1 .. n : ch[k] = a
      BY <1>1
    <3>2. CASE k = i
      <4>1. 1 \in 1 .. n /\ to[1] = a
        BY <1>1, <1>7, <3>1, <3>2 DEF e
      <4> QED
        BY <4>1
    <3>3. CASE k < i
      <4>1. k + 1 \in 1 .. n /\ to[k + 1] = a
        BY <1>1, <1>7, <3>1, <3>3
      <4> QED
        BY <4>1
    <3>4. CASE k > i
      <4>1. to[k] = a
        BY <1>1, <1>7, <3>1, <3>4
      <4> QED
        BY <4>1
    <3> QED
      BY <1>1, <3>2, <3>3, <3>4
  <2>2. ASSUME NEW j \in 1 .. n, NEW k \in 1 .. n, to[j] = to[k]
        PROVE  j = k
    BY <1>1, <1>7, <2>2 DEF e
  <2> QED
    BY <1>4, <1>6, <1>8, <2>1, <2>2 DEF Numbers, n
<1>10. ASSUME NEW k \in 1 .. n
       PROVE  /\ d.next[ch[k]] = IF k = i THEN ch[1]
                                 ELSE IF k = i - 1 THEN c.next[e] ELSE c.next[ch[k]]
              /\ d.prev[ch[k]] = IF k = 1 THEN e ELSE IF k = i THEN NULL
                                 ELSE IF k = i + 1 THEN ch[i - 1] ELSE ch[k - 1]
  <2>1. ch[k] \in Addresses /\ (ch[k] = e <=> k = i) /\ (ch[k] = c.head <=> k = 1)
    BY <1>1, <1>2 DEF e
  <2>2. ch[k] = c.prev[e] <=> k = i - 1
    BY <1>1, <1>3
  <2>3. ch[k] = c.next[e] <=> k = i + 1
    BY <1>1, <1>3, <2>1
  <2>4. /\ u.next[ch[k]] = IF k = i - 1 THEN c.next[e] ELSE c.next[ch[k]]
        /\ u.prev[ch[k]] = IF k = i + 1 THEN ch[i - 1] ELSE c.prev[ch[k]]
    BY <1>3, <1>4, <2>1, <2>2, <2>3
  <2>5. d.next[ch[k]] = IF k = i THEN ch[1] ELSE u.next[ch[k]]
    BY <1>2, <1>4, <1>6, <2>1
  <2>6. d.prev[ch[k]] = IF k = 1 THEN e ELSE IF k = i THEN NULL ELSE u.prev[ch[k]]
    BY <1>4, <1>6, <2>1
  <2>7. k # 1 => c.prev[ch[k]] = ch[k - 1]
    BY <1>2
  <2> QED
    BY <1>1, <2>4, <2>5, <2>6, <2>7
<1>11. Linked(d, to)
  <2>1. d.head = to[1]
    BY <1>1, <1>6, <1>7
  <2>2. d.tail = to[n]
    BY <1>1, <1>2, <1>3, <1>4, <1>6, <1>7 DEF e
  <2>3. ASSUME NEW j \in 1 .. n
        PROVE  d.next[to[j]] = IF j = n THEN NULL ELSE to[j + 1]
    <3>1. CASE j = 1
      BY <1>1, <1>7, <1>10, <3>1 DEF e
    <3>2. CASE j > 1 /\ j < i
      <4>1. to[j] = ch[j - 1] /\ j - 1 \in 1 .. n /\ to[j + 1] = ch[j]
        BY <1>1, <1>7, <3>2
      <4> QED
        BY <1>1, <1>2, <1>10, <3>2, <4>1
    <3>3. CASE j > 1 /\ j = i
      <4>1. to[j] = ch[i - 1] /\ i - 1 \in 1 .. n /\ (i # n => to[j + 1] = ch[i + 1])
        BY <1>1, <1>7, <3>3
      <4> QED
        BY <1>1, <1>3, <1>10, <3>3, <4>1
    <3>4. CASE j > i
      <4>1. to[j] = ch[j] /\ (j # n => to[j + 1] = ch[j + 1])
        BY <1>1, <1>7, <3>4
      <4> QED
        BY <1>1, <1>2, <1>10, <3>4, <4>1
    <3> QED
      BY <1>1, <3>1, <3>2, <3>3, <3>4
  <2>4. ASSUME NEW j \in 1 .. n
        PROVE  d.prev[to[j]] = IF j = 1 THEN NULL ELSE to[j - 1]
    <3>1. CASE j = 1
      BY <1>1, <1>7, <1>10, <3>1 DEF e
    <3>2. CASE j = 2
      BY <1>1, <1>7, <1>10, <3>2
    <3>3. CASE j > 2 /\ j <= i
      <4>1. to[j] = ch[j - 1] /\ j - 1 \in 1 .. n /\ to[j - 1] = ch[j - 2]
        BY <1>1, <1>7, <3>3
      <4> QED
        BY <1>1, <1>10, <3>3, <4>1
    <3>4. CASE j > i
      <4>1. to[j] = ch[j] /\ to[j - 1] = IF j = i + 1 THEN ch[i - 1] ELSE ch[j - 1]
        BY <1>1, <1>7, <3>4
      <4> QED
        BY <1>1, <1>10, <3>4, <4>1
    <3> QED
      BY <1>1, <3>1, <3>2, <3>3, <3>4
  <2> QED
    BY <1>1, <1>4, <1>6, <2>1, <2>2, <2>3, <2>4 DEF Linked, n
<1> QED
  BY <1>1, <1>4, <1>6, <1>9, <1>11, CachesAreHeaps DEF Ordered, Distinct, d, e, to, n

\* A new entry goes before the others.
LEMMA NewInFront ==
    ASSUME NEW c \in Caches, NEW ch, Ordered(c, ch),
           NEW q \in Queries, \A a \in c.live : c.query[a] # q
    PROVE  LET d  == NewEntry(c, q)
               to == [j \in 1 .. c.size + 1 |-> IF j = 1 THEN Allocate(c) ELSE ch[j - 1]]
           IN  d \in Heaps /\ d.size = c.size + 1 /\ Ordered(d, to)
<1> DEFINE e == Allocate(c)
           d == NewEntry(c, q)
           n == c.size
           to == [j \in 1 .. c.size + 1 |-> IF j = 1 THEN Allocate(c) ELSE ch[j - 1]]
<1>1. /\ c \in Heaps /\ n \in Nat
      /\ e \in Addresses /\ e \notin c.live /\ NULL \notin Addresses
      /\ c.live \subseteq Addresses
  BY CachesAreHeaps, RoomForOneMore, NullIsNoAddress DEF Heaps, Ordered
<1>2. /\ \A j \in 1 .. n : ch[j] \in c.live
      /\ \A a \in c.live : \E j \in 1 .. n : ch[j] = a
      /\ \A j, k \in 1 .. n : ch[j] = ch[k] => j = k
  BY DEF Ordered, Numbers
<1>3. /\ c.head = IF n = 0 THEN NULL ELSE ch[1]
      /\ c.tail = IF n = 0 THEN NULL ELSE ch[n]
      /\ \A j \in 1 .. n :
            /\ c.next[ch[j]] = IF j = n THEN NULL ELSE ch[j + 1]
            /\ c.prev[ch[j]] = IF j = 1 THEN NULL ELSE ch[j - 1]
  BY DEF Ordered, Linked
<1>4. /\ d \in Heaps
      /\ d.head = e /\ d.size = n + 1
      /\ d.tail = IF c.tail = NULL THEN e ELSE c.tail
      /\ d.live = c.live \cup {e}
      /\ d.query = [c.query EXCEPT ![e] = q]
      /\ \A a \in Addresses :
            /\ d.next[a] = IF a = e THEN c.head ELSE c.next[a]
            /\ d.prev[a] = IF a = c.head THEN e ELSE IF a = e THEN NULL ELSE c.prev[a]
  BY <1>1, NewEntryFields
<1>5. /\ to[1] = e
      /\ \A j \in 1 .. n : j + 1 \in 1 .. n + 1 /\ to[j + 1] = ch[j]
      /\ DOMAIN to = 1 .. n + 1
  BY <1>1
<1> HIDE DEF e, d, n, to
<1>6. \A j \in 1 .. n + 1 : j # 1 => j - 1 \in 1 .. n /\ to[j] = ch[j - 1]
  <2> SUFFICES ASSUME NEW j \in 1 .. n + 1, j # 1
               PROVE  j - 1 \in 1 .. n /\ to[j] = ch[j - 1]
    OBVIOUS
  <2>1. j - 1 \in 1 .. n /\ (j - 1) + 1 = j
    BY <1>1
  <2> QED
    BY <1>5, <2>1
<1>7. Numbers(d, to)
  <2>1. to \in [1 .. n + 1 -> d.live]
    <3>1. \A j \in 1 .. n + 1 : to[j] \in d.live
      BY <1>2, <1>4, <1>5, <1>6
    <3>2. to = [j \in 1 .. n + 1 |-> to[j]]
      BY DEF to, n
    <3> QED
      BY <3>1, <3>2
  <2>2. ASSUME NEW a \in d.live
        PROVE  \E j \in 1 .. n + 1 : to[j] = a
    <3>1. CASE a = e
      <4>1. 1 \in 1 .. n + 1
        BY <1>1
      <4> QED
        BY <1>5, <3>1, <4>1
    <3>2. CASE a \in c.live
      BY <1>2, <1>5, <3>2
    <3> QED
      BY <1>4, <3>1, <3>2
  <2>3. ASSUME NEW j \in 1 .. n + 1, NEW k \in 1 .. n + 1, to[j] = to[k]
        PROVE  j = k
    <3>1. j = 1 <=> k = 1
      BY <1>1, <1>2, <1>5, <1>6, <2>3
    <3>2. j # 1 /\ k # 1 => j - 1 = k - 1
      BY <1>2, <1>6, <2>3
    <3> QED
      BY <1>1, <3>1, <3>2
  <2> QED
    BY <1>4, <2>1, <2>2, <2>3 DEF Numbers
<1>8. Linked(d, to)
  <2>1. d.head = to[1] /\ n + 1 # 0
    BY <1>1, <1>4, <1>5
  <2>2. d.tail = to[n + 1]
    <3>1. CASE n = 0
      BY <1>3, <1>4, <1>5, <3>1
    <3>2. CASE n # 0
      <4>1. n \in 1 .. n
        BY <1>1, <3>2
      <4> QED
        BY <1>1, <1>2, <1>3, <1>4, <1>5, <3>2, <4>1
    <3> QED
      BY <3>1, <3>2
  <2>3. d.next[to[1]] = (IF 1 = n + 1 THEN NULL ELSE to[2]) /\ d.prev[to[1]] = NULL
    <3>1. d.next[e] = c.head /\ d.prev[e] = NULL
      <4>1. n # 0 => c.head \in c.live
        BY <1>1, <1>2, <1>3
      <4> QED
        BY <1>1, <1>3, <1>4, <4>1
    <3>2. n # 0 => to[2] = ch[1]
      <4>1. n # 0 => 1 \in 1 .. n /\ 1 + 1 = 2
        BY <1>1
      <4> QED
        BY <1>5, <4>1
    <3> QED
      BY <1>1, <1>3, <1>5, <3>1, <3>2
  <2>4. ASSUME NEW j \in 1 .. n
        PROVE  /\ d.next[ch[j]] = IF j = n THEN NULL ELSE ch[j + 1]
               /\ d.prev[ch[j]] = IF j = 1 THEN e ELSE ch[j - 1]
    <3>1. ch[j] \in Addresses /\ ch[j] # e /\ (ch[j] = c.head <=> j = 1)
      BY <1>1, <1>2, <1>3
    <3> QED
      BY <1>1, <1>3, <1>4, <3>1
  <2>5. ASSUME NEW j \in 1 .. n + 1
        PROVE  /\ d.next[to[j]] = IF j = n + 1 THEN NULL ELSE to[j + 1]
               /\ d.prev[to[j]] = IF j = 1 THEN NULL ELSE to[j - 1]
    <3>1. CASE j = 1
      BY <2>3, <3>1
    <3>2. CASE j # 1
      <4>1. j - 1 \in 1 .. n /\ to[j] = ch[j - 1]
        BY <1>6, <3>2
      <4>2. j # n + 1 => to[j + 1] = ch[j]
        <5>1. j # n + 1 => j \in 1 .. n
          BY <1>1
        <5> QED
          BY <1>5, <5>1
      <4>3. to[j - 1] = IF j = 2 THEN e ELSE ch[j - 2]
        <5>1. j # 2 => j - 2 \in 1 .. n /\ (j - 2) + 1 = j - 1
          BY <1>1, <3>2
        <5> QED
          BY <1>1, <1>5, <5>1
      <4> QED
        BY <1>1, <2>4, <3>2, <4>1, <4>2, <4>3
    <3> QED
      BY <3>1, <3>2
  <2> QED
    BY <1>1, <1>4, <2>1, <2>2, <2>5 DEF Linked
<1>9. Distinct(d)
  BY <1>1, <1>4 DEF Ordered, Distinct, Heaps
<1> QED
  BY <1>4, <1>7, <1>8, <1>9 DEF Ordered, d, to, n

\* The last entry goes.
LEMMA LastOut ==
    ASSUME NEW c \in Heaps, NEW ch, Ordered(c, ch), c.size > 1
    PROVE  LET d  == RemoveTail(c)
               to == [j \in 1 .. c.size - 1 |-> ch[j]]
           IN  d \in Heaps /\ d.size = c.size - 1 /\ Ordered(d, to)
<1> DEFINE d == RemoveTail(c)
           n == c.size
           to == [j \in 1 .. c.size - 1 |-> ch[j]]
<1>1. n \in Nat /\ n > 1 /\ c.live \subseteq Addresses /\ NULL \notin Addresses
  BY NullIsNoAddress DEF Heaps
<1>2. /\ \A j \in 1 .. n : ch[j] \in c.live
      /\ \A a \in c.live : \E j \in 1 .. n : ch[j] = a
      /\ \A j, k \in 1 .. n : ch[j] = ch[k] => j = k
  BY DEF Ordered, Numbers
<1>3. /\ c.head = ch[1] /\ c.tail = ch[n]
      /\ \A j \in 1 .. n :
            /\ c.next[ch[j]] = IF j = n THEN NULL ELSE ch[j + 1]
            /\ c.prev[ch[j]] = IF j = 1 THEN NULL ELSE ch[j - 1]
  BY <1>1 DEF Ordered, Linked
<1>4. c.tail \in Addresses /\ c.prev[c.tail] = ch[n - 1]
  BY <1>1, <1>2, <1>3
<1>5. /\ d \in Heaps
      /\ d.head = c.head /\ d.tail = ch[n - 1] /\ d.size = n - 1
      /\ d.live = c.live \ {ch[n]}
      /\ d.query = c.query /\ d.prev = c.prev
      /\ \A a \in Addresses : d.next[a] = IF a = ch[n - 1] THEN NULL ELSE c.next[a]
  BY <1>1, <1>3, <1>4, RemoveTailFields
<1>6. \A j \in 1 .. n - 1 : j \in 1 .. n /\ to[j] = ch[j] /\ j # n
  BY <1>1
<1> HIDE DEF d, n
<1>7. Numbers(d, to)
  <2>1. \A j \in 1 .. n - 1 : to[j] \in d.live
    BY <1>1, <1>2, <1>5, <1>6
  <2>2. to \in [1 .. n - 1 -> d.live]
    BY <1>6, <2>1 DEF n
  <2>3. ASSUME NEW a \in d.live
        PROVE  \E j \in 1 .. n - 1 : to[j] = a
    <3>1. PICK j \in 1 .. n : ch[j] = a
      BY <1>2, <1>5
    <3>2. j \in 1 .. n - 1
      BY <1>1, <1>5, <3>1
    <3> QED
      BY <1>6, <3>1, <3>2
  <2>4. \A j, k \in 1 .. n - 1 : to[j] = to[k] => j = k
    BY <1>2, <1>6
  <2> QED
    BY <1>5, <2>2, <2>3, <2>4 DEF Numbers
<1> HIDE DEF to
<1>8. Linked(d, to)
  <2>1. d.head = to[1] /\ d.tail = to[n - 1] /\ n - 1 # 0
    <3>1. 1 \in 1 .. n - 1 /\ n - 1 \in 1 .. n - 1
      BY <1>1
    <3> QED
      BY <1>1, <1>3, <1>5, <1>6, <3>1
  <2>2. ASSUME NEW j \in 1 .. n - 1
        PROVE  /\ d.next[to[j]] = IF j = n - 1 THEN NULL ELSE to[j + 1]
               /\ d.prev[to[j]] = IF j = 1 THEN NULL ELSE to[j - 1]
    <3>1. to[j] = ch[j] /\ j \in 1 .. n /\ ch[j] \in Addresses
      BY <1>1, <1>2, <1>6
    <3>2. ch[j] = ch[n - 1] <=> j = n - 1
      <4>1. n - 1 \in 1 .. n
        BY <1>1
      <4> QED
        BY <1>2, <3>1, <4>1
    <3>3. j # n - 1 => to[j + 1] = ch[j + 1]
      <4>1. j # n - 1 => j + 1 \in 1 .. n - 1
        BY <1>1
      <4> QED
        BY <1>6, <4>1
    <3>4. j # 1 => to[j - 1] = ch[j - 1]
      <4>1. j # 1 => j - 1 \in 1 .. n - 1
        BY <1>1
      <4> QED
        BY <1>6, <4>1
    <3> QED
      BY <1>1, <1>3, <1>5, <1>6, <3>1, <3>2, <3>3, <3>4
  <2> QED
    BY <1>5, <2>1, <2>2 DEF Linked
<1>9. Distinct(d)
  BY <1>5 DEF Ordered, Distinct
<1> QED
  BY <1>5, <1>7, <1>8, <1>9 DEF Ordered, d, to, n
-----------------------------------------------------------------------------
(* What the specifications that use the list need to know of it.           *)

LEMMA CreatedList == ListInv(CreateCache)
<1>1. CACHE_CAPACITY \in Nat
  BY CacheListAssumption
<1>2. CreateCache \in Caches
  BY <1>1 DEF CreateCache, Caches, Pointers
<1>3. Ordered(CreateCache, [i \in 1 .. 0 |-> NULL])
  BY DEF CreateCache, Ordered, Numbers, Linked, Distinct
<1> QED
  BY <1>2, <1>3 DEF ListInv

\* addToCache that returns leaves a list of one of the two shapes.
LEMMA AddKeepsList ==
    ASSUME NEW c, ListInv(c), NEW q \in Queries, ~Loops(c, q)
    PROVE  ListInv(AddToCache(c, q))
<1>0. c \in Caches
  BY DEF ListInv
<1>1. CASE Damaged(c)
  <2>1. c.query[c.head] = q /\ Reached(c) = {c.head}
    BY <1>0, <1>1, DamagedSearch
  <2>2. Hit(c, q) /\ Entry(c, q) = c.head
    BY <1>0, <1>1, <2>1, DamagedSearch DEF Hit
  <2> QED
    BY <1>0, <1>1, <2>2, DamagedAgain DEF AddToCache, ListInv
<1>2. ASSUME NEW ch, Ordered(c, ch)
      PROVE  ListInv(AddToCache(c, q))
  <2>0. /\ Reached(c) = c.live
        /\ Hit(c, q) => Entry(c, q) \in c.live
        /\ c.size \in 0 .. CACHE_CAPACITY /\ CACHE_CAPACITY \in Nat \ {0}
    BY <1>0, <1>2, OrderedSearch, CachesAreHeaps, CacheListAssumption
  <2>1. CASE Hit(c, q)
    <3>1. PICK i \in 1 .. c.size : ch[i] = Entry(c, q)
      BY <1>2, <2>0, <2>1 DEF Ordered, Numbers
    <3>2. AddToCache(c, q) = MoveToFront(c, ch[i])
      BY <2>1, <3>1 DEF AddToCache
    <3>3. CASE i = 1
      <4>1. c.size > 0 /\ ch[1] = c.head
        BY <1>2, <2>0, <3>1, <3>3 DEF Ordered, Linked
      <4>2. AddToCache(c, q) = MoveToFront(c, c.head)
        BY <3>2, <3>3, <4>1
      <4>3. MoveToFront(c, c.head) \in Caches /\ Damaged(MoveToFront(c, c.head))
        BY <1>0, <1>2, <4>1, HeadAgain
      <4> QED
        BY <4>2, <4>3 DEF ListInv
    <3>4. CASE i # 1
      <4>1. i \in 2 .. c.size
        BY <2>0, <3>1, <3>4
      <4>2. MoveToFront(c, ch[i]) \in Caches /\ \E to : Ordered(MoveToFront(c, ch[i]), to)
        BY <1>0, <1>2, <4>1, EntryAgain, Zenon
      <4> QED
        BY <3>2, <4>2 DEF ListInv
    <3> QED
      BY <3>3, <3>4
  <2>2. CASE ~Hit(c, q)
    <3> DEFINE d == NewEntry(c, q)
    <3>1. \A a \in c.live : c.query[a] # q
      BY <2>0, <2>2 DEF Hit
    <3>2. PICK to : d \in Heaps /\ d.size = c.size + 1 /\ Ordered(d, to)
      BY <1>0, <1>2, <3>1, NewInFront
    <3>3. AddToCache(c, q) = IF d.size > CACHE_CAPACITY THEN RemoveTail(d) ELSE d
      BY <2>2 DEF AddToCache
    <3> HIDE DEF d
    <3>4. CASE d.size > CACHE_CAPACITY
      <4>1. PICK left : /\ RemoveTail(d) \in Heaps /\ RemoveTail(d).size = d.size - 1
                        /\ Ordered(RemoveTail(d), left)
        <5>1. d.size > 1
          BY <2>0, <3>2, <3>4
        <5> QED
          BY <3>2, <5>1, LastOut
      <4> QED
        BY <2>0, <3>2, <3>3, <3>4, <4>1, CachesAreHeaps DEF ListInv
    <3>5. CASE ~(d.size > CACHE_CAPACITY)
      BY <2>0, <3>2, <3>3, <3>5, CachesAreHeaps DEF ListInv
    <3> QED
      BY <3>4, <3>5
  <2> QED
    BY <2>1, <2>2
<1> QED
  BY <1>1, <1>2 DEF ListInv

\* What a list of either shape is good for.
LEMMA ListFacts ==
    ASSUME NEW c, ListInv(c)
    PROVE  /\ WellFormed(c) \/ HeadLoops(c)
           /\ c.size = Cardinality(c.live) /\ c.size <= CACHE_CAPACITY
           /\ Reached(c) \subseteq c.live
           /\ {c.prev[a] : a \in Reached(c)} \subseteq c.live \cup {NULL}
           /\ c.tail \in c.live \cup {NULL}
<1>0. c \in Caches /\ c \in Heaps /\ c.size <= CACHE_CAPACITY
  BY CachesAreHeaps, CacheListAssumption DEF ListInv, Caches
<1>1. CASE Damaged(c)
  BY <1>0, <1>1, DamagedSearch DEF Damaged
<1>2. ASSUME NEW ch, Ordered(c, ch)
      PROVE  /\ WellFormed(c) /\ Reached(c) = c.live
             /\ c.size = Cardinality(c.live)
             /\ \A a \in c.live : c.prev[a] \in c.live \cup {NULL}
             /\ c.tail \in c.live \cup {NULL}
  <2>1. c.size \in Nat /\ ch \in [1 .. c.size -> c.live]
    BY <1>0, <1>2 DEF Heaps, Ordered, Numbers
  <2>2. \A i \in 1 .. c.size : c.prev[ch[i]] \in c.live \cup {NULL}
    BY <1>2, <2>1 DEF Ordered, Linked
  <2>3. \A a \in c.live : c.prev[a] \in c.live \cup {NULL}
    BY <1>2, <2>2 DEF Ordered, Numbers
  <2>4. c.tail \in c.live \cup {NULL}
    BY <1>2, <2>1 DEF Ordered, Linked
  <2> QED
    BY <1>0, <1>2, <2>3, <2>4, OrderedSearch, EntriesCounted DEF Ordered
<1> QED
  BY <1>0, <1>1, <1>2 DEF ListInv
=============================================================================
