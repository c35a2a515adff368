---------------------------- MODULE Cache_proofs ----------------------------
(***************************************************************************)
(* The cache with one user, for any capacity and any queries: addToCache   *)
(* and findInCache keep the list in one of the two shapes of ListInv.      *)
(***************************************************************************)
EXTENDS SharedCache, CacheList_proofs

CacheInv == ListInv(cache) /\ state \in {"ready", "looping"}

LEMMA CacheSteps ==
    ASSUME CacheInv, [Next]_vars
    PROVE  CacheInv'
<1>1. ASSUME NEW q \in Queries, Add(q)
      PROVE  CacheInv'
  BY <1>1, AddKeepsList DEF Add, CacheInv
<1>2. ASSUME NEW q \in Queries, Hang(q)
      PROVE  CacheInv'
  BY <1>2 DEF Hang, CacheInv
<1>3. CASE UNCHANGED vars
  BY <1>3 DEF vars, CacheInv
<1> QED
  BY <1>1, <1>2, <1>3 DEF Next

LEMMA CacheInvariant == Spec => []CacheInv
<1>1. Init => CacheInv
  BY CreatedList DEF Init, CacheInv
<1>2. CacheInv /\ [Next]_vars => CacheInv'
  BY CacheSteps
<1> QED
  BY <1>1, <1>2, PTL DEF Spec

\* A cache is a cache: no pointer leads out of the heap and size stays in bounds.
THEOREM CacheTypeCorrect == Spec => []TypeOK
<1>1. CacheInv => TypeOK
  BY DEF CacheInv, ListInv, TypeOK
<1> QED
  BY <1>1, CacheInvariant, PTL

\* The only damage addToCache does is at a head that is added again (cache.c:41-55
\* does not look whether the entry it moves is the head).
THEOREM OnlyHeadLoopsHolds == Spec => []OnlyHeadLoops
<1>1. CacheInv => OnlyHeadLoops
  BY ListFacts DEF CacheInv, OnlyHeadLoops
<1> QED
  BY <1>1, CacheInvariant, PTL

\* Nothing reachable has been freed (cache.c:86), damaged list or not.
THEOREM NoFreedEntryReachedHolds == Spec => []NoFreedEntryReached
<1>1. CacheInv => NoFreedEntryReached
  BY ListFacts DEF CacheInv, NoFreedEntryReached
<1> QED
  BY <1>1, CacheInvariant, PTL

\* size counts the allocated entries and never exceeds CACHE_CAPACITY.
THEOREM SizeIsHonestHolds == Spec => []SizeIsHonest
<1>1. CacheInv => SizeIsHonest
  BY ListFacts DEF CacheInv, SizeIsHonest
<1> QED
  BY <1>1, CacheInvariant, PTL
-----------------------------------------------------------------------------
(* The contents of the list.                                               *)

\* What an LRU list becomes when a query it has at place i is added ...
LEMMA ReAdded ==
    ASSUME NEW n \in Nat, n <= CACHE_CAPACITY, NEW s \in [1 .. n -> Queries \cup {NULL}],
           NEW q \in Queries, NEW i \in 1 .. n, s[i] = q, \A j \in 1 .. n : s[j] = q => j = i
    PROVE  LET t == LRU!Added(s, q)
           IN  /\ t \in [1 .. n -> Queries \cup {NULL}]
               /\ \A j \in 1 .. n : t[j] = IF j = 1 THEN q ELSE IF j <= i THEN s[j - 1] ELSE s[j]
<1> DEFINE V == Queries \cup {NULL}
           a == SubSeq(s, 1, i - 1)
           b == SubSeq(s, i + 1, n)
           t == <<q>> \o (a \o b)
<1>1. s \in Seq(V) /\ Len(s) = n
  OBVIOUS
<1>2. LRU!RemoveFirst(s, q) = a \o b
  <2>1. {j \in 1 .. Len(s) : s[j] = q} = {i}
    BY <1>1
  <2>2. LRU!SelectInSeq(s, LAMBDA v : v = q) = i
    BY <2>1 DEF LRU!SelectInSeq, LRU!Min
  <2> QED
    BY <1>1, <2>2 DEF LRU!RemoveFirst, LRU!RemoveAt
<1>3. /\ a \in Seq(V) /\ Len(a) = i - 1 /\ \A j \in 1 .. i - 1 : a[j] = s[j]
      /\ b \in Seq(V) /\ Len(b) = n - i /\ \A j \in 1 .. n - i : b[j] = s[i + j]
  BY <1>1
<1> HIDE DEF a, b, V
<1>4. a \o b \in Seq(V) /\ Len(a \o b) = n - 1
  BY <1>3
<1>5. \A j \in 1 .. n - 1 : (a \o b)[j] = IF j < i THEN s[j] ELSE s[j + 1]
  BY <1>3
<1>6. t \in Seq(V) /\ Len(t) = n
  BY <1>4 DEF V
<1>7. t[1] = q /\ \A j \in 2 .. n : t[j] = (a \o b)[j - 1]
  BY <1>4
<1> HIDE DEF t
<1>8. \A j \in 1 .. n : t[j] = IF j = 1 THEN q ELSE IF j <= i THEN s[j - 1] ELSE s[j]
  <2> SUFFICES ASSUME NEW j \in 2 .. n
               PROVE  t[j] = IF j <= i THEN s[j - 1] ELSE s[j]
    BY <1>7
  <2>1. j - 1 \in 1 .. n - 1 /\ (j - 1) + 1 = j /\ (j - 1 < i <=> j <= i)
    OBVIOUS
  <2>2. (a \o b)[j - 1] = IF j - 1 < i THEN s[j - 1] ELSE s[(j - 1) + 1]
    BY <1>5, <2>1
  <2> QED
    BY <1>7, <2>1, <2>2
<1>9. LRU!Added(s, q) = t
  BY <1>2, <1>6, CacheListAssumption DEF LRU!Added, t
<1>10. t \in [1 .. n -> Queries \cup {NULL}]
  BY <1>6 DEF V
<1> QED
  BY <1>8, <1>9, <1>10

\* ... and when one it does not have is added.
LEMMA NewlyAdded ==
    ASSUME NEW n \in Nat, n <= CACHE_CAPACITY, NEW s \in [1 .. n -> Queries \cup {NULL}],
           NEW q \in Queries, \A j \in 1 .. n : s[j] # q
    PROVE  LET t == LRU!Added(s, q)
               m == IF n + 1 > CACHE_CAPACITY THEN n ELSE n + 1
           IN  /\ t \in [1 .. m -> Queries \cup {NULL}]
               /\ \A j \in 1 .. m : t[j] = IF j = 1 THEN q ELSE s[j - 1]
<1> DEFINE V == Queries \cup {NULL}
           t == <<q>> \o s
           m == IF n + 1 > CACHE_CAPACITY THEN n ELSE n + 1
<1>1. s \in Seq(V) /\ Len(s) = n /\ m \in 1 .. n + 1
  BY CacheListAssumption
<1>2. LRU!RemoveFirst(s, q) = s
  BY <1>1 DEF LRU!RemoveFirst
<1>3. t \in Seq(V) /\ Len(t) = n + 1
  BY <1>1
<1>4. \A j \in 1 .. n + 1 : t[j] = IF j = 1 THEN q ELSE s[j - 1]
  BY <1>1
<1> HIDE DEF t, V
<1>5. LRU!Added(s, q) = IF n + 1 > CACHE_CAPACITY THEN SubSeq(t, 1, n) ELSE t
  BY <1>2, <1>3 DEF LRU!Added, LRU!Front, t
<1>6. CASE n + 1 > CACHE_CAPACITY
  <2> DEFINE u == SubSeq(t, 1, n)
  <2>1. u \in Seq(V) /\ Len(u) = n /\ \A j \in 1 .. n : u[j] = t[j]
    BY <1>3
  <2>2. LRU!Added(s, q) = u
    BY <1>5, <1>6
  <2> HIDE DEF u
  <2>3. u \in [1 .. n -> V]
    BY <2>1
  <2> QED
    BY <1>1, <1>4, <1>6, <2>1, <2>2, <2>3 DEF V
<1>7. CASE ~(n + 1 > CACHE_CAPACITY)
  <2>1. t \in [1 .. n + 1 -> V]
    BY <1>3
  <2> QED
    BY <1>4, <1>5, <1>7, <2>1 DEF V
<1> QED
  BY <1>6, <1>7

\* The contents of an ordered list, if t says what they are.
LEMMA OrderedContents ==
    ASSUME NEW c \in Caches, NEW ch, Ordered(c, ch),
           NEW t \in [1 .. c.size -> Queries \cup {NULL}],
           \A i \in 1 .. c.size : t[i] = c.query[ch[i]]
    PROVE  Contents(c) = t
<1>1. c.size \in 0 .. CACHE_CAPACITY /\ CACHE_CAPACITY \in Nat
  BY CacheListAssumption DEF Caches
<1>2. \A i \in 1 .. c.size : After(c)[i - 1] = ch[i]
  <2> SUFFICES ASSUME NEW i \in 1 .. c.size
               PROVE  After(c)[i - 1] = ch[i]
    OBVIOUS
  <2>1. i - 1 \in 0 .. CACHE_CAPACITY + 1 /\ i - 1 < c.size /\ (i - 1) + 1 = i
    BY <1>1
  <2> QED
    BY <2>1, Walk
<1>3. \A i \in 1 .. c.size : c.query[Chain(c)[i]] = t[i]
  BY <1>2 DEF Chain
<1> QED
  BY <1>3 DEF Contents

\* A list whose head follows itself is not well formed.
LEMMA DamagedIsNotWellFormed ==
    ASSUME NEW c \in Caches, Damaged(c)
    PROVE  ~WellFormed(c)
<1> SUFFICES ASSUME WellFormed(c) PROVE FALSE
  OBVIOUS
<1>1. c.size \in 0 .. CACHE_CAPACITY /\ CACHE_CAPACITY \in Nat /\ NULL \notin Addresses
      /\ c.head \in Addresses
  BY CacheListAssumption, NullIsNoAddress DEF Caches, Damaged
<1>2. After(c)[0] = c.head /\ After(c)[1] = c.head
  BY <1>1, AfterSteps DEF Damaged
<1>3. c.size > 1
  BY <1>1, <1>2 DEF WellFormed
<1>4. Chain(c)[1] = c.head /\ Chain(c)[2] = c.head
  BY <1>1, <1>2, <1>3 DEF Chain
<1>5. c.prev[Chain(c)[1]] = NULL
  BY <1>1, <1>3 DEF WellFormed
<1> QED
  BY <1>1, <1>4, <1>5 DEF Damaged

\* So does the contents of an ordered list: EntryAgain, NewInFront and LastOut say which
\* entries it has afterwards.
LEMMA AddsAsLRU ==
    ASSUME NEW c \in Caches, NEW ch, Ordered(c, ch), NEW q \in Queries,
           c.head = NULL \/ c.query[c.head] # q
    PROVE  Contents(AddToCache(c, q)) = LRU!Added(Contents(c), q)
<1> DEFINE n == c.size
           s == [i \in 1 .. n |-> c.query[ch[i]]]
           t == LRU!Added(s, q)
<1>0. /\ n \in Nat /\ n <= CACHE_CAPACITY /\ CACHE_CAPACITY \in Nat \ {0}
      /\ c \in Heaps /\ Reached(c) = c.live /\ c.live \subseteq Addresses
      /\ c.query \in [Addresses -> Queries \cup {NULL}]
      /\ ch \in [1 .. n -> c.live]
      /\ \A a \in c.live : \E i \in 1 .. n : ch[i] = a
  BY CachesAreHeaps, CacheListAssumption, OrderedSearch DEF Caches, Ordered, Numbers
<1>1. s \in [1 .. n -> Queries \cup {NULL}] /\ \A i \in 1 .. n : s[i] = c.query[ch[i]]
  BY <1>0
<1> HIDE DEF s
<1>2. Contents(c) = s
  BY <1>1, OrderedContents
<1>3. CASE Hit(c, q)
  <2>1. Entry(c, q) \in c.live /\ c.query[Entry(c, q)] = q
    BY <1>3, OrderedSearch
  <2>2. PICK i \in 1 .. n : ch[i] = Entry(c, q)
    BY <1>0, <2>1
  <2>3. i # 1
    <3>1. i = 1 => c.head = ch[1]
      BY <1>0, <2>2 DEF Ordered, Linked
    <3> QED
      BY <1>0, <2>1, <2>2, <3>1, NullIsNoAddress
  <2>4. i \in 2 .. n
    BY <1>0, <2>2, <2>3
  <2> DEFINE d == MoveToFront(c, ch[i])
             to == [j \in 1 .. c.size |->
                       IF j = 1 THEN ch[i] ELSE IF j <= i THEN ch[j - 1] ELSE ch[j]]
  <2>5. d \in Caches /\ d.size = n /\ Ordered(d, to)
    BY <2>4, EntryAgain
  <2>6. d.query = c.query
    <3>1. c \in Heaps /\ ch[i] \in Addresses
      BY <1>0
    <3>2. Unlink(c, ch[i]) \in Heaps /\ Unlink(c, ch[i]).query = c.query
      BY <3>1, UnlinkFields
    <3> QED
      BY <3>1, <3>2, PutFirstFields DEF MoveToFront
  <2>7. AddToCache(c, q) = d
    BY <1>3, <2>2 DEF AddToCache
  <2>8. s[i] = q /\ \A j \in 1 .. n : s[j] = q => j = i
    BY <1>0, <1>1, <2>1, <2>2 DEF Ordered, Numbers, Distinct
  <2>10. /\ t \in [1 .. n -> Queries \cup {NULL}]
         /\ \A j \in 1 .. n : t[j] = IF j = 1 THEN q ELSE IF j <= i THEN s[j - 1] ELSE s[j]
    <3>1. n \in Nat /\ n <= CACHE_CAPACITY /\ s \in [1 .. n -> Queries \cup {NULL}]
      BY <1>0, <1>1
    <3> HIDE DEF n
    <3> QED
      BY <2>8, <3>1, ReAdded
  <2>11. \A j \in 1 .. n : to[j] = IF j = 1 THEN ch[i] ELSE IF j <= i THEN ch[j - 1] ELSE ch[j]
    OBVIOUS
  <2> HIDE DEF d, to, t
  <2>12. \A j \in 1 .. n : t[j] = d.query[to[j]]
    BY <1>0, <1>1, <2>4, <2>6, <2>8, <2>10, <2>11
  <2>13. /\ t \in [1 .. d.size -> Queries \cup {NULL}]
         /\ \A j \in 1 .. d.size : t[j] = d.query[to[j]]
    BY <2>5, <2>10, <2>12
  <2>14. Contents(d) = t
    BY <2>5, <2>13, OrderedContents
  <2> QED
    BY <1>2, <2>7, <2>14 DEF t
<1>4. CASE ~Hit(c, q)
  <2> DEFINE d == NewEntry(c, q)
             e == Allocate(c)
             to == [j \in 1 .. c.size + 1 |-> IF j = 1 THEN Allocate(c) ELSE ch[j - 1]]
             m == IF n + 1 > CACHE_CAPACITY THEN n ELSE n + 1
  <2>1. \A a \in c.live : c.query[a] # q
    BY <1>0, <1>4 DEF Hit
  <2>2. d \in Heaps /\ d.size = n + 1 /\ Ordered(d, to)
    BY <2>1, NewInFront
  <2>3. e \in Addresses \ c.live
    BY RoomForOneMore DEF Ordered
  <2>4. d.query = [c.query EXCEPT ![e] = q]
    BY <1>0, <2>3, NewEntryFields
  <2>5. to[1] = e /\ \A j \in 2 .. n + 1 : to[j] = ch[j - 1]
    BY <1>0
  <2> HIDE DEF d, to, t
  <2>6. \A j \in 1 .. n + 1 : d.query[to[j]] = IF j = 1 THEN q ELSE s[j - 1]
    <3>1. d.query[to[1]] = q
      BY <1>0, <2>3, <2>4, <2>5
    <3>2. ASSUME NEW j \in 2 .. n + 1
          PROVE  d.query[to[j]] = s[j - 1]
      <4>1. j - 1 \in 1 .. n /\ j \in 1 .. n + 1 /\ j # 1
        BY <1>0
      <4>2. to[j] = ch[j - 1] /\ ch[j - 1] \in c.live
        BY <1>0, <2>5, <4>1
      <4> QED
        BY <1>0, <1>1, <2>3, <2>4, <4>1, <4>2
    <3> QED
      BY <1>0, <3>1, <3>2
  <2>7. /\ t \in [1 .. m -> Queries \cup {NULL}]
        /\ \A j \in 1 .. m : t[j] = IF j = 1 THEN q ELSE s[j - 1]
    <3>1. \A j \in 1 .. n : s[j] # q
      BY <1>0, <1>1, <2>1
    <3>2. n \in Nat /\ n <= CACHE_CAPACITY /\ s \in [1 .. n -> Queries \cup {NULL}]
      BY <1>0, <1>1
    <3> HIDE DEF n
    <3> QED
      BY <3>1, <3>2, NewlyAdded DEF t
  <2>8. /\ t \in [1 .. m -> Queries \cup {NULL}]
        /\ \A j \in 1 .. m : j \in 1 .. n + 1 /\ t[j] = IF j = 1 THEN q ELSE s[j - 1]
    BY <1>0, <2>7
  <2>9. AddToCache(c, q) = IF d.size > CACHE_CAPACITY THEN RemoveTail(d) ELSE d
    BY <1>4 DEF AddToCache, d
  <2>10. CASE n + 1 > CACHE_CAPACITY
    <3> DEFINE r == RemoveTail(d)
               left == [j \in 1 .. d.size - 1 |-> to[j]]
    <3>1. r \in Heaps /\ r.size = n /\ Ordered(r, left)
      <4>1. d.size > 1 /\ d.size - 1 = n
        BY <1>0, <2>2, <2>10
      <4> QED
        BY <2>2, <4>1, LastOut
    <3>2. r.query = d.query
      <4>1. d.tail \in Addresses /\ d.size > 0
        <5>1. d.tail = to[d.size] /\ d.size \in 1 .. d.size /\ d.live \subseteq Addresses
          BY <1>0, <2>2 DEF Ordered, Linked, Heaps
        <5> QED
          BY <1>0, <2>2, <5>1 DEF Ordered, Numbers
      <4> QED
        BY <2>2, <4>1, RemoveTailFields
    <3>3. r \in Caches
      BY <1>0, <3>1, CachesAreHeaps
    <3>4. \A j \in 1 .. n : left[j] = to[j]
      BY <1>0, <2>2
    <3> HIDE DEF r, left
    <3>5. t \in [1 .. r.size -> Queries \cup {NULL}]
      BY <2>8, <2>10, <3>1
    <3>6. \A j \in 1 .. r.size : t[j] = r.query[left[j]]
      BY <2>6, <2>8, <2>10, <3>1, <3>2, <3>4
    <3>7. Contents(r) = t
      BY <3>1, <3>3, <3>5, <3>6, OrderedContents
    <3> QED
      BY <1>2, <2>2, <2>9, <2>10, <3>7 DEF r, t
  <2>11. CASE ~(n + 1 > CACHE_CAPACITY)
    <3>1. d \in Caches
      BY <1>0, <2>2, <2>11, CachesAreHeaps
    <3>2. t \in [1 .. d.size -> Queries \cup {NULL}]
      BY <2>2, <2>8, <2>11
    <3>3. \A j \in 1 .. d.size : t[j] = d.query[to[j]]
      BY <2>2, <2>6, <2>8, <2>11
    <3>4. Contents(d) = t
      BY <2>2, <3>1, <3>2, <3>3, OrderedContents
    <3> QED
      BY <1>2, <2>2, <2>9, <2>11, <3>4 DEF t
  <2> QED
    BY <2>10, <2>11
<1> QED
  BY <1>3, <1>4

\* Short of the query that is at the head already (cache.c:49-53), addToCache does to
\* the list what an LRU list of CACHE_CAPACITY places does, for any capacity.
THEOREM AddsLikeLRUHolds == Spec => []AddsLikeLRU
<1>1. CacheInv => AddsLikeLRU
  <2> SUFFICES ASSUME CacheInv, WellFormed(cache), NEW q \in Queries,
                      cache.head = NULL \/ cache.query[cache.head] # q
               PROVE  Contents(AddToCache(cache, q)) = LRU!Added(Contents(cache), q)
    BY DEF AddsLikeLRU
  <2>1. cache \in Caches /\ \E ch : Ordered(cache, ch)
    BY DamagedIsNotWellFormed DEF CacheInv, ListInv
  <2> QED
    BY <2>1, AddsAsLRU
<1> QED
  BY <1>1, CacheInvariant, PTL
-----------------------------------------------------------------------------
(* addToCache statement by statement, beside lookups.                      *)

\* The list after lines 41-42, after lines 43-50, after lines 59-63 and after
\* lines 77-81, from the list as it was when the call began.
NextUnlinked(c, e) ==
    [c EXCEPT !.next = IF c.prev[e] = NULL THEN c.next ELSE [c.next EXCEPT ![c.prev[e]] = c.next[e]]]

TakenOut(c, e) ==
    [Unlink(c, e) EXCEPT !.prev = [@ EXCEPT ![e] = NULL], !.next = [@ EXCEPT ![e] = c.head]]

Prepared(c, q) ==
    LET e == Allocate(c)
    IN  [c EXCEPT !.live = @ \cup {e}, !.query = [@ EXCEPT ![e] = q],
                  !.prev = [@ EXCEPT ![e] = NULL], !.next = [@ EXCEPT ![e] = c.head]]

TailUnlinked(d) ==
    LET p == d.prev[d.tail]
    IN  [d EXCEPT !.next = IF p = NULL THEN d.next ELSE [d.next EXCEPT ![p] = NULL], !.tail = p]

\* How far addToCache has come, and what it has made of the list by then.
Adding ==
    \/ step = "idle" /\ heap = cache
    \/ /\ step # "idle" /\ state = "ready"
       /\ key \in Queries /\ ~Loops(cache, key)
       /\ \/ /\ Hit(cache, key) /\ entry = Entry(cache, key)
             /\ \/ step = "unlink" /\ heap = cache
                \/ step = "relink" /\ heap = NextUnlinked(cache, entry)
                \/ step = "front"  /\ heap = TakenOut(cache, entry)
          \/ /\ ~Hit(cache, key)
             /\ \/ step = "allocate" /\ heap = cache
                \/ step = "insert" /\ heap = Prepared(cache, key) /\ entry = Allocate(cache)
                \/ /\ step \in {"evict", "free"}
                   /\ NewEntry(cache, key).size > CACHE_CAPACITY
                   /\ entry = NewEntry(cache, key).tail
                   /\ heap = IF step = "evict" THEN NewEntry(cache, key)
                             ELSE TailUnlinked(NewEntry(cache, key))

SharedInv == CacheInv /\ Adding

sharedVars == <<vars, heap, adding, finding>>

\* The entry that is moved, and the one that is added, are entries.
LEMMA EntryIsLive ==
    ASSUME NEW c, ListInv(c), NEW q \in Queries, ~Loops(c, q)
    PROVE  /\ c \in Heaps
           /\ Hit(c, q) => Entry(c, q) \in Addresses
           /\ ~Hit(c, q) => /\ Allocate(c) \in Addresses
                            /\ NewEntry(c, q) \in Heaps
                            /\ NewEntry(c, q).tail \in Addresses
                            /\ NewEntry(c, q).size > 0
<1>0. c \in Caches /\ c \in Heaps /\ c.live \subseteq Addresses
  BY CachesAreHeaps DEF ListInv, Heaps
<1>1. CASE Damaged(c)
  BY <1>0, <1>1, DamagedSearch DEF Damaged, Loops
<1>2. ASSUME NEW ch, Ordered(c, ch)
      PROVE  /\ Hit(c, q) => Entry(c, q) \in c.live
             /\ Allocate(c) \in Addresses
  BY <1>0, <1>2, OrderedSearch, RoomForOneMore DEF Ordered
<1>3. Allocate(c) \in Addresses =>
         /\ NewEntry(c, q) \in Heaps
         /\ NewEntry(c, q).tail \in Addresses
         /\ NewEntry(c, q).size > 0
  <2> SUFFICES ASSUME Allocate(c) \in Addresses
               PROVE  /\ NewEntry(c, q) \in Heaps
                      /\ NewEntry(c, q).tail \in Addresses
                      /\ NewEntry(c, q).size > 0
    OBVIOUS
  <2>1. /\ NewEntry(c, q) \in Heaps
        /\ NewEntry(c, q).size = c.size + 1
        /\ NewEntry(c, q).tail = IF c.tail = NULL THEN Allocate(c) ELSE c.tail
    BY <1>0, NewEntryFields
  <2>2. c.size \in Nat /\ c.tail \in Addresses \cup {NULL}
    BY <1>0 DEF Heaps, Pointers
  <2> QED
    BY <2>1, <2>2
<1> QED
  BY <1>0, <1>1, <1>2, <1>3 DEF ListInv

\* What lines 43-50 make of the list h.
Relinked(h, e) ==
    LET n == h.next[e]
        p == h.prev[e]
        prevs == IF n = NULL THEN h.prev ELSE [h.prev EXCEPT ![n] = p]
    IN  [h EXCEPT !.prev = [prevs EXCEPT ![e] = NULL],
                  !.tail = IF @ = e THEN p ELSE @,
                  !.next = [@ EXCEPT ![e] = h.head]]

LEMMA RelinkTakesOut ==
    ASSUME NEW c \in Heaps, NEW e \in Addresses, heap = NextUnlinked(c, e)
    PROVE  TakenOut(c, e) = Relinked(heap, e)
<1>1. /\ heap.head = c.head /\ heap.tail = c.tail /\ heap.prev = c.prev
      /\ heap.next = IF c.prev[e] = NULL THEN c.next ELSE [c.next EXCEPT ![c.prev[e]] = c.next[e]]
  BY DEF NextUnlinked, Heaps
<1>2. heap.next[e] = c.next[e]
  BY <1>1 DEF Heaps
<1> QED
  BY <1>1, <1>2 DEF TakenOut, Unlink, Heaps, NextUnlinked, Relinked

\* The last statements of a move, of an addition and of an eviction complete
\* what MoveToFront, NewEntry and RemoveTail do at once.
LEMMA FrontCompletes ==
    ASSUME NEW c \in Heaps, NEW e \in Addresses, heap = TakenOut(c, e)
    PROVE  AsHead(e) = MoveToFront(c, e)
<1> DEFINE u == Unlink(c, e)
<1>1. u \in Heaps /\ u.head = c.head
  BY UnlinkFields
<1>2. heap = [u EXCEPT !.prev = [@ EXCEPT ![e] = NULL], !.next = [@ EXCEPT ![e] = c.head]]
  BY DEF TakenOut
<1>3. MoveToFront(c, e) = PutFirst(u, e)
  BY DEF MoveToFront
<1> DEFINE nexts == [u.next EXCEPT ![e] = c.head]
           cleared == [u.prev EXCEPT ![e] = NULL]
           prevs == IF c.head = NULL THEN cleared ELSE [cleared EXCEPT ![c.head] = e]
<1> HIDE DEF u
<1>4. PutFirst(u, e) = [u EXCEPT !.next = nexts, !.prev = prevs, !.head = e]
  BY <1>1 DEF PutFirst
<1>5. heap = [u EXCEPT !.next = nexts, !.prev = cleared]
  BY <1>1, <1>2 DEF Heaps
<1> HIDE DEF nexts, cleared
<1>6. AsHead(e) = [u EXCEPT !.next = nexts, !.prev = prevs, !.head = e]
  BY <1>1, <1>5 DEF AsHead, Heaps
<1> QED
  BY <1>3, <1>4, <1>6

LEMMA InsertCompletes ==
    ASSUME NEW c \in Heaps, NEW q \in Queries, Allocate(c) \in Addresses,
           heap = Prepared(c, q), entry = Allocate(c)
    PROVE  Counted(AsHead(entry)) = NewEntry(c, q)
<1> DEFINE b == [c EXCEPT !.query[entry] = q, !.live = @ \cup {entry}]
           p == PutFirst(b, entry)
<1>1. /\ b \in Heaps /\ b.head = c.head
      /\ heap = [b EXCEPT !.prev = [@ EXCEPT ![entry] = NULL], !.next = [@ EXCEPT ![entry] = c.head]]
  BY DEF Prepared, Heaps
<1>2. NewEntry(c, q) = [p EXCEPT !.tail = IF @ = NULL THEN entry ELSE @, !.size = @ + 1]
  BY DEF NewEntry
<1> HIDE DEF b
<1>3. AsHead(entry) = p
  BY <1>1 DEF AsHead, PutFirst, Heaps
<1> QED
  BY <1>2, <1>3 DEF Counted

LEMMA FreeCompletes ==
    ASSUME NEW d \in Heaps, heap = TailUnlinked(d), entry = d.tail
    PROVE  [heap EXCEPT !.live = @ \ {entry}, !.size = @ - 1] = RemoveTail(d)
  BY DEF TailUnlinked, RemoveTail, Heaps

\* Each statement takes addToCache to its next stage; the last one is the step
\* that Cache makes of the whole call, the others change nothing Cache speaks of.
LEMMA SharedSteps ==
    ASSUME SharedInv, [SharedNext]_sharedVars
    PROVE  Adding' /\ [Next]_vars
<1>0. ListInv(cache)
  BY DEF SharedInv, CacheInv
<1> USE DEF SharedInv, Adding, adding, vars
<1>1. ASSUME NEW q \in Queries, BeginAdd(q)
      PROVE  Adding' /\ [Next]_vars
  <2>1. step = "idle" /\ heap = cache
    BY <1>1 DEF BeginAdd
  <2>2. CASE Hit(cache, q)
    BY <1>1, <2>1, <2>2 DEF BeginAdd
  <2>3. CASE ~Hit(cache, q)
    BY <1>1, <2>1, <2>3 DEF BeginAdd
  <2> QED
    BY <2>2, <2>3
<1>2. ASSUME NEW q \in Queries, HangAdd(q)
      PROVE  Adding' /\ [Next]_vars
  BY <1>2 DEF HangAdd, Hang, Next
<1>3. CASE \/ \E q \in Queries : BeginFind(q)
           \/ LookAt \/ Miss \/ UNCHANGED sharedVars
  <2>1. UNCHANGED <<vars, heap, adding>>
    BY <1>3 DEF BeginFind, LookAt, Miss, sharedVars
  <2> QED
    BY <2>1
<1>4. CASE AddStep
  <2>0. /\ step # "idle" /\ state = "ready" /\ key \in Queries /\ ~Loops(cache, key)
        /\ cache \in Heaps
        /\ Hit(cache, key) => Entry(cache, key) \in Addresses
        /\ ~Hit(cache, key) => /\ Allocate(cache) \in Addresses
                               /\ NewEntry(cache, key) \in Heaps
                               /\ NewEntry(cache, key).tail \in Addresses
                               /\ NewEntry(cache, key).size > 0
    <3>1. step # "idle"
      BY <1>4 DEF AddStep, UnlinkNext, Relink, BecomeHead, AllocateEntry, InsertHead,
         UnlinkTail, FreeTail
    <3> QED
      BY <1>0, <3>1, EntryIsLive
  <2>1. CASE UnlinkNext
    <3>1. Hit(cache, key) /\ entry = Entry(cache, key) /\ heap = cache
      BY <2>1 DEF UnlinkNext
    <3>2. heap' = NextUnlinked(cache, entry)
      BY <2>0, <2>1, <3>1 DEF UnlinkNext, NextUnlinked, Heaps
    <3> QED
      BY <2>0, <2>1, <3>1, <3>2 DEF UnlinkNext
  <2>2. CASE Relink
    <3>1. Hit(cache, key) /\ entry = Entry(cache, key) /\ heap = NextUnlinked(cache, entry)
      BY <2>2 DEF Relink
    <3>2. heap' = TakenOut(cache, entry)
      <4>1. cache \in Heaps /\ entry \in Addresses /\ heap = NextUnlinked(cache, entry)
        BY <2>0, <3>1
      <4>2. heap' = Relinked(heap, entry)
        BY <2>2 DEF Relink, Relinked
      <4>3. TakenOut(cache, entry) = Relinked(heap, entry)
        BY <4>1, RelinkTakesOut
      <4> QED
        BY <4>2, <4>3
    <3> QED
      BY <2>0, <2>2, <3>1, <3>2 DEF Relink
  <2>3. CASE BecomeHead
    <3>1. Hit(cache, key) /\ entry = Entry(cache, key) /\ heap = TakenOut(cache, entry)
      BY <2>3 DEF BecomeHead
    <3>2. AsHead(entry) = AddToCache(cache, key)
      BY <2>0, <3>1, FrontCompletes DEF AddToCache
    <3> QED
      BY <2>0, <2>3, <3>2 DEF BecomeHead, Return, Next, Add
  <2>4. CASE AllocateEntry
    <3>1. ~Hit(cache, key) /\ heap = cache
      BY <2>4 DEF AllocateEntry
    <3>2. entry' = Allocate(cache) /\ heap' = Prepared(cache, key)
      BY <2>4, <3>1 DEF AllocateEntry, Prepared
    <3> QED
      BY <2>0, <2>4, <3>1, <3>2 DEF AllocateEntry
  <2>5. CASE InsertHead
    <3> DEFINE d == NewEntry(cache, key)
    <3>1. ~Hit(cache, key) /\ heap = Prepared(cache, key) /\ entry = Allocate(cache)
      BY <2>5 DEF InsertHead
    <3>2. Counted(AsHead(entry)) = d
      BY <2>0, <3>1, InsertCompletes
    <3>3. CASE d.size <= CACHE_CAPACITY
      <4>1. Return(d) /\ UNCHANGED state
        BY <2>5, <3>2, <3>3 DEF InsertHead
      <4>2. d = AddToCache(cache, key)
        BY <2>0, <3>1, <3>3, CacheListAssumption DEF AddToCache, Heaps
      <4> QED
        BY <2>0, <4>1, <4>2 DEF Return, Next, Add
    <3>4. CASE ~(d.size <= CACHE_CAPACITY)
      <4>1. heap' = d /\ step' = "evict" /\ entry' = d.tail /\ UNCHANGED <<cache, key, state>>
        BY <2>5, <3>2, <3>4 DEF InsertHead
      <4>2. d.size > CACHE_CAPACITY
        BY <2>0, <3>1, <3>4, CacheListAssumption DEF Heaps
      <4> QED
        BY <2>0, <3>1, <4>1, <4>2
    <3> QED
      BY <3>3, <3>4
  <2>6. CASE UnlinkTail
    <3> DEFINE d == NewEntry(cache, key)
    <3>1. ~Hit(cache, key) /\ d.size > CACHE_CAPACITY /\ entry = d.tail /\ heap = d
      BY <2>6 DEF UnlinkTail
    <3>2. heap' = TailUnlinked(d)
      BY <2>6, <3>1 DEF UnlinkTail, TailUnlinked
    <3> QED
      BY <2>0, <2>6, <3>1, <3>2 DEF UnlinkTail
  <2>7. CASE FreeTail
    <3> DEFINE d == NewEntry(cache, key)
    <3>1. ~Hit(cache, key) /\ d.size > CACHE_CAPACITY /\ entry = d.tail /\ heap = TailUnlinked(d)
      BY <2>7 DEF FreeTail
    <3>2. [heap EXCEPT !.live = @ \ {entry}, !.size = @ - 1] = AddToCache(cache, key)
      BY <2>0, <3>1, FreeCompletes DEF AddToCache
    <3> QED
      BY <2>0, <2>7, <3>2 DEF FreeTail, Return, Next, Add
  <2> QED
    BY <1>4, <2>1, <2>2, <2>3, <2>4, <2>5, <2>6, <2>7 DEF AddStep
<1> QED
  BY <1>1, <1>2, <1>3, <1>4 DEF SharedNext

LEMMA SharedInvariant == SharedSpec => []SharedInv
<1>1. SharedInit => SharedInv
  BY CreatedList DEF SharedInit, Init, SharedInv, CacheInv, Adding
<1>2. SharedInv /\ [SharedNext]_sharedVars => SharedInv'
  BY SharedSteps, CacheSteps DEF SharedInv
<1> QED
  BY <1>1, <1>2, PTL DEF SharedSpec, sharedVars

\* A lookup never sees it, and no addition leaves anything else behind: pointer by
\* pointer addToCache does what AddToCache does at once, damaged list or not.
THEOREM AddsAreAtomicHolds == SharedSpec => AddsAreAtomic
<1>1. SharedInit => Init
  BY DEF SharedInit
<1>2. SharedInv /\ [SharedNext]_sharedVars => [Next]_vars
  BY SharedSteps
<1> QED
  BY <1>1, <1>2, SharedInvariant, PTL DEF SharedSpec, sharedVars, AddsAreAtomic, Spec
-----------------------------------------------------------------------------
(* A lookup beside an addition.                                            *)

\* ch numbers the list as it was when the addition began, or will begin.  The lookup
\* stands where the entry it seeks is still before it: at the head, at the entry that
\* is being moved and will go on from the head, or at an entry not behind it.
Seeking(ch) ==
    \E j \in 1 .. cache.size :
        /\ cache.query[ch[j]] = query
        /\ \/ current = heap.head
           \/ step = "front" /\ current = entry
           \/ \E i \in 1 .. j : current = ch[i]

\* An entry that stays in its place is still before the lookup.  (A head that follows
\* itself is found at once or, when it is added again, is not one that stays.)
MustInv ==
    looking = "yes" /\ must =>
        /\ step # "idle" => query # key /\ Hit(AddToCache(cache, key), query)
        /\ \/ \E ch : Ordered(cache, ch) /\ Seeking(ch)
           \/ Damaged(cache) /\ step = "idle" /\ current = cache.head /\ cache.query[current] = query

\* What has not been in the list since the lookup began is not in it, or is lost
\* behind a head that follows itself.
MayInv ==
    looking = "yes" /\ ~may =>
        /\ step # "idle" => query # key
        /\ \/ \A a \in heap.live : heap.query[a] # query
           \/ Damaged(cache) /\ current = cache.head /\ cache.query[current] # query

\* Which entry moves, that it is not the head if something else is still found
\* afterwards, and that the one evicted is not one still found afterwards.
LEMMA MovedEntry ==
    ASSUME NEW c \in Caches, NEW ch, Ordered(c, ch), NEW q \in Queries, Hit(c, q)
    PROVE  \E p \in 1 .. c.size :
              /\ ch[p] = Entry(c, q) /\ c.query[ch[p]] = q
              /\ AddToCache(c, q) = MoveToFront(c, ch[p])
<1>1. Entry(c, q) \in c.live /\ c.query[Entry(c, q)] = q
  BY OrderedSearch
<1>2. PICK p \in 1 .. c.size : ch[p] = Entry(c, q)
  BY <1>1 DEF Ordered, Numbers
<1> QED
  BY <1>1, <1>2 DEF AddToCache

LEMMA HeadIsNotMoved ==
    ASSUME NEW c \in Caches, NEW ch, Ordered(c, ch), NEW q \in Queries, Hit(c, q),
           NEW r, r # q, Hit(AddToCache(c, q), r), NEW p \in 1 .. c.size, ch[p] = Entry(c, q)
    PROVE  p # 1
<1> SUFFICES ASSUME p = 1 PROVE FALSE
  OBVIOUS
<1> DEFINE d == MoveToFront(c, c.head)
<1>1. Entry(c, q) \in c.live /\ c.query[Entry(c, q)] = q
  BY OrderedSearch
<1>2. c.size > 0 /\ c.head = ch[1] /\ c.head \in Addresses /\ c \in Heaps
  <2>1. c \in Heaps /\ c.size \in Nat
    BY CachesAreHeaps DEF Heaps
  <2> QED
    BY <1>1, <2>1 DEF Ordered, Linked, Heaps
<1>3. AddToCache(c, q) = d
  BY <1>2 DEF AddToCache
<1>4. d \in Caches /\ Damaged(d)
  BY <1>2, HeadAgain
<1>5. d.query = c.query /\ d.head = c.head
  <2>1. Unlink(c, c.head) \in Heaps /\ Unlink(c, c.head).query = c.query
    BY <1>2, UnlinkFields
  <2> QED
    BY <1>2, <2>1, PutFirstFields DEF MoveToFront
<1> HIDE DEF d
<1>6. Reached(d) = {d.head}
  BY <1>4, DamagedSearch
<1>7. d.query[d.head] = r
  BY <1>3, <1>6 DEF Hit
<1> QED
  BY <1>1, <1>2, <1>5, <1>7

LEMMA LastIsNotSought ==
    ASSUME NEW c \in Caches, NEW ch, Ordered(c, ch), NEW q \in Queries, ~Hit(c, q),
           NewEntry(c, q).size > CACHE_CAPACITY,
           NEW r, r # q, Hit(AddToCache(c, q), r),
           NEW j \in 1 .. c.size, c.query[ch[j]] = r
    PROVE  j < c.size
<1> DEFINE d == NewEntry(c, q)
           e == Allocate(c)
           to == [i \in 1 .. c.size + 1 |-> IF i = 1 THEN Allocate(c) ELSE ch[i - 1]]
           left == [i \in 1 .. d.size - 1 |-> to[i]]
           b == RemoveTail(d)
<1>0. /\ c \in Heaps /\ c.size \in Nat /\ CACHE_CAPACITY \in Nat \ {0}
      /\ \A a \in c.live : c.query[a] # q
  <2>1. Reached(c) = c.live
    BY OrderedSearch
  <2> QED
    BY <2>1, CachesAreHeaps, CacheListAssumption DEF Hit, Heaps
<1>1. d \in Heaps /\ d.size = c.size + 1 /\ Ordered(d, to)
  BY <1>0, NewInFront
<1>2. e \in Addresses \ c.live
  BY RoomForOneMore DEF Ordered
<1>3. /\ d.query = [c.query EXCEPT ![e] = q] /\ d.live = c.live \cup {e}
      /\ d.tail = IF c.tail = NULL THEN e ELSE c.tail
  BY <1>0, <1>2, NewEntryFields
<1>4. AddToCache(c, q) = b
  BY DEF AddToCache
<1>5. c.tail = ch[c.size] /\ c.size \in 1 .. c.size /\ ch[c.size] \in c.live /\ ch[j] \in c.live
      /\ c.live \subseteq Addresses /\ NULL \notin Addresses
  BY <1>0, NullIsNoAddress DEF Ordered, Numbers, Linked, Heaps
<1> HIDE DEF d, to
<1>6. b \in Heaps /\ b.size = c.size /\ Ordered(b, left)
  <2>1. d.size > 1 /\ d.size - 1 = c.size
    BY <1>0, <1>1, <1>5
  <2> QED
    BY <1>1, <2>1, LastOut
<1>7. b.query = d.query /\ b.live = d.live \ {d.tail}
  <2>1. d.tail \in Addresses /\ d.size > 0
    BY <1>0, <1>1, <1>3, <1>5
  <2> QED
    BY <1>1, <2>1, RemoveTailFields
<1> HIDE DEF b
<1>8. b \in Caches
  <2>1. b.size \in 0 .. CACHE_CAPACITY
    BY <1>0, <1>6 DEF Caches
  <2> QED
    BY <1>6, <2>1, CachesAreHeaps
<1>9. PICK a \in b.live : b.query[a] = r
  <2>1. Reached(b) = b.live
    BY <1>6, <1>8, OrderedSearch
  <2> QED
    BY <1>4, <2>1 DEF Hit
<1>10. a \in c.live /\ a # ch[c.size] /\ c.query[a] = r
  BY <1>0, <1>2, <1>3, <1>5, <1>7, <1>9 DEF Heaps
<1>11. a = ch[j]
  BY <1>5, <1>10 DEF Ordered, Distinct
<1> QED
  BY <1>0, <1>10, <1>11

\* Between two statements the list is still made of pointers into the heap.
LEMMA HeapIsHeap ==
    ASSUME SharedInv
    PROVE  heap \in Heaps
<1> DEFINE d == NewEntry(cache, key)
<1>0. /\ cache \in Heaps /\ NULL \in Pointers
      /\ step # "idle" /\ Hit(cache, key) => entry \in Addresses
      /\ step # "idle" /\ ~Hit(cache, key) => Allocate(cache) \in Addresses /\ d \in Heaps
  <2>1. cache \in Heaps /\ NULL \in Pointers
    BY CachesAreHeaps DEF SharedInv, CacheInv, ListInv, Pointers
  <2>2. step # "idle" => key \in Queries /\ ~Loops(cache, key)
    BY DEF SharedInv, Adding
  <2>3. step # "idle" /\ Hit(cache, key) => entry = Entry(cache, key)
    BY DEF SharedInv, Adding
  <2> QED
    BY <2>1, <2>2, <2>3, EntryIsLive DEF SharedInv, CacheInv
<1> HIDE DEF d
<1>1. CASE heap = cache
  BY <1>0, <1>1
<1>2. CASE heap = NextUnlinked(cache, entry) /\ entry \in Addresses
  <2> DEFINE nexts == IF cache.prev[entry] = NULL THEN cache.next
                      ELSE [cache.next EXCEPT ![cache.prev[entry]] = cache.next[entry]]
  <2>1. nexts \in [Addresses -> Pointers]
    BY <1>0, <1>2 DEF Heaps
  <2>2. heap = [cache EXCEPT !.next = nexts]
    BY <1>2 DEF NextUnlinked
  <2> HIDE DEF nexts
  <2> QED
    BY <1>0, <2>1, <2>2 DEF Heaps
<1>3. CASE heap = TakenOut(cache, entry) /\ entry \in Addresses
  <2> DEFINE u == Unlink(cache, entry)
             prevs == [u.prev EXCEPT ![entry] = NULL]
             nexts == [u.next EXCEPT ![entry] = cache.head]
  <2>1. u \in Heaps
    BY <1>0, <1>3, UnlinkFields
  <2>2. heap = [u EXCEPT !.prev = prevs, !.next = nexts]
    BY <1>3 DEF TakenOut
  <2> HIDE DEF u
  <2>3. prevs \in [Addresses -> Pointers] /\ nexts \in [Addresses -> Pointers]
    BY <1>0, <2>1 DEF Heaps
  <2> HIDE DEF prevs, nexts
  <2> QED
    BY <2>1, <2>2, <2>3 DEF Heaps
<1>4. CASE heap = Prepared(cache, key) /\ key \in Queries /\ Allocate(cache) \in Addresses
  <2> DEFINE e == Allocate(cache)
             lives == cache.live \cup {e}
             queries == [cache.query EXCEPT ![e] = key]
             prevs == [cache.prev EXCEPT ![e] = NULL]
             nexts == [cache.next EXCEPT ![e] = cache.head]
  <2>1. /\ lives \in SUBSET Addresses /\ queries \in [Addresses -> Queries \cup {NULL}]
        /\ prevs \in [Addresses -> Pointers] /\ nexts \in [Addresses -> Pointers]
    BY <1>0, <1>4 DEF Heaps
  <2>2. heap = [cache EXCEPT !.live = lives, !.query = queries, !.prev = prevs, !.next = nexts]
    BY <1>4 DEF Prepared
  <2> HIDE DEF lives, queries, prevs, nexts
  <2> QED
    BY <1>0, <2>1, <2>2 DEF Heaps
<1>5. CASE heap = d /\ d \in Heaps
  BY <1>5
<1>6. CASE heap = TailUnlinked(d) /\ d \in Heaps /\ d.tail \in Addresses
  <2> DEFINE p == d.prev[d.tail]
             nexts == IF p = NULL THEN d.next ELSE [d.next EXCEPT ![p] = NULL]
  <2>1. p \in Pointers /\ nexts \in [Addresses -> Pointers]
    BY <1>0, <1>6 DEF Heaps
  <2>2. heap = [d EXCEPT !.next = nexts, !.tail = p]
    BY <1>6 DEF TailUnlinked
  <2> HIDE DEF p, nexts
  <2> QED
    BY <1>6, <2>1, <2>2 DEF Heaps
<1>7. step # "idle" /\ ~Hit(cache, key) => d.tail \in Addresses
  BY EntryIsLive DEF SharedInv, CacheInv, Adding, d
<1> QED
  BY <1>0, <1>1, <1>2, <1>3, <1>4, <1>5, <1>6, <1>7 DEF SharedInv, Adding, d

\* The list in memory at each statement of addToCache, as a lookup sees it.
LEMMA HeapSeen ==
    ASSUME SharedInv, NEW ch, Ordered(cache, ch)
    PROVE  /\ heap.head = IF step \in {"evict", "free"} THEN Allocate(cache) ELSE cache.head
           /\ heap.live = IF step \in {"insert", "evict", "free"}
                           THEN cache.live \cup {Allocate(cache)} ELSE cache.live
           /\ \A a \in cache.live : heap.query[a] = cache.query[a]
           /\ step \in {"insert", "evict", "free"} => heap.query[Allocate(cache)] = key
<1>0. /\ cache \in Caches /\ cache \in Heaps /\ cache.live \subseteq Addresses
      /\ Allocate(cache) \in Addresses \ cache.live
  BY CachesAreHeaps, RoomForOneMore DEF SharedInv, CacheInv, ListInv, Ordered, Heaps
<1> DEFINE d == NewEntry(cache, key)
<1>1. key \in Queries =>
         /\ d \in Heaps /\ d.head = Allocate(cache) /\ d.live = cache.live \cup {Allocate(cache)}
         /\ d.query = [cache.query EXCEPT ![Allocate(cache)] = key]
  BY <1>0, NewEntryFields
<1> HIDE DEF d
<1>2. CASE heap = cache /\ step \in {"idle", "unlink", "allocate"}
  BY <1>2
<1>3. CASE heap = NextUnlinked(cache, entry) /\ step = "relink"
  BY <1>0, <1>3 DEF NextUnlinked, Heaps
<1>4. CASE heap = TakenOut(cache, entry) /\ step = "front"
  BY <1>0, <1>4 DEF TakenOut, Unlink, Heaps
<1>5. CASE heap = Prepared(cache, key) /\ step = "insert"
  BY <1>0, <1>5 DEF Prepared, Heaps
<1>6. CASE heap = d /\ step = "evict" /\ key \in Queries
  BY <1>0, <1>1, <1>6 DEF Heaps
<1>7. CASE heap = TailUnlinked(d) /\ step = "free" /\ key \in Queries
  <2>1. heap.head = d.head /\ heap.live = d.live /\ heap.query = d.query
    BY <1>1, <1>7 DEF TailUnlinked, Heaps
  <2> QED
    BY <1>0, <1>1, <1>7, <2>1 DEF Heaps
<1> QED
  BY <1>2, <1>3, <1>4, <1>5, <1>6, <1>7 DEF SharedInv, Adding, d

\* From an entry before the one sought, which is neither moved nor evicted, a next
\* pointer leads to an entry that is not behind it either, or back to the head.
LEMMA NextIsNotBehind ==
    ASSUME SharedInv, NEW ch, Ordered(cache, ch),
           NEW j \in 1 .. cache.size, NEW i \in 1 .. cache.size, i < j,
           step # "idle" /\ Hit(cache, key) => ch[j] # entry,
           step = "free" => j < cache.size
    PROVE  heap.next[ch[i]] = heap.head \/ \E k \in 1 .. j : heap.next[ch[i]] = ch[k]
<1> DEFINE n == cache.size
           d == NewEntry(cache, key)
<1>0. /\ cache \in Caches /\ cache \in Heaps /\ cache.live \subseteq Addresses
      /\ NULL \notin Addresses /\ n \in Nat
      /\ Allocate(cache) \in Addresses \ cache.live
  BY CachesAreHeaps, RoomForOneMore, NullIsNoAddress DEF SharedInv, CacheInv, ListInv, Ordered, Heaps
<1>1. /\ \A k \in 1 .. n : ch[k] \in cache.live
      /\ \A k, l \in 1 .. n : ch[k] = ch[l] => k = l
      /\ \A k \in 1 .. n : /\ cache.next[ch[k]] = IF k = n THEN NULL ELSE ch[k + 1]
                          /\ cache.prev[ch[k]] = IF k = 1 THEN NULL ELSE ch[k - 1]
  BY DEF Ordered, Numbers, Linked
<1>2. cache.next[ch[i]] = ch[i + 1] /\ i + 1 \in 1 .. j /\ ch[i] \in Addresses
  BY <1>0, <1>1
<1>3. key \in Queries =>
         /\ d \in Heaps
         /\ \A a \in cache.live : d.next[a] = cache.next[a]
         /\ d.tail = IF cache.tail = NULL THEN Allocate(cache) ELSE cache.tail
         /\ \A a \in cache.live : d.prev[a] = IF a = cache.head THEN Allocate(cache) ELSE cache.prev[a]
  <2>1. key \in Queries =>
         /\ d \in Heaps
         /\ d.tail = IF cache.tail = NULL THEN Allocate(cache) ELSE cache.tail
         /\ \A a \in Addresses :
               /\ d.next[a] = IF a = Allocate(cache) THEN cache.head ELSE cache.next[a]
               /\ d.prev[a] = IF a = cache.head THEN Allocate(cache)
                              ELSE IF a = Allocate(cache) THEN NULL ELSE cache.prev[a]
    BY <1>0, NewEntryFields
  <2> QED
    BY <1>0, <2>1
<1> HIDE DEF d
<1>4. CASE heap = cache
  BY <1>2, <1>4
<1>5. CASE heap = NextUnlinked(cache, entry) /\ step = "relink"
           /\ Hit(cache, key) /\ entry = Entry(cache, key)
  <2>1. PICK p \in 1 .. n : ch[p] = entry
    BY <1>0, <1>5, OrderedSearch DEF Ordered, Numbers
  <2>2. CASE ch[i] = cache.prev[entry]
    <3>1. p = i + 1 /\ p # j
      BY <1>0, <1>1, <1>5, <2>1, <2>2
    <3>2. heap.next[ch[i]] = cache.next[entry]
      BY <1>0, <1>2, <1>5, <2>2 DEF NextUnlinked, Heaps
    <3>3. cache.next[entry] = ch[p + 1] /\ p + 1 \in 1 .. j
      BY <1>0, <1>1, <2>1, <3>1
    <3> QED
      BY <3>2, <3>3
  <2>3. CASE ch[i] # cache.prev[entry]
    <3>1. heap.next[ch[i]] = cache.next[ch[i]]
      BY <1>0, <1>2, <1>5, <2>3 DEF NextUnlinked, Heaps
    <3> QED
      BY <1>2, <3>1
  <2> QED
    BY <2>2, <2>3
<1>6. CASE heap = TakenOut(cache, entry) /\ step = "front"
           /\ Hit(cache, key) /\ entry = Entry(cache, key)
  <2>1. PICK p \in 1 .. n : ch[p] = entry
    BY <1>0, <1>6, OrderedSearch DEF Ordered, Numbers
  <2> DEFINE u == Unlink(cache, entry)
  <2>2. /\ u \in Heaps /\ u.head = cache.head
        /\ \A a \in Addresses :
              /\ u.next[a] = IF a = cache.prev[entry] THEN cache.next[entry] ELSE cache.next[a]
              /\ u.prev[a] = IF a = cache.next[entry] THEN cache.prev[entry] ELSE cache.prev[a]
    <3>1. cache \in Heaps /\ entry \in Addresses
      BY <1>0, <1>1, <2>1
    <3> QED
      BY <3>1, UnlinkFields
  <2>3. heap = [u EXCEPT !.prev = [@ EXCEPT ![entry] = NULL],
                         !.next = [@ EXCEPT ![entry] = cache.head]]
    BY <1>6 DEF TakenOut
  <2> HIDE DEF u
  <2>4. /\ heap.head = cache.head
        /\ heap.next[ch[i]] = IF ch[i] = entry THEN cache.head
                              ELSE IF ch[i] = cache.prev[entry] THEN cache.next[entry]
                              ELSE cache.next[ch[i]]
    BY <1>2, <2>2, <2>3 DEF Heaps
  <2>5. CASE ch[i] = cache.prev[entry]
    <3>1. p = i + 1 /\ p # j
      BY <1>0, <1>1, <1>6, <2>1, <2>5
    <3>2. cache.next[entry] = ch[p + 1] /\ p + 1 \in 1 .. j
      BY <1>0, <1>1, <2>1, <3>1
    <3> QED
      BY <2>4, <2>5, <3>2
  <2>6. CASE ch[i] # cache.prev[entry]
    BY <1>2, <2>4, <2>6
  <2> QED
    BY <2>5, <2>6
<1>7. CASE heap = Prepared(cache, key) /\ step = "insert"
  <2>1. heap.next[ch[i]] = cache.next[ch[i]]
    BY <1>0, <1>1, <1>2, <1>7 DEF Prepared, Heaps
  <2> QED
    BY <1>2, <2>1
<1>8. CASE heap = d /\ step = "evict" /\ key \in Queries
  BY <1>1, <1>2, <1>3, <1>8
<1>9. CASE heap = TailUnlinked(d) /\ step = "free" /\ key \in Queries
  <2>1. d.tail = ch[n]
    BY <1>0, <1>1, <1>3, <1>9 DEF Ordered, Linked
  <2>2. d.prev[ch[n]] = ch[n - 1] /\ i < n - 1
    <3>1. cache.head = ch[1] /\ n # 1
      BY <1>0, <1>9 DEF Ordered, Linked
    <3> QED
      BY <1>0, <1>1, <1>3, <1>9, <3>1
  <2>3. ch[i] # d.prev[d.tail]
    BY <1>0, <1>1, <2>1, <2>2
  <2>4. heap.next[ch[i]] = d.next[ch[i]]
    BY <1>2, <1>3, <1>9, <2>3 DEF TailUnlinked, Heaps
  <2> QED
    BY <1>1, <1>2, <1>3, <1>9, <2>4
<1> QED
  BY <1>4, <1>5, <1>6, <1>7, <1>8, <1>9 DEF SharedInv, Adding, d

\* A step of the lookup.
LEMMA LookKeepsMust ==
    ASSUME SharedInv, MustInv, LookAt, looking' = "yes", must'
    PROVE  MustInv'
<1>0. /\ looking = "yes" /\ must /\ heap.query[current] # query /\ current' = heap.next[current]
      /\ UNCHANGED <<cache, state, heap, step, key, entry, query, must, may>>
  BY DEF LookAt, vars, adding
<1>1. step # "idle" => query # key /\ Hit(AddToCache(cache, key), query)
  BY <1>0 DEF MustInv
<1>2. CASE Damaged(cache) /\ step = "idle" /\ current = cache.head /\ cache.query[current] = query
  BY <1>0, <1>2 DEF SharedInv, Adding
<1>3. ASSUME NEW ch, Ordered(cache, ch), Seeking(ch)
      PROVE  MustInv'
  <2>0. /\ cache \in Caches /\ cache.size \in Nat /\ cache.live \subseteq Addresses
        /\ \A k \in 1 .. cache.size : ch[k] \in cache.live
    BY <1>3, CachesAreHeaps DEF SharedInv, CacheInv, ListInv, Ordered, Numbers, Heaps
  <2>1. PICK j \in 1 .. cache.size :
           /\ cache.query[ch[j]] = query
           /\ \/ current = heap.head
              \/ step = "front" /\ current = entry
              \/ \E i \in 1 .. j : current = ch[i]
    BY <1>3 DEF Seeking
  <2>2. /\ heap.head = IF step \in {"evict", "free"} THEN Allocate(cache) ELSE cache.head
        /\ \A a \in cache.live : heap.query[a] = cache.query[a]
    BY <1>3, HeapSeen
  <2>3. cache.head = ch[1] /\ 1 \in 1 .. j
    BY <1>3, <2>0 DEF Ordered, Linked
  <2>4. step # "idle" /\ Hit(cache, key) => ch[j] # entry
    <3> SUFFICES ASSUME step # "idle", Hit(cache, key), ch[j] = entry
                 PROVE  FALSE
      OBVIOUS
    <3>1. entry = Entry(cache, key)
      BY DEF SharedInv, Adding
    <3> QED
      BY <1>1, <1>3, <2>0, <2>1, <3>1, OrderedSearch
  <2>5. step = "free" => j < cache.size
    <3> SUFFICES ASSUME step = "free" PROVE j < cache.size
      OBVIOUS
    <3>1. ~Hit(cache, key) /\ NewEntry(cache, key).size > CACHE_CAPACITY /\ key \in Queries
      BY DEF SharedInv, Adding
    <3> QED
      BY <1>1, <1>3, <2>0, <2>1, <3>1, LastIsNotSought
  <2>6. current' = heap.head \/ \E k \in 1 .. j : current' = ch[k]
    <3>1. CASE step = "front" /\ current = entry
      <4>1. heap = TakenOut(cache, entry) /\ Hit(cache, key) /\ entry = Entry(cache, key)
        BY <3>1 DEF SharedInv, Adding
      <4>2. entry \in Addresses /\ cache \in Heaps
        BY <1>3, <2>0, <4>1, OrderedSearch, CachesAreHeaps
      <4>3. Unlink(cache, entry) \in Heaps /\ Unlink(cache, entry).head = cache.head
        BY <4>2, UnlinkFields
      <4>4. heap.next[entry] = heap.head
        BY <4>1, <4>2, <4>3 DEF TakenOut, Heaps
      <4> QED
        BY <1>0, <3>1, <4>4
    <3>2. ASSUME NEW i \in 1 .. j, current = ch[i]
          PROVE  current' = heap.head \/ \E k \in 1 .. j : current' = ch[k]
      <4>1. i \in 1 .. cache.size /\ i < j
        BY <1>0, <2>0, <2>1, <2>2, <3>2
      <4> QED
        BY <1>0, <1>3, <2>4, <2>5, <3>2, <4>1, NextIsNotBehind
    <3>3. CASE current = heap.head /\ step \notin {"evict", "free"}
      BY <2>2, <2>3, <3>2, <3>3
    <3>4. CASE current = heap.head /\ step \in {"evict", "free"}
      <4>1. key \in Queries /\ cache \in Heaps /\ Allocate(cache) \in Addresses \ cache.live
        BY <1>3, <2>0, <3>4, RoomForOneMore, CachesAreHeaps DEF SharedInv, Adding, Ordered
      <4> DEFINE d == NewEntry(cache, key)
      <4>2. /\ d \in Heaps
            /\ d.tail = IF cache.tail = NULL THEN Allocate(cache) ELSE cache.tail
            /\ \A a \in Addresses :
                  /\ d.next[a] = IF a = Allocate(cache) THEN cache.head ELSE cache.next[a]
                  /\ d.prev[a] = IF a = cache.head THEN Allocate(cache)
                                 ELSE IF a = Allocate(cache) THEN NULL ELSE cache.prev[a]
        BY <4>1, NewEntryFields
      <4> HIDE DEF d
      <4>3. heap.next[Allocate(cache)] = cache.head
        <5>1. CASE step = "evict"
          BY <4>1, <4>2, <5>1 DEF SharedInv, Adding, d
        <5>2. CASE step = "free"
          <6>1. heap = TailUnlinked(d)
            BY <5>2 DEF SharedInv, Adding, d
          <6>2. cache.size \in 1 .. cache.size /\ cache.size # 1 /\ cache.tail = ch[cache.size]
            BY <1>3, <2>0, <2>5, <5>2 DEF Ordered, Linked
          <6>3. /\ ch[cache.size] # cache.head /\ cache.prev[ch[cache.size]] = ch[cache.size - 1]
                /\ cache.size - 1 \in 1 .. cache.size
            BY <1>3, <2>0, <2>3, <6>2 DEF Ordered, Numbers, Linked
          <6>4. d.tail = ch[cache.size] /\ d.prev[d.tail] \in cache.live
            <7>1. ch[cache.size] \in cache.live /\ NULL \notin Addresses
              BY <2>0, <6>2, NullIsNoAddress
            <7> QED
              BY <2>0, <4>1, <4>2, <6>2, <6>3, <7>1
          <6>5. heap.next[Allocate(cache)] = d.next[Allocate(cache)]
            BY <4>1, <4>2, <6>1, <6>4 DEF TailUnlinked, Heaps
          <6> QED
            BY <4>1, <4>2, <6>5
        <5> QED
          BY <3>4, <5>1, <5>2
      <4> QED
        BY <1>0, <2>2, <2>3, <3>4, <4>3
    <3> QED
      BY <2>1, <3>1, <3>2, <3>3, <3>4
  <2>7. Seeking(ch)'
    BY <1>0, <2>1, <2>6 DEF Seeking
  <2> QED
    BY <1>0, <1>1, <1>3, <2>7 DEF MustInv
<1> QED
  BY <1>0, <1>2, <1>3 DEF MustInv

\* addToCache returns: the list is the new one, its entries in new places.
LEMMA MoveKeepsMust ==
    ASSUME SharedInv, MustInv, BecomeHead, looking' = "yes", must'
    PROVE  MustInv'
<1>0. /\ step = "front" /\ looking = "yes" /\ must /\ step' = "idle"
      /\ cache' = AsHead(entry) /\ heap' = AsHead(entry)
      /\ UNCHANGED <<query, current>>
  BY DEF BecomeHead, Return, finding
<1>1. /\ key \in Queries /\ Hit(cache, key) /\ entry = Entry(cache, key)
      /\ heap = TakenOut(cache, entry) /\ cache \in Caches /\ cache \in Heaps
  BY <1>0, CachesAreHeaps DEF SharedInv, Adding, CacheInv, ListInv
<1>2. query # key /\ Hit(AddToCache(cache, key), query)
  BY <1>0 DEF MustInv
<1>3. PICK ch : Ordered(cache, ch) /\ Seeking(ch)
  BY <1>0 DEF MustInv
<1>4. PICK j \in 1 .. cache.size :
         /\ cache.query[ch[j]] = query
         /\ \/ current = heap.head
            \/ current = entry
            \/ \E i \in 1 .. j : current = ch[i]
  BY <1>3 DEF Seeking
<1>5. PICK p \in 1 .. cache.size :
         /\ ch[p] = entry /\ cache.query[ch[p]] = key
         /\ AddToCache(cache, key) = MoveToFront(cache, ch[p])
  BY <1>1, <1>3, MovedEntry
<1>6. p # 1 /\ p # j /\ cache.size \in Nat
  BY <1>1, <1>2, <1>3, <1>4, <1>5, HeadIsNotMoved DEF Heaps
<1> DEFINE n == cache.size
           to == [k \in 1 .. cache.size |->
                     IF k = 1 THEN ch[p] ELSE IF k <= p THEN ch[k - 1] ELSE ch[k]]
           d == MoveToFront(cache, ch[p])
<1>7. p \in 2 .. cache.size
  BY <1>6
<1>8. d \in Caches /\ d.size = n /\ Ordered(d, to)
  BY <1>1, <1>3, <1>7, EntryAgain
<1>9. d.query = cache.query /\ d.head = entry
  <2>1. ch[p] \in Addresses
    BY <1>1, <1>3 DEF Ordered, Numbers, Heaps
  <2>2. Unlink(cache, ch[p]) \in Heaps /\ Unlink(cache, ch[p]).query = cache.query
    BY <1>1, <2>1, UnlinkFields
  <2> QED
    BY <1>5, <2>1, <2>2, PutFirstFields DEF MoveToFront
<1>10. cache' = d /\ heap' = d
  BY <1>0, <1>1, <1>3, <1>5, FrontCompletes, OrderedSearch DEF Heaps
<1>11. ASSUME NEW i \in 1 .. j
       PROVE  \E l \in 1 .. n : to[l] = ch[j] /\ \E k \in 1 .. l : to[k] = ch[i]
  <2>1. n \in Nat /\ p \in 2 .. n /\ i \in 1 .. n /\ j \in i .. n /\ j # p
    BY <1>6, <1>7, <1>11
  <2>2. \A k \in 1 .. n : to[k] = IF k = 1 THEN ch[p] ELSE IF k <= p THEN ch[k - 1] ELSE ch[k]
    OBVIOUS
  <2> DEFINE after(k) == IF k = p THEN 1 ELSE IF k < p THEN k + 1 ELSE k
  <2> HIDE DEF n, to
  <2>3. to[after(i)] = ch[i] /\ to[after(j)] = ch[j]
    BY <2>1, <2>2
  <2>4. after(j) \in 1 .. n /\ after(i) \in 1 .. after(j)
    BY <2>1
  <2> HIDE DEF after
  <2> QED
    BY <2>3, <2>4
<1>12. heap.head = ch[1] /\ 1 \in 1 .. j
  BY <1>0, <1>3, <1>6, HeapSeen DEF Ordered, Linked
<1> HIDE DEF d, to
<1>13. PICK w : w = to
  OBVIOUS
<1>14. \E l \in 1 .. n : w[l] = ch[j] /\ (current = d.head \/ \E k \in 1 .. l : current = w[k])
  BY <1>4, <1>9, <1>11, <1>12, <1>13
<1>15. Seeking(w)'
  BY <1>0, <1>4, <1>8, <1>9, <1>10, <1>14 DEF Seeking
<1>16. Ordered(cache', w)
  BY <1>8, <1>10, <1>13
<1> QED
  BY <1>0, <1>15, <1>16 DEF MustInv

\* The same for a new entry, whether or not the last one goes.
LEMMA InsertKeepsMust ==
    ASSUME SharedInv, MustInv, InsertHead \/ FreeTail, looking' = "yes", must'
    PROVE  MustInv'
<1> DEFINE d == NewEntry(cache, key)
           e == Allocate(cache)
           n == cache.size
<1>0. /\ step \in {"insert", "free"} /\ looking = "yes" /\ must
      /\ UNCHANGED <<query, current>>
  BY DEF InsertHead, FreeTail, finding
<1>1. /\ key \in Queries /\ ~Hit(cache, key) /\ cache \in Caches /\ cache \in Heaps
      /\ CACHE_CAPACITY \in Nat \ {0} /\ cache.live \subseteq Addresses
  BY <1>0, CachesAreHeaps, CacheListAssumption DEF SharedInv, Adding, CacheInv, ListInv, Heaps
<1>2. query # key /\ Hit(AddToCache(cache, key), query)
  BY <1>0 DEF MustInv
<1>3. PICK ch : Ordered(cache, ch) /\ Seeking(ch)
  BY <1>0 DEF MustInv
<1>4. PICK j \in 1 .. n :
         /\ cache.query[ch[j]] = query
         /\ current = heap.head \/ \E i \in 1 .. j : current = ch[i]
  BY <1>0, <1>3 DEF Seeking
<1> DEFINE to == [k \in 1 .. cache.size + 1 |-> IF k = 1 THEN Allocate(cache) ELSE ch[k - 1]]
<1>5. d \in Heaps /\ d.size = n + 1 /\ Ordered(d, to)
  <2>1. \A a \in cache.live : cache.query[a] # key
    BY <1>1, <1>3, OrderedSearch DEF Hit
  <2> QED
    BY <1>1, <1>3, <2>1, NewInFront
<1>6. e \in Addresses \ cache.live
  BY <1>1, <1>3, RoomForOneMore DEF Ordered
<1>7. d.head = e /\ d.query = [cache.query EXCEPT ![e] = key]
  BY <1>1, <1>6, NewEntryFields
<1>8. /\ n \in Nat /\ cache.head = ch[1] /\ 1 \in 1 .. j /\ ch[j] \in cache.live
      /\ to[1] = e /\ \A k \in 1 .. n : to[k + 1] = ch[k]
  BY <1>1, <1>3 DEF Ordered, Numbers, Linked, Heaps
<1> HIDE DEF d, to, n, e
<1>9. d.query[to[j + 1]] = query
  BY <1>1, <1>4, <1>6, <1>7, <1>8 DEF Heaps
<1>10. CASE InsertHead
  <2>1. heap.head = cache.head
    BY <1>3, <1>10, HeapSeen DEF InsertHead
  <2>2. PICK i \in 1 .. j : current = ch[i]
    BY <1>4, <1>8, <2>1
  <2>3. Counted(AsHead(entry)) = d
    BY <1>1, <1>6, <1>10, InsertCompletes DEF SharedInv, Adding, InsertHead, d, e
  <2>4. CASE d.size <= CACHE_CAPACITY
    <3>1. cache' = d /\ heap' = d /\ step' = "idle"
      BY <1>10, <2>3, <2>4 DEF InsertHead, Return
    <3>2. j + 1 \in 1 .. d.size /\ i + 1 \in 1 .. j + 1 /\ current = to[i + 1]
      BY <1>5, <1>8, <2>2
    <3>3. PICK w : w = to
      OBVIOUS
    <3>4. Seeking(w)' /\ Ordered(cache', w)
      BY <1>0, <1>5, <1>9, <3>1, <3>2, <3>3 DEF Seeking
    <3> QED
      BY <3>1, <3>4 DEF MustInv
  <2>5. CASE ~(d.size <= CACHE_CAPACITY)
    <3>1. heap' = d /\ step' = "evict" /\ UNCHANGED <<cache, key>>
      BY <1>10, <2>3, <2>5 DEF InsertHead
    <3>2. Seeking(ch)'
      BY <1>0, <1>4, <2>2, <3>1 DEF Seeking, n
    <3> QED
      BY <1>0, <1>2, <1>3, <3>1, <3>2 DEF MustInv
  <2> QED
    BY <2>4, <2>5
<1>11. CASE FreeTail
  <2> DEFINE b == RemoveTail(d)
             left == [k \in 1 .. d.size - 1 |-> to[k]]
  <2>1. d.size > CACHE_CAPACITY /\ heap = TailUnlinked(d) /\ entry = d.tail
    BY <1>11 DEF SharedInv, Adding, FreeTail, d
  <2>2. j < n
    BY <1>1, <1>2, <1>3, <1>4, <2>1, LastIsNotSought DEF d, n
  <2>3. b \in Heaps /\ b.size = n /\ Ordered(b, left)
    <3>1. d.size > 1 /\ d.size - 1 = n
      BY <1>1, <1>5, <1>8, <2>1
    <3> QED
      BY <1>5, <3>1, LastOut
  <2>4. cache' = b /\ heap' = b /\ step' = "idle"
    BY <1>5, <1>11, <2>1, FreeCompletes DEF FreeTail, Return
  <2>5. b.query = d.query /\ b.head = d.head
    <3>1. d.tail \in Addresses /\ d.size > 0
      <4>1. d.tail = to[d.size] /\ d.size \in 1 .. d.size /\ d.live \subseteq Addresses
        BY <1>5, <1>8 DEF Ordered, Linked, Heaps
      <4> QED
        BY <1>5, <1>8, <4>1 DEF Ordered, Numbers
    <3> QED
      BY <1>5, <3>1, RemoveTailFields
  <2>6. heap.head = e
    BY <1>3, <1>11, HeapSeen DEF FreeTail, e
  <2>7. \A k \in 1 .. n : left[k] = to[k]
    BY <1>5, <1>8
  <2> HIDE DEF b, left
  <2>8. j + 1 \in 1 .. b.size /\ b.query[left[j + 1]] = query
    BY <1>8, <1>9, <2>2, <2>3, <2>5, <2>7
  <2>9. current = b.head \/ \E k \in 1 .. j + 1 : current = left[k]
    <3>1. ASSUME NEW i \in 1 .. j
          PROVE  i + 1 \in 1 .. j + 1 /\ left[i + 1] = ch[i]
      BY <1>8, <2>2, <2>7, <3>1
    <3> QED
      BY <1>4, <1>7, <2>5, <2>6, <3>1
  <2>10. PICK w : w = left
    OBVIOUS
  <2>11. Seeking(w)' /\ Ordered(cache', w)
    BY <1>0, <2>3, <2>4, <2>8, <2>9, <2>10 DEF Seeking
  <2> QED
    BY <2>4, <2>11 DEF MustInv
<1> QED
  BY <1>10, <1>11

\* Every step of either side.
LEMMA MustSteps ==
    ASSUME SharedInv, MustInv, [SharedNext]_sharedVars
    PROVE  MustInv'
<1> SUFFICES ASSUME looking' = "yes", must'
             PROVE  MustInv'
  BY DEF MustInv
<1>0. cache \in Caches /\ ((\E ch : Ordered(cache, ch)) \/ Damaged(cache))
  BY DEF SharedInv, CacheInv, ListInv
<1>1. ASSUME NEW q \in Queries, BeginAdd(q)
      PROVE  MustInv'
  <2>1. /\ step = "idle" /\ heap = cache /\ looking = "yes" /\ must /\ key' = q /\ ~Loops(cache, q)
        /\ q # query /\ Hit(AddToCache(cache, q), query) /\ step' # "front"
        /\ UNCHANGED <<cache, heap, query, current>>
    BY <1>1 DEF BeginAdd, Foresee, SharedInv, Adding
  <2>2. ~(Damaged(cache) /\ cache.query[cache.head] = query)
    BY <1>0, <2>1, DamagedSearch
  <2>3. PICK ch : Ordered(cache, ch) /\ Seeking(ch)
    BY <2>1, <2>2 DEF MustInv
  <2>4. Seeking(ch)'
    BY <2>1, <2>3 DEF Seeking
  <2> QED
    BY <2>1, <2>3, <2>4 DEF MustInv
<1>2. ASSUME NEW q \in Queries, HangAdd(q)
      PROVE  MustInv'
  <2>1. UNCHANGED <<cache, heap, step, key, entry, finding>>
    BY <1>2 DEF HangAdd, Hang, adding
  <2> QED
    BY <2>1 DEF MustInv, Seeking, finding
<1>3. CASE Miss \/ UNCHANGED sharedVars
  <2>1. UNCHANGED <<cache, heap, step, key, entry, finding>>
    BY <1>3 DEF Miss, sharedVars, vars, adding
  <2> QED
    BY <2>1 DEF MustInv, Seeking, finding
<1>4. ASSUME NEW q \in Queries, BeginFind(q)
      PROVE  MustInv'
  <2>1. /\ Hit(cache, q) /\ Hit(AfterAdd, q) /\ q # key /\ query' = q /\ current' = heap.head
        /\ UNCHANGED <<cache, state, heap, step, key, entry>>
    BY <1>4 DEF BeginFind, vars, adding
  <2>2. step # "idle" => Hit(AddToCache(cache, key), q)
    BY <2>1 DEF AfterAdd
  <2>3. CASE Damaged(cache)
    <3>1. cache.query[cache.head] = q
      BY <1>0, <2>1, <2>3, DamagedSearch DEF Hit
    <3>2. step = "idle"
      BY <1>0, <2>1, <2>3, <3>1, DamagedSearch DEF SharedInv, Adding
    <3>3. heap = cache
      BY <3>2 DEF SharedInv, Adding
    <3> QED
      BY <2>1, <2>3, <3>1, <3>2, <3>3 DEF MustInv
  <2>4. ASSUME NEW ch, Ordered(cache, ch)
        PROVE  MustInv'
    <3>1. PICK j \in 1 .. cache.size : cache.query[ch[j]] = q
      <4>1. PICK a \in cache.live : cache.query[a] = q
        BY <1>0, <2>1, <2>4, OrderedSearch DEF Hit
      <4> QED
        BY <2>4, <4>1 DEF Ordered, Numbers
    <3>2. Seeking(ch)'
      BY <2>1, <3>1 DEF Seeking
    <3> QED
      BY <2>1, <2>2, <2>4, <3>2 DEF MustInv
  <2> QED
    BY <1>0, <2>3, <2>4
<1>5. CASE UnlinkNext \/ Relink \/ AllocateEntry \/ UnlinkTail
  <2>1. /\ step # "idle" /\ looking = "yes" /\ must
        /\ UNCHANGED <<cache, state, key, query, current>>
        /\ step # "front" /\ step' # "idle"
    BY <1>5 DEF UnlinkNext, Relink, AllocateEntry, UnlinkTail, finding
  <2>2. query # key /\ Hit(AddToCache(cache, key), query)
    BY <2>1 DEF MustInv
  <2>3. PICK ch : Ordered(cache, ch) /\ Seeking(ch)
    BY <2>1 DEF MustInv
  <2>4. heap'.head = heap.head
    BY <1>5, HeapIsHeap DEF UnlinkNext, Relink, AllocateEntry, UnlinkTail, Heaps
  <2>5. Seeking(ch)'
    BY <2>1, <2>3, <2>4 DEF Seeking
  <2> QED
    BY <2>1, <2>2, <2>3, <2>5 DEF MustInv
<1>6. CASE LookAt
  BY <1>6, LookKeepsMust
<1>7. CASE BecomeHead
  BY <1>7, MoveKeepsMust
<1>8. CASE InsertHead \/ FreeTail
  BY <1>8, InsertKeepsMust
<1> QED
  BY <1>1, <1>2, <1>3, <1>4, <1>5, <1>6, <1>7, <1>8 DEF SharedNext, AddStep

\* A damaged list stays as it is, as far as a lookup can see, while its head is added.
LEMMA HeapDamaged ==
    ASSUME SharedInv, Damaged(cache)
    PROVE  heap.head = cache.head /\ heap.next[cache.head] = cache.head /\ heap.query = cache.query
<1>0. /\ cache \in Caches /\ cache \in Heaps /\ cache.head \in Addresses
      /\ cache.next[cache.head] = cache.head /\ cache.prev[cache.head] = cache.head
      /\ NULL \notin Addresses
  BY CachesAreHeaps, NullIsNoAddress DEF SharedInv, CacheInv, ListInv, Damaged, Heaps
<1>1. step # "idle" => Hit(cache, key) /\ Entry(cache, key) = cache.head
  <2> SUFFICES ASSUME step # "idle"
               PROVE  Hit(cache, key) /\ Entry(cache, key) = cache.head
    OBVIOUS
  <2>1. ~Loops(cache, key)
    BY DEF SharedInv, Adding
  <2>2. cache.query[cache.head] = key /\ Reached(cache) = {cache.head}
    BY <1>0, <2>1, DamagedSearch
  <2> QED
    BY <1>0, <2>2, DamagedSearch DEF Hit
<1>2. CASE heap = cache
  BY <1>0, <1>2
<1>3. CASE heap = NextUnlinked(cache, cache.head)
  BY <1>0, <1>3 DEF NextUnlinked, Heaps
<1>4. CASE heap = TakenOut(cache, cache.head)
  <2>1. /\ Unlink(cache, cache.head) \in Heaps /\ Unlink(cache, cache.head).head = cache.head
        /\ Unlink(cache, cache.head).query = cache.query
    BY <1>0, UnlinkFields
  <2> QED
    BY <1>0, <1>4, <2>1 DEF TakenOut, Heaps
<1> QED
  BY <1>1, <1>2, <1>3, <1>4 DEF SharedInv, Adding

LEMMA MaySteps ==
    ASSUME SharedInv, MayInv, [SharedNext]_sharedVars
    PROVE  MayInv'
<1> SUFFICES ASSUME looking' = "yes", ~may'
             PROVE  MayInv'
  BY DEF MayInv
<1>0. cache \in Caches /\ ((\E ch : Ordered(cache, ch)) \/ Damaged(cache)) /\ heap \in Heaps
  BY HeapIsHeap DEF SharedInv, CacheInv, ListInv
<1>1. ASSUME NEW q \in Queries, BeginAdd(q)
      PROVE  MayInv'
  <2>1. /\ looking = "yes" /\ ~may /\ key' = q /\ q # query
        /\ UNCHANGED <<cache, heap, query, current>>
    BY <1>1 DEF BeginAdd, Foresee
  <2> QED
    BY <2>1 DEF MayInv
<1>2. ASSUME NEW q \in Queries, HangAdd(q)
      PROVE  MayInv'
  <2>1. UNCHANGED <<cache, heap, step, key, entry, finding>>
    BY <1>2 DEF HangAdd, Hang, adding
  <2> QED
    BY <2>1 DEF MayInv, finding
<1>3. CASE Miss \/ UNCHANGED sharedVars
  <2>1. UNCHANGED <<cache, heap, step, key, entry, finding>>
    BY <1>3 DEF Miss, sharedVars, vars, adding
  <2> QED
    BY <2>1 DEF MayInv, finding
<1>4. ASSUME NEW q \in Queries, BeginFind(q)
      PROVE  MayInv'
  <2>1. /\ ~Hit(cache, q) /\ q # key /\ query' = q /\ current' = heap.head
        /\ UNCHANGED <<cache, state, heap, step, key, entry>>
    BY <1>4 DEF BeginFind, vars, adding
  <2>2. CASE Damaged(cache)
    <3>1. cache.query[cache.head] # q
      BY <1>0, <2>1, <2>2, DamagedSearch DEF Hit
    <3>2. heap.head = cache.head
      BY <1>0, <2>2, HeapDamaged
    <3> QED
      BY <2>1, <2>2, <3>1, <3>2 DEF MayInv
  <2>3. ASSUME NEW ch, Ordered(cache, ch)
        PROVE  MayInv'
    <3>1. \A a \in cache.live : cache.query[a] # q
      BY <1>0, <2>1, <2>3, OrderedSearch DEF Hit
    <3>2. \A a \in heap.live : heap.query[a] # q
      BY <2>1, <2>3, <3>1, HeapSeen
    <3> QED
      BY <2>1, <3>2 DEF MayInv
  <2> QED
    BY <1>0, <2>2, <2>3
<1>5. CASE LookAt
  <2>1. /\ looking = "yes" /\ ~may /\ current \in heap.live /\ heap.query[current] # query
        /\ current' = heap.next[current]
        /\ UNCHANGED <<cache, state, heap, step, key, entry, query>>
    BY <1>5 DEF LookAt, vars, adding
  <2>2. CASE Damaged(cache) /\ current = cache.head
    <3>1. heap.next[cache.head] = cache.head
      BY <1>0, <2>2, HeapDamaged
    <3> QED
      BY <2>1, <2>2, <3>1 DEF MayInv
  <2> QED
    BY <2>1, <2>2 DEF MayInv
<1>6. CASE AddStep
  <2>1. /\ looking = "yes" /\ ~may /\ step # "idle" /\ key \in Queries /\ ~Loops(cache, key)
        /\ UNCHANGED <<query, current>>
    BY <1>6 DEF SharedInv, Adding, AddStep, UnlinkNext, Relink, BecomeHead, AllocateEntry, InsertHead,
         UnlinkTail, FreeTail, finding
  <2>2. query # key
    BY <2>1 DEF MayInv
  <2>3. step' # "idle" => key' = key
    BY <1>6 DEF AddStep, UnlinkNext, Relink, BecomeHead, AllocateEntry, InsertHead,
         UnlinkTail, FreeTail, Return
  <2>4. ASSUME \A a \in heap.live : heap.query[a] # query
        PROVE  \A a \in heap'.live : heap'.query[a] # query
    <3>1. CASE UnlinkNext \/ Relink \/ BecomeHead \/ UnlinkTail
      <4>1. heap'.live = heap.live /\ heap'.query = heap.query
        BY <1>0, <3>1 DEF UnlinkNext, Relink, BecomeHead, UnlinkTail, Return, AsHead, Heaps
      <4> QED
        BY <2>4, <4>1
    <3>2. CASE AllocateEntry
      <4>1. heap'.live = heap.live \cup {entry'} /\ heap'.query = [heap.query EXCEPT ![entry'] = key]
        BY <1>0, <3>2 DEF AllocateEntry, Heaps
      <4>2. entry' \in Addresses
        <5>1. heap = cache /\ ~Hit(cache, key)
          BY <3>2 DEF AllocateEntry, SharedInv, Adding
        <5> QED
          BY <2>1, <3>2, <5>1, EntryIsLive DEF AllocateEntry, SharedInv, CacheInv
      <4> QED
        BY <1>0, <2>2, <2>4, <4>1, <4>2 DEF Heaps
    <3>3. CASE InsertHead
      <4>1. heap' = Counted(AsHead(entry))
        BY <3>3 DEF InsertHead, Return
      <4>2. heap'.live = heap.live /\ heap'.query = heap.query
        BY <1>0, <4>1 DEF Counted, AsHead, Heaps
      <4> QED
        BY <2>4, <4>2
    <3>4. CASE FreeTail
      <4>1. heap'.live = heap.live \ {entry} /\ heap'.query = heap.query
        BY <1>0, <3>4 DEF FreeTail, Return, Heaps
      <4> QED
        BY <2>4, <4>1
    <3> QED
      BY <1>6, <3>1, <3>2, <3>3, <3>4 DEF AddStep
  <2>5. ASSUME Damaged(cache), current = cache.head, cache.query[current] # query
        PROVE  Damaged(cache') /\ cache'.head = cache.head /\ cache'.query = cache.query
    <3>1. Hit(cache, key) /\ Entry(cache, key) = cache.head
      <4>1. cache.query[cache.head] = key /\ Reached(cache) = {cache.head}
        BY <1>0, <2>1, <2>5, DamagedSearch
      <4> QED
        BY <1>0, <2>5, <4>1, DamagedSearch DEF Hit
    <3>2. CASE cache' = cache
      BY <2>5, <3>2
    <3>3. CASE BecomeHead
      <4>1. heap = TakenOut(cache, cache.head) /\ entry = cache.head
        BY <3>1, <3>3 DEF BecomeHead, SharedInv, Adding
      <4>2. cache \in Heaps /\ cache.head \in Addresses
        BY <1>0, <2>5, CachesAreHeaps DEF Damaged, Heaps
      <4>3. cache' = MoveToFront(cache, cache.head)
        BY <3>3, <4>1, <4>2, FrontCompletes DEF BecomeHead, Return
      <4>4. Damaged(MoveToFront(cache, cache.head))
        BY <1>0, <2>5, DamagedAgain
      <4>5. /\ MoveToFront(cache, cache.head).head = cache.head
            /\ MoveToFront(cache, cache.head).query = cache.query
        <5>1. Unlink(cache, cache.head) \in Heaps /\ Unlink(cache, cache.head).query = cache.query
          BY <4>2, UnlinkFields
        <5> QED
          BY <4>2, <5>1, PutFirstFields DEF MoveToFront
      <4> QED
        BY <4>3, <4>4, <4>5
    <3> QED
      BY <1>6, <3>1, <3>2, <3>3 DEF AddStep, UnlinkNext, Relink, AllocateEntry, InsertHead,
         UnlinkTail, FreeTail, SharedInv, Adding
  <2>6. CASE \A a \in heap.live : heap.query[a] # query
    BY <2>1, <2>2, <2>3, <2>4, <2>6 DEF MayInv
  <2>7. CASE Damaged(cache) /\ current = cache.head /\ cache.query[current] # query
    BY <2>1, <2>2, <2>3, <2>5, <2>7 DEF MayInv
  <2> QED
    BY <2>1, <2>6, <2>7 DEF MayInv
<1> QED
  BY <1>1, <1>2, <1>3, <1>4, <1>5, <1>6 DEF SharedNext

\* With may and must the property is what the last step of a lookup finds.
LookupInv == MustInv /\ MayInv /\ LookupsAgree

LEMMA LookupSteps ==
    ASSUME SharedInv, LookupInv, [SharedNext]_sharedVars
    PROVE  LookupInv'
<1>1. MustInv' /\ MayInv'
  BY MustSteps, MaySteps DEF LookupInv
<1>2. CASE \E q \in Queries : BeginAdd(q)
  BY <1>1, <1>2 DEF BeginAdd, Foresee, LookupInv, LookupsAgree
<1>3. CASE \E q \in Queries : BeginFind(q)
  BY <1>1, <1>3 DEF BeginFind, LookupInv, LookupsAgree
<1>4. CASE LookAt
  <2>1. CASE looking' = "hit"
    <3>1. /\ looking = "yes" /\ current \in heap.live /\ heap.query[current] = query
          /\ may' = may /\ must' = must
      BY <1>4, <2>1 DEF LookAt
    <3>2. may
      <4> SUFFICES ASSUME ~may PROVE FALSE
        OBVIOUS
      <4>1. Damaged(cache) /\ current = cache.head /\ cache.query[current] # query
        BY <3>1 DEF LookupInv, MayInv
      <4>2. heap.query = cache.query
        BY <4>1, HeapDamaged
      <4> QED
        BY <3>1, <4>1, <4>2
    <3> QED
      BY <1>1, <2>1, <3>1, <3>2 DEF LookupInv, LookupsAgree
  <2> QED
    BY <1>1, <1>4, <2>1 DEF LookAt, LookupInv, LookupsAgree
<1>5. CASE Miss
  <2>1. /\ looking = "yes" /\ current = NULL /\ looking' = "miss" /\ must' = must
    BY <1>5 DEF Miss
  <2>2. ~must
    <3> SUFFICES ASSUME must PROVE FALSE
      OBVIOUS
    <3>1. heap \in Heaps /\ cache \in Heaps /\ NULL \notin Addresses
          /\ cache.live \subseteq Addresses
      BY HeapIsHeap, CachesAreHeaps, NullIsNoAddress DEF SharedInv, CacheInv, ListInv, Heaps
    <3>2. ~(Damaged(cache) /\ current = cache.head)
      BY <2>1, <3>1 DEF LookupInv, MustInv, Damaged
    <3>3. PICK ch : Ordered(cache, ch) /\ Seeking(ch)
      BY <2>1, <3>2 DEF LookupInv, MustInv
    <3>4. PICK j \in 1 .. cache.size :
             \/ current = heap.head
             \/ step = "front" /\ current = entry
             \/ \E i \in 1 .. j : current = ch[i]
      BY <3>3 DEF Seeking
    <3>5. /\ cache.size \in Nat /\ cache.head \in cache.live
          /\ \A i \in 1 .. cache.size : ch[i] \in cache.live
      BY <3>1, <3>3 DEF Ordered, Numbers, Linked, Heaps
    <3>6. heap.head \in Addresses
      <4>1. Allocate(cache) \in Addresses
        BY <3>3, RoomForOneMore DEF SharedInv, CacheInv, ListInv, Ordered
      <4> QED
        BY <3>1, <3>3, <3>5, <4>1, HeapSeen
    <3>7. step = "front" => entry \in Addresses
      <4> SUFFICES ASSUME step = "front" PROVE entry \in Addresses
        OBVIOUS
      <4>1. Hit(cache, key) /\ entry = Entry(cache, key) /\ key \in Queries /\ ~Loops(cache, key)
        BY DEF SharedInv, Adding
      <4> QED
        BY <4>1, EntryIsLive DEF SharedInv, CacheInv
    <3> QED
      BY <2>1, <3>1, <3>4, <3>5, <3>6, <3>7
  <2> QED
    BY <1>1, <2>1, <2>2 DEF LookupInv, LookupsAgree
<1>6. CASE UNCHANGED finding
  BY <1>1, <1>6 DEF finding, LookupInv, LookupsAgree
<1> QED
  BY <1>2, <1>3, <1>4, <1>5, <1>6 DEF SharedNext, AddStep, HangAdd, UnlinkNext, Relink,
     BecomeHead, AllocateEntry, InsertHead, UnlinkTail, FreeTail, sharedVars

LEMMA LookupInvariant == SharedSpec => []LookupInv
<1>1. SharedInit => LookupInv
  BY DEF SharedInit, LookupInv, MustInv, MayInv, LookupsAgree
<1>2. SharedInv /\ LookupInv /\ [SharedNext]_sharedVars => LookupInv'
  BY LookupSteps
<1> QED
  BY <1>1, <1>2, SharedInvariant, PTL DEF SharedSpec, sharedVars

\* Beside an addition at any stage, findInCache (cache.c:15-34) misses only what was not
\* there all along, and finds only what was there or was being added: for any capacity.
THEOREM LookupsAgreeHolds == SharedSpec => []LookupsAgree
<1>1. LookupInv => LookupsAgree
  BY DEF LookupInv
<1> QED
  BY <1>1, LookupInvariant, PTL
=============================================================================
