----------------------------- MODULE CacheList -----------------------------
(***************************************************************************)
(* cache.c: the doubly linked list of cached queries and its operations,   *)
(* pointer by pointer.  A cache is a record; an entry is the address of a  *)
(* heap block.  Which string an entry caches is kept, the result is not:   *)
(* no operation of the list depends on it.                                 *)
(*                                                                         *)
(* The operators are functions of the list, so that Cache (the list on its *)
(* own) and Server (the list under the read lock) share them.              *)
(***************************************************************************)
EXTENDS Integers, Sequences, FiniteSets

CONSTANTS
    Queries,            \* the strings handed to the cache
    CACHE_CAPACITY,     \* cache.h: 10
    NULL

ASSUME CacheListAssumption ==
    /\ CACHE_CAPACITY \in Nat \ {0}
    /\ NULL \notin Int

Addresses == 1 .. CACHE_CAPACITY + 1    \* enough for what is ever allocated

Pointers == Addresses \cup {NULL}

Caches ==
    [head : Pointers, tail : Pointers, size : 0 .. CACHE_CAPACITY,
     query : [Addresses -> Queries \cup {NULL}],
     prev : [Addresses -> Pointers], next : [Addresses -> Pointers],
     live : SUBSET Addresses]

CreateCache ==
    [head |-> NULL, tail |-> NULL, size |-> 0,
     query |-> [a \in Addresses |-> NULL],
     prev |-> [a \in Addresses |-> NULL], next |-> [a \in Addresses |-> NULL],
     live |-> {}]
-----------------------------------------------------------------------------
(* findInCache                                                             *)

\* Where k turns of findInCache's loop have come.
After(c) ==
    LET at[k \in 0 .. CACHE_CAPACITY + 1] ==
            IF k = 0 THEN c.head
            ELSE IF at[k - 1] = NULL THEN NULL ELSE c.next[at[k - 1]]
    IN  at

Reached(c) == {After(c)[k] : k \in 0 .. CACHE_CAPACITY + 1} \ {NULL}

Hit(c, q) == \E a \in Reached(c) : c.query[a] = q

\* The loop meets neither q nor the end of the list: it never returns.
Loops(c, q) == ~Hit(c, q) /\ After(c)[CACHE_CAPACITY + 1] # NULL

\* The entry the loop stops at: the first one that holds q.
Entry(c, q) ==
    LET turns == {k \in 0 .. CACHE_CAPACITY + 1 :
                    /\ After(c)[k] # NULL
                    /\ c.query[After(c)[k]] = q}
    IN  After(c)[CHOOSE k \in turns : \A j \in turns : k <= j]
-----------------------------------------------------------------------------
(* addToCache                                                              *)

\* Lines 41-47: take e out of the chain.
Unlink(c, e) ==
    [c EXCEPT
        !.next = IF c.prev[e] = NULL THEN c.next
                 ELSE [c.next EXCEPT ![c.prev[e]] = c.next[e]],
        !.prev = IF c.next[e] = NULL THEN c.prev
                 ELSE [c.prev EXCEPT ![c.next[e]] = c.prev[e]],
        !.tail = IF c.tail = e THEN c.prev[e] ELSE c.tail]

\* Lines 49-53 and 62-67: put e before what is then the head.
PutFirst(c, e) ==
    LET prevs == [c.prev EXCEPT ![e] = NULL]
    IN  [c EXCEPT
            !.next[e] = c.head,
            !.prev = IF c.head = NULL THEN prevs ELSE [prevs EXCEPT ![c.head] = e],
            !.head = e]

MoveToFront(c, e) == PutFirst(Unlink(c, e), e)

Allocate(c) == CHOOSE a \in Addresses \ c.live : TRUE

NewEntry(c, q) ==
    LET e == Allocate(c)
        d == PutFirst([c EXCEPT !.query[e] = q, !.live = @ \cup {e}], e)
    IN  [d EXCEPT !.tail = IF @ = NULL THEN e ELSE @, !.size = @ + 1]

\* Lines 77-87.
RemoveTail(c) ==
    LET e == c.tail
    IN  [c EXCEPT !.next = IF c.prev[e] = NULL THEN @ ELSE [@ EXCEPT ![c.prev[e]] = NULL],
                  !.tail = c.prev[e],
                  !.live = @ \ {e}, !.size = @ - 1]

AddFIFO(c, q) ==    \* AddToCache that leaves a query it has where it is
    IF Hit(c, q) THEN c
    ELSE LET d == NewEntry(c, q)
         IN  IF d.size > CACHE_CAPACITY THEN RemoveTail(d) ELSE d

\* Defined where ~Loops(c, q).
AddToCache(c, q) ==
    IF Hit(c, q) THEN MoveToFront(c, Entry(c, q))
    ELSE LET d == NewEntry(c, q)
         IN  IF d.size > CACHE_CAPACITY THEN RemoveTail(d) ELSE d
-----------------------------------------------------------------------------
(* What the list should be.                                                *)

\* The addresses from head on, as many as the list says it has.
Chain(c) == [i \in 1 .. c.size |-> After(c)[i - 1]]

\* The chain holds exactly the live entries, ends at tail, is linked the same
\* way in both directions and holds no query twice.
WellFormed(c) ==
    /\ c.size \in 0 .. CACHE_CAPACITY
    /\ \A i \in 1 .. c.size : Chain(c)[i] # NULL
    /\ After(c)[c.size] = NULL
    /\ {Chain(c)[i] : i \in 1 .. c.size} = c.live
    /\ c.tail = IF c.size = 0 THEN NULL ELSE Chain(c)[c.size]
    /\ \A i \in 1 .. c.size :
          c.prev[Chain(c)[i]] = IF i = 1 THEN NULL ELSE Chain(c)[i - 1]
    /\ \A a, b \in c.live : c.query[a] = c.query[b] => a = b

\* What adding the head once more leaves: an entry that follows itself.
HeadLoops(c) == c.head # NULL /\ c.next[c.head] = c.head

\* The cached queries, the most recently added one first.
Contents(c) == [i \in 1 .. c.size |-> c.query[Chain(c)[i]]]
=============================================================================
