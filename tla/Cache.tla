------------------------------- MODULE Cache -------------------------------
(***************************************************************************)
(* The cache with one user at a time: any sequence of addToCache and       *)
(* findInCache from createCache on.  A call that never returns ends the    *)
(* sequence with "state" = "looping".  (clearCache is called by nobody.)   *)
(***************************************************************************)
EXTENDS CacheList

VARIABLES
    cache,      \* the list
    state       \* "ready", or "looping" inside a call that does not return

vars == <<cache, state>>

TypeOK == cache \in Caches /\ state \in {"ready", "looping"}

Init == cache = CreateCache /\ state = "ready"

Add(q) ==
    /\ state = "ready"
    /\ ~Loops(cache, q)
    /\ cache' = AddToCache(cache, q)
    /\ UNCHANGED state

\* findInCache, which addToCache calls first, goes round and round.
Hang(q) ==
    /\ state = "ready"
    /\ Loops(cache, q)
    /\ state' = "looping"
    /\ UNCHANGED cache

Next == \E q \in Queries : Add(q) \/ Hang(q)

Spec == Init /\ [][Next]_vars
-----------------------------------------------------------------------------
\* The list is well formed, or the entry added last was at its head already
\* and now follows itself: nothing else addToCache does damages the list.
OnlyHeadLoops == WellFormed(cache) \/ HeadLoops(cache)

\* No chain, in either direction, leads to a block that was freed, not even
\* once the list is damaged: lookups loop, they do not read freed memory.
NoFreedEntryReached ==
    /\ Reached(cache) \subseteq cache.live
    /\ {cache.prev[a] : a \in Reached(cache)} \subseteq cache.live \cup {NULL}
    /\ cache.tail \in cache.live \cup {NULL}

\* The entries counted are the entries allocated: none leaks, none is freed
\* twice, and there are never more than CACHE_CAPACITY.
SizeIsHonest ==
    cache.size = Cardinality(cache.live) /\ cache.size <= CACHE_CAPACITY

LRU == INSTANCE LRUList WITH Capacity <- CACHE_CAPACITY

\* Short of the query that is at the head already, addToCache does to the list
\* what an LRU list of CACHE_CAPACITY places does, whatever is added to it.
AddsLikeLRU ==
    WellFormed(cache) =>
        \A q \in Queries :
            (cache.head = NULL \/ cache.query[cache.head] # q) =>
                Contents(AddToCache(cache, q)) = LRU!Added(Contents(cache), q)
=============================================================================
