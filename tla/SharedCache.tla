---------------------------- MODULE SharedCache ----------------------------
(***************************************************************************)
(* The cache as SELECTs use it, under the read lock: findInCache of one    *)
(* worker runs beside addToCache of another.  addToCache is cut at every   *)
(* store that findInCache can see (head, a next pointer, a freed block),   *)
(* in the order of the source (the Makefile asks for no optimisation);     *)
(* what else it stores goes with one of these stores.                      *)
(*                                                                         *)
(* One addition at a time: two at once are a race Server calls "raced".    *)
(* One lookup at a time: it changes nothing.                               *)
(***************************************************************************)
EXTENDS Cache

VARIABLES
    heap,       \* the list in memory; cache is the list after the last addition
    step,       \* what addToCache does next, or "idle"
    key, entry, \* its arguments and locals: query, existing or newEntry
    looking,    \* findInCache: "no", "yes", or how it ended: "hit", "miss", "lost"
    query,      \* its argument
    current,    \* its local
    must, may   \* history: the entry has been in its place, or has been in the
                \* list at all, since the lookup began

adding  == <<step, key, entry>>
finding == <<looking, query, current, must, may>>

SharedInit ==
    /\ Init
    /\ heap = cache
    /\ step = "idle" /\ key = NULL /\ entry = NULL
    /\ looking = "no" /\ query = NULL /\ current = NULL /\ must = FALSE /\ may = FALSE
-----------------------------------------------------------------------------
(* addToCache                                                              *)

\* The lookup under way, if any, sees q put in and perhaps another query out.
Foresee(q) ==
    /\ must' = (must /\ q # query /\ Hit(AddToCache(heap, q), query))
    /\ may'  = (may \/ q = query)
    /\ UNCHANGED <<looking, query, current>>

BeginAdd(q) ==
    /\ state = "ready" /\ step = "idle"
    /\ ~Loops(heap, q)
    /\ key' = q
    /\ IF Hit(heap, q) THEN step' = "unlink" /\ entry' = Entry(heap, q)
                       ELSE step' = "allocate" /\ entry' = NULL
    /\ Foresee(q)
    /\ UNCHANGED <<cache, state, heap>>

HangAdd(q) ==
    /\ step = "idle"
    /\ Hang(q)
    /\ UNCHANGED <<heap, adding, finding>>

\* addToCache returns.
Return(list) ==
    /\ heap' = list /\ cache' = list
    /\ step' = "idle" /\ key' = NULL /\ entry' = NULL

\* Lines 41-42.
UnlinkNext ==
    /\ step = "unlink"
    /\ LET p == heap.prev[entry]
       IN  heap' = IF p = NULL THEN heap
                   ELSE [heap EXCEPT !.next[p] = heap.next[entry]]
    /\ step' = "relink"
    /\ UNCHANGED <<cache, state, key, entry, finding>>

CutFirst ==         \* Relink that clears both pointers of the entry
    /\ step = "relink"
    /\ heap' = LET n == heap.next[entry]
                   p == heap.prev[entry]
                   prevs == IF n = NULL THEN heap.prev ELSE [heap.prev EXCEPT ![n] = p]
               IN  [heap EXCEPT !.prev = [prevs EXCEPT ![entry] = NULL],
                                !.tail = IF @ = entry THEN p ELSE @,
                                !.next[entry] = NULL]
    /\ step' = "front"
    /\ UNCHANGED <<cache, state, key, entry, finding>>

RelinkForward ==    \* Relink without lines 43-47
    /\ step = "relink"
    /\ heap' = [heap EXCEPT !.prev[entry] = NULL, !.next[entry] = heap.head]
    /\ step' = "front"
    /\ UNCHANGED <<cache, state, key, entry, finding>>

\* Lines 43-50.
Relink ==
    /\ step = "relink"
    /\ heap' = LET n == heap.next[entry]
                   p == heap.prev[entry]
                   prevs == IF n = NULL THEN heap.prev ELSE [heap.prev EXCEPT ![n] = p]
               IN  [heap EXCEPT !.prev = [prevs EXCEPT ![entry] = NULL],
                                !.tail = IF @ = entry THEN p ELSE @,
                                !.next[entry] = heap.head]
    /\ step' = "front"
    /\ UNCHANGED <<cache, state, key, entry, finding>>

AsHead(e) ==
    [heap EXCEPT !.prev = IF heap.head = NULL THEN @ ELSE [@ EXCEPT ![heap.head] = e],
                 !.head = e]

\* Lines 51-55.
BecomeHead ==
    /\ step = "front"
    /\ Return(AsHead(entry))
    /\ UNCHANGED <<state, finding>>

\* Lines 59-63: nobody can reach the new entry yet.
AllocateEntry ==
    /\ step = "allocate"
    /\ entry' = Allocate(heap)
    /\ heap' = [heap EXCEPT !.live = @ \cup {entry'}, !.query[entry'] = key,
                            !.prev[entry'] = NULL, !.next[entry'] = heap.head]
    /\ step' = "insert"
    /\ UNCHANGED <<cache, state, key, finding>>

Counted(list) ==
    [list EXCEPT !.tail = IF @ = NULL THEN entry ELSE @, !.size = @ + 1]

\* Lines 65-75.
InsertHead ==
    /\ step = "insert"
    /\ LET list == Counted(AsHead(entry))
       IN  IF list.size <= CACHE_CAPACITY THEN Return(list)
           ELSE /\ heap' = list
                /\ step' = "evict" /\ entry' = list.tail
                /\ UNCHANGED <<cache, key>>
    /\ UNCHANGED <<state, finding>>

KeepLink ==         \* UnlinkTail without lines 79-80
    /\ step = "evict"
    /\ heap' = [heap EXCEPT !.tail = heap.prev[entry]]
    /\ step' = "free"
    /\ UNCHANGED <<cache, state, key, entry, finding>>

\* Lines 77-81.
UnlinkTail ==
    /\ step = "evict"
    /\ LET p == heap.prev[entry]
       IN  heap' = [heap EXCEPT !.next = IF p = NULL THEN @ ELSE [@ EXCEPT ![p] = NULL],
                                !.tail = p]
    /\ step' = "free"
    /\ UNCHANGED <<cache, state, key, entry, finding>>

KeepSize ==         \* FreeTail without line 87
    /\ step = "free"
    /\ Return([heap EXCEPT !.live = @ \ {entry}])
    /\ UNCHANGED <<state, finding>>

\* Lines 83-87.
FreeTail ==
    /\ step = "free"
    /\ Return([heap EXCEPT !.live = @ \ {entry}, !.size = @ - 1])
    /\ UNCHANGED <<state, finding>>
-----------------------------------------------------------------------------
(* findInCache                                                             *)

\* The list as it is and, during an addition, as it is about to be.
AfterAdd == IF step = "idle" THEN cache ELSE AddToCache(cache, key)

BeginFind(q) ==
    /\ looking # "yes"
    /\ looking' = "yes" /\ query' = q
    /\ current' = heap.head
    /\ must' = (Hit(cache, q) /\ Hit(AfterAdd, q) /\ q # key)
    /\ may'  = (Hit(cache, q) \/ q = key)
    /\ UNCHANGED <<vars, heap, adding>>

\* A block that has been freed may hold anything: the lookup is lost.
LookAt ==
    /\ looking = "yes" /\ current # NULL
    /\ IF current \notin heap.live THEN looking' = "lost" /\ UNCHANGED current
       ELSE IF heap.query[current] = query THEN looking' = "hit" /\ UNCHANGED current
       ELSE current' = heap.next[current] /\ UNCHANGED looking
    /\ UNCHANGED <<vars, heap, adding, query, must, may>>

Miss ==
    /\ looking = "yes" /\ current = NULL
    /\ looking' = "miss"
    /\ UNCHANGED <<vars, heap, adding, query, current, must, may>>
-----------------------------------------------------------------------------
AddStep ==
    \/ UnlinkNext \/ Relink \/ BecomeHead
    \/ AllocateEntry \/ InsertHead \/ UnlinkTail \/ FreeTail

SharedNext ==
    \/ \E q \in Queries : BeginAdd(q) \/ HangAdd(q) \/ BeginFind(q)
    \/ AddStep
    \/ LookAt \/ Miss

SharedSpec == SharedInit /\ [][SharedNext]_<<vars, heap, adding, finding>>
-----------------------------------------------------------------------------
\* Statement by statement, addToCache does what AddToCache says at once.
AddsAreAtomic == Spec

\* A lookup beside an addition misses only what was not in the list all along,
\* or was being moved; and what it finds was, or was being added.
LookupsAgree ==
    /\ looking = "miss" => ~must
    /\ looking = "hit" => may
=============================================================================
