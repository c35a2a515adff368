------------------------------ MODULE LRUList ------------------------------
(***************************************************************************)
(* What cache.c says addToCache does: keep at most Capacity queries, the   *)
(* one added last first; adding a query again moves it to the front, and   *)
(* the last one goes when there are too many.  No query is in s twice.     *)
(***************************************************************************)
EXTENDS Naturals, SequencesExt

CONSTANT Capacity

Added(s, q) ==
    LET t == <<q>> \o RemoveFirst(s, q)
    IN  IF Len(t) > Capacity THEN Front(t) ELSE t
=============================================================================
