------------------------------ MODULE MCCache ------------------------------
(* Four queries for a cache of three: eviction, any place in the list.      *)
EXTENDS SharedCache, TLC

CONSTANTS q1, q2, q3, q4

MCQueries == {q1, q2, q3, q4}

\* Queries are only compared with each other.
CacheSymmetry == Permutations(MCQueries)
=============================================================================
