\* Capacity 3 instead of 10, one query more than fits.
SPECIFICATION SharedSpec
CONSTANTS
    CACHE_CAPACITY = 3
    q1 = q1  q2 = q2  q3 = q3  q4 = q4
    Queries <- MCQueries
    NULL = NULL
INVARIANTS
    TypeOK
    OnlyHeadLoops
    NoFreedEntryReached
    SizeIsHonest
    AddsLikeLRU
    LookupsAgree
PROPERTY
    AddsAreAtomic
SYMMETRY CacheSymmetry
CHECK_DEADLOCK FALSE
