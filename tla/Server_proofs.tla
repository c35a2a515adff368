--------------------------- MODULE Server_proofs ---------------------------
(***************************************************************************)
(* Proofs of the safety invariants of Server, for any number of workers,   *)
(* clients and commands, any set of commands clients send, and any length  *)
(* of the queue.                                                           *)
(***************************************************************************)
EXTENDS Server, CacheList_proofs

\* Where the workers are; who is in a display section is at a place that has one.
Places ==
    /\ pc \in [Workers -> Locations]
    /\ cmd \in [Workers -> AllCommands]
    /\ displaying \subseteq Workers
    /\ \A w \in displaying : pc[w] \in Displays

\* Command k leads to place l (the cases of handleClient's switch; case 1 takes in
\* the SELECTs that fall through).
Fits(l, k) ==
    /\ l = "lock" => k \notin {"unknown", "quit", "overlong"}
    /\ l \in Reading => k \in Selects
    /\ l \in {"message", "message2"} => k = "select_bare"
    /\ l \in {"insert", "check"} => k \in Inserts \cup Selects
    /\ l \in {"append", "appending", "inserted"} => k \in {"insert", "insert_short"}
    /\ l = "parse" => k \in {"update", "delete", "malformed"}
    /\ l \in {"reload", "rewrite", "rewriting"} => k \in {"update", "delete"}
    /\ l = "relock" => k = "update"
    /\ l \in {"create", "creating"} => k \in {"create", "create_untyped"}

\* And it is one that a client sent, unless the worker has executed none.
CommandFits ==
    \A w \in Workers : Fits(pc[w], cmd[w]) /\ cmd[w] \in Commands \cup {"unknown"}

Base == Places /\ CommandFits

\* Places where garbled is still FALSE, besides Writing.
Calm == {"idle", "eof", "lock", "find", "hit", "fall"}

\* While a worker is at one of these places strtok is in its string, and the
\* commands up to these places have not been disturbed.
Undisturbed(w) ==
    /\ pc[w] \in {"check", "reload", "rewrite", "creating"} => strtok = w
    /\ pc[w] \in Calm \cup Writing => ~garbled[w]

ParsingInv == \A w \in Workers : Undisturbed(w)

\* SQLParser.c's mutex is held between two of INSERT's steps and nowhere else.
MutexInv ==
    mutex # NoWorker => pc[mutex] \in {"check", "append", "appending", "inserted"}

Emptied == {"rewriting", "creating"}
Torn    == Emptied \cup {"appending"}

\* The table is torn only while a worker writes it, its rows are the ones the
\* completed writes made unless it has been emptied, and whoever has loaded it
\* to show or to change it has what they made.
DiskInv ==
    /\ file.whole <=> \A w \in Workers : pc[w] \notin Torn
    /\ (\A w \in Workers : pc[w] \notin Emptied) => file.rows = expected
    /\ \A w \in Workers :
          pc[w] \in {"count", "show", "rewrite", "rewriting"} =>
              copy[w] = [rows |-> expected, whole |-> TRUE]
-----------------------------------------------------------------------------
(* Places and commands.                                                    *)

\* ServerAssumption without the cached strings (SMT does not read one that ends in
\* a space, as "SELECT " does).
LEMMA Constants ==
    /\ IsFiniteSet(Workers) /\ NoWorker \notin Workers
    /\ NoClient \notin Clients
    /\ Leavers \subseteq Clients
    /\ QueuePlaces \in Nat
    /\ MaxCommands \in Nat
    /\ Commands \subseteq AllCommands
  BY Zenon, ServerAssumption

\* findInCache returns a result, returns none, or does not return.
LEMMA FoundOutcomes ==
    ASSUME NEW q, NEW found \in Found(q)
    PROVE  found \in {"hit", "miss", "loop"}
  BY DEF Found

\* A worker that goes on to a place its command leads to.
LEMMA Moved ==
    ASSUME Base, NEW w \in Workers, NEW l \in Locations,
           Go(w, l), UNCHANGED cmd, Fits(l, cmd[w]),
           displaying' \subseteq displaying, w \in displaying' => l \in Displays
    PROVE  Base'
  BY DEF Base, Places, CommandFits, Go

\* Workers are at places of the code, with a command that leads there.
LEMMA BaseInvariant == Spec => []Base
<1>1. Init => Base
  BY DEF Init, Base, Places, CommandFits, Fits, AllCommands,
     Locations, Reading, Missed, Writing, Displays
<1>2. Base /\ [Next]_vars => Base'
  <2> SUFFICES ASSUME Base, [Next]_vars
               PROVE  Base'
    OBVIOUS
  <2>0. /\ \A w \in Workers : pc[w] \in Locations /\ cmd[w] \in AllCommands /\ Fits(pc[w], cmd[w])
        /\ \A w \in displaying : w \in Workers /\ pc[w] \in Displays
    BY DEF Base, Places, CommandFits
  <2> USE DEF At, net, shown, Fits,
      Locations, Reading, Missed, Writing, Displays, Selects, Inserts, AllCommands
  <2>1. ASSUME NEW c \in Clients, Connect(c)
        PROVE  Base'
    BY <2>1 DEF Connect, Base, Places, CommandFits
  <2>2. ASSUME NEW c \in Clients, Disconnect(c)
        PROVE  Base'
    BY <2>2 DEF Disconnect, Base, Places, CommandFits
  <2>3. ASSUME NEW w \in Workers, NEW k \in Commands \ {"unknown", "quit", "overlong"}, Receive(w, k)
        PROVE  Base'
    <3>1. k \in AllCommands /\ Fits("lock", k)
      BY Constants
    <3>2. w \notin displaying
      BY <2>3, <2>0 DEF Receive
    <3> HIDE DEF Fits
    <3> QED
      BY <2>3, <3>1, <3>2 DEF Receive, Base, Places, CommandFits, Go
  <2>4. ASSUME NEW w \in Workers, StartClient(w)
        PROVE  Base'
    BY <2>4 DEF StartClient, Base, Places, CommandFits
  <2>5. ASSUME NEW w \in Workers, Quit(w)
        PROVE  Base'
    BY <2>5 DEF Quit, Base, Places, CommandFits
  <2>6. ASSUME NEW w \in Workers, Ignore(w)
        PROVE  Base'
    BY <2>6 DEF Ignore, Base, Places, CommandFits
  <2>7. ASSUME NEW w \in Workers, ReadEOF(w)
        PROVE  Base'
    BY <2>7, <2>0, Moved DEF ReadEOF
  <2>8. ASSUME NEW w \in Workers, BrokenPipe(w)
        PROVE  Base'
    BY <2>8 DEF BrokenPipe, Base, Places, CommandFits, Exit
  <2>9. ASSUME NEW w \in Workers, Lock(w)
        PROVE  Base'
    BY <2>9, <2>0, Moved DEF Lock, Body
  <2>10. ASSUME NEW w \in Workers, Find(w)
        PROVE  Base'
    <3>1. PICK found \in {"hit", "miss", "loop"} :
             Go(w, CASE found = "hit"  -> "hit"
                     [] found = "loop" -> "looping"
                     [] found = "miss" -> Branch(cmd[w]))
      BY <2>10, FoundOutcomes DEF Find
    <3>2. Branch(cmd[w]) \in {"title", "message", "load"}
      BY DEF Branch
    <3>3. Branch(cmd[w]) = "message" => cmd[w] = "select_bare"
      BY DEF Branch
    <3>4. \E l \in {"hit", "looping", "title", "message", "load"} :
             Go(w, l) /\ (l = "message" => cmd[w] = "select_bare")
      BY <3>1, <3>2, <3>3
    <3> QED
      BY <2>10, <2>0, <3>4, Moved DEF Find
  <2>11. ASSUME NEW w \in Workers, EnterDisplay(w)
        PROVE  Base'
    BY <2>11, <2>0 DEF EnterDisplay, Base, Places, CommandFits
  <2>12. ASSUME NEW w \in Workers, LeaveDisplay(w)
        PROVE  Base'
    BY <2>12, <2>0, Moved DEF LeaveDisplay
  <2>13. ASSUME NEW w \in Workers, UnlockDisplay(w)
        PROVE  Base'
    BY <2>13, <2>0, Moved DEF UnlockDisplay
  <2>14. ASSUME NEW w \in Workers, Load(w)
        PROVE  Base'
    BY <2>14, <2>0, Moved DEF Load
  <2>15. ASSUME NEW w \in Workers, LoadMissing(w)
        PROVE  Base'
    BY <2>15 DEF LoadMissing, Base, Places, CommandFits, Exit
  <2>16. ASSUME NEW w \in Workers, Count(w)
        PROVE  Base'
    BY <2>16, <2>0, Moved DEF Count
  <2>17. ASSUME NEW w \in Workers, CountCrashes(w)
        PROVE  Base'
    BY <2>17 DEF CountCrashes, Base, Places, CommandFits, Exit
  <2>18. ASSUME NEW w \in Workers, BeginAdd(w)
        PROVE  Base'
    BY <2>18, <2>0, Moved DEF BeginAdd
  <2>19. ASSUME NEW w \in Workers, EndAdd(w)
        PROVE  Base'
    <3>1. Go(w, "unlock_read") \/ Go(w, "looping")
      BY <2>19 DEF EndAdd
    <3> QED
      BY <2>19, <2>0, <3>1, Moved DEF EndAdd
  <2>20. ASSUME NEW w \in Workers, UnlockRead(w)
        PROVE  Base'
    BY <2>20, <2>0, Moved DEF UnlockRead
  <2>21. ASSUME NEW w \in Workers, FallThrough(w)
        PROVE  Base'
    BY <2>21, <2>0, Moved DEF FallThrough
  <2>22. ASSUME NEW w \in Workers, Insert(w)
        PROVE  Base'
    BY <2>22, <2>0, Moved DEF Insert
  <2>23. ASSUME NEW w \in Workers, CheckValues(w)
        PROVE  Base'
    BY <2>23, <2>0, Moved DEF CheckValues
  <2>24. ASSUME NEW w \in Workers, CheckExits(w)
        PROVE  Base'
    BY <2>24 DEF CheckExits, Base, Places, CommandFits, Exit
  <2>25. ASSUME NEW w \in Workers, BeginAppend(w)
        PROVE  Base'
    BY <2>25, <2>0, Moved DEF BeginAppend
  <2>26. ASSUME NEW w \in Workers, EndAppend(w)
        PROVE  Base'
    BY <2>26, <2>0, Moved DEF EndAppend
  <2>27. ASSUME NEW w \in Workers, EndInsert(w)
        PROVE  Base'
    BY <2>27, <2>0, Moved DEF EndInsert
  <2>28. ASSUME NEW w \in Workers, Parse(w)
        PROVE  Base'
    BY <2>28, <2>0, Moved DEF Parse
  <2>29. ASSUME NEW w \in Workers, ParseExits(w)
        PROVE  Base'
    BY <2>29 DEF ParseExits, Base, Places, CommandFits, Exit
  <2>30. ASSUME NEW w \in Workers, Reload(w)
        PROVE  Base'
    BY <2>30, <2>0, Moved DEF Reload
  <2>31. ASSUME NEW w \in Workers, BeginRewrite(w)
        PROVE  Base'
    BY <2>31, <2>0, Moved DEF BeginRewrite
  <2>32. ASSUME NEW w \in Workers, EndRewrite(w)
        PROVE  Base'
    BY <2>32, <2>0, Moved DEF EndRewrite
  <2>33. ASSUME NEW w \in Workers, BeginCreate(w)
        PROVE  Base'
    BY <2>33, <2>0, Moved DEF BeginCreate
  <2>34. ASSUME NEW w \in Workers, EndCreate(w)
        PROVE  Base'
    BY <2>34, <2>0, Moved DEF EndCreate
  <2>35. ASSUME NEW w \in Workers, CreateCrashes(w)
        PROVE  Base'
    BY <2>35 DEF CreateCrashes, Base, Places, CommandFits, Exit
  <2>36. ASSUME NEW w \in Workers, UnlockWrite(w)
        PROVE  Base'
    BY <2>36, <2>0, Moved DEF UnlockWrite
  <2>37. ASSUME NEW w \in Workers, Relock(w)
        PROVE  Base'
    BY <2>37, <2>0, Moved DEF Relock
  <2>39. ASSUME NEW w \in Workers, UnsetCrashes(w)
        PROVE  Base'
    BY <2>39 DEF UnsetCrashes, Base, Places, CommandFits, Exit
  <2>40. ASSUME Overrun
        PROVE  Base'
    BY <2>40 DEF Overrun, Base, Places, CommandFits
  <2>38. CASE UNCHANGED vars
    BY <2>38 DEF vars, Base, Places, CommandFits
  <2> QED
    BY <2>1, <2>2, <2>3, <2>4, <2>5, <2>6, <2>7, <2>8, <2>9, <2>10, <2>11, <2>12,
       <2>13, <2>14, <2>15, <2>16, <2>17, <2>18, <2>19, <2>20, <2>21, <2>22, <2>23,
       <2>24, <2>25, <2>26, <2>27, <2>28, <2>29, <2>30, <2>31, <2>32, <2>33, <2>34,
       <2>35, <2>36, <2>37, <2>38, <2>39, <2>40
    DEF Next, Worker, SelectStep, WriteStep
<1> QED
  BY <1>1, <1>2, PTL DEF Spec
-----------------------------------------------------------------------------
(* rwlock.                                                                 *)

\* What a worker does between two calls of rwlock's functions.
Within(w) ==
    /\ UNCHANGED rw
    /\ \A v \in Workers \ {w} : cmd'[v] = cmd[v]
    /\ \E l \in Locations :
          /\ Go(w, l)
          /\ l \in Reading <=> pc[w] \in Reading
          /\ l \in Writing <=> pc[w] \in Writing
          /\ l # "idle" /\ (l = "eof" => pc[w] = "idle")
          /\ l = "lock" \/ cmd'[w] = cmd[w]

\* The places where server.c calls rwlock's functions.
LockCall(w) == Lock(w) \/ UnlockRead(w) \/ UnlockWrite(w) \/ Relock(w) \/ FallThrough(w)

\* The lock changes hands only where it is called, and so do the sets of places.
LEMMA LockSteps ==
    ASSUME Base, [Next]_vars
    PROVE  \/ UNCHANGED <<pc, cmd, rw>>
           \/ \E w \in Workers : Within(w) \/ LockCall(w)
  <1> DEFINE Goal == \/ UNCHANGED <<pc, cmd, rw>>
                     \/ \E w \in Workers : Within(w) \/ LockCall(w)
  <1>0. /\ \A w \in Workers : pc[w] \in Locations /\ cmd[w] \in AllCommands
        /\ \A w \in displaying : w \in Workers /\ pc[w] \in Displays
    BY DEF Base, Places
  <1> USE DEF At, rw
  <1>1. ASSUME NEW c \in Clients, Connect(c)
        PROVE  Goal
    BY <1>1 DEF Connect
  <1>2. ASSUME NEW c \in Clients, Disconnect(c)
        PROVE  Goal
    BY <1>2 DEF Disconnect
  <1>3. ASSUME NEW w \in Workers, NEW k \in Commands \ {"unknown", "quit", "overlong"}, Receive(w, k)
        PROVE  Goal
    BY <1>3, <1>0 DEF Receive, Within, Locations, Reading, Missed, Writing
  <1>4. ASSUME NEW w \in Workers, StartClient(w)
        PROVE  Goal
    BY <1>4 DEF StartClient
  <1>5. ASSUME NEW w \in Workers, Quit(w)
        PROVE  Goal
    BY <1>5 DEF Quit
  <1>6. ASSUME NEW w \in Workers, Ignore(w)
        PROVE  Goal
    BY <1>6 DEF Ignore
  <1>7. ASSUME NEW w \in Workers, ReadEOF(w)
        PROVE  Goal
    BY <1>7, <1>0 DEF ReadEOF, Within, Locations, Reading, Missed, Writing
  <1>8. ASSUME NEW w \in Workers, BrokenPipe(w)
        PROVE  Goal
    BY <1>8 DEF BrokenPipe, Exit
  <1>9. ASSUME NEW w \in Workers, Lock(w)
        PROVE  Goal
    BY <1>9 DEF LockCall
  <1>10. ASSUME NEW w \in Workers, Find(w)
        PROVE  Goal
    <2>1. PICK found \in {"hit", "miss", "loop"} :
             Go(w, CASE found = "hit"  -> "hit"
                     [] found = "loop" -> "looping"
                     [] found = "miss" -> Branch(cmd[w]))
      BY <1>10, FoundOutcomes DEF Find
    <2>2. Branch(cmd[w]) \in {"title", "message", "load"}
      BY DEF Branch
    <2>3. \E l \in {"hit", "looping", "title", "message", "load"} : Go(w, l)
      BY <2>1, <2>2
    <2> QED
      BY <1>10, <2>3 DEF Find, Within, Locations, Reading, Missed, Writing
  <1>11. ASSUME NEW w \in Workers, EnterDisplay(w)
        PROVE  Goal
    BY <1>11 DEF EnterDisplay
  <1>12. ASSUME NEW w \in Workers, LeaveDisplay(w)
        PROVE  Goal
    BY <1>12, <1>0 DEF LeaveDisplay, Within, Locations, Reading, Missed, Writing, Displays
  <1>13. ASSUME NEW w \in Workers, UnlockDisplay(w)
        PROVE  Goal
    BY <1>13, <1>0 DEF UnlockDisplay, Within, Locations, Reading, Missed, Writing
  <1>14. ASSUME NEW w \in Workers, Load(w)
        PROVE  Goal
    BY <1>14, <1>0 DEF Load, Within, Locations, Reading, Missed, Writing
  <1>15. ASSUME NEW w \in Workers, LoadMissing(w)
        PROVE  Goal
    BY <1>15 DEF LoadMissing, Exit
  <1>16. ASSUME NEW w \in Workers, Count(w)
        PROVE  Goal
    BY <1>16, <1>0 DEF Count, Within, Locations, Reading, Missed, Writing
  <1>17. ASSUME NEW w \in Workers, CountCrashes(w)
        PROVE  Goal
    BY <1>17 DEF CountCrashes, Exit
  <1>18. ASSUME NEW w \in Workers, BeginAdd(w)
        PROVE  Goal
    BY <1>18, <1>0 DEF BeginAdd, Within, Locations, Reading, Missed, Writing
  <1>19. ASSUME NEW w \in Workers, EndAdd(w)
        PROVE  Goal
    <2>1. Go(w, "unlock_read") \/ Go(w, "looping")
      BY <1>19 DEF EndAdd
    <2> QED
      BY <1>19, <2>1 DEF EndAdd, Within, Locations, Reading, Missed, Writing
  <1>20. ASSUME NEW w \in Workers, UnlockRead(w)
        PROVE  Goal
    BY <1>20 DEF LockCall
  <1>21. ASSUME NEW w \in Workers, FallThrough(w)
        PROVE  Goal
    BY <1>21 DEF LockCall
  <1>22. ASSUME NEW w \in Workers, Insert(w)
        PROVE  Goal
    BY <1>22, <1>0 DEF Insert, Within, Locations, Reading, Missed, Writing
  <1>23. ASSUME NEW w \in Workers, CheckValues(w)
        PROVE  Goal
    BY <1>23, <1>0 DEF CheckValues, Within, Locations, Reading, Missed, Writing
  <1>24. ASSUME NEW w \in Workers, CheckExits(w)
        PROVE  Goal
    BY <1>24 DEF CheckExits, Exit
  <1>25. ASSUME NEW w \in Workers, BeginAppend(w)
        PROVE  Goal
    BY <1>25, <1>0 DEF BeginAppend, Within, Locations, Reading, Missed, Writing
  <1>26. ASSUME NEW w \in Workers, EndAppend(w)
        PROVE  Goal
    BY <1>26, <1>0 DEF EndAppend, Within, Locations, Reading, Missed, Writing
  <1>27. ASSUME NEW w \in Workers, EndInsert(w)
        PROVE  Goal
    BY <1>27, <1>0 DEF EndInsert, Within, Locations, Reading, Missed, Writing
  <1>28. ASSUME NEW w \in Workers, Parse(w)
        PROVE  Goal
    BY <1>28, <1>0 DEF Parse, Within, Locations, Reading, Missed, Writing
  <1>29. ASSUME NEW w \in Workers, ParseExits(w)
        PROVE  Goal
    BY <1>29 DEF ParseExits, Exit
  <1>30. ASSUME NEW w \in Workers, Reload(w)
        PROVE  Goal
    BY <1>30, <1>0 DEF Reload, Within, Locations, Reading, Missed, Writing
  <1>31. ASSUME NEW w \in Workers, BeginRewrite(w)
        PROVE  Goal
    BY <1>31, <1>0 DEF BeginRewrite, Within, Locations, Reading, Missed, Writing
  <1>32. ASSUME NEW w \in Workers, EndRewrite(w)
        PROVE  Goal
    BY <1>32, <1>0 DEF EndRewrite, Within, Locations, Reading, Missed, Writing
  <1>33. ASSUME NEW w \in Workers, BeginCreate(w)
        PROVE  Goal
    BY <1>33, <1>0 DEF BeginCreate, Within, Locations, Reading, Missed, Writing
  <1>34. ASSUME NEW w \in Workers, EndCreate(w)
        PROVE  Goal
    BY <1>34, <1>0 DEF EndCreate, Within, Locations, Reading, Missed, Writing
  <1>35. ASSUME NEW w \in Workers, CreateCrashes(w)
        PROVE  Goal
    BY <1>35 DEF CreateCrashes, Exit
  <1>36. ASSUME NEW w \in Workers, UnlockWrite(w)
        PROVE  Goal
    BY <1>36 DEF LockCall
  <1>37. ASSUME NEW w \in Workers, Relock(w)
        PROVE  Goal
    BY <1>37 DEF LockCall
  <1>39. ASSUME NEW w \in Workers, UnsetCrashes(w)
        PROVE  Goal
    BY <1>39 DEF UnsetCrashes, Exit
  <1>40. ASSUME Overrun
        PROVE  Goal
    BY <1>40 DEF Overrun
  <1>38. CASE UNCHANGED vars
    BY <1>38 DEF vars
  <1> QED
    BY <1>1, <1>2, <1>3, <1>4, <1>5, <1>6, <1>7, <1>8, <1>9, <1>10, <1>11, <1>12,
       <1>13, <1>14, <1>15, <1>16, <1>17, <1>18, <1>19, <1>20, <1>21, <1>22, <1>23,
       <1>24, <1>25, <1>26, <1>27, <1>28, <1>29, <1>30, <1>31, <1>32, <1>33, <1>34,
       <1>35, <1>36, <1>37, <1>38, <1>39, <1>40
    DEF Next, Worker, SelectStep, WriteStep

Holders == {w \in Workers : HoldsRead(w)}

LockInv == RW!TypeOK /\ LockAccounting

\* Every reader and every writer is accounted for.
LEMMA LockInvariant == Spec => []LockInv
<1>1. Init => LockInv
  <2> SUFFICES ASSUME Init PROVE LockInv
    OBVIOUS
  <2>1. Holders = {}
    BY DEF Init, Holders, HoldsRead, Reading, Missed
  <2>2. \A w \in Workers : pc[w] \notin Writing
    BY DEF Init, Writing
  <2> QED
    BY <2>1, <2>2, FS_EmptySet DEF Init, RW!Init, RW!TypeOK, LockInv, LockAccounting, Holders
<1>2. LockInv /\ Base /\ [Next]_vars => LockInv'
  <2> SUFFICES ASSUME LockInv, Base, [Next]_vars
               PROVE  LockInv'
    OBVIOUS
  <2>1. CASE UNCHANGED <<pc, cmd, rw>>
    BY <2>1 DEF rw, LockInv, RW!TypeOK, LockAccounting, HoldsRead
  <2>2. ASSUME NEW w \in Workers, Within(w)
        PROVE  LockInv'
    <3>1. PICK l \in Locations :
             /\ Go(w, l)
             /\ l \in Reading <=> pc[w] \in Reading
             /\ l \in Writing <=> pc[w] \in Writing
      BY <2>2 DEF Within
    <3>2. \A v \in Workers : /\ pc'[v] \in Reading <=> pc[v] \in Reading
                             /\ pc'[v] \in Writing <=> pc[v] \in Writing
      BY <3>1 DEF Base, Places, Go
    <3> QED
      BY <2>2, <3>2 DEF Within, rw, LockInv, RW!TypeOK, LockAccounting, HoldsRead
  <2>3. ASSUME NEW w \in Workers, LockCall(w)
        PROVE  LockInv'
    <3> DEFINE OnlyW(l) == /\ pc'[w] = l
                           /\ \A v \in Workers \ {w} : pc'[v] = pc[v]
    <3>0. /\ readers \in Nat /\ writer \in Workers \cup {NoWorker}
          /\ readers = Cardinality(Holders)
          /\ \A v \in Workers : pc[v] \in Writing => writer = v
          /\ writer # NoWorker => readers = 0
          /\ IsFiniteSet(Holders)
      BY Constants, FS_Subset DEF LockInv, RW!TypeOK, LockAccounting, Holders
    <3>1. Holders = {} <=> readers = 0
      BY <3>0, FS_EmptySet
    <3>2. NoWorker \notin Workers
      BY Constants
    <3>3. \A l : Go(w, l) => OnlyW(l)
      BY DEF Base, Places, Go
    <3> DEFINE Kept == /\ readers' \in Nat /\ writer' \in Workers \cup {NoWorker}
                       /\ readers' = Cardinality(Holders')
                       /\ \A v \in Workers : pc'[v] \in Writing => writer' = v
                       /\ writer' # NoWorker => readers' = 0
    <3>4. ASSUME pc[w] \notin Reading \cup Writing, OnlyW("find"), RW!RdLock(w)
          PROVE  Kept
      <4>1. CASE writer = NoWorker /\ readers' = readers + 1 /\ UNCHANGED writer
        <5>1. Holders' = Holders \cup {w} /\ w \notin Holders
          BY <3>2, <3>4, <4>1 DEF Holders, HoldsRead, Reading
        <5>2. Cardinality(Holders') = Cardinality(Holders) + 1
          BY <3>0, <5>1, FS_AddElement
        <5> QED
          BY <3>0, <3>4, <4>1, <5>2 DEF Writing
      <4>2. CASE writer = w /\ UNCHANGED <<writer, readers>>
        <5>1. Holders' = Holders
          BY <3>4, <4>2 DEF Holders, HoldsRead
        <5> QED
          BY <3>0, <3>4, <4>2, <5>1 DEF Writing
      <4> QED
        BY <3>4, <4>1, <4>2 DEF RW!RdLock
    <3>5. ASSUME NEW l \in Writing, OnlyW(l), RW!WrLock(w)
          PROVE  Kept
      <4>0. l \notin Reading
        BY DEF Reading, Missed, Writing
      <4>1. CASE writer = NoWorker /\ readers = 0 /\ writer' = w /\ UNCHANGED readers
        <5>1. \A v \in Workers : pc[v] \notin Reading \cup Writing
          BY <3>0, <3>1, <3>2, <4>1 DEF Holders, HoldsRead
        <5>2. Holders' = {}
          BY <3>5, <4>0, <5>1 DEF Holders, HoldsRead
        <5> QED
          BY <3>0, <3>1, <3>5, <4>1, <5>1, <5>2
      <4>2. CASE writer = w /\ UNCHANGED <<writer, readers>>
        <5>1. Holders' = Holders
          BY <3>5, <4>2 DEF Holders, HoldsRead
        <5> QED
          BY <3>0, <3>5, <4>2, <5>1
      <4> QED
        BY <3>5, <4>1, <4>2 DEF RW!WrLock
    <3>6. ASSUME pc[w] \in Reading \cup Writing, OnlyW("idle"), RW!Unlock(w)
          PROVE  Kept
      <4>0. "idle" \notin Reading \cup Writing
        BY DEF Reading, Missed, Writing
      <4>1. CASE writer = w
        <5>1. Holders = {} /\ writer' = NoWorker /\ UNCHANGED readers
          BY <3>0, <3>1, <3>2, <3>6, <4>1 DEF RW!Unlock
        <5>2. \A v \in Workers : v # w => pc'[v] \notin Reading \cup Writing
          BY <3>0, <3>6, <4>1, <5>1 DEF Holders, HoldsRead
        <5>3. Holders' = {}
          BY <3>6, <4>0, <5>2 DEF Holders, HoldsRead
        <5> QED
          BY <3>0, <3>1, <3>6, <4>0, <5>1, <5>2, <5>3
      <4>2. CASE writer # w
        <5>1. UNCHANGED writer /\ readers' = readers - 1
          BY <3>6, <4>2 DEF RW!Unlock
        <5>2. w \in Holders /\ Holders' = Holders \ {w}
          BY <3>0, <3>6, <4>0, <4>2, <5>1 DEF Holders, HoldsRead
        <5>3. Cardinality(Holders') = Cardinality(Holders) - 1 /\ Cardinality(Holders') \in Nat
          BY <3>0, <5>2, FS_RemoveElement, FS_CardinalityType
        <5>4. writer = NoWorker
          BY <3>0, <3>1, <5>2
        <5> QED
          BY <3>0, <3>6, <4>0, <5>1, <5>3, <5>4
      <4> QED
        BY <4>1, <4>2
    <3>7. ASSUME pc[w] = "relock", OnlyW("idle"), RW!WrLock(w)
          PROVE  Kept
      <4>1. writer = w /\ UNCHANGED <<writer, readers>>
        BY <3>0, <3>2, <3>7 DEF RW!WrLock, Writing
      <4>2. Holders' = Holders
        BY <3>7, <4>1 DEF Holders, HoldsRead
      <4> QED
        BY <3>0, <3>7, <4>1, <4>2 DEF Writing
    <3>8. Kept
      <4>1. CASE Lock(w)
        <5>1. pc[w] = "lock" /\ OnlyW(Body(cmd[w])) /\ TakeLock(w)
          BY <3>3, <4>1 DEF Lock, At
        <5>2. CASE cmd[w] \in Selects
          <6>1. Body(cmd[w]) = "find" /\ pc[w] \notin Reading \cup Writing
            BY <5>1, <5>2 DEF Body, Selects, Inserts, Reading, Missed, Writing
          <6> QED
            BY <3>4, <5>1, <5>2, <6>1 DEF TakeLock
        <5>3. CASE cmd[w] \notin Selects
          <6>1. Body(cmd[w]) \in Writing
            BY <5>3 DEF Body, Writing
          <6> QED
            BY <3>5, <5>1, <5>3, <6>1 DEF TakeLock
        <5> QED
          BY <5>2, <5>3
      <4>2. CASE UnlockRead(w)
        BY <3>3, <3>6, <4>2 DEF UnlockRead, At, Reading
      <4>3. CASE UnlockWrite(w)
        BY <3>3, <3>6, <4>3 DEF UnlockWrite, At, Writing
      <4>4. CASE Relock(w)
        BY <3>3, <3>7, <4>4 DEF Relock, At
      <4>5. CASE FallThrough(w)
        BY <3>3, <3>5, <4>5 DEF FallThrough, Writing
      <4> QED
        BY <2>3, <4>1, <4>2, <4>3, <4>4, <4>5 DEF LockCall
    <3> QED
      BY <3>8 DEF LockInv, RW!TypeOK, LockAccounting, Holders
  <2> QED
    BY <2>1, <2>2, <2>3, LockSteps
<1> QED
  BY <1>1, <1>2, BaseInvariant, PTL DEF Spec

\* The lock stays with a worker that waits only after an UPDATE.
LEMMA IdleInvariant == Spec => []IdleOwnsOnlyAfterUpdate
<1>1. Init => IdleOwnsOnlyAfterUpdate
  BY Constants DEF Init, RW!Init, IdleOwnsOnlyAfterUpdate
<1>2. IdleOwnsOnlyAfterUpdate /\ LockInv /\ Base /\ [Next]_vars => IdleOwnsOnlyAfterUpdate'
  <2> SUFFICES ASSUME IdleOwnsOnlyAfterUpdate, LockInv, Base, [Next]_vars,
                      NEW v \in Workers, writer' = v, pc'[v] \in {"idle", "eof"}
               PROVE  cmd'[v] = "update"
    BY DEF IdleOwnsOnlyAfterUpdate
  <2>1. CASE UNCHANGED <<pc, cmd, rw>>
    BY <2>1 DEF rw, IdleOwnsOnlyAfterUpdate
  <2>2. ASSUME NEW w \in Workers, Within(w)
        PROVE  cmd'[v] = "update"
    BY <2>2 DEF Within, rw, IdleOwnsOnlyAfterUpdate, Base, Places, Go
  <2>3. ASSUME NEW w \in Workers, LockCall(w)
        PROVE  cmd'[v] = "update"
    <3> USE Constants DEF Base, Places, Go, At
    <3>1. CASE Lock(w)
      <4>1. (writer' = writer \/ writer' = w) /\ pc'[w] = Body(cmd[w]) /\ UNCHANGED cmd
        BY <3>1 DEF Lock, TakeLock, RW!RdLock, RW!WrLock
      <4>2. Body(cmd[w]) \in {"find", "insert", "create", "parse"}
        BY DEF Body
      <4> QED
        BY <3>1, <4>1, <4>2 DEF Lock, IdleOwnsOnlyAfterUpdate
    <3>2. CASE UnlockRead(w) \/ UnlockWrite(w)
      BY <3>2 DEF UnlockRead, UnlockWrite, RW!Unlock, IdleOwnsOnlyAfterUpdate
    <3>3. CASE Relock(w)
      BY <3>3 DEF Relock, RW!WrLock, CommandFits, Fits, IdleOwnsOnlyAfterUpdate
    <3>4. CASE FallThrough(w)
      BY <3>4 DEF FallThrough, RW!WrLock, IdleOwnsOnlyAfterUpdate
    <3> QED
      BY <2>3, <3>1, <3>2, <3>3, <3>4 DEF LockCall
  <2> QED
    BY <2>1, <2>2, <2>3, LockSteps
<1> QED
  BY <1>1, <1>2, LockInvariant, BaseInvariant, PTL DEF Spec
-----------------------------------------------------------------------------
(* Types, except that of the cache.                                        *)

PoolTypes ==
    /\ queue \in Seq(Clients) /\ Len(queue) <= QueuePlaces
    /\ job \in [Workers -> Clients \cup {NoClient}]
    /\ fate \in [Clients -> Pool!Fates]
    /\ gone \subseteq Clients
    /\ budget \in 0 .. MaxCommands

SharedTypes ==
    /\ display \in BOOLEAN
    /\ mutex \in Workers \cup {NoWorker}
    /\ raced \in BOOLEAN
    /\ strtok \in Workers \cup {NoWorker}
    /\ alive \in BOOLEAN /\ overrun \in BOOLEAN

TableTypes ==
    /\ file \in Tables /\ copy \in [Workers -> Tables]
    /\ garbled \in [Workers -> BOOLEAN]
    /\ short \subseteq Clients
    /\ expected \subseteq Clients

\* Only a worker that waits for a command may be without a client.
Employed == \A w \in Workers : pc[w] # "idle" => job[w] # NoClient

Types == PoolTypes /\ SharedTypes /\ TableTypes /\ Employed

LEMMA TypesInvariant == Spec => []Types
<1>1. Init => Types
  <2> SUFFICES ASSUME Init PROVE Types
    OBVIOUS
  <2> USE Constants DEF Init, Pool!Init
  <2>1. PoolTypes
    BY DEF PoolTypes, Pool!Fates
  <2>2. SharedTypes
    BY DEF SharedTypes
  <2>3. TableTypes
    BY DEF TableTypes, Tables, Nothing
  <2>4. Employed
    BY DEF Employed
  <2> QED
    BY <2>1, <2>2, <2>3, <2>4 DEF Types
<1>2. Types /\ Base /\ [Next]_vars => Types'
  <2> SUFFICES ASSUME Types, Base, [Next]_vars
               PROVE  Types'
    OBVIOUS
  <2> USE Constants DEF Types, Base, Places, At, Go, Forget, Exit, Tables, net, pool, rw, shown,
      parsing, cached, disk, PoolTypes, SharedTypes, TableTypes, Employed
  <2>1. ASSUME NEW c \in Clients, Connect(c)
        PROVE  Types'
    <3>1. CASE Pool!Accept(c)
      <4>1. queue' \in Seq(Clients) /\ Len(queue') <= QueuePlaces
        BY <3>1 DEF Pool!Accept
      <4>2. fate' \in [Clients -> Pool!Fates]
        BY <3>1 DEF Pool!Accept, Pool!Fates
      <4> QED
        BY <2>1, <3>1, <4>1, <4>2 DEF Connect, Pool!Accept
    <3>2. CASE Pool!Reject(c)
      BY <2>1, <3>2 DEF Connect, Pool!Reject, Pool!Fates
    <3> QED
      BY <2>1, <3>1, <3>2 DEF Connect
  <2>2. ASSUME NEW c \in Clients, Disconnect(c)
        PROVE  Types'
    BY <2>2 DEF Disconnect
  <2>3. ASSUME NEW w \in Workers, NEW k \in Commands \ {"unknown", "quit", "overlong"}, Receive(w, k)
        PROVE  Types'
    <3>1. PoolTypes'
      BY <2>3 DEF Receive
    <3>2. SharedTypes' /\ TableTypes'
      BY <2>3 DEF Receive
    <3>3. Employed'
      BY <2>3 DEF Receive
    <3> QED
      BY <3>1, <3>2, <3>3
  <2>4. ASSUME NEW w \in Workers, StartClient(w)
        PROVE  Types'
    <3>1. PoolTypes'
      BY <2>4 DEF StartClient, Pool!Take, Pool!Fates
    <3>2. SharedTypes' /\ TableTypes'
      BY <2>4 DEF StartClient, Pool!Take, Pool!Fates
    <3>3. Employed'
      BY <2>4 DEF StartClient, Pool!Take, Pool!Fates
    <3> QED
      BY <3>1, <3>2, <3>3
  <2>5. ASSUME NEW w \in Workers, Quit(w)
        PROVE  Types'
    <3>1. PoolTypes'
      BY <2>5 DEF Quit, Pool!Finish, Pool!Fates
    <3>2. SharedTypes' /\ TableTypes'
      BY <2>5 DEF Quit, Pool!Finish, Pool!Fates
    <3>3. Employed'
      BY <2>5 DEF Quit, Pool!Finish, Pool!Fates
    <3> QED
      BY <3>1, <3>2, <3>3
  <2>6. ASSUME NEW w \in Workers, Ignore(w)
        PROVE  Types'
    <3>1. PoolTypes'
      BY <2>6 DEF Ignore
    <3>2. SharedTypes' /\ TableTypes'
      BY <2>6 DEF Ignore
    <3>3. Employed'
      BY <2>6 DEF Ignore
    <3> QED
      BY <3>1, <3>2, <3>3
  <2>7. ASSUME NEW w \in Workers, ReadEOF(w)
        PROVE  Types'
    BY <2>7 DEF ReadEOF
  <2>8. ASSUME NEW w \in Workers, BrokenPipe(w)
        PROVE  Types'
    BY <2>8 DEF BrokenPipe
  <2>9. ASSUME NEW w \in Workers, Lock(w)
        PROVE  Types'
    BY <2>9 DEF Lock
  <2>10. ASSUME NEW w \in Workers, Find(w)
        PROVE  Types'
    BY <2>10 DEF Find
  <2>11. ASSUME NEW w \in Workers, EnterDisplay(w)
        PROVE  Types'
    BY <2>11 DEF EnterDisplay
  <2>12. ASSUME NEW w \in Workers, LeaveDisplay(w)
        PROVE  Types'
    <3>1. PoolTypes' /\ SharedTypes' /\ TableTypes'
      BY <2>12 DEF LeaveDisplay
    <3>2. pc[w] # "idle" /\ \A v \in Workers : pc'[v] = pc[v] \/ v = w
      BY <2>12 DEF LeaveDisplay, Displays
    <3>3. Employed'
      BY <2>12, <3>2 DEF LeaveDisplay
    <3> QED
      BY <3>1, <3>3
  <2>13. ASSUME NEW w \in Workers, UnlockDisplay(w)
        PROVE  Types'
    BY <2>13 DEF UnlockDisplay
  <2>14. ASSUME NEW w \in Workers, Load(w)
        PROVE  Types'
    BY <2>14 DEF Load, Disturbed, Changed
  <2>15. ASSUME NEW w \in Workers, LoadMissing(w)
        PROVE  Types'
    BY <2>15 DEF LoadMissing
  <2>16. ASSUME NEW w \in Workers, Count(w)
        PROVE  Types'
    BY <2>16 DEF Count, Disturbed, Changed
  <2>17. ASSUME NEW w \in Workers, CountCrashes(w)
        PROVE  Types'
    BY <2>17 DEF CountCrashes
  <2>18. ASSUME NEW w \in Workers, BeginAdd(w)
        PROVE  Types'
    BY <2>18 DEF BeginAdd
  <2>19. ASSUME NEW w \in Workers, EndAdd(w)
        PROVE  Types'
    BY <2>19 DEF EndAdd
  <2>20. ASSUME NEW w \in Workers, UnlockRead(w)
        PROVE  Types'
    BY <2>20 DEF UnlockRead, Nothing
  <2>21. ASSUME NEW w \in Workers, FallThrough(w)
        PROVE  Types'
    BY <2>21 DEF FallThrough
  <2>22. ASSUME NEW w \in Workers, Insert(w)
        PROVE  Types'
    BY <2>22 DEF Insert, Disturbed, Changed
  <2>23. ASSUME NEW w \in Workers, CheckValues(w)
        PROVE  Types'
    BY <2>23 DEF CheckValues, Disturbed, Changed
  <2>24. ASSUME NEW w \in Workers, CheckExits(w)
        PROVE  Types'
    BY <2>24 DEF CheckExits
  <2>25. ASSUME NEW w \in Workers, BeginAppend(w)
        PROVE  Types'
    BY <2>25 DEF BeginAppend
  <2>26. ASSUME NEW w \in Workers, EndAppend(w)
        PROVE  Types'
    BY <2>26 DEF EndAppend
  <2>27. ASSUME NEW w \in Workers, EndInsert(w)
        PROVE  Types'
    BY <2>27 DEF EndInsert
  <2>28. ASSUME NEW w \in Workers, Parse(w)
        PROVE  Types'
    BY <2>28 DEF Parse
  <2>29. ASSUME NEW w \in Workers, ParseExits(w)
        PROVE  Types'
    BY <2>29 DEF ParseExits
  <2>30. ASSUME NEW w \in Workers, Reload(w)
        PROVE  Types'
    BY <2>30 DEF Reload, Disturbed, Changed
  <2>31. ASSUME NEW w \in Workers, BeginRewrite(w)
        PROVE  Types'
    BY <2>31 DEF BeginRewrite, Disturbed, Changed
  <2>32. ASSUME NEW w \in Workers, EndRewrite(w)
        PROVE  Types'
    BY <2>32 DEF EndRewrite, Disturbed, Changed
  <2>33. ASSUME NEW w \in Workers, BeginCreate(w)
        PROVE  Types'
    BY <2>33 DEF BeginCreate
  <2>34. ASSUME NEW w \in Workers, EndCreate(w)
        PROVE  Types'
    BY <2>34 DEF EndCreate, Disturbed, Changed
  <2>35. ASSUME NEW w \in Workers, CreateCrashes(w)
        PROVE  Types'
    BY <2>35 DEF CreateCrashes
  <2>36. ASSUME NEW w \in Workers, UnlockWrite(w)
        PROVE  Types'
    BY <2>36 DEF UnlockWrite, Nothing
  <2>37. ASSUME NEW w \in Workers, Relock(w)
        PROVE  Types'
    BY <2>37 DEF Relock, Nothing
  <2>39. ASSUME NEW w \in Workers, UnsetCrashes(w)
        PROVE  Types'
    BY <2>39 DEF UnsetCrashes
  <2>40. ASSUME Overrun
        PROVE  Types'
    BY <2>40 DEF Overrun
  <2>38. CASE UNCHANGED vars
    BY <2>38 DEF vars
  <2> QED
    BY <2>1, <2>2, <2>3, <2>4, <2>5, <2>6, <2>7, <2>8, <2>9, <2>10, <2>11, <2>12,
       <2>13, <2>14, <2>15, <2>16, <2>17, <2>18, <2>19, <2>20, <2>21, <2>22, <2>23,
       <2>24, <2>25, <2>26, <2>27, <2>28, <2>29, <2>30, <2>31, <2>32, <2>33, <2>34,
       <2>35, <2>36, <2>37, <2>38, <2>39, <2>40
    DEF Next, Worker, SelectStep, WriteStep
<1> QED
  BY <1>1, <1>2, BaseInvariant, PTL DEF Spec
-----------------------------------------------------------------------------
(* What the commands do to the parser, the mutex and the table.            *)

\* Two workers inside commands are two readers.
LEMMA Exclusion ==
    ASSUME LockInv, NEW w \in Workers, pc[w] \in Writing,
           NEW v \in Workers, v # w
    PROVE  pc[v] \notin Reading \cup Writing
<1>1. writer = w /\ (pc[v] \in Writing => writer = v) /\ readers = Cardinality(Holders)
  BY DEF LockInv, LockAccounting, Holders
<1>2. IsFiniteSet(Holders) /\ NoWorker \notin Workers
  BY Constants, FS_Subset DEF Holders
<1>3. Holders = {}
  BY <1>1, <1>2, FS_EmptySet DEF LockInv, LockAccounting
<1> QED
  BY <1>1, <1>3 DEF Holders, HoldsRead

\* Places the invariants above say more about.
Watched == {"check", "append", "appending", "inserted", "reload", "rewrite", "rewriting",
            "creating", "count", "show"}

data == <<mutex, strtok, copy, garbled, disk>>

\* Steps that change only the place of a worker, to one that is not watched.
Quietly(w) ==
    /\ UNCHANGED data
    /\ pc[w] \notin Writing
    /\ \E l \in Locations \ Watched : Go(w, l) /\ (l \in Calm \cup Writing => pc[w] \in Calm)

\* findInCache has found nothing and parseSelect takes strtok.
StartSelect(w) ==
    /\ At(w, "find")
    /\ Go(w, Branch(cmd[w]))
    /\ strtok' = w
    /\ UNCHANGED <<mutex, copy, garbled, disk>>

EndCommand(w) ==
    /\ pc[w] \in {"unlock_read", "unlock", "relock"}
    /\ Go(w, "idle")
    /\ Forget(w)
    /\ UNCHANGED <<mutex, strtok, disk>>

DataStep(w) ==
    \/ Quietly(w) \/ StartSelect(w) \/ EndCommand(w)
    \/ Load(w) \/ Count(w)
    \/ Insert(w) \/ CheckValues(w) \/ BeginAppend(w) \/ EndAppend(w) \/ EndInsert(w)
    \/ Parse(w) \/ Reload(w) \/ BeginRewrite(w) \/ EndRewrite(w)
    \/ BeginCreate(w) \/ EndCreate(w)

LEMMA DataSteps ==
    ASSUME Base, [Next]_vars
    PROVE  UNCHANGED <<pc, data>> \/ \E w \in Workers : DataStep(w)
  <1> DEFINE Goal == UNCHANGED <<pc, data>> \/ \E w \in Workers : DataStep(w)
  <1>0. /\ \A w \in Workers : pc[w] \in Locations /\ cmd[w] \in AllCommands /\ Fits(pc[w], cmd[w])
        /\ \A w \in displaying : w \in Workers /\ pc[w] \in Displays
    BY DEF Base, Places, CommandFits
  <1> USE DEF At, data, disk, parsing
  <1>1. ASSUME NEW c \in Clients, Connect(c)
        PROVE  Goal
    BY <1>1 DEF Connect
  <1>2. ASSUME NEW c \in Clients, Disconnect(c)
        PROVE  Goal
    BY <1>2 DEF Disconnect
  <1>3. ASSUME NEW w \in Workers, NEW k \in Commands \ {"unknown", "quit", "overlong"}, Receive(w, k)
        PROVE  Goal
    BY <1>3, <1>0 DEF Receive, DataStep, Quietly, Locations, Reading, Missed, Writing, Calm, Watched
  <1>4. ASSUME NEW w \in Workers, StartClient(w)
        PROVE  Goal
    BY <1>4 DEF StartClient
  <1>5. ASSUME NEW w \in Workers, Quit(w)
        PROVE  Goal
    BY <1>5 DEF Quit
  <1>6. ASSUME NEW w \in Workers, Ignore(w)
        PROVE  Goal
    BY <1>6 DEF Ignore
  <1>7. ASSUME NEW w \in Workers, ReadEOF(w)
        PROVE  Goal
    BY <1>7, <1>0 DEF ReadEOF, DataStep, Quietly, Locations, Reading, Missed, Writing, Calm, Watched
  <1>8. ASSUME NEW w \in Workers, BrokenPipe(w)
        PROVE  Goal
    BY <1>8 DEF BrokenPipe, Exit
  <1>9. ASSUME NEW w \in Workers, Lock(w)
        PROVE  Goal
    <2>1. Body(cmd[w]) \in {"find", "insert", "create", "parse"}
      BY DEF Body
    <2> QED
      BY <1>9, <2>1 DEF Lock, DataStep, Quietly, Locations, Reading, Missed, Writing, Calm, Watched
  <1>10. ASSUME NEW w \in Workers, Find(w)
        PROVE  Goal
    <2>1. PICK found \in Found(Text(cmd[w])) :
             /\ Go(w, CASE found = "hit"  -> "hit"
                        [] found = "loop" -> "looping"
                        [] found = "miss" -> Branch(cmd[w]))
             /\ strtok' = IF found = "miss" THEN w ELSE strtok
      BY <1>10 DEF Find
    <2>2. found \in {"hit", "miss", "loop"}
      BY <2>1, FoundOutcomes
    <2>3. CASE found = "miss"
      BY <1>10, <2>1, <2>3 DEF Find, DataStep, StartSelect
    <2>4. CASE found = "hit" \/ found = "loop"
      <3>1. Go(w, "hit") \/ Go(w, "looping")
        BY <2>1, <2>4
      <3>2. UNCHANGED data /\ pc[w] = "find"
        BY <1>10, <2>1, <2>4 DEF Find
      <3> QED
        BY <3>1, <3>2 DEF DataStep, Quietly, Locations, Reading, Missed, Writing, Calm, Watched
    <2> QED
      BY <2>2, <2>3, <2>4
  <1>11. ASSUME NEW w \in Workers, EnterDisplay(w)
        PROVE  Goal
    BY <1>11 DEF EnterDisplay
  <1>12. ASSUME NEW w \in Workers, LeaveDisplay(w)
        PROVE  Goal
    BY <1>12, <1>0 DEF LeaveDisplay, DataStep, Quietly, Locations, Reading, Missed, Writing, Calm, Watched, Displays
  <1>13. ASSUME NEW w \in Workers, UnlockDisplay(w)
        PROVE  Goal
    BY <1>13, <1>0 DEF UnlockDisplay, DataStep, Quietly, Locations, Reading, Missed, Writing, Calm, Watched
  <1>14. ASSUME NEW w \in Workers, Load(w)
        PROVE  Goal
    BY <1>14 DEF DataStep
  <1>15. ASSUME NEW w \in Workers, LoadMissing(w)
        PROVE  Goal
    BY <1>15 DEF LoadMissing, Exit
  <1>16. ASSUME NEW w \in Workers, Count(w)
        PROVE  Goal
    BY <1>16 DEF DataStep
  <1>17. ASSUME NEW w \in Workers, CountCrashes(w)
        PROVE  Goal
    BY <1>17 DEF CountCrashes, Exit
  <1>18. ASSUME NEW w \in Workers, BeginAdd(w)
        PROVE  Goal
    BY <1>18, <1>0 DEF BeginAdd, DataStep, Quietly, Locations, Reading, Missed, Writing, Calm, Watched
  <1>19. ASSUME NEW w \in Workers, EndAdd(w)
        PROVE  Goal
    <2>1. Go(w, "unlock_read") \/ Go(w, "looping")
      BY <1>19 DEF EndAdd
    <2> QED
      BY <1>19, <2>1 DEF EndAdd, DataStep, Quietly, Locations, Reading, Missed, Writing, Calm, Watched
  <1>20. ASSUME NEW w \in Workers, UnlockRead(w)
        PROVE  Goal
    BY <1>20 DEF UnlockRead, DataStep, EndCommand
  <1>21. ASSUME NEW w \in Workers, FallThrough(w)
        PROVE  Goal
    BY <1>21, <1>0 DEF FallThrough, DataStep, Quietly, Locations, Reading, Missed, Writing, Calm, Watched
  <1>22. ASSUME NEW w \in Workers, Insert(w)
        PROVE  Goal
    BY <1>22 DEF DataStep
  <1>23. ASSUME NEW w \in Workers, CheckValues(w)
        PROVE  Goal
    BY <1>23 DEF DataStep
  <1>24. ASSUME NEW w \in Workers, CheckExits(w)
        PROVE  Goal
    BY <1>24 DEF CheckExits, Exit
  <1>25. ASSUME NEW w \in Workers, BeginAppend(w)
        PROVE  Goal
    BY <1>25 DEF DataStep
  <1>26. ASSUME NEW w \in Workers, EndAppend(w)
        PROVE  Goal
    BY <1>26 DEF DataStep
  <1>27. ASSUME NEW w \in Workers, EndInsert(w)
        PROVE  Goal
    BY <1>27 DEF DataStep
  <1>28. ASSUME NEW w \in Workers, Parse(w)
        PROVE  Goal
    BY <1>28 DEF DataStep
  <1>29. ASSUME NEW w \in Workers, ParseExits(w)
        PROVE  Goal
    BY <1>29 DEF ParseExits, Exit
  <1>30. ASSUME NEW w \in Workers, Reload(w)
        PROVE  Goal
    BY <1>30 DEF DataStep
  <1>31. ASSUME NEW w \in Workers, BeginRewrite(w)
        PROVE  Goal
    BY <1>31 DEF DataStep
  <1>32. ASSUME NEW w \in Workers, EndRewrite(w)
        PROVE  Goal
    BY <1>32 DEF DataStep
  <1>33. ASSUME NEW w \in Workers, BeginCreate(w)
        PROVE  Goal
    BY <1>33 DEF DataStep
  <1>34. ASSUME NEW w \in Workers, EndCreate(w)
        PROVE  Goal
    BY <1>34 DEF DataStep
  <1>35. ASSUME NEW w \in Workers, CreateCrashes(w)
        PROVE  Goal
    BY <1>35 DEF CreateCrashes, Exit
  <1>36. ASSUME NEW w \in Workers, UnlockWrite(w)
        PROVE  Goal
    BY <1>36 DEF UnlockWrite, DataStep, EndCommand
  <1>37. ASSUME NEW w \in Workers, Relock(w)
        PROVE  Goal
    BY <1>37 DEF Relock, DataStep, EndCommand
  <1>39. ASSUME NEW w \in Workers, UnsetCrashes(w)
        PROVE  Goal
    BY <1>39 DEF UnsetCrashes, Exit
  <1>40. ASSUME Overrun
        PROVE  Goal
    BY <1>40 DEF Overrun
  <1>38. CASE UNCHANGED vars
    BY <1>38 DEF vars
  <1> QED
    BY <1>1, <1>2, <1>3, <1>4, <1>5, <1>6, <1>7, <1>8, <1>9, <1>10, <1>11, <1>12,
       <1>13, <1>14, <1>15, <1>16, <1>17, <1>18, <1>19, <1>20, <1>21, <1>22, <1>23,
       <1>24, <1>25, <1>26, <1>27, <1>28, <1>29, <1>30, <1>31, <1>32, <1>33, <1>34,
       <1>35, <1>36, <1>37, <1>38, <1>39, <1>40
    DEF Next, Worker, SelectStep, WriteStep

\* What a step does to the other workers: nothing, and to what is shared only
\* from inside a command, to the table and the mutex only from one that writes.
LEMMA Others ==
    ASSUME Base, Types, NEW w \in Workers, DataStep(w), NEW v \in Workers, v # w
    PROVE  /\ pc'[v] = pc[v] /\ garbled'[v] = garbled[v] /\ copy'[v] = copy[v]
           /\ strtok' # strtok => pc[w] \in Reading \cup Writing
           /\ UNCHANGED <<mutex, disk>> \/ pc[w] \in Writing
  <1> USE DEF Base, Places, Types, TableTypes, At, Go, data, disk, Reading, Missed, Writing
  <1>1. CASE Quietly(w)
    BY <1>1 DEF Quietly
  <1>2. CASE StartSelect(w)
    BY <1>2 DEF StartSelect
  <1>3. CASE EndCommand(w)
    BY <1>3 DEF EndCommand, Forget
  <1>4. CASE Load(w) \/ Count(w)
    BY <1>4 DEF Load, Count
  <1>5. CASE Insert(w) \/ CheckValues(w) \/ BeginAppend(w) \/ EndAppend(w) \/ EndInsert(w)
    BY <1>5 DEF Insert, CheckValues, BeginAppend, EndAppend, EndInsert, parsing
  <1>6. CASE Parse(w) \/ Reload(w) \/ BeginRewrite(w) \/ EndRewrite(w)
    BY <1>6 DEF Parse, Reload, BeginRewrite, EndRewrite, parsing
  <1>7. CASE BeginCreate(w) \/ EndCreate(w)
    BY <1>7 DEF BeginCreate, EndCreate
  <1> QED
    BY <1>1, <1>2, <1>3, <1>4, <1>5, <1>6, <1>7 DEF DataStep

\* A command that writes has strtok to itself from its parser on.
LEMMA ParsingInvariant == Spec => []ParsingInv
<1>1. Init => ParsingInv
  BY DEF Init, ParsingInv, Undisturbed
<1>2. ParsingInv /\ LockInv /\ Types /\ Base /\ [Next]_vars => ParsingInv'
  <2> SUFFICES ASSUME ParsingInv, LockInv, Types, Base, [Next]_vars
               PROVE  ParsingInv'
    OBVIOUS
  <2>1. CASE UNCHANGED <<pc, data>>
    BY <2>1 DEF data, ParsingInv, Undisturbed
  <2>2. ASSUME NEW w \in Workers, DataStep(w), NEW v \in Workers, v # w
        PROVE  Undisturbed(v)'
    <3>1. /\ pc'[v] = pc[v] /\ garbled'[v] = garbled[v]
          /\ strtok' # strtok => pc[w] \in Reading \cup Writing
      BY <2>2, Others
    <3>2. pc[v] \in {"check", "reload", "rewrite", "creating"} => UNCHANGED strtok
      BY <2>2, <3>1, Exclusion DEF Writing
    <3> QED
      BY <3>1, <3>2 DEF ParsingInv, Undisturbed
  <2>3. ASSUME NEW w \in Workers, DataStep(w)
        PROVE  Undisturbed(w)'
    <3>0. Undisturbed(w) /\ cmd[w] \in AllCommands
      BY DEF ParsingInv, Base, Places
    <3> USE DEF Undisturbed, Base, Places, Types, TableTypes, At, Go, data, disk, Calm, Writing, Disturbed
    <3>1. CASE Quietly(w)
      BY <3>0, <3>1 DEF Quietly, Watched
    <3>2. CASE StartSelect(w)
      BY <3>2 DEF StartSelect, Branch
    <3>3. CASE EndCommand(w)
      BY <3>3 DEF EndCommand, Forget
    <3>4. CASE Load(w) \/ Count(w)
      BY <3>4 DEF Load, Count
    <3>5. CASE Insert(w) \/ CheckValues(w) \/ BeginAppend(w) \/ EndAppend(w) \/ EndInsert(w)
      BY <3>0, <3>5 DEF Insert, CheckValues, BeginAppend, EndAppend, EndInsert, parsing
    <3>6. CASE Parse(w) \/ Reload(w) \/ BeginRewrite(w) \/ EndRewrite(w)
      BY <3>0, <3>6 DEF Parse, Reload, BeginRewrite, EndRewrite, parsing
    <3>7. CASE BeginCreate(w) \/ EndCreate(w)
      BY <3>0, <3>7 DEF BeginCreate, EndCreate
    <3> QED
      BY <2>3, <3>1, <3>2, <3>3, <3>4, <3>5, <3>6, <3>7 DEF DataStep
  <2> QED
    BY <2>1, <2>2, <2>3, DataSteps DEF ParsingInv
<1> QED
  BY <1>1, <1>2, LockInvariant, TypesInvariant, BaseInvariant, PTL DEF Spec

\* The mutex is only taken and let go inside an INSERT.
LEMMA MutexInvariant == Spec => []MutexInv
<1>1. Init => MutexInv
  BY DEF Init, MutexInv
<1>2. MutexInv /\ LockInv /\ Types /\ Base /\ [Next]_vars => MutexInv'
  <2> SUFFICES ASSUME MutexInv, LockInv, Types, Base, [Next]_vars
               PROVE  MutexInv'
    OBVIOUS
  <2>1. CASE UNCHANGED <<pc, data>>
    BY <2>1 DEF data, MutexInv
  <2>2. ASSUME NEW w \in Workers, DataStep(w)
        PROVE  MutexInv'
    <3>1. CASE mutex = NoWorker \/ mutex = w
      <4> USE <3>1, Constants DEF MutexInv, Base, Places, At, Go, data, disk, Writing
      <4>1. CASE Quietly(w)
        BY <4>1 DEF Quietly
      <4>2. CASE StartSelect(w)
        BY <4>2 DEF StartSelect
      <4>3. CASE EndCommand(w)
        BY <4>3 DEF EndCommand
      <4>4. CASE Load(w) \/ Count(w)
        BY <4>4 DEF Load, Count
      <4>5. CASE Insert(w) \/ CheckValues(w) \/ BeginAppend(w) \/ EndAppend(w) \/ EndInsert(w)
        BY <4>5 DEF Insert, CheckValues, BeginAppend, EndAppend, EndInsert
      <4>6. CASE Parse(w) \/ Reload(w) \/ BeginRewrite(w) \/ EndRewrite(w)
        BY <4>6 DEF Parse, Reload, BeginRewrite, EndRewrite
      <4>7. CASE BeginCreate(w) \/ EndCreate(w)
        BY <4>7 DEF BeginCreate, EndCreate
      <4> QED
        BY <2>2, <4>1, <4>2, <4>3, <4>4, <4>5, <4>6, <4>7 DEF DataStep
    <3>2. CASE mutex # NoWorker /\ mutex # w
      <4>1. mutex \in Workers /\ pc[mutex] \in Writing
        BY <3>2 DEF Types, SharedTypes, MutexInv, Writing
      <4>2. pc[w] \notin Writing
        BY <3>2, <4>1, Exclusion
      <4> QED
        BY <2>2, <3>2, <4>1, <4>2, Others DEF MutexInv
    <3> QED
      BY <3>1, <3>2
  <2> QED
    BY <2>1, <2>2, DataSteps
<1> QED
  BY <1>1, <1>2, LockInvariant, TypesInvariant, BaseInvariant, PTL DEF Spec

\* Nobody writes the table while a worker reads it or is about to change it.
LEMMA FileIsWhole ==
    ASSUME DiskInv, LockInv, Types, NEW w \in Workers,
           pc[w] \in (Reading \cup Writing) \ Torn
    PROVE  file = [rows |-> expected, whole |-> TRUE]
<1>1. \A v \in Workers : pc[v] \notin Torn
  BY Exclusion DEF Torn, Emptied, Writing
<1> QED
  BY <1>1 DEF DiskInv, Torn, Types, TableTypes, Tables

\* The table on disk is the one the completed writes made, but for the write
\* under way; and so is every copy in use.
LEMMA DiskInvariant == Spec => []DiskInv
<1>1. Init => DiskInv
  BY DEF Init, DiskInv, Nothing, Torn, Emptied
<1>2. DiskInv /\ LockInv /\ Types /\ Base /\ [Next]_vars => DiskInv'
  <2> SUFFICES ASSUME DiskInv, LockInv, Types, Base, [Next]_vars
               PROVE  DiskInv'
    OBVIOUS
  <2>1. CASE UNCHANGED <<pc, data>>
    BY <2>1 DEF data, disk, DiskInv
  <2>2. ASSUME NEW w \in Workers, DataStep(w)
        PROVE  DiskInv'
    <3> DEFINE Table == [rows |-> expected, whole |-> TRUE]
               Loaded == {"count", "show", "rewrite", "rewriting"}
    <3>1. \A v \in Workers \ {w} : pc'[v] = pc[v] /\ copy'[v] = copy[v]
      BY <2>2, Others
    <3>2. pc \in [Workers -> Locations] /\ copy \in [Workers -> Tables] /\ file \in Tables
      BY DEF Base, Places, Types, TableTypes
    <3>3. pc[w] \in Writing => \A v \in Workers \ {w} : pc[v] \notin Loaded \cup Torn
      BY Exclusion DEF Torn, Emptied, Writing, Reading, Missed
    \* Steps that do not touch the table.
    <3>4. ASSUME UNCHANGED disk, pc[w] \notin Torn, pc'[w] \notin Torn,
                 pc'[w] \in Loaded => copy'[w] = Table
          PROVE  DiskInv'
      <4>1. \A v \in Workers : /\ pc'[v] \in Torn <=> pc[v] \in Torn
                               /\ pc'[v] \in Emptied <=> pc[v] \in Emptied
        BY <3>1, <3>4 DEF Torn
      <4> QED
        BY <3>1, <3>4, <4>1 DEF DiskInv, disk
    <3>5. CASE Quietly(w) \/ StartSelect(w) \/ EndCommand(w)
      <4>1. UNCHANGED disk /\ pc[w] \notin Torn /\ pc'[w] \notin Torn \cup Loaded
        BY <3>2, <3>5 DEF Quietly, StartSelect, EndCommand, Branch, At, Go, data, Watched, Torn, Emptied, Writing
      <4> QED
        BY <3>4, <4>1
    <3>6. CASE Load(w) \/ Reload(w)
      <4>1. file = Table
        BY <3>6, FileIsWhole DEF Load, Reload, At, Reading, Missed, Writing, Torn, Emptied
      <4>2. UNCHANGED disk /\ pc[w] \notin Torn /\ pc'[w] \notin Torn /\ copy'[w] = file
        BY <3>2, <3>6 DEF Load, Reload, At, Go, Torn, Emptied
      <4> QED
        BY <3>4, <4>1, <4>2
    <3>7. CASE Count(w)
      <4>1. pc[w] = "count" /\ copy[w] = Table
        BY <3>7 DEF Count, At, DiskInv
      <4>2. UNCHANGED <<disk, copy>> /\ pc'[w] \in {"add", "show"}
        BY <3>2, <3>7 DEF Count, At, Go
      <4> QED
        BY <3>4, <4>1, <4>2 DEF Torn, Emptied
    <3>8. CASE Insert(w) \/ CheckValues(w) \/ EndInsert(w) \/ Parse(w)
      <4>1. UNCHANGED disk /\ pc[w] \notin Torn /\ pc'[w] \notin Torn \cup Loaded
        BY <3>2, <3>8 DEF Insert, CheckValues, EndInsert, Parse, At, Go, Torn, Emptied
      <4> QED
        BY <3>4, <4>1
    <3>9. CASE BeginAppend(w)
      <4>1. pc[w] = "append" /\ pc'[w] = "appending" /\ UNCHANGED expected
        BY <3>2, <3>9 DEF BeginAppend, At, Go
      <4>2. file = Table
        BY <4>1, FileIsWhole DEF Writing, Torn, Emptied
      <4>3. file' = [rows |-> expected, whole |-> FALSE]
        BY <3>9, <4>2 DEF BeginAppend
      <4> QED
        BY <3>1, <3>3, <4>1, <4>3 DEF DiskInv, Torn, Emptied, Writing
    <3>10. CASE EndAppend(w)
      <4>1. pc[w] = "appending" /\ pc'[w] = "inserted"
        BY <3>2, <3>10 DEF EndAppend, At, Go
      <4>2. file.rows = expected
        BY <3>3, <4>1 DEF DiskInv, Torn, Emptied, Writing
      <4>3. file' = [rows |-> expected', whole |-> TRUE]
        BY <3>10, <4>2 DEF EndAppend
      <4> QED
        BY <3>1, <3>3, <4>1, <4>3 DEF DiskInv, Torn, Emptied, Writing
    <3>11. CASE BeginRewrite(w)
      <4>1. pc[w] = "rewrite" /\ pc'[w] = "rewriting" /\ copy[w] = Table
        BY <3>2, <3>11 DEF BeginRewrite, At, Go, DiskInv
      <4>2. file' = [rows |-> {}, whole |-> FALSE] /\ UNCHANGED <<copy, expected>>
        BY <3>11 DEF BeginRewrite
      <4> QED
        BY <3>1, <3>3, <4>1, <4>2 DEF DiskInv, Torn, Emptied, Writing
    <3>12. CASE EndRewrite(w)
      <4>1. pc[w] = "rewriting" /\ pc'[w] \in {"relock", "unlock"} /\ copy[w] = Table
        BY <3>2, <3>12 DEF EndRewrite, At, Go, DiskInv
      <4>2. file' = [rows |-> expected', whole |-> TRUE]
        BY <3>12, <4>1 DEF EndRewrite
      <4> QED
        BY <3>1, <3>3, <4>1, <4>2 DEF DiskInv, Torn, Emptied, Writing
    <3>13. CASE BeginCreate(w)
      <4>1. pc[w] = "create" /\ pc'[w] = "creating"
        BY <3>2, <3>13 DEF BeginCreate, At, Go
      <4>2. file' = [rows |-> {}, whole |-> FALSE]
        BY <3>13 DEF BeginCreate
      <4> QED
        BY <3>1, <3>3, <4>1, <4>2 DEF DiskInv, Torn, Emptied, Writing
    <3>14. CASE EndCreate(w)
      <4>1. pc[w] = "creating" /\ pc'[w] = "unlock"
        BY <3>2, <3>14 DEF EndCreate, At, Go
      <4>2. file' = [rows |-> expected', whole |-> TRUE]
        BY <3>14 DEF EndCreate
      <4> QED
        BY <3>1, <3>3, <4>1, <4>2 DEF DiskInv, Torn, Emptied, Writing
    <3> QED
      BY <2>2, <3>5, <3>6, <3>7, <3>8, <3>9, <3>10, <3>11, <3>12, <3>13, <3>14 DEF DataStep
  <2> QED
    BY <2>1, <2>2, DataSteps
<1> QED
  BY <1>1, <1>2, LockInvariant, TypesInvariant, BaseInvariant, PTL DEF Spec
-----------------------------------------------------------------------------
(* The end of the process.                                                 *)

\* The process ends at a step of w, which is not in the middle of writing a table
\* unless it creates one or writes a short row.
Ends(w) ==
    /\ UNCHANGED <<pc, cmd, job, copy, disk>>
    /\ \/ pc[w] \in ((Reading \cup Writing) \ Torn) \cup {"creating"}
       \/ pc[w] = "rewriting" /\ Changed(w, copy[w].rows) \cap short # {}

\* An exit, a null pointer or a broken pipe; after it nothing happens.
LEMMA Endings ==
    ASSUME Base, [Next]_vars
    PROVE  UNCHANGED vars \/ (alive /\ alive') \/ overrun' \/ \E w \in Workers : Ends(w)
  <1> DEFINE Goal == UNCHANGED vars \/ (alive /\ alive') \/ overrun' \/ \E w \in Workers : Ends(w)
  <1>0. \A w \in displaying : w \in Workers /\ pc[w] \in Displays
    BY DEF Base, Places
  <1> USE DEF At
  <1>1. ASSUME NEW c \in Clients, Connect(c)
        PROVE  Goal
    BY <1>1 DEF Connect
  <1>2. ASSUME NEW c \in Clients, Disconnect(c)
        PROVE  Goal
    BY <1>2 DEF Disconnect
  <1>3. ASSUME NEW w \in Workers, NEW k \in Commands \ {"unknown", "quit", "overlong"}, Receive(w, k)
        PROVE  Goal
    BY <1>3 DEF Receive
  <1>4. ASSUME NEW w \in Workers, StartClient(w)
        PROVE  Goal
    BY <1>4 DEF StartClient
  <1>5. ASSUME NEW w \in Workers, Quit(w)
        PROVE  Goal
    BY <1>5 DEF Quit
  <1>6. ASSUME NEW w \in Workers, Ignore(w)
        PROVE  Goal
    BY <1>6 DEF Ignore
  <1>7. ASSUME NEW w \in Workers, ReadEOF(w)
        PROVE  Goal
    BY <1>7 DEF ReadEOF
  <1>8. ASSUME NEW w \in Workers, BrokenPipe(w)
        PROVE  Goal
    BY <1>8, <1>0 DEF BrokenPipe, Exit, Ends, net, pool, parsing, Displays, Torn, Emptied, Reading, Missed, Writing
  <1>9. ASSUME NEW w \in Workers, Lock(w)
        PROVE  Goal
    BY <1>9 DEF Lock
  <1>10. ASSUME NEW w \in Workers, Find(w)
        PROVE  Goal
    BY <1>10 DEF Find
  <1>11. ASSUME NEW w \in Workers, EnterDisplay(w)
        PROVE  Goal
    BY <1>11 DEF EnterDisplay
  <1>12. ASSUME NEW w \in Workers, LeaveDisplay(w)
        PROVE  Goal
    BY <1>12 DEF LeaveDisplay
  <1>13. ASSUME NEW w \in Workers, UnlockDisplay(w)
        PROVE  Goal
    BY <1>13 DEF UnlockDisplay
  <1>14. ASSUME NEW w \in Workers, Load(w)
        PROVE  Goal
    BY <1>14 DEF Load
  <1>15. ASSUME NEW w \in Workers, LoadMissing(w)
        PROVE  Goal
    BY <1>15 DEF LoadMissing, Exit, Ends, net, pool, parsing, Torn, Emptied, Reading, Missed, Writing
  <1>16. ASSUME NEW w \in Workers, Count(w)
        PROVE  Goal
    BY <1>16 DEF Count
  <1>17. ASSUME NEW w \in Workers, CountCrashes(w)
        PROVE  Goal
    BY <1>17 DEF CountCrashes, Exit, Ends, net, pool, parsing, Torn, Emptied, Reading, Missed, Writing
  <1>18. ASSUME NEW w \in Workers, BeginAdd(w)
        PROVE  Goal
    BY <1>18 DEF BeginAdd
  <1>19. ASSUME NEW w \in Workers, EndAdd(w)
        PROVE  Goal
    BY <1>19 DEF EndAdd
  <1>20. ASSUME NEW w \in Workers, UnlockRead(w)
        PROVE  Goal
    BY <1>20 DEF UnlockRead
  <1>21. ASSUME NEW w \in Workers, FallThrough(w)
        PROVE  Goal
    BY <1>21 DEF FallThrough
  <1>22. ASSUME NEW w \in Workers, Insert(w)
        PROVE  Goal
    BY <1>22 DEF Insert
  <1>23. ASSUME NEW w \in Workers, CheckValues(w)
        PROVE  Goal
    BY <1>23 DEF CheckValues
  <1>24. ASSUME NEW w \in Workers, CheckExits(w)
        PROVE  Goal
    BY <1>24 DEF CheckExits, Exit, Ends, net, pool, parsing, Torn, Emptied, Reading, Missed, Writing
  <1>25. ASSUME NEW w \in Workers, BeginAppend(w)
        PROVE  Goal
    BY <1>25 DEF BeginAppend
  <1>26. ASSUME NEW w \in Workers, EndAppend(w)
        PROVE  Goal
    BY <1>26 DEF EndAppend
  <1>27. ASSUME NEW w \in Workers, EndInsert(w)
        PROVE  Goal
    BY <1>27 DEF EndInsert
  <1>28. ASSUME NEW w \in Workers, Parse(w)
        PROVE  Goal
    BY <1>28 DEF Parse
  <1>29. ASSUME NEW w \in Workers, ParseExits(w)
        PROVE  Goal
    BY <1>29 DEF ParseExits, Exit, Ends, net, pool, parsing, Torn, Emptied, Reading, Missed, Writing
  <1>30. ASSUME NEW w \in Workers, Reload(w)
        PROVE  Goal
    BY <1>30 DEF Reload
  <1>31. ASSUME NEW w \in Workers, BeginRewrite(w)
        PROVE  Goal
    BY <1>31 DEF BeginRewrite
  <1>32. ASSUME NEW w \in Workers, EndRewrite(w)
        PROVE  Goal
    BY <1>32 DEF EndRewrite
  <1>33. ASSUME NEW w \in Workers, BeginCreate(w)
        PROVE  Goal
    BY <1>33 DEF BeginCreate
  <1>34. ASSUME NEW w \in Workers, EndCreate(w)
        PROVE  Goal
    BY <1>34 DEF EndCreate
  <1>35. ASSUME NEW w \in Workers, CreateCrashes(w)
        PROVE  Goal
    BY <1>35 DEF CreateCrashes, Exit, Ends, net, pool, parsing, Torn, Emptied, Reading, Missed, Writing
  <1>36. ASSUME NEW w \in Workers, UnlockWrite(w)
        PROVE  Goal
    BY <1>36 DEF UnlockWrite
  <1>37. ASSUME NEW w \in Workers, Relock(w)
        PROVE  Goal
    BY <1>37 DEF Relock
  <1>39. ASSUME NEW w \in Workers, UnsetCrashes(w)
        PROVE  Goal
    BY <1>39 DEF UnsetCrashes, Exit, Ends, net, pool, parsing, Torn, Emptied, Reading, Missed, Writing
  <1>40. ASSUME Overrun
        PROVE  Goal
    BY <1>40 DEF Overrun, Ends, Torn, Emptied, Reading, Missed, Writing
  <1>38. CASE UNCHANGED vars
    BY <1>38
  <1> QED
    BY <1>1, <1>2, <1>3, <1>4, <1>5, <1>6, <1>7, <1>8, <1>9, <1>10, <1>11, <1>12,
       <1>13, <1>14, <1>15, <1>16, <1>17, <1>18, <1>19, <1>20, <1>21, <1>22, <1>23,
       <1>24, <1>25, <1>26, <1>27, <1>28, <1>29, <1>30, <1>31, <1>32, <1>33, <1>34,
       <1>35, <1>36, <1>37, <1>38, <1>39, <1>40
    DEF Next, Worker, SelectStep, WriteStep

\* Nothing is left half written but by these.
LEMMA DeathInvariant == Spec => []OnlyTheseDeathsTear
<1>1. Init => OnlyTheseDeathsTear
  BY DEF Init, OnlyTheseDeathsTear
<1>2. OnlyTheseDeathsTear /\ DiskInv /\ LockInv /\ Types /\ Base /\ [Next]_vars
        => OnlyTheseDeathsTear'
  <2> SUFFICES ASSUME OnlyTheseDeathsTear, DiskInv, LockInv, Types, Base, [Next]_vars
               PROVE  OnlyTheseDeathsTear'
    OBVIOUS
  <2>1. CASE UNCHANGED vars
    BY <2>1 DEF vars, net, pool, parsing, disk, Changed, OnlyTheseDeathsTear
  <2>2. CASE (alive /\ alive') \/ overrun'
    BY <2>2 DEF OnlyTheseDeathsTear
  <2>3. ASSUME NEW w \in Workers, Ends(w)
        PROVE  OnlyTheseDeathsTear'
    <3>1. CASE pc[w] = "creating"
      BY <2>3, <3>1 DEF Ends, OnlyTheseDeathsTear
    <3>2. CASE pc[w] \in (Reading \cup Writing) \ Torn
      <4>1. file.whole
        BY <3>2, FileIsWhole
      <4> QED
        BY <2>3, <4>1 DEF Ends, disk, OnlyTheseDeathsTear
    <3>3. CASE pc[w] = "rewriting" /\ Changed(w, copy[w].rows) \cap short # {}
      <4>1. Changed(w, copy[w].rows)' = Changed(w, copy[w].rows)
        BY <2>3 DEF Ends, Changed
      <4>2. pc'[w] = "rewriting" /\ Changed(w, copy[w].rows)' \cap short' # {}
        BY <2>3, <3>3, <4>1 DEF Ends, disk
      <4> QED
        BY <4>2 DEF OnlyTheseDeathsTear
    <3> QED
      BY <2>3, <3>1, <3>2, <3>3 DEF Ends
  <2> QED
    BY <2>1, <2>2, <2>3, Endings
<1> QED
  BY <1>1, <1>2, DiskInvariant, LockInvariant, TypesInvariant, BaseInvariant, PTL DEF Spec
-----------------------------------------------------------------------------
(* display_mutex.                                                          *)

\* The display sections are entered and left only at their locks and unlocks.
LEMMA DisplaySteps ==
    ASSUME [Next]_vars
    PROVE  \/ UNCHANGED shown
           \/ \E w \in Workers : EnterDisplay(w) \/ LeaveDisplay(w) \/ UnlockDisplay(w)
  <1> DEFINE Goal ==
         \/ UNCHANGED shown
         \/ \E w \in Workers : EnterDisplay(w) \/ LeaveDisplay(w) \/ UnlockDisplay(w)
  <1>1. ASSUME NEW c \in Clients, Connect(c)
        PROVE  Goal
    BY <1>1 DEF Connect
  <1>2. ASSUME NEW c \in Clients, Disconnect(c)
        PROVE  Goal
    BY <1>2 DEF Disconnect
  <1>3. ASSUME NEW w \in Workers, NEW k \in Commands \ {"unknown", "quit", "overlong"}, Receive(w, k)
        PROVE  Goal
    BY <1>3 DEF Receive
  <1>4. ASSUME NEW w \in Workers, StartClient(w)
        PROVE  Goal
    BY <1>4 DEF StartClient
  <1>5. ASSUME NEW w \in Workers, Quit(w)
        PROVE  Goal
    BY <1>5 DEF Quit
  <1>6. ASSUME NEW w \in Workers, Ignore(w)
        PROVE  Goal
    BY <1>6 DEF Ignore
  <1>7. ASSUME NEW w \in Workers, ReadEOF(w)
        PROVE  Goal
    BY <1>7 DEF ReadEOF
  <1>8. ASSUME NEW w \in Workers, BrokenPipe(w)
        PROVE  Goal
    BY <1>8 DEF BrokenPipe, Exit
  <1>9. ASSUME NEW w \in Workers, Lock(w)
        PROVE  Goal
    BY <1>9 DEF Lock
  <1>10. ASSUME NEW w \in Workers, Find(w)
        PROVE  Goal
    BY <1>10 DEF Find
  <1>11. ASSUME NEW w \in Workers, EnterDisplay(w)
        PROVE  Goal
    BY <1>11
  <1>12. ASSUME NEW w \in Workers, LeaveDisplay(w)
        PROVE  Goal
    BY <1>12
  <1>13. ASSUME NEW w \in Workers, UnlockDisplay(w)
        PROVE  Goal
    BY <1>13
  <1>14. ASSUME NEW w \in Workers, Load(w)
        PROVE  Goal
    BY <1>14 DEF Load
  <1>15. ASSUME NEW w \in Workers, LoadMissing(w)
        PROVE  Goal
    BY <1>15 DEF LoadMissing, Exit
  <1>16. ASSUME NEW w \in Workers, Count(w)
        PROVE  Goal
    BY <1>16 DEF Count
  <1>17. ASSUME NEW w \in Workers, CountCrashes(w)
        PROVE  Goal
    BY <1>17 DEF CountCrashes, Exit
  <1>18. ASSUME NEW w \in Workers, BeginAdd(w)
        PROVE  Goal
    BY <1>18 DEF BeginAdd
  <1>19. ASSUME NEW w \in Workers, EndAdd(w)
        PROVE  Goal
    BY <1>19 DEF EndAdd
  <1>20. ASSUME NEW w \in Workers, UnlockRead(w)
        PROVE  Goal
    BY <1>20 DEF UnlockRead
  <1>21. ASSUME NEW w \in Workers, FallThrough(w)
        PROVE  Goal
    BY <1>21 DEF FallThrough
  <1>22. ASSUME NEW w \in Workers, Insert(w)
        PROVE  Goal
    BY <1>22 DEF Insert
  <1>23. ASSUME NEW w \in Workers, CheckValues(w)
        PROVE  Goal
    BY <1>23 DEF CheckValues
  <1>24. ASSUME NEW w \in Workers, CheckExits(w)
        PROVE  Goal
    BY <1>24 DEF CheckExits, Exit
  <1>25. ASSUME NEW w \in Workers, BeginAppend(w)
        PROVE  Goal
    BY <1>25 DEF BeginAppend
  <1>26. ASSUME NEW w \in Workers, EndAppend(w)
        PROVE  Goal
    BY <1>26 DEF EndAppend
  <1>27. ASSUME NEW w \in Workers, EndInsert(w)
        PROVE  Goal
    BY <1>27 DEF EndInsert
  <1>28. ASSUME NEW w \in Workers, Parse(w)
        PROVE  Goal
    BY <1>28 DEF Parse
  <1>29. ASSUME NEW w \in Workers, ParseExits(w)
        PROVE  Goal
    BY <1>29 DEF ParseExits, Exit
  <1>30. ASSUME NEW w \in Workers, Reload(w)
        PROVE  Goal
    BY <1>30 DEF Reload
  <1>31. ASSUME NEW w \in Workers, BeginRewrite(w)
        PROVE  Goal
    BY <1>31 DEF BeginRewrite
  <1>32. ASSUME NEW w \in Workers, EndRewrite(w)
        PROVE  Goal
    BY <1>32 DEF EndRewrite
  <1>33. ASSUME NEW w \in Workers, BeginCreate(w)
        PROVE  Goal
    BY <1>33 DEF BeginCreate
  <1>34. ASSUME NEW w \in Workers, EndCreate(w)
        PROVE  Goal
    BY <1>34 DEF EndCreate
  <1>35. ASSUME NEW w \in Workers, CreateCrashes(w)
        PROVE  Goal
    BY <1>35 DEF CreateCrashes, Exit
  <1>36. ASSUME NEW w \in Workers, UnlockWrite(w)
        PROVE  Goal
    BY <1>36 DEF UnlockWrite
  <1>37. ASSUME NEW w \in Workers, Relock(w)
        PROVE  Goal
    BY <1>37 DEF Relock
  <1>39. ASSUME NEW w \in Workers, UnsetCrashes(w)
        PROVE  Goal
    BY <1>39 DEF UnsetCrashes, Exit
  <1>40. ASSUME Overrun
        PROVE  Goal
    BY <1>40 DEF Overrun
  <1>38. CASE UNCHANGED vars
    BY <1>38 DEF vars
  <1> QED
    BY <1>1, <1>2, <1>3, <1>4, <1>5, <1>6, <1>7, <1>8, <1>9, <1>10, <1>11, <1>12,
       <1>13, <1>14, <1>15, <1>16, <1>17, <1>18, <1>19, <1>20, <1>21, <1>22, <1>23,
       <1>24, <1>25, <1>26, <1>27, <1>28, <1>29, <1>30, <1>31, <1>32, <1>33, <1>34,
       <1>35, <1>36, <1>37, <1>38, <1>39, <1>40
    DEF Next, Worker, SelectStep, WriteStep

-----------------------------------------------------------------------------
(* The cache.                                                              *)

\* Only the end of addToCache changes the list.
LEMMA CacheSteps ==
    ASSUME [Next]_vars
    PROVE  UNCHANGED cache \/ \E w \in Workers : EndAdd(w)
  <1> DEFINE Goal == UNCHANGED cache \/ \E w \in Workers : EndAdd(w)
  <1> USE DEF cached
  <1>1. ASSUME NEW c \in Clients, Connect(c)
        PROVE  Goal
    BY <1>1 DEF Connect
  <1>2. ASSUME NEW c \in Clients, Disconnect(c)
        PROVE  Goal
    BY <1>2 DEF Disconnect
  <1>3. ASSUME NEW w \in Workers, NEW k \in Commands \ {"unknown", "quit", "overlong"}, Receive(w, k)
        PROVE  Goal
    BY <1>3 DEF Receive
  <1>4. ASSUME NEW w \in Workers, StartClient(w)
        PROVE  Goal
    BY <1>4 DEF StartClient
  <1>5. ASSUME NEW w \in Workers, Quit(w)
        PROVE  Goal
    BY <1>5 DEF Quit
  <1>6. ASSUME NEW w \in Workers, Ignore(w)
        PROVE  Goal
    BY <1>6 DEF Ignore
  <1>7. ASSUME NEW w \in Workers, ReadEOF(w)
        PROVE  Goal
    BY <1>7 DEF ReadEOF
  <1>8. ASSUME NEW w \in Workers, BrokenPipe(w)
        PROVE  Goal
    BY <1>8 DEF BrokenPipe, Exit
  <1>9. ASSUME NEW w \in Workers, Lock(w)
        PROVE  Goal
    BY <1>9 DEF Lock
  <1>10. ASSUME NEW w \in Workers, Find(w)
        PROVE  Goal
    BY <1>10 DEF Find
  <1>11. ASSUME NEW w \in Workers, EnterDisplay(w)
        PROVE  Goal
    BY <1>11 DEF EnterDisplay
  <1>12. ASSUME NEW w \in Workers, LeaveDisplay(w)
        PROVE  Goal
    BY <1>12 DEF LeaveDisplay
  <1>13. ASSUME NEW w \in Workers, UnlockDisplay(w)
        PROVE  Goal
    BY <1>13 DEF UnlockDisplay
  <1>14. ASSUME NEW w \in Workers, Load(w)
        PROVE  Goal
    BY <1>14 DEF Load
  <1>15. ASSUME NEW w \in Workers, LoadMissing(w)
        PROVE  Goal
    BY <1>15 DEF LoadMissing, Exit
  <1>16. ASSUME NEW w \in Workers, Count(w)
        PROVE  Goal
    BY <1>16 DEF Count
  <1>17. ASSUME NEW w \in Workers, CountCrashes(w)
        PROVE  Goal
    BY <1>17 DEF CountCrashes, Exit
  <1>18. ASSUME NEW w \in Workers, BeginAdd(w)
        PROVE  Goal
    BY <1>18 DEF BeginAdd
  <1>19. ASSUME NEW w \in Workers, EndAdd(w)
        PROVE  Goal
    BY <1>19
  <1>20. ASSUME NEW w \in Workers, UnlockRead(w)
        PROVE  Goal
    BY <1>20 DEF UnlockRead
  <1>21. ASSUME NEW w \in Workers, FallThrough(w)
        PROVE  Goal
    BY <1>21 DEF FallThrough
  <1>22. ASSUME NEW w \in Workers, Insert(w)
        PROVE  Goal
    BY <1>22 DEF Insert
  <1>23. ASSUME NEW w \in Workers, CheckValues(w)
        PROVE  Goal
    BY <1>23 DEF CheckValues
  <1>24. ASSUME NEW w \in Workers, CheckExits(w)
        PROVE  Goal
    BY <1>24 DEF CheckExits, Exit
  <1>25. ASSUME NEW w \in Workers, BeginAppend(w)
        PROVE  Goal
    BY <1>25 DEF BeginAppend
  <1>26. ASSUME NEW w \in Workers, EndAppend(w)
        PROVE  Goal
    BY <1>26 DEF EndAppend
  <1>27. ASSUME NEW w \in Workers, EndInsert(w)
        PROVE  Goal
    BY <1>27 DEF EndInsert
  <1>28. ASSUME NEW w \in Workers, Parse(w)
        PROVE  Goal
    BY <1>28 DEF Parse
  <1>29. ASSUME NEW w \in Workers, ParseExits(w)
        PROVE  Goal
    BY <1>29 DEF ParseExits, Exit
  <1>30. ASSUME NEW w \in Workers, Reload(w)
        PROVE  Goal
    BY <1>30 DEF Reload
  <1>31. ASSUME NEW w \in Workers, BeginRewrite(w)
        PROVE  Goal
    BY <1>31 DEF BeginRewrite
  <1>32. ASSUME NEW w \in Workers, EndRewrite(w)
        PROVE  Goal
    BY <1>32 DEF EndRewrite
  <1>33. ASSUME NEW w \in Workers, BeginCreate(w)
        PROVE  Goal
    BY <1>33 DEF BeginCreate
  <1>34. ASSUME NEW w \in Workers, EndCreate(w)
        PROVE  Goal
    BY <1>34 DEF EndCreate
  <1>35. ASSUME NEW w \in Workers, CreateCrashes(w)
        PROVE  Goal
    BY <1>35 DEF CreateCrashes, Exit
  <1>36. ASSUME NEW w \in Workers, UnlockWrite(w)
        PROVE  Goal
    BY <1>36 DEF UnlockWrite
  <1>37. ASSUME NEW w \in Workers, Relock(w)
        PROVE  Goal
    BY <1>37 DEF Relock
  <1>39. ASSUME NEW w \in Workers, UnsetCrashes(w)
        PROVE  Goal
    BY <1>39 DEF UnsetCrashes, Exit
  <1>40. ASSUME Overrun
        PROVE  Goal
    BY <1>40 DEF Overrun
  <1>38. CASE UNCHANGED vars
    BY <1>38 DEF vars
  <1> QED
    BY <1>1, <1>2, <1>3, <1>4, <1>5, <1>6, <1>7, <1>8, <1>9, <1>10, <1>11, <1>12,
       <1>13, <1>14, <1>15, <1>16, <1>17, <1>18, <1>19, <1>20, <1>21, <1>22, <1>23,
       <1>24, <1>25, <1>26, <1>27, <1>28, <1>29, <1>30, <1>31, <1>32, <1>33, <1>34,
       <1>35, <1>36, <1>37, <1>38, <1>39, <1>40
    DEF Next, Worker, SelectStep, WriteStep

LEMMA StubsAreQueries == \A k : Stub(k) \in Queries
  BY Zenon, ServerAssumption DEF Stub

\* Additions that do not meet keep the list in one of its two shapes, whatever the
\* SELECTs that make them.
LEMMA CacheInvariant == Spec => []ListInv(cache)
<1>1. Init => ListInv(cache)
  BY CreatedList DEF Init
<1>2. ListInv(cache) /\ [Next]_vars => ListInv(cache)'
  <2> SUFFICES ASSUME ListInv(cache), [Next]_vars
               PROVE  ListInv(cache')
    OBVIOUS
  <2>1. ASSUME NEW w \in Workers, EndAdd(w)
        PROVE  ListInv(cache')
    <3> DEFINE q == Stub(cmd[w])
    <3>1. q \in Queries
      BY StubsAreQueries
    <3>2. UNCHANGED cache \/ (~Loops(cache, q) /\ cache' = AddToCache(cache, q))
      BY <2>1 DEF EndAdd, cached
    <3> QED
      BY <3>1, <3>2, AddKeepsList
  <2> QED
    BY <2>1, CacheSteps
<1> QED
  BY <1>1, <1>2, PTL DEF Spec
-----------------------------------------------------------------------------
(* The properties the runs check.                                          *)

\* Whatever clients send, no worker leaves the places of handleClient, and what the
\* workers share keeps its type: the lock's count never goes below zero, the cache
\* never holds more entries than it has places.
THEOREM TypeCorrect == Spec => []TypeOK
<1>1. Base /\ LockInv /\ Types /\ ListInv(cache) => TypeOK
  BY DEF Base, Places, LockInv, Types, PoolTypes, SharedTypes, TableTypes, ListInv, TypeOK
<1> QED
  BY <1>1, BaseInvariant, LockInvariant, TypesInvariant, CacheInvariant, PTL

\* Whatever clients send, rwlock's counts are those of the workers inside commands,
\* in spite of the lock calls server.c makes in the wrong place (lines 473, 458).
THEOREM LockAccountingHolds == Spec => []LockAccounting
  BY LockInvariant, PTL DEF LockInv

\* No worker has to wait for SQLParser.c's mutex (lines 319, 605, 683): rwlock keeps
\* everybody else out already.
THEOREM MutexNeverContendedHolds == Spec => []MutexNeverContended
<1>1. MutexInv /\ LockInv /\ Types => MutexNeverContended
  BY Exclusion DEF MutexInv, MutexNeverContended, Types, SharedTypes, Writing
<1> QED
  BY <1>1, MutexInvariant, LockInvariant, TypesInvariant, PTL

\* No command that writes uses another worker's tokens: strtok's hidden state is
\* only fought over by SELECTs.
THEOREM WritersParseAloneHolds == Spec => []WritersParseAlone
<1>1. ParsingInv => WritersParseAlone
  BY DEF ParsingInv, Undisturbed, WritersParseAlone
<1> QED
  BY <1>1, ParsingInvariant, PTL

\* UPDATE and DELETE, which load the table, change it and write it anew, lose no
\* write of another client, and neither does INSERT.
THEOREM NoLostUpdateHolds == Spec => []NoLostUpdate
<1>1. DiskInv => NoLostUpdate
  BY DEF DiskInv, NoLostUpdate, Torn
<1> QED
  BY <1>1, DiskInvariant, PTL

\* From the load to the end of the answer, a SELECT has the table as all the
\* completed writes made it.
THEOREM SelectShowsCurrentTableHolds == Spec => []SelectShowsCurrentTable
<1>1. DiskInv => SelectShowsCurrentTable
  BY DEF DiskInv, SelectShowsCurrentTable
<1> QED
  BY <1>1, DiskInvariant, PTL

\* A worker keeps rwlock while it waits for its client only after an UPDATE (the
\* second pthread_rwlock_wrlock of server.c:473, where an unlock was meant).
THEOREM IdleOwnsOnlyAfterUpdateHolds == Spec => []IdleOwnsOnlyAfterUpdate
  BY IdleInvariant

\* However the process ends, it leaves no table half written; except one that it
\* was creating, one into which it was writing a value that is not there, and
\* whatever it was writing when it ran past the end of an array.
THEOREM OnlyTheseDeathsTearHolds == Spec => []OnlyTheseDeathsTear
  BY DeathInvariant

\* While nobody sends the bare text "SELECT ", whose second unlock lets go of a
\* mutex that another worker may hold (server.c:191), answers are shown one at a time.
THEOREM OneAtDisplayHolds ==
    ASSUME "select_bare" \notin Commands
    PROVE  Spec => []OneAtDisplay
<1> DEFINE Alone == /\ displaying # {} => display
                    /\ \A v, w \in displaying : v = w
<1>1. Init => Alone
  BY DEF Init
<1>2. Alone /\ Base /\ [Next]_vars => Alone'
  <2> SUFFICES ASSUME Alone, Base, [Next]_vars
               PROVE  Alone'
    OBVIOUS
  <2>1. CASE UNCHANGED shown
    BY <2>1 DEF shown
  <2>2. ASSUME NEW w \in Workers, EnterDisplay(w)
        PROVE  Alone'
    BY <2>2 DEF EnterDisplay
  <2>3. ASSUME NEW w \in Workers, LeaveDisplay(w)
        PROVE  Alone'
    BY <2>3 DEF LeaveDisplay
  <2>4. ASSUME NEW w \in Workers, UnlockDisplay(w)
        PROVE  FALSE
    <3>1. pc[w] = "message2"
      BY <2>4 DEF UnlockDisplay, At
    <3>2. cmd[w] = "select_bare" /\ cmd[w] \in Commands \cup {"unknown"}
      BY <3>1 DEF Base, CommandFits, Fits
    <3> QED
      BY <3>2
  <2> QED
    BY <2>1, <2>2, <2>3, <2>4, DisplaySteps
<1>3. Alone /\ Base => OneAtDisplay
  <2> SUFFICES ASSUME Alone, Base
               PROVE  Cardinality(displaying) <= 1
    BY DEF OneAtDisplay
  <2>1. CASE displaying = {}
    BY <2>1, FS_EmptySet
  <2>2. ASSUME NEW w \in displaying
        PROVE  Cardinality(displaying) <= 1
    <3>1. displaying = {w}
      BY <2>2
    <3>2. Cardinality({w}) = 1
      BY FS_Singleton
    <3> QED
      BY <3>1, <3>2
  <2> QED
    BY <2>1, <2>2
<1> QED
  BY <1>1, <1>2, <1>3, BaseInvariant, PTL DEF Spec
=============================================================================
