------------------------------- MODULE Server -------------------------------
(***************************************************************************)
(* server.c: main hands each accepted connection to the thread pool (here  *)
(* the bounded queue it implements, TaskQueue); a worker serves one client *)
(* at a time in handleClient, command by command, until QUIT.  Commands    *)
(* share rwlock (RWLock), the cache (CacheList), display_mutex, the        *)
(* parser's mutex, the hidden state of strtok, and the file of a table.    *)
(*                                                                         *)
(* rwlock is global, so one table stands for all of them.  A row is the    *)
(* client that inserted it: INSERT adds the client's row, DELETE removes   *)
(* it, UPDATE rewrites the rows there are, CREATE empties the table.       *)
(***************************************************************************)
EXTENDS CacheList

CONSTANTS
    Workers, NoWorker,  \* the pool's threads
    Clients, NoClient,  \* connections, each accepted at most once
    Leavers,            \* those that may close the connection without QUIT
    QueuePlaces,        \* connections that may wait for a worker
    Commands,           \* the commands clients send, of AllCommands
    MaxCommands         \* bound: commands read in a behaviour

AllCommands ==
    {"select_all",      \* SELECT * FROM t ...
     "select_where",    \* SELECT c FROM t WHERE ...
     "select_plain",    \* SELECT c FROM t
     "select_bare",     \* the text "SELECT " and nothing else
     "select_missing",  \* SELECT * FROM a table that has no file
     "insert", "insert_invalid", "insert_mistyped",
     "insert_short",    \* fewer values than the table has columns
     "update", "delete", "create",
     "malformed",       \* UPDATE or DELETE that its parser gives up on
     "create_untyped",  \* CREATE with a column that has no type
     "unknown", "quit",
     "overlong"}        \* any of them, with words longer than the arrays they are
                        \* copied to: parse()'s, on the stack, or one on the heap

Selects == {"select_all", "select_where", "select_plain", "select_bare", "select_missing"}
Inserts == {"insert", "insert_invalid", "insert_mistyped", "insert_short"}

ASSUME ServerAssumption ==
    /\ IsFiniteSet(Workers) /\ NoWorker \notin Workers
    /\ NoClient \notin Clients
    /\ Leavers \subseteq Clients
    /\ QueuePlaces \in Nat
    /\ MaxCommands \in Nat
    /\ Commands \subseteq AllCommands
    /\ {"SELECT ", "SELECT"} \subseteq Queries

VARIABLES
    queue, job, fate,   \* the thread pool (TaskQueue)
    gone,       \* clients that closed their end
    budget,     \* commands that may still be sent (bound)
    pc,         \* pc[w]: where worker w is in handleClient
    cmd,        \* cmd[w]: the command it executes, or executed last
    writer, readers,    \* rwlock (RWLock)
    display,    \* display_mutex is locked
    displaying, \* the workers between its lock and its unlock
    mutex,      \* the worker that holds SQLParser.c's mutex, or NoWorker
    cache,      \* the cached queries (CacheList)
    raced,      \* two workers have changed the cache at once: it may be anything
    strtok,     \* the worker whose string strtok is in
    file,       \* the table on disk: its rows, and whether it is whole
    short,      \* the rows in it that have too few values
    copy,       \* copy[w]: the table as loadTable gave it to w
    garbled,    \* garbled[w]: strtok was taken from w while it parsed
    alive,      \* FALSE once the process has exited or crashed
    overrun,    \* it crashed because an array was written past its end
    expected    \* history: the rows after the writes completed so far

pool  == <<queue, job, fate>>
rw    == <<writer, readers>>
shown == <<display, displaying>>
parsing == <<strtok, copy, garbled>>
cached == <<cache, raced>>
net   == <<pool, gone, budget, overrun>>
disk  == <<file, short, expected>>
vars  == <<net, pc, cmd, rw, shown, mutex, cached, parsing, disk, alive>>

Pool == INSTANCE TaskQueue
    WITH Tasks <- Clients, NoTask <- NoClient, Capacity <- QueuePlaces, open <- alive

RW == INSTANCE RWLock WITH Threads <- Workers, NoThread <- NoWorker

Nothing == [rows |-> {}, whole |-> TRUE]

Tables == [rows : SUBSET Clients, whole : BOOLEAN]
-----------------------------------------------------------------------------
(* Where a worker can be.                                                  *)

\* Between the two lock calls of a SELECT that found nothing in the cache.
Missed == {"title", "message", "message2", "load", "count", "show", "add", "adding"}

\* Holding rwlock to read (or, after an UPDATE, still to write).
Reading == {"find", "looping", "hit", "fall"} \cup Missed \cup {"unlock_read"}

\* Holding rwlock to write.
Writing == {"insert", "check", "append", "appending", "inserted",
            "parse", "reload", "rewrite", "rewriting", "relock",
            "create", "creating", "unlock"}

Locations == {"idle", "eof", "lock"} \cup Reading \cup Writing

\* Inside a display section the worker waits for display_mutex or holds it.
Displays == {"title", "message", "show", "hit"}

TypeOK ==
    /\ queue \in Seq(Clients) /\ Len(queue) <= QueuePlaces
    /\ job \in [Workers -> Clients \cup {NoClient}]
    /\ fate \in [Clients -> Pool!Fates]
    /\ gone \subseteq Clients
    /\ budget \in 0 .. MaxCommands
    /\ pc \in [Workers -> Locations]
    /\ cmd \in [Workers -> AllCommands]
    /\ RW!TypeOK
    /\ display \in BOOLEAN /\ displaying \subseteq Workers
    /\ mutex \in Workers \cup {NoWorker}
    /\ cache \in Caches /\ raced \in BOOLEAN
    /\ strtok \in Workers \cup {NoWorker}
    /\ file \in Tables /\ copy \in [Workers -> Tables]
    /\ garbled \in [Workers -> BOOLEAN]
    /\ short \subseteq Clients
    /\ alive \in BOOLEAN /\ overrun \in BOOLEAN
    /\ expected \subseteq Clients

Init ==
    /\ Pool!Init
    /\ gone = {} /\ budget = MaxCommands
    /\ pc  = [w \in Workers |-> "idle"]
    /\ cmd = [w \in Workers |-> "unknown"]
    /\ RW!Init
    /\ display = FALSE /\ displaying = {}
    /\ mutex = NoWorker
    /\ cache = CreateCache /\ raced = FALSE
    /\ strtok = NoWorker
    /\ file = Nothing /\ copy = [w \in Workers |-> Nothing]
    /\ garbled = [w \in Workers |-> FALSE]
    /\ short = {}
    /\ alive = TRUE /\ overrun = FALSE
    /\ expected = {}

At(w, l) == alive /\ pc[w] = l
Go(w, l) == pc' = [pc EXCEPT ![w] = l]

\* handleClient's locals of the command that is over (no later one reads them).
Forget(w) ==
    /\ copy' = [copy EXCEPT ![w] = Nothing]
    /\ garbled' = [garbled EXCEPT ![w] = FALSE]

Exit ==
    /\ alive' = FALSE
    /\ UNCHANGED <<net, pc, cmd, rw, shown, mutex, cached, parsing, disk>>
-----------------------------------------------------------------------------
(* main's accept loop, the pool and the clients.                           *)

Connect(c) ==
    /\ alive
    /\ Pool!Accept(c) \/ Pool!Reject(c)
    /\ UNCHANGED <<gone, budget, overrun, pc, cmd, rw, shown, mutex, cached, parsing, disk, alive>>

StartClient(w) ==
    /\ At(w, "idle")
    /\ Pool!Take(w)
    /\ UNCHANGED <<gone, budget, overrun, pc, cmd, rw, shown, mutex, cached, parsing, disk, alive>>

\* A client closes its end; what it sent before can still be read.
Disconnect(c) ==
    /\ alive
    /\ fate[c] \in {"queued", "running"} /\ c \in Leavers \ gone
    /\ gone' = gone \cup {c}
    /\ UNCHANGED <<pool, budget, overrun, pc, cmd, rw, shown, mutex, cached, parsing, disk, alive>>

\* read returns a command and parse names it.
Receive(w, k) ==
    /\ At(w, "idle") /\ job[w] # NoClient
    /\ budget > 0
    /\ budget' = budget - 1
    /\ cmd' = [cmd EXCEPT ![w] = k]
    /\ Go(w, "lock")
    /\ UNCHANGED <<pool, gone, overrun, rw, shown, mutex, cached, parsing, disk, alive>>

Quit(w) ==
    /\ "quit" \in Commands
    /\ At(w, "idle") /\ job[w] # NoClient
    /\ budget > 0
    /\ budget' = budget - 1
    /\ Pool!Finish(w)
    /\ UNCHANGED <<gone, overrun, pc, cmd, rw, shown, mutex, cached, parsing, disk, alive>>

\* default: its message goes to no client (server.c:496).
Ignore(w) ==
    /\ "unknown" \in Commands
    /\ At(w, "idle") /\ job[w] # NoClient
    /\ budget > 0
    /\ budget' = budget - 1
    /\ UNCHANGED <<pool, gone, overrun, pc, cmd, rw, shown, mutex, cached, parsing, disk, alive>>

\* read returns 0, now and ever after (the first time -1, if the connection was
\* reset, and buffer[-1] is written, which is no variable here); parse finds no
\* command in the empty buffer (what it then compares was never set, and is not
\* one in any build seen) and the loop goes round: bytesRead is not looked at.
ReadEOF(w) ==
    /\ At(w, "idle") /\ job[w] \in gone
    /\ Go(w, "eof")
    /\ UNCHANGED <<net, cmd, rw, shown, mutex, cached, parsing, disk, alive>>

\* A second send to a client that closed its end: SIGPIPE, which nobody handles.
BrokenPipe(w) ==
    /\ alive
    /\ job[w] \in gone
    /\ w \in displaying \/ pc[w] \in {"append", "inserted", "rewrite", "creating"}
    /\ Exit

\* A command read so far had a word too long for command[100] or stream[100],
\* which parse fills before any lock is taken, or for an array on the heap: the
\* process may die of it at once or whenever the memory is next used.  What one
\* that lives on does otherwise is not modelled.
Overrun ==
    /\ "overlong" \in Commands
    /\ alive /\ budget < MaxCommands
    /\ alive' = FALSE /\ overrun' = TRUE
    /\ UNCHANGED <<pool, gone, budget, pc, cmd, rw, shown, mutex, cached, parsing, disk>>
-----------------------------------------------------------------------------
(* The lock calls of handleClient.                                         *)

SharedInserts(w) ==     \* TakeLock, INSERT taking the lock to read
    IF cmd[w] \in Selects \cup Inserts THEN RW!RdLock(w) ELSE RW!WrLock(w)

SharedRewrites(w) ==    \* TakeLock, UPDATE and DELETE taking the lock to read
    IF cmd[w] \in Selects \cup {"update", "delete"} THEN RW!RdLock(w) ELSE RW!WrLock(w)

UnlockedSelects(w) ==   \* TakeLock, SELECT taking no lock
    IF cmd[w] \in Selects THEN UNCHANGED rw ELSE RW!WrLock(w)

TakeLock(w) == IF cmd[w] \in Selects THEN RW!RdLock(w) ELSE RW!WrLock(w)

Body(k) ==
    CASE k \in Selects -> "find"
      [] k \in Inserts -> "insert"
      [] k \in {"create", "create_untyped"} -> "create"
      [] OTHER         -> "parse"

Lock(w) ==
    /\ At(w, "lock")
    /\ TakeLock(w)
    /\ Go(w, Body(cmd[w]))
    /\ UNCHANGED <<net, cmd, shown, mutex, cached, parsing, disk, alive>>

UnlockTwice(w) ==   \* UnlockRead, the call made twice
    /\ At(w, "unlock_read")
    /\ readers' = readers - 2 /\ UNCHANGED writer
    /\ Go(w, "idle")
    /\ Forget(w)
    /\ UNCHANGED <<net, cmd, shown, mutex, cached, strtok, disk, alive>>

KeepRead(w) ==      \* UnlockRead, the call left out
    /\ At(w, "unlock_read")
    /\ Go(w, "idle")
    /\ Forget(w)
    /\ UNCHANGED <<net, cmd, rw, shown, mutex, cached, strtok, disk, alive>>

UnlockRead(w) ==
    /\ At(w, "unlock_read")
    /\ RW!Unlock(w)
    /\ Go(w, "idle")
    /\ Forget(w)
    /\ UNCHANGED <<net, cmd, shown, mutex, cached, strtok, disk, alive>>

KeepWrite(w) ==     \* UnlockWrite, the call left out
    /\ At(w, "unlock")
    /\ Go(w, "idle")
    /\ Forget(w)
    /\ UNCHANGED <<net, cmd, rw, shown, mutex, cached, strtok, disk, alive>>

UnlockWrite(w) ==
    /\ At(w, "unlock")
    /\ RW!Unlock(w)
    /\ Go(w, "idle")
    /\ Forget(w)
    /\ UNCHANGED <<net, cmd, shown, mutex, cached, strtok, disk, alive>>

\* UPDATE asks for the lock again (server.c:473) and goes on with EDEADLK.
Relock(w) ==
    /\ At(w, "relock")
    /\ RW!WrLock(w)
    /\ Go(w, "idle")
    /\ Forget(w)
    /\ UNCHANGED <<net, cmd, shown, mutex, cached, strtok, disk, alive>>

\* SELECT that found its result cached falls through to case 1.
FallThrough(w) ==
    /\ At(w, "fall")
    /\ RW!WrLock(w)
    /\ Go(w, "insert")
    /\ UNCHANGED <<net, cmd, shown, mutex, cached, parsing, disk, alive>>
-----------------------------------------------------------------------------
(* SELECT                                                                  *)

\* The string looked up, and the one strtok has left of it when it is added.
Text(k) == IF k = "select_bare" THEN "SELECT " ELSE k
Stub(k) == IF k \in {"select_where", "select_plain"} THEN "SELECT" ELSE "SELECT "

Adders == {v \in Workers : pc[v] = "adding"}

\* Two workers change the list at once, or have: it may be anything.
Damaging == raced \/ Cardinality(Adders) >= 2

\* The list as it is and, beside an addition, as it is about to be.
Lists ==
    {cache} \cup {AddToCache(cache, Stub(cmd[v])) :
                    v \in {u \in Adders : ~Loops(cache, Stub(cmd[u]))}}

\* What findInCache can come to.  Beside a single addToCache it sees the list
\* as it was or as it will be, or misses the entry that is being moved
\* (SharedCache: LookupsAgree).
Found(q) ==
    IF Damaging THEN {"miss", "loop"} \cup (IF q \in Queries THEN {"hit"} ELSE {})
    ELSE {IF Loops(c, q) THEN "loop" ELSE IF Hit(c, q) THEN "hit" ELSE "miss" :
            c \in Lists}
         \cup {"miss" : v \in {u \in Adders : Stub(cmd[u]) = q}}

\* comportamentSelect, up to the first thing that waits.
Branch(k) ==
    CASE k \in {"select_all", "select_missing"} -> "title"
      [] k = "select_bare" -> "message"
      [] OTHER -> "load"

Find(w) ==
    /\ At(w, "find")
    /\ \E found \in Found(Text(cmd[w])) :
         /\ Go(w, CASE found = "hit"  -> "hit"
                    [] found = "loop" -> "looping"
                    [] found = "miss" -> Branch(cmd[w]))
         /\ strtok' = IF found = "miss" THEN w ELSE strtok
    /\ UNCHANGED <<net, cmd, rw, shown, mutex, cached, copy, garbled, disk, alive>>

EnterUnlocked(w) ==     \* EnterDisplay, the mutex not waited for
    /\ alive /\ pc[w] \in Displays /\ w \notin displaying
    /\ display' = TRUE
    /\ displaying' = displaying \cup {w}
    /\ UNCHANGED <<net, pc, cmd, rw, mutex, cached, parsing, disk, alive>>

\* display_mutex is taken, whoever holds it lets it go: both unlocks of the
\* bare SELECT (server.c:187, 191) succeed.
EnterDisplay(w) ==
    /\ alive /\ pc[w] \in Displays /\ w \notin displaying
    /\ ~display
    /\ display' = TRUE
    /\ displaying' = displaying \cup {w}
    /\ UNCHANGED <<net, pc, cmd, rw, mutex, cached, parsing, disk, alive>>

LeaveDisplay(w) ==
    /\ alive /\ w \in displaying
    /\ display' = FALSE
    /\ displaying' = displaying \ {w}
    /\ Go(w, CASE pc[w] = "title"   -> "load"
               [] pc[w] = "message" -> "message2"
               [] pc[w] = "show"    -> "add"
               [] pc[w] = "hit"     -> "fall")
    /\ UNCHANGED <<net, cmd, rw, mutex, cached, parsing, disk, alive>>

UnlockDisplay(w) ==
    /\ At(w, "message2")
    /\ display' = FALSE
    /\ Go(w, "add")
    /\ UNCHANGED <<net, cmd, rw, displaying, mutex, cached, parsing, disk, alive>>

\* parseSelect ends (strtok has been its own all the while, or not) and
\* loadTable begins; a table without a file is a null pointer that is used.
Load(w) ==
    /\ At(w, "load") /\ cmd[w] # "select_missing"
    /\ garbled' = [garbled EXCEPT ![w] = cmd[w] # "select_all" /\ strtok # w]
    /\ strtok'  = w
    /\ copy'    = [copy EXCEPT ![w] = file]
    /\ Go(w, "count")
    /\ UNCHANGED <<net, cmd, rw, shown, mutex, cached, disk, alive>>

LoadMissing(w) == At(w, "load") /\ cmd[w] = "select_missing" /\ Exit

Disturbed(w) == garbled[w] \/ strtok # w

\* loadTable counts the lines of the file once more and ends.
Count(w) ==
    /\ At(w, "count")
    /\ garbled' = [garbled EXCEPT ![w] = Disturbed(w)]
    /\ Go(w, IF cmd[w] = "select_plain" THEN "add" ELSE "show")
    /\ UNCHANGED <<net, cmd, rw, shown, mutex, cached, strtok, copy, disk, alive>>

\* Tokens that went to another worker are missing here: a null pointer.
CountCrashes(w) == At(w, "count") /\ Disturbed(w) /\ Exit

\* addToCache, from its first look at the list to its last change of it.
BeginAdd(w) ==
    /\ At(w, "add")
    /\ Go(w, "adding")
    /\ UNCHANGED <<net, cmd, rw, shown, mutex, cached, parsing, disk, alive>>

EndAdd(w) ==
    /\ At(w, "adding")
    /\ IF Damaging
       THEN /\ raced' = TRUE
            /\ Go(w, "unlock_read") \/ Go(w, "looping")
            /\ UNCHANGED cache
       ELSE IF Loops(cache, Stub(cmd[w]))
            THEN Go(w, "looping") /\ UNCHANGED cached
            ELSE /\ cache' = AddToCache(cache, Stub(cmd[w]))
                 /\ Go(w, "unlock_read")
                 /\ UNCHANGED raced
    /\ UNCHANGED <<net, cmd, rw, shown, mutex, parsing, disk, alive>>
-----------------------------------------------------------------------------
(* INSERT; a SELECT that fell through has no parenthesis and is invalid.   *)

Insert(w) ==
    /\ At(w, "insert")
    /\ mutex = NoWorker
    /\ mutex'   = w
    /\ strtok'  = w
    /\ Go(w, "check")
    /\ UNCHANGED <<net, cmd, rw, shown, cached, copy, garbled, disk, alive>>

\* loadTable has ended; the values are compared with the columns' types.
CheckValues(w) ==
    /\ At(w, "check") /\ cmd[w] # "insert_mistyped"
    /\ garbled' = [garbled EXCEPT ![w] = Disturbed(w)]
    /\ IF cmd[w] \in {"insert", "insert_short"}
       THEN Go(w, "append") /\ UNCHANGED mutex
       ELSE Go(w, "unlock") /\ mutex' = NoWorker
    /\ UNCHANGED <<net, cmd, rw, shown, cached, strtok, copy, disk, alive>>

CheckExits(w) == At(w, "check") /\ cmd[w] = "insert_mistyped" /\ Exit

\* append_to_file_values writes value by value.
BeginAppend(w) ==
    /\ At(w, "append")
    /\ file' = [file EXCEPT !.whole = FALSE]
    /\ Go(w, "appending")
    /\ UNCHANGED <<net, cmd, rw, shown, mutex, cached, parsing, short, expected, alive>>

EndAppend(w) ==
    /\ At(w, "appending")
    /\ file' = [rows |-> file.rows \cup {job[w]}, whole |-> TRUE]
    /\ short' = IF cmd[w] = "insert_short" THEN short \cup {job[w]} ELSE short
    /\ expected' = expected \cup {job[w]}
    /\ Go(w, "inserted")
    /\ UNCHANGED <<net, cmd, rw, shown, mutex, cached, parsing, alive>>

EndInsert(w) ==
    /\ At(w, "inserted")
    /\ mutex' = NoWorker
    /\ Go(w, "unlock")
    /\ UNCHANGED <<net, cmd, rw, shown, cached, parsing, disk, alive>>
-----------------------------------------------------------------------------
(* UPDATE and DELETE load the table, change it and write it anew; CREATE   *)
(* writes an empty one.                                                    *)

\* parseUpdate, parseDelete; the latter prints under the parser's mutex.
Parse(w) ==
    /\ At(w, "parse") /\ cmd[w] # "malformed"
    /\ cmd[w] = "delete" => mutex = NoWorker
    /\ strtok'  = w
    /\ Go(w, "reload")
    /\ UNCHANGED <<net, cmd, rw, shown, mutex, cached, copy, garbled, disk, alive>>

ParseExits(w) == At(w, "parse") /\ cmd[w] = "malformed" /\ Exit

Reload(w) ==
    /\ At(w, "reload")
    /\ garbled' = [garbled EXCEPT ![w] = Disturbed(w)]
    /\ strtok'  = w
    /\ copy'    = [copy EXCEPT ![w] = file]
    /\ Go(w, "rewrite")
    /\ UNCHANGED <<net, cmd, rw, shown, mutex, cached, disk, alive>>

\* loadTable ends; scrieTabelInFisier opens the file with "w".
BeginRewrite(w) ==
    /\ At(w, "rewrite")
    /\ garbled' = [garbled EXCEPT ![w] = Disturbed(w)]
    /\ file'    = [rows |-> {}, whole |-> FALSE]
    /\ Go(w, "rewriting")
    /\ UNCHANGED <<net, cmd, rw, shown, mutex, cached, strtok, copy, short, expected, alive>>

\* The rows scrieTabelInFisier writes.
Changed(w, rows) == IF cmd[w] = "delete" THEN rows \ {job[w]} ELSE rows

\* For the values that are not there it writes what the pointers hold: the row is
\* complete after that, or (an empty text) still short.
EndRewrite(w) ==
    /\ At(w, "rewriting")
    /\ short' \in SUBSET (Changed(w, copy[w].rows) \cap short)
    /\ file'     = [rows |-> Changed(w, copy[w].rows), whole |-> copy[w].whole]
    /\ expected' = Changed(w, expected)
    /\ Go(w, IF cmd[w] = "update" THEN "relock" ELSE "unlock")
    /\ UNCHANGED <<net, cmd, rw, shown, mutex, cached, parsing, alive>>

\* loadTable leaves a pointer unset for every value a short row does not have.
\* SELECT prints it, UPDATE and DELETE compare and free it, and scrieTabelInFisier
\* prints it into the file that it has just emptied.
UnsetCrashes(w) ==
    /\ \/ /\ At(w, "count") \/ At(w, "show") \/ At(w, "rewrite")
          /\ copy[w].rows \cap short # {}
       \/ At(w, "rewriting") /\ Changed(w, copy[w].rows) \cap short # {}
    /\ Exit

\* parseCreateTable: creareFisier empties the file before the columns are read.
BeginCreate(w) ==
    /\ At(w, "create")
    /\ strtok'  = w
    /\ file'    = [rows |-> {}, whole |-> FALSE]
    /\ short'   = {}
    /\ Go(w, "creating")
    /\ UNCHANGED <<net, cmd, rw, shown, mutex, cached, copy, garbled, expected, alive>>

EndCreate(w) ==
    /\ At(w, "creating") /\ cmd[w] = "create"
    /\ mutex = NoWorker
    /\ garbled'  = [garbled EXCEPT ![w] = Disturbed(w)]
    /\ file'     = [rows |-> {}, whole |-> TRUE]
    /\ expected' = {}
    /\ Go(w, "unlock")
    /\ UNCHANGED <<net, cmd, rw, shown, mutex, cached, strtok, copy, short, alive>>

\* A missing type is a null pointer (SQLParser.c:575); and salveazaTabel goes
\* through numarRanduri rows of none, a field parseCreateTable leaves unset.
CreateCrashes(w) == At(w, "creating") /\ Exit
-----------------------------------------------------------------------------
SelectStep(w) ==
    \/ Find(w) \/ EnterDisplay(w) \/ LeaveDisplay(w) \/ UnlockDisplay(w)
    \/ Load(w) \/ LoadMissing(w) \/ Count(w) \/ CountCrashes(w)
    \/ BeginAdd(w) \/ EndAdd(w) \/ UnlockRead(w) \/ FallThrough(w)

WriteStep(w) ==
    \/ Insert(w) \/ CheckValues(w) \/ CheckExits(w)
    \/ BeginAppend(w) \/ EndAppend(w) \/ EndInsert(w)
    \/ Parse(w) \/ ParseExits(w) \/ Reload(w) \/ BeginRewrite(w) \/ EndRewrite(w)
    \/ UnsetCrashes(w)
    \/ BeginCreate(w) \/ EndCreate(w) \/ CreateCrashes(w)
    \/ UnlockWrite(w) \/ Relock(w)

\* What a worker does on its own once it has read a command.
Worker(w) == Lock(w) \/ SelectStep(w) \/ WriteStep(w)

Next ==
    \/ \E c \in Clients : Connect(c) \/ Disconnect(c)
    \/ Overrun
    \/ \E w \in Workers :
         \/ StartClient(w)
         \/ \E k \in Commands \ {"unknown", "quit", "overlong"} : Receive(w, k)
         \/ Quit(w) \/ Ignore(w)
         \/ ReadEOF(w)
         \/ BrokenPipe(w)
         \/ Worker(w)

Spec == Init /\ [][Next]_vars

(***************************************************************************)
(* The scheduler runs every thread that can run, and a client reads what   *)
(* it is sent, so that no send blocks for ever.  Nothing makes a client    *)
(* send, or go.                                                            *)
(***************************************************************************)
FairSpec == Spec /\ \A w \in Workers : WF_vars(Worker(w) \/ ReadEOF(w))
-----------------------------------------------------------------------------
(* Properties.                                                             *)

HoldsRead(w) == pc[w] \in Reading /\ writer # w

\* The lock and the code agree: the readers glibc counts are the workers inside
\* a SELECT that do not own the lock, every worker inside another command owns
\* it, and nobody reads while somebody writes.
LockAccounting ==
    /\ readers = Cardinality({w \in Workers : HoldsRead(w)})
    /\ \A w \in Workers : pc[w] \in Writing => writer = w
    /\ writer # NoWorker => readers = 0

\* A worker that waits for its client's next command, or for a client, owns
\* the lock only if the last command it executed was an UPDATE.
IdleOwnsOnlyAfterUpdate ==
    \A w \in Workers :
        writer = w /\ pc[w] \in {"idle", "eof"} => cmd[w] = "update"

\* A SELECT reads a whole table, the one all completed writes made, and it is
\* still the current one when the answer has been shown.
SelectShowsCurrentTable ==
    \A w \in Workers :
        pc[w] \in {"count", "show"} => copy[w] = [rows |-> expected, whole |-> TRUE]

\* Load-change-rewrite loses no concurrent write.
NoLostUpdate == file.whole => file.rows = expected

\* A command that writes always has strtok to itself: no table is written that
\* was parsed with another worker's tokens.
WritersParseAlone ==
    \A w \in Workers : pc[w] \in Writing => ~garbled[w]

\* The process may die in any worker at any time (an exit in a parser, a null
\* pointer in a SELECT, a broken pipe), and yet only three ways to die find a
\* table half written: CREATE, which has emptied it, crashes or has lost its
\* client; UPDATE or DELETE prints a value that a short row does not have
\* (gestionareTabele.c:630); or an array was written past its end.
OnlyTheseDeathsTear ==
    ~alive =>
        \/ file.whole
        \/ overrun
        \/ \E w \in Workers : pc[w] = "creating"
        \/ \E w \in Workers :
              pc[w] = "rewriting" /\ Changed(w, copy[w].rows) \cap short # {}

\* SQLParser.c's mutex adds nothing to rwlock: no worker ever waits for it.
MutexNeverContended ==
    \A w \in Workers :
        \/ pc[w] \in {"insert", "creating"}
        \/ pc[w] = "parse" /\ cmd[w] = "delete"
        => mutex = NoWorker

\* Answers do not mix: one display section at a time.
OneAtDisplay ==
    /\ Cardinality(displaying) <= 1
    /\ displaying # {} => display

\* A cache that findInCache can go round in.
CacheDamaged == raced \/ HeadLoops(cache)

\* Without UPDATE and without cached results, every command that was read is
\* executed to its end, unless the process dies or the cache is damaged.
CommandsComplete ==
    \A w \in Workers : pc[w] = "lock" ~> (pc[w] = "idle" \/ ~alive \/ CacheDamaged)

\* Every command that was read is executed to its end, unless the process dies.
EveryCommandCompletes ==
    \A w \in Workers : pc[w] = "lock" ~> (pc[w] = "idle" \/ ~alive)

\* A client that has left keeps no worker.
LeaverFreesItsWorker ==
    \A w \in Workers : job[w] \in gone ~> (job[w] = NoClient \/ ~alive)

\* Clients that SELECT at the same time get what they would get alone.
SelectsDoNotInterfere ==
    \A w \in Workers : pc[w] = "show" => ~garbled[w]
=============================================================================
