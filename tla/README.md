# A verification project for Mini-Database-Server

Mini-Database-Server is a small SQL server in C: a thread pool serves TCP
clients, each worker parses the commands of one client and executes them on
tables that are text files. This directory holds TLA+ modules that model it,
configurations that model-check them with TLC, and proofs checked by TLAPS.
Paths are relative to `src/Server/`.

## 1. Inventory

| Component | State it keeps | Operations | Shared with |
|---|---|---|---|
| Thread pool (`threadPool.c`) | ring of 10 tasks, front, rear, shutdown | create, worker loop, add, destroy | `main` adds, 4 workers take |
| Connections (`server.c`: `main`, `handleClient`) | per worker: socket, buffer, command | accept or reject, read, dispatch, QUIT | everything below |
| Command execution (`server.c`: `comportament*`) | `rwlock`, `display_mutex` | SELECT, INSERT, UPDATE, DELETE, CREATE | all workers |
| SQL parser (`SQLParser.c`) | a mutex; the hidden position of `strtok` | parse, parseSelect ... parseDelete | all workers |
| Query cache (`cache.c`) | doubly linked list of at most 10 entries | find, add (move to front, evict) | all workers, under the *read* lock |
| Row search (`BST.c`) | a tree per command | build, search for =, !=, <, <=, >, >= | nobody |
| Table storage (`gestionareTabele.c`) | one file per table, `master` | load, save, rewrite, append, delete row | all workers, backup |
| Backup (`server.c`) | `backup/` | copy each file of `master` every 300 s | the files, under no lock |
| Clients (`Client.c`, `ClientMultiThread.c`, `script_clienti.py`) | a socket | send, read, close | the server |
| Paging (`paginare.c`), trial mains (`main.c`, `test.c`) | none | not part of the server | nobody |

How they interact: `main` accepts a connection and adds a task to the ring; a
worker takes it and stays with this client until it says QUIT. Every command
takes `rwlock` (SELECT to read, the others to write) and, inside it,
`display_mutex` around what is shown and the parser's `mutex`. SELECT looks into
the cache first and adds to it last, both under the read lock.

What is hard here:

- *The hand-off*: one `pthread_cond_signal` per task, workers that come back and
  steal, spurious wake-ups, a ring that keeps one slot free, shutdown.
- *Misuse of locks whose results nobody looks at*: UPDATE locks twice and never
  unlocks; a cached SELECT falls through to INSERT and asks for the write lock
  while it reads; a SELECT without FROM unlocks `display_mutex` twice.
- *State that the read lock does not protect*: the cache list and `strtok`.
- *Every way the process can die* while other workers write: `exit` in a parser,
  null tables, null tokens, SIGPIPE, pointers that a short row leaves unset, words
  longer than the arrays `parse` copies them to before any lock.
- *Clients that leave*, which `handleClient` does not notice.
- *Loops whose bound moves*: DELETE corrects row numbers up to a row count that
  is shrinking.
- *Files rewritten in place*, with a backup thread that takes no lock, and a
  process that may end between any two writes.
- *A file format that lies about itself*: `salveazaTabel` computes a size that
  is one or two bytes short, `append_to_file_values` guesses from the number of
  newlines whether this has happened, `loadTable` counts lines instead of storing
  how many rows there are.
- *Input that nobody checks*: rows with too few or too many values, values with a
  tab or a newline in them, columns of a type that is not known.

What makes each component correct:

- pool: every accepted task is executed once, in order; nobody sleeps while a
  task waits; shutdown ends and frees nothing that is in use;
- cache: an LRU list of bounded length, with no path to freed memory;
- commands: readers see whole, current tables; no write is lost; a command that
  was read is executed to its end; answers do not mix; it is known which deaths tear a table;
- rows: exactly the rows of the WHERE clause are found, changed or removed;
- storage: a table loads as the rows and columns it was given; a command cut
  short by a crash harms nothing it did not have to touch; the backup is a state
  the file was in, and follows the file.

## 2. Modules

| Module | What it is |
|---|---|
| `ThreadPool` | `threadPool.c`, one action per critical section |
| `TaskQueue` | the bounded FIFO hand-off the pool promises; implemented by `ThreadPool`, used by `Server` in its place |
| `MCThreadPool` | an instance for TLC |
| `ThreadPool_proofs` | invariants and refinement, proved |
| `CacheList` | `cache.c` as operators on a record of pointers |
| `LRUList` | what `cache.c` says the list is |
| `Cache` | the list with one user at a time |
| `SharedCache`, `MCCache` | an addition store by store beside a lookup; implements `Cache` |
| `CacheList_proofs`, `Cache_proofs` | the operators of the list, and the invariants of both specifications, proved |
| `RWLock` | `pthread_rwlock_t` as glibc has it (external) |
| `Server`, `MCServer` | `main`, `handleClient` and the commands; composes `TaskQueue`, `RWLock` and `CacheList` |
| `Server_proofs` | its safety invariants, proved |
| `TableRows` | `BST.c` and the UPDATE and DELETE loops |
| `TableRows_proofs` | the searches, UPDATE and DELETE, proved |
| `TableFile` | what is written to the file of a table, and what `loadTable` reads back, as operators |
| `Storage`, `MCStorage` | file, `master` and backup of a table through commands, crashes and restarts |
| `TableFile_proofs` | what the operators of `TableFile` make of a text, and that what is written line by line is what the reader cuts out again, proved |
| `Storage_proofs` | its safety invariants, proved: tables survive, and the backup is a prefix |
| `Recursion_proofs` | induction up to a bound, and that functions defined by recursion on the index before exist |

Correspondence of state and code:

- **ThreadPool.** `task_queue`, `queue_front`, `queue_rear`, `shutdown` are the
  fields of the struct; `pc[w]` and `task[w]` the position and locals of a worker;
  `phase` and `count` the thread that creates, fills and destroys the pool; `fate`
  is a history variable. The critical sections under `queue_mutex` are atomic:
  all accesses to the ring are inside them. Waiting on the condition variable is
  a location of its own, and a woken worker evaluates the loop condition anew.
- **Cache.** A pointer is an address or NULL, an entry has `query`, `prev`,
  `next`; `live` is the set of allocated blocks. `Loops` is the condition under
  which `findInCache` never returns. Results are left out: no list operation
  depends on them.
- **SharedCache.** `heap` is the memory `addToCache` works on, `cache` the list
  after the last complete addition. `addToCache` is cut at each store a lookup can
  see (a `next` pointer, `head`, a freed block), in source order: the Makefile
  asks for no optimisation. `current` is the local of `findInCache`; a lookup that
  stands on a freed block is `lost`. `must` and `may` are history variables: the
  entry sought has stayed in its place, or has been in the list at all, since
  the lookup began. There is one addition and one lookup at a time; a second
  addition is the race `Server` calls `raced`, a second lookup changes nothing.
- **Server.** One table stands for all: `rwlock` is global and every command
  holds it. `file` is the table on disk, `rows` the clients whose row it has,
  `whole` FALSE between the truncation and the end of a write; `copy[w]` is what
  `loadTable` gave worker w; `expected` is a history variable, the rows after
  the completed writes. `strtok` is the worker whose string `strtok` is in; a
  worker that finds it taken has a `garbled` parse. Steps are cut where another
  worker could see the difference: at lock calls, at `strtok` switches, at the
  beginning and the end of file writes and of `addToCache`. A command is one of
  `AllCommands`, the cases the code tells apart. `eof` is the loop that goes
  round on a closed connection. `short` has the rows in the file that were
  inserted with fewer values than there are columns: `loadTable` leaves pointers
  unset for them, and `UnsetCrashes` is the death of whoever follows one, in
  `scrieTabelInFisier` after the file has been emptied among others. `Overrun` is
  the death of a process that has read a command with a word longer than the
  arrays it is copied to: 100 bytes in `parse`, before any lock, or as few as 20
  on the heap. It may come at any time from then on, and `overrun` records it.
- **TableRows.** A row is its number, its value in the WHERE column and whether
  UPDATE has set it; values are ordered as `strcmp` orders them. A tree is the
  sequence of its nodes in the order of `malloc`, `left` and `right` are places in
  it, 0 is NULL. `Passed` is the way `insert` takes; each of the searches is the
  function from nodes to results that the C function computes by calling itself.
- **TableFile.** A file is a sequence of tokens: the name, the count of columns
  digit by digit, a column's type and, as a token of its own, the last character
  of that type, words of values, spaces, tabs, newlines, and the zero bytes of
  `ftruncate`. Sizes are counted in tokens, which keeps what is short of what and
  by how much. `Header`, `FileSize` and `CreatedText` are `salveazaTabel`,
  `TableText` is `scrieTabelInFisier`, `AppendedPieces` and `Guess` are
  `append_to_file_values`, `LoadTable` is `loadTable`.
- **Storage.** `file`, `listed` and `backup` are what is on disk; `op`, `types`
  and `todo` the command under way and the `write` calls it has still to make;
  `copier`, `pos` and `buf` are `copyFile` and its two stdio buffers. `table`,
  `pending`, `damage` and `steady` are history variables: the table the completed
  commands ask for, the one the command under way asks for, what a crash has put
  in doubt, and whether the file has been emptied since it was opened to copy.
  There is one command at a time, because writers hold `rwlock` (`Server`); the
  backup thread takes no lock and runs between any two writes. `Crash` ends the
  process at any point (a signal from outside, or a worker that dies beside this
  one) and may or may not flush what stdio holds; what was written stays written.
  `DieWriting` is the end a command makes itself between two writes: CREATE at a
  type that is missing or that it has not set, UPDATE and DELETE at a value nobody
  set. `Fails` is every command that
  ends the process before it writes. `ListTable` and `NameTable` are the two writes
  to `master`; after a crash between them `master` has an empty line, which names
  no table. Memory nobody set holds any of `Garbage`: CREATE writes
  what it finds where a type it does not know should be (`TypesSet`), UPDATE and
  DELETE write what an unset pointer leads to (`StartScribble`, `ScribblePiece`).

Left out of the branches on purpose: the last `else` of `comportamentUpdate` and
`comportamentDelete` (server.c:282, 376), with its extra lock calls, is not
reachable: the parsers exit on an operator that is not one of the six.

Undefined behaviour is a choice over outcomes: after two workers have changed
the cache at once (`raced`) a lookup hits, misses or loops; a `strtok` taken
away gives a mangled parse or a null pointer; `parseCreateTable` saves a table
whose row count was never set, and survives or not; a type that was never set
is garbage or ends the process, and so is a value whose pointer was never set; a
process that has run past the end of an array dies at some later point or not,
and what one that lives on does otherwise is not modelled. `parse` compares an unset
buffer after the end of a connection; every build tried found no command in it.

## 3. What TLC checks

| Run | Shows |
|---|---|
| `pool` | `NoLostWakeup`, `ExactlyOneRunner`, `FreedWhenUnused`, `NobodySleepsThroughShutdown`; work conservation and the end of `destroyThreadPool`; refinement of `TaskQueue` |
| `cache` | the head that follows itself is the only damage (`OnlyHeadLoops`); no freed entry is reached even then; sizes are honest; short of it the list is LRU; store by store, an addition does what `Cache` says at once (`AddsAreAtomic`); a lookup beside it misses only what was moved, removed or never there (`LookupsAgree`) |
| `server` | with every command, clients that leave and every crash: who owns the lock when (`LockAccounting`, `IdleOwnsOnlyAfterUpdate`), SELECT shows the current table, no update is lost, writers parse alone, only three kinds of death leave a torn table (`OnlyTheseDeathsTear`), the parser's mutex is redundant |
| `server_live` | without UPDATE and SELECT without FROM, every command ends unless the process dies or the cache is damaged; answers do not mix |
| `rows` | search, UPDATE and DELETE of up to two rows are exact; DELETE keeps the order |
| `storage` | after any commands, wrong size and guessed newline included, a table loads as the rows (`RowsSurvive`) and types (`TypesSurvive`) it was given, with the exceptions named below; an INSERT cut short costs no earlier row (`AppendKeepsRows`); a copy made beside INSERTs is a prefix of the file (`BackupIsPrefix`); a server left alone backs its table up (`EventuallyBackedUp`) |

Six runs find disagreements between the code and what the repository says:

| Run | Finding |
|---|---|
| `server_update` | an UPDATE keeps the lock (server.c:473); the next client waits for ever |
| `server_repeat` | the third SELECT * in a row is never answered (cache.c:49-53) |
| `server_leave` | a client that closes without QUIT keeps its worker (server.c:406) |
| `server_selects` | concurrent SELECTs take each other's tokens |
| `rows_delete` | DELETE of three rows can remove the wrong one (server.c:344) |
| `storage_backup` | a crash in UPDATE or DELETE, and a round of the backup thread, lose table and copy (server.c:581) |

`OnlyTheseDeathsTear` names the deaths that find a table half written: in CREATE,
which has emptied the file before it reads the columns; in UPDATE or DELETE, at a
value that a short row does not have (gestionareTabele.c:630, after the `fopen` of
line 598); and after an array was written past its end. All the others (`exit` in
a parser, a null table, a null token, SIGPIPE) leave every table whole.

`RowsSurvive` and `TypesSurvive` state what the format keeps, and so name what
it does not:

- a value that is neither the first nor the last may come back with a space
  behind it (SQLParser.c:260);
- a row that is not `Tidy`, that is, which has too few or too many values, an
  empty one, one with a tab or a newline in it, or a first one of two words, comes
  back as something else (gestionareTabele.c:492, 504); what is promised is that
  it takes as many lines as it was written with, so that the rows around it are
  found where they are;
- nothing is promised of the rows after a crash inside a command (the rows before
  an INSERT that was cut short are the business of `AppendKeepsRows`), after an
  UPDATE that has set a value with a tab or a newline, after an UPDATE or
  DELETE of a table with a value nobody set, and after a CREATE with a type other
  than INT, VARCHAR and DATE or with no column, each until the table is created
  anew;
- the last column of a table of ten columns or more loses the last character of
  its type (gestionareTabele.c:271: the line with the count is left out of the
  size, and has one byte more);
- a type other than INT, VARCHAR and DATE is never set (SQLParser.c:575-599), and
  `TypesSurvive` promises nothing of the table it is in.

Bounds, and why they are enough:

- `pool`: two workers are enough for a signal to wake the wrong one; a ring of
  three slots fills with two tasks and wraps with the third; five tasks go round
  more than once. The proofs cover all other sizes.
- `cache`: three places and four queries give a head, an inner entry and a tail
  to move or evict, and a query that is not there.
- `server`: two workers, two clients, four commands (`MaxCommands`, a bound in
  the guards of the reading actions): enough for a pair of commands that disturb
  each other and a pair that sees the result. `CACHE_CAPACITY` 2 and the only two
  keys `strtok` leaves of any SELECT. Workers and clients are symmetric (safety
  only). The bound ends every stream of commands, so the starvation of writers
  by a stream of SELECTs, which glibc's preference for readers allows, cannot
  show.
- `server_live`: three commands, no symmetry.
- `storage`: two commands (`MaxCommands`) after a start from no table, a table
  the repository ships or one just created: a command is thus tried on every
  result of another. Two crashes (`MaxCrashes`): one may leave half a row and
  another cut the INSERT that continues it. `Ten`, the number of columns whose
  count has two digits, is 3 instead of 10, so that three columns show what ten
  do. `Block` is twelve tokens instead of stdio's 4096 bytes: the files have up
  to some thirty, so that copies and rewrites take one to three blocks. Five
  rows to insert: one tidy for each table, one of a first value of two words,
  one of two lines, one too short for any table; the tidy one of the wider table
  has a value too many for the narrow one. Three schemas: two columns, three (`Ten`), and one with a type that is not
  known. Two shipped files, one like `OAMENI`, with a value more than it has
  columns and no tab after the last column, and one like `STUDENTI`, with no tab
  after the last row. UPDATE sets a value with a tab or without.
- `storage_backup`: one command and one crash are enough.
- `rows`: five rows of three values give every tree of up to five nodes that
  three keys make, with runs of equal values; the deletion error needs three.

Deadlock checking is off where the system may stop: the pool is freed, the
cache loops, the process has died, no table is there to copy, all commands are
used up.

Fairness. In `ThreadPool` a worker that can run runs, and so does the thread
inside `destroyThreadPool`; nothing makes a task return or anybody shut down. In
`Server` a worker in the middle of a command, or at the end of its connection,
takes its next step if it can: the scheduler's promise for a runnable thread
and, for a `send`, that the client reads what it is sent, without which the send
blocks under the lock. Fairness is weak: a worker waiting for a lock that others
take again and again need not get it. Nothing makes a client send or leave. In `Storage` a command that
has begun goes on and the backup thread wakes up and copies (`sleep` ends, and no
lock can hold it); nothing makes anybody restart a server that has died, so
`EventuallyBackedUp` assumes one that stays up. `SharedCache` states no fairness.

Every property of a passing run comes with a mutant, an operator beside the
original that differs by a plausible slip (`NoSignal`, `KeepLink`,
`SharedInserts`, ...): put in the original's place it breaks the property.

## 4. What is proved

Every theorem is about all values of the constants that satisfy the assumptions
of its module; the runs show the same properties on one instance.

| Module | Theorem | Statement |
|---|---|---|
| `ThreadPool_proofs` | `TypeCorrect` | `Spec => []TypeOK` |
| | `FreedWhenUnusedHolds` | `Spec => []FreedWhenUnused` |
| | `NobodySleepsHolds` | `Spec => []NobodySleepsThroughShutdown` |
| | `NoLostWakeupHolds` | `Spec => []NoLostWakeup` |
| | `ExactlyOneRunnerHolds` | `Spec => []ExactlyOneRunner` |
| | `PoolRefines` | `Spec => ImplementsTaskQueue` |
| `Server_proofs` | `TypeCorrect` | `Spec => []TypeOK` |
| | `LockAccountingHolds` | `Spec => []LockAccounting` |
| | `IdleOwnsOnlyAfterUpdateHolds` | `Spec => []IdleOwnsOnlyAfterUpdate` |
| | `MutexNeverContendedHolds` | `Spec => []MutexNeverContended` |
| | `WritersParseAloneHolds` | `Spec => []WritersParseAlone` |
| | `NoLostUpdateHolds` | `Spec => []NoLostUpdate` |
| | `SelectShowsCurrentTableHolds` | `Spec => []SelectShowsCurrentTable` |
| | `OnlyTheseDeathsTearHolds` | `Spec => []OnlyTheseDeathsTear` |
| | `OneAtDisplayHolds` | `Spec => []OneAtDisplay`, if no SELECT comes without FROM |
| `Cache_proofs` | `CacheTypeCorrect` | `Spec => []TypeOK` |
| | `OnlyHeadLoopsHolds` | `Spec => []OnlyHeadLoops` |
| | `NoFreedEntryReachedHolds` | `Spec => []NoFreedEntryReached` |
| | `SizeIsHonestHolds` | `Spec => []SizeIsHonest` |
| | `AddsLikeLRUHolds` | `Spec => []AddsLikeLRU` |
| | `AddsAreAtomicHolds` | `SharedSpec => AddsAreAtomic` (which is `Cache`'s `Spec`) |
| | `LookupsAgreeHolds` | `SharedSpec => []LookupsAgree` |
| `Storage_proofs` | `TypeCorrect` | `Spec => []TypeOK` |
| | `BackupIsPrefixHolds` | `Spec => []BackupIsPrefix` |
| | `RowsSurviveHolds` | `Spec => []RowsSurvive` |
| | `TypesSurviveHolds` | `Spec => []TypesSurvive` |
| | `AppendKeepsRowsHolds` | `Spec => []AppendKeepsRows` |
| `TableRows_proofs` | `TypeCorrect` | `Spec => []TypeOK` |
| | `SearchIsExactHolds` | `Spec => []SearchIsExact` |
| | `UpdateIsExactHolds` | `Spec => []UpdateIsExact` |
| | `DeleteKeepsOrderHolds` | `Spec => []DeleteKeepsOrder` |
| | `DeleteOfTwoIsExactHolds` | `Spec => []DeleteOfTwoIsExact` |

Assumed of the constants: of the pool, at least one thread and one slot, and a
value for "no task" that is not a task (`PoolAssumption`); of the cache, a
capacity of at least one and a `NULL` that is no address (`CacheListAssumption`);
of the server, finitely many workers, "no worker" and "no client" that are none,
a bounded queue, commands out of those `AllCommands` tells apart, the texts
`"SELECT "` and `"SELECT"` that parsing leaves of a SELECT among the queries, and
that those who may leave are clients (`ServerAssumption`); of the storage
(`StorageAssumption`), that a value is a sequence of words, tabs and newlines
included, but never the zero that ends a string; that CREATE has no more
columns than `parseCreateTable` has room for (their types may be anything, and
there may be none); that an UPDATE's value has no space, because
`parseUpdate` ends it there; that unset memory holds something; and that shipped
files are like those in the repository (`WellShipped`): each loads as a table of
known types, every line of it is ended, and what `loadTable` makes of its
rows is tidy, which does not keep a row from having more values than the table
has columns, as in `OAMENI`, or lines from lacking the last tab; of the
rows, that values are numbers, which stand for strings in `strcmp`'s order, and
that the size of a table is bounded by some number (`RowsAssumption`). The
server's theorem about the display assumes in its statement what `server_live`
has in its configuration: no SELECT without FROM, the command that unlocks twice.

### The pool

- `TypeInv` adds to the types that threads are created and joined in order
  (`JoinInv`): those not yet counted are not running, those joined have exited.
  `FreedWhenUnused` follows from it.
- `NoLostWakeup` is inductive with the types: it counts the awake workers on
  their way to the ring against the tasks in it. `AddedTask` and `TakenTask` say
  what a move of `queue_rear` or `queue_front` does to the count, wrap-around
  included.
- `ExactlyOneRunner` is not inductive: it says nothing of the slots. `HandOver`
  strengthens it: the slots between front and rear hold different tasks, all
  marked queued; a worker has a task exactly while it runs it; no two the same.
  `SlotEntersRing` says that a new task goes to a slot outside the ring, which is
  why a ring with one free slot never overwrites.
- The refinement maps the ring to the sequence of its slots from `queue_front`
  on (`Contents`). `AddedContents` and `TakenContents` show that adding appends
  to it and taking removes its head; all else stutters or is the same action of
  `TaskQueue`.

### The server

The invariants are proved one upon the other, each with the earlier ones as
hypotheses:

1. `Base`: every worker is at a place that exists, with a command that can be
   there (`Fits`). Nothing else can be said before this.
2. `LockInv`: the owner and the readers of `rwlock`, counted, are the workers at
   places between a lock call and its unlock, plus the calls that UPDATE and a
   cached SELECT make once too often. `LockSteps` reduces the twenty-odd actions
   to the four calls of the lock; `Holders` counts the readers, which is what
   needs the workers to be finite.
3. `Exclusion`: by the accounting, a writer excludes everybody, readers exclude
   writers. `IdleOwnsOnlyAfterUpdate` needs no more.
4. `DataSteps` lists, for a step of one worker, what it can do to `mutex`,
   `strtok`, the copies and the file; `Others` says that it does nothing to a
   worker that excludes it. `ParsingInv`, `MutexInv` and `DiskInv` follow: `strtok`
   is never taken from a writer; the mutex is free when somebody wants it; the
   file is whole except at the three places that empty it, has the rows of all
   completed writes, and a worker's copy is still the file's contents wherever
   `Watched` says that it is going to rely on it. These give
   `WritersParseAlone`, `MutexNeverContended`, `NoLostUpdate` and
   `SelectShowsCurrentTable`.
5. `Endings` lists the ways to end the process; with `DiskInv` none of them finds
   a half-written file but CREATE's own, a rewrite that meets a short row, and
   `Overrun`.

`TypeOK` includes that the cache is a cache, hence uses the lemmas of the list.

### The cache

`WellFormed` is not inductive (the head may be added again) and `OnlyHeadLoops`
even less: nothing keeps the pointers of a damaged list. `ListInv` says that the
list has one of two shapes. Either there is a numbering of the live entries from
1 to `size` such that `next` and `prev` go from each to the one after and before
it, and no query is there twice (`Ordered`); or head, its `next` and its `prev`
are one entry and `tail` is another or none (`Damaged`). `EntryAgain`,
`NewInFront` and `LastOut` give the new numbering after each kind of addition,
`HeadAgain` the change of shape, `DamagedAgain` that nothing more can happen.
What `findInCache` reaches is a function defined by recursion; `Walk` computes it
along the numbering by induction up to the capacity (`Stepwise`).

`AddsLikeLRU`: the numbering after an addition, read as queries, is the list that
`LRUList` says (`ReAdded`, `NewlyAdded`).

`AddsAreAtomic` maps `SharedCache` to `Cache` by its variable `cache`. The
invariant `Adding` says what `addToCache` has made of the list by each of its
statements; the last statement makes of it what `AddToCache` says
(`FrontCompletes`, `InsertCompletes`, `FreeCompletes`), the others stutter.

`LookupsAgree` says something of lookups only when they end. `MustInv` says of
one under way that an entry which stays in its place is not behind it: the
lookup stands at the head, at the entry being moved (from which it goes on at
the head), or at an entry whose number is not greater. `NextIsNotBehind` is the
step, statement by statement of an addition; `HeadIsNotMoved` and
`LastIsNotSought` rule out the damage and the eviction of what is sought.

### The storage

- The operators of `TableFile` are recursive functions; that they exist and what
  they are made of takes an induction over a bound for each (`Recursion_proofs`,
  `Stepwise`; a text is built one token at a time, `Grows`). With it: what is
  written is text (`HeaderType`, `TableTextType`, `PiecesToAppend`), what
  `loadTable` makes of any text is a table or nothing (`LoadType`), and what is
  written with a separator behind each part is cut into these parts again
  (`SplitEnded`, `PartsComeBack`).
- `TypeInv` carries the types through commands, crashes and restarts: `TypeOK`, the
  texts, and where a command under way stands.
- `RowsSurvive` speaks of an idle server and says nothing while a command is under
  way, so it is not inductive; nor is it enough that the file *loads* as the table,
  because the next INSERT depends on how the file ends. `Carries(f, t)` says how
  the lines of a file hold a table: name, count, columns, each row readable at
  its line, and every line ended, except that a file of three lines is one
  `salveazaTabel` cut short. `Exactly(f, t)` says that nothing follows.
  `CarriedIsLoaded`: what is carried is what `loadTable` finds.
- Each writer makes a file that carries the table. `CreatedCarries`: what
  `salveazaTabel` leaves of a header has lost at most the last newline and
  tab, and from `Ten` columns on the last character of the last type.
  `InsertCarries`: the newline `append_to_file_values` guesses is the missing one
  exactly when one is missing (`Guessed`), and then the row comes back, with its
  spaces (`TidyRowReadBack`), or, if it is not tidy, as many lines as it has
  newlines (`LinePieces`, `RowEnds`, `AddedRowsType`). `ShippedCarries`: so does a
  file that was shipped, be there tabs at the ends of its lines or not. `AppendCarries`, `NewLineCarries`: no single write
  of it takes a row away. `WrittenCarries`: `scrieTabelInFisier` writes what can be
  read back (`CleanRowReadBack`), of a table that `loadTable` has read
  (`LoadedStands`) with every value set, and DELETE or UPDATE has changed
  (`WithoutStands`, `WithStands`; `NewValueLetters` says what an UPDATE can set), through the blocks of stdio (`BlocksWhole`).
- `TableInv` puts them together: what the file will be once `todo` is written
  (`Whole`) carries the table the command under way asks for, exactly so unless a
  crash has cut an INSERT short; during an INSERT the file itself carries the
  table from before, and a missing newline is the first thing written. During a
  CREATE the table asked for has the types that were set, if all of them were
  (`Created`); a rewrite with a value nobody set counts as damage from the start
  (`ScribbledTable`). A crash in an INSERT leaves that last part, a crash in CREATE,
  UPDATE or DELETE nothing (`damage`). TLC checked `TableInv` on the instance of `storage` before it was
  proved. `RowsSurvive`, `TypesSurvive` and `AppendKeepsRows` follow from it.
- `BackupIsPrefix` speaks of finished copies. `CopyInv` speaks of the one under
  way: as long as the file has not been emptied since it was opened, what has
  been read of it is its beginning, and copy and buffer together are what has
  been read. An append leaves beginnings beginnings (`PrefixOfLonger`), a block
  read continues them (`CutsJoin`), a crash keeps a beginning of the copy.

### The rows

- `Ordered` says that a tree is one: a certificate `sub` gives each node the set of
  the nodes below it, smaller words on the left and the others on the right;
  children have greater numbers than their parents, and one parent (`OneParent`).
  `InsertKeeps` shows that insertion at the end of the path keeps this: the path
  goes down on one side (`PassedDown`), no node beside it is on it
  (`PathChildren`), so exactly the nodes of the path get one node more below them.
  `BuildIsTree` carries it through the column by `Stepwise`.
- That the searches exist as functions on the nodes of such a tree is `Traversal`;
  `ListsAll` goes up the tree from the last node to the first. At each node the
  subtree that `searchBST` leaves out has no match (`SearchLists`), the two that
  visit everything leave out nothing (`ExcludingLists`, `ConditionLists`). `Lists`
  means each row once, which sets alone would not say. `FindRowsLists` is the sum:
  it holds of any column, operator and value, and `SearchIsExact` follows.
- UPDATE: the rows set are those treated so far (`UpdateInv`). DELETE:
  `DeleteKeepsOrder` is inductive with the types; `TwoInv` says where the rows are
  and what `rowmap` says after none, one and two of them. After the second,
  `rowmap` may be wrong, and `TwoInv` says nothing of it: `rows_delete` shows what
  becomes of the third.

### What is only model-checked

- Liveness, which is out of TLAPS's reach under fairness:
  `TasksTakenWhileWorkersFree` and `DestroyReturns` of the pool,
  `CommandsComplete` of the server, `EventuallyBackedUp` of the storage.

Every invariant, every refinement and every action property of a passing run is
the statement of a theorem above.

## 5. Not modelled

- The answers' layout (`afiseazaTabel`, `afisare_nice`), beyond the section they
  run in and that they send; that some commands send nothing (server.c:496 and
  others), so that a client waiting for an answer waits for ever: a client of
  `Server` may always send.
- `paginare.c`, `main.c`, `test.c`, which are not part of the server; `clearCache`
  and the functions of `gestionareTabele.c` that nobody calls; `destroyThreadPool`'s
  callers after the endless loop of `main`.
- Failed allocations and failed system calls on files, a backup directory that
  cannot be made among them; `read` that fails is `ReadEOF`.
- Lengths of texts and buffers, except that a command too long for an array may end
  the process (`Overrun` of `Server`; `Storage` has no such command, its crashes come
  at any time anyway) and what such a process does if it lives on; lines over 1023
  bytes, more than the twenty columns `parseCreateTable` has room for, more than the
  hundred tables `files[100]` holds.
- `master` missing or not writable: `append_to_file` then lists nothing.
- Loss of power: what has been written to a file stays there.
- Two additions to the cache at once, store by store: they are a data race that
  leaves any list, `raced` in `Server`.
- The cutting up of SQL texts, except which kinds of command come out; the types
  of values in comparisons (INT columns are compared as strings).

## 6. Plan

Done: the pool with its refinement, the cache alone and beside a lookup, the
server, the row algorithms, the files with crashes and backup, each with a proof
of every safety property the passing runs check. What could come next:

1. Row values with the type of their column (INT columns are compared as
   strings).
2. Several tables, and with them the hundred places of `files[100]`.
3. What a client waits for, and the commands that answer nothing.
