------------------------------ MODULE Storage ------------------------------
(***************************************************************************)
(* The file of one table, its line in the file "master" and its copy under *)
(* backup/, through commands, crashes and restarts.                        *)
(*                                                                         *)
(* Commands that write hold rwlock to write (Server), so there is one at a *)
(* time; backupThread takes no lock and copies whatever it meets.  A crash *)
(* ends the process, not the machine: what was written to a file stays,    *)
(* what a stdio buffer held may be lost.                                   *)
(***************************************************************************)
EXTENDS TableFile

CONSTANTS
    Words,          \* what values (TAB, NL too) and types are made of
    Schemas,        \* the lists of types CREATE is called with, known or not
    Rows,           \* the rows INSERT is called with
    NewValues,      \* what UPDATE sets
    Shipped,        \* the files of a table a repository may come with
    Garbage,        \* what memory nobody set may hold
    Block,          \* what stdio reads or writes at once
    MaxCommands,    \* bound: commands in a behaviour
    MaxCrashes      \* bound: crashes no command causes

Values == Seq(Words \ {"NL", "TAB"}) \ {<<>>}

\* The types parseCreateTable compares with, and the only ones it sets.
KnownTypes == {"INT", "VARCHAR", "DATE"}

Creatable(schema) == schema # <<>> /\ ToSet(schema) \subseteq KnownTypes

\* The files in the repository, OAMENI with a value more than it has columns
\* among them: all lines are ended, some columns and rows by no TAB.
WellShipped(f) ==
    /\ f \in Seq(Words \cup KnownTypes \cup ToSet(Counts)
                \cup {"name", "digit", ".", "SP", "TAB", "NL"})
    /\ Usable(f) /\ Last(f) = "NL"
    /\ LET t == LoadTable(f)
       IN  /\ Creatable(t.types) /\ Len(t.types) \in DOMAIN Counts
           /\ \A j \in DOMAIN t.types : ColumnPieces(f)[j] = <<t.types[j], ".">>
           /\ t.rows \in Seq(Seq(Values))
           /\ \A i \in DOMAIN t.rows : Tidy(t.rows[i], Len(t.types))

\* A word is never the zero that ends a string.  parseUpdate ends its value at a
\* space.  CREATE has room for so many columns.
ASSUME StorageAssumption ==
    /\ Block \in Nat \ {0}
    /\ MaxCommands \in Nat
    /\ MaxCrashes \in Nat
    /\ Words \cap {"ZERO", "unset"} = {}
    /\ Schemas \subseteq Seq(Words \cup KnownTypes)
    /\ \A schema \in Schemas : Len(schema) \in {0} \cup DOMAIN Counts
    /\ Rows \subseteq Seq(Seq(Words))
    /\ NewValues \subseteq Seq(Words \ {"SP"}) \ {<<>>}
    /\ Garbage # {}
    /\ \A f \in Shipped : WellShipped(f)

VARIABLES
    file,       \* the table's file; empty as long as there is none
    listed,     \* the table is in master
    backup,     \* backup/ and the table's name
    up,         \* the server runs
    op,         \* what the command under way does next, or "idle"
    types,      \* CREATE: the types it has set, or found in memory
    todo,       \* INSERT, UPDATE, DELETE: the writes still to be made
    copier,     \* backupThread: "asleep", "copying", or "down"
    pos, buf,   \* how much of file it has read, and what of it it still holds
    budget, crashes,
    table,      \* history: the table the completed commands ask for
    pending,    \* history: the table once the command under way is complete
    damage,     \* history: "tail" after a crash in INSERT, "all" in another
    steady      \* history: file has not been emptied since it was opened to copy

command == <<op, types, todo, pending, budget>>
copy    == <<backup, copier, pos, buf>>
vars    == <<file, listed, command, copy, up, crashes, table, damage, steady>>

Creating == {"list", "name", "size", "fill"}

TypeOK ==
    /\ listed \in BOOLEAN /\ up \in BOOLEAN /\ steady \in BOOLEAN
    /\ op \in Creating \cup {"idle", "append", "rewrite", "scribble"}
    /\ (todo = <<>>) = (op \in Creating \cup {"idle"})
    /\ copier \in {"asleep", "copying", "down"}
    /\ (copier = "down") = ~up
    /\ ~up => op = "idle"
    /\ copier # "copying" => (buf = <<>> /\ pos = 0)
    /\ Len(buf) <= Block /\ Len(buf) <= pos
    /\ budget \in 0 .. MaxCommands /\ crashes \in 0 .. MaxCrashes
    /\ damage \in {"none", "tail", "all"}
    /\ file # <<>> => listed

\* No table yet, or one that was shipped, or created, and copied long ago.
Init ==
    /\ \/ table = NoTable /\ listed = FALSE /\ file = <<>>
       \/ file \in Shipped /\ listed = TRUE /\ table = LoadTable(file)
       \/ \E s \in Schemas : /\ Creatable(s)
                             /\ table = [types |-> s, rows |-> <<>>]
                             /\ listed = TRUE /\ file = CreatedText(s)
    /\ backup = file
    /\ up = TRUE
    /\ op = "idle" /\ types = <<>> /\ todo = <<>> /\ pending = table
    /\ copier = "asleep" /\ pos = 0 /\ buf = <<>>
    /\ budget = MaxCommands /\ crashes = MaxCrashes
    /\ damage = "none"
    /\ steady = TRUE
-----------------------------------------------------------------------------
(* The end of the process, and its next start.                             *)

\* exit, as well as a crash, may or may not write what stdio holds.
Die ==
    /\ up' = FALSE
    /\ backup' \in {backup, backup \o buf}
    /\ copier' = "down" /\ pos' = 0 /\ buf' = <<>>

Crash ==
    /\ up /\ crashes > 0
    /\ crashes' = crashes - 1
    /\ Die
    /\ op' = "idle" /\ types' = <<>> /\ todo' = <<>> /\ pending' = table
    /\ damage' = IF op \in Creating \cup {"rewrite", "scribble"} THEN "all"
                 ELSE IF op = "append" /\ damage = "none" THEN "tail" ELSE damage
    /\ UNCHANGED <<file, listed, budget, table, steady>>

\* CREATE compares a type that is not there with those it knows, or copies one it
\* has not set; UPDATE and DELETE follow a pointer nobody set.
DieWriting ==
    /\ \/ op = "size"
       \/ op = "fill" /\ ~Creatable(pending.types)
       \/ op = "scribble" /\ "unset" \in ToSet(todo[1])
    /\ Die
    /\ op' = "idle" /\ types' = <<>> /\ todo' = <<>> /\ pending' = table
    /\ damage' = "all"
    /\ UNCHANGED <<file, listed, budget, crashes, table, steady>>

Restart ==
    /\ ~up
    /\ up' = TRUE
    /\ copier' = "asleep"
    /\ UNCHANGED <<file, listed, command, backup, pos, buf, crashes, table, damage, steady>>
-----------------------------------------------------------------------------
(* CREATE                                                                  *)

Ready == up /\ op = "idle" /\ budget > 0

\* A command that ends the process before it has written anything: its parser
\* gives up on it, a value has the wrong type or is too long, a column is
\* unknown, the table is not in master, or cannot be read, or has a value
\* nobody set.
Fails ==
    /\ Ready
    /\ budget' = budget - 1
    /\ Die
    /\ UNCHANGED <<file, listed, op, types, todo, pending, crashes, table, damage, steady>>

\* A type that is not known is not set: what was in its place stays.
TypesSet(s, g) == [j \in DOMAIN s |-> IF s[j] \in KnownTypes THEN s[j] ELSE g]

CreateUnlisted(s) ==    \* StartCreate that never looks into master
    /\ Ready
    /\ file' = <<>> /\ steady' = FALSE
    /\ op' = "size"
    /\ \E g \in Garbage : types' = TypesSet(s, g)
    /\ pending' = [types |-> s, rows |-> <<>>]
    /\ budget' = budget - 1
    /\ UNCHANGED <<listed, todo, copy, up, crashes, table, damage>>

\* creareFisier empties the file, exists_in_master looks for its line.
StartCreate(s) ==
    /\ Ready
    /\ file' = <<>> /\ steady' = FALSE
    /\ op' = IF listed THEN "size" ELSE "list"
    /\ \E g \in Garbage : types' = TypesSet(s, g)
    /\ pending' = [types |-> s, rows |-> <<>>]
    /\ budget' = budget - 1
    /\ UNCHANGED <<listed, todo, copy, up, crashes, table, damage>>

\* append_to_file ends the last line of master, which changes no name in it, and
\* then writes the table's.  master is there, and write does not fail.
ListTable ==
    /\ op = "list"
    /\ op' = "name"
    /\ UNCHANGED <<file, listed, types, todo, pending, budget, copy, up, crashes,
                   table, damage, steady>>

NameTable ==
    /\ op = "name"
    /\ listed' = TRUE
    /\ op' = "size"
    /\ UNCHANGED <<file, types, todo, pending, budget, copy, up, crashes, table, damage, steady>>

\* ftruncate: zero bytes, which the stores through the mapping replace.
SizeFile ==
    /\ op = "size"
    /\ file' = [i \in 1 .. FileSize(types) |-> "ZERO"]
    /\ op' = "fill"
    /\ UNCHANGED <<listed, types, todo, pending, budget, copy, up, crashes, table, damage, steady>>

\* The stores one by one would show a reader of the file nothing but zeroes more
\* or less.  What is stored beyond the size is not in the file.  The history gives
\* up a table that lacks a type, until the next CREATE.
FillFile ==
    /\ op = "fill"
    /\ file' = CreatedText(types)
    /\ op' = "idle" /\ types' = <<>>
    /\ table' = pending
    /\ damage' = IF Creatable(pending.types) THEN "none" ELSE "all"
    /\ UNCHANGED <<listed, todo, pending, budget, copy, up, crashes, steady>>
-----------------------------------------------------------------------------
(* INSERT                                                                  *)

Whatever == <<>>    \* a row of the history whose values are not kept

\* INT takes digits only; no value here is too long for a VARCHAR; a type that
\* has lost a letter, like DATE, is not compared with anything, and neither are
\* types found beyond the last one.
Mistyped(row) ==
    LET kept == LoadTable(file).types
    IN  \E j \in DOMAIN row \cap DOMAIN kept :
            kept[j] = "INT" /\ \E x \in ToSet(row[j]) : x # "7"

\* A row that is not tidy may be several: a value may end a line.
AddedRows(row, columns) ==
    IF Tidy(row, columns) THEN <<row>>
    ELSE [i \in 1 .. NewLines(FlattenSeq(RowPieces(row))) |-> Whatever]

\* A table that has no lines of columns ends the process (Fails) unless the
\* types found in memory nobody initialised happen to take the row.
Insert(row) ==
    /\ Ready
    /\ file # <<>>
    /\ Usable(file) => ~Mistyped(row)
    /\ op' = "append"
    /\ todo' = AppendedPieces(file, row)
    /\ pending' = IF damage # "none" THEN table
                  ELSE [table EXCEPT !.rows = @ \o AddedRows(row, Len(table.types))]
    /\ budget' = budget - 1
    /\ UNCHANGED <<file, listed, types, copy, up, crashes, table, damage, steady>>
-----------------------------------------------------------------------------
(* UPDATE and DELETE, of any rows: which rows a clause names is the        *)
(* business of TableRows.  Both exit (Fails) for a table not in master.    *)

Without(t, chosen) == [t EXCEPT !.rows = Picked(@, DOMAIN @ \ chosen)]

With(t, chosen, column, value) ==
    [t EXCEPT !.rows = [i \in DOMAIN @ |->
        IF i \in chosen /\ column \in DOMAIN @[i] THEN [@[i] EXCEPT ![column] = value]
        ELSE @[i]]]

Blocks(text) ==
    [i \in 1 .. (Len(text) + Block - 1) \div Block |->
        SubSeq(text, (i - 1) * Block + 1, Min({i * Block, Len(text)}))]

\* loadTable, the rows changed in memory, and scrieTabelInFisier, whose fopen
\* empties the file.
StartRewrite(text, asked) ==
    /\ file' = <<>> /\ steady' = FALSE
    /\ op' = "rewrite"
    /\ todo' = Blocks(text)
    /\ pending' = asked
    /\ budget' = budget - 1
    /\ UNCHANGED <<listed, types, copy, up, crashes, table, damage>>

\* The same where what is written cannot be kept: a pointer nobody set is followed,
\* or a value does not stay in its column.  The history gives the table up.
StartScribble(text) ==
    /\ file' = <<>> /\ steady' = FALSE
    /\ op' = "scribble"
    /\ todo' = Blocks(text)
    /\ pending' = table
    /\ damage' = "all"
    /\ budget' = budget - 1
    /\ UNCHANGED <<listed, types, copy, up, crashes, table>>

Delete ==
    /\ Ready /\ listed /\ Usable(file)
    /\ LET loaded == LoadTable(file)
       IN  \E chosen \in SUBSET DOMAIN loaded.rows :
              LET text == TableText(Without(loaded, chosen))
              IN  \/ AllSet(loaded.rows) /\ StartRewrite(text, Without(table, chosen))
                  \/ ~AllSet(loaded.rows) /\ StartScribble(text)

Update ==
    /\ Ready /\ listed /\ Usable(file)
    /\ LET loaded == LoadTable(file)
       IN  \E chosen \in SUBSET DOMAIN loaded.rows, column \in DOMAIN loaded.types,
             value \in NewValues :
              LET text == TableText(With(loaded, chosen, column, value))
                  sure == AllSet(loaded.rows) /\ Keepable(value)
              IN  \/ sure /\ StartRewrite(text, With(table, chosen, column, value))
                  \/ ~sure /\ StartScribble(text)

\* A table that cannot be read, if the process survives it, is written again
\* with whatever was found in place of its columns.
Scribble ==
    /\ Ready /\ listed /\ file # <<>> /\ ~Usable(file)
    /\ StartScribble(Unset)

WriteOver ==        \* WritePiece without O_APPEND, from the start of the file
    /\ todo # <<>> /\ op # "scribble"
    /\ file' = todo[1] \o SubSeq(file, Len(todo[1]) + 1, Len(file))
    /\ todo' = Tail(todo)
    /\ op' = IF Len(todo) = 1 THEN "idle" ELSE op
    /\ table' = IF Len(todo) = 1 THEN pending ELSE table
    /\ UNCHANGED <<listed, types, pending, budget, copy, up, crashes, damage, steady>>

\* One call of write, by append_to_file_values or by stdio.
WritePiece ==
    /\ todo # <<>> /\ op # "scribble"
    /\ file' = file \o todo[1]
    /\ todo' = Tail(todo)
    /\ op' = IF Len(todo) = 1 THEN "idle" ELSE op
    /\ table' = IF Len(todo) = 1 THEN pending ELSE table
    /\ UNCHANGED <<listed, types, pending, budget, copy, up, crashes, damage, steady>>

Followed(piece, g) == [i \in DOMAIN piece |-> IF piece[i] = "unset" THEN g ELSE piece[i]]

\* An unset pointer may also lead to bytes that can be written.
ScribblePiece ==
    /\ op = "scribble"
    /\ \E g \in Garbage : file' = file \o Followed(todo[1], g)
    /\ todo' = Tail(todo)
    /\ op' = IF Len(todo) = 1 THEN "idle" ELSE op
    /\ UNCHANGED <<listed, types, pending, budget, copy, up, crashes, table, damage, steady>>
-----------------------------------------------------------------------------
(* backupThread                                                            *)

OpenToAppend ==     \* OpenCopy, the destination opened with "a"
    /\ copier = "asleep" /\ listed
    /\ copier' = "copying"
    /\ steady' = (op \notin Creating)
    /\ UNCHANGED <<file, listed, command, backup, pos, buf, up, crashes, table, damage>>

\* sleep ends, readMasterFile finds the table (if not, the round passes it by),
\* and copyFile opens its file and empties the copy.  What the round does to
\* other tables before only takes time: a table stays listed.
OpenCopy ==
    /\ copier = "asleep" /\ listed
    /\ copier' = "copying"
    /\ backup' = <<>>
    /\ steady' = (op \notin Creating)
    /\ UNCHANGED <<file, listed, command, pos, buf, up, crashes, table, damage>>

\* A block is read while the one before it may still be held: it is written
\* by the time of the next, or of the end.
CopyBlock ==
    /\ copier = "copying" /\ pos < Len(file)
    /\ pos' = Min({pos + Block, Len(file)})
    /\ buf' = SubSeq(file, pos + 1, pos')
    /\ backup' = backup \o buf
    /\ UNCHANGED <<file, listed, command, copier, up, crashes, table, damage, steady>>

KeepPosition ==     \* EndCopy, where it stopped to read kept for the next round
    /\ copier = "copying" /\ pos >= Len(file)
    /\ backup' = backup \o buf
    /\ copier' = "asleep" /\ buf' = <<>>
    /\ UNCHANGED <<file, listed, command, pos, up, crashes, table, damage, steady>>

EndCopy ==
    /\ copier = "copying" /\ pos >= Len(file)
    /\ backup' = backup \o buf
    /\ copier' = "asleep" /\ pos' = 0 /\ buf' = <<>>
    /\ UNCHANGED <<file, listed, command, up, crashes, table, damage, steady>>
-----------------------------------------------------------------------------
Command ==
    \/ \E s \in Schemas : StartCreate(s)
    \/ \E row \in Rows : Insert(row)
    \/ Update \/ Delete \/ Scribble
    \/ Fails

Work == ListTable \/ NameTable \/ SizeFile \/ FillFile \/ WritePiece \/ ScribblePiece

Backup == OpenCopy \/ CopyBlock \/ EndCopy

Next == Command \/ Work \/ Backup \/ DieWriting \/ Crash \/ Restart

\* A command goes on, the backup thread wakes up; nothing restarts the server.
Spec == Init /\ [][Next]_vars /\ WF_vars(Work) /\ WF_vars(Backup)
-----------------------------------------------------------------------------
\* A column between the first and the last one may have come back with the
\* space append_to_file_values puts after it.
SameValue(loaded, value, inner) ==
    loaded = value \/ (inner /\ loaded = Append(value, "SP"))

SameRow(loaded, row) ==
    row # Whatever =>
        \A j \in DOMAIN row : SameValue(loaded[j], row[j], j \notin {1, Len(row)})

\* All rows but the last come back, too, when the last one is half written.
Holds(f, t) ==
    /\ Usable(f)
    /\ LET rows == LoadTable(f).rows
       IN  /\ Len(rows) >= Len(t.rows)
           /\ \A i \in DOMAIN t.rows : SameRow(rows[i], t.rows[i])

\* Whenever no command is under way, the file loads as the rows the commands asked
\* for, in spite of the size salveazaTabel gets wrong and the newline
\* append_to_file_values guesses.  What is not promised: the values of a row that
\* is not Tidy (it still takes its lines, no more and no fewer), and anything once
\* a crash has cut a command short, an UPDATE has set a value with a TAB or NL,
\* a table with a value nobody set has been rewritten, or a CREATE lacked a type.
RowsSurvive ==
    (op = "idle" /\ damage = "none" /\ table # NoTable) =>
        Holds(file, table) /\ Len(LoadTable(file).rows) = Len(table.rows)

\* Columns keep the types they were created with, INT, VARCHAR or DATE (another
\* type is never set, and nothing is promised), except that the last one of
\* a table of Ten columns or more loses its last character.
TypesSurvive ==
    (op = "idle" /\ damage # "all" /\ table # NoTable) =>
        LET n == Len(table.types)
            kept == LoadTable(file).types
        IN  /\ Len(kept) = n
            /\ \A j \in 1 .. n :
                  (j < n \/ n < Ten) => kept[j] = table.types[j]

\* An INSERT that is under way, or was cut short by a crash, takes nothing from
\* the rows before it, and neither does one that goes on after half a row.
AppendKeepsRows ==
    ((op = "append" /\ damage # "all") \/ (op = "idle" /\ damage = "tail"))
        => Holds(file, table)

\* However an INSERT and the copying interleave, and wherever either is cut off,
\* the backup is what the file was, up to some point.
BackupIsPrefix == steady => IsPrefix(backup \o buf, file)

\* Every table is copied as it is, once the server is left alone for long enough.
EventuallyBackedUp ==
    <>[](up /\ op = "idle") => []<>(table = NoTable \/ backup = file)

\* Whatever happens, one of the table and its backup can be read.
WholeCopySomewhere ==
    (op = "idle" /\ copier \in {"asleep", "down"} /\ table # NoTable) =>
        Usable(file) \/ Usable(backup)
=============================================================================
