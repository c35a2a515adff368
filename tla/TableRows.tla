----------------------------- MODULE TableRows -----------------------------
(***************************************************************************)
(* How SELECT, UPDATE and DELETE find the rows a WHERE clause names and    *)
(* what they do with them: the search tree of BST.c over the column of the *)
(* clause, and the loops of comportamentUpdate and comportamentDelete.     *)
(*                                                                         *)
(* Values are integers in the order strcmp gives the strings they stand    *)
(* for.  A row is its identity, its value in the clause's column, and      *)
(* whether UPDATE has set it.  Rows are numbered from 0 as in the code.    *)
(***************************************************************************)
EXTENDS Integers, SequencesExt

CONSTANTS
    Values,     \* the values the column can hold
    MaxRows,    \* bound: rows of the table
    Statements  \* of {"select", "update", "delete"}

Operators == {"=", "!=", "<", "<=", ">", ">="}

ASSUME RowsAssumption ==
    /\ Values \subseteq Int
    /\ MaxRows \in Nat
    /\ Statements \subseteq {"select", "update", "delete"}

VARIABLES
    statement, whereop, whereval,
    column,     \* the column's values as loaded, by row number (history)
    randuri,    \* the table in memory
    searched,   \* the row numbers the tree gave, in its order
    i,          \* how many of them the loop has treated
    rowmap,     \* DELETE: where each row of the file is now said to be
    step        \* "search", "loop", "done"

vars == <<statement, whereop, whereval, column, randuri, searched, i, rowmap, step>>

TypeOK ==
    /\ statement \in Statements /\ whereop \in Operators /\ whereval \in Values
    /\ Len(column) <= MaxRows /\ Len(randuri) <= Len(column)
    /\ \A r \in 1 .. Len(randuri) :
          randuri[r].id \in 0 .. Len(column) - 1 /\ randuri[r].set \in BOOLEAN
    /\ ToSet(searched) \subseteq 0 .. Len(column) - 1
    /\ i \in 0 .. Len(searched)
    /\ step \in {"search", "loop", "done"}
-----------------------------------------------------------------------------
(* BST.c: a tree is the sequence of its nodes in the order of their        *)
(* allocation, a pointer is a node's place in it.                          *)

NULL == 0

Root(t) == IF t = <<>> THEN NULL ELSE 1

\* The pointer in node a that insert follows with word.
Towards(t, a, word) == IF word < t[a].word THEN t[a].left ELSE t[a].right

\* The nodes insert passes with word, and NULL from then on.
Passed(t, word) ==
    LET at[k \in 0 .. Len(t)] ==
            IF k = 0 THEN Root(t)
            ELSE IF at[k - 1] = NULL THEN NULL
            ELSE Towards(t, at[k - 1], word)
    IN  at

Insert(t, word, row) ==
    LET passed == Passed(t, word)
        Parent(a) == /\ \E k \in 0 .. Len(t) : passed[k] = a
                     /\ Towards(t, a, word) = NULL
        node == [word |-> word, row |-> row, left |-> NULL, right |-> NULL]
    IN  [a \in 1 .. Len(t) + 1 |->
            IF a = Len(t) + 1 THEN node
            ELSE IF ~ Parent(a) THEN t[a]
            ELSE IF word < t[a].word THEN [t[a] EXCEPT !.left = Len(t) + 1]
            ELSE [t[a] EXCEPT !.right = Len(t) + 1]]

BuildFromOne(words) ==  \* BuildBST with rows counted from 1
    LET built[n \in 0 .. Len(words)] ==
            IF n = 0 THEN <<>> ELSE Insert(built[n - 1], words[n], n)
    IN  built[Len(words)]

BuildBST(words) ==
    LET built[n \in 0 .. Len(words)] ==
            IF n = 0 THEN <<>> ELSE Insert(built[n - 1], words[n], n - 1)
    IN  built[Len(words)]

SearchOneSide(t, target) == \* SearchBST that stops looking below a match
    LET found[a \in 0 .. Len(t)] ==
            IF a = NULL THEN <<>>
            ELSE IF target < t[a].word THEN found[t[a].left]
            ELSE IF target > t[a].word THEN found[t[a].right]
            ELSE <<t[a].row>> \o found[t[a].left]
    IN  found[Root(t)]

SearchBST(t, target) ==
    LET found[a \in 0 .. Len(t)] ==
            IF a = NULL THEN <<>>
            ELSE IF target < t[a].word THEN found[t[a].left]
            ELSE IF target > t[a].word THEN found[t[a].right]
            ELSE <<t[a].row>> \o found[t[a].left] \o found[t[a].right]
    IN  found[Root(t)]

\* In order.
CollectExcluding(t, value) ==
    LET found[a \in 0 .. Len(t)] ==
            IF a = NULL THEN <<>>
            ELSE found[t[a].left]
                 \o (IF t[a].word # value THEN <<t[a].row>> ELSE <<>>)
                 \o found[t[a].right]
    IN  found[Root(t)]

Holds(word, op, value) ==
    CASE op = "="  -> word = value
      [] op = "!=" -> word # value
      [] op = "<"  -> word < value
      [] op = "<=" -> word <= value
      [] op = ">"  -> word > value
      [] op = ">=" -> word >= value

\* Every node is visited, its own row before those below it.
CollectByCondition(t, op, value) ==
    LET found[a \in 0 .. Len(t)] ==
            IF a = NULL THEN <<>>
            ELSE (IF Holds(t[a].word, op, value) THEN <<t[a].row>> ELSE <<>>)
                 \o found[t[a].left] \o found[t[a].right]
    IN  found[Root(t)]

FindRows(words, op, value) ==
    LET tree == BuildBST(words)
    IN  CASE op = "="  -> SearchBST(tree, value)
          [] op = "!=" -> CollectExcluding(tree, value)
          [] OTHER     -> CollectByCondition(tree, op, value)
-----------------------------------------------------------------------------
Init ==
    /\ statement \in Statements
    /\ whereop \in Operators
    /\ whereval \in Values
    /\ \E n \in 0 .. MaxRows : column \in [1 .. n -> Values]
    /\ randuri = [r \in 1 .. Len(column) |-> [id |-> r - 1, set |-> FALSE]]
    /\ searched = <<>>
    /\ i = 0
    /\ rowmap = [r \in 0 .. Len(column) - 1 |-> r]
    /\ step = "search"

Search ==
    /\ step = "search"
    /\ searched' = FindRows(column, whereop, whereval)
    /\ step' = IF statement = "select" THEN "done" ELSE "loop"
    /\ UNCHANGED <<statement, whereop, whereval, column, randuri, i, rowmap>>

UpdateRow ==
    /\ step = "loop" /\ statement = "update"
    /\ i < Len(searched)
    /\ randuri' = [randuri EXCEPT ![searched[i + 1] + 1].set = TRUE]
    /\ i' = i + 1
    /\ UNCHANGED <<statement, whereop, whereval, column, searched, rowmap, step>>

\* rowmap[j]-- for the rows after row, as far as the table reaches by now.
ShiftFrom(row) ==   \* Shifted that starts with row itself
    [j \in DOMAIN rowmap |->
        IF j >= row /\ j < Len(randuri) THEN rowmap[j] - 1 ELSE rowmap[j]]

Shifted(row) ==
    [j \in DOMAIN rowmap |->
        IF j > row /\ j < Len(randuri) THEN rowmap[j] - 1 ELSE rowmap[j]]

\* stergeRand, which only complains about a row that is not there.
SwapLast(row) ==    \* StergeRand that fills the gap with the last row
    IF row \in 0 .. Len(randuri) - 1
    THEN Front([randuri EXCEPT ![row + 1] = randuri[Len(randuri)]])
    ELSE randuri

StergeRand(row) ==
    IF row \in 0 .. Len(randuri) - 1 THEN RemoveAt(randuri, row + 1) ELSE randuri

DeleteRow ==
    /\ step = "loop" /\ statement = "delete"
    /\ i < Len(searched)
    /\ LET row == searched[i + 1]
       IN  /\ rowmap'  = Shifted(row)
           /\ randuri' = StergeRand(rowmap'[row])
    /\ i' = i + 1
    /\ UNCHANGED <<statement, whereop, whereval, column, searched, step>>

WriteTable ==
    /\ step = "loop"
    /\ i = Len(searched)
    /\ step' = "done"
    /\ UNCHANGED <<statement, whereop, whereval, column, randuri, searched, i, rowmap>>

Next == Search \/ UpdateRow \/ DeleteRow \/ WriteTable

Spec == Init /\ [][Next]_vars
-----------------------------------------------------------------------------
Rows == 0 .. Len(column) - 1

Matching == {r \in Rows : Holds(column[r + 1], whereop, whereval)}

Left == {randuri[r].id : r \in 1 .. Len(randuri)}

\* Whatever the tree's shape, the search gives every row the clause names,
\* once, and no other.
SearchIsExact ==
    step # "search" =>
        /\ ToSet(searched) = Matching
        /\ Len(searched) = Cardinality(Matching)

\* UPDATE sets the rows the clause names and no other, and removes none.
UpdateIsExact ==
    (step = "done" /\ statement = "update") =>
        \A r \in Rows : randuri[r + 1] = [id |-> r, set |-> r \in Matching]

\* DELETE never reorders the rows that stay.
DeleteKeepsOrder ==
    \A r, q \in 1 .. Len(randuri) : r < q => randuri[r].id < randuri[q].id

\* DELETE of at most two rows removes these two: rowmap is still right.
DeleteOfTwoIsExact ==
    (step = "done" /\ statement = "delete" /\ Cardinality(Matching) <= 2) =>
        Left = Rows \ Matching

\* DELETE removes the rows the clause names and no other.
DeleteIsExact ==
    (step = "done" /\ statement = "delete") => Left = Rows \ Matching
=============================================================================
