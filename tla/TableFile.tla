----------------------------- MODULE TableFile -----------------------------
(***************************************************************************)
(* The file of a table: what gestionareTabele.c and SQLParser.c write, and *)
(* what loadTable reads back.                                              *)
(*                                                                         *)
(* A file is a sequence of tokens: separators, the count of columns digit  *)
(* by digit, and for each column its type (its name goes with it) and the  *)
(* last character of the type as a token of its own, since that is what    *)
(* salveazaTabel can lose.  A value is a sequence of words and of whatever *)
(* else a client put between them; the format keeps those of a Tidy row.   *)
(***************************************************************************)
EXTENDS Integers, SequencesExt

CONSTANT Ten    \* the least number of columns that has two digits; 10 in C

\* As many columns as parseCreateTable has room for.
Counts == <<"1", "2", "3", "4", "5", "6", "7", "8", "9", "10",
            "11", "12", "13", "14", "15", "16", "17", "18", "19", "20">>

(* A table is its columns' types and its rows, sequences of values.        *)

NoTable == [types |-> <<>>, rows |-> <<>>]

\* A piece that loadTable's strtok did not find: a pointer nobody set.  What it
\* leads to is chosen when it is followed (Storage).
Unset == <<"unset">>

\* The elements of s at the given places, in their order.
Picked(s, places) ==
    LET picked[i \in 0 .. Len(s)] ==
            IF i = 0 THEN <<>>
            ELSE IF i \in places THEN Append(picked[i - 1], s[i])
            ELSE picked[i - 1]
    IN  picked[Len(s)]
-----------------------------------------------------------------------------
(* Writing                                                                 *)

\* A count of one digit or of two, the last one telling them apart.
Digits(n) == IF n = 0 THEN <<"0">>
             ELSE IF n < Ten THEN <<Counts[n]>> ELSE <<"digit", Counts[n]>>

ColumnText(type) == <<type, ".", "TAB">>

Header(types) ==
    <<"name", "NL">> \o Digits(Len(types)) \o <<"NL">>
    \o FlattenSeq([j \in DOMAIN types |-> ColumnText(types[j])]) \o <<"NL">>

ShorterSize(types) ==   \* FileSize, the separator after a type not counted
    Len(Header(types)) - Len(Digits(Len(types))) - 2

\* salveazaTabel adds up the lines it writes, the one with the count of columns
\* excepted, and cuts the file there.  It is called with no rows only.
FileSize(types) == Len(Header(types)) - Len(Digits(Len(types))) - 1

\* What salveazaTabel leaves of the header of a new table.
CreatedText(types) == SubSeq(Header(types), 1, FileSize(types))

\* scrieTabelInFisier
RowText(row) == FlattenSeq([j \in DOMAIN row |-> row[j] \o <<"TAB">>]) \o <<"NL">>

TableText(t) ==
    Header(t.types) \o FlattenSeq([i \in DOMAIN t.rows |-> RowText(t.rows[i])])

NewLines(f) == Cardinality({i \in DOMAIN f : f[i] = "NL"})

NeverNewLine(f) == <<>>     \* Guess, line 240 left out

\* append_to_file_values takes a file of two newlines for one that salveazaTabel
\* cut, and ends its last line first.
Guess(f) == IF NewLines(f) = 2 THEN <<<<"NL">>>> ELSE <<>>

\* The calls of write, one by one.
RowPieces(row) ==
    FlattenSeq([j \in DOMAIN row |->
                    IF j < Len(row) THEN <<row[j], <<"SP">>, <<"TAB">>>>
                    ELSE <<row[j], <<"TAB">>>>])
    \o <<<<"NL">>>>

AppendedPieces(f, row) == Guess(f) \o RowPieces(row)
-----------------------------------------------------------------------------
(* Reading                                                                 *)

\* The pieces between separators, however many follow each other; the last piece
\* may be empty.
SplitAt(s, separator) ==
    LET pieces[i \in 0 .. Len(s)] ==
            IF i = 0 THEN <<<<>>>>
            ELSE LET before == pieces[i - 1]
                 IN  IF s[i] = separator THEN Append(before, <<>>)
                     ELSE [before EXCEPT ![Len(before)] = Append(@, s[i])]
    IN  pieces[Len(s)]

NonEmpty(pieces) == Picked(pieces, {i \in DOMAIN pieces : pieces[i] # <<>>})

\* Every line goes through strncpy, which stops at the first zero byte.
UpToZero(line) ==
    LET z == SelectInSeq(line, LAMBDA x : x = "ZERO")
    IN  IF z = 0 THEN line ELSE SubSeq(line, 1, z - 1)

\* fgets counts a last line that does not end.
Lines(f) ==
    LET pieces == SplitAt(f, "NL")
    IN  IF Last(pieces) = <<>> THEN Front(pieces) ELSE pieces

Line(f, i) == UpToZero(Lines(f)[i])

\* A type without its last character: no known type, or a VARCHAR whose length
\* has lost its last digit.
CutOff(type) == IF type \in {"VARCHAR", "SHORT"} THEN "SHORT" ELSE "IN"

ColumnPieces(f) == NonEmpty(SplitAt(Line(f, 3), "TAB"))

\* loadTable finds a name, a count, and as many columns.
Usable(f) ==
    /\ Len(Lines(f)) >= 3
    /\ Line(f, 1) = <<"name">>
    /\ Line(f, 2) = Digits(Len(ColumnPieces(f)))

\* strtok passes over the separators a line begins with.
Trimmed(line) ==
    LET d == SelectInSeq(line, LAMBDA x : x \notin {"SP", "TAB"})
    IN  IF d = 0 THEN <<>> ELSE SubSeq(line, d, Len(line))

\* strtok with " \t" for the first value, with "\t" alone for the others.
ReadRow(line, n) ==
    LET d     == SelectInSeq(line, LAMBDA x : x \in {"SP", "TAB"})
        first == IF d = 0 THEN line ELSE SubSeq(line, 1, d - 1)
        rest  == IF d = 0 THEN <<>>
                 ELSE NonEmpty(SplitAt(SubSeq(line, d + 1, Len(line)), "TAB"))
        found == IF first = <<>> THEN <<>> ELSE <<first>> \o rest
    IN  [j \in 1 .. n |-> IF j <= Len(found) THEN found[j] ELSE Unset]

LoadedRow(line, n) == ReadRow(Trimmed(line), n)

AllSet(rows) == \A i \in DOMAIN rows : \A j \in DOMAIN rows[i] : rows[i][j] # Unset

\* A value that stays in its column and on its line.
Keepable(value) == value # <<>> /\ ToSet(value) \cap {"NL", "TAB"} = {}

\* Every column has a value, and the first is one word: what the format keeps.
Tidy(row, columns) ==
    /\ Len(row) = columns
    /\ \A j \in DOMAIN row : Keepable(row[j])
    /\ "SP" \notin ToSet(row[1])

\* Defined where Usable(f).
LoadTable(f) ==
    LET lines   == Lines(f)
        columns == ColumnPieces(f)
    IN  [types |-> [j \in DOMAIN columns |->
                        IF Len(columns[j]) = 2 THEN columns[j][1]
                        ELSE CutOff(columns[j][1])],
         rows  |-> [i \in 1 .. Len(lines) - 3 |->
                        LoadedRow(UpToZero(lines[i + 3]), Len(columns))]]
=============================================================================
