--------------------------- MODULE Storage_proofs ---------------------------
(***************************************************************************)
(* What is written is text, what is loaded from a text is a table, what is *)
(* copied of the file is a prefix of it, and what the commands put into    *)
(* the file is what loadTable finds in it: for any blocks, columns, rows,  *)
(* commands and crashes.                                                   *)
(***************************************************************************)
EXTENDS Storage, TableFile_proofs

-----------------------------------------------------------------------------
(* What is written is text.                                                *)

Tokens ==
    Words \cup KnownTypes \cup Garbage
          \cup {"name", "NL", "TAB", "SP", ".", "ZERO", "digit", "0", "unset", "SHORT", "IN"}
          \cup {Counts[n] : n \in DOMAIN Counts}

Text == Seq(Tokens)

LEMMA ValuesAreTexts ==
    /\ Seq(Words) \subseteq Text /\ Seq(Seq(Words)) \subseteq Seq(Text)
    /\ Values \subseteq Text /\ Seq(Values) \subseteq Seq(Text)
    /\ Seq(Seq(Values)) \subseteq Seq(Seq(Text))
<1>1. Seq(Words) \subseteq Text
  <2>1. Words \subseteq Tokens
    BY DEF Tokens
  <2> QED
    BY <2>1, SeqMonotonic DEF Text
<1>2. Values \subseteq Text
  <2>1. Seq(Words \ {"NL", "TAB"}) \subseteq Seq(Words)
    OBVIOUS
  <2> QED
    BY <1>1, <2>1 DEF Values
<1> QED
  BY <1>1, <1>2, SeqMonotonic

\* A table whose columns can be counted.
Tables ==
    {t \in [types : Text, rows : Seq(Seq(Text))] : Digits(Len(t.types)) \in Text}

LEMMA CutType ==
    ASSUME NEW s \in Text, NEW m \in Nat \ {0}, NEW n \in 0 .. Len(s)
    PROVE  SubSeq(s, m, n) \in Text
  BY DEF Text

LEMMA LengthJoined ==
    ASSUME NEW s \in Text, NEW t \in Text
    PROVE  /\ Len(s) \in Nat /\ Len(t) \in Nat
           /\ Len(s \o t) = Len(s) + Len(t)
  BY DEF Text

LEMMA DigitsText ==
    ASSUME NEW n \in {0} \cup DOMAIN Counts
    PROVE  Digits(n) \in Text
<1>1. n # 0 => Counts[n] \in Tokens
  BY DEF Tokens
<1>2. "digit" \in Tokens /\ "0" \in Tokens
  BY DEF Tokens
<1> HIDE DEF Counts
<1> QED
  BY <1>1, <1>2 DEF Digits, Text

LEMMA HeaderType ==
    ASSUME NEW t \in Text, Digits(Len(t)) \in Text
    PROVE  /\ Header(t) \in Text
           /\ Len(Header(t)) >= 4 + Len(Digits(Len(t)))
<1> DEFINE columns == [j \in DOMAIN t |-> ColumnText(t[j])]
           first == <<"name", "NL">>
           end == <<"NL">>
<1>1. first \in Text /\ end \in Text /\ Len(first) = 2 /\ Len(end) = 1
  BY DEF Text, Tokens
<1>2. columns \in Seq(Text)
  <2>1. ASSUME NEW x \in Tokens
        PROVE  ColumnText(x) \in Text
    BY DEF ColumnText, Text, Tokens
  <2>2. DOMAIN t = 1 .. Len(t) /\ Len(t) \in Nat /\ \A j \in 1 .. Len(t) : t[j] \in Tokens
    BY DEF Text
  <2>3. columns \in [1 .. Len(t) -> Text]
    BY <2>1, <2>2
  <2> QED
    BY <2>2, <2>3, IsSequence
<1>3. FlattenSeq(columns) \in Text
  BY <1>2, FlattenType DEF Text
<1> DEFINE digits == Digits(Len(t))
           body == FlattenSeq(columns)
           one == first \o digits
           two == one \o end
           three == two \o body
<1>4. Header(t) = three \o end
  BY DEF Header
<1>5. digits \in Text /\ body \in Text /\ Len(digits) \in Nat
  BY <1>3 DEF Text
<1> HIDE DEF columns, first, end, digits, body
<1>6. one \in Text
  BY <1>1, <1>5 DEF Text
<1>7. Len(one) >= 2 + Len(digits)
  <2>1. Len(digits) \in Nat /\ Len(one) = Len(first) + Len(digits)
    BY <1>1, <1>5, LengthJoined
  <2> HIDE DEF one
  <2> QED
    BY <1>1, <2>1
<1> HIDE DEF one
<1>8. two \in Text
  BY <1>1, <1>6 DEF Text
<1>9. Len(two) >= 3 + Len(digits)
  <2>1. Len(one) \in Nat /\ Len(two) = Len(one) + Len(end)
    BY <1>1, <1>6, LengthJoined
  <2> HIDE DEF two
  <2> QED
    BY <1>1, <1>5, <1>7, <2>1
<1> HIDE DEF two
<1>10. three \in Text
  BY <1>5, <1>8 DEF Text
<1>11. Len(three) >= 3 + Len(digits)
  <2>1. /\ Len(body) \in Nat /\ Len(two) \in Nat
        /\ Len(three) = Len(two) + Len(body)
    BY <1>5, <1>8, LengthJoined
  <2> HIDE DEF three
  <2> QED
    BY <1>5, <1>9, <2>1
<1> HIDE DEF three
<1>12. three \o end \in Text
  BY <1>1, <1>10 DEF Text
<1>13. Len(three \o end) >= 4 + Len(digits)
  <2>1. Len(three) \in Nat /\ Len(three \o end) = Len(three) + Len(end)
    BY <1>1, <1>10, LengthJoined
  <2> QED
    BY <1>1, <1>5, <1>11, <2>1
<1> QED
  BY <1>4, <1>12, <1>13 DEF digits

LEMMA RowTextType ==
    ASSUME NEW row \in Seq(Text)
    PROVE  RowText(row) \in Text
<1> DEFINE values == [j \in DOMAIN row |-> row[j] \o <<"TAB">>]
<1>1. <<"NL">> \in Text /\ <<"TAB">> \in Text
  BY DEF Text, Tokens
<1>2. values \in Seq(Text)
  <2>1. ASSUME NEW value \in Text
        PROVE  value \o <<"TAB">> \in Text
    BY <1>1 DEF Text
  <2>2. DOMAIN row = 1 .. Len(row) /\ Len(row) \in Nat /\ \A j \in 1 .. Len(row) : row[j] \in Text
    OBVIOUS
  <2>3. values \in [1 .. Len(row) -> Text]
    BY <2>1, <2>2
  <2> QED
    BY <2>2, <2>3, IsSequence
<1>3. FlattenSeq(values) \in Text
  BY <1>2, FlattenType DEF Text
<1> HIDE DEF values
<1>4. FlattenSeq(values) \o <<"NL">> \in Text
  BY <1>1, <1>3 DEF Text
<1> QED
  BY <1>4 DEF RowText, values

LEMMA TableTextType ==
    ASSUME NEW t \in Tables
    PROVE  TableText(t) \in Text /\ TableText(t) # <<>>
<1> DEFINE rows == [i \in DOMAIN t.rows |-> RowText(t.rows[i])]
<1>1. t.types \in Text /\ Digits(Len(t.types)) \in Text /\ t.rows \in Seq(Seq(Text))
  BY DEF Tables
<1>2. Header(t.types) \in Text /\ Len(Header(t.types)) >= 4
  <2>1. Len(Digits(Len(t.types))) \in Nat
    BY <1>1 DEF Text
  <2> QED
    BY <1>1, <2>1, HeaderType
<1>3. rows \in Seq(Text)
  <2>1. /\ DOMAIN t.rows = 1 .. Len(t.rows) /\ Len(t.rows) \in Nat
        /\ \A i \in 1 .. Len(t.rows) : t.rows[i] \in Seq(Text)
    BY <1>1
  <2>2. rows \in [1 .. Len(t.rows) -> Text]
    BY <2>1, RowTextType
  <2> QED
    BY <2>1, <2>2, IsSequence
<1>4. FlattenSeq(rows) \in Text
  BY <1>3, FlattenType DEF Text
<1>5. TableText(t) = Header(t.types) \o FlattenSeq(rows)
  BY DEF TableText
<1> HIDE DEF rows
<1> QED
  BY <1>2, <1>4, <1>5 DEF Text
-----------------------------------------------------------------------------
(* What is loaded is a table.                                              *)

LEMMA UpToZeroText ==
    ASSUME NEW line \in Text
    PROVE  UpToZero(line) \in Text
<1>1. UpToZero(line) \in Seq(Tokens \ {"ZERO"})
  BY UpToZeroType DEF Text
<1> QED
  BY <1>1 DEF Text

LEMMA PiecesType ==
    ASSUME NEW line \in Text, NEW separator
    PROVE  SplitAt(line, separator) \in Seq(Text) \ {<<>>}
  BY SplitType DEF Text, Some

LEMMA LinesType ==
    ASSUME NEW f \in Text
    PROVE  Lines(f) \in Seq(Text)
<1> DEFINE pieces == SplitAt(f, "NL")
<1>1. pieces \in Seq(Text)
  BY PiecesType
<1>2. Lines(f) = IF Last(pieces) = <<>> THEN Front(pieces) ELSE pieces
  BY DEF Lines
<1> HIDE DEF pieces
<1>3. Front(pieces) \in Seq(Text)
  BY <1>1 DEF Front
<1> QED
  BY <1>1, <1>2, <1>3

LEMMA NonEmptyText ==
    ASSUME NEW line \in Text, NEW separator
    PROVE  NonEmpty(SplitAt(line, separator)) \in Seq(Text)
  BY PiecesType, NonEmptyType

LEMMA LoadedRowText ==
    ASSUME NEW line \in Text, NEW n \in Nat
    PROVE  LoadedRow(line, n) \in Seq(Text)
<1>1. CASE n = 0
  <2>1. LoadedRow(line, 0) \in [1 .. 0 -> Text]
    BY DEF LoadedRow, ReadRow
  <2> QED
    BY <1>1, <2>1, IsSequence
<1>2. CASE n # 0
  <2>1. LoadedRow(line, n) \in Seq(Seq(Tokens \ {"TAB"}) \ {<<>>})
    <3>1. "unset" \in Tokens /\ line \in Seq(Tokens) /\ n > 0
      BY <1>2 DEF Text, Tokens
    <3> QED
      BY <3>1, LoadedRowType
  <2>2. Seq(Tokens \ {"TAB"}) \ {<<>>} \subseteq Text
    BY DEF Text
  <2> QED
    BY <2>1, <2>2, SeqMonotonic
<1> QED
  BY <1>1, <1>2

\* Whatever is in the file: a table that loadTable takes for one has the parts of one.
LEMMA LoadType ==
    ASSUME NEW f \in Text, Usable(f)
    PROVE  /\ LoadTable(f) \in Tables
           /\ Len(Lines(f)) >= 3
<1> DEFINE lines == Lines(f)
           columns == ColumnPieces(f)
           kinds == [j \in DOMAIN columns |->
                        IF Len(columns[j]) = 2 THEN columns[j][1] ELSE CutOff(columns[j][1])]
           rows == [i \in 1 .. Len(lines) - 3 |->
                        LoadedRow(UpToZero(lines[i + 3]), Len(columns))]
<1>1. lines \in Seq(Text) /\ Len(lines) \in Nat
  BY LinesType
<1>2. Len(lines) >= 3
  BY DEF Usable
<1>3. ASSUME NEW i \in 1 .. Len(lines)
      PROVE  UpToZero(lines[i]) \in Text
  BY <1>1, UpToZeroText
<1>4. columns \in Seq(Text) /\ Len(columns) \in Nat
  <2>1. Line(f, 3) \in Text
    BY <1>1, <1>2, <1>3 DEF Line
  <2> QED
    BY <2>1, NonEmptyText DEF ColumnPieces
<1>5. Digits(Len(columns)) \in Text
  <2>1. Line(f, 2) \in Text
    BY <1>1, <1>2, <1>3 DEF Line
  <2>2. Line(f, 2) = Digits(Len(columns))
    BY DEF Usable
  <2> QED
    BY <2>1, <2>2
<1>6. LoadTable(f) = [types |-> kinds, rows |-> rows]
  BY DEF LoadTable
<1> HIDE DEF columns, lines
<1>7. kinds \in Text /\ Len(kinds) = Len(columns)
  <2>1. ASSUME NEW j \in 1 .. Len(columns)
        PROVE  (IF Len(columns[j]) = 2 THEN columns[j][1] ELSE CutOff(columns[j][1])) \in Tokens
    <3>1. columns[j] \in Seq(Tokens)
      BY <1>4 DEF Text
    <3>2. CASE Len(columns[j]) = 2
      <4>1. columns[j][1] \in Tokens
        BY <3>1, <3>2
      <4> QED
        BY <3>2, <4>1
    <3>3. CASE Len(columns[j]) # 2
      BY <3>3 DEF CutOff, Tokens
    <3> QED
      BY <3>2, <3>3
  <2>2. DOMAIN columns = 1 .. Len(columns)
    BY <1>4
  <2>3. kinds \in [1 .. Len(columns) -> Tokens]
    BY <2>1, <2>2
  <2> HIDE DEF kinds
  <2> QED
    BY <1>4, <2>3, IsSequence, Zenon DEF Text
<1>8. rows \in Seq(Seq(Text))
  <2>1. ASSUME NEW i \in 1 .. Len(lines) - 3
        PROVE  LoadedRow(UpToZero(lines[i + 3]), Len(columns)) \in Seq(Text)
    <3>1. i + 3 \in 1 .. Len(lines)
      BY <1>1, <1>2
    <3> QED
      BY <1>3, <1>4, <3>1, LoadedRowText
  <2>2. rows \in [1 .. Len(lines) - 3 -> Seq(Text)]
    BY <2>1
  <2>3. Len(lines) - 3 \in Nat
    BY <1>1, <1>2
  <2> HIDE DEF rows
  <2> QED
    BY <2>2, <2>3, IsSequence
<1> HIDE DEF kinds, rows
<1> QED
  BY <1>2, <1>5, <1>6, <1>7, <1>8 DEF Tables, lines
-----------------------------------------------------------------------------
(* What is still to be written.                                            *)

LEMMA BlocksType ==
    ASSUME NEW text \in Text
    PROVE  /\ Blocks(text) \in Seq(Text)
           /\ text # <<>> => Blocks(text) # <<>>
<1> DEFINE n == (Len(text) + Block - 1) \div Block
           block(i) == SubSeq(text, (i - 1) * Block + 1, Min({i * Block, Len(text)}))
<1>1. Block \in Nat /\ Block > 0
  BY StorageAssumption
<1>2. Len(text) \in Nat /\ (text # <<>> => Len(text) > 0)
  BY DEF Text
<1>3. n \in Nat /\ (Len(text) > 0 => n > 0)
  BY <1>1, <1>2
<1> HIDE DEF n
<1>4. ASSUME NEW i \in 1 .. n
      PROVE  block(i) \in Text
  <2>1. i * Block \in Nat /\ (i - 1) * Block \in Nat
    BY <1>1, <1>3
  <2>2. Min({i * Block, Len(text)}) \in 0 .. Len(text)
    BY <1>2, <2>1, MinOfTwo
  <2> HIDE DEF block
  <2>3. block(i) = SubSeq(text, (i - 1) * Block + 1, Min({i * Block, Len(text)}))
    BY DEF block
  <2>4. (i - 1) * Block + 1 \in Nat \ {0}
    BY <2>1
  <2> QED
    BY <2>2, <2>3, <2>4, CutType
<1>5. Blocks(text) = [i \in 1 .. n |-> block(i)]
  BY DEF Blocks, n
<1> HIDE DEF block
<1>6. [i \in 1 .. n |-> block(i)] \in [1 .. n -> Text]
  BY <1>4
<1>7. Blocks(text) \in Seq(Text) /\ Len(Blocks(text)) = n
  BY <1>3, <1>5, <1>6, IsSequence, Zenon
<1> QED
  BY <1>2, <1>3, <1>7

LEMMA PiecesToAppend ==
    ASSUME NEW f, NEW row \in Seq(Text)
    PROVE  /\ AppendedPieces(f, row) \in Seq(Text) \ {<<>>}
           /\ \E middle \in Seq(Text) :
                 AppendedPieces(f, row) = Guess(f) \o middle \o <<<<"NL">>>>
<1> DEFINE last == <<<<"NL">>>>
           pieces(j) == IF j < Len(row) THEN <<row[j], <<"SP">>, <<"TAB">>>>
                        ELSE <<row[j], <<"TAB">>>>
           values == [j \in DOMAIN row |-> pieces(j)]
<1>1. <<"NL">> \in Text /\ <<"SP">> \in Text /\ <<"TAB">> \in Text
  BY DEF Text, Tokens
<1>2. Guess(f) \in Seq(Text)
  BY <1>1 DEF Guess
<1>3. /\ DOMAIN row = 1 .. Len(row) /\ Len(row) \in Nat
      /\ \A j \in 1 .. Len(row) : row[j] \in Text
  OBVIOUS
<1>4. values \in Seq(Seq(Text))
  <2>1. ASSUME NEW j \in 1 .. Len(row)
        PROVE  pieces(j) \in Seq(Text)
    BY <1>1, <1>3
  <2> HIDE DEF pieces
  <2>2. values \in [1 .. Len(row) -> Seq(Text)]
    BY <1>3, <2>1
  <2> QED
    BY <1>3, <2>2, IsSequence
<1>5. FlattenSeq(values) \in Seq(Text)
  BY <1>4, FlattenType
<1>6. AppendedPieces(f, row) = Guess(f) \o FlattenSeq(values) \o last
  <2>1. AppendedPieces(f, row) = Guess(f) \o (FlattenSeq(values) \o last)
    BY DEF AppendedPieces, RowPieces
  <2>2. last \in Seq(Text)
    BY <1>1
  <2> HIDE DEF values, last
  <2>3. Three(Text, Guess(f), FlattenSeq(values), last)
    BY <1>2, <1>5, <2>2 DEF Three
  <2> QED
    BY <2>1, <2>3, ConcatThree
<1>7. last \in Seq(Text) /\ last # <<>>
  BY <1>1
<1> HIDE DEF values, last
<1> DEFINE first == Guess(f) \o FlattenSeq(values)
<1>8. first \in Seq(Text)
  BY <1>2, <1>5
<1> HIDE DEF first
<1>9. first \o last \in Seq(Text) /\ first \o last # <<>>
  BY <1>7, <1>8
<1>10. AppendedPieces(f, row) \in Seq(Text) \ {<<>>}
  BY <1>6, <1>9 DEF first
<1>11. \E middle \in Seq(Text) : AppendedPieces(f, row) = Guess(f) \o middle \o last
  BY <1>5, <1>6
<1> QED
  BY <1>10, <1>11 DEF last

\* The types of a table as salveazaTabel gets them.
Countable == {s \in Text : Len(s) \in {0} \cup DOMAIN Counts}

LEMMA SchemasType ==
    ASSUME NEW s \in Schemas
    PROVE  /\ s \in Seq(Words \cup KnownTypes) /\ s \in Countable
           /\ \A g \in Garbage : TypesSet(s, g) \in Countable
<1>1. s \in Seq(Words \cup KnownTypes) /\ Len(s) \in {0} \cup DOMAIN Counts
  BY StorageAssumption DEF StorageAssumption
<1>2. s \in Text
  BY <1>1 DEF Text, Tokens
<1>3. ASSUME NEW g \in Garbage
      PROVE  TypesSet(s, g) \in Text /\ Len(TypesSet(s, g)) = Len(s)
  <2>1. DOMAIN s = 1 .. Len(s) /\ Len(s) \in Nat /\ \A j \in 1 .. Len(s) : s[j] \in Tokens
    BY <1>2 DEF Text
  <2>2. TypesSet(s, g) \in [1 .. Len(s) -> Tokens]
    BY <2>1 DEF TypesSet, Tokens
  <2> QED
    BY <2>1, <2>2, IsSequence, Zenon DEF Text
<1> HIDE DEF Counts
<1> QED
  BY <1>1, <1>2, <1>3 DEF Countable

LEMMA CreatedType ==
    ASSUME NEW s \in Countable
    PROVE  /\ s \in Text /\ Digits(Len(s)) \in Text
           /\ FileSize(s) \in Nat /\ FileSize(s) > 0
           /\ CreatedText(s) \in Text /\ CreatedText(s) # <<>>
<1>1. s \in Text
  BY DEF Countable
<1>2. Digits(Len(s)) \in Text
  BY DigitsText DEF Countable
<1>3. /\ Header(s) \in Text /\ Len(Header(s)) \in Nat /\ Len(Digits(Len(s))) \in Nat
      /\ Len(Header(s)) >= 4 + Len(Digits(Len(s)))
  BY <1>1, <1>2, HeaderType DEF Text
<1>4. FileSize(s) = Len(Header(s)) - Len(Digits(Len(s))) - 1
  BY DEF FileSize
<1>5. FileSize(s) \in 1 .. Len(Header(s))
  BY <1>3, <1>4
<1>6. SubSeq(Header(s), 1, FileSize(s)) \in Text
  BY <1>3, <1>5, CutType
<1>7. Len(SubSeq(Header(s), 1, FileSize(s))) = FileSize(s)
  BY <1>3, <1>5 DEF Text
<1>8. SubSeq(Header(s), 1, FileSize(s)) # <<>>
  BY <1>5, <1>7
<1> QED
  BY <1>1, <1>2, <1>5, <1>6, <1>8 DEF CreatedText

LEMMA ShippedType ==
    ASSUME NEW f \in Shipped
    PROVE  f \in Text
<1>1. f \in Seq(Words \cup KnownTypes \cup ToSet(Counts)
                \cup {"name", "digit", ".", "SP", "TAB", "NL"})
  BY StorageAssumption DEF StorageAssumption, WellShipped
<1>2. ToSet(Counts) = {Counts[n] : n \in DOMAIN Counts}
  BY DEF ToSet
<1> HIDE DEF Counts
<1>3. (Words \cup KnownTypes \cup ToSet(Counts)
          \cup {"name", "digit", ".", "SP", "TAB", "NL"}) \subseteq Tokens
  BY <1>2 DEF Tokens
<1> QED
  BY <1>1, <1>3, SeqMonotonic DEF Text

LEMMA ChangedTables ==
    ASSUME NEW t \in Tables, NEW chosen, NEW column, NEW value \in Text
    PROVE  Without(t, chosen) \in Tables /\ With(t, chosen, column, value) \in Tables
<1>1. /\ t.rows \in Seq(Seq(Text)) /\ t.types \in Text
      /\ t = [types |-> t.types, rows |-> t.rows]
      /\ Digits(Len(t.types)) \in Text
  BY DEF Tables
<1>2. ASSUME NEW rows \in Seq(Seq(Text))
      PROVE  [t EXCEPT !.rows = rows] \in Tables
  BY <1>1, <1>2 DEF Tables
<1>3. Without(t, chosen) \in Tables
  <2> DEFINE kept == Picked(t.rows, DOMAIN t.rows \ chosen)
  <2>1. kept \in Seq(Seq(Text))
    BY <1>1, PickedType
  <2>2. Without(t, chosen) = [t EXCEPT !.rows = kept]
    BY DEF Without
  <2> HIDE DEF kept
  <2> QED
    BY <1>2, <2>1, <2>2
<1>4. With(t, chosen, column, value) \in Tables
  <2> DEFINE changed(row) == [row EXCEPT ![column] = value]
             rows == [i \in DOMAIN t.rows |->
                         IF i \in chosen /\ column \in DOMAIN t.rows[i]
                         THEN changed(t.rows[i]) ELSE t.rows[i]]
  <2>2. /\ DOMAIN t.rows = 1 .. Len(t.rows) /\ Len(t.rows) \in Nat
        /\ \A i \in 1 .. Len(t.rows) : t.rows[i] \in Seq(Text)
    BY <1>1
  <2>3. ASSUME NEW row \in Seq(Text), column \in DOMAIN row
        PROVE  changed(row) \in Seq(Text)
    BY <2>3
  <2>4. With(t, chosen, column, value) = [t EXCEPT !.rows = rows]
    BY DEF With
  <2> HIDE DEF changed
  <2>5. rows \in [1 .. Len(t.rows) -> Seq(Text)]
    BY <2>2, <2>3
  <2>6. rows \in Seq(Seq(Text))
    BY <2>2, <2>5, IsSequence
  <2> HIDE DEF rows
  <2> QED
    BY <1>2, <2>4, <2>6
<1> QED
  BY <1>3, <1>4
-----------------------------------------------------------------------------
(* Prefixes.                                                               *)

LEMMA CutIsPrefix ==
    ASSUME NEW s \in Text, NEW n \in 0 .. Len(s)
    PROVE  IsPrefix(SubSeq(s, 1, n), s)
<1>1. Len(SubSeq(s, 1, n)) = n /\ Len(s) \in Nat
  BY DEF Text
<1>2. SubSeq(SubSeq(s, 1, n), 1, n) = SubSeq(s, 1, n)
  BY <1>1 DEF Text
<1> QED
  BY <1>1, <1>2 DEF IsPrefix

LEMMA PrefixIsCut ==
    ASSUME NEW s \in Text, NEW t \in Text
    PROVE  IsPrefix(s, t) <=> (Len(s) <= Len(t) /\ s = SubSeq(t, 1, Len(s)))
<1>1. SubSeq(s, 1, Len(s)) = s
  BY DEF Text
<1> QED
  BY <1>1 DEF IsPrefix

\* What is appended to the file leaves what was read of it.
LEMMA CutOfLonger ==
    ASSUME NEW s \in Text, NEW t \in Text, NEW n \in 0 .. Len(s)
    PROVE  SubSeq(s \o t, 1, n) = SubSeq(s, 1, n) /\ n <= Len(s \o t)
<1>1. Len(s) \in Nat /\ Len(t) \in Nat /\ Len(s \o t) = Len(s) + Len(t)
  BY LengthJoined
<1>2. ASSUME NEW i \in 1 .. n
      PROVE  (s \o t)[i] = s[i]
  BY <1>1 DEF Text
<1>3. SubSeq(s \o t, 1, n) = [i \in 1 .. n |-> (s \o t)[i]]
  BY <1>1 DEF Text
<1>4. SubSeq(s, 1, n) = [i \in 1 .. n |-> s[i]]
  BY <1>1 DEF Text
<1> QED
  BY <1>1, <1>2, <1>3, <1>4

LEMMA PrefixOfLonger ==
    ASSUME NEW s \in Text, NEW t \in Text, NEW u \in Text, IsPrefix(s, t)
    PROVE  IsPrefix(s, t \o u)
<1>1. Len(s) \in 0 .. Len(t) /\ s = SubSeq(t, 1, Len(s))
  BY PrefixIsCut DEF Text
<1>2. SubSeq(t \o u, 1, Len(s)) = SubSeq(t, 1, Len(s)) /\ Len(s) <= Len(t \o u)
  BY <1>1, CutOfLonger
<1>3. t \o u \in Text
  BY DEF Text
<1> QED
  BY <1>1, <1>2, <1>3, PrefixIsCut

LEMMA PartIsPrefix ==
    ASSUME NEW s \in Text, NEW t \in Text, NEW u \in Text, IsPrefix(s \o u, t)
    PROVE  IsPrefix(s, t)
<1>1. /\ Len(s) \in Nat /\ Len(u) \in Nat /\ Len(t) \in Nat
      /\ Len(s \o u) = Len(s) + Len(u)
  BY LengthJoined
<1>2. s \o u \in Text
  BY DEF Text
<1>3. Len(s) + Len(u) <= Len(t) /\ s \o u = SubSeq(t, 1, Len(s) + Len(u))
  BY <1>1, <1>2, PrefixIsCut
<1>4. ASSUME NEW i \in 1 .. Len(s)
      PROVE  s[i] = t[i]
  <2>1. (s \o u)[i] = s[i]
    BY <1>1 DEF Text
  <2>2. SubSeq(t, 1, Len(s) + Len(u))[i] = t[i]
    BY <1>1, <1>3 DEF Text
  <2> QED
    BY <1>3, <2>1, <2>2
<1>5. s = [i \in 1 .. Len(s) |-> s[i]]
  BY DEF Text
<1>6. SubSeq(t, 1, Len(s)) = [i \in 1 .. Len(s) |-> t[i]]
  BY <1>1, <1>3 DEF Text
<1>7. s = SubSeq(t, 1, Len(s))
  BY <1>4, <1>5, <1>6
<1> QED
  BY <1>1, <1>3, <1>7, PrefixIsCut

LEMMA ElementWise ==
    ASSUME NEW s \in Text, NEW n, Len(s) = n
    PROVE  s = [i \in 1 .. n |-> s[i]]
<1>1. s = [i \in 1 .. Len(s) |-> s[i]]
  BY DEF Text
<1> QED
  BY <1>1

LEMMA CutsJoin ==
    ASSUME NEW s \in Text, NEW m \in 0 .. Len(s), NEW n \in m .. Len(s)
    PROVE  SubSeq(s, 1, m) \o SubSeq(s, m + 1, n) = SubSeq(s, 1, n)
<1> DEFINE a == SubSeq(s, 1, m)
           b == SubSeq(s, m + 1, n)
<1>1. Len(s) \in Nat
  BY DEF Text
<1>2. /\ a \in Text /\ Len(a) = m
      /\ \A i \in 1 .. m : a[i] = s[i]
  BY <1>1 DEF Text
<1>3. /\ b \in Text /\ Len(b) = n - m
      /\ \A i \in 1 .. n - m : b[i] = s[m + i]
  <2>1. b \in Text
    BY <1>1 DEF Text
  <2>2. Len(b) = n - m
    BY <1>1 DEF Text
  <2>3. ASSUME NEW i \in 1 .. n - m
        PROVE  b[i] = s[m + i]
    BY <1>1 DEF Text
  <2> QED
    BY <2>1, <2>2, <2>3
<1>4. SubSeq(s, 1, n) = [i \in 1 .. n |-> s[i]]
  BY <1>1 DEF Text
<1> HIDE DEF a, b
<1>5. a \o b = [i \in 1 .. n |-> IF i <= m THEN a[i] ELSE b[i - m]]
  <2>1. a \o b \in Text
    BY <1>2, <1>3 DEF Text
  <2>2. Len(a \o b) = n
    <3>1. Len(a \o b) = Len(a) + Len(b)
      BY <1>2, <1>3, LengthJoined
    <3> QED
      BY <1>1, <1>2, <1>3, <3>1
  <2>3. ASSUME NEW i \in 1 .. n
        PROVE  (a \o b)[i] = IF i <= m THEN a[i] ELSE b[i - m]
    BY <1>1, <1>2, <1>3 DEF Text
  <2>4. a \o b = [i \in 1 .. n |-> (a \o b)[i]]
    BY <2>1, <2>2, ElementWise
  <2> QED
    BY <2>3, <2>4
<1>6. ASSUME NEW i \in 1 .. n
      PROVE  (IF i <= m THEN a[i] ELSE b[i - m]) = s[i]
  BY <1>1, <1>2, <1>3
<1>7. a \o b = SubSeq(s, 1, n)
  BY <1>4, <1>5, <1>6
<1> QED
  BY <1>7 DEF a, b
-----------------------------------------------------------------------------
(* Types                                                                   *)

Texts ==
    /\ file \in Text /\ backup \in Text /\ buf \in Text /\ pos \in Nat
    /\ todo \in Seq(Text)

\* A file that is written to has its line in master, but in CREATE.
Placed ==
    /\ op \in Creating => types \in Countable
    /\ op \notin {"idle", "list", "name"} => listed

LEMMA Limits == Block \in Nat \ {0} /\ MaxCommands \in Nat /\ MaxCrashes \in Nat
  BY StorageAssumption

\* TypeOK, by what it is about.
Busy == (todo = <<>>) <=> (op \in Creating \cup {"idle"})

Running ==
    /\ up \in BOOLEAN
    /\ copier \in {"asleep", "copying", "down"}
    /\ (copier = "down") <=> ~up
    /\ ~up => op = "idle"

Held ==
    /\ copier # "copying" => (buf = <<>> /\ pos = 0)
    /\ Len(buf) <= Block /\ Len(buf) <= pos

Bounded ==
    /\ listed \in BOOLEAN /\ steady \in BOOLEAN
    /\ op \in Creating \cup {"idle", "append", "rewrite", "scribble"}
    /\ budget \in 0 .. MaxCommands /\ crashes \in 0 .. MaxCrashes
    /\ damage \in {"none", "tail", "all"}
    /\ file # <<>> => listed

Control == Busy /\ Running /\ Held /\ Bounded

TypeInv == Control /\ Texts /\ Placed

LEMMA TypeParts == TypeOK <=> Control
<1>1. up \in BOOLEAN => (((copier = "down") = ~up) <=> ((copier = "down") <=> ~up))
  OBVIOUS
<1> QED
  BY <1>1 DEF TypeOK, Control, Busy, Running, Held, Bounded

LEMMA InitTypes == Init => TypeInv
<1> SUFFICES ASSUME Init PROVE TypeInv
  OBVIOUS
<1>1. file \in Text /\ (file # <<>> => listed)
  <2>1. CASE table = NoTable /\ listed = FALSE /\ file = <<>>
    BY <2>1 DEF Text
  <2>2. CASE file \in Shipped /\ listed = TRUE
    BY <2>2, ShippedType
  <2>3. ASSUME NEW s \in Schemas, listed = TRUE, file = CreatedText(s)
        PROVE  file \in Text /\ (file # <<>> => listed)
    BY <2>3, SchemasType, CreatedType
  <2> QED
    BY <2>1, <2>2, <2>3 DEF Init
<1>2. Texts
  BY <1>1 DEF Init, Texts, Text
<1>3. listed \in BOOLEAN
  BY DEF Init
<1>4. Control
  BY <1>1, <1>3, Limits DEF Init, Control, Busy, Running, Held, Bounded, Creating
<1>5. Placed
  BY DEF Init, Placed, Creating
<1> QED
  BY <1>2, <1>4, <1>5 DEF TypeInv

\* The command that empties the file to write it anew.
LEMMA RewriteTypes ==
    ASSUME TypeInv, Ready, listed,
           NEW text \in Text, text # <<>>, NEW asked, StartRewrite(text, asked)
    PROVE  TypeInv'
<1>1. Blocks(text) \in Seq(Text) /\ Blocks(text) # <<>>
  BY BlocksType
<1>2. Texts'
  BY <1>1 DEF TypeInv, Texts, StartRewrite, copy, Text
<1>3. Control'
  <2>1. Busy'
    BY <1>1, Limits DEF TypeInv, Control, Busy, Bounded, StartRewrite, Ready, Creating, copy
  <2>2. Running'
    BY <1>1, Limits DEF TypeInv, Control, Running, StartRewrite, Ready, Creating, copy
  <2>3. Held'
    BY <1>1, Limits DEF TypeInv, Control, Held, StartRewrite, Ready, Creating, copy
  <2>4. Bounded'
    <3>1. budget' \in 0 .. MaxCommands
      BY Limits DEF TypeInv, Control, Bounded, StartRewrite, Ready
    <3> QED
      BY <3>1 DEF TypeInv, Control, Bounded, StartRewrite
  <2> QED
    BY <2>1, <2>2, <2>3, <2>4 DEF Control
<1>4. Placed'
  BY DEF StartRewrite, Placed, Creating
<1> QED
  BY <1>2, <1>3, <1>4 DEF TypeInv

LEMMA ScribbleTypes ==
    ASSUME TypeInv, Ready, listed,
           NEW text \in Text, text # <<>>, StartScribble(text)
    PROVE  TypeInv'
<1>1. Blocks(text) \in Seq(Text) /\ Blocks(text) # <<>>
  BY BlocksType
<1>2. Texts'
  BY <1>1 DEF TypeInv, Texts, StartScribble, copy, Text
<1>3. Control'
  <2>1. Busy'
    BY <1>1, Limits DEF TypeInv, Control, Busy, Bounded, StartScribble, Ready, Creating, copy
  <2>2. Running'
    BY <1>1, Limits DEF TypeInv, Control, Running, StartScribble, Ready, Creating, copy
  <2>3. Held'
    BY <1>1, Limits DEF TypeInv, Control, Held, StartScribble, Ready, Creating, copy
  <2>4. Bounded'
    <3>1. budget' \in 0 .. MaxCommands
      BY Limits DEF TypeInv, Control, Bounded, StartScribble, Ready
    <3> QED
      BY <3>1 DEF TypeInv, Control, Bounded, StartScribble
  <2> QED
    BY <2>1, <2>2, <2>3, <2>4 DEF Control
<1>4. Placed'
  BY DEF StartScribble, Placed, Creating
<1> QED
  BY <1>2, <1>3, <1>4 DEF TypeInv

LEMMA FollowedType ==
    ASSUME NEW piece \in Text, NEW g \in Garbage
    PROVE  Followed(piece, g) \in Text
<1>1. DOMAIN piece = 1 .. Len(piece) /\ Len(piece) \in Nat /\ \A i \in 1 .. Len(piece) : piece[i] \in Tokens
  BY DEF Text
<1>2. Followed(piece, g) \in [1 .. Len(piece) -> Tokens]
  BY <1>1 DEF Followed, Tokens
<1> QED
  BY <1>1, <1>2, IsSequence, Zenon DEF Text

LEMMA NewValuesType ==
    ASSUME NEW value \in NewValues
    PROVE  value \in Seq(Words) /\ value \in Text /\ value # <<>> /\ "SP" \notin ToSet(value)
<1>1. value \in Seq(Words \ {"SP"}) /\ value # <<>>
  BY StorageAssumption DEF StorageAssumption
<1>2. value \in Seq(Words)
  BY <1>1
<1>3. "SP" \notin ToSet(value)
  BY <1>1 DEF ToSet
<1> QED
  BY <1>1, <1>2, <1>3, ValuesAreTexts

LEMMA DieTypes ==
    ASSUME TypeInv, Die
    PROVE  backup' \in Text /\ buf' \in Text /\ pos' \in Nat
<1>1. backup \in Text /\ backup \o buf \in Text /\ <<>> \in Text
  BY DEF TypeInv, Texts, Text
<1> QED
  BY <1>1 DEF Die

LEMMA CommandTypes ==
    ASSUME TypeInv, Command
    PROVE  TypeInv'
<1>1. ASSUME NEW s \in Schemas, StartCreate(s)
      PROVE  TypeInv'
  <2>1. Texts' /\ types' \in Countable
    BY <1>1, SchemasType DEF TypeInv, Texts, StartCreate, copy, Text
  <2>2. Control'
    <3>1. Busy'
      BY <1>1, Limits DEF TypeInv, Control, Busy, Bounded, StartCreate, Ready, Creating, copy
    <3>2. Running'
      BY <1>1, Limits DEF TypeInv, Control, Running, StartCreate, Ready, Creating, copy
    <3>3. Held'
      BY <1>1, Limits DEF TypeInv, Control, Held, StartCreate, Ready, Creating, copy
    <3>4. Bounded'
      <4>1. budget' \in 0 .. MaxCommands
        BY <1>1, Limits DEF TypeInv, Control, Bounded, StartCreate, Ready
      <4> QED
        BY <1>1, <4>1 DEF TypeInv, Control, Bounded, StartCreate, Creating
    <3> QED
      BY <3>1, <3>2, <3>3, <3>4 DEF Control
  <2>3. Placed'
    BY <1>1, <2>1 DEF StartCreate, Placed, Creating
  <2> QED
    BY <2>1, <2>2, <2>3 DEF TypeInv
<1>2. ASSUME NEW row \in Rows, Insert(row)
      PROVE  TypeInv'
  <2>1. row \in Seq(Text)
    BY StorageAssumption, ValuesAreTexts DEF StorageAssumption
  <2>2. AppendedPieces(file, row) \in Seq(Text) \ {<<>>}
    BY <2>1, PiecesToAppend
  <2>3. Texts'
    BY <1>2, <2>2 DEF TypeInv, Texts, Insert, copy
  <2>4. Control'
    <3>1. Busy'
      BY <1>2, <2>2, Limits DEF TypeInv, Control, Busy, Bounded, Insert, Ready, Creating, copy
    <3>2. Running'
      BY <1>2, <2>2, Limits DEF TypeInv, Control, Running, Insert, Ready, Creating, copy
    <3>3. Held'
      BY <1>2, <2>2, Limits DEF TypeInv, Control, Held, Insert, Ready, Creating, copy
    <3>4. Bounded'
      BY <1>2, <2>2, Limits DEF TypeInv, Control, Bounded, Placed, Busy, Insert, Ready, Creating, copy
    <3> QED
      BY <3>1, <3>2, <3>3, <3>4 DEF Control
  <2>5. Placed'
    BY <1>2 DEF TypeInv, Control, Busy, Running, Held, Bounded, Insert, Placed, Creating
  <2> QED
    BY <2>3, <2>4, <2>5 DEF TypeInv
<1>3. ASSUME Update
      PROVE  TypeInv'
  <2>1. LoadTable(file) \in Tables
    BY <1>3, LoadType DEF TypeInv, Texts, Update
  <2>2. PICK chosen \in SUBSET DOMAIN LoadTable(file).rows,
             column \in DOMAIN LoadTable(file).types, value \in NewValues :
            LET text == TableText(With(LoadTable(file), chosen, column, value))
            IN  \/ StartRewrite(text, With(table, chosen, column, value))
                \/ StartScribble(text)
    BY <1>3 DEF Update
  <2>3. With(LoadTable(file), chosen, column, value) \in Tables
    BY <2>1, NewValuesType, ChangedTables
  <2> QED
    BY <1>3, <2>2, <2>3, TableTextType, RewriteTypes, ScribbleTypes DEF Update
<1>4. ASSUME Delete
      PROVE  TypeInv'
  <2>1. LoadTable(file) \in Tables
    BY <1>4, LoadType DEF TypeInv, Texts, Delete
  <2>2. PICK chosen :
            LET text == TableText(Without(LoadTable(file), chosen))
            IN  \/ StartRewrite(text, Without(table, chosen))
                \/ StartScribble(text)
    BY <1>4 DEF Delete
  <2>3. Without(LoadTable(file), chosen) \in Tables
    <3>1. <<>> \in Text
      BY DEF Text
    <3> QED
      BY <2>1, <3>1, ChangedTables
  <2> QED
    BY <1>4, <2>2, <2>3, TableTextType, RewriteTypes, ScribbleTypes DEF Delete
<1>5. ASSUME Scribble
      PROVE  TypeInv'
  <2>1. Unset \in Text /\ Unset # <<>>
    BY DEF Unset, Text, Tokens
  <2> QED
    BY <1>5, <2>1, ScribbleTypes DEF Scribble
<1>6. ASSUME Fails
      PROVE  TypeInv'
  <2>1. Texts'
    BY <1>6, DieTypes DEF TypeInv, Texts, Fails
  <2>2. Control'
    <3>1. Busy'
      BY <1>6, Limits DEF TypeInv, Control, Busy, Bounded, Fails, Die, Ready, Creating
    <3>2. Running'
      BY <1>6, Limits DEF TypeInv, Control, Running, Fails, Die, Ready, Creating
    <3>3. Held'
      BY <1>6, Limits DEF TypeInv, Control, Held, Fails, Die, Ready, Creating
    <3>4. Bounded'
      BY <1>6, Limits DEF TypeInv, Control, Bounded, Placed, Busy, Fails, Die, Ready, Creating
    <3> QED
      BY <3>1, <3>2, <3>3, <3>4 DEF Control
  <2>3. Placed'
    BY <1>6 DEF TypeInv, Fails, Placed
  <2> QED
    BY <2>1, <2>2, <2>3 DEF TypeInv
<1> QED
  BY <1>1, <1>2, <1>3, <1>4, <1>5, <1>6 DEF Command

LEMMA WorkTypes ==
    ASSUME TypeInv, Work
    PROVE  TypeInv'
<1>1. ASSUME ListTable
      PROVE  TypeInv'
  <2>1. Texts'
    BY <1>1 DEF TypeInv, Texts, ListTable, copy
  <2>2. Control' /\ Placed'
    <3>1. Busy'
      BY <1>1, Limits DEF TypeInv, Control, Busy, Bounded, ListTable, Creating, copy
    <3>2. Running'
      BY <1>1, Limits DEF TypeInv, Control, Running, ListTable, Creating, copy
    <3>3. Held'
      BY <1>1, Limits DEF TypeInv, Control, Held, ListTable, Creating, copy
    <3>4. Bounded'
      BY <1>1, Limits DEF TypeInv, Control, Bounded, Placed, Busy, ListTable, Creating, copy
    <3>5. Placed'
      BY <1>1, Limits DEF TypeInv, Control, Placed, Bounded, ListTable, Creating, copy
    <3> QED
      BY <3>1, <3>2, <3>3, <3>4, <3>5 DEF Control
  <2> QED
    BY <2>1, <2>2 DEF TypeInv
<1>5. ASSUME NameTable
      PROVE  TypeInv'
  <2>1. Texts'
    BY <1>5 DEF TypeInv, Texts, NameTable, copy
  <2>2. Control' /\ Placed'
    <3>1. Busy'
      BY <1>5, Limits DEF TypeInv, Control, Busy, Bounded, NameTable, Creating, copy
    <3>2. Running'
      BY <1>5, Limits DEF TypeInv, Control, Running, NameTable, Creating, copy
    <3>3. Held'
      BY <1>5, Limits DEF TypeInv, Control, Held, NameTable, Creating, copy
    <3>4. Bounded'
      BY <1>5, Limits DEF TypeInv, Control, Bounded, Placed, Busy, NameTable, Creating, copy
    <3>5. Placed'
      BY <1>5, Limits DEF TypeInv, Control, Placed, Bounded, NameTable, Creating, copy
    <3> QED
      BY <3>1, <3>2, <3>3, <3>4, <3>5 DEF Control
  <2> QED
    BY <2>1, <2>2 DEF TypeInv
<1>2. ASSUME SizeFile
      PROVE  TypeInv'
  <2>1. types \in Countable
    BY <1>2 DEF TypeInv, Placed, SizeFile, Creating
  <2>2. FileSize(types) \in Nat
    BY <2>1, CreatedType
  <2>3. file' \in Text
    <3>1. file' \in [1 .. FileSize(types) -> Tokens]
      BY <1>2 DEF SizeFile, Tokens
    <3> QED
      BY <2>2, <3>1, IsSequence, Zenon DEF Text
  <2>4. Texts'
    BY <1>2, <2>3 DEF TypeInv, Texts, SizeFile, copy
  <2>5. Control' /\ Placed'
    <3>1. Busy'
      BY <1>2, Limits DEF TypeInv, Control, Busy, Bounded, SizeFile, Creating, copy
    <3>2. Running'
      BY <1>2, Limits DEF TypeInv, Control, Running, SizeFile, Creating, copy
    <3>3. Held'
      BY <1>2, Limits DEF TypeInv, Control, Held, SizeFile, Creating, copy
    <3>4. Bounded'
      BY <1>2, Limits DEF TypeInv, Control, Bounded, Placed, Busy, SizeFile, Creating, copy
    <3>5. Placed'
      BY <1>2, Limits DEF TypeInv, Control, Placed, Bounded, SizeFile, Creating, copy
    <3> QED
      BY <3>1, <3>2, <3>3, <3>4, <3>5 DEF Control
  <2> QED
    BY <2>4, <2>5 DEF TypeInv
<1>3. ASSUME FillFile
      PROVE  TypeInv'
  <2>1. types \in Countable
    BY <1>3 DEF TypeInv, Placed, FillFile, Creating
  <2>2. file' \in Text
    BY <1>3, <2>1, CreatedType DEF FillFile
  <2>3. Texts'
    BY <1>3, <2>2 DEF TypeInv, Texts, FillFile, copy
  <2>4. Control' /\ Placed'
    <3>1. Busy'
      BY <1>3, Limits DEF TypeInv, Control, Busy, Bounded, FillFile, Creating, copy
    <3>2. Running'
      BY <1>3, Limits DEF TypeInv, Control, Running, FillFile, Creating, copy
    <3>3. Held'
      BY <1>3, Limits DEF TypeInv, Control, Held, FillFile, Creating, copy
    <3>4. Bounded'
      BY <1>3, Limits DEF TypeInv, Control, Bounded, Placed, Busy, FillFile, Creating, copy
    <3>5. Placed'
      BY <1>3, Limits DEF TypeInv, Control, Placed, Bounded, FillFile, Creating, copy
    <3> QED
      BY <3>1, <3>2, <3>3, <3>4, <3>5 DEF Control
  <2> QED
    BY <2>3, <2>4 DEF TypeInv
<1>4. ASSUME WritePiece
      PROVE  TypeInv'
  <2>1. /\ todo[1] \in Text /\ Tail(todo) \in Seq(Text)
        /\ (Tail(todo) = <<>>) <=> (Len(todo) = 1)
    <3>1. todo \in Seq(Text) /\ todo # <<>>
      BY <1>4 DEF TypeInv, Texts, WritePiece
    <3>2. Len(todo) \in Nat \ {0} /\ Len(Tail(todo)) = Len(todo) - 1 /\ Tail(todo) \in Seq(Text)
      BY <3>1
    <3>3. todo[1] \in Text
      BY <3>1, <3>2
    <3> DEFINE after == Tail(todo)
    <3>4. ASSUME after \in Seq(Text)
          PROVE  (after = <<>>) <=> (Len(after) = 0)
      <4> HIDE DEF after
      <4> QED
        BY <3>4
    <3> QED
      BY <3>2, <3>3, <3>4
  <2>2. file' \in Text
    BY <1>4, <2>1 DEF TypeInv, Texts, WritePiece, Text
  <2>3. Texts'
    BY <1>4, <2>1, <2>2 DEF TypeInv, Texts, WritePiece, copy
  <2>4. op \notin Creating \cup {"idle"} /\ listed
    BY <1>4 DEF TypeInv, Control, Busy, Running, Held, Bounded, Placed, WritePiece, Creating
  <2>5. Control'
    <3>1. Busy'
      BY <1>4, <2>1, <2>4, Limits DEF TypeInv, Control, Busy, Bounded, WritePiece, Creating, copy
    <3>2. Running'
      BY <1>4, <2>1, <2>4, Limits DEF TypeInv, Control, Running, WritePiece, Creating, copy
    <3>3. Held'
      BY <1>4, <2>1, <2>4, Limits DEF TypeInv, Control, Held, WritePiece, Creating, copy
    <3>4. Bounded'
      BY <1>4, <2>1, <2>4, Limits DEF TypeInv, Control, Bounded, Placed, Busy, WritePiece, Creating, copy
    <3> QED
      BY <3>1, <3>2, <3>3, <3>4 DEF Control
  <2>6. Placed'
    BY <1>4, <2>4 DEF Placed, WritePiece, Creating
  <2> QED
    BY <2>3, <2>5, <2>6 DEF TypeInv
<1>6. ASSUME ScribblePiece
      PROVE  TypeInv'
  <2>1. /\ todo[1] \in Text /\ Tail(todo) \in Seq(Text)
        /\ (Tail(todo) = <<>>) <=> (Len(todo) = 1)
    <3>1. todo \in Seq(Text) /\ todo # <<>>
      BY <1>6 DEF TypeInv, Texts, Control, Busy, ScribblePiece, Creating
    <3>2. Len(todo) \in Nat \ {0} /\ Len(Tail(todo)) = Len(todo) - 1 /\ Tail(todo) \in Seq(Text)
      BY <3>1
    <3>3. todo[1] \in Text
      BY <3>1, <3>2
    <3> DEFINE after == Tail(todo)
    <3>4. ASSUME after \in Seq(Text)
          PROVE  (after = <<>>) <=> (Len(after) = 0)
      <4> HIDE DEF after
      <4> QED
        BY <3>4
    <3> QED
      BY <3>2, <3>3, <3>4
  <2>2. file' \in Text
    <3>1. PICK g \in Garbage : file' = file \o Followed(todo[1], g)
      BY <1>6 DEF ScribblePiece
    <3>2. Followed(todo[1], g) \in Text
      BY <2>1, FollowedType
    <3> QED
      BY <3>1, <3>2 DEF TypeInv, Texts, Text
  <2>3. Texts'
    BY <1>6, <2>1, <2>2 DEF TypeInv, Texts, ScribblePiece, copy
  <2>4. op \notin Creating \cup {"idle"} /\ listed
    BY <1>6 DEF TypeInv, Control, Busy, Running, Held, Bounded, Placed, ScribblePiece, Creating
  <2>5. Control'
    <3>1. Busy'
      BY <1>6, <2>1, <2>4, Limits DEF TypeInv, Control, Busy, Bounded, ScribblePiece, Creating, copy
    <3>2. Running'
      BY <1>6, <2>1, <2>4, Limits DEF TypeInv, Control, Running, ScribblePiece, Creating, copy
    <3>3. Held'
      BY <1>6, <2>1, <2>4, Limits DEF TypeInv, Control, Held, ScribblePiece, Creating, copy
    <3>4. Bounded'
      BY <1>6, <2>1, <2>4, Limits DEF TypeInv, Control, Bounded, Placed, Busy, ScribblePiece, Creating, copy
    <3> QED
      BY <3>1, <3>2, <3>3, <3>4 DEF Control
  <2>6. Placed'
    BY <1>6, <2>4 DEF Placed, ScribblePiece, Creating
  <2> QED
    BY <2>3, <2>5, <2>6 DEF TypeInv
<1> QED
  BY <1>1, <1>2, <1>3, <1>4, <1>5, <1>6 DEF Work

\* How far a block reaches.
LEMMA BlockRead ==
    ASSUME TypeInv, CopyBlock
    PROVE  /\ pos' \in pos + 1 .. Len(file) /\ pos' <= pos + Block
           /\ buf' \in Text /\ Len(buf') = pos' - pos
<1>1. pos \in Nat /\ Block \in Nat \ {0} /\ Len(file) \in Nat /\ pos < Len(file)
  BY StorageAssumption DEF TypeInv, Texts, CopyBlock, Text
<1>2. pos' = Min({pos + Block, Len(file)}) /\ buf' = SubSeq(file, pos + 1, pos')
  BY DEF CopyBlock
<1>3. pos' \in pos + 1 .. Len(file) /\ pos' <= pos + Block
  BY <1>1, <1>2, MinOfTwo
<1>4. file \in Text
  BY DEF TypeInv, Texts
<1>5. buf' \in Text
  BY <1>1, <1>2, <1>3, <1>4, CutType
<1>6. Len(buf') = pos' - pos
  BY <1>1, <1>2, <1>3, <1>4 DEF Text
<1> QED
  BY <1>3, <1>5, <1>6

LEMMA BackupTypes ==
    ASSUME TypeInv, Backup
    PROVE  TypeInv'
<1>1. ASSUME OpenCopy
      PROVE  TypeInv'
  <2>1. Texts'
    BY <1>1 DEF TypeInv, Texts, OpenCopy, command, Text
  <2>2. Control' /\ Placed'
    <3>1. Busy'
      BY <1>1, Limits DEF TypeInv, Control, Busy, Bounded, OpenCopy, Creating, command
    <3>2. Running'
      BY <1>1, Limits DEF TypeInv, Control, Running, OpenCopy, Creating, command
    <3>3. Held'
      BY <1>1, Limits DEF TypeInv, Control, Held, OpenCopy, Creating, command
    <3>4. Bounded'
      BY <1>1, Limits DEF TypeInv, Control, Bounded, Placed, Busy, OpenCopy, Creating, command
    <3>5. Placed'
      BY <1>1, Limits DEF TypeInv, Control, Placed, Bounded, OpenCopy, Creating, command
    <3> QED
      BY <3>1, <3>2, <3>3, <3>4, <3>5 DEF Control
  <2> QED
    BY <2>1, <2>2 DEF TypeInv
<1>2. ASSUME CopyBlock
      PROVE  TypeInv'
  <2>1. backup \o buf \in Text
    BY DEF TypeInv, Texts, Text
  <2>2. pos \in Nat /\ Len(file) \in Nat
    BY DEF TypeInv, Texts, Text
  <2>3. Texts'
    BY <1>2, <2>1, <2>2, BlockRead DEF TypeInv, Texts, CopyBlock, command
  <2>4. Len(buf') <= Block /\ Len(buf') <= pos'
    BY <1>2, <2>2, BlockRead, StorageAssumption
  <2>5. Control'
    <3>1. Busy'
      BY <1>2, <2>4, Limits DEF TypeInv, Control, Busy, Bounded, CopyBlock, Creating, command
    <3>2. Running'
      BY <1>2, <2>4, Limits DEF TypeInv, Control, Running, CopyBlock, Creating, command
    <3>3. Held'
      BY <1>2, <2>4, Limits DEF TypeInv, Control, Held, CopyBlock, Creating, command
    <3>4. Bounded'
      BY <1>2, <2>4, Limits DEF TypeInv, Control, Bounded, Placed, Busy, CopyBlock, Creating, command
    <3> QED
      BY <3>1, <3>2, <3>3, <3>4 DEF Control
  <2>6. Placed'
    BY <1>2 DEF TypeInv, Placed, CopyBlock, command
  <2> QED
    BY <2>3, <2>5, <2>6 DEF TypeInv
<1>3. ASSUME EndCopy
      PROVE  TypeInv'
  <2>1. backup \o buf \in Text
    BY DEF TypeInv, Texts, Text
  <2>2. Texts'
    BY <1>3, <2>1 DEF TypeInv, Texts, EndCopy, command, Text
  <2>3. Control' /\ Placed'
    <3>1. Busy'
      BY <1>3, Limits DEF TypeInv, Control, Busy, Bounded, EndCopy, Creating, command
    <3>2. Running'
      BY <1>3, Limits DEF TypeInv, Control, Running, EndCopy, Creating, command
    <3>3. Held'
      BY <1>3, Limits DEF TypeInv, Control, Held, EndCopy, Creating, command
    <3>4. Bounded'
      BY <1>3, Limits DEF TypeInv, Control, Bounded, Placed, Busy, EndCopy, Creating, command
    <3>5. Placed'
      BY <1>3, Limits DEF TypeInv, Control, Placed, Bounded, EndCopy, Creating, command
    <3> QED
      BY <3>1, <3>2, <3>3, <3>4, <3>5 DEF Control
  <2> QED
    BY <2>2, <2>3 DEF TypeInv
<1> QED
  BY <1>1, <1>2, <1>3 DEF Backup

LEMMA TypesInvariant == Spec => []TypeInv
<1>1. Init => TypeInv
  BY InitTypes
<1>2. ASSUME TypeInv, [Next]_vars
      PROVE  TypeInv'
  <2>1. CASE Command
    BY <1>2, <2>1, CommandTypes
  <2>2. CASE Work
    BY <1>2, <2>2, WorkTypes
  <2>3. CASE Backup
    BY <1>2, <2>3, BackupTypes
  <2>4. CASE Crash
    <3>1. Texts'
      BY <1>2, <2>4, DieTypes DEF TypeInv, Texts, Crash
    <3>2. Control' /\ Placed'
      <4>1. Busy'
        BY <1>2, <2>4, Limits DEF TypeInv, Control, Busy, Bounded, Crash, Die, Creating
      <4>2. Running'
        BY <1>2, <2>4, Limits DEF TypeInv, Control, Running, Crash, Die, Creating
      <4>3. Held'
        BY <1>2, <2>4, Limits DEF TypeInv, Control, Held, Crash, Die, Creating
      <4>4. Bounded'
        BY <1>2, <2>4, Limits DEF TypeInv, Control, Bounded, Placed, Busy, Crash, Die, Creating
      <4>5. Placed'
        BY <1>2, <2>4, Limits DEF TypeInv, Control, Placed, Bounded, Crash, Die, Creating
      <4> QED
        BY <4>1, <4>2, <4>3, <4>4, <4>5 DEF Control
    <3> QED
      BY <3>1, <3>2 DEF TypeInv
  <2>7. CASE DieWriting
    <3>1. Texts'
      BY <1>2, <2>7, DieTypes DEF TypeInv, Texts, DieWriting
    <3>2. Control' /\ Placed'
      <4>1. Busy'
        BY <1>2, <2>7, Limits DEF TypeInv, Control, Busy, Bounded, DieWriting, Die, Creating
      <4>2. Running'
        BY <1>2, <2>7, Limits DEF TypeInv, Control, Running, DieWriting, Die, Creating
      <4>3. Held'
        BY <1>2, <2>7, Limits DEF TypeInv, Control, Held, DieWriting, Die, Creating
      <4>4. Bounded'
        BY <1>2, <2>7, Limits DEF TypeInv, Control, Bounded, Placed, Busy, DieWriting, Die, Creating
      <4>5. Placed'
        BY <1>2, <2>7, Limits DEF TypeInv, Control, Placed, Bounded, DieWriting, Die, Creating
      <4> QED
        BY <4>1, <4>2, <4>3, <4>4, <4>5 DEF Control
    <3> QED
      BY <3>1, <3>2 DEF TypeInv
  <2>5. CASE Restart
    BY <1>2, <2>5 DEF TypeInv, Control, Busy, Running, Held, Bounded, Texts, Placed, Restart, command, Creating
  <2>6. CASE UNCHANGED vars
    BY <1>2, <2>6 DEF TypeInv, Control, Busy, Running, Held, Bounded, Texts, Placed, vars, command, copy, Creating
  <2> QED
    BY <1>2, <2>1, <2>2, <2>3, <2>4, <2>5, <2>6, <2>7 DEF Next
<1> QED
  BY <1>1, <1>2, PTL DEF Spec
-----------------------------------------------------------------------------
(* The copy                                                                *)

\* While the file has not been emptied, what has been read of it is still its
\* beginning, and what is in the copy or in the buffer is what has been read.
CopyInv ==
    steady =>
        /\ op \notin Creating
        /\ copier = "copying" =>
              pos \in 0 .. Len(file) /\ backup \o buf = SubSeq(file, 1, pos)
        /\ copier # "copying" => IsPrefix(backup, file)

LEMMA CopyIsPrefix ==
    ASSUME TypeInv, CopyInv, steady
    PROVE  IsPrefix(backup \o buf, file) /\ IsPrefix(backup, file)
<1>1. file \in Text /\ backup \in Text /\ buf \in Text
  BY DEF TypeInv, Texts
<1>2. CASE copier = "copying"
  <2>1. pos \in 0 .. Len(file) /\ backup \o buf = SubSeq(file, 1, pos)
    BY <1>2 DEF CopyInv
  <2>2. IsPrefix(backup \o buf, file)
    BY <1>1, <2>1, CutIsPrefix
  <2> QED
    BY <1>1, <2>2, PartIsPrefix
<1>3. CASE copier # "copying"
  <2>1. buf = <<>>
    BY <1>3 DEF TypeInv, Control, Held
  <2>2. backup \o buf = backup
    BY <1>1, <2>1 DEF Text
  <2> QED
    BY <1>3, <2>2 DEF CopyInv
<1> QED
  BY <1>2, <1>3

\* The end of the process leaves a prefix, whether stdio's buffer is written or not.
LEMMA DieKeepsPrefix ==
    ASSUME TypeInv, CopyInv, Die, UNCHANGED <<file, steady>>, op' \notin Creating
    PROVE  CopyInv'
<1>1. steady => IsPrefix(backup \o buf, file) /\ IsPrefix(backup, file)
  BY CopyIsPrefix
<1>2. steady => IsPrefix(backup', file)
  BY <1>1 DEF Die
<1> QED
  BY <1>2 DEF CopyInv, Die

LEMMA CopySteps ==
    ASSUME TypeInv, CopyInv, [Next]_vars
    PROVE  CopyInv'
<1>1. /\ file \in Text /\ backup \in Text /\ buf \in Text
      /\ pos \in Nat /\ todo \in Seq(Text) /\ Len(file) \in Nat
  BY DEF TypeInv, Texts, Text
<1>2. CASE Command
  <2>1. ASSUME NEW s \in Schemas, StartCreate(s)
        PROVE  CopyInv'
    BY <2>1 DEF StartCreate, CopyInv
  <2>2. ASSUME NEW row \in Rows, Insert(row)
        PROVE  CopyInv'
    BY <2>2 DEF Insert, CopyInv, copy, Creating
  <2>3. ASSUME NEW text, NEW asked, StartRewrite(text, asked)
        PROVE  CopyInv'
    BY <2>3 DEF StartRewrite, CopyInv
  <2>4. CASE Fails
    BY <2>4, DieKeepsPrefix DEF Fails, Ready, Creating
  <2>5. ASSUME NEW text, StartScribble(text)
        PROVE  CopyInv'
    BY <2>5 DEF StartScribble, CopyInv
  <2> QED
    BY <1>2, <2>1, <2>2, <2>3, <2>4, <2>5 DEF Command, Update, Delete, Scribble
<1>3. CASE ListTable \/ NameTable \/ SizeFile \/ FillFile
  <2>1. ~steady /\ ~steady'
    BY <1>3 DEF ListTable, NameTable, SizeFile, FillFile, CopyInv, Creating
  <2> QED
    BY <2>1 DEF CopyInv
<1>4. CASE WritePiece \/ ScribblePiece
  <2>1. todo # <<>> /\ UNCHANGED <<steady, copier, backup, buf, pos>>
    BY <1>4 DEF WritePiece, ScribblePiece, copy, TypeInv, Control, Busy, Creating
  <2>2. PICK piece \in Text : file' = file \o piece
    <3>1. todo[1] \in Text
      BY <1>1, <2>1
    <3> QED
      BY <1>4, <3>1, FollowedType DEF WritePiece, ScribblePiece
  <2>3. op' \in {op, "idle"}
    BY <1>4 DEF WritePiece, ScribblePiece
  <2>4. ASSUME steady, copier = "copying"
        PROVE  pos \in 0 .. Len(file') /\ backup \o buf = SubSeq(file', 1, pos)
    <3>1. pos \in 0 .. Len(file) /\ backup \o buf = SubSeq(file, 1, pos)
      BY <2>4 DEF CopyInv
    <3>2. SubSeq(file', 1, pos) = SubSeq(file, 1, pos) /\ pos <= Len(file')
      BY <1>1, <2>1, <2>2, <3>1, CutOfLonger
    <3>3. Len(file') \in Nat
      BY <1>1, <2>1, <2>2, LengthJoined
    <3> QED
      BY <3>1, <3>2, <3>3
  <2>5. ASSUME steady, copier # "copying"
        PROVE  IsPrefix(backup, file')
    BY <1>1, <2>1, <2>2, <2>5, PrefixOfLonger DEF CopyInv
  <2> QED
    BY <2>1, <2>3, <2>4, <2>5 DEF CopyInv, Creating
<1>5. CASE OpenCopy
  <2>1. buf = <<>> /\ pos = 0
    BY <1>5 DEF OpenCopy, TypeInv, Control, Held
  <2>2. <<>> \o <<>> = SubSeq(file, 1, 0)
    BY <1>1 DEF Text
  <2>3. /\ UNCHANGED <<file, op, pos, buf>> /\ copier' = "copying"
        /\ backup' = <<>> /\ (steady' => op \notin Creating)
    BY <1>5 DEF OpenCopy, command
  <2> QED
    BY <1>1, <2>1, <2>2, <2>3 DEF CopyInv
<1>6. CASE CopyBlock
  <2>1. /\ pos' \in pos + 1 .. Len(file) /\ buf' = SubSeq(file, pos + 1, pos')
        /\ backup' = backup \o buf
        /\ UNCHANGED <<file, op, copier, steady>> /\ copier = "copying"
    BY <1>6, BlockRead DEF CopyBlock, command
  <2>2. ASSUME steady
        PROVE  backup' \o buf' = SubSeq(file, 1, pos')
    <3>1. pos \in 0 .. Len(file) /\ backup \o buf = SubSeq(file, 1, pos)
      BY <2>1, <2>2 DEF CopyInv
    <3>2. pos' \in pos .. Len(file)
      BY <1>1, <2>1
    <3>3. SubSeq(file, 1, pos) \o SubSeq(file, pos + 1, pos') = SubSeq(file, 1, pos')
      BY <1>1, <3>1, <3>2, CutsJoin
    <3> QED
      BY <2>1, <3>1, <3>3
  <2>3. pos' \in 0 .. Len(file)
    BY <1>1, <2>1
  <2> QED
    BY <2>1, <2>2, <2>3 DEF CopyInv
<1>7. CASE EndCopy
  <2>1. /\ copier' = "asleep" /\ backup' = backup \o buf
        /\ UNCHANGED <<file, op, steady>>
    BY <1>7 DEF EndCopy, command
  <2>2. steady => IsPrefix(backup \o buf, file)
    BY CopyIsPrefix
  <2> QED
    BY <2>1, <2>2 DEF CopyInv
<1>8. CASE Crash \/ DieWriting
  BY <1>8, DieKeepsPrefix DEF Crash, DieWriting, Creating
<1>9. CASE Restart
  BY <1>9 DEF Restart, CopyInv, command, TypeInv, Control, Running
<1>10. CASE UNCHANGED vars
  BY <1>10 DEF vars, command, copy, CopyInv
<1> QED
  BY <1>2, <1>3, <1>4, <1>5, <1>6, <1>7, <1>8, <1>9, <1>10 DEF Next, Work, Backup

LEMMA CopyInvariant == Spec => []CopyInv
<1>1. Init => CopyInv
  <2> SUFFICES ASSUME Init PROVE CopyInv
    OBVIOUS
  <2>1. file \in Text
    BY InitTypes DEF TypeInv, Texts
  <2>2. SubSeq(file, 1, Len(file)) = file /\ Len(file) \in 0 .. Len(file)
    BY <2>1 DEF Text
  <2>3. IsPrefix(file, file)
    BY <2>1, <2>2, CutIsPrefix
  <2> QED
    BY <2>3 DEF Init, CopyInv, Creating
<1>2. TypeInv /\ CopyInv /\ [Next]_vars => CopyInv'
  BY CopySteps
<1> QED
  BY <1>1, <1>2, TypesInvariant, PTL DEF Spec
-----------------------------------------------------------------------------
(* What a file carries, line by line.                                      *)

\* What values and titles are made of.
Letters == Tokens \ {"NL", "TAB", "ZERO"}

LEMMA LettersArePlain == Plain(Letters)
<1>1. \A n \in DOMAIN Counts : Counts[n] \notin {"NL", "TAB", "ZERO"} /\ Counts[n] \in Tokens
  BY DEF Counts, Tokens
<1>2. Fixed \subseteq Letters
  BY <1>1 DEF Letters, Tokens, Fixed
<1> QED
  BY <1>2 DEF Plain, Letters

LEMMA WordsAreLetters ==
    /\ Seq(KnownTypes) \subseteq Seq(Letters)
    /\ Values \subseteq Seq(Letters) \ {<<>>}
<1>1. Words \ {"NL", "TAB"} \subseteq Letters
  BY StorageAssumption DEF StorageAssumption, Letters, Tokens
<1>2. KnownTypes \subseteq Letters
  BY DEF Letters, Tokens, KnownTypes
<1>3. Seq(Words \ {"NL", "TAB"}) \subseteq Seq(Letters)
  BY <1>1, SeqMonotonic
<1> QED
  BY <1>2, <1>3, SeqMonotonic DEF Values

Pieces(f) == SplitAt(f, "NL")

Columns(p) == NonEmpty(SplitAt(UpToZero(p[3]), "TAB"))

RowAt(p, i, n) == LoadedRow(UpToZero(p[i + 3]), n)

HeadKept(p, kinds) ==
    /\ p[1] = <<"name">> /\ p[2] = Digits(Len(kinds))
    /\ Len(Columns(p)) = Len(kinds)
    /\ \A j \in 1 .. Len(kinds) :
          (j < Len(kinds) \/ Len(kinds) < Ten) => Columns(p)[j] = <<kinds[j], ".">>

RowsKept(p, rows, n) == \A i \in 1 .. Len(rows) : SameRow(RowAt(p, i, n), rows[i])

\* A name, a count, the columns and every row of t.  A file that salveazaTabel has cut
\* has three lines, any other ends each of these lines, and may go on.
Carries(f, t) ==
    /\ Len(Pieces(f)) >= 3
    /\ Len(Pieces(f)) = 3 => Len(t.rows) = 0
    /\ Len(Pieces(f)) > 3 => Len(Pieces(f)) > 3 + Len(t.rows)
    /\ HeadKept(Pieces(f), t.types)
    /\ RowsKept(Pieces(f), t.rows, Len(t.types))

\* And nothing else.
Exactly(f, t) ==
    Len(Pieces(f)) > 3 =>
        Len(Pieces(f)) = Len(t.rows) + 4 /\ Pieces(f)[Len(t.rows) + 4] = <<>>

\* A table with as many columns as CREATE takes, each of its rows known or not.
Kept(t) ==
    /\ t \in [types : Seq(KnownTypes), rows : Seq(Seq(Values))]
    /\ Len(t.types) \in DOMAIN Counts
    /\ \A i \in 1 .. Len(t.rows) : t.rows[i] = Whatever \/ Tidy(t.rows[i], Len(t.types))

LEMMA PiecesParts ==
    ASSUME NEW f \in Text, NEW p, p = Pieces(f)
    PROVE  /\ p \in Seq(Text) /\ p # <<>> /\ Len(p) \in Nat /\ Len(p) > 0
           /\ p \in Seq(Seq(Tokens \ {"NL"}))
<1>1. p \in Some(Tokens \ {"NL"}) /\ p \in Some(Tokens)
  BY SplitType DEF Text, Pieces
<1> QED
  BY <1>1 DEF Some, Text

LEMMA KeptParts ==
    ASSUME NEW t, Kept(t)
    PROVE  /\ t.types \in Seq(KnownTypes) /\ t.types \in Seq(Letters)
           /\ t.rows \in Seq(Seq(Values))
           /\ Len(t.types) \in Nat /\ Len(t.types) > 0 /\ Len(t.types) \in DOMAIN Counts
           /\ Len(t.rows) \in Nat
<1>1. t.types \in Seq(KnownTypes) /\ t.rows \in Seq(Seq(Values)) /\ Len(t.types) \in DOMAIN Counts
  BY DEF Kept
<1>2. t.types \in Seq(Letters)
  BY <1>1, WordsAreLetters
<1>3. \A n \in DOMAIN Counts : n \in Nat /\ n > 0
  BY DEF Counts
<1>4. Len(t.rows) \in Nat
  BY <1>1
<1> QED
  BY <1>1, <1>2, <1>3, <1>4

\* loadTable's lines are the pieces, without the empty one after the last newline.
LinesAre(lines, p) ==
    /\ p[Len(p)] = <<>> => Len(lines) = Len(p) - 1
    /\ p[Len(p)] # <<>> => Len(lines) = Len(p)
    /\ \A i \in 1 .. Len(p) - 1 : lines[i] = p[i]
    /\ p[Len(p)] # <<>> => lines[Len(p)] = p[Len(p)]

LEMMA LinesOfPieces ==
    ASSUME NEW f \in Text, NEW p, p = Pieces(f), NEW lines, lines = Lines(f)
    PROVE  lines \in Seq(Text) /\ Len(lines) \in Nat /\ LinesAre(lines, p)
<1>1. p \in Seq(Text) /\ p # <<>> /\ Len(p) \in Nat /\ Len(p) > 0
  BY PiecesParts
<1>2. lines = IF p[Len(p)] = <<>> THEN Front(p) ELSE p
  BY DEF Lines, Pieces, Last
<1>3. /\ Front(p) \in Seq(Text) /\ Len(Front(p)) = Len(p) - 1
      /\ \A i \in 1 .. Len(p) - 1 : Front(p)[i] = p[i]
  <2> DEFINE m == Len(p) - 1
  <2>1. m \in 1 - 1 .. Len(p) /\ 1 \in 1 .. Len(p) + 1 /\ m - 1 + 1 = m
    BY <1>1
  <2>2. Front(p) = SubSeq(p, 1, m)
    BY DEF Front
  <2> HIDE DEF m
  <2>3. /\ SubSeq(p, 1, m) \in Seq(Text) /\ Len(SubSeq(p, 1, m)) = m
        /\ \A i \in 1 .. m : SubSeq(p, 1, m)[i] = p[1 + i - 1]
    BY <1>1, <2>1, Cut
  <2>4. \A i \in 1 .. m : 1 + i - 1 = i
    BY <1>1 DEF m
  <2>5. \A i \in 1 .. m : SubSeq(p, 1, m)[i] = p[i]
    BY <2>3, <2>4
  <2> QED
    BY <2>2, <2>3, <2>5 DEF m
<1>4. Len(lines) \in Nat /\ lines \in Seq(Text)
  BY <1>1, <1>2, <1>3
<1> QED
  BY <1>1, <1>2, <1>3, <1>4 DEF LinesAre

\* A line without a zero byte is read as it is.
LEMMA PlainLine ==
    ASSUME NEW line \in Seq(Letters)
    PROVE  UpToZero(line) = line
<1>1. "ZERO" \notin Letters
  BY DEF Letters
<1> QED
  BY <1>1, UpToZeroType

\* The third line of a file with columns is not empty.
LEMMA ColumnsFound ==
    ASSUME NEW p, p[3] = <<>>
    PROVE  Columns(p) = <<>>
<1> DEFINE none == <<>>
           one == <<none>>
<1>1. none \in Seq(Letters) /\ none \in {none}
  OBVIOUS
<1>2. UpToZero(none) = none
  BY <1>1, PlainLine
<1>3. SplitAt(none, "TAB") = one
  BY SplitNone
<1>4. one = Append(none, none)
  OBVIOUS
<1>5. NonEmpty(Append(none, none)) = NonEmpty(none)
  <2>1. none \in Seq({none}) /\ none = <<>>
    OBVIOUS
  <2> HIDE DEF none
  <2> QED
    BY <1>1, <2>1, NonEmptyAppend
<1>6. NonEmpty(none) = none
  BY NonEmptyNone
<1> HIDE DEF one
<1> QED
  BY <1>2, <1>3, <1>4, <1>5, <1>6 DEF Columns

\* The lines loadTable reads of a file that carries a table.
LEMMA LinesCarried ==
    ASSUME NEW f \in Text, NEW t, Kept(t), Carries(f, t),
           NEW p, p = Pieces(f), NEW lines, lines = Lines(f)
    PROVE  /\ Len(lines) >= 3 + Len(t.rows)
           /\ \A i \in 1 .. Len(t.rows) + 3 : lines[i] = p[i]
           /\ Exactly(f, t) => Len(lines) = 3 + Len(t.rows)
<1>1. /\ p \in Seq(Text) /\ Len(p) \in Nat
      /\ Len(t.rows) \in Nat /\ Len(t.types) \in Nat /\ Len(t.types) > 0
  BY PiecesParts, KeptParts
<1>2. /\ Len(lines) \in Nat
      /\ p[Len(p)] = <<>> => Len(lines) = Len(p) - 1
      /\ p[Len(p)] # <<>> => Len(lines) = Len(p)
      /\ \A i \in 1 .. Len(p) - 1 : lines[i] = p[i]
      /\ p[Len(p)] # <<>> => lines[Len(p)] = p[Len(p)]
  <2>1. Len(lines) \in Nat /\ LinesAre(lines, p)
    BY LinesOfPieces
  <2> QED
    BY <2>1 DEF LinesAre
<1>3. /\ Len(p) >= 3
      /\ Len(p) = 3 => Len(t.rows) = 0
      /\ Len(p) > 3 => Len(p) > 3 + Len(t.rows)
  BY DEF Carries
<1>4. CASE Len(p) = 3
  <2>1. p[3] # <<>>
    <3>1. Len(Columns(p)) # 0
      BY <1>1 DEF Carries, HeadKept
    <3> DEFINE none == <<>>
    <3>2. Len(none) = 0
      OBVIOUS
    <3> HIDE DEF none
    <3> QED
      BY <3>1, <3>2, ColumnsFound DEF none
  <2>2. Len(lines) = 3 /\ lines[3] = p[3]
    BY <1>2, <1>4, <2>1
  <2>3. Len(t.rows) = 0
    BY <1>3, <1>4
  <2>4. \A i \in 1 .. 3 : i = 3 \/ i \in 1 .. Len(p) - 1
    BY <1>4
  <2> QED
    BY <1>2, <2>2, <2>3, <2>4
<1>5. CASE Len(p) > 3
  <2>1. Len(p) > 3 + Len(t.rows)
    BY <1>3, <1>5
  <2>2. \A i \in 1 .. Len(t.rows) + 3 : i \in 1 .. Len(p) - 1
    BY <1>1, <2>1
  <2>3. Len(lines) >= 3 + Len(t.rows)
    BY <1>1, <1>2, <2>1
  <2>4. ASSUME Exactly(f, t)
        PROVE  Len(lines) = 3 + Len(t.rows)
    <3>1. Len(p) = Len(t.rows) + 4 /\ p[Len(t.rows) + 4] = <<>>
      BY <1>5, <2>4 DEF Exactly
    <3> QED
      BY <1>1, <1>2, <3>1
  <2> QED
    BY <1>2, <2>2, <2>3, <2>4
<1>6. Len(p) = 3 \/ Len(p) > 3
  <2>1. Len(p) \in Nat /\ Len(p) >= 3
    BY <1>1, <1>3
  <2> DEFINE k == Len(p)
  <2> HIDE DEF k
  <2>2. k \in Nat /\ k >= 3
    BY <2>1 DEF k
  <2>3. k = 3 \/ k > 3
    BY <2>2
  <2> QED
    BY <2>3 DEF k
<1> QED
  BY <1>4, <1>5, <1>6

\* What a file carries is what loadTable finds in it.
LEMMA CarriedIsLoaded ==
    ASSUME NEW f \in Text, NEW t, Kept(t), Carries(f, t)
    PROVE  /\ Usable(f)
           /\ Len(LoadTable(f).types) = Len(t.types)
           /\ \A j \in 1 .. Len(t.types) :
                 (j < Len(t.types) \/ Len(t.types) < Ten) => LoadTable(f).types[j] = t.types[j]
           /\ LoadTable(f).rows \in Seq(Seq(Text))
           /\ Len(LoadTable(f).rows) >= Len(t.rows)
           /\ Exactly(f, t) => Len(LoadTable(f).rows) = Len(t.rows)
           /\ \A i \in 1 .. Len(t.rows) :
                 /\ LoadTable(f).rows[i] = RowAt(Pieces(f), i, Len(t.types))
                 /\ SameRow(LoadTable(f).rows[i], t.rows[i])
<1> DEFINE p == Pieces(f)
           lines == Lines(f)
           n == Len(t.types)
           m == Len(t.rows)
           found == ColumnPieces(f)
<1>1. /\ p \in Seq(Text) /\ Len(p) \in Nat /\ m \in Nat /\ n \in Nat /\ n > 0
      /\ n \in DOMAIN Counts
  BY PiecesParts, KeptParts
<1>2. lines \in Seq(Text) /\ Len(lines) \in Nat
  BY LinesType
<1>3. /\ Len(lines) >= 3 + m /\ \A i \in 1 .. m + 3 : lines[i] = p[i]
      /\ Exactly(f, t) => Len(lines) = 3 + m
  BY LinesCarried
<1>4. HeadKept(p, t.types) /\ RowsKept(p, t.rows, n)
  BY DEF Carries
<1>5. lines[1] = p[1] /\ lines[2] = p[2] /\ lines[3] = p[3]
  <2>1. 1 \in 1 .. m + 3 /\ 2 \in 1 .. m + 3 /\ 3 \in 1 .. m + 3
    BY <1>1
  <2> HIDE DEF lines, p, m
  <2> QED
    BY <1>3, <2>1
<1>6. found = Columns(p)
  <2> HIDE DEF p, lines
  <2>1. lines[3] = p[3]
    BY <1>5
  <2>2. found = NonEmpty(SplitAt(UpToZero(lines[3]), "TAB"))
    BY DEF ColumnPieces, Line, lines
  <2> QED
    BY <2>1, <2>2 DEF Columns
<1>7. Usable(f)
  <2>1. Line(f, 1) = <<"name">>
    <3>1. <<"name">> \in Seq(Letters)
      BY DEF Letters, Tokens
    <3>2. lines[1] = <<"name">>
      BY <1>4, <1>5 DEF HeadKept
    <3> QED
      BY <3>1, <3>2, PlainLine DEF Line
  <2>2. Line(f, 2) = Digits(n)
    <3>1. Digits(n) \in Seq(Letters)
      BY <1>1, LettersArePlain, DigitsType
    <3>2. lines[2] = Digits(n)
      BY <1>4, <1>5 DEF HeadKept
    <3> QED
      BY <3>1, <3>2, PlainLine DEF Line
  <2>3. Len(found) = n
    BY <1>4, <1>6 DEF HeadKept
  <2>4. Len(lines) >= 3
    BY <1>1, <1>2, <1>3
  <2> QED
    BY <2>1, <2>2, <2>3, <2>4 DEF Usable
<1>8. LoadTable(f) \in Tables
  BY <1>7, LoadType
<1> DEFINE kinds == [j \in DOMAIN found |->
                        IF Len(found[j]) = 2 THEN found[j][1] ELSE CutOff(found[j][1])]
           rows == [i \in 1 .. Len(lines) - 3 |->
                        LoadedRow(UpToZero(lines[i + 3]), Len(found))]
<1>9. LoadTable(f) = [types |-> kinds, rows |-> rows]
  BY DEF LoadTable
<1>10. Len(found) = n /\ \A j \in 1 .. n : (j < n \/ n < Ten) => found[j] = <<t.types[j], ".">>
  BY <1>4, <1>6 DEF HeadKept
<1>11. found \in Seq(Text)
  <2>1. UpToZero(lines[3]) \in Text
    <3>1. lines[3] \in Text
      BY <1>1, <1>2, <1>3
    <3> QED
      BY <3>1, UpToZeroText
  <2> QED
    BY <2>1, NonEmptyText DEF ColumnPieces, Line
<1> HIDE DEF found, lines, p, n, m
<1>12. DOMAIN found = 1 .. n
  BY <1>10, <1>11
<1>13. Len(kinds) = n /\ \A j \in 1 .. n : (j < n \/ n < Ten) => kinds[j] = t.types[j]
  <2>1. Len(kinds) = n
    BY <1>1, <1>12
  <2>2. ASSUME NEW j \in 1 .. n, j < n \/ n < Ten
        PROVE  kinds[j] = t.types[j]
    <3> DEFINE title == <<t.types[j], ".">>
    <3>1. found[j] = title
      BY <1>10, <2>2
    <3>2. Len(title) = 2 /\ title[1] = t.types[j]
      OBVIOUS
    <3>3. kinds[j] = IF Len(found[j]) = 2 THEN found[j][1] ELSE CutOff(found[j][1])
      BY <1>12, <2>2
    <3> HIDE DEF title
    <3> QED
      BY <3>1, <3>2, <3>3
  <2> QED
    BY <2>1, <2>2
<1>14. Len(lines) - 3 \in Nat /\ Len(lines) - 3 >= m
  BY <1>1, <1>2, <1>3
<1>15. Len(rows) = Len(lines) - 3
  BY <1>14
<1>16. ASSUME NEW i \in 1 .. m
       PROVE  rows[i] = RowAt(p, i, n)
  <2>1. i \in 1 .. Len(lines) - 3 /\ i + 3 \in 1 .. m + 3
    BY <1>1, <1>14
  <2>2. rows[i] = LoadedRow(UpToZero(lines[i + 3]), n)
    BY <1>10, <2>1
  <2>3. lines[i + 3] = p[i + 3]
    BY <1>3, <2>1
  <2> QED
    BY <2>2, <2>3 DEF RowAt
<1>17. \A i \in 1 .. m : SameRow(rows[i], t.rows[i])
  BY <1>4, <1>16 DEF RowsKept, m
<1> HIDE DEF kinds, rows
<1>18. LoadTable(f).types = kinds /\ LoadTable(f).rows = rows
  BY <1>9
<1>19. rows \in Seq(Seq(Text))
  BY <1>8, <1>18 DEF Tables
<1>20. Exactly(f, t) => Len(rows) = m
  BY <1>1, <1>3, <1>15
<1>21. Len(rows) >= m
  BY <1>14, <1>15
<1> QED
  BY <1>7, <1>13, <1>16, <1>17, <1>18, <1>19, <1>20, <1>21 DEF n, m, p
-----------------------------------------------------------------------------
(* INSERT                                                                  *)

LEMMA SameHead ==
    ASSUME NEW p, NEW q, NEW kinds, HeadKept(p, kinds), q[1] = p[1], q[2] = p[2], q[3] = p[3]
    PROVE  HeadKept(q, kinds)
<1>1. Columns(q) = Columns(p)
  BY DEF Columns
<1> QED
  BY <1>1 DEF HeadKept

\* What carries a table still does if none of its lines changes.
LEMMA SameLines ==
    ASSUME NEW f, NEW g, NEW t, Len(t.rows) \in Nat, Carries(f, t),
           NEW p, p = Pieces(f), NEW q, q = Pieces(g), Len(q) \in Nat,
           Len(q) > 3 + Len(t.rows), \A i \in 1 .. 3 + Len(t.rows) : q[i] = p[i]
    PROVE  Carries(g, t)
<1> DEFINE m == Len(t.rows)
<1> HIDE DEF m
<1>1. m \in Nat /\ Len(q) > 3 + m /\ \A i \in 1 .. 3 + m : q[i] = p[i]
  BY DEF m
<1>2. q[1] = p[1] /\ q[2] = p[2] /\ q[3] = p[3]
  <2>1. 1 \in 1 .. 3 + m /\ 2 \in 1 .. 3 + m /\ 3 \in 1 .. 3 + m
    BY <1>1
  <2> QED
    BY <1>1, <2>1
<1>3. HeadKept(p, t.types) /\ RowsKept(p, t.rows, Len(t.types))
  BY DEF Carries
<1>4. HeadKept(q, t.types)
  BY <1>2, <1>3, SameHead
<1>5. ASSUME NEW i \in 1 .. m
      PROVE  RowAt(q, i, Len(t.types)) = RowAt(p, i, Len(t.types))
  <2>1. i + 3 \in 1 .. 3 + m
    BY <1>1
  <2>2. q[i + 3] = p[i + 3]
    BY <1>1, <2>1
  <2> QED
    BY <2>2 DEF RowAt
<1>6. RowsKept(q, t.rows, Len(t.types))
  BY <1>3, <1>5 DEF RowsKept, m
<1>7. Len(q) >= 3 /\ Len(q) # 3
  <2> DEFINE k == Len(q)
  <2>1. k \in Nat /\ k > 3 + m
    BY <1>1
  <2> HIDE DEF k
  <2>2. k >= 3 /\ k # 3
    BY <1>1, <2>1
  <2> QED
    BY <2>2 DEF k
<1>8. Len(q) > 3 + Len(t.rows)
  OBVIOUS
<1> QED
  BY <1>4, <1>6, <1>7, <1>8 DEF Carries

\* The pieces of a longer file.
LEMMA LongerFile ==
    ASSUME NEW f \in Text, NEW x \in Text
    PROVE  /\ Joined(Pieces(f \o x), Pieces(f), SplitAt(x, "NL"))
           /\ Len(SplitAt(x, "NL")) \in Nat /\ Len(SplitAt(x, "NL")) > 0
<1>1. Joined(Pieces(f \o x), Pieces(f), SplitAt(x, "NL"))
  BY SplitJoin DEF Text, Pieces
<1>2. Len(Pieces(x)) \in Nat /\ Len(Pieces(x)) > 0
  BY PiecesParts
<1> QED
  BY <1>1, <1>2 DEF Pieces

\* What carries a table in lines that end goes on to do so, whatever is appended.
LEMMA AppendCarries ==
    ASSUME NEW f \in Text, NEW x \in Text, NEW t, Kept(t), Carries(f, t), Len(Pieces(f)) > 3
    PROVE  Carries(f \o x, t) /\ Len(Pieces(f \o x)) > 3
<1> DEFINE p == Pieces(f)
           q == Pieces(f \o x)
           r == SplitAt(x, "NL")
           m == Len(t.rows)
<1>1. Len(p) \in Nat /\ m \in Nat
  BY PiecesParts, KeptParts
<1>2. /\ Len(q) = Len(p) + Len(r) - 1 /\ Len(r) \in Nat /\ Len(r) > 0
      /\ \A i \in 1 .. Len(p) - 1 : q[i] = p[i]
  <2>1. Joined(q, p, r) /\ Len(r) \in Nat /\ Len(r) > 0
    BY LongerFile
  <2> HIDE DEF p, q, r
  <2> QED
    BY <2>1 DEF Joined
<1>3. Len(p) > 3 + m
  BY DEF Carries
<1> HIDE DEF p, q, r, m
<1>4. Len(q) \in Nat /\ Len(q) > 3 + m /\ Len(q) > 3
  BY <1>1, <1>2, <1>3
<1>5. \A i \in 1 .. 3 + m : i \in 1 .. Len(p) - 1
  BY <1>1, <1>3
<1>6. \A i \in 1 .. 3 + m : q[i] = p[i]
  BY <1>2, <1>5
<1>7. Carries(f \o x, t)
  <2> DEFINE g == f \o x
  <2>1. Len(t.rows) \in Nat /\ Len(q) > 3 + Len(t.rows) /\ \A i \in 1 .. 3 + Len(t.rows) : q[i] = p[i]
    BY <1>1, <1>4, <1>6 DEF m
  <2>2. q = Pieces(g) /\ p = Pieces(f)
    BY DEF p, q
  <2> HIDE DEF g
  <2>3. Carries(g, t)
    BY <1>4, <2>1, <2>2, SameLines
  <2> QED
    BY <2>3 DEF g
<1> QED
  BY <1>4, <1>7 DEF q

\* The newline append_to_file_values adds to a file that salveazaTabel has cut.
LEMMA NewLineCarries ==
    ASSUME NEW f \in Text, NEW t, Kept(t), Carries(f, t), Len(Pieces(f)) = 3
    PROVE  /\ Pieces(f \o <<"NL">>) = Append(Pieces(f), <<>>)
           /\ Carries(f \o <<"NL">>, t) /\ Len(Pieces(f \o <<"NL">>)) = 4
<1> DEFINE p == Pieces(f)
           q == Pieces(f \o <<"NL">>)
           empty == <<>>
<1>1. "NL" \in Tokens
  BY DEF Tokens
<1>2. q = Append(p, empty)
  BY <1>1, SplitEnd DEF Text, Pieces
<1>3. p \in Seq(Text) /\ Len(p) = 3 /\ empty \in Text
  BY PiecesParts DEF Text
<1>4. Len(t.rows) = 0
  BY DEF Carries
<1> HIDE DEF p, q, empty
<1>5. \A s \in Seq(Text), x \in Text :
          Len(Append(s, x)) = Len(s) + 1 /\ \A i \in 1 .. Len(s) : Append(s, x)[i] = s[i]
  OBVIOUS
<1>6. Len(q) = Len(p) + 1 /\ \A i \in 1 .. Len(p) : q[i] = p[i]
  BY <1>2, <1>3, <1>5
<1>7. Len(q) = 4 /\ Len(q) > 3 + Len(t.rows) /\ Len(q) \in Nat
  BY <1>3, <1>4, <1>6
<1>8. \A i \in 1 .. 3 + Len(t.rows) : q[i] = p[i]
  BY <1>3, <1>4, <1>6
<1>9. Carries(f \o <<"NL">>, t)
  <2> DEFINE g == f \o <<"NL">>
  <2>1. q = Pieces(g) /\ p = Pieces(f) /\ Len(t.rows) \in Nat
    BY <1>4 DEF p, q
  <2> HIDE DEF g
  <2>2. Carries(g, t)
    BY <1>7, <1>8, <2>1, SameLines
  <2> QED
    BY <2>2 DEF g
<1> QED
  BY <1>2, <1>7, <1>9 DEF p, q, empty

\* What append_to_file_values writes of a row: a space after each value but the last.
Spaced(row) == [j \in DOMAIN row |-> IF j < Len(row) THEN row[j] \o <<"SP">> ELSE row[j]]

LEMMA FlattenFew ==
    ASSUME NEW S, NEW q \in Seq(Seq(S))
    PROVE  /\ Len(q) = 2 => FlattenSeq(q) = q[1] \o q[2]
           /\ Len(q) = 3 => FlattenSeq(q) = (q[1] \o q[2]) \o q[3]
<1>1. PICK f : Flattens(f, q, S) /\ FlattenSeq(q) = f[Len(q)]
  BY FlattenRuns
<1> DEFINE m == Len(q)
<1>2. m \in Nat /\ \A i \in 1 .. m : q[i] \in Seq(S)
  OBVIOUS
<1>3. f[0] = <<>> /\ \A k \in 0 .. m : k < m => f[k + 1] = f[k] \o q[k + 1]
  BY <1>1 DEF Flattens
<1> HIDE DEF m
<1>4. ASSUME NEW k \in 1 .. m
      PROVE  f[k] = f[k - 1] \o q[k]
  <2>1. k - 1 \in 0 .. m /\ k - 1 < m /\ (k - 1) + 1 = k
    BY <1>2
  <2> QED
    BY <1>3, <2>1
<1>5. ASSUME m >= 2
      PROVE  f[1] = q[1] /\ f[2] = q[1] \o q[2]
  <2>1. 1 \in 1 .. m /\ 2 \in 1 .. m /\ 1 - 1 = 0 /\ 2 - 1 = 1
    BY <1>2, <1>5
  <2>2. q[1] \in Seq(S)
    BY <1>2, <2>1
  <2>3. \A s \in Seq(S) : <<>> \o s = s
    OBVIOUS
  <2>4. f[1] = f[0] \o q[1] /\ f[2] = f[1] \o q[2]
    BY <1>4, <2>1
  <2>5. f[0] \o q[1] = q[1]
    BY <1>3, <2>2, <2>3
  <2> QED
    BY <2>4, <2>5
<1>6. ASSUME m = 3
      PROVE  f[3] = f[2] \o q[3]
  <2>1. 3 \in 1 .. m /\ 3 - 1 = 2
    BY <1>6
  <2> QED
    BY <1>4, <2>1
<1>7. m = 2 => m >= 2 /\ f[m] = f[2]
  OBVIOUS
<1>8. m = 3 => m >= 2 /\ f[m] = f[3]
  OBVIOUS
<1>9. m = 2 => f[m] = q[1] \o q[2]
  BY <1>5, <1>7, Zenon
<1>10. m = 3 => f[m] = (q[1] \o q[2]) \o q[3]
  BY <1>5, <1>6, <1>8, Zenon
<1> QED
  BY <1>1, <1>9, <1>10 DEF m

LEMMA AppendedText ==
    ASSUME NEW f, NEW row \in Seq(Text)
    PROVE  /\ Spaced(row) \in Seq(Text)
           /\ FlattenSeq(RowPieces(row)) = Ended(Spaced(row), "TAB") \o <<"NL">>
           /\ FlattenSeq(AppendedPieces(f, row)) =
                  FlattenSeq(Guess(f)) \o FlattenSeq(RowPieces(row))
           /\ Ended(Spaced(row), "TAB") \in Text
<1> DEFINE nl == <<"NL">>
           sp == <<"SP">>
           tab == <<"TAB">>
           last == <<nl>>
           pieces(j) == IF j < Len(row) THEN <<row[j], sp, tab>> ELSE <<row[j], tab>>
           values == [j \in DOMAIN row |-> pieces(j)]
           spaced == Spaced(row)
           texts == [j \in DOMAIN spaced |-> spaced[j] \o tab]
<1>1. nl \in Text /\ sp \in Text /\ tab \in Text /\ "TAB" \in Tokens
  BY DEF Text, Tokens
<1>2. Guess(f) \in Seq(Text) /\ last \in Seq(Text)
  BY <1>1 DEF Guess
<1>3. /\ DOMAIN row = 1 .. Len(row) /\ Len(row) \in Nat
      /\ \A j \in 1 .. Len(row) : row[j] \in Text
  OBVIOUS
<1>4. /\ spaced \in Seq(Text) /\ Len(spaced) = Len(row)
      /\ \A j \in 1 .. Len(row) : spaced[j] = IF j < Len(row) THEN row[j] \o sp ELSE row[j]
  <2>1. ASSUME NEW j \in 1 .. Len(row)
        PROVE  (IF j < Len(row) THEN row[j] \o sp ELSE row[j]) \in Text
    BY <1>1, <1>3 DEF Text
  <2>2. spaced \in [1 .. Len(row) -> Text]
    BY <1>3, <2>1 DEF Spaced
  <2>3. \A j \in 1 .. Len(row) : spaced[j] = IF j < Len(row) THEN row[j] \o sp ELSE row[j]
    BY <1>3 DEF Spaced
  <2> HIDE DEF spaced
  <2> QED
    BY <1>3, <2>2, <2>3, IsSequence
<1> HIDE DEF spaced
<1>5. texts \in Seq(Text) /\ Len(texts) = Len(row) /\ \A j \in 1 .. Len(row) : texts[j] = spaced[j] \o tab
  <2>1. DOMAIN spaced = 1 .. Len(row)
    BY <1>3, <1>4
  <2>2. ASSUME NEW j \in 1 .. Len(row)
        PROVE  spaced[j] \o tab \in Text
    BY <1>1, <1>4 DEF Text
  <2>3. texts \in [1 .. Len(row) -> Text]
    BY <2>1, <2>2
  <2>4. \A j \in 1 .. Len(row) : texts[j] = spaced[j] \o tab
    BY <2>1
  <2> HIDE DEF texts
  <2> QED
    BY <1>3, <2>3, <2>4, IsSequence
<1>6. Ended(spaced, "TAB") = FlattenSeq(texts)
  BY DEF Ended
<1> HIDE DEF nl, sp, tab, last, texts
<1>7. ASSUME NEW j \in 1 .. Len(row)
      PROVE  pieces(j) \in Seq(Text) /\ texts[j] = FlattenSeq(pieces(j))
  <2>1. row[j] \in Text
    BY <1>3
  <2>2. CASE j < Len(row)
    <3> DEFINE three == <<row[j], sp, tab>>
    <3>1. /\ three \in Seq(Text) /\ Len(three) = 3
          /\ three[1] = row[j] /\ three[2] = sp /\ three[3] = tab
      BY <1>1, <2>1
    <3>2. pieces(j) = three
      BY <2>2
    <3> HIDE DEF three, pieces
    <3>3. FlattenSeq(three) = (row[j] \o sp) \o tab
      BY <3>1, FlattenFew DEF Text
    <3>4. texts[j] = (row[j] \o sp) \o tab
      BY <1>4, <1>5, <2>2
    <3> QED
      BY <3>1, <3>2, <3>3, <3>4
  <2>3. CASE ~ (j < Len(row))
    <3> DEFINE two == <<row[j], tab>>
    <3>1. two \in Seq(Text) /\ Len(two) = 2 /\ two[1] = row[j] /\ two[2] = tab
      BY <1>1, <2>1
    <3>2. pieces(j) = two
      BY <2>3
    <3> HIDE DEF two, pieces
    <3>3. FlattenSeq(two) = row[j] \o tab
      BY <3>1, FlattenFew DEF Text
    <3>4. texts[j] = row[j] \o tab
      BY <1>4, <1>5, <2>3
    <3> QED
      BY <3>1, <3>2, <3>3, <3>4
  <2> QED
    BY <2>2, <2>3
<1>8. RowPieces(row) = FlattenSeq(values) \o last
  BY DEF RowPieces, last, nl, sp, tab
<1> HIDE DEF pieces
<1>9. /\ values \in Seq(Seq(Text)) /\ Len(values) = Len(row)
      /\ \A j \in 1 .. Len(row) : texts[j] = FlattenSeq(values[j])
  <2>1. values \in [1 .. Len(row) -> Seq(Text)]
    BY <1>3, <1>7
  <2>2. \A j \in 1 .. Len(row) : values[j] = pieces(j)
    BY <1>3
  <2> HIDE DEF values
  <2> QED
    BY <1>3, <1>7, <2>1, <2>2, IsSequence
<1> HIDE DEF values
<1>10. FlattenSeq(values) \in Seq(Text) /\ FlattenSeq(texts) \in Text
  BY <1>5, <1>9, FlattenType DEF Text
<1>11. FlattenSeq(FlattenSeq(values)) = FlattenSeq(texts)
  BY <1>5, <1>9, FlattenTwice DEF Text
<1> DEFINE written == FlattenSeq(values)
           mine == written \o last
<1>12. mine \in Seq(Text)
  BY <1>2, <1>10
<1>13. FlattenSeq(mine) = FlattenSeq(texts) \o FlattenSeq(last)
  BY <1>2, <1>10, <1>11, FlattenJoined DEF Text
<1>14. FlattenSeq(last) = nl
  BY <1>1, FlattenOne DEF last, Text
<1> HIDE DEF mine
<1>15. FlattenSeq(Guess(f) \o mine) = FlattenSeq(Guess(f)) \o FlattenSeq(mine)
  BY <1>2, <1>12, FlattenJoined DEF Text
<1>16. RowPieces(row) = mine
  BY <1>8 DEF mine
<1>17. AppendedPieces(f, row) = Guess(f) \o mine
  BY <1>16 DEF AppendedPieces
<1>18. FlattenSeq(texts) = Ended(Spaced(row), "TAB")
  BY <1>6 DEF spaced
<1> QED
  BY <1>4, <1>10, <1>13, <1>14, <1>15, <1>16, <1>17, <1>18 DEF spaced, nl

\* A row that was written, whatever became of its first value, is read back.
FirstIs(q, w) == q[1] = w \/ q[1] = Append(w, "SP")

ReadAs(loaded, w, q) ==
    /\ loaded[1] = w /\ \A j \in 2 .. Len(q) : loaded[j] = q[j]
    /\ q[1] = w => loaded = q

LEMMA RowReadBack ==
    ASSUME NEW S, "TAB" \notin S, "ZERO" \notin S,
           NEW q \in Seq(Seq(S) \ {<<>>}), q # <<>>,
           NEW w \in Seq(S \ {"SP"}), w # <<>>, FirstIs(q, w),
           NEW loaded, loaded = LoadedRow(UpToZero(Ended(q, "TAB")), Len(q))
    PROVE  ReadAs(loaded, w, q)
<1> DEFINE V == Seq(S) \ {<<>>}
           first == q[1]
           rest == Tail(q)
           m == Len(q)
           one == <<first>>
           mine == <<w>>
<1>1. m \in Nat /\ m > 0 /\ first \in V /\ rest \in Seq(V) /\ Len(rest) + 1 = m
      /\ \A j \in 2 .. m : q[j] = rest[j - 1] /\ j - 1 \in 1 .. Len(rest)
  OBVIOUS
<1>2. first \in Seq(S) /\ first # <<>> /\ w \in V
  <2>1. Seq(S \ {"SP"}) \subseteq Seq(S)
    OBVIOUS
  <2> QED
    BY <1>1, <2>1
<1>3. one \in Seq(V) /\ Len(one) = 1 /\ one[1] = first /\ mine \in Seq(V) /\ Len(mine) = 1 /\ mine[1] = w
  BY <1>1, <1>2
<1>4. first = w \/ first = w \o <<"SP">>
  <2>1. Append(w, "SP") = w \o <<"SP">>
    <3>1. w \in Seq(S \cup {"SP"}) /\ "SP" \in S \cup {"SP"}
      OBVIOUS
    <3> QED
      BY <3>1
  <2> QED
    BY <2>1 DEF FirstIs
<1> HIDE DEF first, rest, V, one, mine, m
<1>5. ASSUME NEW s \in Seq(V), Len(s) = 1, NEW all, all = s \o rest
      PROVE  /\ all \in Seq(V) /\ Len(all) = m
             /\ \A i \in 1 .. m : all[i] = IF i <= 1 THEN s[i] ELSE rest[i - 1]
  <2>1. /\ s \o rest \in Seq(V) /\ Len(s \o rest) = Len(s) + Len(rest)
        /\ \A i \in 1 .. Len(s) + Len(rest) :
              (s \o rest)[i] = IF i <= Len(s) THEN s[i] ELSE rest[i - Len(s)]
    <3>1. rest \in Seq(V)
      BY <1>1
    <3> QED
      BY <3>1, ConcatProperties
  <2> DEFINE k == Len(s)
             n == Len(rest)
  <2>2. /\ all \in Seq(V) /\ Len(all) = k + n
        /\ \A i \in 1 .. k + n : all[i] = IF i <= k THEN s[i] ELSE rest[i - k]
    BY <1>5, <2>1, Zenon
  <2>3. k = 1 /\ k + n = m
    BY <1>1, <1>5
  <2> HIDE DEF k, n
  <2> QED
    BY <2>2, <2>3
<1>6. q = one \o rest
  <2> DEFINE all == one \o rest
  <2>1. /\ all \in Seq(V) /\ Len(all) = m
        /\ \A i \in 1 .. m : all[i] = IF i <= 1 THEN one[i] ELSE rest[i - 1]
    BY <1>3, <1>5
  <2> HIDE DEF all
  <2>2. ASSUME NEW i \in 1 .. m
        PROVE  all[i] = q[i]
    <3>1. CASE i = 1
      BY <1>3, <2>1, <3>1 DEF first
    <3>2. CASE i # 1
      <4>1. i \in 2 .. m /\ ~ (i <= 1)
        BY <1>1, <3>2
      <4> QED
        BY <1>1, <2>1, <4>1
    <3> QED
      BY <3>1, <3>2
  <2>3. q \in Seq(V) /\ Len(q) = m
    BY DEF V, m
  <2>4. Len(all) = Len(q) /\ \A i \in 1 .. Len(q) : all[i] = q[i]
    BY <2>1, <2>2, <2>3
  <2>5. all = q
    BY <2>1, <2>3, <2>4, SeqEqual
  <2> QED
    BY <2>5 DEF all
<1>7. loaded = mine \o rest
  <2>1. LoadedRow(UpToZero(Ended(<<first>> \o rest, "TAB")), Len(rest) + 1) = <<w>> \o rest
    BY <1>1, <1>2, <1>4, RowComesBack DEF V
  <2> QED
    BY <1>1, <1>6, <2>1 DEF one, mine, m
<1>8. \A i \in 1 .. m : loaded[i] = IF i <= 1 THEN mine[i] ELSE rest[i - 1]
  BY <1>3, <1>5, <1>7
<1>9. loaded[1] = w
  <2>1. 1 \in 1 .. m /\ 1 <= 1
    BY <1>1
  <2> QED
    BY <1>3, <1>8, <2>1
<1>10. ASSUME NEW j \in 2 .. m
       PROVE  loaded[j] = q[j]
  <2>1. j \in 1 .. m /\ ~ (j <= 1)
    BY <1>1
  <2> QED
    BY <1>1, <1>8, <2>1
<1>11. q[1] = w => loaded = q
  BY <1>6, <1>7 DEF one, mine, first
<1> QED
  BY <1>9, <1>10, <1>11 DEF m, ReadAs

LEMMA WithoutSpace ==
    ASSUME NEW value \in Seq(Letters), "SP" \notin ToSet(value)
    PROVE  value \in Seq(Letters \ {"SP"})
<1>1. \A i \in 1 .. Len(value) : value[i] \in Letters /\ value[i] # "SP"
  BY DEF ToSet
<1>2. value \in [1 .. Len(value) -> Letters \ {"SP"}] /\ Len(value) \in Nat
  BY <1>1
<1> QED
  BY <1>2, IsSequence

LEMMA SpacedType ==
    ASSUME NEW row \in Seq(Seq(Letters) \ {<<>>})
    PROVE  /\ Spaced(row) \in Seq(Seq(Letters) \ {<<>>}) /\ Len(Spaced(row)) = Len(row)
           /\ \A j \in 1 .. Len(row) :
                 Spaced(row)[j] = IF j < Len(row) THEN Append(row[j], "SP") ELSE row[j]
<1> DEFINE V == Seq(Letters) \ {<<>>}
<1>1. "SP" \in Letters
  BY DEF Letters, Tokens
<1>2. ASSUME NEW s \in V
      PROVE  Append(s, "SP") \in V /\ s \o <<"SP">> = Append(s, "SP")
  BY <1>1
<1>3. /\ DOMAIN row = 1 .. Len(row) /\ Len(row) \in Nat
      /\ \A j \in 1 .. Len(row) : row[j] \in V
  OBVIOUS
<1> HIDE DEF V
<1>4. ASSUME NEW j \in 1 .. Len(row)
      PROVE  (IF j < Len(row) THEN row[j] \o <<"SP">> ELSE row[j]) =
                 (IF j < Len(row) THEN Append(row[j], "SP") ELSE row[j])
  BY <1>2, <1>3
<1>5. ASSUME NEW j \in 1 .. Len(row)
      PROVE  (IF j < Len(row) THEN Append(row[j], "SP") ELSE row[j]) \in V
  BY <1>2, <1>3
<1>6. Spaced(row) = [j \in 1 .. Len(row) |-> IF j < Len(row) THEN row[j] \o <<"SP">> ELSE row[j]]
  BY <1>3 DEF Spaced
<1>7. Spaced(row) = [j \in 1 .. Len(row) |-> IF j < Len(row) THEN Append(row[j], "SP") ELSE row[j]]
  BY <1>4, <1>6
<1>8. Spaced(row) \in [1 .. Len(row) -> V]
  BY <1>5, <1>7
<1>9. \A j \in 1 .. Len(row) :
          Spaced(row)[j] = IF j < Len(row) THEN Append(row[j], "SP") ELSE row[j]
  BY <1>7
<1>10. Spaced(row) \in Seq(V) /\ Len(Spaced(row)) = Len(row)
  BY <1>3, <1>8, IsSequence
<1> QED
  BY <1>9, <1>10 DEF V

\* The row INSERT writes is the row that is read, but for the spaces.
LEMMA TidyRowReadBack ==
    ASSUME NEW n \in Nat, n > 0, NEW row \in Seq(Values), Tidy(row, n),
           NEW loaded, loaded = LoadedRow(UpToZero(Ended(Spaced(row), "TAB")), n)
    PROVE  SameRow(loaded, row)
<1> DEFINE V == Seq(Letters) \ {<<>>}
           q == Spaced(row)
           w == row[1]
<1>1. row \in Seq(V) /\ Len(row) = n
  BY WordsAreLetters, SeqMonotonic DEF Tidy
<1>2. /\ q \in Seq(V) /\ Len(q) = n
      /\ \A j \in 1 .. n : q[j] = IF j < n THEN Append(row[j], "SP") ELSE row[j]
  <2>1. /\ q \in Seq(V) /\ Len(q) = Len(row)
        /\ \A j \in 1 .. Len(row) : q[j] = IF j < Len(row) THEN Append(row[j], "SP") ELSE row[j]
    BY <1>1, SpacedType
  <2> HIDE DEF q, V
  <2> QED
    BY <1>1, <2>1
<1>3. 1 \in 1 .. n
  OBVIOUS
<1>4. w \in V
  <2> HIDE DEF V
  <2> QED
    BY <1>1, <1>3
<1>5. w \in Seq(Letters \ {"SP"}) /\ w # <<>>
  BY <1>4, WithoutSpace DEF Tidy
<1> HIDE DEF q, w
<1>6. q # <<>>
  BY <1>2
<1>7. FirstIs(q, w)
  BY <1>2, <1>3 DEF w, FirstIs
<1>8. "TAB" \notin Letters /\ "ZERO" \notin Letters
  BY DEF Letters
<1>9. loaded = LoadedRow(UpToZero(Ended(q, "TAB")), Len(q))
  BY <1>2 DEF q
<1>10. loaded[1] = w /\ \A j \in 2 .. Len(q) : loaded[j] = q[j]
  <2>1. q \in Seq(Seq(Letters) \ {<<>>})
    BY <1>2
  <2> QED
    BY <1>5, <1>6, <1>7, <1>8, <1>9, <2>1, RowReadBack DEF ReadAs
<1>11. DOMAIN row = 1 .. n
  BY <1>1
<1>12. ASSUME NEW j \in 1 .. n
       PROVE  SameValue(loaded[j], row[j], j \notin {1, Len(row)})
  <2>1. CASE j = 1
    BY <1>10, <2>1 DEF SameValue, w
  <2>2. CASE j # 1
    <3>1. j \in 2 .. Len(q)
      BY <1>2, <2>2
    <3>2. loaded[j] = IF j < n THEN Append(row[j], "SP") ELSE row[j]
      BY <1>2, <1>10, <3>1
    <3>3. j < n => j \notin {1, Len(row)}
      BY <1>1, <2>2
    <3> QED
      BY <3>2, <3>3 DEF SameValue
  <2> QED
    BY <2>1, <2>2
<1> QED
  BY <1>11, <1>12 DEF SameRow

LEMMA TextsJoin ==
    ASSUME NEW a \in Text, NEW b \in Text, NEW c \in Text
    PROVE  (a \o b) \o c = a \o (b \o c)
<1>1. a \in Seq(Tokens) /\ b \in Seq(Tokens) /\ c \in Seq(Tokens)
  BY DEF Text
<1> QED
  BY <1>1, ConcatAssociative

\* The newline it guesses leaves a file whose lines all end.
LEMMA Guessed ==
    ASSUME NEW f \in Text, NEW t, Kept(t), Carries(f, t),
           NEW g, g = f \o FlattenSeq(Guess(f))
    PROVE  /\ g \in Text /\ Carries(g, t) /\ Len(Pieces(g)) > 3
           /\ Exactly(f, t) => Exactly(g, t)
<1> DEFINE p == Pieces(f)
           nl == <<"NL">>
           empty == <<>>
<1>1. nl \in Text
  BY DEF Text, Tokens
<1>2. NewLines(f) = Len(p) - 1 /\ Len(p) \in Nat
  BY NewLinesCount, PiecesParts DEF Text, Pieces
<1>3. Len(p) >= 3
  BY DEF Carries
<1> HIDE DEF p
<1>4. CASE Len(p) = 3
  <2>1. NewLines(f) = 2
    BY <1>2, <1>4
  <2>2. FlattenSeq(Guess(f)) = nl
    <3>1. Guess(f) = <<nl>>
      BY <2>1 DEF Guess
    <3> QED
      BY <1>1, <3>1, FlattenOne DEF Text
  <2>3. /\ Pieces(g) = Append(p, empty) /\ Carries(g, t) /\ Len(Pieces(g)) = 4
    BY <1>4, <2>2, NewLineCarries DEF p
  <2>4. Exactly(g, t)
    <3>1. Len(t.rows) = 0
      BY <1>4 DEF Carries, p
    <3>2. p \in Seq(Text) /\ empty \in Text
      BY PiecesParts DEF p, Text
    <3> HIDE DEF empty
    <3>3. \A s \in Seq(Text), x \in Text : Append(s, x)[Len(s) + 1] = x
      OBVIOUS
    <3>4. Pieces(g)[4] = empty
      <4>1. Append(p, empty)[Len(p) + 1] = empty
        BY <3>2, <3>3
      <4>2. Len(p) + 1 = 4
        BY <1>4
      <4> QED
        BY <2>3, <4>1, <4>2
    <3> QED
      BY <2>3, <3>1, <3>4 DEF Exactly, empty
  <2>5. g \in Text
    BY <1>1, <2>2 DEF Text
  <2>6. Len(Pieces(g)) > 3
    BY <2>3
  <2> QED
    BY <2>3, <2>4, <2>5, <2>6
<1>5. CASE Len(p) # 3
  <2>1. NewLines(f) # 2 /\ Len(p) > 3
    <3> DEFINE k == Len(p)
    <3>1. k \in Nat /\ k >= 3 /\ k # 3 /\ NewLines(f) = k - 1
      BY <1>2, <1>3, <1>5
    <3> HIDE DEF k
    <3>2. NewLines(f) # 2 /\ k > 3
      BY <3>1
    <3> QED
      BY <3>2 DEF k
  <2>2. FlattenSeq(Guess(f)) = empty
    BY <2>1, FlattenNone DEF Guess
  <2>3. g = f
    BY <2>2 DEF Text
  <2> QED
    BY <2>1, <2>3 DEF p
<1> QED
  BY <1>4, <1>5

\* A line and its end.
LEMMA LinePieces ==
    ASSUME NEW line \in Seq(Tokens \ {"NL"}), NEW r, r = SplitAt(line \o <<"NL">>, "NL")
    PROVE  Len(r) = 2 /\ r[1] = line /\ r[2] = <<>>
<1>1. line \in Seq(Tokens) /\ "NL" \in Tokens
  <2>1. Seq(Tokens \ {"NL"}) \subseteq Seq(Tokens)
    OBVIOUS
  <2> QED
    BY <2>1 DEF Tokens
<1>2. SplitAt(line, "NL") = <<line>>
  BY SplitWhole
<1>3. r = Append(<<line>>, <<>>)
  BY <1>1, <1>2, SplitEnd
<1> QED
  BY <1>3

\* The pieces of what append_to_file_values writes of a row, whatever its values hold.
LEMMA RowEnds ==
    ASSUME NEW row \in Seq(Text), NEW end, end = FlattenSeq(RowPieces(row)),
           NEW r, r = SplitAt(end, "NL"), NEW line, line = Ended(Spaced(row), "TAB")
    PROVE  /\ end \in Text /\ r \in Seq(Text)
           /\ NewLines(end) \in Nat /\ NewLines(end) > 0
           /\ Len(r) = NewLines(end) + 1 /\ r[NewLines(end) + 1] = <<>>
           /\ line \in Seq(Tokens \ {"NL"}) => NewLines(end) = 1 /\ r[1] = line
<1> DEFINE nl == <<"NL">>
           empty == <<>>
           s == SplitAt(line, "NL")
<1>1. line \in Text /\ end = line \o nl
  BY AppendedText
<1>2. "NL" \in Tokens /\ nl \in Text /\ empty \in Text
  BY DEF Text, Tokens
<1>3. end \in Text
  BY <1>1, <1>2 DEF Text
<1>4. s \in Seq(Text) /\ Len(s) \in Nat /\ Len(s) > 0
  <2> DEFINE pieces == Pieces(line)
  <2>1. pieces \in Seq(Text) /\ Len(pieces) \in Nat /\ Len(pieces) > 0
    BY <1>1, PiecesParts
  <2> QED
    BY <2>1 DEF Pieces
<1>5. r = Append(s, empty)
  BY <1>1, <1>2, SplitEnd DEF Text
<1>6. NewLines(end) = Len(r) - 1
  BY <1>3, NewLinesCount DEF Text
<1>7. line \in Seq(Tokens \ {"NL"}) => Len(r) = 2 /\ r[1] = line
  BY <1>1, LinePieces
<1> HIDE DEF s, empty
<1>8. \A q \in Seq(Text), x \in Text :
          Append(q, x) \in Seq(Text) /\ Len(Append(q, x)) = Len(q) + 1 /\ Append(q, x)[Len(q) + 1] = x
  OBVIOUS
<1>9. r \in Seq(Text) /\ Len(r) = Len(s) + 1 /\ r[Len(s) + 1] = empty
  BY <1>2, <1>4, <1>5, <1>8
<1> DEFINE k == Len(s)
           count == NewLines(end)
           l == Len(r)
<1>10. k \in Nat /\ k > 0 /\ l = k + 1 /\ count = l - 1
  BY <1>4, <1>6, <1>9
<1>11. r[k + 1] = empty /\ (line \in Seq(Tokens \ {"NL"}) => l = 2 /\ r[1] = line)
  BY <1>7, <1>9
<1> HIDE DEF k, count, l
<1>12. count = k
  BY <1>10
<1>13. count \in Nat /\ count > 0 /\ l = count + 1 /\ r[count + 1] = empty
  BY <1>10, <1>11, <1>12
<1>14. line \in Seq(Tokens \ {"NL"}) => count = 1 /\ r[1] = line
  <2>1. l = 2 => count = 1
    BY <1>10
  <2> QED
    BY <1>11, <2>1, Zenon
<1> QED
  BY <1>3, <1>9, <1>13, <1>14 DEF count, l, empty

LEMMA KeepableValue ==
    ASSUME NEW value \in Seq(Words), Keepable(value)
    PROVE  value \in Values
<1>1. \A i \in 1 .. Len(value) : value[i] \in Words \ {"NL", "TAB"}
  BY DEF Keepable, ToSet
<1>2. value \in [1 .. Len(value) -> Words \ {"NL", "TAB"}] /\ Len(value) \in Nat
  BY <1>1
<1>3. value \in Seq(Words \ {"NL", "TAB"})
  BY <1>2, IsSequence
<1> QED
  BY <1>3 DEF Values, Keepable

LEMMA TidyValues ==
    ASSUME NEW row \in Seq(Seq(Words)), NEW n, Tidy(row, n)
    PROVE  row \in Seq(Values)
<1>1. \A j \in 1 .. Len(row) : row[j] \in Seq(Words) /\ Keepable(row[j])
  BY DEF Tidy
<1>2. \A j \in 1 .. Len(row) : row[j] \in Values
  BY <1>1, KeepableValue
<1>3. row \in [1 .. Len(row) -> Values] /\ Len(row) \in Nat
  BY <1>2
<1> QED
  BY <1>3, IsSequence

\* Rows of the history, each known or not.
KeptRows(rows, n) == \A i \in 1 .. Len(rows) : rows[i] = Whatever \/ Tidy(rows[i], n)

LEMMA AddedRowsType ==
    ASSUME NEW row \in Seq(Seq(Words)), NEW n, NEW rows, rows = AddedRows(row, n),
           NEW k, k = NewLines(FlattenSeq(RowPieces(row)))
    PROVE  /\ rows \in Seq(Seq(Values)) /\ Len(rows) \in Nat /\ KeptRows(rows, n)
           /\ Tidy(row, n) => Len(rows) = 1 /\ rows[1] = row
           /\ ~Tidy(row, n) => Len(rows) = k /\ \A i \in 1 .. k : rows[i] = Whatever
<1>1. k \in Nat
  BY ValuesAreTexts, RowEnds
<1>2. CASE Tidy(row, n)
  <2> DEFINE one == <<row>>
  <2>1. row \in Seq(Values)
    BY <1>2, TidyValues
  <2>2. one \in Seq(Seq(Values)) /\ Len(one) = 1 /\ one[1] = row
    BY <2>1
  <2>3. rows = one
    BY <1>2 DEF AddedRows
  <2> HIDE DEF one
  <2>4. ASSUME NEW i \in 1 .. Len(rows)
        PROVE  Tidy(rows[i], n)
    <3>1. Len(rows) = 1 /\ rows[1] = row
      BY <2>2, <2>3, Zenon
    <3>2. i = 1
      BY <3>1
    <3> QED
      BY <1>2, <3>1, <3>2, Zenon
  <2>5. KeptRows(rows, n)
    BY <2>4 DEF KeptRows
  <2> QED
    BY <1>2, <2>2, <2>3, <2>5
<1>3. CASE ~Tidy(row, n)
  <2>1. rows = [i \in 1 .. k |-> Whatever]
    BY <1>3 DEF AddedRows
  <2>2. Whatever \in Seq(Values)
    BY DEF Whatever
  <2>3. rows \in [1 .. k -> Seq(Values)] /\ \A i \in 1 .. k : rows[i] = Whatever
    BY <2>1, <2>2
  <2>4. rows \in Seq(Seq(Values)) /\ Len(rows) = k
    BY <1>1, <2>1, <2>3, IsSequence
  <2>5. KeptRows(rows, n)
    BY <2>3, <2>4 DEF KeptRows
  <2> QED
    BY <1>1, <1>3, <2>3, <2>4, <2>5
<1> QED
  BY <1>2, <1>3

\* The table, and the file, after INSERT.
WithRow(t, row) == [t EXCEPT !.rows = @ \o AddedRows(row, Len(t.types))]

AfterInsert(f, row) == f \o FlattenSeq(AppendedPieces(f, row))

\* The rows of u are those of t, and then added.
RowsJoined(u, t, added) ==
    /\ Len(u.rows) = Len(t.rows) + Len(added)
    /\ \A i \in 1 .. Len(t.rows) : u.rows[i] = t.rows[i]
    /\ \A i \in 1 .. Len(added) : u.rows[Len(t.rows) + i] = added[i]

LEMMA KeptWithRow ==
    ASSUME NEW t, Kept(t), NEW row \in Seq(Seq(Words)), NEW u, u = WithRow(t, row),
           NEW added, added = AddedRows(row, Len(t.types))
    PROVE  Kept(u) /\ u.types = t.types /\ RowsJoined(u, t, added)
<1> DEFINE rows == t.rows \o added
           R == Seq(Values)
<1>1. t.rows \in Seq(R) /\ Len(t.rows) \in Nat /\ t.types \in Seq(KnownTypes)
  BY KeptParts
<1>2. t = [types |-> t.types, rows |-> t.rows]
  BY DEF Kept
<1>3. u = [types |-> t.types, rows |-> rows]
  BY <1>2 DEF WithRow
<1>4. added \in Seq(R) /\ Len(added) \in Nat /\ KeptRows(added, Len(t.types))
  BY AddedRowsType
<1> HIDE DEF R
<1> DEFINE m == Len(t.rows)
           k == Len(added)
<1>5. /\ rows \in Seq(R) /\ Len(rows) = m + k
      /\ \A i \in 1 .. m + k : rows[i] = IF i <= m THEN t.rows[i] ELSE added[i - m]
  <2> DEFINE old == t.rows
  <2>1. old \in Seq(R)
    BY <1>1
  <2> HIDE DEF old
  <2>2. /\ old \o added \in Seq(R) /\ Len(old \o added) = Len(old) + Len(added)
        /\ \A i \in 1 .. Len(old) + Len(added) :
              (old \o added)[i] = IF i <= Len(old) THEN old[i] ELSE added[i - Len(old)]
    BY <1>4, <2>1, ConcatProperties
  <2> QED
    BY <2>2, Zenon DEF old
<1>6. m \in Nat /\ k \in Nat
  BY <1>1, <1>4
<1> HIDE DEF rows, m, k
<1>7. u.types = t.types /\ u.rows = rows
  BY <1>3
<1>8. \A i \in 1 .. m : rows[i] = t.rows[i]
  <2>1. \A i \in 1 .. m : i \in 1 .. m + k /\ i <= m
    BY <1>6
  <2> QED
    BY <1>5, <2>1
<1>9. \A i \in 1 .. k : rows[m + i] = added[i]
  <2>1. \A i \in 1 .. k : m + i \in 1 .. m + k /\ ~ (m + i <= m) /\ (m + i) - m = i
    BY <1>6
  <2> QED
    BY <1>5, <2>1
<1>10. ASSUME NEW i \in 1 .. m + k
       PROVE  rows[i] = Whatever \/ Tidy(rows[i], Len(t.types))
  <2>1. CASE i <= m
    <3>1. i \in 1 .. m
      BY <1>6, <2>1
    <3> QED
      BY <1>8, <3>1 DEF Kept, m
  <2>2. CASE ~ (i <= m)
    <3>1. i - m \in 1 .. k /\ m + (i - m) = i
      BY <1>6, <2>2
    <3> QED
      BY <1>4, <1>9, <3>1 DEF KeptRows, k
  <2> QED
    BY <2>1, <2>2
<1>11. Kept(u)
  <2>1. u \in [types : Seq(KnownTypes), rows : Seq(R)]
    <3>1. [types |-> t.types, rows |-> rows] \in [types : Seq(KnownTypes), rows : Seq(R)]
      BY <1>1, <1>5
    <3> QED
      BY <1>3, <3>1, Zenon
  <2> QED
    BY <1>5, <1>7, <1>10, <2>1 DEF Kept, R
<1> QED
  BY <1>5, <1>7, <1>8, <1>9, <1>11 DEF RowsJoined, m, k

LEMMA TidyLine ==
    ASSUME NEW row \in Seq(Values)
    PROVE  Ended(Spaced(row), "TAB") \in Seq(Tokens \ {"NL"})
<1>1. row \in Seq(Seq(Letters) \ {<<>>})
  BY WordsAreLetters, SeqMonotonic
<1>2. Spaced(row) \in Seq(Seq(Letters))
  <2>1. Spaced(row) \in Seq(Seq(Letters) \ {<<>>})
    BY <1>1, SpacedType
  <2>2. Seq(Letters) \ {<<>>} \subseteq Seq(Letters)
    OBVIOUS
  <2> QED
    BY <2>1, <2>2, SeqMonotonic
<1>3. Ended(Spaced(row), "TAB") \in Seq(Letters \cup {"TAB"})
  BY <1>2, EndedType
<1>4. Letters \cup {"TAB"} \subseteq Tokens \ {"NL"}
  BY DEF Letters, Tokens
<1> QED
  BY <1>3, <1>4, SeqMonotonic

\* Once an INSERT is complete the file carries its row too, and nothing else if it did
\* not before.
LEMMA InsertCarries ==
    ASSUME NEW f \in Text, NEW t, Kept(t), Carries(f, t), NEW row \in Seq(Seq(Words)),
           NEW u, u = WithRow(t, row), NEW g, g = AfterInsert(f, row)
    PROVE  /\ Carries(g, t)
           /\ Exactly(f, t) => Carries(g, u) /\ Exactly(g, u)
<1> DEFINE added == AddedRows(row, Len(t.types))
           line == Ended(Spaced(row), "TAB")
           end == FlattenSeq(RowPieces(row))
           first == f \o FlattenSeq(Guess(f))
           p == Pieces(first)
           q == Pieces(g)
           r == SplitAt(end, "NL")
           m == Len(t.rows)
           n == Len(t.types)
           k == Len(added)
           count == NewLines(end)
<1>1. row \in Seq(Text)
  BY ValuesAreTexts
<1>2. /\ first \in Text /\ Carries(first, t) /\ Len(p) > 3
      /\ Exactly(f, t) => Exactly(first, t)
  BY Guessed
<1>3. /\ end \in Text /\ r \in Seq(Text) /\ count \in Nat /\ count > 0
      /\ Len(r) = count + 1 /\ r[count + 1] = <<>>
      /\ line \in Seq(Tokens \ {"NL"}) => count = 1 /\ r[1] = line
  BY <1>1, RowEnds
<1>4. /\ added \in Seq(Seq(Values)) /\ k \in Nat
      /\ Tidy(row, n) => k = 1 /\ added[1] = row
      /\ ~Tidy(row, n) => k = count /\ \A i \in 1 .. count : added[i] = Whatever
  BY AddedRowsType
<1>5. g = first \o end
  <2> DEFINE guess == FlattenSeq(Guess(f))
  <2>1. FlattenSeq(AppendedPieces(f, row)) = guess \o end
    BY <1>1, AppendedText
  <2>2. guess \in Text
    <3> DEFINE nl == <<"NL">>
    <3>1. nl \in Text
      BY DEF Text, Tokens
    <3>2. Guess(f) \in Seq(Text)
      BY <3>1 DEF Guess
    <3> QED
      BY <3>2, FlattenType DEF Text
  <2> HIDE DEF end, guess
  <2>3. (f \o guess) \o end = f \o (guess \o end)
    BY <1>3, <2>2, TextsJoin
  <2> QED
    BY <2>1, <2>3 DEF guess, AfterInsert
<1>6. Carries(g, t)
  <2> HIDE DEF first, end
  <2> QED
    BY <1>2, <1>3, <1>5, AppendCarries DEF p
<1>7. Joined(q, p, r)
  <2> HIDE DEF first, end
  <2>1. Joined(Pieces(first \o end), Pieces(first), SplitAt(end, "NL"))
    BY <1>2, <1>3, LongerFile
  <2> QED
    BY <1>5, <2>1
<1>8. k = count /\ k > 0
  <2>1. CASE Tidy(row, n)
    <3>1. row \in Seq(Values)
      BY <2>1, TidyValues
    <3>2. line \in Seq(Tokens \ {"NL"})
      BY <3>1, TidyLine
    <3> HIDE DEF line, count, end, r, k, added, n
    <3> QED
      BY <1>3, <1>4, <2>1, <3>2
  <2>2. CASE ~Tidy(row, n)
    <3> HIDE DEF line, count, end, r, k, added, n
    <3> QED
      BY <1>3, <1>4, <2>2
  <2> QED
    BY <2>1, <2>2
<1>9. m \in Nat /\ n \in Nat /\ n > 0 /\ Len(p) \in Nat /\ p \in Seq(Text)
  BY <1>2, PiecesParts, KeptParts
<1>10. Kept(u) /\ u.types = t.types /\ RowsJoined(u, t, added)
  BY KeptWithRow
<1>11. /\ Len(u.rows) = m + k /\ \A i \in 1 .. m : u.rows[i] = t.rows[i]
       /\ \A i \in 1 .. k : u.rows[m + i] = added[i]
  BY <1>10 DEF RowsJoined
<1>12. Tidy(row, n) => r[1] = line
  <2> SUFFICES ASSUME Tidy(row, n) PROVE r[1] = line
    OBVIOUS
  <2>1. row \in Seq(Values)
    BY TidyValues
  <2>2. line \in Seq(Tokens \ {"NL"})
    BY <2>1, TidyLine
  <2> HIDE DEF line, count, end, r, k, added, n
  <2> QED
    BY <1>3, <2>2
<1> HIDE DEF added, line, end, first, p, q, r, m, n, k, count
<1>13. Len(r) = k + 1 /\ r[k + 1] = <<>> /\ k \in Nat /\ k > 0 /\ r \in Seq(Text)
  BY <1>3, <1>4, <1>8
<1>14. ASSUME Exactly(f, t)
       PROVE  Carries(g, u) /\ Exactly(g, u)
  <2>1. Len(p) = m + 4 /\ p[m + 4] = <<>>
    BY <1>2, <1>14 DEF Exactly, p, m
  <2>2. /\ Len(q) = m + k + 4 /\ q[m + k + 4] = <<>>
        /\ \A i \in 1 .. m + 3 : q[i] = p[i]
        /\ q[m + 4] = r[1]
    <3> DEFINE l == Len(p)
               lr == Len(r)
    <3>1. /\ Len(q) = l + lr - 1 /\ \A i \in 1 .. l - 1 : q[i] = p[i]
          /\ q[l] = p[l] \o r[1] /\ \A i \in 2 .. lr : q[l + i - 1] = r[i]
      BY <1>7 DEF Joined
    <3>2. l = m + 4 /\ lr = k + 1
      BY <1>13, <2>1
    <3> HIDE DEF l, lr
    <3>3. Len(q) = m + k + 4
      BY <1>9, <1>13, <3>1, <3>2
    <3>4. <<>> \o r[1] = r[1]
      <4>1. 1 \in 1 .. Len(r)
        BY <1>13
      <4>2. r[1] \in Text
        BY <1>13, <4>1
      <4> QED
        BY <4>2 DEF Text
    <3>5. q[m + 4] = r[1]
      BY <2>1, <3>1, <3>2, <3>4
    <3>6. q[m + k + 4] = <<>>
      <4>1. k + 1 \in 2 .. lr /\ l + (k + 1) - 1 = m + k + 4
        BY <1>9, <1>13, <3>2
      <4>2. q[l + (k + 1) - 1] = r[k + 1]
        BY <3>1, <4>1
      <4> QED
        BY <1>13, <4>1, <4>2
    <3>7. l - 1 = m + 3
      BY <1>9, <3>2
    <3>8. \A i \in 1 .. m + 3 : q[i] = p[i]
      BY <3>1, <3>7
    <3> QED
      BY <3>3, <3>5, <3>6, <3>8
  <2>3. HeadKept(q, u.types)
    <3>1. q[1] = p[1] /\ q[2] = p[2] /\ q[3] = p[3]
      <4>1. 1 \in 1 .. m + 3 /\ 2 \in 1 .. m + 3 /\ 3 \in 1 .. m + 3
        BY <1>9
      <4> QED
        BY <2>2, <4>1
    <3>2. HeadKept(p, t.types)
      BY <1>2 DEF Carries, p
    <3> QED
      BY <1>10, <3>1, <3>2, SameHead
  <2>4. ASSUME NEW i \in 1 .. m + k
        PROVE  SameRow(RowAt(q, i, n), u.rows[i])
    <3>1. CASE i > m
      <4>1. i - m \in 1 .. k /\ m + (i - m) = i
        BY <1>9, <1>13, <3>1
      <4>2. u.rows[i] = added[i - m]
        BY <1>11, <4>1
      <4>3. CASE Tidy(row, n)
        <5>1. k = 1 /\ added[1] = row
          BY <1>4, <4>3
        <5>2. i - m = 1 /\ i + 3 = m + 4
          BY <1>9, <4>1, <5>1
        <5>3. u.rows[i] = row /\ q[i + 3] = line
          BY <1>12, <2>2, <4>2, <4>3, <5>1, <5>2
        <5>4. row \in Seq(Values)
          BY <4>3, TidyValues
        <5>5. SameRow(LoadedRow(UpToZero(line), n), row)
          BY <1>9, <4>3, <5>4, TidyRowReadBack DEF line
        <5> QED
          BY <5>3, <5>5 DEF RowAt
      <4>4. CASE ~Tidy(row, n)
        <5>1. u.rows[i] = Whatever
          BY <1>4, <1>8, <4>1, <4>2, <4>4
        <5> QED
          BY <5>1 DEF SameRow
      <4> QED
        BY <4>3, <4>4
    <3>2. CASE ~ (i > m)
      <4>1. i \in 1 .. m /\ i + 3 \in 1 .. m + 3
        BY <1>9, <3>2
      <4>2. u.rows[i] = t.rows[i] /\ q[i + 3] = p[i + 3]
        BY <1>11, <2>2, <4>1
      <4>3. RowsKept(p, t.rows, n)
        BY <1>2 DEF Carries, p, n
      <4>4. SameRow(RowAt(p, i, n), t.rows[i])
        BY <4>1, <4>3 DEF RowsKept, m
      <4> QED
        BY <4>2, <4>4 DEF RowAt
    <3> QED
      BY <3>1, <3>2
  <2>5. RowsKept(q, u.rows, Len(u.types))
    BY <1>10, <1>11, <2>4 DEF RowsKept, n
  <2>6. Len(q) >= 3 /\ Len(q) # 3 /\ Len(q) > 3 + (m + k) /\ Len(q) = (m + k) + 4
    BY <1>9, <1>13, <2>2
  <2>7. Len(u.rows) = m + k /\ q[(m + k) + 4] = <<>>
    BY <1>11, <2>2
  <2> QED
    BY <2>3, <2>5, <2>6, <2>7 DEF Carries, Exactly, q
<1> QED
  BY <1>6, <1>14
-----------------------------------------------------------------------------
(* UPDATE and DELETE                                                       *)

\* A row that comes back as it was written.
CleanRow(row, n) ==
    /\ row \in Seq(Seq(Letters) \ {<<>>}) /\ Len(row) = n
    /\ row[1] \in Seq(Letters \ {"SP"})

Clean(v) ==
    /\ v.types \in Seq(Letters) /\ Len(v.types) \in DOMAIN Counts
    /\ v.rows \in Seq(Seq(Seq(Letters)))
    /\ \A i \in 1 .. Len(v.rows) : CleanRow(v.rows[i], Len(v.types))

\* The table v, of a file, has what there should be of the table t.
Stands(v, t) ==
    /\ Len(v.types) = Len(t.types)
    /\ \A j \in 1 .. Len(t.types) :
          (j < Len(t.types) \/ Len(t.types) < Ten) => v.types[j] = t.types[j]
    /\ Len(v.rows) >= Len(t.rows)
    /\ \A i \in 1 .. Len(t.rows) : SameRow(v.rows[i], t.rows[i])

LEMMA CleanRowReadBack ==
    ASSUME NEW n \in Nat, n > 0, NEW row, CleanRow(row, n)
    PROVE  LoadedRow(UpToZero(Ended(row, "TAB")), n) = row
<1> DEFINE w == row[1]
           loaded == LoadedRow(UpToZero(Ended(row, "TAB")), Len(row))
<1>1. row \in Seq(Seq(Letters) \ {<<>>}) /\ Len(row) = n /\ w \in Seq(Letters \ {"SP"})
  BY DEF CleanRow
<1>2. row # <<>>
  BY <1>1
<1>3. w # <<>>
  <2>1. 1 \in 1 .. n
    OBVIOUS
  <2>2. w \in Seq(Letters) \ {<<>>}
    BY <1>1, <2>1
  <2> QED
    BY <2>2
<1>4. FirstIs(row, w)
  BY DEF FirstIs
<1>5. "TAB" \notin Letters /\ "ZERO" \notin Letters
  BY DEF Letters
<1>6. row[1] = w
  OBVIOUS
<1>7. loaded = LoadedRow(UpToZero(Ended(row, "TAB")), n)
  BY <1>1
<1>8. row \in Seq(Seq(Letters) \ {<<>>}) /\ w \in Seq(Letters \ {"SP"})
  BY <1>1
<1>9. loaded = LoadedRow(UpToZero(Ended(row, "TAB")), Len(row))
  OBVIOUS
<1> HIDE DEF loaded, w
<1>10. ReadAs(loaded, w, row)
  BY <1>2, <1>3, <1>4, <1>5, <1>8, <1>9, RowReadBack
<1> QED
  BY <1>6, <1>7, <1>10 DEF ReadAs

\* What is written carries what is in it.
LEMMA WrittenCarries ==
    ASSUME NEW v, Clean(v), NEW t, Kept(t), Stands(v, t)
    PROVE  /\ Carries(TableText(v), t)
           /\ Len(v.rows) = Len(t.rows) => Exactly(TableText(v), t)
<1> DEFINE q == Pieces(TableText(v))
           n == Len(t.types)
           m == Len(t.rows)
           k == Len(v.rows)
           titles == Titles(v.types)
<1>1. /\ v.types \in Seq(Letters) /\ Len(v.types) \in DOMAIN Counts
      /\ v.rows \in Seq(Seq(Seq(Letters))) /\ k \in Nat
      /\ \A i \in 1 .. k : CleanRow(v.rows[i], n)
  BY DEF Clean, Stands
<1>2. n \in Nat /\ n > 0 /\ m \in Nat
  BY KeptParts
<1>3. /\ Len(q) = k + 4 /\ q[k + 4] = <<>>
      /\ q[1] = <<"name">> /\ q[2] = Digits(Len(v.types))
      /\ q[3] = Ended(Titles(v.types), "TAB")
      /\ \A i \in 1 .. k : q[i + 3] = Ended(v.rows[i], "TAB")
  <2>1. q = SplitAt(TableText(v), "NL")
    BY DEF Pieces
  <2> HIDE DEF q
  <2> QED
    BY <1>1, <2>1, LettersArePlain, TablePieces
<1>4. Len(v.types) = n /\ k >= m
  BY DEF Stands
<1>5. titles \in Seq(Seq(Letters) \ {<<>>}) /\ Len(titles) = n /\ \A j \in 1 .. n : titles[j] = <<v.types[j], ".">>
  BY <1>1, <1>4, LettersArePlain, TitlesType
<1>6. NonEmpty(SplitAt(UpToZero(Ended(titles, "TAB")), "TAB")) = titles
  BY <1>1, LettersArePlain, TitlesComeBack
<1> HIDE DEF q, titles
<1>7. Columns(q) = titles
  BY <1>3, <1>6 DEF Columns, titles
<1>8. HeadKept(q, t.types)
  <2>1. ASSUME NEW j \in 1 .. n, j < n \/ n < Ten
        PROVE  Columns(q)[j] = <<t.types[j], ".">>
    <3>1. v.types[j] = t.types[j]
      BY <2>1 DEF Stands
    <3> QED
      BY <1>5, <1>7, <3>1
  <2> QED
    BY <1>3, <1>4, <1>5, <1>7, <2>1 DEF HeadKept
<1> HIDE DEF n, m, k
<1>9. ASSUME NEW i \in 1 .. m
      PROVE  SameRow(RowAt(q, i, n), t.rows[i])
  <2>1. i \in 1 .. k
    BY <1>1, <1>2, <1>4
  <2>2. RowAt(q, i, n) = v.rows[i]
    BY <1>1, <1>2, <1>3, <2>1, CleanRowReadBack DEF RowAt
  <2>3. SameRow(v.rows[i], t.rows[i])
    BY DEF Stands, m
  <2> QED
    BY <2>2, <2>3
<1>10. RowsKept(q, t.rows, n)
  BY <1>9 DEF RowsKept, m
<1>11. /\ Len(q) >= 3 /\ Len(q) # 3 /\ Len(q) > 3 + m
       /\ k = m => Len(q) = m + 4 /\ q[m + 4] = <<>>
  BY <1>1, <1>2, <1>3, <1>4
<1> QED
  BY <1>8, <1>10, <1>11 DEF Carries, Exactly, q, n, m, k

\* What loadTable finds in a file that carries a table is clean.
LEMMA LoadedStands ==
    ASSUME NEW f \in Text, NEW t, Kept(t), Carries(f, t), NEW v, v = LoadTable(f)
    PROVE  /\ Clean(v) /\ Stands(v, t)
           /\ Exactly(f, t) => Len(v.rows) = Len(t.rows)
           /\ v = [types |-> v.types, rows |-> v.rows]
<1> DEFINE lines == Lines(f)
           found == ColumnPieces(f)
           n == Len(t.types)
           S == Tokens \ {"NL", "ZERO"}
           kinds == [j \in DOMAIN found |->
                        IF Len(found[j]) = 2 THEN found[j][1] ELSE CutOff(found[j][1])]
           rows == [i \in 1 .. Len(lines) - 3 |->
                        LoadedRow(UpToZero(lines[i + 3]), Len(found))]
<1>1. /\ Usable(f) /\ Len(v.types) = n
      /\ \A j \in 1 .. n : (j < n \/ n < Ten) => v.types[j] = t.types[j]
      /\ Len(v.rows) >= Len(t.rows)
      /\ Exactly(f, t) => Len(v.rows) = Len(t.rows)
      /\ \A i \in 1 .. Len(t.rows) : SameRow(v.rows[i], t.rows[i])
  BY CarriedIsLoaded
<1>2. Stands(v, t)
  BY <1>1 DEF Stands
<1>3. n \in Nat /\ n > 0 /\ n \in DOMAIN Counts
  BY KeptParts
<1>4. v = [types |-> kinds, rows |-> rows]
  BY DEF LoadTable
<1>5. lines \in Seq(Seq(Tokens \ {"NL"})) /\ Len(lines) \in Nat
  <2> DEFINE p == Pieces(f)
  <2>1. p \in Seq(Seq(Tokens \ {"NL"})) /\ p # <<>>
    BY PiecesParts
  <2>2. lines = IF Last(p) = <<>> THEN Front(p) ELSE p
    BY DEF Lines, Pieces
  <2> HIDE DEF p
  <2>3. Front(p) \in Seq(Seq(Tokens \ {"NL"}))
    BY <2>1, Shorter
  <2> QED
    BY <2>1, <2>2, <2>3
<1>6. Len(lines) >= 3
  BY <1>1 DEF Usable
<1> HIDE DEF lines
<1>7. ASSUME NEW i \in 1 .. Len(lines)
      PROVE  UpToZero(lines[i]) \in Seq(S)
  <2>1. lines[i] \in Seq(Tokens \ {"NL"})
    BY <1>5
  <2>2. UpToZero(lines[i]) \in Seq((Tokens \ {"NL"}) \ {"ZERO"})
    BY <2>1, UpToZeroType
  <2>3. (Tokens \ {"NL"}) \ {"ZERO"} = S
    OBVIOUS
  <2> QED
    BY <2>2, <2>3
<1>8. S \ {"TAB"} = Letters /\ "unset" \in S /\ S \ {"SP", "TAB"} = Letters \ {"SP"}
  BY DEF Letters, Tokens
<1>9. found \in Seq(Seq(Letters) \ {<<>>})
  <2> DEFINE line == UpToZero(lines[3])
             cut == SplitAt(line, "TAB")
  <2>1. line \in Seq(S)
    BY <1>5, <1>6, <1>7
  <2>2. found = NonEmpty(cut)
    BY DEF ColumnPieces, Line, lines
  <2> HIDE DEF line, S
  <2>3. cut \in Seq(Seq(Letters))
    BY <1>8, <2>1, SplitType DEF Some
  <2> HIDE DEF cut
  <2>4. NonEmpty(cut) \in Seq(Seq(Letters) \ {<<>>})
    BY <2>3, NonEmptyOnly
  <2> QED
    BY <2>2, <2>4
<1> HIDE DEF found, S
<1>10. v.types = kinds /\ v.rows = rows
  BY <1>4
<1>11. DOMAIN found = 1 .. Len(found) /\ Len(found) \in Nat /\ Len(kinds) = Len(found)
  BY <1>9
<1>12. Len(found) = n
  BY <1>1, <1>10, <1>11
<1>13. kinds \in Seq(Letters)
  <2>1. ASSUME NEW j \in 1 .. n
        PROVE  kinds[j] \in Letters
    <3>1. kinds[j] = IF Len(found[j]) = 2 THEN found[j][1] ELSE CutOff(found[j][1])
      BY <1>11, <1>12
    <3>2. found[j] \in Seq(Letters)
      BY <1>9, <1>12
    <3> HIDE DEF kinds
    <3>3. CASE Len(found[j]) = 2
      <4>1. found[j][1] \in Letters
        BY <3>2, <3>3
      <4> QED
        BY <3>1, <3>3, <4>1
    <3>4. CASE Len(found[j]) # 2
      BY <3>1, <3>4 DEF CutOff, Letters, Tokens
    <3> QED
      BY <3>3, <3>4
  <2>2. kinds = [j \in 1 .. n |-> kinds[j]]
    BY <1>11, <1>12
  <2> HIDE DEF kinds
  <2>3. kinds \in [1 .. n -> Letters]
    BY <2>1, <2>2
  <2> QED
    BY <1>3, <2>3, IsSequence
<1>14. ASSUME NEW i \in 1 .. Len(lines) - 3
       PROVE  CleanRow(rows[i], n) /\ rows[i] \in Seq(Seq(Letters))
  <2> DEFINE line == UpToZero(lines[i + 3])
             row == LoadedRow(line, n)
  <2>1. i + 3 \in 1 .. Len(lines)
    BY <1>5, <1>6
  <2>2. line \in Seq(S)
    BY <1>7, <2>1
  <2>3. rows[i] = row
    BY <1>12
  <2> HIDE DEF line
  <2>4. row \in Seq(Seq(S \ {"TAB"}) \ {<<>>}) /\ Len(row) = n /\ row[1] \in Seq(S \ {"SP", "TAB"})
    BY <1>3, <1>8, <2>2, LoadedRowType
  <2> HIDE DEF row, rows
  <2>5. CleanRow(row, n)
    BY <1>8, <2>4 DEF CleanRow
  <2>6. row \in Seq(Seq(Letters))
    <3>1. Seq(Letters) \ {<<>>} \subseteq Seq(Letters)
      OBVIOUS
    <3> QED
      BY <1>8, <2>4, <3>1, SeqMonotonic
  <2> QED
    BY <2>3, <2>5, <2>6
<1>15. rows \in Seq(Seq(Seq(Letters))) /\ Len(rows) = Len(lines) - 3
  <2>1. Len(lines) - 3 \in Nat
    BY <1>5, <1>6
  <2>2. rows = [i \in 1 .. Len(lines) - 3 |-> rows[i]]
    OBVIOUS
  <2> HIDE DEF rows
  <2>3. rows \in [1 .. Len(lines) - 3 -> Seq(Seq(Letters))]
    BY <1>14, <2>2
  <2> QED
    BY <2>1, <2>3, IsSequence
<1> HIDE DEF kinds, rows
<1>16. Clean(v)
  BY <1>1, <1>3, <1>10, <1>13, <1>14, <1>15 DEF Clean
<1> QED
  BY <1>1, <1>2, <1>4, <1>10, <1>16

CleanRows(p, n) == \A i \in 1 .. Len(p) : CleanRow(p[i], n)

SameRows(p, r) == Len(r) <= Len(p) /\ \A i \in 1 .. Len(r) : SameRow(p[i], r[i])

\* v, of a file, stands for t.
StandsFor(v, t) == Clean(v) /\ v = [types |-> v.types, rows |-> v.rows] /\ Kept(t) /\ Stands(v, t)

WithRows(t, rows) == [t EXCEPT !.rows = rows]

\* Both with other rows.
LEMMA OtherRows ==
    ASSUME NEW v, NEW t, StandsFor(v, t),
           NEW p \in Seq(Seq(Seq(Letters))), CleanRows(p, Len(v.types)),
           NEW r \in Seq(Seq(Values)), KeptRows(r, Len(t.types)), SameRows(p, r)
    PROVE  /\ StandsFor(WithRows(v, p), WithRows(t, r))
           /\ WithRows(v, p).rows = p
           /\ WithRows(t, r).rows = r /\ WithRows(t, r).types = t.types
<1> DEFINE w == WithRows(v, p)
           u == WithRows(t, r)
<1>1. t = [types |-> t.types, rows |-> t.rows] /\ t.types \in Seq(KnownTypes)
  BY KeptParts DEF Kept, StandsFor
<1>2. u = [types |-> t.types, rows |-> r]
  BY <1>1 DEF WithRows
<1>3. w = [types |-> v.types, rows |-> p]
  <2> DEFINE kinds == v.types
             rows == v.rows
  <2>1. v = [types |-> kinds, rows |-> rows]
    BY DEF StandsFor
  <2> HIDE DEF kinds, rows
  <2>2. [v EXCEPT !.rows = p] = [types |-> kinds, rows |-> p]
    BY <2>1
  <2> QED
    BY <2>2 DEF WithRows, kinds
<1> HIDE DEF u, w
<1>4. u.types = t.types /\ u.rows = r /\ w.types = v.types /\ w.rows = p
  BY <1>2, <1>3
<1>5. u \in [types : Seq(KnownTypes), rows : Seq(Seq(Values))]
  <2>1. [types |-> t.types, rows |-> r] \in [types : Seq(KnownTypes), rows : Seq(Seq(Values))]
    BY <1>1
  <2> QED
    BY <1>2, <2>1, Zenon
<1>6. Kept(u)
  BY <1>4, <1>5 DEF StandsFor, Kept, KeptRows
<1>7. Clean(w)
  BY <1>4 DEF StandsFor, Clean, CleanRows
<1>8. Stands(w, u)
  BY <1>4 DEF StandsFor, Stands, SameRows
<1>9. w = [types |-> w.types, rows |-> w.rows]
  BY <1>3, <1>4
<1> QED
  BY <1>4, <1>6, <1>7, <1>8, <1>9 DEF StandsFor, u, w

\* DELETE takes the same rows from both.
LEMMA WithoutStands ==
    ASSUME NEW v, NEW t, StandsFor(v, t), NEW chosen,
           NEW w, w = Without(v, chosen), NEW u, u = Without(t, chosen)
    PROVE  /\ StandsFor(w, u) /\ u.types = t.types
           /\ Len(v.rows) = Len(t.rows) => Len(w.rows) = Len(u.rows)
<1>0. Clean(v) /\ Kept(t) /\ Stands(v, t)
  BY DEF StandsFor
<1> DEFINE p == Picked(v.rows, DOMAIN v.rows \ chosen)
           r == Picked(t.rows, DOMAIN t.rows \ chosen)
<1>1. /\ v.rows \in Seq(Seq(Seq(Letters)))
      /\ \A i \in 1 .. Len(v.rows) : CleanRow(v.rows[i], Len(v.types))
      /\ Len(v.rows) \in Nat
  BY <1>0 DEF Clean
<1>2. /\ t.rows \in Seq(Seq(Values)) /\ Len(t.rows) <= Len(v.rows)
      /\ \A i \in 1 .. Len(t.rows) : SameRow(v.rows[i], t.rows[i])
      /\ \A i \in 1 .. Len(t.rows) : t.rows[i] = Whatever \/ Tidy(t.rows[i], Len(t.types))
      /\ Len(t.rows) \in Nat
  BY <1>0, KeptParts DEF Stands, Kept
<1>3. p \in Seq(Seq(Seq(Letters))) /\ r \in Seq(Seq(Values))
  BY <1>1, <1>2, PickedType
<1>4. /\ Alike(p, r, v.rows, t.rows)
      /\ Len(v.rows) = Len(t.rows) => Len(p) = Len(r)
  <2>1. Paired(p, r, v.rows, t.rows)
    BY <1>1, <1>2, PickedAlike
  <2> HIDE DEF p, r
  <2> QED
    BY <2>1 DEF Paired
<1>5. Alike(p, p, v.rows, v.rows)
  <2>1. Len(v.rows) <= Len(v.rows)
    BY <1>1
  <2> QED
    BY <1>1, <2>1, PickedAlike DEF Paired
<1>6. w = WithRows(v, p) /\ u = WithRows(t, r)
  BY DEF Without, WithRows
<1> HIDE DEF p, r
<1>7. CleanRows(p, Len(v.types))
  BY <1>1, <1>5 DEF Alike, CleanRows
<1>8. SameRows(p, r)
  BY <1>2, <1>4 DEF Alike, SameRows
<1>9. KeptRows(r, Len(t.types))
  BY <1>2, <1>4 DEF Alike, KeptRows
<1>10. /\ StandsFor(w, u)
       /\ w.rows = p /\ u.rows = r /\ u.types = t.types
  BY <1>3, <1>6, <1>7, <1>8, <1>9, OtherRows
<1> QED
  BY <1>4, <1>10

\* What UPDATE makes of a row, and of every row.
Set(row, column, value) == [row EXCEPT ![column] = value]

SetIn(rows, chosen, column, value) ==
    [i \in DOMAIN rows |->
        IF i \in chosen /\ column \in DOMAIN rows[i] THEN Set(rows[i], column, value) ELSE rows[i]]

SetIs(new, row, column, value, V) ==
    /\ new \in Seq(V) /\ Len(new) = Len(row)
    /\ \A j \in 1 .. Len(row) : new[j] = IF j = column THEN value ELSE row[j]

LEMMA SetType ==
    ASSUME NEW V, NEW row \in Seq(V), NEW column \in DOMAIN row, NEW value \in V
    PROVE  SetIs(Set(row, column, value), row, column, value, V)
<1>1. Set(row, column, value) = [j \in 1 .. Len(row) |-> IF j = column THEN value ELSE row[j]]
  BY DEF Set
<1>2. [j \in 1 .. Len(row) |-> IF j = column THEN value ELSE row[j]] \in [1 .. Len(row) -> V]
  OBVIOUS
<1>3. Set(row, column, value) \in [1 .. Len(row) -> V] /\ Len(row) \in Nat
  BY <1>1, <1>2
<1> QED
  BY <1>1, <1>3, IsSequence DEF SetIs

LEMMA SetInType ==
    ASSUME NEW V, NEW rows \in Seq(Seq(V)), NEW value \in V, NEW chosen, NEW column
    PROVE  SetIn(rows, chosen, column, value) \in Seq(Seq(V)) /\ Len(SetIn(rows, chosen, column, value)) = Len(rows)
<1>1. DOMAIN rows = 1 .. Len(rows) /\ Len(rows) \in Nat /\ \A i \in 1 .. Len(rows) : rows[i] \in Seq(V)
  OBVIOUS
<1>2. ASSUME NEW i \in 1 .. Len(rows)
      PROVE  (IF i \in chosen /\ column \in DOMAIN rows[i] THEN Set(rows[i], column, value) ELSE rows[i])
                \in Seq(V)
  <2> DEFINE row == rows[i]
  <2>1. row \in Seq(V)
    BY <1>1
  <2> HIDE DEF row
  <2>2. ASSUME column \in DOMAIN row
        PROVE  Set(row, column, value) \in Seq(V)
    <3>1. SetIs(Set(row, column, value), row, column, value, V)
      BY <2>1, <2>2, SetType
    <3> QED
      BY <3>1 DEF SetIs
  <2> QED
    BY <2>1, <2>2 DEF row
<1>3. SetIn(rows, chosen, column, value) \in [1 .. Len(rows) -> Seq(V)]
  BY <1>1, <1>2 DEF SetIn
<1> QED
  BY <1>1, <1>3, IsSequence

\* What UPDATE can set and keep.
Settable(value) ==
    /\ value \in Values /\ value \in Seq(Letters) \ {<<>>}
    /\ value \in Seq(Letters \ {"SP"})
    /\ Keepable(value) /\ "SP" \notin ToSet(value)

LEMMA NewValueLetters ==
    ASSUME NEW value \in NewValues, Keepable(value)
    PROVE  Settable(value)
<1>1. value \in Seq(Words) /\ "SP" \notin ToSet(value)
  BY NewValuesType
<1>2. value \in Values
  BY <1>1, KeepableValue
<1>3. value \in Seq(Letters) \ {<<>>}
  BY <1>2, WordsAreLetters
<1>4. value \in Seq(Letters \ {"SP"})
  BY <1>1, <1>3, WithoutSpace
<1> QED
  BY <1>1, <1>2, <1>3, <1>4 DEF Settable

LEMMA SetCleanRow ==
    ASSUME NEW n \in Nat, n > 0, NEW row, CleanRow(row, n), NEW column \in 1 .. n,
           NEW value, Settable(value)
    PROVE  CleanRow(Set(row, column, value), n)
<1>1. /\ row \in Seq(Seq(Letters) \ {<<>>}) /\ Len(row) = n /\ row[1] \in Seq(Letters \ {"SP"})
  BY DEF CleanRow
<1>2. column \in DOMAIN row /\ 1 \in 1 .. n
  BY <1>1
<1>3. /\ Set(row, column, value) \in Seq(Seq(Letters) \ {<<>>}) /\ Len(Set(row, column, value)) = Len(row)
      /\ \A j \in 1 .. Len(row) : Set(row, column, value)[j] = IF j = column THEN value ELSE row[j]
  <2> DEFINE V == Seq(Letters) \ {<<>>}
  <2>1. value \in V /\ row \in Seq(V)
    BY <1>1 DEF Settable
  <2> HIDE DEF V
  <2>2. SetIs(Set(row, column, value), row, column, value, V)
    BY <1>2, <2>1, SetType
  <2> QED
    BY <2>2 DEF V, SetIs
<1>4. Set(row, column, value)[1] \in Seq(Letters \ {"SP"})
  BY <1>1, <1>2, <1>3 DEF Settable
<1> QED
  BY <1>1, <1>3, <1>4 DEF CleanRow

LEMMA SetTidy ==
    ASSUME NEW n \in Nat, n > 0, NEW row \in Seq(Values), Tidy(row, n), NEW column \in 1 .. n,
           NEW value, Settable(value)
    PROVE  Tidy(Set(row, column, value), n)
<1>1. /\ Len(row) = n /\ "SP" \notin ToSet(row[1]) /\ column \in DOMAIN row /\ 1 \in 1 .. n
      /\ \A j \in 1 .. n : Keepable(row[j])
  BY DEF Tidy
<1>2. /\ Set(row, column, value) \in Seq(Values) /\ Len(Set(row, column, value)) = n
      /\ \A j \in 1 .. n : Set(row, column, value)[j] = IF j = column THEN value ELSE row[j]
  <2>1. value \in Values
    BY DEF Settable
  <2>2. SetIs(Set(row, column, value), row, column, value, Values)
    BY <1>1, <2>1, SetType
  <2> QED
    BY <1>1, <2>2 DEF SetIs
<1>3. "SP" \notin ToSet(value) /\ Keepable(value)
  BY DEF Settable
<1> DEFINE new == Set(row, column, value)
<1>4. "SP" \notin ToSet(new[1])
  <2> HIDE DEF new
  <2>1. new[1] = value \/ new[1] = row[1]
    BY <1>1, <1>2 DEF new
  <2> QED
    BY <1>1, <1>3, <2>1
<1>5. DOMAIN new = 1 .. n
  BY <1>2
<1> HIDE DEF new
<1>6. \A j \in 1 .. n : Keepable(new[j])
  <2>1. ASSUME NEW j \in 1 .. n
        PROVE  new[j] = value \/ new[j] = row[j]
    BY <1>2 DEF new
  <2> QED
    BY <1>1, <1>3, <2>1
<1>7. Len(new) = n
  BY <1>2 DEF new
<1> QED
  BY <1>4, <1>5, <1>6, <1>7 DEF Tidy, new

LEMMA SetSameRow ==
    ASSUME NEW n \in Nat, n > 0, NEW row \in Seq(Values), Tidy(row, n),
           NEW loaded, CleanRow(loaded, n), SameRow(loaded, row), NEW column \in 1 .. n,
           NEW value, Settable(value)
    PROVE  SameRow(Set(loaded, column, value), Set(row, column, value))
<1>1. /\ Len(row) = n /\ column \in DOMAIN row /\ row # Whatever /\ DOMAIN row = 1 .. n
  BY DEF Tidy, Whatever
<1>2. /\ loaded \in Seq(Seq(Letters) \ {<<>>}) /\ Len(loaded) = n /\ column \in DOMAIN loaded
  BY DEF CleanRow
<1>3. /\ Len(Set(row, column, value)) = n /\ Set(row, column, value) \in Seq(Values)
      /\ \A j \in 1 .. n : Set(row, column, value)[j] = IF j = column THEN value ELSE row[j]
  <2>1. value \in Values
    BY DEF Settable
  <2>2. SetIs(Set(row, column, value), row, column, value, Values)
    BY <1>1, <2>1, SetType
  <2> QED
    BY <1>1, <2>2 DEF SetIs
<1>4. \A j \in 1 .. n : Set(loaded, column, value)[j] = IF j = column THEN value ELSE loaded[j]
  <2> DEFINE V == Seq(Letters) \ {<<>>}
  <2>1. value \in V /\ loaded \in Seq(V)
    BY <1>2 DEF Settable
  <2> HIDE DEF V
  <2>2. SetIs(Set(loaded, column, value), loaded, column, value, V)
    BY <1>2, <2>1, SetType
  <2> QED
    BY <1>2, <2>2 DEF SetIs
<1>5. DOMAIN Set(row, column, value) = 1 .. n
  BY <1>3
<1>6. ASSUME NEW j \in 1 .. n
      PROVE  SameValue(Set(loaded, column, value)[j], Set(row, column, value)[j], j \notin {1, n})
  <2>1. CASE j = column
    BY <1>3, <1>4, <2>1 DEF SameValue
  <2>2. CASE j # column
    <3>1. SameValue(loaded[j], row[j], j \notin {1, n})
      BY <1>1 DEF SameRow
    <3> QED
      BY <1>3, <1>4, <2>2, <3>1
  <2> QED
    BY <2>1, <2>2
<1> QED
  BY <1>3, <1>5, <1>6 DEF SameRow

\* UPDATE sets a column in the same rows of both.
LEMMA WithStands ==
    ASSUME NEW v, NEW t, StandsFor(v, t), NEW chosen, NEW column \in DOMAIN v.types,
           NEW value, Settable(value),
           NEW w, w = With(v, chosen, column, value), NEW u, u = With(t, chosen, column, value)
    PROVE  /\ StandsFor(w, u) /\ u.types = t.types
           /\ Len(v.rows) = Len(t.rows) => Len(w.rows) = Len(u.rows)
<1>0. Clean(v) /\ Kept(t) /\ Stands(v, t)
  BY DEF StandsFor
<1> DEFINE p == SetIn(v.rows, chosen, column, value)
           r == SetIn(t.rows, chosen, column, value)
           n == Len(t.types)
<1>1. /\ v.rows \in Seq(Seq(Seq(Letters))) /\ Len(v.rows) \in Nat
      /\ \A i \in 1 .. Len(v.rows) : CleanRow(v.rows[i], n)
      /\ DOMAIN v.rows = 1 .. Len(v.rows)
  BY <1>0 DEF Clean, Stands
<1>2. /\ t.rows \in Seq(Seq(Values)) /\ Len(t.rows) <= Len(v.rows) /\ Len(t.rows) \in Nat
      /\ \A i \in 1 .. Len(t.rows) : SameRow(v.rows[i], t.rows[i])
      /\ \A i \in 1 .. Len(t.rows) : t.rows[i] = Whatever \/ Tidy(t.rows[i], n)
      /\ DOMAIN t.rows = 1 .. Len(t.rows)
      /\ \A i \in 1 .. Len(t.rows) : t.rows[i] \in Seq(Values)
  BY <1>0, KeptParts DEF Stands, Kept
<1>3. n \in Nat /\ n > 0 /\ Len(v.types) = n /\ column \in 1 .. n
  BY <1>0, KeptParts DEF Clean, Stands
<1>4. p \in Seq(Seq(Seq(Letters))) /\ Len(p) = Len(v.rows)
  BY <1>1, SetInType DEF Settable
<1>5. r \in Seq(Seq(Values)) /\ Len(r) = Len(t.rows)
  BY <1>2, SetInType DEF Settable
<1>6. w = WithRows(v, p) /\ u = WithRows(t, r)
  BY DEF With, WithRows, SetIn, Set
<1> HIDE DEF n
<1>7. ASSUME NEW i \in 1 .. Len(v.rows)
      PROVE  /\ column \in DOMAIN v.rows[i]
             /\ p[i] = IF i \in chosen THEN Set(v.rows[i], column, value) ELSE v.rows[i]
  <2>1. v.rows[i] \in Seq(Seq(Letters) \ {<<>>}) /\ Len(v.rows[i]) = n
    BY <1>1 DEF CleanRow
  <2>2. column \in DOMAIN v.rows[i]
    BY <1>3, <2>1
  <2> QED
    BY <1>1, <2>2 DEF SetIn
<1>8. ASSUME NEW i \in 1 .. Len(t.rows)
      PROVE  r[i] = IF i \in chosen /\ column \in DOMAIN t.rows[i]
                    THEN Set(t.rows[i], column, value) ELSE t.rows[i]
  BY <1>2 DEF SetIn
<1> HIDE DEF p, r
<1>9. ASSUME NEW i \in 1 .. Len(p)
      PROVE  CleanRow(p[i], Len(v.types))
  BY <1>1, <1>3, <1>4, <1>7, SetCleanRow
<1>10. ASSUME NEW i \in 1 .. Len(r)
       PROVE  /\ r[i] = Whatever \/ Tidy(r[i], n)
              /\ SameRow(p[i], r[i])
  <2>1. i \in 1 .. Len(t.rows) /\ i \in 1 .. Len(v.rows)
    BY <1>1, <1>2, <1>5
  <2>2. CASE t.rows[i] = Whatever
    <3>1. column \notin DOMAIN t.rows[i]
      BY <1>3, <2>2 DEF Whatever
    <3>2. r[i] = Whatever
      BY <1>8, <2>1, <2>2, <3>1
    <3> QED
      BY <3>2 DEF SameRow
  <2>3. CASE Tidy(t.rows[i], n)
    <3>1. column \in DOMAIN t.rows[i] /\ t.rows[i] \in Seq(Values)
      BY <1>2, <1>3, <2>1, <2>3 DEF Tidy
    <3>2. CleanRow(v.rows[i], n) /\ SameRow(v.rows[i], t.rows[i])
      BY <1>1, <1>2, <2>1
    <3>3. CASE i \in chosen
      <4>1. r[i] = Set(t.rows[i], column, value) /\ p[i] = Set(v.rows[i], column, value)
        BY <1>7, <1>8, <2>1, <3>1, <3>3
      <4> QED
        BY <1>3, <2>3, <3>1, <3>2, <4>1, SetTidy, SetSameRow
    <3>4. CASE i \notin chosen
      <4>1. r[i] = t.rows[i] /\ p[i] = v.rows[i]
        BY <1>7, <1>8, <2>1, <3>4
      <4> QED
        BY <2>3, <3>2, <4>1
    <3> QED
      BY <3>3, <3>4
  <2> QED
    BY <1>2, <2>1, <2>2, <2>3
<1>11. Len(r) <= Len(p)
  BY <1>2, <1>4, <1>5
<1>12. /\ StandsFor(w, u)
       /\ w.rows = p /\ u.rows = r /\ u.types = t.types
  <2>1. KeptRows(r, Len(t.types)) /\ SameRows(p, r) /\ CleanRows(p, Len(v.types))
    BY <1>9, <1>10, <1>11 DEF n, KeptRows, SameRows, CleanRows
  <2> QED
    BY <1>4, <1>5, <1>6, <2>1, OtherRows
<1> QED
  BY <1>4, <1>5, <1>12

LEMMA TypesAreKnown ==
    ASSUME NEW S, NEW s \in Seq(S), ToSet(s) \subseteq KnownTypes
    PROVE  s \in Seq(KnownTypes)
<1>1. \A i \in 1 .. Len(s) : s[i] \in KnownTypes
  BY DEF ToSet
<1>2. s \in [1 .. Len(s) -> KnownTypes] /\ Len(s) \in Nat
  BY <1>1
<1> QED
  BY <1>2, IsSequence

\* A file a repository comes with carries the table loadTable makes of it.
LEMMA ShippedCarries ==
    ASSUME NEW f \in Shipped, NEW t, t = LoadTable(f)
    PROVE  Kept(t) /\ Carries(f, t) /\ Exactly(f, t)
<1> DEFINE p == Pieces(f)
           lines == Lines(f)
           found == ColumnPieces(f)
           n == Len(t.types)
           kinds == [j \in DOMAIN found |->
                        IF Len(found[j]) = 2 THEN found[j][1] ELSE CutOff(found[j][1])]
           rows == [i \in 1 .. Len(lines) - 3 |->
                        LoadedRow(UpToZero(lines[i + 3]), Len(found))]
           S == Words \cup KnownTypes \cup ToSet(Counts)
                \cup {"name", "digit", ".", "SP", "TAB", "NL"}
           empty == <<>>
<1>1. WellShipped(f)
  BY StorageAssumption DEF StorageAssumption
<1>2. f \in Seq(S) /\ Usable(f) /\ Last(f) = "NL"
  BY <1>1 DEF WellShipped
<1>3. /\ Creatable(t.types) /\ n \in DOMAIN Counts
      /\ \A j \in DOMAIN t.types : found[j] = <<t.types[j], ".">>
      /\ t.rows \in Seq(Seq(Values))
      /\ \A i \in DOMAIN t.rows : Tidy(t.rows[i], n)
  BY <1>1, Zenon DEF WellShipped
<1>4. f \in Text
  BY ShippedType
<1>5. t \in Tables /\ Len(lines) >= 3
  BY <1>2, <1>4, LoadType
<1>6. t = [types |-> kinds, rows |-> rows]
  BY DEF LoadTable
<1>7. found \in Seq(Text) /\ lines \in Seq(Text) /\ Len(lines) \in Nat
  <2>1. lines \in Seq(Text) /\ Len(lines) \in Nat
    BY <1>4, LinesType
  <2>2. UpToZero(lines[3]) \in Text
    <3>1. lines[3] \in Text
      BY <1>5, <2>1
    <3> QED
      BY <3>1, UpToZeroText
  <2> QED
    BY <2>1, <2>2, NonEmptyText DEF ColumnPieces, Line
<1>8. "ZERO" \notin S
  <2>1. \A i \in DOMAIN Counts : Counts[i] # "ZERO"
    BY DEF Counts
  <2> HIDE DEF Counts
  <2>2. "ZERO" \notin ToSet(Counts)
    BY <2>1 DEF ToSet
  <2>3. "ZERO" \notin Words /\ "ZERO" \notin KnownTypes
    BY StorageAssumption DEF StorageAssumption, KnownTypes
  <2> QED
    BY <2>2, <2>3
<1>9. p \in Seq(Text) /\ Len(p) \in Nat /\ Len(p) > 0 /\ p # <<>>
  BY <1>4, PiecesParts
<1>10. p \in Seq(Seq(S))
  BY <1>2, SplitType DEF Pieces, Some
<1> HIDE DEF S
<1>11. LinesAre(lines, p)
  BY <1>4, LinesOfPieces
<1>12. p[Len(p)] = <<>>
  <2> DEFINE front == Front(f)
             pieces == SplitAt(front, "NL")
  <2>1. f # <<>>
    <3> SUFFICES ASSUME f = <<>> PROVE FALSE
      OBVIOUS
    <3> DEFINE one == <<empty>>
    <3>1. p = one
      BY SplitNone DEF Pieces
    <3>2. Len(one) = 1 /\ one[1] = empty
      OBVIOUS
    <3> HIDE DEF one, p, lines
    <3>3. Len(p) = 1 /\ p[Len(p)] = empty
      BY <3>1, <3>2
    <3>4. Len(lines) = Len(p) - 1
      BY <1>11, <3>3 DEF LinesAre
    <3> QED
      BY <1>5, <3>3, <3>4
  <2>2. front \in Seq(Tokens) /\ f = Append(front, "NL") /\ "NL" \in Tokens
    <3>1. Front(f) \in Seq(Tokens) /\ Last(f) \in Tokens /\ f = Append(Front(f), Last(f))
      BY <1>4, <2>1, Shorter DEF Text
    <3> QED
      BY <1>2, <3>1
  <2> HIDE DEF front
  <2>3. f = front \o <<"NL">>
    BY <2>2
  <2>4. SplitAt(front \o <<"NL">>, "NL") = Append(pieces, empty)
    BY <2>2, SplitEnd
  <2>5. pieces \in Seq(Text)
    <3>1. pieces \in Some(Tokens)
      BY <2>2, SplitType
    <3> QED
      BY <3>1 DEF Some, Text
  <2>6. p = Append(pieces, empty)
    BY <2>3, <2>4 DEF Pieces
  <2>7. \A q \in Seq(Text), x \in Text : Append(q, x)[Len(Append(q, x))] = x
    OBVIOUS
  <2>8. empty \in Text
    BY DEF Text
  <2> HIDE DEF p, pieces, empty
  <2>9. p[Len(p)] = empty
    BY <2>5, <2>6, <2>7, <2>8
  <2> QED
    BY <2>9 DEF empty
<1> HIDE DEF p, lines, found
<1>13. Len(lines) = Len(p) - 1 /\ \A i \in 1 .. Len(p) - 1 : lines[i] = p[i]
  BY <1>11, <1>12 DEF LinesAre
<1> DEFINE l == Len(p)
<1> HIDE DEF l
<1>14. l \in Nat /\ l >= 4 /\ Len(lines) = l - 1
  BY <1>5, <1>9, <1>13 DEF l
<1>15. \A i \in 1 .. l - 1 : lines[i] = p[i]
  BY <1>13 DEF l
<1>16. lines[1] = p[1] /\ lines[2] = p[2] /\ lines[3] = p[3]
  <2>1. 1 \in 1 .. l - 1 /\ 2 \in 1 .. l - 1 /\ 3 \in 1 .. l - 1
    BY <1>14
  <2> QED
    BY <1>15, <2>1
<1>17. UpToZero(p[1]) = p[1] /\ UpToZero(p[2]) = p[2]
  <2>1. 1 \in 1 .. Len(p) /\ 2 \in 1 .. Len(p)
    BY <1>14 DEF l
  <2>2. p[1] \in Seq(S) /\ p[2] \in Seq(S)
    BY <1>10, <2>1
  <2> QED
    BY <1>8, <2>2, UpToZeroType
<1>18. t.types = kinds /\ t.rows = rows
  BY <1>6
<1>19. Len(found) = n
  <2>1. DOMAIN found = 1 .. Len(found) /\ Len(found) \in Nat
    BY <1>7
  <2>2. Len(kinds) = Len(found)
    BY <2>1
  <2> QED
    BY <1>18, <2>2
<1> HIDE DEF kinds
<1>20. t \in [types : Text, rows : Seq(Seq(Text))]
  BY <1>5 DEF Tables
<1>21. t.types \in Seq(KnownTypes)
  BY <1>3, <1>20, TypesAreKnown DEF Creatable, Text
<1>22. t.rows \in Seq(Seq(Values)) /\ DOMAIN t.rows = 1 .. Len(t.rows) /\ Len(t.rows) \in Nat
  BY <1>3
<1>23. DOMAIN t.types = 1 .. n /\ n \in Nat
  BY <1>21
<1> HIDE DEF n
<1>24. Kept(t)
  <2>1. t \in [types : Seq(KnownTypes), rows : Seq(Seq(Values))]
    <3>1. t = [types |-> t.types, rows |-> t.rows]
      BY <1>20
    <3>2. [types |-> t.types, rows |-> t.rows] \in [types : Seq(KnownTypes), rows : Seq(Seq(Values))]
      BY <1>21, <1>22
    <3> QED
      BY <3>1, <3>2, Zenon
  <2> QED
    BY <1>3, <1>22, <2>1 DEF Kept, n
<1>25. HeadKept(p, t.types)
  <2>1. Columns(p) = found
    BY <1>16 DEF Columns, ColumnPieces, Line, lines, found
  <2>2. p[1] = <<"name">> /\ p[2] = Digits(Len(found))
    BY <1>2, <1>16, <1>17 DEF Usable, Line, lines, found
  <2> QED
    BY <1>3, <1>19, <1>23, <2>1, <2>2 DEF HeadKept, n
<1>26. l - 4 \in Nat /\ Len(lines) - 3 = l - 4
  BY <1>14
<1>27. Len(t.rows) = l - 4
  <2>1. DOMAIN rows = 1 .. Len(lines) - 3
    OBVIOUS
  <2>2. Len(rows) = Len(lines) - 3
    BY <1>26
  <2> QED
    BY <1>18, <1>26, <2>2
<1>28. ASSUME NEW i \in 1 .. Len(t.rows)
       PROVE  SameRow(RowAt(p, i, n), t.rows[i])
  <2>1. i \in 1 .. Len(lines) - 3 /\ i + 3 \in 1 .. l - 1
    BY <1>14, <1>26, <1>27
  <2>2. t.rows[i] = LoadedRow(UpToZero(lines[i + 3]), Len(found))
    BY <1>18, <2>1
  <2>3. lines[i + 3] = p[i + 3]
    BY <1>15, <2>1
  <2>4. t.rows[i] = RowAt(p, i, n)
    BY <1>19, <2>2, <2>3 DEF RowAt
  <2> QED
    BY <2>4 DEF SameRow, SameValue
<1> HIDE DEF rows
<1>29. RowsKept(p, t.rows, n)
  BY <1>28 DEF RowsKept
<1> DEFINE m == Len(t.rows)
<1> HIDE DEF m
<1>30. m = l - 4
  BY <1>27 DEF m
<1>31. l >= 3 /\ l # 3 /\ l > 3 + m /\ l = m + 4
  BY <1>14, <1>30
<1>32. p[m + 4] = <<>>
  BY <1>12, <1>31 DEF l
<1>33. Carries(f, t)
  BY <1>25, <1>29, <1>31 DEF Carries, n, m, l, p
<1>34. Exactly(f, t)
  BY <1>31, <1>32 DEF Exactly, m, l, p
<1> QED
  BY <1>24, <1>33, <1>34

\* The types CREATE sets.
LEMMA CreatableSchema ==
    ASSUME NEW s \in Schemas, Creatable(s)
    PROVE  /\ s \in Seq(KnownTypes) /\ Len(s) \in DOMAIN Counts
           /\ \A g \in Garbage : TypesSet(s, g) = s
<1>1. s \in Seq(Words \cup KnownTypes) /\ s \in Countable
  BY SchemasType
<1>2. s \in Seq(KnownTypes)
  BY <1>1, TypesAreKnown DEF Creatable
<1>3. Len(s) # 0
  BY <1>1 DEF Creatable
<1>4. Len(s) \in DOMAIN Counts
  <2> HIDE DEF Counts
  <2> QED
    BY <1>1, <1>3 DEF Countable
<1>5. ASSUME NEW g \in Garbage
      PROVE  TypesSet(s, g) = s
  BY <1>2 DEF TypesSet
<1> QED
  BY <1>2, <1>4, <1>5

\* A table just created: a head, and no rows.
LEMMA CreatedCarries ==
    ASSUME NEW s \in Schemas, Creatable(s), NEW t, t = [types |-> s, rows |-> <<>>]
    PROVE  /\ Kept(t) /\ Carries(CreatedText(s), t) /\ Exactly(CreatedText(s), t)
<1> DEFINE p == Pieces(CreatedText(s))
<1>1. s \in Seq(KnownTypes) /\ s \in Seq(Letters) /\ Len(s) \in DOMAIN Counts
  BY CreatableSchema, WordsAreLetters
<1>2. t.types = s /\ t.rows = <<>> /\ Len(t.rows) = 0
  OBVIOUS
<1>3. Kept(t)
  <2>1. <<>> \in Seq(Seq(Values))
    OBVIOUS
  <2>2. t \in [types : Seq(KnownTypes), rows : Seq(Seq(Values))]
    BY <1>1, <2>1
  <2> QED
    BY <1>1, <1>2, <2>2 DEF Kept
<1>4. /\ Len(p) = 3 /\ p[1] = <<"name">> /\ p[2] = Digits(Len(s))
      /\ Len(Columns(p)) = Len(s)
      /\ \A j \in 1 .. Len(s) : (j < Len(s) \/ Len(s) < Ten) => Columns(p)[j] = <<s[j], ".">>
  <2> DEFINE columns == NonEmpty(SplitAt(UpToZero(p[3]), "TAB"))
  <2>1. p = SplitAt(CreatedText(s), "NL")
    BY DEF Pieces
  <2> HIDE DEF p
  <2>2. Columns(p) = columns
    BY DEF Columns
  <2>3. HeadOnly(p, columns, s)
    BY <1>1, <2>1, LettersArePlain, CreatedPieces
  <2>4. \A j \in 1 .. Len(s) : Titles(s)[j] = <<s[j], ".">>
    BY <1>1, LettersArePlain, TitlesType
  <2> QED
    BY <2>2, <2>3, <2>4 DEF HeadOnly
<1> HIDE DEF p
<1>5. HeadKept(p, s)
  BY <1>4 DEF HeadKept
<1>6. RowsKept(p, t.rows, Len(t.types))
  BY <1>2 DEF RowsKept
<1>7. Len(p) >= 3 /\ ~ (Len(p) > 3)
  BY <1>4
<1> QED
  BY <1>2, <1>3, <1>5, <1>6, <1>7 DEF Carries, Exactly, p

\* The blocks of a text are as many as it takes, and no more.
LEMMA EnoughBlocks ==
    ASSUME NEW b \in Nat \ {0}, NEW l \in Nat, NEW n, n = (l + b - 1) \div b
    PROVE  /\ n \in Nat /\ n * b \in Nat /\ l <= n * b
           /\ \A k \in 0 .. n : k * b \in Nat /\ (k + 1) * b = k * b + b
           /\ \A k \in 0 .. n : k < n => k * b <= l
<1>1. n \in Nat
  OBVIOUS
<1> DEFINE m == n * b
<1>2. m \in Nat /\ m <= l + b - 1 /\ l + b - 1 < m + b
  OBVIOUS
<1>3. ASSUME NEW k \in 0 .. n
      PROVE  k * b \in Nat /\ (k + 1) * b = k * b + b
  OBVIOUS
<1>4. ASSUME NEW k \in 0 .. n, k < n
      PROVE  k * b <= l
  <2> DEFINE d == n - (k + 1)
             j == k * b
             e == d * b
  <2>1. d \in Nat
    BY <1>1, <1>4
  <2>2. e \in Nat
    BY <2>1
  <2>3. m = e + (k + 1) * b
    <3>1. n = d + (k + 1)
      BY <1>1, <1>4
    <3> HIDE DEF d
    <3> QED
      BY <2>1, <3>1
  <2>4. j \in Nat /\ (k + 1) * b = j + b
    BY <1>3
  <2> HIDE DEF d, j, e, m
  <2>5. m = e + (j + b)
    BY <2>3, <2>4
  <2>6. j <= l
    BY <1>2, <2>2, <2>4, <2>5
  <2> QED
    BY <2>6 DEF j
<1> HIDE DEF m
<1>5. l <= m
  BY <1>2
<1> QED
  BY <1>1, <1>2, <1>3, <1>4, <1>5 DEF m

\* What stdio writes, block by block, is what it was given.
LEMMA BlocksWhole ==
    ASSUME NEW text \in Text
    PROVE  FlattenSeq(Blocks(text)) = text
<1> DEFINE l == Len(text)
           n == (l + Block - 1) \div Block
           q == Blocks(text)
           reach(k) == Min({k * Block, l})
<1>1. Block \in Nat \ {0} /\ l \in Nat
  BY StorageAssumption DEF Text
<1>2. /\ n \in Nat /\ n * Block \in Nat /\ l <= n * Block
      /\ \A k \in 0 .. n : k * Block \in Nat /\ (k + 1) * Block = k * Block + Block
      /\ \A k \in 0 .. n : k < n => k * Block <= l
  <2> HIDE DEF l
  <2> QED
    BY <1>1, EnoughBlocks
<1>3. q \in Seq(Text)
  BY BlocksType
<1>4. Len(q) = n /\ \A i \in 1 .. n : q[i] = SubSeq(text, (i - 1) * Block + 1, reach(i))
  <2>1. q = [i \in 1 .. n |-> SubSeq(text, (i - 1) * Block + 1, reach(i))]
    BY DEF Blocks
  <2> HIDE DEF q, n, reach
  <2>2. DOMAIN q = 1 .. n /\ DOMAIN q = 1 .. Len(q) /\ Len(q) \in Nat
    BY <1>3, <2>1
  <2>3. Len(q) = n
    <3> DEFINE m == Len(q)
    <3>1. 1 .. n = 1 .. m /\ m \in Nat /\ n \in Nat
      BY <1>2, <2>2
    <3> HIDE DEF m
    <3>2. \A i \in Nat \ {0} : i <= n <=> i <= m
      BY <3>1
    <3>3. m = n
      BY <3>1, <3>2
    <3> QED
      BY <3>3 DEF m
  <2> QED
    BY <2>1, <2>3
<1>5. PICK f : Flattens(f, q, Tokens) /\ FlattenSeq(q) = f[Len(q)]
  <2> HIDE DEF q
  <2> QED
    BY <1>3, FlattenRuns DEF Text
<1> HIDE DEF q, n, l
<1>6. f[0] = <<>> /\ \A k \in 0 .. n : k < n => f[k + 1] = f[k] \o q[k + 1]
  BY <1>4, <1>5 DEF Flattens
<1>7. ASSUME NEW k \in Nat, k * Block \in Nat
      PROVE  reach(k) = IF k * Block <= l THEN k * Block ELSE l
  BY <1>1, <1>7, MinOfTwo
<1> HIDE DEF reach
<1> DEFINE Good == {k \in 0 .. n : f[k] = SubSeq(text, 1, reach(k))}
<1>8. 0 \in Good
  <2>1. 0 * Block = 0 /\ 0 \in 0 .. n /\ 0 \in Nat /\ 0 \in Int
    BY <1>1, <1>2
  <2>2. reach(0) = 0
    BY <1>1, <1>7, <2>1
  <2>3. SubSeq(text, 1, 0) = <<>>
    BY DEF Text
  <2> QED
    BY <1>6, <2>1, <2>2, <2>3
<1>9. ASSUME NEW k \in 0 .. n, k \in Good, k < n
      PROVE  k + 1 \in Good
  <2> DEFINE a == k * Block
             b == reach(k + 1)
  <2>1. /\ k \in Nat /\ k + 1 \in 0 .. n /\ k + 1 \in 1 .. n /\ (k + 1) - 1 = k
        /\ a \in Nat /\ (k + 1) * Block = a + Block /\ a <= l
    BY <1>2, <1>9
  <2>2. reach(k) = a
    BY <1>7, <2>1
  <2>3. b = IF a + Block <= l THEN a + Block ELSE l
    <3>1. (k + 1) * Block \in Nat /\ k + 1 \in Nat
      BY <1>1, <2>1
    <3> QED
      BY <1>7, <2>1, <3>1
  <2>4. q[k + 1] = SubSeq(text, a + 1, b)
    BY <1>4, <2>1
  <2>5. f[k + 1] = SubSeq(text, 1, a) \o SubSeq(text, a + 1, b)
    BY <1>6, <1>9, <2>2, <2>4
  <2> HIDE DEF a, b
  <2>6. a \in 0 .. l /\ b \in a .. l
    BY <1>1, <2>1, <2>3
  <2>7. SubSeq(text, 1, a) \o SubSeq(text, a + 1, b) = SubSeq(text, 1, b)
    BY <2>6, CutsJoin DEF l
  <2> QED
    BY <2>1, <2>5, <2>7 DEF b
<1>10. n \in Good
  <2> HIDE DEF Good
  <2>1. \A k \in 0 .. n : k \in Good
    BY <1>2, <1>8, <1>9, Stepwise
  <2> QED
    BY <1>2, <2>1
<1>11. reach(n) = l
  BY <1>1, <1>2, <1>7
<1>12. SubSeq(text, 1, l) = text
  BY DEF Text, l
<1> QED
  BY <1>4, <1>5, <1>10, <1>11, <1>12 DEF q
-----------------------------------------------------------------------------
(* What the file carries, and what is still to be written to it.           *)

Whole == file \o FlattenSeq(todo)

Unlisted ==
    table = NoTable /\ pending = table /\ op = "idle" /\ damage = "none" /\ ~ listed

\* Once everything is written the file carries the table the command asks for, and
\* nothing else unless a crash cut an INSERT short.  An INSERT under way never takes
\* anything back from the file; it ends the header before it adds to it.
Carried ==
    /\ Kept(table) /\ Kept(pending) /\ pending.types = table.types
    /\ Carries(Whole, pending)
    /\ damage = "none" => Exactly(Whole, pending)
    /\ op = "append" => /\ Carries(file, table)
                        /\ Len(Pieces(file)) = 3 => todo[1] = <<"NL">>
    /\ op = "idle" => pending = table

\* The types salveazaTabel gets are those asked for, if they can be.
Created ==
    \E s \in Schemas : pending = [types |-> s, rows |-> <<>>] /\ (Creatable(s) => types = s)

TableInv ==
    /\ op \in Creating => Created
    /\ op = "scribble" => damage = "all"
    /\ (damage # "all" /\ op \notin Creating) => Unlisted \/ Carried

LEMMA IdleWhole ==
    ASSUME TypeInv, op \in Creating \cup {"idle"}
    PROVE  todo = <<>> /\ Whole = file
<1>1. todo = <<>>
  BY DEF TypeInv, Control, Busy
<1>2. file \o FlattenSeq(<<>>) = file
  BY FlattenNone DEF TypeInv, Texts, Text
<1> QED
  BY <1>1, <1>2 DEF Whole

LEMMA WholeIsText ==
    ASSUME TypeInv
    PROVE  Whole \in Text /\ file \in Text /\ todo \in Seq(Text)
<1>1. file \in Text /\ todo \in Seq(Text)
  BY DEF TypeInv, Texts
<1>2. FlattenSeq(todo) \in Text
  BY <1>1, FlattenType DEF Text
<1> QED
  BY <1>1, <1>2 DEF Whole, Text

\* The server is idle, and the file is what the last command left.
LEMMA IdleCarried ==
    ASSUME TypeInv, TableInv, op = "idle", damage # "all", listed \/ table # NoTable
    PROVE  /\ Carried /\ pending = table /\ Whole = file /\ file \in Text
           /\ Kept(table) /\ Carries(file, table)
           /\ damage = "none" => Exactly(file, table)
<1>1. Whole = file /\ file \in Text
  BY IdleWhole, WholeIsText
<1>2. Carried
  BY DEF TableInv, Unlisted, Creating
<1> QED
  BY <1>1, <1>2 DEF Carried

LEMMA Untouched ==
    ASSUME TableInv, UNCHANGED <<file, listed, op, types, todo, pending, table, damage>>
    PROVE  TableInv'
  BY DEF TableInv, Created, Unlisted, Carried, Whole

\* An idle server that has given the table up.
LEMMA GivenUp ==
    ASSUME op' \notin Creating, damage' = "all"
    PROVE  TableInv'
  BY DEF TableInv

LEMMA InitTable == Init => TableInv
<1> SUFFICES ASSUME Init PROVE TableInv
  OBVIOUS
<1>1. TypeInv /\ op = "idle" /\ damage = "none" /\ pending = table /\ op \notin Creating
  BY InitTypes DEF Init, Creating
<1>2. Whole = file
  BY <1>1, IdleWhole
<1>3. ASSUME Kept(table), Carries(file, table), Exactly(file, table)
      PROVE  Carried
  BY <1>1, <1>2, <1>3 DEF Carried
<1>4. CASE table = NoTable /\ listed = FALSE
  BY <1>1, <1>4 DEF Unlisted, TableInv
<1>5. CASE file \in Shipped /\ table = LoadTable(file)
  <2>1. Kept(table) /\ Carries(file, table) /\ Exactly(file, table)
    BY <1>5, ShippedCarries
  <2> QED
    BY <1>1, <1>3, <2>1 DEF TableInv
<1>6. ASSUME NEW s \in Schemas, Creatable(s),
             table = [types |-> s, rows |-> <<>>], file = CreatedText(s)
      PROVE  TableInv
  <2>1. Kept(table) /\ Carries(file, table) /\ Exactly(file, table)
    BY <1>6, CreatedCarries
  <2> QED
    BY <1>1, <1>3, <2>1 DEF TableInv
<1> QED
  BY <1>4, <1>5, <1>6 DEF Init
-----------------------------------------------------------------------------
(* The commands                                                            *)

LEMMA StartCreateTable ==
    ASSUME NEW s \in Schemas, StartCreate(s)
    PROVE  TableInv'
<1>1. /\ op' \in Creating /\ op' # "scribble" /\ pending' = [types |-> s, rows |-> <<>>]
      /\ \E g \in Garbage : types' = TypesSet(s, g)
  BY DEF StartCreate, Creating
<1>2. Creatable(s) => types' = s
  BY <1>1, CreatableSchema
<1>3. Created'
  BY <1>1, <1>2 DEF Created
<1> QED
  BY <1>1, <1>3 DEF TableInv

LEMMA FirstAppended ==
    ASSUME NEW f \in Text, NEW row \in Seq(Text), Len(Pieces(f)) = 3
    PROVE  AppendedPieces(f, row)[1] = <<"NL">>
<1> DEFINE nl == <<"NL">>
           first == <<nl>>
<1>1. NewLines(f) = Len(Pieces(f)) - 1
  BY NewLinesCount DEF Text, Pieces
<1>2. NewLines(f) = 2
  BY <1>1
<1>3. Guess(f) = first
  BY <1>2 DEF Guess
<1>4. PICK middle \in Seq(Text) : AppendedPieces(f, row) = Guess(f) \o middle \o first
  BY PiecesToAppend
<1>5. nl \in Text
  BY DEF Text, Tokens
<1> HIDE DEF nl
<1>6. \A s \in Seq(Text) : (first \o s \o first)[1] = nl
  BY <1>5
<1> QED
  BY <1>3, <1>4, <1>6 DEF nl

LEMMA InsertTable ==
    ASSUME TypeInv, TableInv, NEW row \in Rows, Insert(row)
    PROVE  TableInv'
<1> DEFINE u == WithRow(table, row)
           g == AfterInsert(file, row)
<1>1. /\ op = "idle" /\ op' = "append" /\ op' \notin Creating /\ file # <<>> /\ file' = file
      /\ todo' = AppendedPieces(file, row) /\ table' = table /\ damage' = damage
      /\ pending' = IF damage # "none" THEN table ELSE u
      /\ op' # "scribble"
  BY DEF Insert, Ready, Creating, WithRow
<1>2. CASE damage = "all"
  BY <1>1, <1>2 DEF TableInv
<1>3. CASE damage # "all"
  <2>1. listed
    BY <1>1 DEF TypeInv, Control, Bounded
  <2>2. /\ Kept(table) /\ Carries(file, table) /\ file \in Text
        /\ damage = "none" => Exactly(file, table)
    BY <1>1, <1>3, <2>1, IdleCarried
  <2>3. row \in Seq(Seq(Words)) /\ row \in Seq(Text)
    BY StorageAssumption, ValuesAreTexts DEF StorageAssumption
  <2>4. Whole' = g
    BY <1>1 DEF Whole, AfterInsert
  <2>5. Len(Pieces(file)) = 3 => todo'[1] = <<"NL">>
    BY <1>1, <2>2, <2>3, FirstAppended
  <2> HIDE DEF u, g
  <2>6. Carries(g, table) /\ (Exactly(file, table) => Carries(g, u) /\ Exactly(g, u))
    BY <2>2, <2>3, InsertCarries DEF u, g
  <2>7. Kept(u) /\ u.types = table.types
    BY <2>2, <2>3, KeptWithRow DEF u
  <2>8. CASE damage = "none"
    <3>1. pending' = u /\ Carries(g, u) /\ Exactly(g, u)
      BY <1>1, <2>2, <2>6, <2>8
    <3>2. Carried'
      BY <1>1, <2>2, <2>4, <2>5, <2>7, <3>1 DEF Carried
    <3> QED
      BY <1>1, <3>2 DEF TableInv
  <2>9. CASE damage # "none"
    <3>1. Carried'
      BY <1>1, <2>2, <2>4, <2>5, <2>6, <2>9 DEF Carried
    <3> QED
      BY <1>1, <3>1 DEF TableInv
  <2> QED
    BY <2>8, <2>9
<1> QED
  BY <1>2, <1>3

\* UPDATE and DELETE, of a text that carries what they ask for.
LEMMA RewriteTable ==
    ASSUME TypeInv, TableInv, Ready, listed, NEW text \in Text, NEW asked,
           StartRewrite(text, asked),
           damage # "all" => /\ Kept(asked) /\ asked.types = table.types
                             /\ Carries(text, asked)
                             /\ damage = "none" => Exactly(text, asked)
    PROVE  TableInv'
<1>1. /\ op = "idle" /\ op' = "rewrite" /\ op' \notin Creating /\ op' # "scribble" /\ file' = <<>>
      /\ todo' = Blocks(text) /\ table' = table /\ damage' = damage /\ pending' = asked
  BY DEF StartRewrite, Ready, Creating
<1>2. Whole' = text
  <2>1. <<>> \o text = text
    BY DEF Text
  <2> QED
    BY <1>1, <2>1, BlocksWhole DEF Whole
<1>3. CASE damage = "all"
  BY <1>1, <1>3 DEF TableInv
<1>4. CASE damage # "all"
  <2>1. Kept(table)
    BY <1>1, <1>4, IdleCarried
  <2>2. Carried'
    BY <1>1, <1>2, <1>4, <2>1 DEF Carried
  <2> QED
    BY <1>1, <2>2 DEF TableInv
<1> QED
  BY <1>3, <1>4

\* What UPDATE and DELETE load.
LEMMA LoadedFound ==
    ASSUME TypeInv, TableInv, op = "idle", listed, damage # "all"
    PROVE  /\ StandsFor(LoadTable(file), table)
           /\ damage = "none" => Len(LoadTable(file).rows) = Len(table.rows)
<1> DEFINE v == LoadTable(file)
<1>1. /\ Kept(table) /\ Carries(file, table) /\ file \in Text
      /\ damage = "none" => Exactly(file, table)
  BY IdleCarried
<1>2. /\ Clean(v) /\ Stands(v, table)
      /\ Exactly(file, table) => Len(v.rows) = Len(table.rows)
      /\ v = [types |-> v.types, rows |-> v.rows]
  <2> HIDE DEF v
  <2> QED
    BY <1>1, LoadedStands DEF v
<1> QED
  BY <1>1, <1>2 DEF StandsFor

LEMMA ScribbledTable ==
    ASSUME NEW text, StartScribble(text)
    PROVE  TableInv'
<1>1. op' \notin Creating /\ damage' = "all"
  BY DEF StartScribble, Creating
<1> QED
  BY <1>1, GivenUp

LEMMA DeleteTable ==
    ASSUME TypeInv, TableInv, Delete
    PROVE  TableInv'
<1> DEFINE v == LoadTable(file)
<1>1. Ready /\ listed /\ Usable(file) /\ op = "idle" /\ file \in Text
  BY DEF Delete, Ready, TypeInv, Texts
<1>2. PICK chosen \in SUBSET DOMAIN v.rows :
         \/ StartRewrite(TableText(Without(v, chosen)), Without(table, chosen))
         \/ StartScribble(TableText(Without(v, chosen)))
  BY DEF Delete
<1> DEFINE w == Without(v, chosen)
           u == Without(table, chosen)
<1>3. CASE StartScribble(TableText(w))
  BY <1>3, ScribbledTable
<1>4. CASE StartRewrite(TableText(w), u)
  <2>1. TableText(w) \in Text
    BY <1>1, LoadType, ChangedTables, TableTextType
  <2>2. damage # "all" =>
           /\ Kept(u) /\ u.types = table.types
           /\ Carries(TableText(w), u)
           /\ damage = "none" => Exactly(TableText(w), u)
    <3> SUFFICES ASSUME damage # "all"
                 PROVE  /\ Kept(u) /\ u.types = table.types
                        /\ Carries(TableText(w), u)
                        /\ damage = "none" => Exactly(TableText(w), u)
      OBVIOUS
    <3>1. StandsFor(v, table) /\ (damage = "none" => Len(v.rows) = Len(table.rows))
      BY <1>1, LoadedFound
    <3> HIDE DEF v
    <3>2. /\ StandsFor(w, u) /\ u.types = table.types
          /\ Len(v.rows) = Len(table.rows) => Len(w.rows) = Len(u.rows)
      BY <3>1, WithoutStands
    <3> HIDE DEF w, u
    <3> QED
      BY <3>1, <3>2, WrittenCarries DEF StandsFor
  <2> HIDE DEF v
  <2> QED
    BY <1>1, <1>4, <2>1, <2>2, RewriteTable
<1> QED
  BY <1>2, <1>3, <1>4

LEMMA UpdateTable ==
    ASSUME TypeInv, TableInv, Update
    PROVE  TableInv'
<1> DEFINE v == LoadTable(file)
<1>1. Ready /\ listed /\ Usable(file) /\ op = "idle" /\ file \in Text
  BY DEF Update, Ready, TypeInv, Texts
<1>2. PICK chosen \in SUBSET DOMAIN v.rows, column \in DOMAIN v.types, value \in NewValues :
         \/ Keepable(value) /\ StartRewrite(TableText(With(v, chosen, column, value)), With(table, chosen, column, value))
         \/ StartScribble(TableText(With(v, chosen, column, value)))
  BY DEF Update
<1> DEFINE w == With(v, chosen, column, value)
           u == With(table, chosen, column, value)
<1>3. CASE StartScribble(TableText(w))
  BY <1>3, ScribbledTable
<1>4. CASE Keepable(value) /\ StartRewrite(TableText(w), u)
  <2>1. TableText(w) \in Text
    BY NewValuesType, <1>1, LoadType, ChangedTables, TableTextType
  <2>2. damage # "all" =>
           /\ Kept(u) /\ u.types = table.types
           /\ Carries(TableText(w), u)
           /\ damage = "none" => Exactly(TableText(w), u)
    <3> SUFFICES ASSUME damage # "all"
                 PROVE  /\ Kept(u) /\ u.types = table.types
                        /\ Carries(TableText(w), u)
                        /\ damage = "none" => Exactly(TableText(w), u)
      OBVIOUS
    <3>1. StandsFor(v, table) /\ (damage = "none" => Len(v.rows) = Len(table.rows))
      BY <1>1, LoadedFound
    <3> HIDE DEF v
    <3>2. /\ StandsFor(w, u) /\ u.types = table.types
          /\ Len(v.rows) = Len(table.rows) => Len(w.rows) = Len(u.rows)
      BY <1>4, <3>1, NewValueLetters, WithStands
    <3> HIDE DEF w, u
    <3> QED
      BY <3>1, <3>2, WrittenCarries DEF StandsFor
  <2> HIDE DEF v
  <2> QED
    BY <1>1, <1>4, <2>1, <2>2, RewriteTable
<1> QED
  BY <1>2, <1>3, <1>4

LEMMA CommandTable ==
    ASSUME TypeInv, TableInv, Command
    PROVE  TableInv'
<1>1. CASE \E s \in Schemas : StartCreate(s)
  BY <1>1, StartCreateTable
<1>2. CASE \E row \in Rows : Insert(row)
  BY <1>2, InsertTable
<1>3. CASE Update
  BY <1>3, UpdateTable
<1>4. CASE Delete
  BY <1>4, DeleteTable
<1>5. CASE Scribble
  BY <1>5, ScribbledTable DEF Scribble
<1>6. CASE Fails
  BY <1>6, Untouched DEF Fails
<1> QED
  BY <1>1, <1>2, <1>3, <1>4, <1>5, <1>6 DEF Command
-----------------------------------------------------------------------------
(* Their work                                                              *)

LEMMA FillTable ==
    ASSUME TypeInv, TableInv, FillFile
    PROVE  TableInv'
<1>1. /\ op = "fill" /\ op \in Creating /\ op' = "idle" /\ op' \notin Creating
      /\ file' = CreatedText(types) /\ table' = pending /\ pending' = pending
      /\ damage' = (IF Creatable(pending.types) THEN "none" ELSE "all") /\ todo' = todo
  BY DEF FillFile, Creating
<1>2. PICK s \in Schemas : pending = [types |-> s, rows |-> <<>>] /\ (Creatable(s) => types = s)
  BY <1>1 DEF TableInv, Created
<1>3. pending.types = s
  BY <1>2
<1>4. CASE ~Creatable(s)
  BY <1>1, <1>3, <1>4, GivenUp
<1>5. CASE Creatable(s)
  <2>1. types = s /\ damage' = "none"
    BY <1>1, <1>2, <1>3, <1>5
  <2>2. Kept(pending) /\ Carries(CreatedText(types), pending) /\ Exactly(CreatedText(types), pending)
    BY <1>2, <1>5, <2>1, CreatedCarries
  <2>3. Whole' = CreatedText(types)
    <3>1. todo = <<>>
      BY <1>1, IdleWhole
    <3>2. CreatedText(types) \in Text
      BY <2>1, SchemasType, CreatedType
    <3>3. CreatedText(types) \o <<>> = CreatedText(types)
      BY <3>2 DEF Text
    <3> QED
      BY <1>1, <3>1, <3>3, FlattenNone DEF Whole
  <2>4. Carried'
    BY <1>1, <2>1, <2>2, <2>3 DEF Carried
  <2> QED
    BY <1>1, <2>4 DEF TableInv
<1> QED
  BY <1>4, <1>5

\* What is written of the rest is in the file instead.
LEMMA WholeStays ==
    ASSUME TypeInv, WritePiece
    PROVE  /\ Whole' = Whole /\ todo[1] \in Text
           /\ Len(todo) = 1 => todo' = <<>>
<1> DEFINE x == todo[1]
           rest == Tail(todo)
           last == FlattenSeq(rest)
<1>1. file \in Text /\ todo \in Seq(Text) /\ todo # <<>>
  BY WholeIsText DEF WritePiece
<1>2. x \in Text /\ rest \in Seq(Text) /\ FlattenSeq(todo) = x \o last
  BY <1>1, FlattenNext DEF Text
<1>3. last \in Text
  BY <1>2, FlattenType DEF Text
<1>4. Whole' = (file \o x) \o last
  BY DEF WritePiece, Whole
<1> HIDE DEF last
<1>5. (file \o x) \o last = file \o (x \o last)
  <2> HIDE DEF x
  <2> QED
    BY <1>1, <1>2, <1>3, TextsJoin
<1>6. Len(todo) = 1 => rest = <<>>
  <2> SUFFICES ASSUME Len(todo) = 1
               PROVE  rest = <<>>
    OBVIOUS
  <2>1. Len(rest) = 0
    BY <1>1
  <2> HIDE DEF rest
  <2> QED
    BY <1>2, <2>1
<1> QED
  BY <1>2, <1>4, <1>5, <1>6 DEF Whole, WritePiece

LEMMA WriteTable ==
    ASSUME TypeInv, TableInv, WritePiece
    PROVE  TableInv'
<1> DEFINE x == todo[1]
<1>1. /\ op \in {"append", "rewrite"} /\ op' \in {op, "idle"} /\ op' \notin Creating
      /\ op' # "scribble"
      /\ op # "idle" /\ op \notin Creating
      /\ file' = file \o x /\ pending' = pending /\ damage' = damage
      /\ IF Len(todo) = 1 THEN op' = "idle" /\ table' = pending ELSE op' = op /\ table' = table
  BY DEF TypeInv, Control, Bounded, Busy, WritePiece, Creating
<1>2. Whole' = Whole /\ x \in Text /\ file \in Text
  BY WholeStays, WholeIsText
<1>3. CASE damage = "all"
  BY <1>1, <1>3 DEF TableInv
<1>4. CASE damage # "all"
  <2>1. Carried
    BY <1>1, <1>4 DEF TableInv, Unlisted
  <2>2. /\ Kept(table) /\ Kept(pending) /\ pending.types = table.types
        /\ Carries(Whole, pending) /\ (damage = "none" => Exactly(Whole, pending))
    BY <2>1 DEF Carried
  <2>3. CASE Len(todo) = 1
    <3>1. Carried'
      BY <1>1, <1>2, <2>2, <2>3 DEF Carried
    <3> QED
      BY <1>1, <3>1 DEF TableInv
  <2>4. CASE Len(todo) # 1
    <3>1. ASSUME op = "append"
          PROVE  Carries(file', table) /\ Len(Pieces(file')) # 3
      <4>1. Carries(file, table) /\ (Len(Pieces(file)) = 3 => x = <<"NL">>)
        BY <2>1, <3>1 DEF Carried
      <4>2. Len(Pieces(file)) = 3 \/ Len(Pieces(file)) > 3
        <5> DEFINE k == Len(Pieces(file))
        <5>1. k \in Nat /\ k >= 3
          BY <1>2, <4>1, PiecesParts DEF Carries
        <5> HIDE DEF k
        <5>2. k = 3 \/ k > 3
          BY <5>1
        <5> QED
          BY <5>2 DEF k
      <4> HIDE DEF x
      <4>3. CASE Len(Pieces(file)) = 3
        BY <1>1, <1>2, <2>2, <4>1, <4>3, NewLineCarries
      <4>4. CASE Len(Pieces(file)) > 3
        <5> DEFINE g == file \o x
                   k == Len(Pieces(g))
        <5>1. g \in Text
          BY <1>2 DEF Text
        <5>2. Carries(g, table) /\ k > 3
          BY <1>2, <2>2, <4>1, <4>4, AppendCarries
        <5>3. file' = g
          BY <1>1
        <5> HIDE DEF g
        <5>4. k \in Nat
          BY <5>1, PiecesParts
        <5> HIDE DEF k
        <5>5. k # 3
          BY <5>2, <5>4
        <5> QED
          BY <5>2, <5>3, <5>5, Zenon DEF k
      <4> QED
        BY <4>2, <4>3, <4>4, Zenon
    <3>2. Carried'
      BY <1>1, <1>2, <2>2, <2>4, <3>1 DEF Carried
    <3> QED
      BY <1>1, <3>2 DEF TableInv
  <2> QED
    BY <2>3, <2>4
<1> QED
  BY <1>3, <1>4

LEMMA CrashTable ==
    ASSUME TypeInv, TableInv, Crash
    PROVE  TableInv'
<1>1. /\ op' = "idle" /\ op' \notin Creating /\ todo' = <<>> /\ pending' = table /\ table' = table
      /\ file' = file /\ listed' = listed
      /\ damage' = IF op \in Creating \cup {"rewrite", "scribble"} THEN "all"
                   ELSE IF op = "append" /\ damage = "none" THEN "tail" ELSE damage
  BY DEF Crash, Creating
<1>2. Whole' = file
  <2>1. file \o <<>> = file
    BY WholeIsText DEF Text
  <2> QED
    BY <1>1, <2>1, FlattenNone DEF Whole
<1>3. CASE damage' = "all"
  BY <1>1, <1>3 DEF TableInv
<1>4. CASE damage' # "all"
  <2>1. op \notin Creating \cup {"rewrite", "scribble"} /\ damage # "all"
    BY <1>1, <1>4
  <2>2. op \in {"idle", "append"}
    BY <2>1 DEF TypeInv, Control, Bounded
  <2>3. Unlisted \/ Carried
    BY <2>1 DEF TableInv
  <2>4. CASE op = "append"
    <3>1. Kept(table) /\ Carries(file, table) /\ damage' # "none"
      BY <1>1, <2>1, <2>3, <2>4 DEF Unlisted, Carried
    <3>2. Carried'
      BY <1>1, <1>2, <3>1 DEF Carried
    <3> QED
      BY <1>1, <3>2 DEF TableInv
  <2>5. CASE op = "idle" /\ Unlisted
    BY <1>1, <2>1, <2>5 DEF Unlisted, TableInv, Creating
  <2>6. CASE op = "idle" /\ Carried
    <3>1. Whole = file /\ damage' = damage
      BY <1>1, <2>1, <2>6, IdleWhole
    <3>2. Carried'
      BY <1>1, <1>2, <2>6, <3>1 DEF Carried
    <3> QED
      BY <1>1, <3>2 DEF TableInv
  <2> QED
    BY <2>2, <2>3, <2>4, <2>5, <2>6
<1> QED
  BY <1>3, <1>4

LEMMA TableInvariant == Spec => []TableInv
<1>1. Init => TableInv
  BY InitTable
<1>2. ASSUME TypeInv, TableInv, [Next]_vars
      PROVE  TableInv'
  <2>1. CASE Command
    BY <1>2, <2>1, CommandTable
  <2>2. CASE ListTable \/ NameTable \/ SizeFile
    <3>1. /\ op' \in Creating /\ op' # "scribble" /\ op \in Creating
          /\ pending' = pending /\ types' = types
      BY <2>2 DEF ListTable, NameTable, SizeFile, Creating
    <3> QED
      BY <1>2, <3>1 DEF TableInv, Created
  <2>3. CASE FillFile
    BY <1>2, <2>3, FillTable
  <2>4. CASE WritePiece
    BY <1>2, <2>4, WriteTable
  <2>5. CASE Backup
    BY <1>2, <2>5, Untouched DEF Backup, OpenCopy, CopyBlock, EndCopy, command
  <2>6. CASE Crash
    BY <1>2, <2>6, CrashTable
  <2>7. CASE Restart
    BY <1>2, <2>7, Untouched DEF Restart, command
  <2>8. CASE UNCHANGED vars
    BY <1>2, <2>8, Untouched DEF vars, command
  <2>9. CASE ScribblePiece
    <3>1. op' \notin Creating /\ damage' = damage /\ op = "scribble"
      BY <2>9 DEF ScribblePiece, Creating
    <3> QED
      BY <1>2, <3>1, GivenUp DEF TableInv
  <2>10. CASE DieWriting
    <3>1. op' \notin Creating /\ damage' = "all"
      BY <2>10 DEF DieWriting, Creating
    <3> QED
      BY <3>1, GivenUp
  <2> QED
    BY <1>2, <2>1, <2>2, <2>3, <2>4, <2>5, <2>6, <2>7, <2>8, <2>9, <2>10 DEF Next, Work
<1> QED
  BY <1>1, <1>2, TypesInvariant, PTL DEF Spec

LEMMA CarriedHolds ==
    ASSUME NEW f \in Text, NEW t, Kept(t), Carries(f, t)
    PROVE  Holds(f, t)
<1>1. /\ Usable(f) /\ Len(LoadTable(f).rows) >= Len(t.rows)
      /\ \A i \in 1 .. Len(t.rows) : SameRow(LoadTable(f).rows[i], t.rows[i])
  BY CarriedIsLoaded
<1>2. DOMAIN t.rows = 1 .. Len(t.rows)
  BY KeptParts
<1> QED
  BY <1>1, <1>2 DEF Holds
-----------------------------------------------------------------------------
\* Through any commands, crashes and restarts the server that is down has no
\* command under way, a command under way has something left to write, and what
\* stdio holds of the copy is never more than a block or than was read of the file.
THEOREM TypeCorrect == Spec => []TypeOK
<1>1. TypeInv => TypeOK
  BY TypeParts DEF TypeInv
<1> QED
  BY <1>1, TypesInvariant, PTL

\* copyFile (server.c:530-556) runs beside the commands under no lock.  As long as none
\* of them empties the file, the copy is a prefix of it, at any size of stdio's
\* blocks, wherever the writes fall, and wherever a crash cuts them off.
THEOREM BackupIsPrefixHolds == Spec => []BackupIsPrefix
<1>1. TypeInv /\ CopyInv => BackupIsPrefix
  BY CopyIsPrefix DEF BackupIsPrefix
<1> QED
  BY <1>1, TypesInvariant, CopyInvariant, PTL

\* The file is written by salveazaTabel, append_to_file_values and scrieTabelInFisier
\* and read by loadTable, which have nothing in common but the format.  For tables of
\* any known types, any rows, TAB and NL in their values or values missing included, and
\* any sequence of commands, no crash having cut one short nor the server having written
\* what nobody set: loadTable finds every tidy row asked for, value by value, in its
\* place, and besides them as many rows as the others have lines.
THEOREM RowsSurviveHolds == Spec => []RowsSurvive
<1>1. TypeInv /\ TableInv => RowsSurvive
  <2> SUFFICES ASSUME TypeInv, TableInv, op = "idle", damage = "none", table # NoTable
               PROVE  Holds(file, table) /\ Len(LoadTable(file).rows) = Len(table.rows)
    BY DEF RowsSurvive
  <2>1. file \in Text /\ Kept(table) /\ Carries(file, table) /\ Exactly(file, table)
    BY IdleCarried
  <2> QED
    BY <2>1, CarriedHolds, CarriedIsLoaded
<1> QED
  BY <1>1, TypesInvariant, TableInvariant, PTL

\* Whatever is inserted, tidy or not, set or deleted, and wherever a crash cuts an INSERT
\* off, every column keeps the INT, VARCHAR or DATE it was created with, but for the last
\* one of a table of so many columns that salveazaTabel (gestionareTabele.c:271-286)
\* counts the header one byte short.  parseCreateTable (SQLParser.c:575-599) sets no other
\* type: such a table is promised nothing.
THEOREM TypesSurviveHolds == Spec => []TypesSurvive
<1>1. TypeInv /\ TableInv => TypesSurvive
  <2> SUFFICES ASSUME TypeInv, TableInv, op = "idle", damage # "all", table # NoTable
               PROVE  /\ Len(LoadTable(file).types) = Len(table.types)
                      /\ \A j \in 1 .. Len(table.types) :
                            (j < Len(table.types) \/ Len(table.types) < Ten)
                                => LoadTable(file).types[j] = table.types[j]
    BY DEF TypesSurvive
  <2>1. file \in Text /\ Kept(table) /\ Carries(file, table)
    BY IdleCarried
  <2> QED
    BY <2>1, CarriedIsLoaded
<1> QED
  BY <1>1, TypesInvariant, TableInvariant, PTL

\* After each single write of append_to_file_values (SQLParser.c), and after a crash
\* between two of them, the file still loads with every row from before, and so it does
\* after the INSERTs that go on from half a row.
THEOREM AppendKeepsRowsHolds == Spec => []AppendKeepsRows
<1>1. TypeInv /\ TableInv => AppendKeepsRows
  <2> SUFFICES ASSUME TypeInv, TableInv,
                      (op = "append" /\ damage # "all") \/ (op = "idle" /\ damage = "tail")
               PROVE  Holds(file, table)
    BY DEF AppendKeepsRows
  <2>1. Carried /\ file \in Text
    BY WholeIsText DEF TableInv, Unlisted, Creating
  <2>2. Kept(table) /\ Carries(file, table)
    <3>1. CASE op = "append"
      BY <2>1, <3>1 DEF Carried
    <3>2. CASE op = "idle"
      <4>1. Whole = file
        BY <3>2, IdleWhole
      <4> QED
        BY <2>1, <3>2, <4>1 DEF Carried
    <3> QED
      BY <3>1, <3>2
  <2> QED
    BY <2>1, <2>2, CarriedHolds
<1> QED
  BY <1>1, TypesInvariant, TableInvariant, PTL
=============================================================================
