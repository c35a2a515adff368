-------------------------- MODULE TableFile_proofs --------------------------
(***************************************************************************)
(* What TableFile writes, TableFile reads: a text cut at its separators    *)
(* gives the parts it was put together from, for texts of any length.      *)
(***************************************************************************)
EXTENDS TableFile, SequenceTheorems, FiniteSetTheorems, Recursion_proofs

-----------------------------------------------------------------------------
(* Induction over sequences, from the end.                                 *)

LEMMA IsSequence ==
    ASSUME NEW S, NEW n \in Nat, NEW s \in [1 .. n -> S]
    PROVE  s \in Seq(S) /\ Len(s) = n
  OBVIOUS

LEMMA Cut ==
    ASSUME NEW S, NEW s \in Seq(S), NEW m \in 1 .. Len(s) + 1, NEW n \in m - 1 .. Len(s)
    PROVE  /\ SubSeq(s, m, n) \in Seq(S)
           /\ Len(SubSeq(s, m, n)) = n - m + 1
           /\ \A i \in 1 .. n - m + 1 : SubSeq(s, m, n)[i] = s[m + i - 1]
<1>1. Len(s) \in Nat
  OBVIOUS
<1>2. SubSeq(s, m, n) \in Seq(S)
  BY <1>1
<1>3. Len(SubSeq(s, m, n)) = n - m + 1
  BY <1>1
<1>4. ASSUME NEW i \in 1 .. n - m + 1
      PROVE  SubSeq(s, m, n)[i] = s[m + i - 1]
  BY <1>1
<1> QED
  BY <1>2, <1>3, <1>4

\* G has the empty sequence, and with a sequence every longer one.
Grows(G, S) ==
    /\ <<>> \in G
    /\ \A s \in Seq(S), x \in S : s \in G => Append(s, x) \in G

LEMMA Growth ==
    ASSUME NEW S, NEW G, Grows(G, S), NEW s \in Seq(S)
    PROVE  s \in G
<1> DEFINE N == Len(s)
           Good == {k \in 0 .. N : SubSeq(s, 1, k) \in G}
<1>1. N \in Nat
  OBVIOUS
<1>2. 0 \in Good
  <2>1. SubSeq(s, 1, 0) = <<>>
    OBVIOUS
  <2>2. SubSeq(s, 1, 0) \in G
    BY <2>1 DEF Grows
  <2> QED
    BY <1>1, <2>2
<1>3. ASSUME NEW k \in 0 .. N, k \in Good, k < N
      PROVE  k + 1 \in Good
  <2>1. SubSeq(s, 1, k) \in Seq(S) /\ s[k + 1] \in S
    BY <1>1, <1>3
  <2>2. SubSeq(s, 1, k + 1) = Append(SubSeq(s, 1, k), s[k + 1])
    <3>1. /\ SubSeq(s, 1, k + 1) \in Seq(S) /\ Len(SubSeq(s, 1, k + 1)) = k + 1
          /\ \A i \in 1 .. k + 1 : SubSeq(s, 1, k + 1)[i] = s[i]
      BY <1>1, <1>3
    <3>2. Len(SubSeq(s, 1, k)) = k /\ \A i \in 1 .. k : SubSeq(s, 1, k)[i] = s[i]
      BY <1>1, <1>3
    <3> QED
      BY <1>1, <1>3, <2>1, <3>1, <3>2, SeqEqual
  <2>3. SubSeq(s, 1, k + 1) \in G
    BY <1>3, <2>1, <2>2 DEF Grows
  <2> QED
    BY <1>1, <1>3, <2>3
<1> HIDE DEF Good
<1> HIDE DEF N
<1>4. \A k \in 0 .. N : k \in Good
  BY <1>1, <1>2, <1>3, Stepwise
<1>5. SubSeq(s, 1, N) = s
  BY DEF N
<1>6. N \in Good
  BY <1>1, <1>4
<1> QED
  BY <1>5, <1>6 DEF Good

\* A sequence that is not empty is one less its last element, and that element.
LEMMA Shorter ==
    ASSUME NEW S, NEW s \in Seq(S), s # <<>>
    PROVE  /\ Front(s) \in Seq(S) /\ Last(s) \in S
           /\ s = Append(Front(s), Last(s))
           /\ Len(Front(s)) = Len(s) - 1
<1>1. Len(s) \in Nat /\ Len(s) > 0
  OBVIOUS
<1>2. Front(s) = SubSeq(s, 1, Len(s) - 1) /\ Last(s) = s[Len(s)]
  BY DEF Front, Last
<1>3. Front(s) \in Seq(S) /\ Last(s) \in S /\ Len(Front(s)) = Len(s) - 1
  <2>1. SubSeq(s, 1, Len(s) - 1) \in Seq(S)
    BY <1>1
  <2>2. Len(SubSeq(s, 1, Len(s) - 1)) = Len(s) - 1
    <3>1. \A n \in 0 .. Len(s) : Len(SubSeq(s, 1, n)) = n
      OBVIOUS
    <3>2. Len(s) - 1 \in 0 .. Len(s)
      BY <1>1
    <3> HIDE <1>1
    <3> QED
      BY <3>1, <3>2
  <2>3. s[Len(s)] \in S
    BY <1>1
  <2> QED
    BY <1>2, <2>1, <2>2, <2>3
<1>4. \A i \in 1 .. Len(s) - 1 : Front(s)[i] = s[i]
  BY <1>1, <1>2
<1>5. Append(Front(s), Last(s)) \in Seq(S) /\ Len(Append(Front(s), Last(s))) = Len(s)
  BY <1>1, <1>3
<1>6. \A i \in 1 .. Len(s) : Append(Front(s), Last(s))[i] = s[i]
  BY <1>1, <1>2, <1>3, <1>4
<1> QED
  BY <1>3, <1>5, <1>6, SeqEqual
-----------------------------------------------------------------------------
(* FlattenSeq                                                              *)

\* f[k] joins the first k texts of q.
Flattens(f, q, S) ==
    /\ f[0] = <<>>
    /\ \A k \in 0 .. Len(q) : f[k] \in Seq(S)
    /\ \A k \in 0 .. Len(q) : k < Len(q) => f[k + 1] = f[k] \o q[k + 1]

LEMMA FlattenRuns ==
    ASSUME NEW S, NEW q \in Seq(Seq(S))
    PROVE  \E f : Flattens(f, q, S) /\ FlattenSeq(q) = f[Len(q)]
<1> DEFINE N == Len(q)
           step == [i \in 1 .. N |-> [v \in Seq(S) |-> v \o q[i]]]
<1>1. N \in Nat
  OBVIOUS
<1>2. PICK f : Runs(f, N, Seq(S), <<>>, step)
  <2>1. Steps(step, N, Seq(S))
    BY DEF Steps
  <2>2. <<>> \in Seq(S)
    OBVIOUS
  <2> HIDE DEF step, N
  <2> QED
    BY <1>1, <2>1, <2>2, Recursion
<1>3. f[0] = <<>> /\ \A k \in 0 .. N : f[k] \in Seq(S)
  <2> HIDE DEF N, step
  <2> QED
    BY <1>1, <1>2, RunsOn
<1>4. ASSUME NEW k \in 0 .. N, k < N
      PROVE  f[k + 1] = f[k] \o q[k + 1]
  <2>1. k + 1 \in 1 .. N /\ f[k] \in Seq(S)
    BY <1>1, <1>3, <1>4
  <2>2. \A i \in 1 .. N, v \in Seq(S) : step[i][v] = v \o q[i]
    OBVIOUS
  <2> HIDE DEF N, step
  <2>3. step[k + 1][f[k]] = f[k] \o q[k + 1]
    BY <2>1, <2>2
  <2>4. k < N => f[k + 1] = step[k + 1][f[k]]
    BY <1>1, <1>2, RunsOn
  <2> QED
    BY <1>4, <2>3, <2>4
<1> HIDE DEF step
<1>5. ASSUME NEW i \in 1 .. N
      PROVE  f[i] = f[i - 1] \o q[i]
  <2>1. i - 1 \in 0 .. N /\ i - 1 < N /\ (i - 1) + 1 = i
    BY <1>1
  <2> HIDE DEF N
  <2> QED
    BY <1>4, <2>1
<1>6. CASE N = 0
  <2>1. FlattenSeq(q) = <<>>
    BY <1>6 DEF FlattenSeq
  <2> QED
    BY <1>3, <1>4, <1>6, <2>1 DEF Flattens
<1>7. CASE N > 0
  <2> DEFINE Defines(h) == h = [i \in 1 .. N |-> IF i = 1 THEN q[i] ELSE h[i - 1] \o q[i]]
             flatten == CHOOSE h : Defines(h)
             g == [i \in 1 .. N |-> f[i]]
  <2>1. ASSUME NEW i \in 1 .. N
        PROVE  g[i] = IF i = 1 THEN q[i] ELSE g[i - 1] \o q[i]
    <3>1. q[i] \in Seq(S)
      OBVIOUS
    <3>2. <<>> \o q[i] = q[i]
      BY <3>1
    <3> HIDE DEF N
    <3>3. i = 1 => f[i - 1] = <<>>
      BY <1>3
    <3>4. i # 1 => g[i - 1] = f[i - 1]
      BY <1>1
    <3> QED
      BY <1>5, <3>2, <3>3, <3>4
  <2>2. Defines(g)
    BY <2>1
  <2>3. Defines(flatten)
    <3> HIDE DEF Defines
    <3> QED
      BY <2>2
  <2>4. FlattenSeq(q) = flatten[N]
    BY <1>7 DEF FlattenSeq
  <2>5. ASSUME NEW i \in 1 .. N
        PROVE  flatten[i] = IF i = 1 THEN q[i] ELSE flatten[i - 1] \o q[i]
    <3> HIDE DEF flatten, N
    <3> QED
      BY <2>3
  <2> HIDE DEF flatten, Defines
  <2> DEFINE h == [k \in 0 .. N |-> IF k = 0 THEN <<>> ELSE flatten[k]]
  <2>6. ASSUME NEW k \in 0 .. N, k < N, h[k] = f[k]
        PROVE  h[k + 1] = f[k + 1]
    <3>1. k + 1 \in 1 .. N /\ (k + 1) - 1 = k /\ k + 1 # 0
      BY <1>1, <2>6
    <3>2. q[k + 1] \in Seq(S)
      BY <3>1
    <3> HIDE DEF N
    <3>3. flatten[k + 1] = IF k + 1 = 1 THEN q[k + 1] ELSE flatten[k] \o q[k + 1]
      BY <2>5, <3>1
    <3>4. h[k + 1] = flatten[k + 1] /\ (k # 0 => h[k] = flatten[k]) /\ (k = 0 => h[k] = <<>>)
      BY <1>1, <3>1
    <3>5. <<>> \o q[k + 1] = q[k + 1]
      BY <3>2
    <3>6. (k + 1 = 1) <=> (k = 0)
      OBVIOUS
    <3>7. h[k + 1] = h[k] \o q[k + 1]
      <4> HIDE DEF h
      <4> QED
        BY <3>3, <3>4, <3>5, <3>6
    <3> HIDE DEF h
    <3> QED
      BY <1>4, <2>6, <3>7
  <2>7. h[0] = f[0] /\ h[N] = flatten[N]
    <3> HIDE DEF N
    <3> QED
      BY <1>1, <1>3, <1>7
  <2> HIDE DEF h, N
  <2>8. h[N] = f[N]
    BY <1>1, <2>6, <2>7, Agreement
  <2>9. FlattenSeq(q) = f[N]
    BY <2>4, <2>7, <2>8
  <2> QED
    BY <1>3, <1>4, <2>9 DEF N, Flattens
<1> QED
  BY <1>1, <1>6, <1>7

LEMMA FlattenType ==
    ASSUME NEW S, NEW q \in Seq(Seq(S))
    PROVE  FlattenSeq(q) \in Seq(S)
<1>1. PICK f : Flattens(f, q, S) /\ FlattenSeq(q) = f[Len(q)]
  BY FlattenRuns
<1> QED
  BY <1>1 DEF Flattens

LEMMA FlattenNone == FlattenSeq(<<>>) = <<>>
  BY DEF FlattenSeq

LEMMA FlattenAppend ==
    ASSUME NEW S, NEW q \in Seq(Seq(S)), NEW x \in Seq(S)
    PROVE  FlattenSeq(Append(q, x)) = FlattenSeq(q) \o x
<1> DEFINE N == Len(q)
           longer == Append(q, x)
<1>1. /\ longer \in Seq(Seq(S)) /\ Len(longer) = N + 1 /\ N \in Nat
      /\ longer[N + 1] = x /\ \A i \in 1 .. N : longer[i] = q[i]
  OBVIOUS
<1> HIDE DEF longer
<1>2. PICK f : Flattens(f, q, S) /\ FlattenSeq(q) = f[N]
  BY FlattenRuns
<1>3. PICK g : Flattens(g, longer, S) /\ FlattenSeq(longer) = g[N + 1]
  BY <1>1, FlattenRuns
<1>4. ASSUME NEW k \in 0 .. N, k < N, f[k] = g[k]
      PROVE  f[k + 1] = g[k + 1]
  <2>1. f[k + 1] = f[k] \o q[k + 1]
    BY <1>2, <1>4 DEF Flattens
  <2> HIDE DEF N
  <2>2. k \in 0 .. Len(longer) /\ k < Len(longer) /\ k + 1 \in 1 .. N
    BY <1>1, <1>4
  <2>3. g[k + 1] = g[k] \o longer[k + 1]
    BY <1>3, <2>2 DEF Flattens
  <2>4. longer[k + 1] = q[k + 1]
    BY <1>1, <2>2
  <2> QED
    BY <1>4, <2>1, <2>3, <2>4
<1>5. f[0] = g[0]
  BY <1>2, <1>3 DEF Flattens
<1> HIDE DEF N
<1>6. f[N] = g[N]
  BY <1>1, <1>4, <1>5, Agreement
<1>7. g[N + 1] = g[N] \o x
  <2>1. N \in 0 .. Len(longer) /\ N < Len(longer)
    BY <1>1
  <2> QED
    BY <1>1, <1>3, <2>1 DEF Flattens
<1> QED
  BY <1>2, <1>3, <1>6, <1>7 DEF longer
-----------------------------------------------------------------------------
(* SplitAt                                                                 *)

Some(S) == Seq(Seq(S)) \ {<<>>}

\* The pieces v, of what ends before x, and x.
Extended(v, x, separator) ==
    IF x = separator THEN Append(v, <<>>) ELSE [v EXCEPT ![Len(v)] = Append(@, x)]

LEMMA ExtendedType ==
    ASSUME NEW S, NEW x \in S, NEW separator, NEW v \in Some(S \ {separator})
    PROVE  /\ Extended(v, x, separator) \in Some(S \ {separator})
           /\ x = separator => /\ Len(Extended(v, x, separator)) = Len(v) + 1
                               /\ \A i \in 1 .. Len(v) : Extended(v, x, separator)[i] = v[i]
                               /\ Extended(v, x, separator)[Len(v) + 1] = <<>>
           /\ x # separator => /\ Len(Extended(v, x, separator)) = Len(v)
                               /\ \A i \in 1 .. Len(v) : Extended(v, x, separator)[i] =
                                      IF i = Len(v) THEN Append(v[i], x) ELSE v[i]
<1> DEFINE X == S \ {separator}
           e == Extended(v, x, separator)
<1>1. v \in Seq(Seq(X)) /\ Len(v) \in Nat /\ Len(v) > 0
  BY DEF Some
<1> HIDE DEF X
<1>2. CASE x = separator
  <2>1. e = Append(v, <<>>)
    BY <1>2 DEF Extended
  <2>2. <<>> \in Seq(X)
    OBVIOUS
  <2>3. Append(v, <<>>) \in Seq(Seq(X)) \ {<<>>}
    BY <1>1, <2>2
  <2> QED
    BY <1>1, <1>2, <2>1, <2>3 DEF Some, X
<1>3. CASE x # separator
  <2>1. e = [v EXCEPT ![Len(v)] = Append(@, x)]
    BY <1>3 DEF Extended
  <2>2. v[Len(v)] \in Seq(X) /\ x \in X
    BY <1>1, <1>3 DEF X
  <2>3. Append(v[Len(v)], x) \in Seq(X)
    BY <2>2
  <2>4. e \in Seq(Seq(X)) /\ Len(e) = Len(v)
    BY <1>1, <2>1, <2>3, ExceptSeq
  <2>5. ASSUME NEW i \in 1 .. Len(v)
        PROVE  e[i] = IF i = Len(v) THEN Append(v[i], x) ELSE v[i]
    BY <1>1, <2>1
  <2>6. e # <<>>
    BY <1>1, <2>4
  <2> HIDE DEF e
  <2>7. e \in Some(X)
    BY <2>4, <2>6 DEF Some
  <2> QED
    BY <1>3, <2>4, <2>5, <2>7 DEF e, X
<1> QED
  BY <1>2, <1>3

\* f[k] has the pieces of the first k tokens of s.
Splits(f, s, separator, S) ==
    /\ f[0] = <<<<>>>>
    /\ \A k \in 0 .. Len(s) : f[k] \in Some(S \ {separator})
    /\ \A k \in 0 .. Len(s) : k < Len(s) => f[k + 1] = Extended(f[k], s[k + 1], separator)

LEMMA SplitRuns ==
    ASSUME NEW S, NEW s \in Seq(S), NEW separator
    PROVE  \E f : Splits(f, s, separator, S) /\ SplitAt(s, separator) = f[Len(s)]
<1> DEFINE N == Len(s)
           V == Some(S \ {separator})
           start == <<<<>>>>
           Next1(v, i) == IF s[i] = separator THEN Append(v, <<>>)
                          ELSE [v EXCEPT ![Len(v)] = Append(@, s[i])]
           Defines(h) == h = [i \in 0 .. N |-> IF i = 0 THEN start ELSE Next1(h[i - 1], i)]
           pieces == CHOOSE h : Defines(h)
           step == [i \in 1 .. N |-> [v \in V |-> Next1(v, i)]]
<1>1. N \in Nat
  OBVIOUS
<1>2. ASSUME NEW v \in V, NEW i \in 1 .. N
      PROVE  Next1(v, i) \in V /\ Next1(v, i) = Extended(v, s[i], separator)
  <2>1. s[i] \in S
    OBVIOUS
  <2>2. Next1(v, i) = Extended(v, s[i], separator)
    BY DEF Extended
  <2> HIDE DEF Next1
  <2>3. Extended(v, s[i], separator) \in Some(S \ {separator})
    BY <2>1, ExtendedType
  <2> QED
    BY <2>2, <2>3
<1>3. start \in V
  BY DEF Some
<1> HIDE DEF Next1, V, start
<1>4. PICK f : Runs(f, N, V, start, step)
  <2>1. Steps(step, N, V)
    BY <1>2 DEF Steps
  <2> HIDE DEF step, N
  <2> QED
    BY <1>1, <1>3, <2>1, Recursion
<1>5. f[0] = start /\ \A k \in 0 .. N : f[k] \in V
  <2> HIDE DEF N, step
  <2> QED
    BY <1>1, <1>4, RunsOn
<1>6. ASSUME NEW k \in 0 .. N, k < N
      PROVE  f[k + 1] = Next1(f[k], k + 1)
  <2>1. k + 1 \in 1 .. N /\ f[k] \in V
    BY <1>1, <1>5, <1>6
  <2>2. \A i \in 1 .. N, v \in V : step[i][v] = Next1(v, i)
    OBVIOUS
  <2> HIDE DEF N, step
  <2>3. step[k + 1][f[k]] = Next1(f[k], k + 1)
    BY <2>1, <2>2
  <2>4. k < N => f[k + 1] = step[k + 1][f[k]]
    BY <1>1, <1>4, RunsOn
  <2> QED
    BY <1>6, <2>3, <2>4
<1> HIDE DEF step
<1>7. Defines(pieces)
  <2> DEFINE g == [i \in 0 .. N |-> f[i]]
  <2>1. ASSUME NEW i \in 0 .. N
        PROVE  g[i] = IF i = 0 THEN start ELSE Next1(g[i - 1], i)
    <3> HIDE DEF N
    <3>1. i # 0 => i - 1 \in 0 .. N /\ i - 1 < N /\ (i - 1) + 1 = i
      BY <1>1
    <3>2. i # 0 => f[i] = Next1(f[i - 1], i)
      BY <1>6, <3>1
    <3>3. i # 0 => g[i - 1] = f[i - 1]
      BY <3>1
    <3> QED
      BY <1>5, <3>2, <3>3
  <2>2. Defines(g)
    BY <2>1
  <2> HIDE DEF Defines
  <2> QED
    BY <2>2
<1>8. SplitAt(s, separator) = pieces[N]
  BY DEF SplitAt, Next1, start
<1>9. pieces[0] = start
  <2> HIDE DEF pieces
  <2> QED
    BY <1>1, <1>7
<1>10. ASSUME NEW k \in 0 .. N, k < N
       PROVE  pieces[k + 1] = Next1(pieces[k], k + 1)
  <2>1. k + 1 \in 0 .. N /\ (k + 1) - 1 = k /\ k + 1 # 0
    BY <1>1, <1>10
  <2>2. \A i \in 0 .. N : pieces[i] = IF i = 0 THEN start ELSE Next1(pieces[i - 1], i)
    <3> HIDE DEF pieces, N
    <3> QED
      BY <1>7
  <2> HIDE DEF pieces, N
  <2> QED
    BY <2>1, <2>2
<1> HIDE DEF pieces, Defines
<1>11. pieces[N] = f[N]
  <2> HIDE DEF N
  <2>1. ASSUME NEW k \in 0 .. N, k < N, pieces[k] = f[k]
        PROVE  pieces[k + 1] = f[k + 1]
    BY <1>6, <1>10, <2>1
  <2> QED
    BY <1>1, <1>5, <1>9, <2>1, Agreement
<1>12. ASSUME NEW k \in 0 .. N, k < N
       PROVE  f[k + 1] = Extended(f[k], s[k + 1], separator)
  <2>1. k + 1 \in 1 .. N /\ f[k] \in V
    BY <1>1, <1>5, <1>12
  <2> HIDE DEF N
  <2> QED
    BY <1>2, <1>6, <1>12, <2>1
<1>13. Splits(f, s, separator, S)
  BY <1>5, <1>12 DEF Splits, V, start
<1> QED
  BY <1>8, <1>11, <1>13

\* Pieces do not have the separator in them.
LEMMA SplitType ==
    ASSUME NEW S, NEW s \in Seq(S), NEW separator
    PROVE  /\ SplitAt(s, separator) \in Some(S \ {separator})
           /\ SplitAt(s, separator) \in Some(S)
<1>1. PICK f : Splits(f, s, separator, S) /\ SplitAt(s, separator) = f[Len(s)]
  BY SplitRuns
<1>2. SplitAt(s, separator) \in Some(S \ {separator})
  <2>1. Len(s) \in 0 .. Len(s)
    OBVIOUS
  <2> QED
    BY <1>1, <2>1 DEF Splits
<1>3. Seq(S \ {separator}) \subseteq Seq(S)
  OBVIOUS
<1> HIDE <1>1
<1>4. SplitAt(s, separator) \in Seq(Seq(S))
  BY <1>2, <1>3, SeqMonotonic DEF Some
<1> QED
  BY <1>2, <1>4 DEF Some

LEMMA SplitNone ==
    ASSUME NEW separator
    PROVE  SplitAt(<<>>, separator) = <<<<>>>>
<1>1. <<>> \in Seq({}) /\ Len(<<>>) = 0
  OBVIOUS
<1>2. PICK f : Splits(f, <<>>, separator, {}) /\ SplitAt(<<>>, separator) = f[Len(<<>>)]
  BY <1>1, SplitRuns
<1> QED
  BY <1>1, <1>2 DEF Splits

LEMMA SplitAppend ==
    ASSUME NEW S, NEW s \in Seq(S), NEW x \in S, NEW separator
    PROVE  SplitAt(Append(s, x), separator) = Extended(SplitAt(s, separator), x, separator)
<1> DEFINE N == Len(s)
           longer == Append(s, x)
<1>1. /\ longer \in Seq(S) /\ Len(longer) = N + 1 /\ N \in Nat
      /\ longer[N + 1] = x /\ \A i \in 1 .. N : longer[i] = s[i]
  OBVIOUS
<1> HIDE DEF longer
<1>2. PICK f : Splits(f, s, separator, S) /\ SplitAt(s, separator) = f[N]
  BY SplitRuns
<1>3. PICK g : Splits(g, longer, separator, S) /\ SplitAt(longer, separator) = g[N + 1]
  BY <1>1, SplitRuns
<1>4. ASSUME NEW k \in 0 .. N, k < N, f[k] = g[k]
      PROVE  f[k + 1] = g[k + 1]
  <2>1. f[k + 1] = Extended(f[k], s[k + 1], separator)
    BY <1>2, <1>4 DEF Splits
  <2> HIDE DEF N
  <2>2. k \in 0 .. Len(longer) /\ k < Len(longer) /\ k + 1 \in 1 .. N
    BY <1>1, <1>4
  <2>3. g[k + 1] = Extended(g[k], longer[k + 1], separator)
    BY <1>3, <2>2 DEF Splits
  <2>4. longer[k + 1] = s[k + 1]
    BY <1>1, <2>2
  <2> QED
    BY <1>4, <2>1, <2>3, <2>4
<1>5. f[0] = g[0]
  BY <1>2, <1>3 DEF Splits
<1> HIDE DEF N
<1>6. f[N] = g[N]
  BY <1>1, <1>4, <1>5, Agreement
<1>7. g[N + 1] = Extended(g[N], x, separator)
  <2>1. N \in 0 .. Len(longer) /\ N < Len(longer)
    BY <1>1
  <2> QED
    BY <1>1, <1>3, <2>1 DEF Splits
<1> QED
  BY <1>2, <1>3, <1>6, <1>7 DEF longer
-----------------------------------------------------------------------------
(* Picked                                                                  *)

\* f[k] has the elements picked among the first k of s.
Picks(f, s, places, S) ==
    /\ f[0] = <<>>
    /\ \A k \in 0 .. Len(s) : f[k] \in Seq(S)
    /\ \A k \in 0 .. Len(s) : k < Len(s) =>
           f[k + 1] = IF k + 1 \in places THEN Append(f[k], s[k + 1]) ELSE f[k]

LEMMA PickedRuns ==
    ASSUME NEW S, NEW s \in Seq(S), NEW places
    PROVE  \E f : Picks(f, s, places, S) /\ Picked(s, places) = f[Len(s)]
<1> DEFINE N == Len(s)
           V == Seq(S)
           Next1(v, i) == IF i \in places THEN Append(v, s[i]) ELSE v
           Defines(h) == h = [i \in 0 .. N |-> IF i = 0 THEN <<>> ELSE Next1(h[i - 1], i)]
           picked == CHOOSE h : Defines(h)
           step == [i \in 1 .. N |-> [v \in V |-> Next1(v, i)]]
<1>1. N \in Nat
  OBVIOUS
<1>2. ASSUME NEW v \in V, NEW i \in 1 .. N
      PROVE  Next1(v, i) \in V
  OBVIOUS
<1>3. <<>> \in V
  OBVIOUS
<1> HIDE DEF Next1, V
<1>4. PICK f : Runs(f, N, V, <<>>, step)
  <2>1. Steps(step, N, V)
    BY <1>2 DEF Steps
  <2> HIDE DEF step, N
  <2> QED
    BY <1>1, <1>3, <2>1, Recursion
<1>5. f[0] = <<>> /\ \A k \in 0 .. N : f[k] \in V
  <2> HIDE DEF N, step
  <2> QED
    BY <1>1, <1>4, RunsOn
<1>6. ASSUME NEW k \in 0 .. N, k < N
      PROVE  f[k + 1] = Next1(f[k], k + 1)
  <2>1. k + 1 \in 1 .. N /\ f[k] \in V
    BY <1>1, <1>5, <1>6
  <2>2. \A i \in 1 .. N, v \in V : step[i][v] = Next1(v, i)
    OBVIOUS
  <2> HIDE DEF N, step
  <2>3. step[k + 1][f[k]] = Next1(f[k], k + 1)
    BY <2>1, <2>2
  <2>4. k < N => f[k + 1] = step[k + 1][f[k]]
    BY <1>1, <1>4, RunsOn
  <2> QED
    BY <1>6, <2>3, <2>4
<1> HIDE DEF step
<1>7. Defines(picked)
  <2> DEFINE g == [i \in 0 .. N |-> f[i]]
  <2>1. ASSUME NEW i \in 0 .. N
        PROVE  g[i] = IF i = 0 THEN <<>> ELSE Next1(g[i - 1], i)
    <3> HIDE DEF N
    <3>1. i # 0 => i - 1 \in 0 .. N /\ i - 1 < N /\ (i - 1) + 1 = i
      BY <1>1
    <3>2. i # 0 => f[i] = Next1(f[i - 1], i)
      BY <1>6, <3>1
    <3>3. i # 0 => g[i - 1] = f[i - 1]
      BY <3>1
    <3> QED
      BY <1>5, <3>2, <3>3
  <2>2. Defines(g)
    BY <2>1
  <2> HIDE DEF Defines
  <2> QED
    BY <2>2
<1>8. Picked(s, places) = picked[N]
  BY DEF Picked, Next1
<1>9. picked[0] = <<>>
  <2> HIDE DEF picked
  <2> QED
    BY <1>1, <1>7
<1>10. ASSUME NEW k \in 0 .. N, k < N
       PROVE  picked[k + 1] = Next1(picked[k], k + 1)
  <2>1. k + 1 \in 0 .. N /\ (k + 1) - 1 = k /\ k + 1 # 0
    BY <1>1, <1>10
  <2>2. \A i \in 0 .. N : picked[i] = IF i = 0 THEN <<>> ELSE Next1(picked[i - 1], i)
    <3> HIDE DEF picked, N
    <3> QED
      BY <1>7
  <2> HIDE DEF picked, N
  <2> QED
    BY <2>1, <2>2
<1> HIDE DEF picked, Defines
<1>11. picked[N] = f[N]
  <2> HIDE DEF N
  <2>1. ASSUME NEW k \in 0 .. N, k < N, picked[k] = f[k]
        PROVE  picked[k + 1] = f[k + 1]
    BY <1>6, <1>10, <2>1
  <2> QED
    BY <1>1, <1>5, <1>9, <2>1, Agreement
<1>12. Picks(f, s, places, S)
  BY <1>5, <1>6 DEF Picks, V, Next1
<1> QED
  BY <1>8, <1>11, <1>12

LEMMA PickedType ==
    ASSUME NEW S, NEW s \in Seq(S), NEW places
    PROVE  Picked(s, places) \in Seq(S)
<1>1. PICK f : Picks(f, s, places, S) /\ Picked(s, places) = f[Len(s)]
  BY PickedRuns
<1>2. Len(s) \in 0 .. Len(s)
  OBVIOUS
<1> QED
  BY <1>1, <1>2 DEF Picks

LEMMA PickedNone ==
    ASSUME NEW places
    PROVE  Picked(<<>>, places) = <<>>
<1>1. <<>> \in Seq({}) /\ Len(<<>>) = 0
  OBVIOUS
<1>2. PICK f : Picks(f, <<>>, places, {}) /\ Picked(<<>>, places) = f[Len(<<>>)]
  BY <1>1, PickedRuns
<1> QED
  BY <1>1, <1>2 DEF Picks

\* Places beyond the sequence do not matter.
LEMMA PickedAppend ==
    ASSUME NEW S, NEW s \in Seq(S), NEW x \in S, NEW places, NEW before,
           \A i \in 1 .. Len(s) : i \in places <=> i \in before
    PROVE  Picked(Append(s, x), places) =
               IF Len(s) + 1 \in places THEN Append(Picked(s, before), x)
               ELSE Picked(s, before)
<1> DEFINE N == Len(s)
           longer == Append(s, x)
<1>1. /\ longer \in Seq(S) /\ Len(longer) = N + 1 /\ N \in Nat
      /\ longer[N + 1] = x /\ \A i \in 1 .. N : longer[i] = s[i]
  OBVIOUS
<1> HIDE DEF longer
<1>2. PICK f : Picks(f, s, before, S) /\ Picked(s, before) = f[N]
  BY PickedRuns
<1>3. PICK g : Picks(g, longer, places, S) /\ Picked(longer, places) = g[N + 1]
  BY <1>1, PickedRuns
<1>4. ASSUME NEW k \in 0 .. N, k < N, f[k] = g[k]
      PROVE  f[k + 1] = g[k + 1]
  <2>1. f[k + 1] = IF k + 1 \in before THEN Append(f[k], s[k + 1]) ELSE f[k]
    BY <1>2, <1>4 DEF Picks
  <2>2. k + 1 \in 1 .. Len(s)
    BY <1>1, <1>4
  <2>3. k + 1 \in places <=> k + 1 \in before
    BY <2>2
  <2> HIDE DEF N
  <2>4. k \in 0 .. Len(longer) /\ k < Len(longer) /\ k + 1 \in 1 .. N
    BY <1>1, <1>4
  <2>5. g[k + 1] = IF k + 1 \in places THEN Append(g[k], longer[k + 1]) ELSE g[k]
    BY <1>3, <2>4 DEF Picks
  <2>6. longer[k + 1] = s[k + 1]
    BY <1>1, <2>4
  <2> QED
    BY <1>4, <2>1, <2>3, <2>5, <2>6
<1>5. f[0] = g[0]
  BY <1>2, <1>3 DEF Picks
<1> HIDE DEF N
<1>6. f[N] = g[N]
  BY <1>1, <1>4, <1>5, Agreement
<1>7. g[N + 1] = IF N + 1 \in places THEN Append(g[N], x) ELSE g[N]
  <2>1. N \in 0 .. Len(longer) /\ N < Len(longer)
    BY <1>1
  <2> QED
    BY <1>1, <1>3, <2>1 DEF Picks
<1> QED
  BY <1>2, <1>3, <1>6, <1>7 DEF longer, N
-----------------------------------------------------------------------------
(* NonEmpty                                                                *)

LEMMA NonEmptyNone == NonEmpty(<<>>) = <<>>
  BY PickedNone DEF NonEmpty

LEMMA NonEmptyAppend ==
    ASSUME NEW S, NEW p \in Seq(S), NEW x \in S
    PROVE  NonEmpty(Append(p, x)) = IF x = <<>> THEN NonEmpty(p) ELSE Append(NonEmpty(p), x)
<1> DEFINE longer == Append(p, x)
           places == {i \in DOMAIN longer : longer[i] # <<>>}
           before == {i \in DOMAIN p : p[i] # <<>>}
<1>1. /\ Len(p) \in Nat /\ longer \in Seq(S) /\ DOMAIN p = 1 .. Len(p)
      /\ DOMAIN longer = 1 .. Len(p) + 1
      /\ longer[Len(p) + 1] = x /\ \A i \in 1 .. Len(p) : longer[i] = p[i]
  OBVIOUS
<1> HIDE DEF longer
<1>2. ASSUME NEW i \in 1 .. Len(p)
      PROVE  i \in places <=> i \in before
  BY <1>1
<1>3. Len(p) + 1 \in places <=> x # <<>>
  BY <1>1
<1>4. NonEmpty(longer) = Picked(Append(p, x), places) /\ NonEmpty(p) = Picked(p, before)
  BY DEF NonEmpty, longer
<1> HIDE DEF places, before
<1>5. Picked(Append(p, x), places) =
          IF Len(p) + 1 \in places THEN Append(Picked(p, before), x) ELSE Picked(p, before)
  BY <1>2, PickedAppend
<1> QED
  BY <1>3, <1>4, <1>5 DEF longer

LEMMA NonEmptyType ==
    ASSUME NEW S, NEW p \in Seq(S)
    PROVE  NonEmpty(p) \in Seq(S)
  BY PickedType DEF NonEmpty

LEMMA NonEmptyAll ==
    ASSUME NEW S, NEW p \in Seq(S), <<>> \notin S
    PROVE  NonEmpty(p) = p
<1> DEFINE G == {s \in Seq(S) : NonEmpty(s) = s}
<1>1. <<>> \in G
  BY NonEmptyNone
<1>2. ASSUME NEW s \in Seq(S), NEW x \in S, s \in G
      PROVE  Append(s, x) \in G
  <2>1. NonEmpty(Append(s, x)) = Append(s, x)
    BY <1>2, NonEmptyAppend
  <2> QED
    BY <2>1
<1>3. Grows(G, S)
  BY <1>1, <1>2 DEF Grows
<1> HIDE DEF G
<1>4. p \in G
  BY <1>3, Growth
<1> QED
  BY <1>4 DEF G

LEMMA NonEmptyAfter ==
    ASSUME NEW S, <<>> \in S, NEW p \in Seq(S)
    PROVE  NonEmpty(<<<<>>>> \o p) = NonEmpty(p)
<1> DEFINE G == {s \in Seq(S) : NonEmpty(<<<<>>>> \o s) = NonEmpty(s)}
<1>1. <<>> \in G
  <2>1. <<<<>>>> \o <<>> = Append(<<>>, <<>>)
    OBVIOUS
  <2>2. <<>> \in Seq(S)
    OBVIOUS
  <2>3. NonEmpty(Append(<<>>, <<>>)) = NonEmpty(<<>>)
    BY <2>2, NonEmptyAppend
  <2> QED
    BY <2>1, <2>2, <2>3
<1>2. ASSUME NEW s \in Seq(S), NEW x \in S, s \in G
      PROVE  Append(s, x) \in G
  <2>1. <<<<>>>> \o Append(s, x) = Append(<<<<>>>> \o s, x)
    OBVIOUS
  <2>2. <<<<>>>> \o s \in Seq(S)
    OBVIOUS
  <2>3. NonEmpty(Append(<<<<>>>> \o s, x)) =
            IF x = <<>> THEN NonEmpty(<<<<>>>> \o s) ELSE Append(NonEmpty(<<<<>>>> \o s), x)
    BY <2>2, NonEmptyAppend
  <2>4. NonEmpty(Append(s, x)) = IF x = <<>> THEN NonEmpty(s) ELSE Append(NonEmpty(s), x)
    BY NonEmptyAppend
  <2>5. NonEmpty(<<<<>>>> \o s) = NonEmpty(s)
    BY <1>2
  <2>6. NonEmpty(<<<<>>>> \o Append(s, x)) = NonEmpty(Append(s, x))
    BY <2>1, <2>3, <2>4, <2>5
  <2> QED
    BY <2>6
<1>3. Grows(G, S)
  BY <1>1, <1>2 DEF Grows
<1> HIDE DEF G
<1>4. p \in G
  BY <1>3, Growth
<1> QED
  BY <1>4 DEF G
-----------------------------------------------------------------------------
(* Texts put together, and their pieces.                                   *)

\* The pieces of s \o t: the last one of s and the first one of t are joined.
Joined(c, a, b) ==
    /\ Len(c) = Len(a) + Len(b) - 1
    /\ \A i \in 1 .. Len(a) - 1 : c[i] = a[i]
    /\ c[Len(a)] = a[Len(a)] \o b[1]
    /\ \A i \in 2 .. Len(b) : c[Len(a) + i - 1] = b[i]

\* What follows of the lengths and elements of an extended sequence of pieces.
Longer(e, v, x, separator) ==
    /\ x = separator => /\ Len(e) = Len(v) + 1
                        /\ \A i \in 1 .. Len(v) : e[i] = v[i]
                        /\ e[Len(v) + 1] = <<>>
    /\ x # separator => /\ Len(e) = Len(v)
                        /\ \A i \in 1 .. Len(v) : i # Len(v) => e[i] = v[i]
                        /\ e[Len(v)] = Append(v[Len(v)], x)

LEMMA JoinedCounts ==
    ASSUME NEW m \in Nat, NEW n \in Nat, m > 0, n > 0,
           NEW a, NEW b, NEW c, NEW cc, NEW bb, NEW x, NEW separator,
           Len(a) = m, Len(b) = n, Joined(c, a, b),
           Longer(cc, c, x, separator), Longer(bb, b, x, separator),
           Append(a[m] \o b[1], x) = a[m] \o Append(b[1], x)
    PROVE  Joined(cc, a, bb)
<1>1. /\ Len(c) = m + n - 1
      /\ \A i \in 1 .. m - 1 : c[i] = a[i]
      /\ c[m] = a[m] \o b[1]
      /\ \A i \in 2 .. n : c[m + i - 1] = b[i]
  BY DEF Joined
<1>2. m + n - 1 \in Nat /\ (m + n - 1) + 1 = m + n /\ m + (n + 1) - 1 = m + n
  OBVIOUS
<1>3. CASE x = separator
  <2>1. /\ Len(cc) = m + n /\ cc[m + n] = <<>>
        /\ \A i \in 1 .. m + n - 1 : cc[i] = c[i]
    BY <1>1, <1>2, <1>3 DEF Longer
  <2>2. Len(bb) = n + 1 /\ bb[n + 1] = <<>> /\ \A i \in 1 .. n : bb[i] = b[i]
    BY <1>3 DEF Longer
  <2>3. \A i \in 1 .. m - 1 : i \in 1 .. m + n - 1
    OBVIOUS
  <2>4. \A i \in 1 .. m - 1 : cc[i] = a[i]
    BY <1>1, <2>1, <2>3
  <2>5. m \in 1 .. m + n - 1 /\ 1 \in 1 .. n
    OBVIOUS
  <2>6. cc[m] = a[m] \o bb[1]
    BY <1>1, <2>1, <2>2, <2>5
  <2>7. ASSUME NEW i \in 2 .. n + 1
        PROVE  cc[m + i - 1] = bb[i]
    <3>1. CASE i = n + 1
      BY <1>2, <2>1, <2>2, <3>1
    <3>2. CASE i # n + 1
      <4>1. i \in 2 .. n /\ i \in 1 .. n /\ m + i - 1 \in 1 .. m + n - 1
        BY <3>2
      <4> QED
        BY <1>1, <2>1, <2>2, <4>1
    <3> QED
      BY <3>1, <3>2
  <2> QED
    BY <1>2, <2>1, <2>2, <2>4, <2>6, <2>7 DEF Joined
<1>4. CASE x # separator
  <2>1. /\ Len(cc) = m + n - 1 /\ cc[m + n - 1] = Append(c[m + n - 1], x)
        /\ \A i \in 1 .. m + n - 1 : i # m + n - 1 => cc[i] = c[i]
    BY <1>1, <1>4 DEF Longer
  <2>2. /\ Len(bb) = n /\ bb[n] = Append(b[n], x)
        /\ \A i \in 1 .. n : i # n => bb[i] = b[i]
    BY <1>4 DEF Longer
  <2>3. \A i \in 1 .. m - 1 : i \in 1 .. m + n - 1 /\ i # m + n - 1
    OBVIOUS
  <2>4. \A i \in 1 .. m - 1 : cc[i] = a[i]
    BY <1>1, <2>1, <2>3
  <2>5. cc[m] = a[m] \o bb[1]
    <3>1. CASE n = 1
      <4>1. m + n - 1 = m
        BY <3>1
      <4>2. cc[m] = Append(a[m] \o b[1], x) /\ bb[1] = Append(b[1], x)
        BY <1>1, <2>1, <2>2, <3>1, <4>1
      <4> QED
        BY <4>2
    <3>2. CASE n # 1
      <4>1. m \in 1 .. m + n - 1 /\ m # m + n - 1 /\ 1 \in 1 .. n
        BY <3>2
      <4> QED
        BY <1>1, <2>1, <2>2, <3>2, <4>1
    <3> QED
      BY <3>1, <3>2
  <2>6. ASSUME NEW i \in 2 .. n
        PROVE  cc[m + i - 1] = bb[i]
    <3>1. m + i - 1 \in 1 .. m + n - 1 /\ (m + i - 1 = m + n - 1 <=> i = n) /\ i \in 1 .. n
      OBVIOUS
    <3>2. c[m + i - 1] = b[i]
      BY <1>1
    <3>3. CASE i = n
      BY <2>1, <2>2, <3>2, <3>3
    <3>4. CASE i # n
      BY <2>1, <2>2, <3>1, <3>2, <3>4
    <3> QED
      BY <3>3, <3>4
  <2> QED
    BY <2>1, <2>2, <2>4, <2>5, <2>6 DEF Joined
<1> QED
  BY <1>3, <1>4

LEMMA JoinedOn ==
    ASSUME NEW S, NEW x \in S, NEW separator, NEW a \in Some(S \ {separator}),
           NEW b \in Some(S \ {separator}), NEW c \in Some(S \ {separator}), Joined(c, a, b)
    PROVE  Joined(Extended(c, x, separator), a, Extended(b, x, separator))
<1>1. ASSUME NEW v \in Some(S \ {separator})
      PROVE  Longer(Extended(v, x, separator), v, x, separator)
  <2>1. Len(v) \in Nat /\ Len(v) > 0
    BY DEF Some
  <2> DEFINE e == Extended(v, x, separator)
  <2> DEFINE first == x = separator
  <2>2. first => /\ Len(e) = Len(v) + 1
                 /\ \A i \in 1 .. Len(v) : e[i] = v[i]
                 /\ e[Len(v) + 1] = <<>>
    <3> SUFFICES ASSUME first
                 PROVE  /\ Len(e) = Len(v) + 1
                        /\ \A i \in 1 .. Len(v) : e[i] = v[i]
                        /\ e[Len(v) + 1] = <<>>
      OBVIOUS
    <3>1. e = Append(v, <<>>)
      BY DEF Extended
    <3>2. v \in Seq(Seq(S \ {separator})) /\ <<>> \in Seq(S \ {separator})
      BY DEF Some
    <3> QED
      BY <3>1, <3>2
  <2>3. ~ first => /\ Len(e) = Len(v)
                   /\ \A i \in 1 .. Len(v) :
                         e[i] = IF i = Len(v) THEN Append(v[i], x) ELSE v[i]
    BY ExtendedType
  <2> HIDE DEF e
  <2>4. Len(v) \in 1 .. Len(v)
    BY <2>1
  <2>5. ~ first => /\ Len(e) = Len(v)
                   /\ e[Len(v)] = Append(v[Len(v)], x)
                   /\ \A i \in 1 .. Len(v) : i # Len(v) => e[i] = v[i]
    BY <2>3, <2>4
  <2>6. Longer(e, v, x, separator)
    BY <2>2, <2>5 DEF Longer
  <2> QED
    BY <2>6 DEF e
<1>2. /\ Len(a) \in Nat /\ Len(a) > 0 /\ Len(b) \in Nat /\ Len(b) > 0
      /\ a[Len(a)] \in Seq(S) /\ b[1] \in Seq(S)
  <2>1. Seq(S \ {separator}) \subseteq Seq(S)
    OBVIOUS
  <2>2. a \in Seq(Seq(S \ {separator})) /\ b \in Seq(Seq(S \ {separator})) /\ a # <<>> /\ b # <<>>
    BY DEF Some
  <2>3. a \in Seq(Seq(S)) /\ b \in Seq(Seq(S))
    BY <2>1, <2>2, SeqMonotonic
  <2>4. Len(a) \in Nat /\ Len(a) > 0 /\ Len(b) \in Nat /\ Len(b) > 0
    BY <2>2, <2>3
  <2>5. Len(a) \in 1 .. Len(a) /\ 1 \in 1 .. Len(b)
    BY <2>4
  <2> QED
    BY <2>3, <2>4, <2>5, ElementOfSeq
<1>3. Append(a[Len(a)] \o b[1], x) = a[Len(a)] \o Append(b[1], x)
  <2>1. \A u \in Seq(S), v \in Seq(S) : Append(u \o v, x) = u \o Append(v, x)
    OBVIOUS
  <2> QED
    BY <1>2, <2>1
<1> QED
  BY <1>1, <1>2, <1>3, JoinedCounts

LEMMA SplitJoin ==
    ASSUME NEW S, NEW s \in Seq(S), NEW t \in Seq(S), NEW separator
    PROVE  Joined(SplitAt(s \o t, separator), SplitAt(s, separator), SplitAt(t, separator))
<1> DEFINE a == SplitAt(s, separator)
           P(u) == Joined(SplitAt(s \o u, separator), a, SplitAt(u, separator))
           G == {u \in Seq(S) : P(u)}
<1>1. a \in Some(S \ {separator})
  BY SplitType
<1>2. <<>> \in G
  <2>1. s \o <<>> = s
    OBVIOUS
  <2>2. SplitAt(<<>>, separator) = <<<<>>>>
    BY SplitNone
  <2> HIDE DEF a
  <2>3. Len(a) \in Nat /\ Len(a) > 0 /\ a[Len(a)] \in Seq(S \ {separator})
    BY <1>1 DEF Some
  <2>4. a[Len(a)] \o <<>> = a[Len(a)]
    BY <2>3
  <2>5. Joined(a, a, <<<<>>>>)
    BY <2>3, <2>4 DEF Joined
  <2>6. P(<<>>)
    BY <2>1, <2>2, <2>5 DEF a
  <2> QED
    BY <2>6
<1>3. ASSUME NEW u \in Seq(S), NEW x \in S, u \in G
      PROVE  Append(u, x) \in G
  <2>1. s \o Append(u, x) = Append(s \o u, x) /\ s \o u \in Seq(S)
    OBVIOUS
  <2>2. P(u)
    BY <1>3
  <2>3. /\ SplitAt(s \o u, separator) \in Some(S \ {separator})
        /\ SplitAt(u, separator) \in Some(S \ {separator})
    BY <2>1, SplitType
  <2>4. /\ SplitAt(s \o Append(u, x), separator) = Extended(SplitAt(s \o u, separator), x, separator)
        /\ SplitAt(Append(u, x), separator) = Extended(SplitAt(u, separator), x, separator)
    BY <2>1, SplitAppend
  <2> HIDE DEF a
  <2>5. P(Append(u, x))
    BY <1>1, <2>2, <2>3, <2>4, JoinedOn
  <2> QED
    BY <2>5
<1>4. Grows(G, S)
  BY <1>2, <1>3 DEF Grows
<1> HIDE DEF P
<1>5. t \in G
  <2> HIDE DEF G
  <2> QED
    BY <1>4, Growth
<1> QED
  BY <1>5 DEF P

\* A text without separators is one piece.
LEMMA SplitWhole ==
    ASSUME NEW S, NEW separator, separator \notin S, NEW s \in Seq(S)
    PROVE  SplitAt(s, separator) = <<s>>
<1> DEFINE G == {u \in Seq(S) : SplitAt(u, separator) = <<u>>}
<1>1. <<>> \in G
  BY SplitNone
<1>2. ASSUME NEW u \in Seq(S), NEW x \in S, u \in G
      PROVE  Append(u, x) \in G
  <2>1. SplitAt(Append(u, x), separator) = [<<u>> EXCEPT ![1] = Append(@, x)]
    BY <1>2, SplitAppend DEF Extended
  <2>2. [<<u>> EXCEPT ![1] = Append(@, x)] = <<Append(u, x)>>
    OBVIOUS
  <2> QED
    BY <2>1, <2>2
<1>3. Grows(G, S)
  BY <1>1, <1>2 DEF Grows
<1> HIDE DEF G
<1>4. s \in G
  BY <1>3, Growth
<1> QED
  BY <1>4 DEF G

\* A separator ends a piece.
LEMMA SplitEnd ==
    ASSUME NEW S, NEW s \in Seq(S), NEW separator \in S
    PROVE  SplitAt(s \o <<separator>>, separator) = Append(SplitAt(s, separator), <<>>)
<1>1. s \o <<separator>> = Append(s, separator)
  OBVIOUS
<1>2. SplitAt(Append(s, separator), separator) = Extended(SplitAt(s, separator), separator, separator)
  BY SplitAppend
<1>3. \A v : Extended(v, separator, separator) = Append(v, <<>>)
  BY DEF Extended
<1> QED
  BY <1>1, <1>2, <1>3

One(x) == <<x>>

LEMMA SplitBetween ==
    ASSUME NEW S, NEW s \in Seq(S), NEW t \in Seq(S), NEW separator \in S
    PROVE  SplitAt((s \o One(separator)) \o t, separator) =
               SplitAt(s, separator) \o SplitAt(t, separator)
<1> DEFINE a == SplitAt(s, separator)
           aa == SplitAt(s \o <<separator>>, separator)
           b == SplitAt(t, separator)
           c == SplitAt((s \o <<separator>>) \o t, separator)
<1>1. s \o <<separator>> \in Seq(S) /\ (s \o <<separator>>) \o t \in Seq(S)
  OBVIOUS
<1>2. a \in Some(S) /\ b \in Some(S) /\ c \in Some(S)
  BY <1>1, SplitType
<1>3. aa = Append(a, <<>>)
  BY SplitEnd
<1>4. Joined(c, aa, b)
  BY <1>1, SplitJoin
<1> HIDE DEF a, aa, b, c
<1>5. /\ a \in Seq(Seq(S)) /\ b \in Seq(Seq(S)) /\ c \in Seq(Seq(S))
      /\ Len(a) \in Nat /\ Len(b) \in Nat /\ Len(b) > 0
  BY <1>2 DEF Some
<1>6. Len(aa) = Len(a) + 1 /\ aa[Len(a) + 1] = <<>> /\ \A i \in 1 .. Len(a) : aa[i] = a[i]
  BY <1>3, <1>5
<1>7. b[1] \in Seq(S) /\ <<>> \o b[1] = b[1]
  <2>1. b[1] \in Seq(S)
    BY <1>5
  <2> QED
    BY <2>1
<1>8. Len(c) = Len(a) + Len(b)
  BY <1>4, <1>5, <1>6 DEF Joined
<1>9. ASSUME NEW i \in 1 .. Len(a)
      PROVE  c[i] = a[i]
  BY <1>4, <1>5, <1>6 DEF Joined
<1>10. ASSUME NEW i \in 1 .. Len(b)
       PROVE  c[Len(a) + i] = b[i]
  <2>1. CASE i = 1
    BY <1>4, <1>5, <1>6, <1>7, <2>1 DEF Joined
  <2>2. CASE i # 1
    <3>1. i \in 2 .. Len(b)
      BY <1>5, <2>2
    <3>2. \A n \in Nat : (n + 1) + i - 1 = n + i
      BY <1>5
    <3>3. Len(aa) + i - 1 = Len(a) + i
      BY <1>5, <1>6, <3>2
    <3> QED
      BY <1>4, <3>1, <3>3 DEF Joined
  <2> QED
    BY <2>1, <2>2
<1>11. /\ a \o b \in Seq(Seq(S)) /\ Len(a \o b) = Len(a) + Len(b)
       /\ \A i \in 1 .. Len(a) + Len(b) : (a \o b)[i] = IF i <= Len(a) THEN a[i] ELSE b[i - Len(a)]
  BY <1>5, ConcatProperties
<1>12. ASSUME NEW i \in 1 .. Len(a) + Len(b)
       PROVE  c[i] = (a \o b)[i]
  <2>1. CASE i <= Len(a)
    BY <1>5, <1>9, <1>11, <2>1
  <2>2. CASE i > Len(a)
    <3>1. i - Len(a) \in 1 .. Len(b) /\ Len(a) + (i - Len(a)) = i
      BY <1>5, <2>2
    <3>2. c[i] = b[i - Len(a)]
      BY <1>10, <3>1
    <3> QED
      BY <1>5, <1>11, <2>2, <3>2
  <2> QED
    BY <1>5, <2>1, <2>2
<1>13. c = a \o b
  BY <1>5, <1>8, <1>11, <1>12, SeqEqual
<1> QED
  BY <1>13 DEF a, b, c, One

\* Texts ended by separators.
Ended(q, separator) == FlattenSeq([j \in DOMAIN q |-> q[j] \o <<separator>>])

LEMMA EndedNone ==
    ASSUME NEW separator
    PROVE  Ended(<<>>, separator) = <<>>
<1>1. [j \in DOMAIN <<>> |-> <<>>[j] \o <<separator>>] = <<>>
  OBVIOUS
<1> QED
  BY <1>1, FlattenNone DEF Ended

\* Three sequences over one set.
Three(S, a, b, c) == a \in Seq(S) /\ b \in Seq(S) /\ c \in Seq(S)

\* They may be joined from the left or from the right.
LEMMA ConcatThree ==
    ASSUME NEW S, NEW a, NEW b, NEW c, Three(S, a, b, c)
    PROVE  (a \o b) \o c = a \o (b \o c)
BY ConcatAssociative DEF Three

LEMMA EndedAppend ==
    ASSUME NEW S, NEW separator \in S, NEW q \in Seq(Seq(S)), NEW x \in Seq(S)
    PROVE  /\ Ended(q, separator) \in Seq(S)
           /\ Ended(Append(q, x), separator) = Ended(q, separator) \o (x \o <<separator>>)
<1> DEFINE parts(r) == [j \in DOMAIN r |-> r[j] \o <<separator>>]
<1>1. ASSUME NEW r \in Seq(Seq(S))
      PROVE  parts(r) \in Seq(Seq(S)) /\ Len(parts(r)) = Len(r)
             /\ \A j \in 1 .. Len(r) : parts(r)[j] = r[j] \o <<separator>>
  <2>1. DOMAIN r = 1 .. Len(r) /\ Len(r) \in Nat /\ \A j \in 1 .. Len(r) : r[j] \in Seq(S)
    OBVIOUS
  <2>2. ASSUME NEW j \in 1 .. Len(r)
        PROVE  r[j] \o <<separator>> \in Seq(S)
    BY <2>1
  <2>3. parts(r) \in [1 .. Len(r) -> Seq(S)]
    BY <2>1, <2>2
  <2>4. \A j \in 1 .. Len(r) : parts(r)[j] = r[j] \o <<separator>>
    BY <2>1
  <2> HIDE DEF parts
  <2> QED
    BY <2>1, <2>3, <2>4, IsSequence
<1>2. Ended(q, separator) = FlattenSeq(parts(q))
      /\ Ended(Append(q, x), separator) = FlattenSeq(parts(Append(q, x)))
  BY DEF Ended
<1> HIDE DEF parts
<1>3. Ended(q, separator) \in Seq(S)
  BY <1>1, <1>2, FlattenType
<1>4. x \o <<separator>> \in Seq(S)
  OBVIOUS
<1>5. parts(Append(q, x)) = Append(parts(q), x \o <<separator>>)
  <2> DEFINE longer == Append(q, x)
             y == x \o <<separator>>
             n == Len(q)
  <2>1. /\ longer \in Seq(Seq(S)) /\ Len(longer) = n + 1 /\ n \in Nat
        /\ longer[n + 1] = x /\ \A j \in 1 .. n : longer[j] = q[j]
    OBVIOUS
  <2>2. /\ parts(q) \in Seq(Seq(S)) /\ Len(parts(q)) = n
        /\ \A j \in 1 .. n : parts(q)[j] = q[j] \o <<separator>>
    BY <1>1
  <2> HIDE DEF longer
  <2>3. /\ parts(longer) \in Seq(Seq(S)) /\ Len(parts(longer)) = n + 1
        /\ \A j \in 1 .. n + 1 : parts(longer)[j] = longer[j] \o <<separator>>
    BY <1>1, <2>1
  <2> HIDE DEF n
  <2>4. /\ Append(parts(q), y) \in Seq(Seq(S)) /\ Len(Append(parts(q), y)) = n + 1
        /\ \A j \in 1 .. n + 1 : Append(parts(q), y)[j] = IF j = n + 1 THEN y ELSE parts(q)[j]
    BY <1>4, <2>1, <2>2
  <2>5. ASSUME NEW j \in 1 .. n + 1
        PROVE  parts(longer)[j] = Append(parts(q), y)[j]
    <3>1. CASE j = n + 1
      BY <2>1, <2>3, <2>4, <3>1
    <3>2. CASE j # n + 1
      <4>1. j \in 1 .. n
        BY <2>1, <3>2
      <4> QED
        BY <2>1, <2>2, <2>3, <2>4, <3>2, <4>1
    <3> QED
      BY <3>1, <3>2
  <2> HIDE DEF y
  <2>6. parts(longer) = Append(parts(q), y)
    BY <2>3, <2>4, <2>5, SeqEqual
  <2> QED
    BY <2>6 DEF longer, y
<1>6. FlattenSeq(parts(Append(q, x))) = FlattenSeq(parts(q)) \o (x \o <<separator>>)
  BY <1>1, <1>4, <1>5, FlattenAppend
<1> QED
  BY <1>2, <1>3, <1>6

LEMMA JoinedLast ==
    ASSUME NEW T, NEW r \in Seq(Seq(T)), NEW x \in Seq(T), NEW c \in Seq(Seq(T)),
           Joined(c, Append(r, <<>>), <<x>>)
    PROVE  c = Append(r, x)
<1> DEFINE n == Len(r)
           a == Append(r, <<>>)
<1>1. n \in Nat /\ <<>> \in Seq(T)
  OBVIOUS
<1>2. Len(a) = n + 1 /\ a[n + 1] = <<>> /\ \A j \in 1 .. n : a[j] = r[j]
  BY <1>1
<1>3. /\ Append(r, x) \in Seq(Seq(T)) /\ Len(Append(r, x)) = n + 1
      /\ Append(r, x)[n + 1] = x /\ \A j \in 1 .. n : Append(r, x)[j] = r[j]
  BY <1>1
<1> DEFINE d == Append(r, x)
<1> HIDE DEF a, d
<1>4. <<>> \o x = x /\ Len(<<x>>) = 1 /\ <<x>>[1] = x
  OBVIOUS
<1>5. /\ Len(c) = Len(a) + 1 - 1
      /\ \A i \in 1 .. Len(a) - 1 : c[i] = a[i]
      /\ c[Len(a)] = a[Len(a)] \o x
  BY <1>4 DEF Joined, a
<1> HIDE DEF n
<1>6. Len(c) = n + 1 /\ c[n + 1] = x /\ \A j \in 1 .. n : c[j] = r[j]
  <2>1. (n + 1) - 1 = n /\ (n + 1) + 1 - 1 = n + 1
    BY <1>1
  <2>2. Len(c) = n + 1 /\ \A j \in 1 .. n : c[j] = a[j]
    BY <1>2, <1>5, <2>1
  <2>3. c[n + 1] = <<>> \o x
    BY <1>2, <1>5
  <2> QED
    BY <1>2, <1>4, <2>2, <2>3
<1>7. ASSUME NEW j \in 1 .. n + 1
      PROVE  c[j] = d[j]
  <2>1. CASE j = n + 1
    BY <1>3, <1>6, <2>1 DEF d
  <2>2. CASE j # n + 1
    <3>1. j \in 1 .. n
      BY <1>1, <2>2
    <3> QED
      BY <1>3, <1>6, <3>1 DEF d
  <2> QED
    BY <2>1, <2>2
<1>8. d \in Seq(Seq(T)) /\ Len(d) = n + 1
  BY <1>3 DEF d
<1>9. c = d
  BY <1>6, <1>7, <1>8, SeqEqual
<1> QED
  BY <1>9 DEF d

\* ... give these texts again, and what comes after the last separator.
LEMMA SplitEnded ==
    ASSUME NEW S, NEW separator, separator \notin S,
           NEW q \in Seq(Seq(S)), NEW t \in Seq(S)
    PROVE  SplitAt(Ended(q, separator) \o t, separator) = Append(q, t)
<1> DEFINE T == S \cup {separator}
           P(r) == SplitAt(Ended(r, separator), separator) = Append(r, <<>>)
           G == {r \in Seq(Seq(S)) : P(r)}
<1>1. Seq(S) \subseteq Seq(T) /\ separator \in T
  OBVIOUS
<1>2. ASSUME NEW r \in Seq(Seq(S))
      PROVE  Ended(r, separator) \in Seq(T) /\ r \in Seq(Seq(T))
  <2>1. r \in Seq(Seq(T))
    BY <1>1, SeqMonotonic
  <2>2. <<>> \in Seq(T)
    OBVIOUS
  <2> QED
    BY <1>1, <2>1, <2>2, EndedAppend
<1>3. <<>> \in G
  BY EndedNone, SplitNone
<1>4. ASSUME NEW r \in Seq(Seq(S)), NEW x \in Seq(S), r \in G
      PROVE  Append(r, x) \in G
  <2>1. x \in Seq(T) /\ Ended(r, separator) \in Seq(T) /\ r \in Seq(Seq(T))
    BY <1>1, <1>2
  <2>2. Ended(Append(r, x), separator) = Ended(r, separator) \o (x \o <<separator>>)
    <3> HIDE DEF T, P, G
    <3>1. separator \in T /\ Ended(r, separator) \in Seq(T)
      BY <1>1, <2>1
    <3> QED
      BY <2>1, <3>1, EndedAppend
  <2>3. Ended(r, separator) \o (x \o <<separator>>) = (Ended(r, separator) \o x) \o <<separator>>
    <3>1. <<separator>> \in Seq(T)
      OBVIOUS
    <3>2. Three(T, Ended(r, separator), x, <<separator>>)
      BY <2>1, <3>1 DEF Three
    <3> QED
      BY <3>2, ConcatThree
  <2>4. Ended(r, separator) \o x \in Seq(T)
    BY <2>1
  <2>5. SplitAt((Ended(r, separator) \o x) \o <<separator>>, separator) =
            Append(SplitAt(Ended(r, separator) \o x, separator), <<>>)
    BY <1>1, <2>4, SplitEnd
  <2>6. SplitAt(Ended(r, separator) \o x, separator) = Append(r, x)
    <3> DEFINE c == SplitAt(Ended(r, separator) \o x, separator)
               a == Append(r, <<>>)
    <3>1. Joined(c, a, <<x>>)
      <4>1. SplitAt(x, separator) = <<x>>
        BY SplitWhole
      <4>2. SplitAt(Ended(r, separator), separator) = a
        BY <1>4
      <4>3. Joined(c, SplitAt(Ended(r, separator), separator), SplitAt(x, separator))
        BY <2>1, SplitJoin
      <4> QED
        BY <4>1, <4>2, <4>3
    <3>2. c \in Seq(Seq(T))
      BY <2>4, SplitType DEF Some
    <3> HIDE DEF c
    <3>3. c = Append(r, x)
      BY <2>1, <3>1, <3>2, JoinedLast
    <3> QED
      BY <3>3 DEF c
  <2>7. P(Append(r, x))
    BY <2>2, <2>3, <2>5, <2>6
  <2> HIDE DEF P
  <2> QED
    BY <2>7
<1>5. Grows(G, Seq(S))
  BY <1>3, <1>4 DEF Grows
<1> HIDE DEF P
<1>6. P(q)
  <2>1. q \in G
    <3> HIDE DEF G
    <3> QED
      BY <1>5, Growth
  <2> QED
    BY <2>1
<1>7. t \in Seq(T) /\ Ended(q, separator) \in Seq(T) /\ q \in Seq(Seq(T))
  BY <1>1, <1>2
<1> DEFINE c == SplitAt(Ended(q, separator) \o t, separator)
           a == Append(q, <<>>)
<1>8. Joined(c, a, <<t>>)
  <2>1. SplitAt(t, separator) = <<t>>
    BY SplitWhole
  <2>2. SplitAt(Ended(q, separator), separator) = a
    BY <1>6 DEF P
  <2>3. Joined(c, SplitAt(Ended(q, separator), separator), SplitAt(t, separator))
    BY <1>7, SplitJoin
  <2> QED
    BY <2>1, <2>2, <2>3
<1>9. c \in Seq(Seq(T))
  <2>1. Ended(q, separator) \o t \in Seq(T)
    BY <1>7
  <2> QED
    BY <2>1, SplitType DEF Some
<1> HIDE DEF c
<1>10. c = Append(q, t)
  BY <1>7, <1>8, <1>9, JoinedLast
<1> QED
  BY <1>10 DEF c
-----------------------------------------------------------------------------
(* FlattenSeq of longer sequences                                          *)

LEMMA FlattenJoined ==
    ASSUME NEW S, NEW p \in Seq(Seq(S)), NEW q \in Seq(Seq(S))
    PROVE  FlattenSeq(p \o q) = FlattenSeq(p) \o FlattenSeq(q)
<1> DEFINE G == {u \in Seq(Seq(S)) : FlattenSeq(p \o u) = FlattenSeq(p) \o FlattenSeq(u)}
<1>1. FlattenSeq(p) \in Seq(S)
  BY FlattenType
<1>2. <<>> \in G
  <2>1. p \o <<>> = p
    OBVIOUS
  <2>2. FlattenSeq(p) \o <<>> = FlattenSeq(p)
    BY <1>1
  <2>3. FlattenSeq(p \o <<>>) = FlattenSeq(p) \o FlattenSeq(<<>>)
    BY <2>1, <2>2, FlattenNone
  <2> QED
    BY <2>3
<1>3. ASSUME NEW u \in Seq(Seq(S)), NEW x \in Seq(S), u \in G
      PROVE  Append(u, x) \in G
  <2>1. p \o Append(u, x) = Append(p \o u, x) /\ p \o u \in Seq(Seq(S))
    OBVIOUS
  <2>2. FlattenSeq(Append(p \o u, x)) = FlattenSeq(p \o u) \o x
    BY <2>1, FlattenAppend
  <2>3. FlattenSeq(Append(u, x)) = FlattenSeq(u) \o x
    BY FlattenAppend
  <2>4. FlattenSeq(u) \in Seq(S)
    BY FlattenType
  <2>5. (FlattenSeq(p) \o FlattenSeq(u)) \o x = FlattenSeq(p) \o (FlattenSeq(u) \o x)
    <3>1. Three(S, FlattenSeq(p), FlattenSeq(u), x)
      BY <1>1, <2>4 DEF Three
    <3> QED
      BY <3>1, ConcatThree
  <2>6. FlattenSeq(p \o u) = FlattenSeq(p) \o FlattenSeq(u)
    BY <1>3
  <2>7. FlattenSeq(p \o Append(u, x)) = FlattenSeq(p) \o FlattenSeq(Append(u, x))
    BY <2>1, <2>2, <2>3, <2>5, <2>6
  <2> QED
    BY <2>7
<1>4. Grows(G, Seq(S))
  BY <1>2, <1>3 DEF Grows
<1> HIDE DEF G
<1>5. q \in G
  BY <1>4, Growth
<1> QED
  BY <1>5 DEF G

LEMMA FlattenOne ==
    ASSUME NEW S, NEW x \in Seq(S)
    PROVE  FlattenSeq(<<x>>) = x
<1>1. <<x>> = Append(<<>>, x) /\ <<>> \in Seq(Seq(S)) /\ <<>> \o x = x
  OBVIOUS
<1>2. FlattenSeq(Append(<<>>, x)) = FlattenSeq(<<>>) \o x
  BY <1>1, FlattenAppend
<1> QED
  BY <1>1, <1>2, FlattenNone

\* What is left to write is the next piece and what is left after it.
LEMMA FlattenNext ==
    ASSUME NEW S, NEW q \in Seq(Seq(S)), q # <<>>
    PROVE  /\ q[1] \in Seq(S) /\ Tail(q) \in Seq(Seq(S))
           /\ FlattenSeq(q) = q[1] \o FlattenSeq(Tail(q))
<1>1. q[1] \in Seq(S) /\ Tail(q) \in Seq(Seq(S))
  OBVIOUS
<1>2. q = <<q[1]>> \o Tail(q) /\ <<q[1]>> \in Seq(Seq(S))
  <2>1. q = <<Head(q)>> \o Tail(q)
    BY HeadTailProperties
  <2> QED
    BY <1>1, <2>1
<1>3. FlattenSeq(<<q[1]>> \o Tail(q)) = FlattenSeq(<<q[1]>>) \o FlattenSeq(Tail(q))
  BY <1>1, <1>2, FlattenJoined
<1>4. FlattenSeq(<<q[1]>>) = q[1]
  BY <1>1, FlattenOne
<1> QED
  BY <1>1, <1>2, <1>3, <1>4

\* Pieces made of pieces: p[i] gives the text t[i].
LEMMA FlattenTwice ==
    ASSUME NEW S, NEW p \in Seq(Seq(Seq(S))), NEW t \in Seq(Seq(S)), Len(t) = Len(p),
           \A i \in 1 .. Len(p) : t[i] = FlattenSeq(p[i])
    PROVE  FlattenSeq(FlattenSeq(p)) = FlattenSeq(t)
<1> DEFINE Q == Seq(Seq(S))
<1>1. PICK f : Flattens(f, p, Seq(S)) /\ FlattenSeq(p) = f[Len(p)]
  BY FlattenRuns
<1>2. PICK g : Flattens(g, t, S) /\ FlattenSeq(t) = g[Len(t)]
  BY FlattenRuns
<1> DEFINE N == Len(p)
           h == [k \in 0 .. N |-> FlattenSeq(f[k])]
<1>3. N \in Nat
  OBVIOUS
<1>4. ASSUME NEW k \in 0 .. N, k < N, h[k] = g[k]
      PROVE  h[k + 1] = g[k + 1]
  <2>1. f[k + 1] = f[k] \o p[k + 1] /\ f[k] \in Seq(Seq(S))
    BY <1>1, <1>3, <1>4 DEF Flattens
  <2>2. g[k + 1] = g[k] \o t[k + 1]
    BY <1>2, <1>3, <1>4 DEF Flattens
  <2>3. k + 1 \in 1 .. Len(p) /\ k + 1 \in 0 .. N
    BY <1>3, <1>4
  <2>4. p[k + 1] \in Seq(Seq(S)) /\ t[k + 1] = FlattenSeq(p[k + 1])
    BY <2>3
  <2>5. FlattenSeq(f[k] \o p[k + 1]) = FlattenSeq(f[k]) \o FlattenSeq(p[k + 1])
    BY <2>1, <2>4, FlattenJoined
  <2> QED
    BY <1>4, <2>1, <2>2, <2>3, <2>4, <2>5
<1>5. h[0] = g[0]
  <2>1. f[0] = <<>> /\ g[0] = <<>>
    BY <1>1, <1>2 DEF Flattens
  <2> QED
    BY <1>3, <2>1, FlattenNone
<1>6. N \in 0 .. N
  BY <1>3
<1>7. h[N] = FlattenSeq(FlattenSeq(p))
  BY <1>1, <1>6
<1> HIDE DEF h
<1>8. g[N] = FlattenSeq(t)
  BY <1>2
<1> HIDE DEF N
<1>9. h[N] = g[N]
  BY <1>3, <1>4, <1>5, Agreement
<1> QED
  BY <1>7, <1>8, <1>9
-----------------------------------------------------------------------------
(* The least of a set, and the first of a text.                            *)

LEMMA MinIsLeast ==
    ASSUME NEW n \in Nat, NEW I \in SUBSET (0 .. n), I # {}
    PROVE  Min(I) \in I /\ \A i \in I : Min(I) <= i
<1> DEFINE Least(x) == \A i \in I : x <= i
<1>1. \E x \in I : Least(x)
  <2> SUFFICES ASSUME ~ \E x \in I : Least(x)
               PROVE  FALSE
    OBVIOUS
  <2> DEFINE Above == {k \in 0 .. n : \A i \in I : k <= i}
  <2>1. 0 \in Above
    OBVIOUS
  <2>2. ASSUME NEW k \in 0 .. n, k \in Above, k < n
        PROVE  k + 1 \in Above
    <3>1. k \notin I
      BY <2>2
    <3> QED
      BY <2>2, <3>1
  <2> HIDE DEF Above
  <2>3. \A k \in 0 .. n : k \in Above
    BY <2>1, <2>2, Stepwise
  <2>4. PICK x \in I : TRUE
    OBVIOUS
  <2> QED
    BY <2>3, <2>4 DEF Above
<1>2. Min(I) = CHOOSE x \in I : Least(x)
  BY DEF Min
<1> HIDE DEF Least
<1>3. Min(I) \in I /\ Least(Min(I))
  BY <1>1, <1>2
<1> QED
  BY <1>3 DEF Least

LEMMA MinOfTwo ==
    ASSUME NEW m \in Nat, NEW n \in Nat
    PROVE  Min({m, n}) = IF m <= n THEN m ELSE n
<1>1. {m, n} \in SUBSET (0 .. m + n) /\ {m, n} # {}
  OBVIOUS
<1>2. Min({m, n}) \in {m, n} /\ \A i \in {m, n} : Min({m, n}) <= i
  BY <1>1, MinIsLeast
<1> QED
  BY <1>2

\* What comes before the first of some characters has none of them.
LEMMA CutBefore ==
    ASSUME NEW S, NEW line \in Seq(S), NEW Ends,
           NEW I, I = {i \in 1 .. Len(line) : line[i] \in Ends}
    PROVE  /\ I = {} => line \in Seq(S \ Ends)
           /\ I # {} => /\ Min(I) \in 1 .. Len(line)
                        /\ SubSeq(line, 1, Min(I) - 1) \in Seq(S \ Ends)
<1>1. Len(line) \in Nat
  OBVIOUS
<1>2. /\ I \in SUBSET (0 .. Len(line)) /\ I \subseteq 1 .. Len(line)
      /\ \A i \in 1 .. Len(line) : line[i] \in Ends => i \in I
  OBVIOUS
<1>3. CASE I = {}
  <2>1. line \in [1 .. Len(line) -> S \ Ends]
    BY <1>2, <1>3
  <2>2. line \in Seq(S \ Ends)
    BY <1>1, <2>1
  <2> QED
    BY <1>3, <2>2
<1>4. CASE I # {}
  <2> DEFINE m == Min(I)
  <2>1. m \in I /\ \A i \in I : m <= i
    BY <1>1, <1>2, <1>4, MinIsLeast
  <2>2. m \in 1 .. Len(line)
    BY <1>2, <2>1
  <2> HIDE DEF m
  <2>3. 1 \in 1 .. Len(line) + 1 /\ m - 1 \in 1 - 1 .. Len(line) /\ m - 1 - 1 + 1 = m - 1
    BY <1>1, <2>2
  <2> DEFINE cut == SubSeq(line, 1, m - 1)
  <2>4. cut \in Seq(S) /\ Len(cut) = m - 1 /\ \A i \in 1 .. m - 1 : cut[i] = line[1 + i - 1]
    BY <2>3, Cut
  <2>5. ASSUME NEW i \in 1 .. m - 1
        PROVE  cut[i] \notin Ends
    <3>1. i \in 1 .. Len(line) /\ 1 + i - 1 = i /\ ~ (m <= i)
      BY <1>1, <2>2
    <3> QED
      BY <1>2, <2>1, <2>4, <3>1
  <2> HIDE DEF cut
  <2>6. m - 1 \in Nat
    BY <1>1, <2>2
  <2>7. cut \in [1 .. m - 1 -> S \ Ends]
    BY <2>4, <2>5, <2>6
  <2>8. cut \in Seq(S \ Ends)
    BY <2>6, <2>7
  <2> QED
    BY <1>4, <2>2, <2>8 DEF cut, m
<1> QED
  BY <1>3, <1>4

\* strncpy leaves nothing behind a zero byte, and a line without one alone.
LEMMA UpToZeroType ==
    ASSUME NEW S, NEW line \in Seq(S)
    PROVE  /\ UpToZero(line) \in Seq(S \ {"ZERO"})
           /\ "ZERO" \notin S => UpToZero(line) = line
<1> DEFINE I == {i \in 1 .. Len(line) : line[i] = "ZERO"}
           z == SelectInSeq(line, LAMBDA x : x = "ZERO")
<1>1. z = IF I # {} THEN Min(I) ELSE 0
  BY DEF SelectInSeq
<1>2. UpToZero(line) = IF z = 0 THEN line ELSE SubSeq(line, 1, z - 1)
  BY DEF UpToZero
<1>3. I = {i \in 1 .. Len(line) : line[i] \in {"ZERO"}}
  OBVIOUS
<1>4. "ZERO" \notin S => I = {}
  OBVIOUS
<1> HIDE DEF I, z
<1>5. /\ I = {} => line \in Seq(S \ {"ZERO"})
      /\ I # {} => /\ Min(I) \in 1 .. Len(line)
                   /\ SubSeq(line, 1, Min(I) - 1) \in Seq(S \ {"ZERO"})
  BY <1>3, CutBefore
<1>6. CASE I = {}
  BY <1>1, <1>2, <1>5, <1>6
<1>7. CASE I # {}
  <2>1. z # 0 /\ z = Min(I)
    BY <1>1, <1>5, <1>7
  <2> QED
    BY <1>2, <1>4, <1>5, <1>7, <2>1
<1> QED
  BY <1>6, <1>7

\* What strtok finds of a line: the first value ends at a space or at a tab.
Found(first, after) == <<first>> \o NonEmpty(SplitAt(after, "TAB"))

\* A row of n values.
Filled(found, n) == [j \in 1 .. n |-> IF j <= Len(found) THEN found[j] ELSE Unset]

LEMMA LineLoads ==
    ASSUME NEW S, NEW w \in Seq(S \ {"SP", "TAB"}), w # <<>>, NEW c \in S,
           c \in {"SP", "TAB"}, NEW after \in Seq(S), NEW n \in Nat
    PROVE  ReadRow(w \o (<<c>> \o after), n) = Filled(Found(w, after), n)
<1> DEFINE line == w \o (<<c>> \o after)
           I == {i \in 1 .. Len(line) : line[i] \in {"SP", "TAB"}}
           d == SelectInSeq(line, LAMBDA x : x \in {"SP", "TAB"})
           m == Len(w)
<1>1. m \in Nat /\ m > 0 /\ \A i \in 1 .. m : w[i] \notin {"SP", "TAB"}
  OBVIOUS
<1>2. /\ Len(after) \in Nat /\ w \in Seq(S) /\ <<c>> \o after \in Seq(S)
      /\ Len(<<c>> \o after) = 1 + Len(after)
      /\ (<<c>> \o after)[1] = c /\ \A i \in 1 .. Len(after) : (<<c>> \o after)[1 + i] = after[i]
  OBVIOUS
<1> DEFINE t == <<c>> \o after
<1> HIDE DEF t
<1>3. /\ w \o t \in Seq(S) /\ Len(w \o t) = Len(w) + Len(t)
      /\ \A i \in 1 .. Len(w) + Len(t) : (w \o t)[i] = IF i <= Len(w) THEN w[i] ELSE t[i - Len(w)]
  BY <1>2, ConcatProperties DEF t
<1>4. /\ line \in Seq(S) /\ Len(line) = m + (1 + Len(after))
      /\ \A i \in 1 .. m : line[i] = w[i]
      /\ line[m + 1] = c
      /\ \A i \in 1 .. Len(after) : line[m + 1 + i] = after[i]
  <2>1. line = w \o t /\ Len(t) = 1 + Len(after) /\ t[1] = c
        /\ \A i \in 1 .. Len(after) : t[1 + i] = after[i]
    BY <1>2 DEF t
  <2> HIDE DEF line
  <2>2. line \in Seq(S) /\ Len(line) = m + (1 + Len(after))
    BY <1>3, <2>1
  <2>3. ASSUME NEW i \in 1 .. m
        PROVE  line[i] = w[i]
    <3>1. i \in 1 .. Len(w) + Len(t) /\ i <= Len(w)
      BY <1>1, <1>2, <2>1
    <3> QED
      BY <1>3, <2>1, <3>1
  <2>4. line[m + 1] = c
    <3>1. m + 1 \in 1 .. Len(w) + Len(t) /\ ~ (m + 1 <= Len(w)) /\ (m + 1) - Len(w) = 1
      BY <1>1, <1>2, <2>1
    <3> QED
      BY <1>3, <2>1, <3>1
  <2>5. ASSUME NEW i \in 1 .. Len(after)
        PROVE  line[m + 1 + i] = after[i]
    <3>1. /\ m + 1 + i \in 1 .. Len(w) + Len(t) /\ ~ (m + 1 + i <= Len(w))
          /\ (m + 1 + i) - Len(w) = 1 + i
      BY <1>1, <1>2, <2>1
    <3> QED
      BY <1>3, <2>1, <3>1
  <2> QED
    BY <2>2, <2>3, <2>4, <2>5
<1>5. d = IF I # {} THEN Min(I) ELSE 0
  BY DEF SelectInSeq
<1> DEFINE first == IF d = 0 THEN line ELSE SubSeq(line, 1, d - 1)
           rest == IF d = 0 THEN <<>> ELSE NonEmpty(SplitAt(SubSeq(line, d + 1, Len(line)), "TAB"))
           found == IF first = <<>> THEN <<>> ELSE <<first>> \o rest
<1>6. ReadRow(line, n) = Filled(found, n)
  BY DEF ReadRow, Filled
<1> HIDE DEF line
<1>7. d = m + 1
  <2>1. Len(line) \in Nat /\ I \in SUBSET (0 .. Len(line)) /\ I \subseteq 1 .. Len(line)
    BY <1>4
  <2>2. m + 1 \in I
    BY <1>1, <1>2, <1>4
  <2>3. \A i \in I : ~ (i <= m)
    BY <1>1, <1>4
  <2> HIDE DEF I, d
  <2>4. Min(I) \in I /\ \A i \in I : Min(I) <= i
    BY <2>1, <2>2, MinIsLeast
  <2>5. Min(I) <= m + 1 /\ ~ (Min(I) <= m) /\ Min(I) \in 1 .. Len(line)
    BY <2>1, <2>2, <2>3, <2>4
  <2> QED
    BY <1>1, <1>5, <2>1, <2>2, <2>5
<1> HIDE DEF d
<1>8. SubSeq(line, 1, m) = w
  <2>1. 1 \in 1 .. Len(line) + 1 /\ m \in 1 - 1 .. Len(line) /\ m - 1 + 1 = m
    BY <1>1, <1>2, <1>4
  <2>2. /\ SubSeq(line, 1, m) \in Seq(S) /\ Len(SubSeq(line, 1, m)) = m
        /\ \A i \in 1 .. m : SubSeq(line, 1, m)[i] = line[1 + i - 1]
    BY <1>4, <2>1, Cut
  <2>3. ASSUME NEW i \in 1 .. m
        PROVE  SubSeq(line, 1, m)[i] = w[i]
    <3>1. 1 + i - 1 = i
      BY <1>1
    <3> QED
      BY <1>4, <2>2, <3>1
  <2> QED
    BY <1>2, <2>2, <2>3, SeqEqual
<1>9. SubSeq(line, m + 2, Len(line)) = after
  <2> DEFINE l == Len(after)
             k == Len(line)
  <2>1. k = m + (1 + l) /\ l \in Nat /\ k \in Nat
    BY <1>1, <1>2, <1>4
  <2>2. m + 2 \in 1 .. k + 1 /\ k \in (m + 2) - 1 .. k /\ k - (m + 2) + 1 = l
    BY <1>1, <2>1
  <2> DEFINE cut == SubSeq(line, m + 2, k)
  <2>3. cut \in Seq(S) /\ Len(cut) = l /\ \A i \in 1 .. l : cut[i] = line[m + 2 + i - 1]
    BY <1>4, <2>2, Cut
  <2>4. ASSUME NEW i \in 1 .. l
        PROVE  cut[i] = after[i]
    <3>1. m + 2 + i - 1 = m + 1 + i
      BY <1>1, <2>1
    <3> QED
      BY <1>4, <2>3, <3>1
  <2> HIDE DEF cut
  <2>5. cut = after
    BY <2>3, <2>4, SeqEqual
  <2> QED
    BY <2>5 DEF cut
<1>10. first = w
  <2>1. d # 0 /\ d - 1 = m
    BY <1>1, <1>7
  <2> QED
    BY <1>8, <2>1
<1>11. rest = NonEmpty(SplitAt(after, "TAB"))
  <2>1. d # 0 /\ d + 1 = m + 2
    BY <1>1, <1>7
  <2> QED
    BY <1>9, <2>1
<1> HIDE DEF first, rest
<1>12. found = Found(w, after)
  BY <1>10, <1>11 DEF Found
<1> HIDE DEF found
<1> QED
  BY <1>6, <1>12 DEF line
-----------------------------------------------------------------------------
(* Rows.                                                                   *)

LEMMA EndedType ==
    ASSUME NEW S, NEW separator, NEW q \in Seq(Seq(S))
    PROVE  Ended(q, separator) \in Seq(S \cup {separator})
<1> DEFINE T == S \cup {separator}
<1>1. Seq(S) \subseteq Seq(T) /\ separator \in T /\ <<>> \in Seq(T)
  OBVIOUS
<1>2. q \in Seq(Seq(T))
  BY <1>1, SeqMonotonic
<1> HIDE DEF T
<1>3. Ended(q, separator) \in Seq(T)
  BY <1>1, <1>2, EndedAppend
<1> QED
  BY <1>3 DEF T

LEMMA EndedJoined ==
    ASSUME NEW S, NEW separator \in S, NEW p \in Seq(Seq(S)), NEW q \in Seq(Seq(S))
    PROVE  Ended(p \o q, separator) = Ended(p, separator) \o Ended(q, separator)
<1> DEFINE P(u) == Ended(p \o u, separator) = Ended(p, separator) \o Ended(u, separator)
           G == {u \in Seq(Seq(S)) : P(u)}
<1>1. \A u \in Seq(Seq(S)) : Ended(u, separator) \in Seq(S)
  <2>1. <<>> \in Seq(S)
    OBVIOUS
  <2> QED
    BY <2>1, EndedAppend
<1>2. <<>> \in G
  <2>1. p \o <<>> = p
    OBVIOUS
  <2>2. Ended(p, separator) \o <<>> = Ended(p, separator)
    BY <1>1
  <2>3. P(<<>>)
    BY <2>1, <2>2, EndedNone
  <2> QED
    BY <2>3
<1>3. ASSUME NEW u \in Seq(Seq(S)), NEW x \in Seq(S), u \in G
      PROVE  Append(u, x) \in G
  <2> DEFINE y == x \o <<separator>>
  <2>1. p \o Append(u, x) = Append(p \o u, x) /\ p \o u \in Seq(Seq(S)) /\ y \in Seq(S)
    OBVIOUS
  <2> HIDE DEF y
  <2>2. /\ Ended(Append(p \o u, x), separator) = Ended(p \o u, separator) \o y
        /\ Ended(Append(u, x), separator) = Ended(u, separator) \o y
    BY <2>1, EndedAppend DEF y
  <2> DEFINE a == Ended(p, separator)
             b == Ended(u, separator)
  <2>3. (a \o b) \o y = a \o (b \o y)
    <3>1. a \in Seq(S) /\ b \in Seq(S) /\ y \in Seq(S)
      BY <1>1, <2>1
    <3>2. Three(S, a, b, y)
      BY <3>1 DEF Three
    <3> HIDE DEF a, b, y, P, G
    <3> QED
      BY <3>2, ConcatThree
  <2>4. P(u)
    BY <1>3
  <2>5. P(Append(u, x))
    BY <2>1, <2>2, <2>3, <2>4
  <2> QED
    BY <2>5
<1>4. Grows(G, Seq(S))
  BY <1>2, <1>3 DEF Grows
<1> HIDE DEF P
<1>5. q \in G
  <2> HIDE DEF G
  <2> QED
    BY <1>4, Growth
<1> QED
  BY <1>5 DEF P

LEMMA EndedOne ==
    ASSUME NEW S, NEW separator \in S, NEW x \in Seq(S)
    PROVE  Ended(<<x>>, separator) = x \o <<separator>>
<1>1. <<x>> = Append(<<>>, x) /\ <<>> \in Seq(Seq(S)) /\ <<>> \o (x \o <<separator>>) = x \o <<separator>>
  OBVIOUS
<1>2. Ended(Append(<<>>, x), separator) = Ended(<<>>, separator) \o (x \o <<separator>>)
  BY <1>1, EndedAppend
<1> QED
  BY <1>1, <1>2, EndedNone

LEMMA SplitParts ==
    ASSUME NEW S, NEW separator, separator \notin S, NEW q \in Seq(Seq(S))
    PROVE  SplitAt(Ended(q, separator), separator) = Append(q, <<>>)
<1>1. <<>> \in Seq(S) /\ Ended(q, separator) \in Seq(S \cup {separator})
  BY EndedType
<1>2. Ended(q, separator) \o <<>> = Ended(q, separator)
  BY <1>1
<1>3. SplitAt(Ended(q, separator) \o <<>>, separator) = Append(q, <<>>)
  BY <1>1, SplitEnded
<1> QED
  BY <1>2, <1>3

\* The parts that are not empty come back, with an empty one before them or without.
LEMMA PartsComeBack ==
    ASSUME NEW S, NEW separator, separator \notin S, NEW q \in Seq(Seq(S) \ {<<>>})
    PROVE  /\ NonEmpty(SplitAt(Ended(q, separator), separator)) = q
           /\ NonEmpty(SplitAt(<<separator>> \o Ended(q, separator), separator)) = q
<1> DEFINE T == S \cup {separator}
           e == Ended(q, separator)
<1>1. q \in Seq(Seq(S)) /\ <<>> \in Seq(S)
  <2>1. Seq(S) \ {<<>>} \subseteq Seq(S)
    OBVIOUS
  <2> QED
    BY <2>1, SeqMonotonic
<1>2. e \in Seq(T) /\ separator \in T /\ <<>> \in Seq(T)
  BY <1>1, EndedType
<1> HIDE DEF T
<1>3. SplitAt(e, separator) = Append(q, <<>>)
  BY <1>1, SplitParts
<1>4. NonEmpty(Append(q, <<>>)) = q
  <2>1. NonEmpty(Append(q, <<>>)) = NonEmpty(q)
    BY <1>1, NonEmptyAppend
  <2>2. NonEmpty(q) = q
    <3>1. <<>> \notin Seq(S) \ {<<>>}
      OBVIOUS
    <3> QED
      BY <3>1, NonEmptyAll
  <2> QED
    BY <2>1, <2>2
<1> HIDE DEF e
<1>5. SplitAt(<<separator>> \o e, separator) = <<<<>>>> \o Append(q, <<>>)
  <2>1. SplitAt((<<>> \o One(separator)) \o e, separator) =
            SplitAt(<<>>, separator) \o SplitAt(e, separator)
    <3> DEFINE none == <<>>
    <3>1. none \in Seq(T)
      BY <1>2
    <3> HIDE DEF none
    <3>2. SplitAt((none \o One(separator)) \o e, separator) =
              SplitAt(none, separator) \o SplitAt(e, separator)
      BY <1>2, <3>1, SplitBetween
    <3> QED
      BY <3>2 DEF none
  <2>2. <<>> \o One(separator) = <<separator>>
    BY DEF One
  <2> QED
    BY <1>3, <2>1, <2>2, SplitNone
<1>6. NonEmpty(<<<<>>>> \o Append(q, <<>>)) = NonEmpty(Append(q, <<>>))
  <2>1. Append(q, <<>>) \in Seq(Seq(S))
    BY <1>1
  <2> QED
    BY <1>1, <2>1, NonEmptyAfter
<1> QED
  BY <1>3, <1>4, <1>5, <1>6 DEF e

\* What comes from the first character that is no separator: some of the line, and
\* all of it when the line begins there.
LEMMA TrimmedType ==
    ASSUME NEW S, NEW line \in Seq(S)
    PROVE  /\ Trimmed(line) \in Seq(S)
           /\ (line # <<>> /\ line[1] \notin {"SP", "TAB"}) => Trimmed(line) = line
<1> DEFINE I == {i \in 1 .. Len(line) : line[i] \notin {"SP", "TAB"}}
           d == SelectInSeq(line, LAMBDA x : x \notin {"SP", "TAB"})
<1>1. d = IF I # {} THEN Min(I) ELSE 0
  BY DEF SelectInSeq
<1>2. Trimmed(line) = IF d = 0 THEN <<>> ELSE SubSeq(line, d, Len(line))
  BY DEF Trimmed
<1>3. /\ Len(line) \in Nat /\ I \in SUBSET (0 .. Len(line)) /\ I \subseteq 1 .. Len(line)
      /\ (line # <<>> /\ line[1] \notin {"SP", "TAB"}) => 1 \in I
  OBVIOUS
<1> HIDE DEF I, d
<1>4. CASE I = {}
  BY <1>1, <1>2, <1>3, <1>4
<1>5. CASE I # {}
  <2>1. d = Min(I) /\ d \in I /\ \A i \in I : d <= i
    BY <1>1, <1>3, <1>5, MinIsLeast
  <2>2. d \in 1 .. Len(line) /\ d # 0
    BY <1>3, <2>1
  <2>3. SubSeq(line, d, Len(line)) \in Seq(S)
    BY <1>3, <2>2
  <2>4. ASSUME 1 \in I
        PROVE  SubSeq(line, d, Len(line)) = line
    <3>1. d = 1
      BY <1>3, <2>1, <2>2, <2>4
    <3> QED
      BY <3>1
  <2> QED
    BY <1>2, <1>3, <2>2, <2>3, <2>4
<1> QED
  BY <1>4, <1>5

\* A row that was written is loaded again, without the space after its first value.
LEMMA RowComesBack ==
    ASSUME NEW S, "TAB" \notin S, "ZERO" \notin S,
           NEW w \in Seq(S \ {"SP"}), w # <<>>, NEW rest \in Seq(Seq(S) \ {<<>>}),
           NEW first \in Seq(S), first = w \/ first = w \o <<"SP">>
    PROVE  LoadedRow(UpToZero(Ended(<<first>> \o rest, "TAB")), Len(rest) + 1) = <<w>> \o rest
<1> DEFINE T == S \cup {"SP", "TAB"}
           e == Ended(rest, "TAB")
           line == Ended(<<first>> \o rest, "TAB")
           n == Len(rest) + 1
<1>1. rest \in Seq(Seq(S)) /\ n \in Nat
  <2>1. Seq(S) \ {<<>>} \subseteq Seq(S)
    OBVIOUS
  <2> QED
    BY <2>1, SeqMonotonic
<1>2. e \in Seq(T)
  <2>1. e \in Seq(S \cup {"TAB"})
    BY <1>1, EndedType
  <2>2. Seq(S \cup {"TAB"}) \subseteq Seq(T)
    OBVIOUS
  <2> QED
    BY <2>1, <2>2
<1>3. /\ w \in Seq(S \ {"SP", "TAB"}) /\ w \in Seq(T) /\ first \in Seq(T)
      /\ <<"TAB">> \in Seq(T) /\ <<"SP">> \in Seq(T) /\ "TAB" \in T /\ "SP" \in T
  OBVIOUS
<1>4. line = (first \o <<"TAB">>) \o e
  <2>1. <<first>> \in Seq(Seq(T)) /\ rest \in Seq(Seq(T))
    <3>1. Seq(S) \subseteq Seq(T)
      OBVIOUS
    <3>2. rest \in Seq(Seq(T))
      BY <1>1, <3>1, SeqMonotonic
    <3> QED
      BY <1>3, <3>2
  <2>2. line = Ended(<<first>>, "TAB") \o e
    BY <1>3, <2>1, EndedJoined
  <2>3. Ended(<<first>>, "TAB") = first \o <<"TAB">>
    BY <1>3, EndedOne
  <2> QED
    BY <2>2, <2>3
<1>5. UpToZero(line) = line
  <2>1. "ZERO" \notin T
    OBVIOUS
  <2> HIDE DEF T, e, line
  <2>2. line \in Seq(T)
    BY <1>2, <1>3, <1>4
  <2> QED
    BY <2>1, <2>2, UpToZeroType
<1>6. NonEmpty(SplitAt(e, "TAB")) = rest /\ NonEmpty(SplitAt(<<"TAB">> \o e, "TAB")) = rest
  BY PartsComeBack
<1>7. <<w>> \o rest = Filled(<<w>> \o rest, n)
  BY <1>1 DEF Filled
<1> HIDE DEF line, e, T, n
<1>8. ReadRow(line, n) = <<w>> \o rest
  <2>1. CASE first = w
    <3>1. line = w \o (<<"TAB">> \o e)
      <4>1. Three(T, w, <<"TAB">>, e)
        BY <1>2, <1>3 DEF Three
      <4> QED
        BY <4>1, ConcatThree, <1>4, <2>1
    <3>2. Found(w, e) = <<w>> \o rest
      BY <1>6 DEF Found
    <3>3. ReadRow(w \o (<<"TAB">> \o e), n) = Filled(Found(w, e), n)
      <4>1. w \in Seq(T \ {"SP", "TAB"})
        BY <1>3 DEF T
      <4> QED
        BY <1>1, <1>2, <1>3, <4>1, LineLoads
    <3> QED
      BY <1>7, <3>1, <3>2, <3>3
  <2>2. CASE first = w \o <<"SP">>
    <3> DEFINE after == <<"TAB">> \o e
    <3>1. after \in Seq(T)
      BY <1>2, <1>3
    <3>2. line = w \o (<<"SP">> \o after)
      <4>1. ((w \o <<"SP">>) \o <<"TAB">>) \o e = (w \o <<"SP">>) \o (<<"TAB">> \o e)
        <5>1. w \o <<"SP">> \in Seq(T)
          BY <1>3
        <5>2. Three(T, w \o <<"SP">>, <<"TAB">>, e)
          BY <1>2, <1>3, <5>1 DEF Three
        <5> QED
          BY <5>2, ConcatThree
      <4>2. (w \o <<"SP">>) \o after = w \o (<<"SP">> \o after)
        <5>1. Three(T, w, <<"SP">>, after)
          BY <1>3, <3>1 DEF Three
        <5> QED
          BY <5>1, ConcatThree
      <4> QED
        BY <1>4, <2>2, <4>1, <4>2
    <3>3. Found(w, after) = <<w>> \o rest
      BY <1>6 DEF Found
    <3> HIDE DEF after
    <3>4. ReadRow(w \o (<<"SP">> \o after), n) = Filled(Found(w, after), n)
      <4>1. w \in Seq(T \ {"SP", "TAB"})
        BY <1>3 DEF T
      <4> QED
        BY <1>1, <1>3, <3>1, <4>1, LineLoads
    <3> QED
      BY <1>7, <3>2, <3>3, <3>4
  <2> QED
    BY <2>1, <2>2
<1>9. Trimmed(line) = line
  <2>1. /\ line \in Seq(T) /\ line # <<>> /\ line[1] = w[1] /\ w[1] \notin {"SP", "TAB"}
    <3>1. /\ first \in Seq(T) /\ Len(first) \in Nat \ {0} /\ first[1] = w[1]
      BY <1>3
    <3>2. w[1] \notin {"SP", "TAB"}
      BY <1>3
    <3>3. first \o <<"TAB">> \in Seq(T) /\ first \o <<"TAB">> # <<>> /\ (first \o <<"TAB">>)[1] = w[1]
      BY <1>3, <3>1
    <3> DEFINE start == first \o <<"TAB">>
    <3> HIDE DEF start
    <3>4. start \o e \in Seq(T) /\ start \o e # <<>> /\ (start \o e)[1] = w[1]
      BY <1>2, <3>3 DEF start
    <3> QED
      BY <1>4, <3>2, <3>4 DEF start
  <2> QED
    BY <2>1, TrimmedType
<1> QED
  BY <1>5, <1>8, <1>9 DEF line, n, LoadedRow

LEMMA NonEmptyOnly ==
    ASSUME NEW S, NEW p \in Seq(S)
    PROVE  NonEmpty(p) \in Seq(S \ {<<>>})
<1> DEFINE G == {s \in Seq(S) : NonEmpty(s) \in Seq(S \ {<<>>})}
<1>1. <<>> \in G
  <2>1. <<>> \in Seq(S) /\ <<>> \in Seq(S \ {<<>>})
    OBVIOUS
  <2> QED
    BY <2>1, NonEmptyNone
<1>2. ASSUME NEW s \in Seq(S), NEW x \in S, s \in G
      PROVE  Append(s, x) \in G
  <2>1. NonEmpty(Append(s, x)) = IF x = <<>> THEN NonEmpty(s) ELSE Append(NonEmpty(s), x)
    BY NonEmptyAppend
  <2>2. NonEmpty(Append(s, x)) \in Seq(S \ {<<>>})
    BY <1>2, <2>1
  <2> QED
    BY <2>2
<1>3. Grows(G, S)
  BY <1>1, <1>2 DEF Grows
<1> HIDE DEF G
<1>4. p \in G
  BY <1>3, Growth
<1> QED
  BY <1>4 DEF G

\* Whatever the line, a row of n values is loaded from it, the first one a word.
LEMMA ReadRowType ==
    ASSUME NEW S, "unset" \in S, NEW line \in Seq(S), NEW n \in Nat, n > 0
    PROVE  /\ ReadRow(line, n) \in Seq(Seq(S \ {"TAB"}) \ {<<>>})
           /\ Len(ReadRow(line, n)) = n
           /\ ReadRow(line, n)[1] \in Seq(S \ {"SP", "TAB"})
<1> DEFINE I == {i \in 1 .. Len(line) : line[i] \in {"SP", "TAB"}}
           d == SelectInSeq(line, LAMBDA x : x \in {"SP", "TAB"})
           first == IF d = 0 THEN line ELSE SubSeq(line, 1, d - 1)
           after == SubSeq(line, d + 1, Len(line))
           rest == IF d = 0 THEN <<>> ELSE NonEmpty(SplitAt(after, "TAB"))
           found == IF first = <<>> THEN <<>> ELSE <<first>> \o rest
           Value == Seq(S \ {"TAB"}) \ {<<>>}
<1>1. Len(line) \in Nat
  OBVIOUS
<1>2. d = IF I # {} THEN Min(I) ELSE 0
  BY DEF SelectInSeq
<1>3. ReadRow(line, n) = [j \in 1 .. n |-> IF j <= Len(found) THEN found[j] ELSE Unset]
  BY DEF ReadRow
<1> HIDE DEF I, d
<1>4. /\ I = {} => line \in Seq(S \ {"SP", "TAB"})
      /\ I # {} => /\ Min(I) \in 1 .. Len(line)
                   /\ SubSeq(line, 1, Min(I) - 1) \in Seq(S \ {"SP", "TAB"})
  BY CutBefore DEF I
<1>5. first \in Seq(S \ {"SP", "TAB"}) /\ d \in 0 .. Len(line)
  <2>1. CASE I = {}
    BY <1>1, <1>2, <1>4, <2>1
  <2>2. CASE I # {}
    <3>1. d = Min(I) /\ d # 0
      BY <1>2, <1>4, <2>2
    <3> QED
      BY <1>1, <1>4, <2>2, <3>1
  <2> QED
    BY <2>1, <2>2
<1>6. after \in Seq(S)
  BY <1>1, <1>5
<1> HIDE DEF first, after
<1>7. NonEmpty(SplitAt(after, "TAB")) \in Seq(Value)
  <2>1. SplitAt(after, "TAB") \in Seq(Seq(S \ {"TAB"}))
    BY <1>6, SplitType DEF Some
  <2> QED
    BY <2>1, NonEmptyOnly
<1>8. first \in Seq(S \ {"TAB"})
  <2>1. Seq(S \ {"SP", "TAB"}) \subseteq Seq(S \ {"TAB"})
    <3>1. S \ {"SP", "TAB"} \subseteq S \ {"TAB"}
      OBVIOUS
    <3> QED
      BY <3>1, SeqMonotonic
  <2> QED
    BY <1>5, <2>1
<1>9. Unset \in Value /\ Unset \in Seq(S \ {"SP", "TAB"})
  BY DEF Unset
<1>10. first # <<>> => first \in Value
  BY <1>8
<1> HIDE DEF Value
<1>11. rest \in Seq(Value)
  BY <1>7
<1> HIDE DEF rest
<1>12. found \in Seq(Value) /\ (Len(found) > 0 => found[1] = first)
  <2>1. CASE first = <<>>
    BY <2>1
  <2>2. CASE first # <<>>
    BY <1>10, <1>11, <2>2
  <2> QED
    BY <2>1, <2>2
<1> HIDE DEF found
<1> DEFINE row == [j \in 1 .. n |-> IF j <= Len(found) THEN found[j] ELSE Unset]
<1>13. row \in [1 .. n -> Value]
  BY <1>9, <1>12
<1>14. row[1] \in Seq(S \ {"SP", "TAB"})
  <2>1. row[1] = IF 1 <= Len(found) THEN found[1] ELSE Unset
    OBVIOUS
  <2>2. Len(found) \in Nat
    BY <1>12
  <2> HIDE DEF row
  <2> QED
    BY <1>5, <1>9, <1>12, <2>1, <2>2
<1> HIDE DEF row
<1>15. row \in Seq(Value) /\ Len(row) = n
  BY <1>13, IsSequence
<1> QED
  BY <1>3, <1>14, <1>15 DEF row, Value

LEMMA LoadedRowType ==
    ASSUME NEW S, "unset" \in S, NEW line \in Seq(S), NEW n \in Nat, n > 0
    PROVE  /\ LoadedRow(line, n) \in Seq(Seq(S \ {"TAB"}) \ {<<>>})
           /\ Len(LoadedRow(line, n)) = n
           /\ LoadedRow(line, n)[1] \in Seq(S \ {"SP", "TAB"})
  BY TrimmedType, ReadRowType DEF LoadedRow
-----------------------------------------------------------------------------
(* The same places of two sequences.                                       *)

\* The elements of r are elements of t, and those of p their like in s.
Alike(p, r, s, t) ==
    /\ Len(r) <= Len(p)
    /\ \A i \in 1 .. Len(r) : \E j \in 1 .. Len(t) : p[i] = s[j] /\ r[i] = t[j]

\* And none is missing if the sequences are of one length.
Paired(p, r, s, t) == Alike(p, r, s, t) /\ (Len(s) = Len(t) => Len(p) = Len(r))

LEMMA AlikeAppend ==
    ASSUME NEW A, NEW B, NEW s \in Seq(A), NEW t \in Seq(B), NEW p \in Seq(A), NEW r \in Seq(B),
           Len(p) = Len(r), Alike(p, r, s, t), NEW j \in 1 .. Len(t), Len(t) <= Len(s)
    PROVE  /\ Alike(Append(p, s[j]), Append(r, t[j]), s, t)
           /\ Len(Append(p, s[j])) = Len(Append(r, t[j]))
<1> DEFINE n == Len(r)
           pp == Append(p, s[j])
           rr == Append(r, t[j])
<1>1. n \in Nat /\ s[j] \in A /\ t[j] \in B
  OBVIOUS
<1>2. /\ Len(pp) = n + 1 /\ pp[n + 1] = s[j] /\ \A i \in 1 .. n : pp[i] = p[i]
  BY <1>1
<1>3. /\ Len(rr) = n + 1 /\ rr[n + 1] = t[j] /\ \A i \in 1 .. n : rr[i] = r[i]
  BY <1>1
<1>4. \A i \in 1 .. n : \E k \in 1 .. Len(t) : p[i] = s[k] /\ r[i] = t[k]
  BY DEF Alike
<1> HIDE DEF pp, rr, n
<1>5. ASSUME NEW i \in 1 .. n + 1
      PROVE  \E k \in 1 .. Len(t) : pp[i] = s[k] /\ rr[i] = t[k]
  <2>1. CASE i = n + 1
    BY <1>2, <1>3, <2>1
  <2>2. CASE i # n + 1
    <3>1. i \in 1 .. n
      BY <1>1, <2>2
    <3>2. \E k \in 1 .. Len(t) : p[i] = s[k] /\ r[i] = t[k]
      BY <1>4, <3>1
    <3> QED
      BY <1>2, <1>3, <3>1, <3>2
  <2> QED
    BY <2>1, <2>2
<1>6. Alike(pp, rr, s, t)
  <2>1. Len(rr) <= Len(pp)
    BY <1>1, <1>2, <1>3
  <2>2. \A i \in 1 .. Len(rr) : \E k \in 1 .. Len(t) : pp[i] = s[k] /\ rr[i] = t[k]
    <3> SUFFICES ASSUME NEW i \in 1 .. n + 1
                 PROVE  \E k \in 1 .. Len(t) : pp[i] = s[k] /\ rr[i] = t[k]
      BY <1>3
    <3> QED
      BY <1>5
  <2> QED
    BY <2>1, <2>2 DEF Alike
<1> QED
  BY <1>2, <1>3, <1>6 DEF pp, rr

LEMMA PickedAlike ==
    ASSUME NEW A, NEW B, NEW s \in Seq(A), NEW t \in Seq(B), Len(t) <= Len(s), NEW chosen
    PROVE  Paired(Picked(s, DOMAIN s \ chosen), Picked(t, DOMAIN t \ chosen), s, t)
<1> DEFINE P == DOMAIN s \ chosen
           Q == DOMAIN t \ chosen
           n == Len(s)
           m == Len(t)
<1>1. /\ n \in Nat /\ m \in Nat /\ m <= n
      /\ \A k \in 0 .. m : k < m => (k + 1 \in P <=> k + 1 \in Q)
      /\ \A k \in 0 .. m : k < m => k + 1 \in 1 .. m /\ k \in 0 .. n /\ k < n
  OBVIOUS
<1>2. PICK f : Picks(f, s, P, A) /\ Picked(s, P) = f[n]
  BY PickedRuns
<1>3. PICK g : Picks(g, t, Q, B) /\ Picked(t, Q) = g[m]
  BY PickedRuns
<1> HIDE DEF P, Q, n, m
<1>4. /\ f[0] = <<>> /\ \A k \in 0 .. n : f[k] \in Seq(A)
      /\ \A k \in 0 .. n : k < n => f[k + 1] = IF k + 1 \in P THEN Append(f[k], s[k + 1]) ELSE f[k]
  BY <1>2 DEF Picks, n
<1>5. /\ g[0] = <<>> /\ \A k \in 0 .. m : g[k] \in Seq(B)
      /\ \A k \in 0 .. m : k < m => g[k + 1] = IF k + 1 \in Q THEN Append(g[k], t[k + 1]) ELSE g[k]
  BY <1>3 DEF Picks, m
<1> DEFINE Same(k) == Len(f[k]) = Len(g[k]) /\ Alike(f[k], g[k], s, t)
           Good == {k \in 0 .. m : Same(k)}
<1>6. 0 \in Good
  <2>1. Same(0)
    BY <1>4, <1>5 DEF Alike
  <2> QED
    BY <1>1, <2>1
<1>7. ASSUME NEW k \in 0 .. m, k \in Good, k < m
      PROVE  k + 1 \in Good
  <2>1. Same(k)
    BY <1>7
  <2>2. k + 1 \in 1 .. Len(t) /\ k \in 0 .. n /\ k < n /\ Len(t) <= Len(s)
    BY <1>1, <1>7 DEF m, n
  <2>3. f[k] \in Seq(A) /\ g[k] \in Seq(B)
    BY <1>4, <1>5, <2>2
  <2>4. Same(k + 1)
    <3>1. CASE k + 1 \in Q
      <4>1. f[k + 1] = Append(f[k], s[k + 1]) /\ g[k + 1] = Append(g[k], t[k + 1])
        BY <1>1, <1>4, <1>5, <1>7, <2>2, <3>1
      <4> DEFINE j == k + 1
      <4>2. j \in 1 .. Len(t)
        BY <2>2
      <4> HIDE DEF j
      <4>3. /\ Alike(Append(f[k], s[j]), Append(g[k], t[j]), s, t)
            /\ Len(Append(f[k], s[j])) = Len(Append(g[k], t[j]))
        BY <2>1, <2>2, <2>3, <4>2, AlikeAppend
      <4> QED
        BY <4>1, <4>3 DEF j
    <3>2. CASE k + 1 \notin Q
      <4>1. f[k + 1] = f[k] /\ g[k + 1] = g[k]
        BY <1>1, <1>4, <1>5, <1>7, <2>2, <3>2
      <4> QED
        BY <2>1, <4>1
    <3> QED
      BY <3>1, <3>2
  <2>5. k + 1 \in 0 .. m
    BY <1>1, <1>7
  <2> HIDE DEF Same
  <2> QED
    BY <2>4, <2>5
<1>8. Same(m)
  <2> HIDE DEF Good, Same
  <2>1. \A k \in 0 .. m : k \in Good
    BY <1>1, <1>6, <1>7, Stepwise
  <2>2. m \in 0 .. m
    BY <1>1
  <2> QED
    BY <2>1, <2>2 DEF Good
<1> DEFINE Rest == {k \in 0 .. n : k >= m => /\ Len(f[m]) <= Len(f[k])
                                            /\ \A i \in 1 .. Len(f[m]) : f[k][i] = f[m][i]}
<1>9. f[m] \in Seq(A) /\ Len(f[m]) \in Nat
  BY <1>1, <1>4
<1>10. 0 \in Rest
  <2>1. 0 >= m => m = 0
    BY <1>1
  <2> QED
    BY <1>1, <1>9, <2>1
<1>11. ASSUME NEW k \in 0 .. n, k \in Rest, k < n
       PROVE  k + 1 \in Rest
  <2>1. f[k] \in Seq(A) /\ f[k + 1] = IF k + 1 \in P THEN Append(f[k], s[k + 1]) ELSE f[k]
    BY <1>4, <1>11
  <2>2. k + 1 \in 0 .. n /\ k + 1 \in 1 .. Len(s) /\ (k + 1 >= m => k + 1 = m \/ k >= m)
    BY <1>1, <1>11 DEF n
  <2>3. CASE k + 1 = m
    BY <1>9, <2>2, <2>3
  <2>4. CASE k >= m
    <3>1. Len(f[m]) <= Len(f[k]) /\ \A i \in 1 .. Len(f[m]) : f[k][i] = f[m][i]
      BY <1>11, <2>4
    <3>2. s[k + 1] \in A
      BY <2>2
    <3>3. Len(f[k]) <= Len(f[k + 1]) /\ \A i \in 1 .. Len(f[k]) : f[k + 1][i] = f[k][i]
      BY <2>1, <3>2
    <3>4. Len(f[m]) <= Len(f[k + 1]) /\ \A i \in 1 .. Len(f[m]) : i \in 1 .. Len(f[k])
      <4>1. Len(f[k]) \in Nat /\ Len(f[k + 1]) \in Nat
        BY <1>4, <2>1, <2>2
      <4> QED
        BY <1>9, <3>1, <3>3, <4>1
    <3>5. \A i \in 1 .. Len(f[m]) : f[k + 1][i] = f[m][i]
      BY <3>1, <3>3, <3>4
    <3> QED
      BY <2>2, <3>4, <3>5
  <2>5. CASE ~ (k + 1 >= m)
    BY <2>2, <2>5
  <2> QED
    BY <2>2, <2>3, <2>4, <2>5
<1>12. Len(f[m]) <= Len(f[n]) /\ \A i \in 1 .. Len(f[m]) : f[n][i] = f[m][i]
  <2> HIDE DEF Rest
  <2>1. \A k \in 0 .. n : k \in Rest
    BY <1>1, <1>10, <1>11, Stepwise
  <2>2. n \in 0 .. n /\ n >= m
    BY <1>1
  <2> QED
    BY <2>1, <2>2 DEF Rest
<1>13. Alike(f[n], g[m], s, t)
  <2>1. Len(f[m]) = Len(g[m]) /\ Alike(f[m], g[m], s, t)
    BY <1>8
  <2> QED
    BY <1>12, <2>1 DEF Alike
<1>14. n = m => Len(f[n]) = Len(g[m])
  BY <1>8
<1> QED
  BY <1>2, <1>3, <1>13, <1>14 DEF P, Q, n, m, Paired
-----------------------------------------------------------------------------
(* The lines of a table's file.                                            *)

\* As many newlines as there are lines, the last one not counted.
LEMMA NewLinesCount ==
    ASSUME NEW S, NEW f \in Seq(S)
    PROVE  NewLines(f) = Len(SplitAt(f, "NL")) - 1
<1> DEFINE Places(s) == {i \in DOMAIN s : s[i] = "NL"}
           P(s) == IsFiniteSet(Places(s)) /\ Cardinality(Places(s)) = Len(SplitAt(s, "NL")) - 1
           G == {s \in Seq(S) : P(s)}
<1>1. <<>> \in G
  <2>1. Places(<<>>) = {}
    OBVIOUS
  <2> HIDE DEF Places
  <2>2. Len(SplitAt(<<>>, "NL")) - 1 = 0
    <3>1. Len(<<<<>>>>) - 1 = 0
      OBVIOUS
    <3> QED
      BY <3>1, SplitNone
  <2>3. IsFiniteSet(Places(<<>>)) /\ Cardinality(Places(<<>>)) = 0
    BY <2>1, FS_EmptySet
  <2>4. Cardinality(Places(<<>>)) = Len(SplitAt(<<>>, "NL")) - 1
    BY <2>2, <2>3, Zenon
  <2>5. P(<<>>)
    BY <2>3, <2>4, Zenon
  <2> HIDE DEF P
  <2> QED
    BY <2>5
<1>2. ASSUME NEW s \in Seq(S), NEW x \in S, s \in G
      PROVE  Append(s, x) \in G
  <2> DEFINE n == Len(s)
             longer == Append(s, x)
             v == SplitAt(s, "NL")
  <2>1. /\ n \in Nat /\ DOMAIN s = 1 .. n /\ longer \in Seq(S) /\ DOMAIN longer = 1 .. n + 1
        /\ longer[n + 1] = x /\ \A i \in 1 .. n : longer[i] = s[i]
    OBVIOUS
  <2>2. P(s)
    BY <1>2
  <2>3. v \in Some(S \ {"NL"}) /\ SplitAt(longer, "NL") = Extended(v, x, "NL")
    BY SplitType, SplitAppend
  <2> HIDE DEF n, longer, v
  <2>4. Len(v) \in Nat /\ Len(v) > 0
    BY <2>3 DEF Some
  <2>5. CASE x = "NL"
    <3>1. Places(longer) = Places(s) \cup {n + 1} /\ n + 1 \notin Places(s)
      BY <2>1, <2>5
    <3>2. Len(Extended(v, x, "NL")) = Len(v) + 1
      <4>1. Extended(v, x, "NL") = Append(v, <<>>)
        BY <2>5 DEF Extended
      <4>2. v \in Seq(Seq(S \ {"NL"}))
        BY <2>3 DEF Some
      <4> QED
        BY <4>1, <4>2
    <3> HIDE DEF Places
    <3>3. /\ IsFiniteSet(Places(longer)) /\ Cardinality(Places(longer)) = Cardinality(Places(s)) + 1
      BY <2>2, <3>1, FS_AddElement
    <3>4. Cardinality(Places(s)) = Len(v) - 1
      BY <2>2 DEF v
    <3>5. P(longer)
      BY <2>3, <2>4, <3>2, <3>3, <3>4
    <3> QED
      BY <2>1, <3>5 DEF longer
  <2>6. CASE x # "NL"
    <3>1. Places(longer) = Places(s)
      <4>1. \A i \in 1 .. n + 1 : longer[i] = "NL" => i \in 1 .. n
        BY <2>1, <2>6
      <4>2. \A i \in 1 .. n : i \in 1 .. n + 1
        BY <2>1
      <4> QED
        BY <2>1, <4>1, <4>2
    <3>2. Len(Extended(v, x, "NL")) = Len(v)
      <4>1. Extended(v, x, "NL") = [v EXCEPT ![Len(v)] = Append(@, x)]
        BY <2>6 DEF Extended
      <4>2. v \in Seq(Seq(S \ {"NL"}))
        BY <2>3 DEF Some
      <4> QED
        BY <4>1, <4>2
    <3> HIDE DEF Places
    <3>3. P(longer)
      BY <2>2, <2>3, <3>1, <3>2 DEF v
    <3> QED
      BY <2>1, <3>3 DEF longer
  <2> QED
    BY <2>5, <2>6
<1>3. Grows(G, S)
  BY <1>1, <1>2 DEF Grows
<1> HIDE DEF P
<1>4. f \in G
  <2> HIDE DEF G
  <2> QED
    BY <1>3, Growth
<1> QED
  BY <1>4 DEF P, NewLines

\* What else there is in a file but values and separators.
Fixed == {"name", ".", "digit", "unset", "SHORT", "IN"} \cup {Counts[n] : n \in DOMAIN Counts}

Plain(S) == Fixed \subseteq S /\ S \cap {"NL", "TAB", "ZERO"} = {}

LEMMA DigitsType ==
    ASSUME NEW S, Plain(S), NEW n \in DOMAIN Counts
    PROVE  /\ Digits(n) \in Seq(S) /\ Digits(n) # <<>>
           /\ n < Ten => Len(Digits(n)) = 1
           /\ ~ (n < Ten) => Len(Digits(n)) = 2
<1>1. Counts[n] \in S /\ "digit" \in S
  BY DEF Plain, Fixed
<1>2. n # 0
  BY DEF Counts
<1> HIDE DEF Counts
<1> QED
  BY <1>1, <1>2 DEF Digits

Titles(kinds) == [j \in DOMAIN kinds |-> <<kinds[j], ".">>]

Heading(kinds) == <<<<"name">>, Digits(Len(kinds)), Ended(Titles(kinds), "TAB")>>

RowLines(rows) == [i \in DOMAIN rows |-> Ended(rows[i], "TAB")]

LEMMA TitlesType ==
    ASSUME NEW S, Plain(S), NEW kinds \in Seq(S)
    PROVE  /\ Titles(kinds) \in Seq(Seq(S) \ {<<>>}) /\ Len(Titles(kinds)) = Len(kinds)
           /\ \A j \in 1 .. Len(kinds) : Titles(kinds)[j] = <<kinds[j], ".">>
<1>1. "." \in S
  BY DEF Plain, Fixed
<1>2. DOMAIN kinds = 1 .. Len(kinds) /\ Len(kinds) \in Nat /\ \A j \in 1 .. Len(kinds) : kinds[j] \in S
  OBVIOUS
<1>3. Titles(kinds) \in [1 .. Len(kinds) -> Seq(S) \ {<<>>}]
  BY <1>1, <1>2 DEF Titles
<1>4. \A j \in 1 .. Len(kinds) : Titles(kinds)[j] = <<kinds[j], ".">>
  BY <1>2 DEF Titles
<1> QED
  BY <1>2, <1>3, <1>4, IsSequence

LEMMA HeadingType ==
    ASSUME NEW S, Plain(S), NEW kinds \in Seq(S), Len(kinds) \in DOMAIN Counts
    PROVE  /\ Heading(kinds) \in Seq(Seq(S \cup {"TAB"})) /\ Len(Heading(kinds)) = 3
           /\ Ended(Titles(kinds), "TAB") \in Seq(S \cup {"TAB"})
           /\ Titles(kinds) \in Seq(Seq(S))
<1> DEFINE T == S \cup {"TAB"}
           title == Ended(Titles(kinds), "TAB")
           digits == Digits(Len(kinds))
<1>1. Titles(kinds) \in Seq(Seq(S))
  <2>1. Seq(S) \ {<<>>} \subseteq Seq(S)
    OBVIOUS
  <2> QED
    BY <2>1, TitlesType, SeqMonotonic
<1>2. title \in Seq(T)
  BY <1>1, EndedType
<1>3. digits \in Seq(S) /\ "name" \in S
  BY DigitsType DEF Plain, Fixed
<1>4. Seq(S) \subseteq Seq(T) /\ <<"name">> \in Seq(S)
  BY <1>3
<1>5. Heading(kinds) = <<<<"name">>, digits, title>>
  BY DEF Heading
<1> HIDE DEF title, digits, T
<1>6. <<<<"name">>, digits, title>> \in Seq(Seq(T))
  <2> DEFINE name == <<"name">>
  <2>1. name \in Seq(T) /\ digits \in Seq(T) /\ title \in Seq(T)
    BY <1>2, <1>3, <1>4
  <2> HIDE DEF name
  <2>2. <<name, digits, title>> \in Seq(Seq(T))
    BY <2>1
  <2> QED
    BY <2>2 DEF name
<1> QED
  BY <1>1, <1>2, <1>5, <1>6 DEF T, title

LEMMA RowLinesType ==
    ASSUME NEW S, NEW rows \in Seq(Seq(Seq(S)))
    PROVE  /\ RowLines(rows) \in Seq(Seq(S \cup {"TAB"})) /\ Len(RowLines(rows)) = Len(rows)
           /\ \A i \in 1 .. Len(rows) : RowLines(rows)[i] = Ended(rows[i], "TAB")
<1> DEFINE T == S \cup {"TAB"}
<1>1. /\ DOMAIN rows = 1 .. Len(rows) /\ Len(rows) \in Nat
      /\ \A i \in 1 .. Len(rows) : rows[i] \in Seq(Seq(S))
  OBVIOUS
<1>2. \A i \in 1 .. Len(rows) : Ended(rows[i], "TAB") \in Seq(T)
  BY <1>1, EndedType
<1> HIDE DEF T
<1>3. RowLines(rows) \in [1 .. Len(rows) -> Seq(T)]
  BY <1>1, <1>2 DEF RowLines
<1>4. \A i \in 1 .. Len(rows) : RowLines(rows)[i] = Ended(rows[i], "TAB")
  BY <1>1 DEF RowLines
<1>5. RowLines(rows) \in Seq(Seq(T)) /\ Len(RowLines(rows)) = Len(rows)
  BY <1>1, <1>3, IsSequence
<1> QED
  BY <1>4, <1>5 DEF T

LEMMA HeaderLines ==
    ASSUME NEW S, Plain(S), NEW kinds \in Seq(S), Len(kinds) \in DOMAIN Counts
    PROVE  /\ Header(kinds) = Ended(Heading(kinds), "NL")
           /\ Ended(Heading(kinds), "NL") =
                  Ended(<<<<"name">>, Digits(Len(kinds))>>, "NL")
                  \o (Ended(Titles(kinds), "TAB") \o <<"NL">>)
           /\ Ended(<<<<"name">>, Digits(Len(kinds))>>, "NL") \in Seq(S \cup {"NL", "TAB"})
<1> DEFINE T == S \cup {"NL", "TAB"}
           nl == <<"NL">>
           name == <<"name">>
           digits == Digits(Len(kinds))
           title == Ended(Titles(kinds), "TAB")
<1>1. Header(kinds) = (((<<"name", "NL">> \o digits) \o nl) \o title) \o nl
  <2>1. [j \in DOMAIN kinds |-> ColumnText(kinds[j])]
            = [j \in DOMAIN Titles(kinds) |-> Titles(kinds)[j] \o <<"TAB">>]
    BY DEF ColumnText, Titles
  <2> QED
    BY <2>1 DEF Header, Ended
<1>2. Heading(kinds) = Append(<<name, digits>>, title) /\ <<name, digits>> = Append(<<name>>, digits)
  BY DEF Heading
<1>3. "name" \in S /\ digits \in Seq(S) /\ title \in Seq(S \cup {"TAB"})
  BY DigitsType, HeadingType DEF Plain, Fixed
<1>4. Seq(S) \subseteq Seq(T) /\ Seq(S \cup {"TAB"}) \subseteq Seq(T) /\ "NL" \in T
  OBVIOUS
<1>5. name \in Seq(T) /\ nl \in Seq(T) /\ <<"name", "NL">> = name \o nl
  BY <1>3, <1>4
<1> HIDE DEF T, digits, title, nl, name
<1>6. digits \in Seq(T) /\ title \in Seq(T)
  BY <1>3, <1>4
<1>7. /\ Ended(<<name>>, "NL") = name \o nl
      /\ Ended(Append(<<name>>, digits), "NL") = Ended(<<name>>, "NL") \o (digits \o nl)
      /\ Ended(Append(<<name, digits>>, title), "NL") = Ended(<<name, digits>>, "NL") \o (title \o nl)
      /\ Ended(<<name, digits>>, "NL") \in Seq(T)
  <2>1. <<name>> \in Seq(Seq(T)) /\ <<name, digits>> \in Seq(Seq(T))
    BY <1>5, <1>6
  <2>2. Ended(<<name>>, "NL") = name \o nl
    BY <1>4, <1>5, EndedOne DEF nl
  <2>3. Ended(Append(<<name>>, digits), "NL") = Ended(<<name>>, "NL") \o (digits \o nl)
    BY <1>4, <1>6, <2>1, EndedAppend DEF nl
  <2>4. /\ Ended(Append(<<name, digits>>, title), "NL") = Ended(<<name, digits>>, "NL") \o (title \o nl)
        /\ Ended(<<name, digits>>, "NL") \in Seq(T)
    BY <1>4, <1>6, <2>1, EndedAppend DEF nl
  <2> QED
    BY <2>2, <2>3, <2>4
<1> DEFINE a == name \o nl
           b == a \o (digits \o nl)
<1>8. a \in Seq(T) /\ digits \o nl \in Seq(T)
  BY <1>5, <1>6
<1>9. Header(kinds) = (((a \o digits) \o nl) \o title) \o nl
  BY <1>1, <1>5
<1> HIDE DEF a
<1>10. b \in Seq(T) /\ (a \o digits) \o nl = b
  <2>1. nl \in Seq(T)
    BY <1>5
  <2>2. (a \o digits) \o nl = a \o (digits \o nl)
    <3>1. Three(T, a, digits, nl)
      BY <1>6, <1>8, <2>1 DEF Three
    <3> QED
      BY <3>1, ConcatThree
  <2> QED
    BY <1>8, <2>2
<1> HIDE DEF b
<1>11. (b \o title) \o nl = b \o (title \o nl)
  <2>1. nl \in Seq(T) /\ b \in Seq(T)
    BY <1>5, <1>10
  <2>2. Three(T, b, title, nl)
    BY <1>6, <2>1 DEF Three
  <2> QED
    BY <2>2, ConcatThree
<1>12. Ended(<<name, digits>>, "NL") = b
  BY <1>2, <1>7 DEF a, b
<1>13. Header(kinds) = b \o (title \o nl)
  BY <1>9, <1>10, <1>11
<1>14. Ended(Heading(kinds), "NL") = b \o (title \o nl)
  BY <1>2, <1>7, <1>12
<1> QED
  BY <1>7, <1>12, <1>13, <1>14 DEF name, digits, title, nl, T

LEMMA TableLines ==
    ASSUME NEW S, Plain(S), NEW t, t.types \in Seq(S), t.rows \in Seq(Seq(Seq(S))),
           Len(t.types) \in DOMAIN Counts
    PROVE  TableText(t) = Ended(Heading(t.types) \o RowLines(t.rows), "NL")
<1> DEFINE T == S \cup {"NL", "TAB"}
           heading == Heading(t.types)
           lines == RowLines(t.rows)
<1>1. Seq(S \cup {"TAB"}) \subseteq Seq(T) /\ "NL" \in T
  OBVIOUS
<1>2. heading \in Seq(Seq(T)) /\ lines \in Seq(Seq(T))
  <2>1. heading \in Seq(Seq(S \cup {"TAB"})) /\ lines \in Seq(Seq(S \cup {"TAB"}))
    BY HeadingType, RowLinesType
  <2> HIDE DEF T, heading, lines
  <2> QED
    BY <1>1, <2>1, SeqMonotonic
<1>3. FlattenSeq([i \in DOMAIN t.rows |-> RowText(t.rows[i])]) = Ended(lines, "NL")
  <2>1. \A row : RowText(row) = Ended(row, "TAB") \o <<"NL">>
    BY DEF RowText, Ended
  <2>2. [i \in DOMAIN t.rows |-> RowText(t.rows[i])] = [i \in DOMAIN lines |-> lines[i] \o <<"NL">>]
    <3>1. DOMAIN lines = DOMAIN t.rows /\ \A i \in DOMAIN t.rows : lines[i] = Ended(t.rows[i], "TAB")
      BY DEF RowLines
    <3> HIDE DEF lines
    <3> QED
      BY <2>1, <3>1
  <2> QED
    BY <2>2 DEF Ended
<1>4. Header(t.types) = Ended(heading, "NL")
  BY HeaderLines
<1> HIDE DEF heading, lines
<1>5. TableText(t) = Ended(heading, "NL") \o Ended(lines, "NL")
  BY <1>3, <1>4 DEF TableText
<1>6. Ended(heading \o lines, "NL") = Ended(heading, "NL") \o Ended(lines, "NL")
  BY <1>1, <1>2, EndedJoined
<1> QED
  BY <1>5, <1>6 DEF heading, lines

\* A file that scrieTabelInFisier has written, line by line.
LEMMA TablePieces ==
    ASSUME NEW S, Plain(S), NEW t, t.types \in Seq(S), t.rows \in Seq(Seq(Seq(S))),
           Len(t.types) \in DOMAIN Counts, NEW p, p = SplitAt(TableText(t), "NL")
    PROVE  /\ Len(p) = Len(t.rows) + 4 /\ p[Len(t.rows) + 4] = <<>>
           /\ p[1] = <<"name">> /\ p[2] = Digits(Len(t.types))
           /\ p[3] = Ended(Titles(t.types), "TAB")
           /\ \A i \in 1 .. Len(t.rows) : p[i + 3] = Ended(t.rows[i], "TAB")
<1> DEFINE T == S \cup {"TAB"}
           heading == Heading(t.types)
           lines == RowLines(t.rows)
           all == heading \o lines
           m == Len(t.rows)
<1>1. /\ heading \in Seq(Seq(T)) /\ Len(heading) = 3
      /\ lines \in Seq(Seq(T)) /\ Len(lines) = m /\ m \in Nat
      /\ \A i \in 1 .. m : lines[i] = Ended(t.rows[i], "TAB")
  <2>1. heading \in Seq(Seq(T)) /\ Len(heading) = 3
    BY HeadingType
  <2>2. /\ lines \in Seq(Seq(T)) /\ Len(lines) = m
        /\ \A i \in 1 .. m : lines[i] = Ended(t.rows[i], "TAB")
    BY RowLinesType
  <2>3. m \in Nat
    OBVIOUS
  <2> QED
    BY <2>1, <2>2, <2>3
<1>2. /\ heading[1] = <<"name">> /\ heading[2] = Digits(Len(t.types))
      /\ heading[3] = Ended(Titles(t.types), "TAB")
  BY DEF Heading
<1>3. "NL" \notin T
  BY DEF Plain
<1> HIDE DEF heading, lines, T, m
<1>4. /\ all \in Seq(Seq(T)) /\ Len(all) = 3 + m
      /\ \A i \in 1 .. 3 + m : all[i] = IF i <= 3 THEN heading[i] ELSE lines[i - 3]
  <2>1. /\ all \in Seq(Seq(T)) /\ Len(all) = Len(heading) + Len(lines)
        /\ \A i \in 1 .. Len(heading) + Len(lines) :
              all[i] = IF i <= Len(heading) THEN heading[i] ELSE lines[i - Len(heading)]
    BY <1>1, ConcatProperties
  <2> HIDE DEF all
  <2> QED
    BY <1>1, <2>1
<1> HIDE DEF all
<1>5. p = Append(all, <<>>)
  <2>1. TableText(t) = Ended(all, "NL")
    BY TableLines DEF all, heading, lines
  <2> QED
    BY <1>3, <1>4, <2>1, SplitParts
<1>6. /\ Len(p) = m + 4 /\ p[m + 4] = <<>>
      /\ \A i \in 1 .. 3 + m : p[i] = all[i]
  <2>1. Len(all) + 1 = m + 4
    BY <1>1, <1>4
  <2>2. all \in Seq(Seq(T))
    BY <1>4
  <2>3. Len(p) = Len(all) + 1 /\ p[Len(all) + 1] = <<>> /\ \A i \in 1 .. Len(all) : p[i] = all[i]
    BY <1>5, <2>2
  <2> QED
    BY <1>4, <2>1, <2>3
<1>7. p[1] = heading[1] /\ p[2] = heading[2] /\ p[3] = heading[3]
  <2>1. \A i \in 1 .. 3 : i \in 1 .. 3 + m /\ i <= 3
    BY <1>1
  <2> QED
    BY <1>4, <1>6, <2>1
<1>8. ASSUME NEW i \in 1 .. m
      PROVE  p[i + 3] = Ended(t.rows[i], "TAB")
  <2>1. i + 3 \in 1 .. 3 + m /\ ~ (i + 3 <= 3) /\ (i + 3) - 3 = i
    BY <1>1
  <2> QED
    BY <1>1, <1>4, <1>6, <2>1
<1> QED
  BY <1>2, <1>6, <1>7, <1>8 DEF m

\* Its columns.
LEMMA TitlesComeBack ==
    ASSUME NEW S, Plain(S), NEW kinds \in Seq(S), Len(kinds) \in DOMAIN Counts
    PROVE  NonEmpty(SplitAt(UpToZero(Ended(Titles(kinds), "TAB")), "TAB")) = Titles(kinds)
<1> DEFINE T == S \cup {"TAB"}
           title == Ended(Titles(kinds), "TAB")
<1>1. title \in Seq(T) /\ "ZERO" \notin T /\ "TAB" \notin S
  BY HeadingType DEF Plain
<1>2. Titles(kinds) \in Seq(Seq(S) \ {<<>>})
  BY TitlesType
<1>3. NonEmpty(SplitAt(title, "TAB")) = Titles(kinds)
  BY <1>1, <1>2, PartsComeBack
<1> HIDE DEF T, title
<1>4. UpToZero(title) = title
  BY <1>1, UpToZeroType
<1> QED
  BY <1>3, <1>4 DEF title

LEMMA CutInside ==
    ASSUME NEW S, NEW s \in Seq(S), NEW t \in Seq(S), NEW k \in 0 .. Len(t)
    PROVE  SubSeq(s \o t, 1, Len(s) + k) = s \o SubSeq(t, 1, k)
<1> DEFINE m == Len(s)
           all == s \o t
           left == SubSeq(all, 1, m + k)
           end == SubSeq(t, 1, k)
           right == s \o end
<1>1. m \in Nat /\ Len(t) \in Nat /\ k \in Nat /\ k <= Len(t)
  OBVIOUS
<1>2. /\ all \in Seq(S) /\ Len(all) = m + Len(t)
      /\ \A i \in 1 .. m + Len(t) : all[i] = IF i <= m THEN s[i] ELSE t[i - m]
  BY ConcatProperties
<1>3. end \in Seq(S) /\ Len(end) = k /\ \A i \in 1 .. k : end[i] = t[i]
  BY <1>1
<1> HIDE DEF all, end, m
<1>4. left \in Seq(S) /\ Len(left) = m + k /\ \A i \in 1 .. m + k : left[i] = all[i]
  BY <1>1, <1>2
<1>5. /\ right \in Seq(S) /\ Len(right) = m + k
      /\ \A i \in 1 .. m + k : right[i] = IF i <= m THEN s[i] ELSE end[i - m]
  BY <1>1, <1>3, ConcatProperties DEF m
<1> HIDE DEF left, right
<1>6. ASSUME NEW i \in 1 .. m + k
      PROVE  left[i] = right[i]
  <2>1. i \in 1 .. m + Len(t) /\ (~ (i <= m) => i - m \in 1 .. k)
    BY <1>1
  <2> QED
    BY <1>2, <1>3, <1>4, <1>5, <2>1
<1>7. left = right
  BY <1>4, <1>5, <1>6, SeqEqual
<1> QED
  BY <1>7 DEF left, right, all, end, m

\* p is the three lines of a head whose third is the columns, the last of which may
\* have lost its end.
HeadOnly(p, columns, kinds) ==
    /\ Len(p) = 3 /\ p[1] = <<"name">> /\ p[2] = Digits(Len(kinds))
    /\ Len(columns) = Len(kinds)
    /\ \A j \in 1 .. Len(kinds) :
          (j < Len(kinds) \/ Len(kinds) < Ten) => columns[j] = Titles(kinds)[j]

\* What salveazaTabel leaves of the lines of a new table: three of them, and of
\* the columns all but at most the end of the last one.
LEMMA CreatedPieces ==
    ASSUME NEW S, Plain(S), NEW kinds \in Seq(S), Len(kinds) \in DOMAIN Counts,
           NEW p, p = SplitAt(CreatedText(kinds), "NL"),
           NEW columns, columns = NonEmpty(SplitAt(UpToZero(p[3]), "TAB"))
    PROVE  /\ CreatedText(kinds) \in Seq(S \cup {"NL", "TAB"})
           /\ HeadOnly(p, columns, kinds)
<1> DEFINE T == S \cup {"NL", "TAB"}
           R == S \cup {"TAB"}
           n == Len(kinds)
           q == Titles(kinds)
           kind == kinds[n]
           begin == Ended(<<<<"name">>, Digits(n)>>, "NL")
           before == Ended(Front(q), "TAB")
           y == <<kind, ".">>
           end == (y \o <<"TAB">>) \o <<"NL">>
           k == IF n < Ten THEN 2 ELSE 1
           last == SubSeq(end, 1, k)
           third == before \o last
<1>1. n \in Nat /\ n > 0
  BY DEF Counts
<1>2. /\ q \in Seq(Seq(S) \ {<<>>}) /\ q \in Seq(Seq(S)) /\ Len(q) = n
      /\ \A j \in 1 .. n : q[j] = <<kinds[j], ".">>
  BY TitlesType, HeadingType
<1>3. /\ Front(q) \in Seq(Seq(S) \ {<<>>}) /\ Len(Front(q)) = n - 1
      /\ q = Append(Front(q), <<kind, ".">>)
  <2>1. q # <<>>
    BY <1>1, <1>2
  <2>2. Front(q) \in Seq(Seq(S) \ {<<>>}) /\ Len(Front(q)) = n - 1 /\ q = Append(Front(q), Last(q))
    <3> HIDE DEF q, n
    <3> QED
      BY <1>2, <2>1, Shorter
  <2>3. Last(q) = <<kind, ".">>
    <3>1. n \in 1 .. n
      BY <1>1
    <3> QED
      BY <1>2, <3>1 DEF Last
  <2> QED
    BY <2>2, <2>3
<1>4. kind \in S /\ "." \in S
  BY <1>1 DEF Plain, Fixed
<1>5. Front(q) \in Seq(Seq(S))
  <2>1. Seq(S) \ {<<>>} \subseteq Seq(S)
    OBVIOUS
  <2> HIDE DEF q
  <2> QED
    BY <1>3, <2>1, SeqMonotonic
<1>6. before \in Seq(R)
  <2> HIDE DEF q
  <2> QED
    BY <1>5, EndedType
<1>7. /\ end \in Seq(T) /\ Len(end) = 4 /\ end[1] = kind /\ end[2] = "."
      /\ y \in Seq(T) /\ y \o <<"TAB">> \in Seq(T)
  <2> DEFINE tab == "TAB"
             nl == "NL"
             z == Append(y, tab)
             z2 == Append(z, nl)
  <2>1. y \in Seq(T) /\ Len(y) = 2 /\ y[1] = kind /\ y[2] = "." /\ tab \in T /\ nl \in T
    BY <1>4
  <2>2. y \o <<"TAB">> = z
    <3> HIDE DEF y, T
    <3> QED
      BY <2>1
  <2> HIDE DEF y, T, tab, nl, kind
  <2>3. \A s \in Seq(T), x \in T :
            /\ Append(s, x) \in Seq(T) /\ Len(Append(s, x)) = Len(s) + 1
            /\ \A i \in 1 .. Len(s) : Append(s, x)[i] = s[i]
    OBVIOUS
  <2>4. z \in Seq(T) /\ Len(z) = 3 /\ z[1] = kind /\ z[2] = "."
    <3>1. /\ z \in Seq(T) /\ Len(z) = Len(y) + 1
          /\ \A i \in 1 .. Len(y) : z[i] = y[i]
      BY <2>1, <2>3
    <3> HIDE DEF z
    <3>2. 1 \in 1 .. Len(y) /\ 2 \in 1 .. Len(y)
      BY <2>1
    <3> QED
      BY <2>1, <3>1, <3>2
  <2> HIDE DEF z
  <2>5. z2 \in Seq(T) /\ Len(z2) = 4 /\ z2[1] = kind /\ z2[2] = "."
    <3>1. /\ z2 \in Seq(T) /\ Len(z2) = Len(z) + 1
          /\ \A i \in 1 .. Len(z) : z2[i] = z[i]
      BY <2>1, <2>3, <2>4
    <3> HIDE DEF z2
    <3>2. 1 \in 1 .. Len(z) /\ 2 \in 1 .. Len(z)
      BY <2>4
    <3> QED
      BY <2>4, <3>1, <3>2
  <2>6. end = z2
    BY <2>1, <2>2, <2>4 DEF nl
  <2> QED
    BY <2>1, <2>2, <2>4, <2>5, <2>6
<1> HIDE DEF end
<1>8. last = IF n < Ten THEN <<kind, ".">> ELSE <<kind>>
  <2>1. SubSeq(end, 1, 2) = <<kind, ".">>
    <3> DEFINE c == SubSeq(end, 1, 2)
    <3> HIDE DEF T
    <3>1. c \in Seq(T) /\ Len(c) = 2 /\ c[1] = end[1] /\ c[2] = end[2]
      BY <1>7
    <3> HIDE DEF c
    <3>2. c = <<c[1], c[2]>>
      BY <3>1
    <3>3. c = <<kind, ".">>
      BY <1>7, <3>1, <3>2
    <3> QED
      BY <3>3 DEF c
  <2>2. SubSeq(end, 1, 1) = <<kind>>
    <3> DEFINE c == SubSeq(end, 1, 1)
    <3> HIDE DEF T
    <3>1. c \in Seq(T) /\ Len(c) = 1 /\ c[1] = end[1]
      BY <1>7
    <3> HIDE DEF c
    <3>2. c = <<c[1]>>
      BY <3>1
    <3>3. c = <<kind>>
      BY <1>7, <3>1, <3>2
    <3> QED
      BY <3>3 DEF c
  <2>3. CASE n < Ten
    <3>1. k = 2
      BY <2>3
    <3> QED
      BY <2>1, <2>3, <3>1
  <2>4. CASE ~ (n < Ten)
    <3>1. k = 1
      BY <2>4
    <3> QED
      BY <2>2, <2>4, <3>1
  <2> QED
    BY <2>3, <2>4
<1> HIDE DEF last
<1>9. last \in Seq(S) /\ last # <<>>
  <2>1. CASE n < Ten
    <3>1. last = <<kind, ".">>
      BY <1>8, <2>1
    <3> QED
      BY <1>4, <3>1
  <2>2. CASE ~ (n < Ten)
    <3>1. last = <<kind>>
      BY <1>8, <2>2
    <3> QED
      BY <1>4, <3>1
  <2> QED
    BY <2>1, <2>2
<1>10. begin \in Seq(T)
  BY HeaderLines
<1>11. Header(kinds) = (begin \o before) \o end
  <2> DEFINE nl == <<"NL">>
             z == y \o <<"TAB">>
             title == Ended(q, "TAB")
  <2>1. Header(kinds) = begin \o (title \o nl)
    BY HeaderLines
  <2>2. "TAB" \in T /\ nl \in Seq(T)
    OBVIOUS
  <2>3. before \in Seq(T) /\ Front(q) \in Seq(Seq(T))
    <3>1. Seq(R) \subseteq Seq(T) /\ Seq(S) \subseteq Seq(T)
      OBVIOUS
    <3> HIDE DEF T, R, q, before
    <3> QED
      BY <1>5, <1>6, <3>1, SeqMonotonic
  <2>4. y \in Seq(T) /\ z \in Seq(T)
    BY <1>7
  <2>5. title = before \o z
    <3>1. q = Append(Front(q), y)
      BY <1>3
    <3> HIDE DEF T, y, q
    <3>2. Ended(Append(Front(q), y), "TAB") = Ended(Front(q), "TAB") \o (y \o <<"TAB">>)
      BY <2>2, <2>3, <2>4, EndedAppend
    <3> QED
      BY <3>1, <3>2
  <2>6. end = z \o nl
    BY DEF end
  <2> HIDE DEF T, begin, before, y, z, nl, title, q
  <2>7. (before \o z) \o nl = before \o (z \o nl)
    <3>1. before \in Seq(T) /\ z \in Seq(T) /\ nl \in Seq(T)
      BY <2>2, <2>3, <2>4
    <3>2. Three(T, before, z, nl)
      BY <3>1 DEF Three
    <3> QED
      BY <3>2, ConcatThree
  <2>8. (begin \o before) \o end = begin \o (before \o end)
    <3>1. begin \in Seq(T) /\ before \in Seq(T) /\ end \in Seq(T)
      BY <1>7, <1>10, <2>3
    <3> HIDE DEF R, T, k, n, kind, third, end, before, begin
    <3>2. Three(T, begin, before, end)
      BY <3>1 DEF Three
    <3> QED
      BY <3>2, ConcatThree
  <2> QED
    BY <2>1, <2>5, <2>6, <2>7, <2>8
<1>12. CreatedText(kinds) = begin \o third
  <2> DEFINE x == begin \o before
  <2>1. end \in Seq(T) /\ Len(end) = 4 /\ before \in Seq(T)
    <3>1. Seq(R) \subseteq Seq(T)
      OBVIOUS
    <3> HIDE DEF before, R, T
    <3> QED
      BY <1>6, <1>7, <3>1
  <2> HIDE DEF T, begin, before
  <2>2. x \in Seq(T) /\ Len(x) \in Nat
    BY <1>10, <2>1
  <2> HIDE DEF x
  <2>3. Len(Header(kinds)) = Len(x) + 4
    <3>1. Len(x \o end) = Len(x) + Len(end)
      BY <2>1, <2>2, ConcatProperties
    <3> QED
      BY <1>11, <2>1, <3>1 DEF x
  <2>4. Len(Digits(n)) = (IF n < Ten THEN 1 ELSE 2)
    BY DigitsType
  <2>5. FileSize(kinds) = Len(x) + k
    <3>1. FileSize(kinds) = Len(x) + 4 - Len(Digits(n)) - 1
      BY <2>3 DEF FileSize
    <3> HIDE DEF n
    <3>2. CASE n < Ten
      BY <2>2, <2>4, <3>1, <3>2
    <3>3. CASE ~ (n < Ten)
      BY <2>2, <2>4, <3>1, <3>3
    <3> QED
      BY <3>2, <3>3
  <2>6. k \in 0 .. Len(end)
    BY <2>1
  <2> HIDE DEF k
  <2>7. SubSeq(x \o end, 1, Len(x) + k) = x \o SubSeq(end, 1, k)
    BY <2>1, <2>2, <2>6, CutInside
  <2>8. CreatedText(kinds) = x \o last
    BY <1>11, <2>5, <2>7 DEF CreatedText, x, last
  <2>9. last \in Seq(T)
    <3>1. Seq(S) \subseteq Seq(T)
      BY DEF T
    <3> QED
      BY <1>9, <3>1
  <2>10. x \o last = begin \o (before \o last)
    <3>1. Three(T, begin, before, last)
      BY <1>10, <2>1, <2>9 DEF Three
    <3> QED
      BY <3>1, ConcatThree DEF x
  <2> QED
    BY <2>8, <2>10
<1>13. third \in Seq(R)
  <2>1. Seq(S) \subseteq Seq(R)
    OBVIOUS
  <2> HIDE DEF before, R
  <2>2. last \in Seq(R)
    BY <1>9, <2>1
  <2> QED
    BY <1>6, <2>2
<1>14. "NL" \notin R /\ "TAB" \notin S /\ "ZERO" \notin R
  BY DEF Plain
<1>15. <<<<"name">>, Digits(n)>> \in Seq(Seq(R))
  <2> DEFINE name == <<"name">>
             digits == Digits(n)
  <2>1. "name" \in S /\ digits \in Seq(S) /\ Seq(S) \subseteq Seq(R)
    BY DigitsType DEF Plain, Fixed
  <2>2. name \in Seq(R) /\ digits \in Seq(R)
    BY <2>1
  <2> HIDE DEF name, digits
  <2>3. <<name, digits>> \in Seq(Seq(R))
    BY <2>2
  <2> QED
    BY <2>3 DEF name, digits
<1> HIDE DEF third, R
<1>16. p = Append(<<<<"name">>, Digits(n)>>, third)
  <2> DEFINE two == <<<<"name">>, Digits(n)>>
  <2> HIDE DEF two, n
  <2>1. two \in Seq(Seq(R)) /\ CreatedText(kinds) = Ended(two, "NL") \o third
    BY <1>12, <1>15 DEF two
  <2>2. p = Append(two, third)
    BY <1>13, <1>14, <2>1, SplitEnded
  <2> QED
    BY <2>2 DEF two
<1>17. Len(p) = 3 /\ p[1] = <<"name">> /\ p[2] = Digits(n) /\ p[3] = third
  <2> HIDE DEF n
  <2> QED
    BY <1>16
<1>18. UpToZero(third) = third
  BY <1>13, <1>14, UpToZeroType
<1> HIDE DEF before, q
<1>19. SplitAt(third, "TAB") = Append(Front(q), last)
  BY <1>5, <1>9, <1>14, SplitEnded DEF third, before
<1>20. columns = Append(Front(q), last)
  <2> DEFINE V == Seq(S) \ {<<>>}
  <2>1. last \in V /\ <<>> \notin V
    BY <1>9
  <2> HIDE DEF V
  <2>2. Append(Front(q), last) \in Seq(V)
    BY <1>3, <2>1 DEF V
  <2>3. NonEmpty(Append(Front(q), last)) = Append(Front(q), last)
    BY <2>1, <2>2, NonEmptyAll
  <2> QED
    BY <1>17, <1>18, <1>19, <2>3
<1>21. Len(columns) = n
  <2> HIDE DEF n
  <2> QED
    BY <1>1, <1>3, <1>5, <1>20
<1>22. ASSUME NEW j \in 1 .. n, j < n \/ n < Ten
       PROVE  columns[j] = q[j]
  <2> HIDE DEF n, kind
  <2>1. CASE j = n
    <3>1. n < Ten /\ Len(Front(q)) + 1 = n
      BY <1>1, <1>3, <1>22, <2>1
    <3>2. last = y
      BY <1>8, <3>1
    <3> HIDE DEF y
    <3>3. columns[Len(Front(q)) + 1] = last
      BY <1>5, <1>20
    <3>4. q[n] = y
      BY <1>1, <1>2 DEF y, kind
    <3> QED
      BY <2>1, <3>1, <3>2, <3>3, <3>4
  <2>2. CASE j # n
    <3>1. j \in 1 .. Len(Front(q))
      BY <1>1, <1>3, <2>2
    <3> DEFINE front == Front(q)
    <3>2. front \in Seq(Seq(S)) /\ q = Append(front, y) /\ columns = Append(front, last)
      BY <1>3, <1>5, <1>20
    <3> HIDE DEF front, y
    <3>3. j \in 1 .. Len(front)
      BY <3>1 DEF front
    <3>4. \A x : Append(front, x)[j] = front[j]
      BY <3>2, <3>3
    <3> QED
      BY <3>2, <3>4
  <2> QED
    BY <2>1, <2>2
<1>23. CreatedText(kinds) \in Seq(T)
  <2>1. third \in Seq(T)
    <3>1. Seq(R) \subseteq Seq(T)
      BY DEF R
    <3> QED
      BY <1>13, <3>1
  <2> HIDE DEF T, begin
  <2> QED
    BY <1>10, <1>12, <2>1
<1> QED
  BY <1>17, <1>21, <1>22, <1>23 DEF q, HeadOnly
=============================================================================
