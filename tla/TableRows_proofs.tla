-------------------------- MODULE TableRows_proofs --------------------------
(***************************************************************************)
(* The search tree gives the rows of a WHERE clause exactly, and UPDATE    *)
(* and DELETE do with them what they do, for any table and any clause.     *)
(***************************************************************************)
EXTENDS TableRows, Recursion_proofs

Node == [word : Int, row : Int, left : Nat, right : Nat]

-----------------------------------------------------------------------------
(* The tree.                                                               *)

\* sub[a] are the nodes of the subtree at a, sub[NULL] none: children are
\* allocated after their parents, have one parent, and are on their side.
Ordered(t, sub) ==
    /\ t \in Seq(Node)
    /\ sub \in [0 .. Len(t) -> SUBSET (1 .. Len(t))]
    /\ sub[NULL] = {}
    /\ t # <<>> => sub[1] = 1 .. Len(t)
    /\ \A a \in 1 .. Len(t) :
          /\ t[a].left \in {NULL} \cup (a + 1 .. Len(t))
          /\ t[a].right \in {NULL} \cup (a + 1 .. Len(t))
          /\ sub[a] = {a} \cup sub[t[a].left] \cup sub[t[a].right]
          /\ a \notin sub[t[a].left] /\ a \notin sub[t[a].right]
          /\ sub[t[a].left] \cap sub[t[a].right] = {}
          /\ \A b \in sub[t[a].left] : t[b].word < t[a].word
          /\ \A b \in sub[t[a].right] : t[b].word >= t[a].word

Child(t, a, p) == p # NULL /\ (p = t[a].left \/ p = t[a].right)

OneParent(t) ==
    \A a, b, p \in 1 .. Len(t) : Child(t, a, p) /\ Child(t, b, p) => a = b

\* The subtree at a node of a subtree is part of it.
LEMMA SubtreesNest ==
    ASSUME NEW t \in Seq(Node), NEW sub, Ordered(t, sub)
    PROVE  \A a \in 1 .. Len(t) : \A b \in sub[a] : sub[b] \subseteq sub[a]
<1> DEFINE N == Len(t)
           Nested(a) == \A b \in sub[a] : sub[b] \subseteq sub[a]
           Low == {m \in 0 .. N : \A a \in N - m + 1 .. N : Nested(a)}
<1>0. N \in Nat
  OBVIOUS
<1>1. 0 \in Low
  OBVIOUS
<1>2. ASSUME NEW m \in 0 .. N, m \in Low, m < N
      PROVE  m + 1 \in Low
  <2> DEFINE a == N - m
  <2>1. a \in 1 .. N
    BY <1>2
  <2>2. /\ sub[a] = {a} \cup sub[t[a].left] \cup sub[t[a].right]
        /\ t[a].left = NULL \/ t[a].left \in N - m + 1 .. N
        /\ t[a].right = NULL \/ t[a].right \in N - m + 1 .. N
        /\ sub[NULL] = {}
    BY <2>1 DEF Ordered
  <2> HIDE DEF Nested
  <2>3. \A c \in N - m + 1 .. N : Nested(c)
    BY <1>2
  <2> HIDE DEF a
  <2>4. Nested(a)
    BY <2>2, <2>3 DEF Nested
  <2>5. \A c \in N - (m + 1) + 1 .. N : c = a \/ c \in N - m + 1 .. N
    BY DEF a
  <2> QED
    BY <1>2, <2>3, <2>4, <2>5
<1> HIDE DEF Low, N
<1>3. \A m \in 0 .. N : m \in Low
  BY <1>0, <1>1, <1>2, Stepwise
<1>4. N \in Low
  BY <1>0, <1>3
<1> QED
  BY <1>0, <1>4 DEF Low, N

\* What Passed is.
LEMMA PassedSteps ==
    ASSUME NEW t \in Seq(Node), NEW sub, Ordered(t, sub), NEW word \in Int
    PROVE  /\ \A k \in 0 .. Len(t) : Passed(t, word)[k] \in 0 .. Len(t)
           /\ Passed(t, word)[0] = Root(t)
           /\ \A k \in 1 .. Len(t) :
                 Passed(t, word)[k] =
                    IF Passed(t, word)[k - 1] = NULL THEN NULL
                    ELSE Towards(t, Passed(t, word)[k - 1], word)
<1> DEFINE N == Len(t)
           Then(a) == IF a = NULL THEN NULL ELSE Towards(t, a, word)
           Defines(f) == f = [k \in 0 .. N |-> IF k = 0 THEN Root(t)
                                               ELSE IF f[k - 1] = NULL THEN NULL
                                               ELSE Towards(t, f[k - 1], word)]
           go == [k \in 1 .. N |-> [a \in 0 .. N |-> Then(a)]]
<1>1. N \in Nat
  OBVIOUS
<1>2. ASSUME NEW a \in 0 .. N
      PROVE  Then(a) \in 0 .. N
  BY DEF Ordered, Towards, NULL
<1>3. Root(t) \in 0 .. N
  BY DEF Root, NULL
<1>4. PICK f : Runs(f, N, 0 .. N, Root(t), go)
  <2>1. Steps(go, N, 0 .. N)
    BY <1>2 DEF Steps
  <2> HIDE DEF N, go
  <2> QED
    BY <1>1, <1>3, <2>1, Recursion
<1>5. ASSUME NEW k \in 1 .. N
      PROVE  f[k] = IF f[k - 1] = NULL THEN NULL ELSE Towards(t, f[k - 1], word)
  <2>1. k - 1 \in 0 .. N
    BY <1>1
  <2>2. f[k - 1] \in 0 .. N /\ f[k] = go[k][f[k - 1]]
    BY <1>4, <2>1 DEF Runs
  <2>3. go[k][f[k - 1]] = Then(f[k - 1])
    BY <2>2
  <2> QED
    BY <2>2, <2>3
<1>6. f = [k \in 0 .. N |-> f[k]] /\ f[0] = Root(t)
  BY <1>4 DEF Runs
<1>7. Defines(f)
  BY <1>5, <1>6
<1>8. Passed(t, word) = CHOOSE g : Defines(g)
  BY DEF Passed
<1> DEFINE at == Passed(t, word)
<1>9. Defines(at)
  <2> HIDE DEF Defines
  <2> QED
    BY <1>7, <1>8
<1> HIDE DEF at
<1>10. /\ at[0] = Root(t)
       /\ \A k \in 1 .. N : at[k] = IF at[k - 1] = NULL THEN NULL
                                    ELSE Towards(t, at[k - 1], word)
  BY <1>9
<1>11. \A k \in 0 .. N : at[k] \in 0 .. N
  <2> DEFINE Ranged == {k \in 0 .. N : at[k] \in 0 .. N}
  <2>1. 0 \in Ranged
    BY <1>3, <1>10
  <2>2. ASSUME NEW k \in 0 .. N, k \in Ranged, k < N
        PROVE  k + 1 \in Ranged
    <3>1. at[k + 1] = Then(at[k])
      BY <1>10, <2>2
    <3> QED
      BY <1>2, <2>2, <3>1
  <2> HIDE DEF Ranged
  <2>3. \A k \in 0 .. N : k \in Ranged
    BY <1>1, <2>1, <2>2, Stepwise
  <2> QED
    BY <2>3 DEF Ranged
<1> QED
  BY <1>10, <1>11 DEF at

\* The nodes passed lie one below the other, until there are no more.
LEMMA PassedDown ==
    ASSUME NEW t \in Seq(Node), NEW sub, Ordered(t, sub), NEW word \in Int,
           NEW k \in 0 .. Len(t), Passed(t, word)[k] # NULL
    PROVE  /\ k < Len(t)
           /\ \A j \in 0 .. k : Passed(t, word)[j] # NULL
           /\ \A j \in 0 .. k : Passed(t, word)[j] <= Passed(t, word)[k]
           /\ \A j \in k + 1 .. Len(t) :
                 Passed(t, word)[j] \in {NULL} \cup sub[Passed(t, word)[k + 1]]
<1> DEFINE N == Len(t)
           at == Passed(t, word)
<1> HIDE DEF at
<1>1. /\ N \in Nat
      /\ \A m \in 0 .. N : at[m] \in 0 .. N
      /\ at[0] = Root(t)
  BY PassedSteps DEF at
<1>2. \A m \in 0 .. N : m < N =>
         /\ at[m] = NULL => at[m + 1] = NULL
         /\ at[m] # NULL => at[m + 1] = Towards(t, at[m], word)
  <2>1. \A m \in 1 .. N : at[m] = IF at[m - 1] = NULL THEN NULL
                                  ELSE Towards(t, at[m - 1], word)
    BY PassedSteps DEF at
  <2>2. \A m \in 0 .. N : m < N => m + 1 \in 1 .. N /\ (m + 1) - 1 = m
    BY <1>1
  <2> HIDE DEF N
  <2> QED
    BY <2>1, <2>2
<1>3. \A m \in 0 .. N : m < N /\ at[m] # NULL =>
         at[m + 1] = NULL \/ (at[m + 1] > at[m] /\ at[m + 1] \in sub[at[m]])
  <2> SUFFICES ASSUME NEW m \in 0 .. N, m < N, at[m] # NULL, at[m + 1] # NULL
               PROVE  at[m + 1] > at[m] /\ at[m + 1] \in sub[at[m]]
    OBVIOUS
  <2>1. at[m] \in 1 .. N /\ at[m + 1] \in 1 .. N
    BY <1>1 DEF NULL
  <2>2. \/ at[m + 1] = t[at[m]].left
        \/ at[m + 1] = t[at[m]].right
    BY <1>2 DEF Towards
  <2>3. at[m + 1] > at[m]
    BY <2>1, <2>2 DEF Ordered
  <2>4. at[m + 1] \in sub[at[m + 1]]
    BY <2>1 DEF Ordered
  <2>5. sub[at[m]] = {at[m]} \cup sub[t[at[m]].left] \cup sub[t[at[m]].right]
    BY <2>1 DEF Ordered
  <2> QED
    BY <2>2, <2>3, <2>4, <2>5
<1>4. \A m \in 0 .. N : at[m] = NULL \/ at[m] > m
  <2> DEFINE High == {m \in 0 .. N : at[m] = NULL \/ at[m] > m}
  <2>1. 0 \in High
    BY <1>1 DEF Root, NULL
  <2>2. ASSUME NEW m \in 0 .. N, m \in High, m < N
        PROVE  m + 1 \in High
    BY <1>1, <1>2, <1>3, <2>2
  <2> HIDE DEF High, N
  <2>3. \A m \in 0 .. N : m \in High
    BY <1>1, <2>1, <2>2, Stepwise
  <2> QED
    BY <2>3 DEF High
<1>5. k < N
  BY <1>1, <1>4 DEF at
<1>6. \A j \in 0 .. k : at[j] # NULL /\ at[j] <= at[k]
  <2> DEFINE Back == {j \in 0 .. k : at[k - j] # NULL /\ at[k - j] <= at[k]}
  <2>1. 0 \in Back
    BY <1>1 DEF at
  <2>2. ASSUME NEW j \in 0 .. k, j \in Back, j < k
        PROVE  j + 1 \in Back
    <3>1. k - (j + 1) \in 0 .. N /\ k - (j + 1) < N /\ (k - (j + 1)) + 1 = k - j
      BY <2>2
    <3>2. at[k - (j + 1)] # NULL
      BY <1>2, <2>2, <3>1
    <3>3. at[k - j] > at[k - (j + 1)]
      BY <1>3, <2>2, <3>1, <3>2
    <3>4. at[k - j] \in 0 .. N /\ at[k - (j + 1)] \in 0 .. N /\ at[k] \in 0 .. N
      BY <1>1, <2>2, <3>1
    <3> QED
      BY <2>2, <3>2, <3>3, <3>4
  <2> HIDE DEF Back, N
  <2>3. \A j \in 0 .. k : j \in Back
    BY <2>1, <2>2, Stepwise
  <2> SUFFICES ASSUME NEW j \in 0 .. k
               PROVE  at[j] # NULL /\ at[j] <= at[k]
    OBVIOUS
  <2>4. k - j \in Back /\ k - (k - j) = j
    BY <2>3
  <2> QED
    BY <2>4 DEF Back
<1>7. \A a \in 1 .. N : \A b \in sub[a] : sub[b] \subseteq sub[a]
  BY SubtreesNest
<1>8. \A j \in k + 1 .. N : at[j] \in {NULL} \cup sub[at[k + 1]]
  <2> DEFINE Under == {m \in 0 .. N - k - 1 : at[k + 1 + m] \in {NULL} \cup sub[at[k + 1]]}
  <2>0. N - k - 1 \in Nat
    BY <1>5
  <2>1. 0 \in Under
    <3>1. at[k + 1] \in 0 .. N
      BY <1>1, <1>5
    <3>2. at[k + 1] \in {NULL} \cup sub[at[k + 1]]
      BY <3>1 DEF Ordered, NULL
    <3> QED
      BY <2>0, <3>2
  <2>2. ASSUME NEW m \in 0 .. N - k - 1, m \in Under, m < N - k - 1
        PROVE  m + 1 \in Under
    <3>1. k + 1 + m \in 0 .. N /\ k + 1 + m < N /\ (k + 1 + m) + 1 = k + 1 + (m + 1)
      BY <2>2
    <3>2. CASE at[k + 1 + m] = NULL
      BY <1>2, <2>2, <3>1, <3>2
    <3>3. CASE at[k + 1 + m] # NULL
      <4>1. at[k + 1 + m] \in sub[at[k + 1]] /\ at[k + 1] \in 0 .. N
        BY <1>1, <1>5, <2>2, <3>3
      <4>2. at[k + 1] \in 1 .. N
        BY <4>1 DEF Ordered, NULL
      <4>3. sub[at[k + 1 + m]] \subseteq sub[at[k + 1]]
        BY <1>7, <4>1, <4>2
      <4>4. at[k + 1 + (m + 1)] \in {NULL} \cup sub[at[k + 1 + m]]
        BY <1>3, <3>1, <3>3
      <4> QED
        BY <2>2, <4>3, <4>4
    <3> QED
      BY <3>2, <3>3
  <2> HIDE DEF Under, N
  <2>3. \A m \in 0 .. N - k - 1 : m \in Under
    BY <2>0, <2>1, <2>2, Stepwise
  <2> SUFFICES ASSUME NEW j \in k + 1 .. N
               PROVE  at[j] \in {NULL} \cup sub[at[k + 1]]
    OBVIOUS
  <2>4. j - k - 1 \in Under /\ k + 1 + (j - k - 1) = j
    BY <1>1, <2>3
  <2> QED
    BY <2>4 DEF Under
<1> QED
  BY <1>5, <1>6, <1>8 DEF at

Path(t, word) == {a \in 1 .. Len(t) : \E k \in 0 .. Len(t) : Passed(t, word)[k] = a}

\* The pointer in node a that insert does not follow.
Aside(t, a, word) == IF word < t[a].word THEN t[a].right ELSE t[a].left

\* From a node of the path one child is on it, from other nodes none; the
\* path ends at one node.
LEMMA PathChildren ==
    ASSUME NEW t \in Seq(Node), NEW sub, Ordered(t, sub), OneParent(t), NEW word \in Int
    PROVE  /\ t # <<>> => 1 \in Path(t, word)
           /\ \A a \in Path(t, word) :
                 /\ Towards(t, a, word) \in {NULL} \cup Path(t, word)
                 /\ Aside(t, a, word) \notin Path(t, word)
           /\ \A a \in (1 .. Len(t)) \ Path(t, word) :
                 t[a].left \notin Path(t, word) /\ t[a].right \notin Path(t, word)
           /\ \A a, b \in Path(t, word) :
                 Towards(t, a, word) = NULL /\ Towards(t, b, word) = NULL => a = b
<1> DEFINE N == Len(t)
           at == Passed(t, word)
           P == Path(t, word)
<1> HIDE DEF at
<1>1. /\ N \in Nat
      /\ \A k \in 0 .. N : at[k] \in 0 .. N
      /\ at[0] = Root(t)
      /\ \A k \in 1 .. N : at[k] = IF at[k - 1] = NULL THEN NULL
                                   ELSE Towards(t, at[k - 1], word)
  BY PassedSteps DEF at
<1>2. P = {a \in 1 .. N : \E k \in 0 .. N : at[k] = a}
  BY DEF Path, at
<1>3. ASSUME NEW k \in 0 .. N, at[k] # NULL
      PROVE  /\ k < N
             /\ \A j \in 0 .. k : at[j] # NULL
             /\ \A j \in 0 .. k : at[j] <= at[k]
             /\ \A j \in k + 1 .. N : at[j] \in {NULL} \cup sub[at[k + 1]]
  BY <1>3, PassedDown DEF at
<1>4. ASSUME NEW a \in P
      PROVE  \E k \in 0 .. N : /\ k < N /\ at[k] = a /\ at[k] # NULL
                               /\ at[k + 1] = Towards(t, a, word)
  <2>1. PICK k \in 0 .. N : at[k] = a /\ a \in 1 .. N
    BY <1>2
  <2>2. at[k] # NULL /\ k < N
    BY <1>3, <2>1 DEF NULL
  <2>3. k + 1 \in 1 .. N /\ (k + 1) - 1 = k
    BY <1>1, <2>2
  <2> HIDE DEF N
  <2> QED
    BY <1>1, <2>1, <2>2, <2>3
<1> HIDE DEF P, N
<1>5. t # <<>> => 1 \in P
  BY <1>1, <1>2 DEF Root, N
<1>6. ASSUME NEW a \in P
      PROVE  Towards(t, a, word) \in {NULL} \cup P
  <2>1. PICK k \in 0 .. N : k < N /\ at[k + 1] = Towards(t, a, word)
    BY <1>4
  <2>2. k + 1 \in 0 .. N
    BY <1>1, <2>1
  <2>3. at[k + 1] = NULL \/ at[k + 1] \in 1 .. N
    BY <1>1, <2>2 DEF NULL
  <2> QED
    BY <1>2, <2>1, <2>2, <2>3
<1>7. ASSUME NEW a \in P
      PROVE  Aside(t, a, word) \notin P
  <2> DEFINE d == Aside(t, a, word)
             c == Towards(t, a, word)
  <2> SUFFICES ASSUME d \in P PROVE FALSE
    OBVIOUS
  <2>1. PICK k \in 0 .. N : k < N /\ at[k] = a /\ at[k] # NULL /\ at[k + 1] = c
    BY <1>4
  <2>2. PICK j \in 0 .. N : at[j] = d
    BY <1>2
  <2>3. a \in 1 .. N /\ d \in 1 .. N
    BY <1>2
  <2>4. d > a
    BY <2>3 DEF Ordered, Aside, N, NULL
  <2>5. j > k
    BY <1>1, <1>3, <2>1, <2>2, <2>3, <2>4
  <2>6. d \in sub[c]
    <3>1. \A m \in k + 1 .. N : at[m] \in {NULL} \cup sub[c]
      BY <1>3, <2>1
    <3>2. j \in k + 1 .. N
      BY <1>1, <2>5
    <3> QED
      BY <2>2, <2>3, <3>1, <3>2 DEF NULL
  <2>7. d \in sub[d]
    BY <2>3 DEF Ordered, N
  <2>8. sub[c] \cap sub[d] = {}
    BY <2>3 DEF Ordered, Aside, Towards, N
  <2> QED
    BY <2>6, <2>7, <2>8
<1>8. ASSUME NEW a \in (1 .. N) \ P, NEW c \in P, c = t[a].left \/ c = t[a].right
      PROVE  FALSE
  <2>1. PICK k \in 0 .. N : at[k] = c /\ c \in 1 .. N
    BY <1>2
  <2>2. c > a
    BY <1>8, <2>1 DEF Ordered, N, NULL
  <2>3. k # 0
    BY <1>1, <2>1, <2>2 DEF Root, NULL
  <2>4. k - 1 \in 0 .. N /\ k \in 1 .. N
    BY <1>1, <2>3
  <2>5. at[k - 1] \in 1 .. N /\ c = Towards(t, at[k - 1], word)
    BY <1>1, <2>1, <2>4 DEF NULL
  <2>6. at[k - 1] = a
    BY <1>8, <2>1, <2>5 DEF OneParent, Child, Towards, N, NULL
  <2> QED
    BY <1>2, <2>4, <2>6
<1>9. ASSUME NEW a \in P, NEW b \in P,
             Towards(t, a, word) = NULL, Towards(t, b, word) = NULL
      PROVE  a = b
  <2>1. PICK k \in 0 .. N : k < N /\ at[k] = a /\ at[k] # NULL /\ at[k + 1] = NULL
    BY <1>4, <1>9
  <2>2. PICK j \in 0 .. N : j < N /\ at[j] = b /\ at[j] # NULL /\ at[j + 1] = NULL
    BY <1>4, <1>9
  <2>3. ~ (j > k)
    BY <1>1, <1>3, <2>1, <2>2
  <2>4. ~ (k > j)
    BY <1>1, <1>3, <2>1, <2>2
  <2> QED
    BY <1>1, <2>1, <2>2, <2>3, <2>4
<1> QED
  BY <1>5, <1>6, <1>7, <1>8, <1>9 DEF P, N

\* What insert makes of a tree, whatever the tree.
LEMMA InsertType ==
    ASSUME NEW t \in Seq(Node), NEW word \in Int, NEW row \in Int
    PROVE  LET u == Insert(t, word, row)
               n == Len(t) + 1
           IN  /\ u \in Seq(Node)
               /\ Len(u) = n
               /\ u[n] = [word |-> word, row |-> row, left |-> NULL, right |-> NULL]
               /\ \A a \in 1 .. Len(t) :
                     /\ u[a].word = t[a].word
                     /\ u[a].row = t[a].row
                     /\ LET parent == a \in Path(t, word) /\ Towards(t, a, word) = NULL
                        IN  /\ u[a].left = IF parent /\ word < t[a].word THEN n ELSE t[a].left
                            /\ u[a].right = IF parent /\ word >= t[a].word THEN n ELSE t[a].right
<1> DEFINE N == Len(t)
           u == Insert(t, word, row)
           Parent(a) == /\ \E k \in 0 .. N : Passed(t, word)[k] = a
                        /\ Towards(t, a, word) = NULL
           node == [word |-> word, row |-> row, left |-> NULL, right |-> NULL]
<1>1. N \in Nat
  OBVIOUS
<1>2. u = [a \in 1 .. N + 1 |->
            IF a = N + 1 THEN node
            ELSE IF ~ Parent(a) THEN t[a]
            ELSE IF word < t[a].word THEN [t[a] EXCEPT !.left = N + 1]
            ELSE [t[a] EXCEPT !.right = N + 1]]
  BY DEF Insert
<1>3. node \in Node
  BY DEF Node, NULL
<1>4. \A a \in 1 .. N : Parent(a) <=> a \in Path(t, word) /\ Towards(t, a, word) = NULL
  BY DEF Path
<1> HIDE DEF Parent, u, node
<1>5. ASSUME NEW a \in 1 .. N
      PROVE  /\ u[a] \in Node
             /\ u[a].word = t[a].word
             /\ u[a].row = t[a].row
             /\ u[a].left = IF Parent(a) /\ word < t[a].word THEN N + 1 ELSE t[a].left
             /\ u[a].right = IF Parent(a) /\ word >= t[a].word THEN N + 1 ELSE t[a].right
  <2>1. t[a] \in Node /\ a # N + 1 /\ a \in 1 .. N + 1 /\ N + 1 \in Nat
    OBVIOUS
  <2>2. u[a] = IF ~ Parent(a) THEN t[a]
               ELSE IF word < t[a].word THEN [t[a] EXCEPT !.left = N + 1]
               ELSE [t[a] EXCEPT !.right = N + 1]
    BY <1>2, <2>1
  <2>3. word < t[a].word <=> ~ (word >= t[a].word)
    BY <2>1 DEF Node
  <2> HIDE DEF N
  <2>4. CASE ~ Parent(a)
    BY <2>1, <2>2, <2>4
  <2>5. CASE Parent(a) /\ word < t[a].word
    BY <2>1, <2>2, <2>3, <2>5 DEF Node
  <2>6. CASE Parent(a) /\ word >= t[a].word
    BY <2>1, <2>2, <2>3, <2>6 DEF Node
  <2> QED
    BY <2>3, <2>4, <2>5, <2>6
<1>6. u[N + 1] = node
  BY <1>1, <1>2
<1>7. u \in [1 .. N + 1 -> Node]
  <2>1. ASSUME NEW a \in 1 .. N + 1
        PROVE  u[a] \in Node
    BY <1>3, <1>5, <1>6
  <2>2. u = [a \in 1 .. N + 1 |-> u[a]]
    BY <1>2
  <2> HIDE DEF N
  <2> QED
    BY <2>1, <2>2
<1>8. u \in Seq(Node) /\ Len(u) = N + 1
  <2> HIDE DEF N
  <2> QED
    BY <1>1, <1>7
<1> QED
  BY <1>4, <1>5, <1>6, <1>8 DEF u, node

\* Insertion leaves a tree a tree.
LEMMA InsertKeeps ==
    ASSUME NEW t \in Seq(Node), NEW sub, Ordered(t, sub), OneParent(t),
           NEW word \in Int, NEW row \in Int
    PROVE  /\ \E new : Ordered(Insert(t, word, row), new)
           /\ OneParent(Insert(t, word, row))
<1> DEFINE N == Len(t)
           n == Len(t) + 1
           u == Insert(t, word, row)
           P == Path(t, word)
           new == [a \in 0 .. n |-> IF a = n THEN {n}
                                    ELSE IF a \in P THEN sub[a] \cup {n} ELSE sub[a]]
           Parent(a) == a \in P /\ Towards(t, a, word) = NULL
<1>1. N \in Nat /\ n = N + 1 /\ P \subseteq 1 .. N
  BY DEF Path
<1>2. /\ t # <<>> => 1 \in P
      /\ \A a \in P : /\ Towards(t, a, word) \in {NULL} \cup P
                      /\ Aside(t, a, word) \notin P
      /\ \A a \in (1 .. N) \ P : t[a].left \notin P /\ t[a].right \notin P
      /\ \A a, b \in P : Towards(t, a, word) = NULL /\ Towards(t, b, word) = NULL => a = b
  BY PathChildren
<1>3. /\ u \in Seq(Node)
      /\ Len(u) = n
      /\ u[n] = [word |-> word, row |-> row, left |-> NULL, right |-> NULL]
      /\ \A a \in 1 .. N :
            /\ u[a].word = t[a].word
            /\ u[a].left = IF Parent(a) /\ word < t[a].word THEN n ELSE t[a].left
            /\ u[a].right = IF Parent(a) /\ word >= t[a].word THEN n ELSE t[a].right
  BY InsertType
<1> HIDE DEF P, u
<1>4. /\ new[n] = {n}
      /\ new[NULL] = sub[NULL] /\ sub[NULL] = {}
      /\ \A a \in P : new[a] = sub[a] \cup {n}
      /\ \A a \in 0 .. N : a \notin P => new[a] = sub[a]
  BY <1>1 DEF Ordered, NULL
<1>5. new \in [0 .. n -> SUBSET (1 .. n)]
  <2>1. \A a \in 0 .. N : sub[a] \subseteq 1 .. N
    BY DEF Ordered
  <2>2. ASSUME NEW a \in 0 .. n
        PROVE  new[a] \in SUBSET (1 .. n)
    BY <1>1, <2>1
  <2> HIDE DEF new
  <2>3. new = [a \in 0 .. n |-> new[a]]
    BY DEF new
  <2> QED
    BY <2>2, <2>3
<1>6. new[1] = 1 .. n
  <2>1. CASE N = 0
    BY <1>4, <2>1
  <2>2. CASE N # 0
    <3>1. sub[1] = 1 .. N /\ 1 \in P
      BY <1>1, <1>2, <2>2 DEF Ordered
    <3> QED
      BY <1>1, <1>4, <3>1
  <2> QED
    BY <2>1, <2>2
<1> HIDE DEF new
<1>7. ASSUME NEW a \in 1 .. N
      PROVE  /\ t[a].word \in Int
             /\ t[a].left \in {NULL} \cup (a + 1 .. N)
             /\ t[a].right \in {NULL} \cup (a + 1 .. N)
             /\ t[a].left \in 0 .. N /\ t[a].right \in 0 .. N
             /\ word < t[a].word <=> ~ (word >= t[a].word)
             /\ word < t[a].word => Towards(t, a, word) = t[a].left
                                    /\ Aside(t, a, word) = t[a].right
             /\ word >= t[a].word => Towards(t, a, word) = t[a].right
                                     /\ Aside(t, a, word) = t[a].left
  <2>1. t[a].word \in Int
    <3>1. t[a] \in Node
      OBVIOUS
    <3> QED
      BY <3>1 DEF Node
  <2>2. /\ t[a].left \in {NULL} \cup (a + 1 .. N)
        /\ t[a].right \in {NULL} \cup (a + 1 .. N)
    BY DEF Ordered
  <2>3. t[a].left \in 0 .. N /\ t[a].right \in 0 .. N
    BY <2>2 DEF NULL
  <2>4. word < t[a].word <=> ~ (word >= t[a].word)
    BY <2>1
  <2>5. /\ word < t[a].word => Towards(t, a, word) = t[a].left
                               /\ Aside(t, a, word) = t[a].right
        /\ ~ (word < t[a].word) => Towards(t, a, word) = t[a].right
                                   /\ Aside(t, a, word) = t[a].left
    BY DEF Towards, Aside
  <2> QED
    BY <2>1, <2>2, <2>3, <2>4, <2>5
<1>16. ASSUME NEW a \in 1 .. N
      PROVE  /\ sub[a] = {a} \cup sub[t[a].left] \cup sub[t[a].right]
             /\ a \notin sub[t[a].left] /\ a \notin sub[t[a].right]
             /\ sub[t[a].left] \cap sub[t[a].right] = {}
             /\ n \notin sub[t[a].left] /\ n \notin sub[t[a].right]
  <2>1. sub[t[a].left] \subseteq 1 .. N /\ sub[t[a].right] \subseteq 1 .. N
    BY <1>7 DEF Ordered
  <2> QED
    BY <1>1, <2>1 DEF Ordered
<1>17. ASSUME NEW a \in 1 .. N
      PROVE  /\ \A b \in sub[t[a].left] : b \in 1 .. N /\ t[b].word < t[a].word
             /\ \A b \in sub[t[a].right] : b \in 1 .. N /\ t[b].word >= t[a].word
  <2>1. sub[t[a].left] \subseteq 1 .. N /\ sub[t[a].right] \subseteq 1 .. N
    BY <1>7 DEF Ordered
  <2> QED
    BY <2>1 DEF Ordered
\* What the subtrees of a node are afterwards: n comes to the side of word.
<1>8. ASSUME NEW a \in P, word < t[a].word
      PROVE  new[u[a].left] = sub[t[a].left] \cup {n} /\ new[u[a].right] = sub[t[a].right]
  <2>1. a \in 1 .. N
    BY <1>1
  <2>2. u[a].right = t[a].right /\ t[a].right \notin P /\ t[a].right \in 0 .. N
    BY <1>2, <1>3, <1>7, <1>8, <2>1
  <2>3. CASE t[a].left = NULL
    <3>1. u[a].left = n
      BY <1>3, <1>7, <1>8, <2>1, <2>3
    <3> QED
      BY <1>4, <2>2, <2>3, <3>1
  <2>4. CASE t[a].left # NULL
    <3>1. u[a].left = t[a].left /\ t[a].left \in P
      BY <1>2, <1>3, <1>7, <1>8, <2>1, <2>4
    <3> QED
      BY <1>4, <2>2, <3>1
  <2> QED
    BY <2>3, <2>4
<1>9. ASSUME NEW a \in P, word >= t[a].word
      PROVE  new[u[a].left] = sub[t[a].left] /\ new[u[a].right] = sub[t[a].right] \cup {n}
  <2>1. a \in 1 .. N
    BY <1>1
  <2>2. u[a].left = t[a].left /\ t[a].left \notin P /\ t[a].left \in 0 .. N
    BY <1>2, <1>3, <1>7, <1>9, <2>1
  <2>3. CASE t[a].right = NULL
    <3>1. u[a].right = n
      BY <1>3, <1>7, <1>9, <2>1, <2>3
    <3> QED
      BY <1>4, <2>2, <2>3, <3>1
  <2>4. CASE t[a].right # NULL
    <3>1. u[a].right = t[a].right /\ t[a].right \in P
      BY <1>2, <1>3, <1>7, <1>9, <2>1, <2>4
    <3> QED
      BY <1>4, <2>2, <3>1
  <2> QED
    BY <2>3, <2>4
<1>10. ASSUME NEW a \in (1 .. N) \ P
       PROVE  new[u[a].left] = sub[t[a].left] /\ new[u[a].right] = sub[t[a].right]
  <2>1. /\ u[a].left = t[a].left /\ t[a].left \notin P /\ t[a].left \in 0 .. N
        /\ u[a].right = t[a].right /\ t[a].right \notin P /\ t[a].right \in 0 .. N
    BY <1>2, <1>3, <1>7
  <2> QED
    BY <1>4, <2>1
<1>11. ASSUME NEW a \in 1 .. n
       PROVE  /\ u[a].left \in {NULL} \cup (a + 1 .. n)
              /\ u[a].right \in {NULL} \cup (a + 1 .. n)
  <2>1. CASE a = n
    BY <1>3, <2>1
  <2>2. CASE a \in 1 .. N
    <3>1. /\ t[a].left \in {NULL} \cup (a + 1 .. N)
          /\ t[a].right \in {NULL} \cup (a + 1 .. N)
      BY <1>7, <2>2
    <3>2. u[a].left \in {n, t[a].left} /\ u[a].right \in {n, t[a].right}
      BY <1>3, <2>2
    <3>3. n \in a + 1 .. n
      BY <1>1, <2>2
    <3> QED
      BY <1>1, <2>2, <3>1, <3>2, <3>3
  <2> QED
    BY <1>1, <2>1, <2>2
<1>12. ASSUME NEW a \in 1 .. n
       PROVE  /\ new[a] = {a} \cup new[u[a].left] \cup new[u[a].right]
              /\ a \notin new[u[a].left] /\ a \notin new[u[a].right]
              /\ new[u[a].left] \cap new[u[a].right] = {}
  <2>1. CASE a = n
    BY <1>3, <1>4, <2>1
  <2> DEFINE L == sub[t[a].left]
             R == sub[t[a].right]
  <2>2. CASE a \in 1 .. N
    <3>1. /\ sub[a] = {a} \cup L \cup R
          /\ a \notin L /\ a \notin R /\ L \cap R = {}
          /\ n \notin L /\ n \notin R /\ a # n
      BY <1>1, <1>16, <2>2
    <3>2. CASE a \in P /\ word < t[a].word
      <4>1. new[u[a].left] = L \cup {n} /\ new[u[a].right] = R /\ new[a] = sub[a] \cup {n}
        BY <1>4, <1>8, <3>2
      <4> HIDE DEF L, R
      <4> QED
        BY <3>1, <4>1
    <3>3. CASE a \in P /\ word >= t[a].word
      <4>1. new[u[a].left] = L /\ new[u[a].right] = R \cup {n} /\ new[a] = sub[a] \cup {n}
        BY <1>4, <1>9, <3>3
      <4> HIDE DEF L, R
      <4> QED
        BY <3>1, <4>1
    <3>4. CASE a \notin P
      <4>1. new[u[a].left] = L /\ new[u[a].right] = R /\ new[a] = sub[a]
        <5>1. a \in 0 .. N /\ a \in (1 .. N) \ P
          BY <2>2, <3>4
        <5> QED
          BY <1>4, <1>10, <5>1
      <4> HIDE DEF L, R
      <4> QED
        BY <3>1, <4>1
    <3> QED
      BY <1>7, <2>2, <3>2, <3>3, <3>4
  <2> QED
    BY <1>1, <2>1, <2>2
<1>13. ASSUME NEW a \in 1 .. n
       PROVE  /\ \A b \in new[u[a].left] : u[b].word < u[a].word
              /\ \A b \in new[u[a].right] : u[b].word >= u[a].word
  <2>1. CASE a = n
    BY <1>3, <1>4, <2>1
  <2>2. u[n].word = word /\ \A b \in 1 .. N : u[b].word = t[b].word
    BY <1>3
  <2> DEFINE L == sub[t[a].left]
             R == sub[t[a].right]
  <2>3. CASE a \in 1 .. N
    <3>1. /\ \A b \in L : b \in 1 .. N /\ t[b].word < t[a].word
          /\ \A b \in R : b \in 1 .. N /\ t[b].word >= t[a].word
      BY <1>17, <2>3
    <3>2. CASE a \in P /\ word < t[a].word
      <4>1. new[u[a].left] = L \cup {n} /\ new[u[a].right] = R
        BY <1>8, <3>2
      <4> HIDE DEF L, R
      <4> QED
        BY <2>2, <2>3, <3>1, <3>2, <4>1
    <3>3. CASE a \in P /\ word >= t[a].word
      <4>1. new[u[a].left] = L /\ new[u[a].right] = R \cup {n}
        BY <1>9, <3>3
      <4> HIDE DEF L, R
      <4> QED
        BY <2>2, <2>3, <3>1, <3>3, <4>1
    <3>4. CASE a \notin P
      <4>1. new[u[a].left] = L /\ new[u[a].right] = R
        BY <1>10, <2>3, <3>4
      <4> HIDE DEF L, R
      <4> QED
        BY <2>2, <2>3, <3>1, <4>1
    <3> QED
      BY <1>7, <2>3, <3>2, <3>3, <3>4
  <2> QED
    BY <1>1, <2>1, <2>3
<1>14. Ordered(u, new)
  BY <1>3, <1>4, <1>5, <1>6, <1>11, <1>12, <1>13 DEF Ordered
<1>15. OneParent(u)
  <2> SUFFICES ASSUME NEW a \in 1 .. n, NEW b \in 1 .. n, NEW p \in 1 .. n,
                      Child(u, a, p), Child(u, b, p)
               PROVE  a = b
    BY <1>3 DEF OneParent
  <2>1. a \in 1 .. N /\ b \in 1 .. N
    BY <1>1, <1>3 DEF Child
  <2>2. CASE p = n
    <3>1. ASSUME NEW c \in 1 .. N, Child(u, c, n)
          PROVE  Parent(c)
      <4>1. t[c].left # n /\ t[c].right # n
        BY <1>1, <1>7
      <4>2. u[c].left = n \/ u[c].right = n
        BY <3>1 DEF Child
      <4> QED
        BY <1>3, <4>1, <4>2
    <3>2. Parent(a) /\ Parent(b)
      BY <2>1, <2>2, <3>1
    <3> QED
      BY <1>2, <3>2
  <2>3. CASE p # n
    <3>1. Child(t, a, p) /\ Child(t, b, p)
      BY <1>3, <2>1, <2>3 DEF Child
    <3>2. p \in 1 .. N
      BY <1>1, <2>3
    <3> QED
      BY <2>1, <3>1, <3>2 DEF OneParent
  <2> QED
    BY <2>2, <2>3
<1> QED
  BY <1>14, <1>15 DEF u

\* What has been built of any column is a tree: its nodes are the rows.
LEMMA BuildIsTree ==
    ASSUME NEW words \in Seq(Int)
    PROVE  LET t == BuildBST(words)
           IN  /\ t \in Seq(Node)
               /\ Len(t) = Len(words)
               /\ \A a \in 1 .. Len(words) : t[a].word = words[a] /\ t[a].row = a - 1
               /\ \E sub : Ordered(t, sub)
<1> DEFINE N == Len(words)
           Then(n, t) == Insert(t, words[n], n - 1)
           Defines(f) == f = [n \in 0 .. N |-> IF n = 0 THEN <<>>
                                               ELSE Insert(f[n - 1], words[n], n - 1)]
           go == [n \in 1 .. N |-> [t \in Seq(Node) |-> Then(n, t)]]
<1>1. N \in Nat /\ \A n \in 1 .. N : words[n] \in Int /\ n - 1 \in Int
  OBVIOUS
<1>2. ASSUME NEW n \in 1 .. N, NEW t \in Seq(Node)
      PROVE  Then(n, t) \in Seq(Node)
  BY <1>1, InsertType
<1> HIDE DEF N
<1>3. PICK f : Runs(f, N, Seq(Node), <<>>, go)
  <2>1. Steps(go, N, Seq(Node))
    <3> HIDE DEF Then
    <3> QED
      BY <1>2 DEF Steps
  <2>2. <<>> \in Seq(Node)
    OBVIOUS
  <2> HIDE DEF go
  <2> QED
    BY <1>1, <2>1, <2>2, Recursion
<1>4. ASSUME NEW n \in 1 .. N
      PROVE  f[n] = Insert(f[n - 1], words[n], n - 1)
  <2>1. n - 1 \in 0 .. N
    BY <1>1
  <2>2. f[n - 1] \in Seq(Node) /\ f[n] = go[n][f[n - 1]]
    BY <1>3, <2>1 DEF Runs
  <2> HIDE DEF Then
  <2>3. go[n][f[n - 1]] = Then(n, f[n - 1])
    BY <2>2
  <2> QED
    BY <2>2, <2>3 DEF Then
<1>5. f = [n \in 0 .. N |-> f[n]] /\ f[0] = <<>>
  BY <1>3 DEF Runs
<1>6. Defines(f)
  <2>1. ASSUME NEW n \in 0 .. N
        PROVE  f[n] = IF n = 0 THEN <<>> ELSE Insert(f[n - 1], words[n], n - 1)
    <3>1. f[0] = <<>>
      BY <1>5
    <3>2. n = 0 \/ n \in 1 .. N
      BY <1>1
    <3>3. CASE n = 0
      BY <3>1, <3>3
    <3>4. CASE n \in 1 .. N
      <4>1. n # 0
        BY <3>4
      <4> QED
        BY <1>4, <3>4, <4>1
    <3> QED
      BY <3>2, <3>3, <3>4
  <2>2. f = [n \in 0 .. N |-> f[n]]
    BY <1>5
  <2> QED
    BY <2>1, <2>2
<1> DEFINE built == CHOOSE g : Defines(g)
<1>7. BuildBST(words) = built[N]
  BY DEF BuildBST, N
<1>8. Defines(built)
  <2> HIDE DEF Defines
  <2> QED
    BY <1>6
<1> HIDE DEF built
<1>9. /\ built[0] = <<>>
      /\ \A n \in 1 .. N : built[n] = Insert(built[n - 1], words[n], n - 1)
  BY <1>1, <1>8
<1> DEFINE Good(n) == /\ built[n] \in Seq(Node)
                      /\ Len(built[n]) = n
                      /\ \A a \in 1 .. n : /\ built[n][a].word = words[a]
                                           /\ built[n][a].row = a - 1
                      /\ \E sub : Ordered(built[n], sub)
                      /\ OneParent(built[n])
           Built == {n \in 0 .. N : Good(n)}
<1>10. 0 \in Built
  <2>1. Ordered(<<>>, [a \in 0 .. 0 |-> {}])
    BY DEF Ordered, NULL
  <2>2. \E sub : Ordered(<<>>, sub)
    BY <2>1
  <2>3. OneParent(<<>>)
    BY DEF OneParent
  <2>4. <<>> \in Seq(Node) /\ Len(<<>>) = 0
    OBVIOUS
  <2>5. built[0] = <<>>
    BY <1>9
  <2>6. Good(0)
    BY <2>2, <2>3, <2>4, <2>5
  <2> QED
    BY <1>1, <2>6
<1>11. ASSUME NEW n \in 0 .. N, n \in Built, n < N
       PROVE  n + 1 \in Built
  <2> DEFINE t == built[n]
             u == built[n + 1]
             m == n + 1
  <2>1. m \in 1 .. N /\ m - 1 = n /\ words[m] \in Int /\ n \in Int
    BY <1>1, <1>11
  <2>2. u = Insert(t, words[m], n)
    BY <1>9, <2>1
  <2>3. t \in Seq(Node) /\ Len(t) = n /\ OneParent(t)
    BY <1>11
  <2>4. PICK sub : Ordered(t, sub)
    BY <1>11
  <2>5. \A a \in 1 .. n : t[a].word = words[a] /\ t[a].row = a - 1
    BY <1>11
  <2> HIDE DEF t, u
  <2>6. (\E new : Ordered(u, new)) /\ OneParent(u)
    <3> HIDE DEF m
    <3> QED
      BY <2>1, <2>2, <2>3, <2>4, InsertKeeps
  <2>7. /\ u \in Seq(Node)
        /\ Len(u) = m
        /\ u[m] = [word |-> words[m], row |-> n, left |-> NULL, right |-> NULL]
        /\ \A a \in 1 .. n : u[a].word = t[a].word /\ u[a].row = t[a].row
    <3>1. Len(t) + 1 = m
      BY <2>3
    <3> DEFINE v == Insert(t, words[m], n)
    <3>2. /\ v \in Seq(Node)
          /\ Len(v) = Len(t) + 1
          /\ v[Len(t) + 1] = [word |-> words[m], row |-> n, left |-> NULL, right |-> NULL]
          /\ \A a \in 1 .. Len(t) : v[a].word = t[a].word /\ v[a].row = t[a].row
      <4> HIDE DEF m
      <4> QED
        BY <2>1, <2>3, InsertType
    <3> HIDE DEF v, m
    <3>3. u = v
      BY <2>2 DEF v
    <3> QED
      BY <2>3, <3>1, <3>2, <3>3
  <2>8. \A a \in 1 .. m : u[a].word = words[a] /\ u[a].row = a - 1
    <3> SUFFICES ASSUME NEW a \in 1 .. m
                 PROVE  u[a].word = words[a] /\ u[a].row = a - 1
      OBVIOUS
    <3>1. CASE a = m
      BY <2>1, <2>7, <3>1
    <3>2. CASE a \in 1 .. n
      BY <2>5, <2>7, <3>2
    <3> QED
      BY <1>11, <3>1, <3>2
  <2> QED
    BY <2>1, <2>6, <2>7, <2>8 DEF u
<1> HIDE DEF Built
<1>12. N \in Built
  <2>1. \A n \in 0 .. N : n \in Built
    BY <1>1, <1>10, <1>11, Stepwise
  <2> QED
    BY <1>1, <2>1
<1>13. Good(N)
  BY <1>12 DEF Built
<1> QED
  BY <1>7, <1>13 DEF N

-----------------------------------------------------------------------------
(* The searches.                                                           *)

\* The links of n nodes lead to greater numbers only.
Links(left, right, N) ==
    \A a \in 1 .. N : /\ left[a] \in {NULL} \cup (a + 1 .. N)
                      /\ right[a] \in {NULL} \cup (a + 1 .. N)

\* The value of f at a node is made of its values at the children.
Treats(f, N, V, none, h, left, right) ==
    /\ f \in [0 .. N -> V]
    /\ f[NULL] = none
    /\ \A a \in 1 .. N : f[a] = h[a][f[left[a]]][f[right[a]]]

Treatment(h, N, V) == h \in [1 .. N -> [V -> [V -> V]]]

\* Such a function exists.
LEMMA Traversal ==
    ASSUME NEW N \in Nat, NEW V, NEW none \in V, NEW h, Treatment(h, N, V),
           NEW left, NEW right, Links(left, right, N)
    PROVE  \E f : Treats(f, N, V, none, h, left, right)
<1> USE DEF Links, Treats, Treatment
<1> DEFINE From(f, a) == h[a][f[left[a]]][f[right[a]]]
           Right(f, n) == /\ f[NULL] = none
                          /\ \A a \in N - n + 1 .. N : f[a] = From(f, a)
           Done == {n \in 0 .. N : \E f \in [0 .. N -> V] : Right(f, n)}
<1>1. 0 \in Done
  <2>1. [a \in 0 .. N |-> none] \in [0 .. N -> V]
    OBVIOUS
  <2>2. Right([a \in 0 .. N |-> none], 0)
    BY DEF NULL
  <2> QED
    BY <2>1, <2>2
<1>2. ASSUME NEW n \in 0 .. N, n \in Done, n < N
      PROVE  n + 1 \in Done
  <2>1. PICK f \in [0 .. N -> V] : Right(f, n)
    BY <1>2
  <2> DEFINE b == N - n
             g == [f EXCEPT ![b] = From(f, b)]
  <2>2. b \in 1 .. N /\ N - n + 1 = b + 1 /\ N - (n + 1) + 1 = b
    BY <1>2
  <2>3. \A a \in 1 .. N : left[a] \in 0 .. N /\ right[a] \in 0 .. N
    BY DEF NULL
  <2>4. From(f, b) \in V
    <3>1. f[left[b]] \in V /\ f[right[b]] \in V
      BY <2>2, <2>3
    <3> QED
      BY <2>2, <3>1
  <2> HIDE DEF From, b
  <2>5. g \in [0 .. N -> V]
    BY <2>4
  <2>6. g[b] = From(f, b) /\ \A a \in 0 .. N : a # b => g[a] = f[a]
    BY <2>2
  <2> HIDE DEF g
  <2>7. ASSUME NEW a \in b .. N
        PROVE  From(g, a) = From(f, a)
    <3>1. a \in 1 .. N /\ left[a] # b /\ right[a] # b
      BY <2>2 DEF NULL
    <3>2. g[left[a]] = f[left[a]] /\ g[right[a]] = f[right[a]]
      BY <2>3, <2>6, <3>1
    <3> QED
      BY <3>2 DEF From
  <2>8. \A a \in b + 1 .. N : f[a] = From(f, a)
    BY <2>1, <2>2
  <2>9. ASSUME NEW a \in b .. N
        PROVE  g[a] = From(g, a)
    BY <2>2, <2>6, <2>7, <2>8
  <2>10. g[NULL] = none
    BY <2>1, <2>2, <2>6 DEF NULL
  <2>11. Right(g, n + 1)
    BY <2>2, <2>9, <2>10
  <2> HIDE DEF Right
  <2> QED
    BY <1>2, <2>5, <2>11
<1> HIDE DEF Done
<1>3. N \in Done
  <2>1. \A n \in 0 .. N : n \in Done
    BY <1>1, <1>2, Stepwise
  <2> QED
    BY <2>1
<1> QED
  BY <1>3 DEF Done

\* s gives the numbers in S, each once.
Lists(s, S) ==
    /\ s \in Seq(Int)
    /\ ToSet(s) = S
    /\ IsFiniteSet(S)
    /\ Len(s) = Cardinality(S)

LEMMA ListsNone == Lists(<<>>, {})
<1>1. <<>> \in Seq(Int) /\ Len(<<>>) = 0 /\ ToSet(<<>>) = {}
  BY DEF ToSet
<1> QED
  BY <1>1, FS_EmptySet DEF Lists

LEMMA ListsOne ==
    ASSUME NEW x \in Int
    PROVE  Lists(<<x>>, {x})
<1>1. <<x>> \in Seq(Int) /\ Len(<<x>>) = 1 /\ ToSet(<<x>>) = {x}
  BY DEF ToSet
<1> QED
  BY <1>1, FS_Singleton DEF Lists

LEMMA ListsBoth ==
    ASSUME NEW s, NEW S, Lists(s, S), NEW r, NEW R, Lists(r, R), S \cap R = {}
    PROVE  Lists(s \o r, S \cup R)
<1>1. s \in Seq(Int) /\ r \in Seq(Int)
  BY DEF Lists
<1>2. /\ s \o r \in Seq(Int)
      /\ Len(s \o r) = Len(s) + Len(r)
      /\ Len(s) \in Nat /\ Len(r) \in Nat
  BY <1>1
<1>3. ToSet(s \o r) = ToSet(s) \cup ToSet(r)
  <2>1. \A n \in 1 .. Len(s) : (s \o r)[n] = s[n] /\ n \in 1 .. Len(s \o r)
    BY <1>1, <1>2
  <2>2. \A n \in 1 .. Len(r) : (s \o r)[n + Len(s)] = r[n] /\ n + Len(s) \in 1 .. Len(s \o r)
    BY <1>1, <1>2
  <2>3. \A n \in 1 .. Len(s \o r) : \/ n \in 1 .. Len(s) /\ (s \o r)[n] = s[n]
                                    \/ n - Len(s) \in 1 .. Len(r) /\ (s \o r)[n] = r[n - Len(s)]
    BY <1>1, <1>2
  <2>4. /\ DOMAIN s = 1 .. Len(s) /\ DOMAIN r = 1 .. Len(r)
        /\ DOMAIN (s \o r) = 1 .. Len(s \o r)
    BY <1>1, <1>2
  <2> QED
    BY <2>1, <2>2, <2>3, <2>4 DEF ToSet
<1>4. /\ IsFiniteSet(S \cup R)
      /\ Cardinality(S \cup R) = Cardinality(S) + Cardinality(R) - Cardinality({})
  <2>1. IsFiniteSet(S) /\ IsFiniteSet(R)
    BY DEF Lists
  <2> QED
    BY <2>1, FS_Union
<1>5. Cardinality({}) = 0
  BY FS_EmptySet
<1> QED
  BY <1>2, <1>3, <1>4, <1>5 DEF Lists

\* f lists at every node the rows of its subtree that are in match, if it
\* does at its children.
Collects(f, t, sub, match, part) ==
    /\ match \subseteq 0 .. Len(t) - 1
    /\ \A a \in 0 .. Len(t) : part[a] = {r \in match : r + 1 \in sub[a]}
    /\ f[NULL] = <<>>
    /\ \A a \in 1 .. Len(t) :
          Lists(f[t[a].left], part[t[a].left]) /\ Lists(f[t[a].right], part[t[a].right])
          => Lists(f[a], part[a])

\* Then it lists at the root all that are in match.
LEMMA ListsAll ==
    ASSUME NEW t \in Seq(Node), NEW sub, Ordered(t, sub), NEW f, NEW match, NEW part,
           Collects(f, t, sub, match, part)
    PROVE  Lists(f[Root(t)], match)
<1> USE DEF Collects
<1> DEFINE N == Len(t)
           Done == {n \in 0 .. N : \A a \in N - n + 1 .. N : Lists(f[a], part[a])}
<1>0. N \in Nat
  OBVIOUS
<1>1. Lists(f[NULL], part[NULL])
  <2>1. part[NULL] = {}
    BY DEF Ordered, NULL
  <2> QED
    BY <2>1, ListsNone
<1>2. 0 \in Done
  OBVIOUS
<1>3. ASSUME NEW n \in 0 .. N, n \in Done, n < N
      PROVE  n + 1 \in Done
  <2> DEFINE a == N - n
  <2>1. a \in 1 .. N /\ N - n + 1 = a + 1 /\ N - (n + 1) + 1 = a
    BY <1>3
  <2>2. \A b \in a + 1 .. N : Lists(f[b], part[b])
    BY <1>3, <2>1
  <2>3. /\ t[a].left \in {NULL} \cup (a + 1 .. N)
        /\ t[a].right \in {NULL} \cup (a + 1 .. N)
    BY <2>1 DEF Ordered
  <2> HIDE DEF a
  <2>4. Lists(f[a], part[a])
    BY <1>1, <2>1, <2>2, <2>3
  <2>5. \A b \in a .. N : b = a \/ b \in a + 1 .. N
    BY <2>1
  <2> QED
    BY <1>3, <2>1, <2>2, <2>4, <2>5
<1> HIDE DEF Done
<1>4. N \in Done
  <2>1. \A n \in 0 .. N : n \in Done
    BY <1>0, <1>2, <1>3, Stepwise
  <2> QED
    BY <1>0, <2>1
<1>5. CASE t = <<>>
  <2>1. match = {} /\ Root(t) = NULL
    BY <1>5 DEF Root
  <2> QED
    BY <1>5, <2>1, ListsNone
<1>6. CASE t # <<>>
  <2>1. Root(t) = 1 /\ 1 \in 1 .. N
    BY <1>6 DEF Root
  <2>2. sub[1] = 1 .. N
    BY <1>6 DEF Ordered
  <2>3. part[1] = match
    <3>1. 1 \in 0 .. N
      BY <2>1
    <3>2. part[1] = {r \in match : r + 1 \in sub[1]}
      BY <3>1
    <3>3. \A r \in match : r + 1 \in 1 .. N
      BY <1>0
    <3> QED
      BY <2>2, <3>2, <3>3
  <2> QED
    BY <1>4, <2>1, <2>3 DEF Done
<1> QED
  BY <1>5, <1>6

\* The rows of the subtree at a, of those in match.
Part(sub, match) == [a \in DOMAIN sub |-> {r \in match : r + 1 \in sub[a]}]

\* A tree whose nodes are the rows of words, in order.
TreeOf(t, sub, words) ==
    /\ words \in Seq(Int)
    /\ Ordered(t, sub)
    /\ Len(t) = Len(words)
    /\ \A a \in 1 .. Len(words) : t[a].word = words[a] /\ t[a].row = a - 1

\* What is in the subtree at a node: its own row, and what is on either side.
LEMMA PartAt ==
    ASSUME NEW t \in Seq(Node), NEW sub, NEW words, TreeOf(t, sub, words),
           NEW match \in SUBSET (0 .. Len(t) - 1), NEW a \in 1 .. Len(t)
    PROVE  LET part == Part(sub, match)
               L == part[t[a].left]
               R == part[t[a].right]
           IN  /\ t[a].left \in 0 .. Len(t) /\ t[a].right \in 0 .. Len(t)
               /\ t[a].left = NULL \/ t[a].left > a
               /\ t[a].row \in Int /\ t[a].word = words[t[a].row + 1] /\ t[a].word \in Int
               /\ part[a] = (match \cap {t[a].row}) \cup L \cup R
               /\ t[a].row \notin L /\ t[a].row \notin R /\ L \cap R = {}
               /\ \A r \in L : r \in match /\ words[r + 1] \in Int /\ words[r + 1] < t[a].word
               /\ \A r \in R : r \in match /\ words[r + 1] \in Int /\ words[r + 1] >= t[a].word
<1> DEFINE part == Part(sub, match)
           N == Len(t)
           Sub(p) == {r \in match : r + 1 \in sub[p]}
           l == t[a].left
           q == t[a].right
<1>1. \A p \in 0 .. N : part[p] = Sub(p)
  BY DEF Part, Ordered, TreeOf
<1>2. N \in Nat /\ a \in 1 .. N /\ l \in 0 .. N /\ q \in 0 .. N /\ (l = NULL \/ l > a)
  BY DEF TreeOf, Ordered, NULL
<1>3. t[a].row = a - 1 /\ t[a].word = words[a] /\ words[a] \in Int
  BY DEF TreeOf
<1>4. /\ sub[a] = {a} \cup sub[l] \cup sub[q]
      /\ a \notin sub[l] /\ a \notin sub[q] /\ sub[l] \cap sub[q] = {}
      /\ \A b \in sub[l] : t[b].word < t[a].word
      /\ \A b \in sub[q] : t[b].word >= t[a].word
  BY DEF TreeOf, Ordered
<1>5. \A r \in match : r \in Int /\ r + 1 \in 1 .. N /\ words[r + 1] \in Int
                       /\ t[r + 1].word = words[r + 1]
  BY <1>2 DEF TreeOf
<1> HIDE DEF l, q, N, part
<1>6. part[l] = Sub(l) /\ part[q] = Sub(q) /\ part[a] = Sub(a)
  BY <1>1, <1>2
<1>7. Sub(a) = (match \cap {a - 1}) \cup Sub(l) \cup Sub(q)
  <2>1. \A r \in match : r + 1 = a <=> r = a - 1
    BY <1>2, <1>5
  <2>2. \A r \in match : r + 1 \in sub[a] <=> r + 1 = a \/ r + 1 \in sub[l] \/ r + 1 \in sub[q]
    BY <1>4
  <2> QED
    BY <2>1, <2>2
<1>8. a - 1 \notin Sub(l) /\ a - 1 \notin Sub(q) /\ Sub(l) \cap Sub(q) = {}
  BY <1>2, <1>4
<1>9. /\ \A r \in Sub(l) : r \in match /\ words[r + 1] \in Int /\ words[r + 1] < t[a].word
      /\ \A r \in Sub(q) : r \in match /\ words[r + 1] \in Int /\ words[r + 1] >= t[a].word
  BY <1>4, <1>5
<1>10. (a - 1) + 1 = a /\ a - 1 \in Int
  BY <1>2
<1> HIDE DEF Sub
<1> QED
  BY <1>2, <1>3, <1>6, <1>7, <1>8, <1>9, <1>10 DEF l, q, N, part

\* The function of one of the searches exists.
LEMMA Searching ==
    ASSUME NEW t \in Seq(Node), NEW sub, Ordered(t, sub),
           NEW h \in [1 .. Len(t) -> [Seq(Int) -> [Seq(Int) -> Seq(Int)]]]
    PROVE  \E f \in [0 .. Len(t) -> Seq(Int)] :
              /\ f[NULL] = <<>>
              /\ \A a \in 1 .. Len(t) : f[a] = h[a][f[t[a].left]][f[t[a].right]]
<1> DEFINE N == Len(t)
           V == Seq(Int)
           left == [a \in 1 .. N |-> t[a].left]
           right == [a \in 1 .. N |-> t[a].right]
           Found(f) == /\ f[NULL] = <<>>
                       /\ \A a \in 1 .. N : f[a] = h[a][f[left[a]]][f[right[a]]]
<1>1. N \in Nat /\ <<>> \in V
  OBVIOUS
<1>2. \A a \in 1 .. N : /\ left[a] \in {NULL} \cup (a + 1 .. N)
                        /\ right[a] \in {NULL} \cup (a + 1 .. N)
  BY DEF Ordered
<1>3. \A a \in 1 .. N : left[a] = t[a].left /\ right[a] = t[a].right
  OBVIOUS
<1>4. \E f \in [0 .. N -> V] : Found(f)
  <2> DEFINE none == <<>>
  <2>1. none \in V
    OBVIOUS
  <2>2. h \in [1 .. N -> [V -> [V -> V]]]
    OBVIOUS
  <2> HIDE DEF left, right, N, V, none
  <2>3. Links(left, right, N) /\ Treatment(h, N, V)
    BY <1>2, <2>2 DEF Links, Treatment
  <2>4. PICK f : Treats(f, N, V, none, h, left, right)
    BY <1>1, <2>1, <2>3, Traversal
  <2> QED
    BY <2>4 DEF Treats, none
<1> HIDE DEF left, right
<1> QED
  BY <1>3, <1>4

Matched(words, op, value) ==
    {r \in 0 .. Len(words) - 1 : Holds(words[r + 1], op, value)}

LEMMA SearchLists ==
    ASSUME NEW t \in Seq(Node), NEW sub, NEW words, TreeOf(t, sub, words), NEW target \in Int
    PROVE  Lists(SearchBST(t, target), Matched(words, "=", target))
<1> DEFINE N == Len(t)
           V == Seq(Int)
           Then(a, x, y) == IF target < t[a].word THEN x
                            ELSE IF target > t[a].word THEN y
                            ELSE <<t[a].row>> \o x \o y
           Defines(f) == f = [a \in 0 .. N |->
                IF a = NULL THEN <<>>
                ELSE IF target < t[a].word THEN f[t[a].left]
                ELSE IF target > t[a].word THEN f[t[a].right]
                ELSE <<t[a].row>> \o f[t[a].left] \o f[t[a].right]]
           h == [a \in 1 .. N |-> [x \in V |-> [y \in V |-> Then(a, x, y)]]]
           match == Matched(words, "=", target)
           part == Part(sub, match)
           found == CHOOSE f : Defines(f)
<1>1. N \in Nat /\ Ordered(t, sub) /\ \A a \in 1 .. N : t[a].row \in Int
  BY DEF TreeOf
<1>2. match \in SUBSET (0 .. N - 1)
  BY DEF Matched, TreeOf
<1> HIDE DEF N
<1>3. PICK f \in [0 .. N -> V] :
         f[NULL] = <<>> /\ \A a \in 1 .. N : f[a] = h[a][f[t[a].left]][f[t[a].right]]
  <2>1. h \in [1 .. N -> [V -> [V -> V]]]
    <3>1. \A a \in 1 .. N, x \in V, y \in V : Then(a, x, y) \in V
      BY <1>1
    <3> HIDE DEF Then, V
    <3> QED
      BY <3>1
  <2> HIDE DEF h
  <2> QED
    BY <1>1, <2>1, Searching DEF N
<1>4. Defines(f)
  <2>1. ASSUME NEW a \in 1 .. N
        PROVE  f[a] = Then(a, f[t[a].left], f[t[a].right])
    <3>1. t[a].left \in 0 .. N /\ t[a].right \in 0 .. N
      BY <1>1 DEF Ordered, NULL, N
    <3>2. f[t[a].left] \in V /\ f[t[a].right] \in V
      BY <3>1
    <3> HIDE DEF Then, V
    <3> QED
      BY <1>3, <3>2
  <2>2. f = [a \in 0 .. N |-> f[a]]
    OBVIOUS
  <2> SUFFICES ASSUME NEW a \in 0 .. N
               PROVE  f[a] = IF a = NULL THEN <<>>
                             ELSE Then(a, f[t[a].left], f[t[a].right])
    BY <2>2
  <2>3. CASE a = NULL
    BY <1>3, <2>3
  <2>4. CASE a # NULL
    <3>1. a \in 1 .. N
      BY <1>1, <2>4 DEF NULL
    <3> HIDE DEF Then
    <3> QED
      BY <2>1, <2>4, <3>1
  <2> QED
    BY <2>3, <2>4
<1>5. Defines(found)
  <2> HIDE DEF Defines
  <2> QED
    BY <1>4
<1>6. SearchBST(t, target) = found[Root(t)]
  BY DEF SearchBST, N
<1> HIDE DEF found
<1>7. found[NULL] = <<>>
  BY <1>1, <1>5 DEF NULL
<1>8. ASSUME NEW a \in 1 .. N
      PROVE  found[a] = Then(a, found[t[a].left], found[t[a].right])
  <2>1. a \in 0 .. N /\ a # NULL
    BY <1>1 DEF NULL
  <2>2. found[a] = IF a = NULL THEN <<>> ELSE Then(a, found[t[a].left], found[t[a].right])
    BY <1>5, <2>1
  <2> HIDE DEF Then
  <2> QED
    BY <2>1, <2>2
<1>9. \A a \in 0 .. N : part[a] = {r \in match : r + 1 \in sub[a]}
  BY <1>1 DEF Part, Ordered, N
<1> HIDE DEF Then, Defines, match, part
<1>10. ASSUME NEW a \in 1 .. N,
              Lists(found[t[a].left], part[t[a].left]), Lists(found[t[a].right], part[t[a].right])
       PROVE  Lists(found[a], part[a])
  <2> DEFINE x == t[a].row
             w == t[a].word
             L == part[t[a].left]
             R == part[t[a].right]
             s == found[t[a].left]
             r == found[t[a].right]
  <2>1. /\ x \in Int /\ w = words[x + 1] /\ w \in Int
        /\ part[a] = (match \cap {x}) \cup L \cup R
        /\ x \notin L /\ x \notin R /\ L \cap R = {}
        /\ \A m \in L : m \in match /\ words[m + 1] \in Int /\ words[m + 1] < w
        /\ \A m \in R : m \in match /\ words[m + 1] \in Int /\ words[m + 1] >= w
    BY <1>2, PartAt DEF part, N
  <2>2. \A m \in match : words[m + 1] = target
    BY DEF match, Matched, Holds
  <2>3. x \in match <=> w = target
    <3>1. x \in 0 .. Len(words) - 1
      BY DEF TreeOf, N
    <3> QED
      BY <2>1, <3>1 DEF match, Matched, Holds
  <2>4. /\ target < w => found[a] = s
        /\ target > w => found[a] = r
        /\ target = w => found[a] = <<x>> \o s \o r
    <3>1. found[a] = Then(a, s, r)
      BY <1>8
    <3> HIDE DEF s, r
    <3>2. found[a] = IF target < w THEN s ELSE IF target > w THEN r ELSE <<x>> \o s \o r
      BY <3>1 DEF Then
    <3> HIDE DEF w, x
    <3>3. target < w => ~ (target > w) /\ target # w
      BY <2>1
    <3>4. target > w => ~ (target < w) /\ target # w
      BY <2>1
    <3>5. target = w => ~ (target < w) /\ ~ (target > w)
      BY <2>1
    <3> QED
      BY <3>2, <3>3, <3>4, <3>5
  <2> HIDE DEF x, w, L, R, s, r
  <2>5. Lists(s, L) /\ Lists(r, R)
    BY <1>10 DEF s, r, L, R
  <2>6. CASE target < w
    <3>1. R = {} /\ x \notin match
      BY <2>1, <2>2, <2>3, <2>6
    <3>2. part[a] = L
      BY <2>1, <3>1
    <3> QED
      BY <2>4, <2>5, <2>6, <3>2
  <2>7. CASE target > w
    <3>1. L = {} /\ x \notin match
      BY <2>1, <2>2, <2>3, <2>7
    <3>2. part[a] = R
      BY <2>1, <3>1
    <3> QED
      BY <2>4, <2>5, <2>7, <3>2
  <2>8. CASE target = w
    <3>1. match \cap {x} = {x}
      BY <2>3, <2>8
    <3>2. Lists(<<x>>, {x})
      BY <2>1, ListsOne
    <3>3. Lists(<<x>> \o s, {x} \cup L)
      BY <2>1, <2>5, <3>2, ListsBoth
    <3>4. Lists((<<x>> \o s) \o r, ({x} \cup L) \cup R)
      BY <2>1, <2>5, <3>3, ListsBoth
    <3> QED
      BY <2>1, <2>4, <2>8, <3>1, <3>4
  <2> QED
    BY <2>1, <2>6, <2>7, <2>8
<1>11. Collects(found, t, sub, match, part)
  BY <1>2, <1>7, <1>9, <1>10 DEF Collects, N
<1>12. Lists(found[Root(t)], match)
  BY <1>1, <1>11, ListsAll
<1> QED
  BY <1>6, <1>12 DEF match

LEMMA ExcludingLists ==
    ASSUME NEW t \in Seq(Node), NEW sub, NEW words, TreeOf(t, sub, words),
           NEW value \in Int
    PROVE  Lists(CollectExcluding(t, value), Matched(words, "!=", value))
<1> DEFINE N == Len(t)
           V == Seq(Int)
           Own(a) == IF t[a].word # value THEN <<t[a].row>> ELSE <<>>
           Then(a, x, y) == x \o Own(a) \o y
           Defines(f) == f = [a \in 0 .. N |->
                IF a = NULL THEN <<>>
                ELSE f[t[a].left]
                     \o (IF t[a].word # value THEN <<t[a].row>> ELSE <<>>)
                     \o f[t[a].right]]
           h == [a \in 1 .. N |-> [x \in V |-> [y \in V |-> Then(a, x, y)]]]
           match == Matched(words, "!=", value)
           part == Part(sub, match)
           found == CHOOSE f : Defines(f)
<1>1. N \in Nat /\ Ordered(t, sub) /\ \A a \in 1 .. N : t[a].row \in Int
  BY DEF TreeOf
<1>2. match \in SUBSET (0 .. N - 1)
  BY DEF Matched, TreeOf
<1> HIDE DEF N
<1>3. PICK f \in [0 .. N -> V] :
         f[NULL] = <<>> /\ \A a \in 1 .. N : f[a] = h[a][f[t[a].left]][f[t[a].right]]
  <2>1. h \in [1 .. N -> [V -> [V -> V]]]
    <3>1. \A a \in 1 .. N : Own(a) \in V
      BY <1>1
    <3> HIDE DEF Own
    <3>2. \A a \in 1 .. N, x \in V, y \in V : Then(a, x, y) \in V
      BY <3>1
    <3> HIDE DEF Then, V
    <3> QED
      BY <3>2
  <2> HIDE DEF h
  <2> QED
    BY <1>1, <2>1, Searching DEF N
<1>4. Defines(f)
  <2>1. ASSUME NEW a \in 1 .. N
        PROVE  f[a] = Then(a, f[t[a].left], f[t[a].right])
    <3>1. t[a].left \in 0 .. N /\ t[a].right \in 0 .. N
      BY <1>1 DEF Ordered, NULL, N
    <3>2. f[t[a].left] \in V /\ f[t[a].right] \in V
      BY <3>1
    <3> HIDE DEF Then, V
    <3> QED
      BY <1>3, <3>2
  <2>2. f = [a \in 0 .. N |-> f[a]]
    OBVIOUS
  <2> SUFFICES ASSUME NEW a \in 0 .. N
               PROVE  f[a] = IF a = NULL THEN <<>>
                             ELSE Then(a, f[t[a].left], f[t[a].right])
    BY <2>2
  <2>3. CASE a = NULL
    BY <1>3, <2>3
  <2>4. CASE a # NULL
    <3>1. a \in 1 .. N
      BY <1>1, <2>4 DEF NULL
    <3> HIDE DEF Then
    <3> QED
      BY <2>1, <2>4, <3>1
  <2> QED
    BY <2>3, <2>4
<1>5. Defines(found)
  <2> HIDE DEF Defines
  <2> QED
    BY <1>4
<1>6. CollectExcluding(t, value) = found[Root(t)]
  BY DEF CollectExcluding, N
<1> HIDE DEF found
<1>7. found[NULL] = <<>>
  BY <1>1, <1>5 DEF NULL
<1>8. ASSUME NEW a \in 1 .. N
      PROVE  found[a] = Then(a, found[t[a].left], found[t[a].right])
  <2>1. a \in 0 .. N /\ a # NULL
    BY <1>1 DEF NULL
  <2>2. found[a] = IF a = NULL THEN <<>> ELSE Then(a, found[t[a].left], found[t[a].right])
    BY <1>5, <2>1
  <2> HIDE DEF Then
  <2> QED
    BY <2>1, <2>2
<1>9. \A a \in 0 .. N : part[a] = {r \in match : r + 1 \in sub[a]}
  BY <1>1 DEF Part, Ordered, N
<1> HIDE DEF Own, Then, Defines, match, part
<1>10. ASSUME NEW a \in 1 .. N,
              Lists(found[t[a].left], part[t[a].left]), Lists(found[t[a].right], part[t[a].right])
       PROVE  Lists(found[a], part[a])
  <2> DEFINE x == t[a].row
             w == t[a].word
             L == part[t[a].left]
             R == part[t[a].right]
             s == found[t[a].left]
             r == found[t[a].right]
             own == Own(a)
             O == match \cap {x}
  <2>1. /\ x \in Int /\ w = words[x + 1] /\ w \in Int
        /\ part[a] = O \cup L \cup R
        /\ x \notin L /\ x \notin R /\ L \cap R = {}
    BY <1>2, PartAt DEF part, N
  <2>2. own = IF x \in match THEN <<x>> ELSE <<>>
    <3>1. x \in 0 .. Len(words) - 1
      BY DEF TreeOf, N
    <3>2. x \in match <=> Holds(w, "!=", value)
      BY <2>1, <3>1 DEF match, Matched
    <3> QED
      BY <3>2 DEF Own, Holds
  <2>3. found[a] = Then(a, s, r)
    BY <1>8
  <2>4. Lists(s, L) /\ Lists(r, R)
    BY <1>10
  <2> HIDE DEF w, L, R, s, r
  <2>5. Lists(own, O) /\ O \cap L = {} /\ O \cap R = {}
    <3> HIDE DEF own, x
    <3>1. CASE x \in match
      <4>1. O = {x} /\ own = <<x>>
        BY <2>2, <3>1
      <4> QED
        BY <2>1, <4>1, ListsOne
    <3>2. CASE x \notin match
      <4>1. O = {} /\ own = <<>>
        BY <2>2, <3>2
      <4> QED
        BY <4>1, ListsNone
    <3> QED
      BY <3>1, <3>2
  <2> HIDE DEF own, O
  <2>6. Lists(s \o own, L \cup O)
    BY <2>4, <2>5, ListsBoth
  <2>7. Lists((s \o own) \o r, O \cup L \cup R)
    <3>1. (L \cup O) \cap R = {} /\ O \cup L \cup R = (L \cup O) \cup R
      BY <2>1, <2>5
    <3> QED
      BY <2>4, <2>6, <3>1, ListsBoth
  <2> QED
    BY <2>1, <2>3, <2>7 DEF Then, own
<1>11. Collects(found, t, sub, match, part)
  BY <1>2, <1>7, <1>9, <1>10 DEF Collects, N
<1>12. Lists(found[Root(t)], match)
  BY <1>1, <1>11, ListsAll
<1> QED
  BY <1>6, <1>12 DEF match

LEMMA ConditionLists ==
    ASSUME NEW t \in Seq(Node), NEW sub, NEW words, TreeOf(t, sub, words),
           NEW op, NEW value \in Int
    PROVE  Lists(CollectByCondition(t, op, value), Matched(words, op, value))
<1> DEFINE N == Len(t)
           V == Seq(Int)
           Own(a) == IF Holds(t[a].word, op, value) THEN <<t[a].row>> ELSE <<>>
           Then(a, x, y) == Own(a) \o x \o y
           Defines(f) == f = [a \in 0 .. N |->
                IF a = NULL THEN <<>>
                ELSE (IF Holds(t[a].word, op, value) THEN <<t[a].row>> ELSE <<>>)
                     \o f[t[a].left] \o f[t[a].right]]
           h == [a \in 1 .. N |-> [x \in V |-> [y \in V |-> Then(a, x, y)]]]
           match == Matched(words, op, value)
           part == Part(sub, match)
           found == CHOOSE f : Defines(f)
<1>1. N \in Nat /\ Ordered(t, sub) /\ \A a \in 1 .. N : t[a].row \in Int
  BY DEF TreeOf
<1>2. match \in SUBSET (0 .. N - 1)
  BY DEF Matched, TreeOf
<1> HIDE DEF N
<1>3. PICK f \in [0 .. N -> V] :
         f[NULL] = <<>> /\ \A a \in 1 .. N : f[a] = h[a][f[t[a].left]][f[t[a].right]]
  <2>1. h \in [1 .. N -> [V -> [V -> V]]]
    <3>1. \A a \in 1 .. N : Own(a) \in V
      BY <1>1
    <3> HIDE DEF Own
    <3>2. \A a \in 1 .. N, x \in V, y \in V : Then(a, x, y) \in V
      BY <3>1
    <3> HIDE DEF Then, V
    <3> QED
      BY <3>2
  <2> HIDE DEF h
  <2> QED
    BY <1>1, <2>1, Searching DEF N
<1>4. Defines(f)
  <2>1. ASSUME NEW a \in 1 .. N
        PROVE  f[a] = Then(a, f[t[a].left], f[t[a].right])
    <3>1. t[a].left \in 0 .. N /\ t[a].right \in 0 .. N
      BY <1>1 DEF Ordered, NULL, N
    <3>2. f[t[a].left] \in V /\ f[t[a].right] \in V
      BY <3>1
    <3> HIDE DEF Then, V
    <3> QED
      BY <1>3, <3>2
  <2>2. f = [a \in 0 .. N |-> f[a]]
    OBVIOUS
  <2> SUFFICES ASSUME NEW a \in 0 .. N
               PROVE  f[a] = IF a = NULL THEN <<>>
                             ELSE Then(a, f[t[a].left], f[t[a].right])
    BY <2>2
  <2>3. CASE a = NULL
    BY <1>3, <2>3
  <2>4. CASE a # NULL
    <3>1. a \in 1 .. N
      BY <1>1, <2>4 DEF NULL
    <3> HIDE DEF Then
    <3> QED
      BY <2>1, <2>4, <3>1
  <2> QED
    BY <2>3, <2>4
<1>5. Defines(found)
  <2> HIDE DEF Defines
  <2> QED
    BY <1>4
<1>6. CollectByCondition(t, op, value) = found[Root(t)]
  BY DEF CollectByCondition, N
<1> HIDE DEF found
<1>7. found[NULL] = <<>>
  BY <1>1, <1>5 DEF NULL
<1>8. ASSUME NEW a \in 1 .. N
      PROVE  found[a] = Then(a, found[t[a].left], found[t[a].right])
  <2>1. a \in 0 .. N /\ a # NULL
    BY <1>1 DEF NULL
  <2>2. found[a] = IF a = NULL THEN <<>> ELSE Then(a, found[t[a].left], found[t[a].right])
    BY <1>5, <2>1
  <2> HIDE DEF Then
  <2> QED
    BY <2>1, <2>2
<1>9. \A a \in 0 .. N : part[a] = {r \in match : r + 1 \in sub[a]}
  BY <1>1 DEF Part, Ordered, N
<1> HIDE DEF Own, Then, Defines, match, part
<1>10. ASSUME NEW a \in 1 .. N,
              Lists(found[t[a].left], part[t[a].left]), Lists(found[t[a].right], part[t[a].right])
       PROVE  Lists(found[a], part[a])
  <2> DEFINE x == t[a].row
             w == t[a].word
             L == part[t[a].left]
             R == part[t[a].right]
             s == found[t[a].left]
             r == found[t[a].right]
             own == Own(a)
             O == match \cap {x}
  <2>1. /\ x \in Int /\ w = words[x + 1] /\ w \in Int
        /\ part[a] = O \cup L \cup R
        /\ x \notin L /\ x \notin R /\ L \cap R = {}
    BY <1>2, PartAt DEF part, N
  <2>2. own = IF x \in match THEN <<x>> ELSE <<>>
    <3>1. x \in 0 .. Len(words) - 1
      BY DEF TreeOf, N
    <3>2. x \in match <=> Holds(w, op, value)
      BY <2>1, <3>1 DEF match, Matched
    <3> QED
      BY <3>2 DEF Own, Holds
  <2>3. found[a] = Then(a, s, r)
    BY <1>8
  <2>4. Lists(s, L) /\ Lists(r, R)
    BY <1>10
  <2> HIDE DEF w, L, R, s, r
  <2>5. Lists(own, O) /\ O \cap L = {} /\ O \cap R = {}
    <3> HIDE DEF own, x
    <3>1. CASE x \in match
      <4>1. O = {x} /\ own = <<x>>
        BY <2>2, <3>1
      <4> QED
        BY <2>1, <4>1, ListsOne
    <3>2. CASE x \notin match
      <4>1. O = {} /\ own = <<>>
        BY <2>2, <3>2
      <4> QED
        BY <4>1, ListsNone
    <3> QED
      BY <3>1, <3>2
  <2> HIDE DEF own, O
  <2>6. Lists(own \o s, O \cup L)
    BY <2>4, <2>5, ListsBoth
  <2>7. Lists((own \o s) \o r, O \cup L \cup R)
    <3>1. (O \cup L) \cap R = {}
      BY <2>1, <2>5
    <3> QED
      BY <2>4, <2>6, <3>1, ListsBoth
  <2> QED
    BY <2>1, <2>3, <2>7 DEF Then, own
<1>11. Collects(found, t, sub, match, part)
  BY <1>2, <1>7, <1>9, <1>10 DEF Collects, N
<1>12. Lists(found[Root(t)], match)
  BY <1>1, <1>11, ListsAll
<1> QED
  BY <1>6, <1>12 DEF match

\* Every search of any column gives the rows that match, each once.
LEMMA FindRowsLists ==
    ASSUME NEW words \in Seq(Int), NEW op, NEW value \in Int
    PROVE  Lists(FindRows(words, op, value), Matched(words, op, value))
<1> DEFINE t == BuildBST(words)
<1>1. /\ t \in Seq(Node)
      /\ Len(t) = Len(words)
      /\ \A a \in 1 .. Len(words) : t[a].word = words[a] /\ t[a].row = a - 1
      /\ \E sub : Ordered(t, sub)
  BY BuildIsTree
<1>2. PICK sub : Ordered(t, sub)
  BY <1>1
<1> HIDE DEF t
<1>3. t \in Seq(Node) /\ TreeOf(t, sub, words)
  BY <1>1, <1>2 DEF TreeOf
<1>4. CASE op = "="
  BY <1>3, <1>4, SearchLists DEF FindRows, t
<1>5. CASE op = "!="
  BY <1>3, <1>5, ExcludingLists DEF FindRows, t
<1>6. CASE op # "=" /\ op # "!="
  BY <1>3, <1>6, ConditionLists DEF FindRows, t
<1> QED
  BY <1>4, <1>5, <1>6

-----------------------------------------------------------------------------
(* The statements.                                                         *)

Row == [id : Rows, set : BOOLEAN]

TypeInv ==
    /\ statement \in Statements /\ whereop \in Operators /\ whereval \in Values
    /\ column \in Seq(Values) /\ Len(column) <= MaxRows
    /\ randuri \in Seq(Row) /\ Len(randuri) <= Len(column)
    /\ searched \in Seq(Rows)
    /\ i \in 0 .. Len(searched)
    /\ rowmap \in [Rows -> Int]
    /\ step \in {"search", "loop", "done"}

\* Before the search nothing is found, after it all is, and in the end all
\* that was found has been treated.
SearchInv ==
    /\ step = "search" => searched = <<>>
    /\ step # "search" => Lists(searched, Matching)
    /\ step = "done" /\ statement # "select" => i = Len(searched)

LEMMA MatchingIsMatched == Matching = Matched(column, whereop, whereval)
BY DEF Matching, Matched, Rows

LEMMA SearchLemma ==
    ASSUME TypeInv
    PROVE  /\ Lists(FindRows(column, whereop, whereval), Matching)
           /\ FindRows(column, whereop, whereval) \in Seq(Rows)
<1> DEFINE found == FindRows(column, whereop, whereval)
<1>1. column \in Seq(Int) /\ whereval \in Int
  <2>1. column \in Seq(Values) /\ whereval \in Values
    BY DEF TypeInv
  <2>2. \A v \in Values : v \in Int
    BY RowsAssumption DEF RowsAssumption
  <2>3. column \in [1 .. Len(column) -> Values] /\ Len(column) \in Nat
    BY <2>1
  <2>4. column \in [1 .. Len(column) -> Int]
    BY <2>2, <2>3
  <2> QED
    BY <2>1, <2>2, <2>3, <2>4
<1>2. Lists(found, Matching)
  BY <1>1, FindRowsLists, MatchingIsMatched
<1>3. found \in Seq(Int) /\ ToSet(found) = Matching
  BY <1>2 DEF Lists
<1> HIDE DEF found
<1>4. \A n \in 1 .. Len(found) : found[n] \in Rows
  BY <1>3 DEF ToSet, Matching
<1>5. found \in [1 .. Len(found) -> Int] /\ Len(found) \in Nat
  BY <1>3
<1>6. found \in [1 .. Len(found) -> Rows]
  BY <1>4, <1>5
<1>7. found \in Seq(Rows)
  BY <1>5, <1>6
<1> QED
  BY <1>2, <1>7 DEF found

\* Rows is what it was: the column does not change.
LEMMA SameTable ==
    ASSUME [Next]_vars
    PROVE  /\ column' = column /\ statement' = statement
           /\ whereop' = whereop /\ whereval' = whereval
           /\ Rows' = Rows /\ Row' = Row /\ Matching' = Matching
BY DEF Next, Search, UpdateRow, DeleteRow, WriteTable, vars, Rows, Row, Matching

\* Taking out row at of a sequence.
LEMMA Removed ==
    ASSUME NEW S, NEW s \in Seq(S), NEW at \in 1 .. Len(s)
    PROVE  /\ RemoveAt(s, at) \in Seq(S)
           /\ Len(RemoveAt(s, at)) = Len(s) - 1
           /\ \A n \in 1 .. Len(s) - 1 :
                 RemoveAt(s, at)[n] = IF n < at THEN s[n] ELSE s[n + 1]
<1> DEFINE a == SubSeq(s, 1, at - 1)
           b == SubSeq(s, at + 1, Len(s))
<1>1. a \in Seq(S) /\ Len(a) = at - 1 /\ \A n \in 1 .. at - 1 : a[n] = s[n]
  OBVIOUS
<1>2. b \in Seq(S) /\ Len(b) = Len(s) - at /\ \A n \in 1 .. Len(s) - at : b[n] = s[n + at]
  OBVIOUS
<1>3. RemoveAt(s, at) = a \o b
  BY DEF RemoveAt
<1> HIDE DEF a, b
<1>4. a \o b \in Seq(S) /\ Len(a \o b) = Len(a) + Len(b)
  <2>1. a \in Seq(S) /\ b \in Seq(S)
    BY <1>1, <1>2
  <2> QED
    BY <2>1
<1>5. ASSUME NEW n \in 1 .. Len(s) - 1
      PROVE  (a \o b)[n] = IF n < at THEN s[n] ELSE s[n + 1]
  <2>1. CASE n < at
    BY <1>1, <1>2, <2>1
  <2>2. CASE ~ (n < at)
    <3>1. n - Len(a) \in 1 .. Len(b) /\ n - Len(a) + at = n + 1
      BY <1>1, <1>2, <2>2
    <3>2. (a \o b)[n] = b[n - Len(a)]
      BY <1>1, <1>2, <2>2, <3>1
    <3>3. b[n - Len(a)] = s[n - Len(a) + at]
      BY <1>1, <1>2, <3>1
    <3> QED
      BY <2>2, <3>1, <3>2, <3>3
  <2> QED
    BY <2>1, <2>2
<1> QED
  BY <1>1, <1>2, <1>3, <1>4, <1>5

\* What stergeRand does to the table.
LEMMA StergeRandType ==
    ASSUME TypeInv, NEW row \in Int
    PROVE  /\ StergeRand(row) \in Seq(Row)
           /\ Len(StergeRand(row)) <= Len(randuri)
           /\ row \notin 0 .. Len(randuri) - 1 => StergeRand(row) = randuri
           /\ row \in 0 .. Len(randuri) - 1 =>
                 /\ Len(StergeRand(row)) = Len(randuri) - 1
                 /\ \A n \in 1 .. Len(randuri) - 1 :
                       StergeRand(row)[n] = IF n < row + 1 THEN randuri[n] ELSE randuri[n + 1]
<1>1. randuri \in Seq(Row)
  BY DEF TypeInv
<1>2. CASE row \notin 0 .. Len(randuri) - 1
  BY <1>1, <1>2 DEF StergeRand
<1>3. CASE row \in 0 .. Len(randuri) - 1
  <2>1. row + 1 \in 1 .. Len(randuri)
    BY <1>1, <1>3
  <2>2. StergeRand(row) = RemoveAt(randuri, row + 1)
    BY <1>3 DEF StergeRand
  <2>3. /\ RemoveAt(randuri, row + 1) \in Seq(Row)
        /\ Len(RemoveAt(randuri, row + 1)) = Len(randuri) - 1
        /\ \A n \in 1 .. Len(randuri) - 1 :
              RemoveAt(randuri, row + 1)[n] = IF n < row + 1 THEN randuri[n] ELSE randuri[n + 1]
    BY <1>1, <2>1, Removed
  <2> QED
    BY <1>1, <1>3, <2>2, <2>3
<1> QED
  BY <1>2, <1>3

\* What Shifted does to the map.
LEMMA ShiftedType ==
    ASSUME TypeInv, NEW row \in Rows
    PROVE  /\ Shifted(row) \in [Rows -> Int]
           /\ \A j \in Rows : Shifted(row)[j] =
                 IF j > row /\ j < Len(randuri) THEN rowmap[j] - 1 ELSE rowmap[j]
<1>1. rowmap \in [Rows -> Int]
  BY DEF TypeInv
<1>2. ASSUME NEW j \in Rows
      PROVE  (IF j > row /\ j < Len(randuri) THEN rowmap[j] - 1 ELSE rowmap[j]) \in Int
  BY <1>1
<1> QED
  BY <1>1, <1>2 DEF Shifted

LEMMA RowWith ==
    ASSUME NEW e \in Row, NEW v
    PROVE  [e EXCEPT !.set = v] = [id |-> e.id, set |-> v]
<1>1. PICK x \in Rows, b \in BOOLEAN : e = [id |-> x, set |-> b]
  BY Zenon DEF Row
<1>2. [[id |-> x, set |-> b] EXCEPT !.set = v] = [id |-> x, set |-> v]
  BY SMT
<1>3. e.id = x
  BY <1>1
<1> QED
  BY <1>1, <1>2, <1>3, Zenon

\* What UPDATE does to the table.
LEMMA SetRow ==
    ASSUME NEW s \in Seq(Row), NEW at \in Int
    PROVE  /\ [s EXCEPT ![at].set = TRUE] \in Seq(Row)
           /\ Len([s EXCEPT ![at].set = TRUE]) = Len(s)
           /\ \A n \in 1 .. Len(s) :
                 [s EXCEPT ![at].set = TRUE][n] =
                    IF n = at THEN [id |-> s[n].id, set |-> TRUE] ELSE s[n]
<1> DEFINE u == [s EXCEPT ![at].set = TRUE]
<1>1. s \in [1 .. Len(s) -> Row] /\ Len(s) \in Nat
  OBVIOUS
<1>2. ASSUME NEW n \in 1 .. Len(s)
      PROVE  /\ u[n] = IF n = at THEN [id |-> s[n].id, set |-> TRUE] ELSE s[n]
             /\ u[n] \in Row
  <2>1. s[n] \in Row /\ [s[n] EXCEPT !.set = TRUE] = [id |-> s[n].id, set |-> TRUE]
    <3>1. s[n] \in Row
      BY <1>1
    <3>2. [s[n] EXCEPT !.set = TRUE] = [id |-> s[n].id, set |-> TRUE]
      BY <3>1, RowWith
    <3> QED
      BY <3>1, <3>2
  <2>2. u[n] = IF n = at THEN [s[n] EXCEPT !.set = TRUE] ELSE s[n]
    BY <1>1
  <2>3. [id |-> s[n].id, set |-> TRUE] \in Row
    BY <2>1 DEF Row
  <2> HIDE DEF u
  <2> QED
    BY <2>1, <2>2, <2>3
<1>3. u = [n \in 1 .. Len(s) |-> u[n]]
  BY <1>1
<1> HIDE DEF u
<1>4. u \in [1 .. Len(s) -> Row]
  BY <1>2, <1>3
<1>5. u \in Seq(Row) /\ Len(u) = Len(s)
  BY <1>1, <1>4
<1> QED
  BY <1>2, <1>5 DEF u

LEMMA TypeInvInit == Init => TypeInv /\ SearchInv
<1> SUFFICES ASSUME Init PROVE TypeInv /\ SearchInv
  OBVIOUS
<1>1. column \in Seq(Values) /\ Len(column) <= MaxRows /\ Len(column) \in Nat
  BY RowsAssumption DEF Init, RowsAssumption
<1>2. randuri \in Seq(Row) /\ Len(randuri) = Len(column)
  <2>1. randuri = [r \in 1 .. Len(column) |-> [id |-> r - 1, set |-> FALSE]]
    BY DEF Init
  <2>2. \A r \in 1 .. Len(column) : [id |-> r - 1, set |-> FALSE] \in Row
    BY <1>1 DEF Row, Rows
  <2>3. randuri \in [1 .. Len(column) -> Row]
    BY <2>1, <2>2
  <2> QED
    BY <1>1, <2>3
<1>3. searched = <<>> /\ i = 0 /\ searched \in Seq(Rows) /\ i \in 0 .. Len(searched)
  BY DEF Init
<1>4. rowmap \in [Rows -> Int]
  BY <1>1 DEF Init, Rows
<1>5. statement \in Statements /\ whereop \in Operators /\ whereval \in Values /\ step = "search"
  BY DEF Init
<1>6. TypeInv
  BY <1>1, <1>2, <1>3, <1>4, <1>5 DEF TypeInv
<1>7. SearchInv
  BY <1>3, <1>5 DEF SearchInv
<1> QED
  BY <1>6, <1>7

LEMMA TypeInvNext ==
    ASSUME TypeInv, SearchInv, [Next]_vars
    PROVE  TypeInv' /\ SearchInv'
<1> USE SameTable
<1>1. CASE Search
  <2>1. searched' \in Seq(Rows) /\ Lists(searched', Matching)
    BY <1>1, SearchLemma DEF Search
  <2>2. i = 0 /\ i' = 0
    BY <1>1 DEF Search, TypeInv, SearchInv
  <2>3. i' \in 0 .. Len(searched')
    BY <2>1, <2>2
  <2>4. step' = IF statement = "select" THEN "done" ELSE "loop"
    BY <1>1 DEF Search
  <2>5. randuri' = randuri /\ rowmap' = rowmap
    BY <1>1 DEF Search
  <2>6. TypeInv'
    BY <2>1, <2>3, <2>4, <2>5 DEF TypeInv
  <2> QED
    BY <2>1, <2>4, <2>6 DEF SearchInv
<1>2. CASE UpdateRow
  <2> DEFINE r == searched[i + 1]
  <2>1. i + 1 \in 1 .. Len(searched) /\ i' = i + 1 /\ r + 1 \in Int
    BY <1>2 DEF UpdateRow, TypeInv, Rows
  <2>2. randuri' = [randuri EXCEPT ![r + 1].set = TRUE]
    BY <1>2 DEF UpdateRow
  <2>3. randuri \in Seq(Row)
    BY DEF TypeInv
  <2> HIDE DEF r
  <2>4. randuri' \in Seq(Row) /\ Len(randuri') = Len(randuri)
    BY <2>1, <2>2, <2>3, SetRow
  <2>5. rowmap' = rowmap /\ searched' = searched /\ step' = step /\ step = "loop"
    BY <1>2 DEF UpdateRow
  <2>6. TypeInv'
    BY <2>1, <2>4, <2>5 DEF TypeInv
  <2> QED
    BY <2>5, <2>6 DEF SearchInv
<1>3. CASE DeleteRow
  <2> DEFINE r == searched[i + 1]
  <2>1. i + 1 \in 1 .. Len(searched) /\ i' = i + 1 /\ r \in Rows
    BY <1>3 DEF DeleteRow, TypeInv
  <2>2. rowmap' = Shifted(r) /\ randuri' = StergeRand(rowmap'[r])
    BY <1>3 DEF DeleteRow
  <2> HIDE DEF r
  <2>3. rowmap' \in [Rows -> Int]
    BY <2>1, <2>2, ShiftedType
  <2>4. rowmap'[r] \in Int
    BY <2>1, <2>3
  <2>5. randuri' \in Seq(Row) /\ Len(randuri') <= Len(randuri)
    BY <2>2, <2>4, StergeRandType
  <2>6. Len(randuri) <= Len(column) /\ Len(randuri) \in Nat /\ Len(column) \in Nat
        /\ Len(randuri') \in Nat
    BY <2>5 DEF TypeInv
  <2>7. searched' = searched /\ step' = step /\ step = "loop"
    BY <1>3 DEF DeleteRow
  <2>8. TypeInv'
    BY <2>1, <2>3, <2>5, <2>6, <2>7 DEF TypeInv
  <2> QED
    BY <2>7, <2>8 DEF SearchInv
<1>4. CASE WriteTable
  <2>1. TypeInv'
    BY <1>4 DEF WriteTable, TypeInv
  <2> QED
    BY <1>4, <2>1 DEF WriteTable, SearchInv
<1>5. CASE UNCHANGED vars
  <2>1. TypeInv'
    BY <1>5 DEF vars, TypeInv
  <2> QED
    BY <1>5, <2>1 DEF vars, SearchInv
<1> QED
  BY <1>1, <1>2, <1>3, <1>4, <1>5 DEF Next

LEMMA TypeInvariant == Spec => [](TypeInv /\ SearchInv)
<1>1. TypeInv /\ SearchInv /\ [Next]_vars => TypeInv' /\ SearchInv'
  BY TypeInvNext
<1> QED
  BY <1>1, TypeInvInit, PTL DEF Spec

\* Rows, row numbers and the loops' counters stay what they are.
THEOREM TypeCorrect == Spec => []TypeOK
<1>1. ASSUME TypeInv
      PROVE  TypeOK
  <2>1. \A r \in 1 .. Len(randuri) :
           randuri[r].id \in 0 .. Len(column) - 1 /\ randuri[r].set \in BOOLEAN
    <3> SUFFICES ASSUME NEW r \in 1 .. Len(randuri)
                 PROVE  randuri[r] \in Row
      BY DEF Row, Rows
    <3> QED
      BY <1>1 DEF TypeInv
  <2>2. ToSet(searched) \subseteq 0 .. Len(column) - 1
    <3>1. searched \in Seq(Rows)
      BY <1>1 DEF TypeInv
    <3> QED
      BY <3>1 DEF ToSet, Rows
  <2> QED
    BY <1>1, <2>1, <2>2 DEF TypeOK, TypeInv
<1> QED
  BY <1>1, TypeInvariant, PTL

\* Whatever the column holds and in whatever order it was inserted, the
\* search tree gives every row the WHERE clause names, once, and no other.
THEOREM SearchIsExactHolds == Spec => []SearchIsExact
<1>1. SearchInv => SearchIsExact
  BY DEF SearchInv, SearchIsExact, Lists
<1> QED
  BY <1>1, TypeInvariant, PTL

-----------------------------------------------------------------------------
(* UPDATE.                                                                 *)

\* The rows set so far are those treated so far, and no row has moved.
UpdateInv ==
    statement = "update" =>
        /\ Len(randuri) = Len(column)
        /\ \A r \in Rows :
              /\ randuri[r + 1].id = r
              /\ randuri[r + 1].set <=> \E j \in 1 .. i : searched[j] = r

\* The table as it is loaded.
LEMMA Loaded ==
    ASSUME Init
    PROVE  /\ Len(randuri) = Len(column) /\ Len(column) \in Nat
           /\ \A n \in 1 .. Len(randuri) : randuri[n].id = n - 1 /\ ~ randuri[n].set
           /\ \A j \in Rows : rowmap[j] = j
           /\ i = 0
<1>1. Len(column) \in Nat
  BY RowsAssumption DEF Init, RowsAssumption
<1>2. randuri = [r \in 1 .. Len(column) |-> [id |-> r - 1, set |-> FALSE]]
  BY DEF Init
<1>3. Len(randuri) = Len(column)
  BY <1>1, <1>2
<1>4. ASSUME NEW n \in 1 .. Len(randuri)
      PROVE  randuri[n].id = n - 1 /\ ~ randuri[n].set
  <2>1. randuri[n] = [id |-> n - 1, set |-> FALSE]
    BY <1>2, <1>3
  <2>2. [id |-> n - 1, set |-> FALSE].id = n - 1 /\ ~ [id |-> n - 1, set |-> FALSE].set
    OBVIOUS
  <2> QED
    BY <2>1, <2>2, Zenon
<1> QED
  BY <1>1, <1>3, <1>4 DEF Init, Rows

LEMMA UpdateInvInit == Init => UpdateInv
<1> SUFFICES ASSUME Init, NEW r \in Rows
             PROVE  /\ randuri[r + 1].id = r
                    /\ ~ randuri[r + 1].set
                    /\ 1 .. i = {}
  BY Loaded DEF UpdateInv
<1>1. r + 1 \in 1 .. Len(randuri) /\ (r + 1) - 1 = r
  BY Loaded DEF Rows
<1> QED
  BY <1>1, Loaded

LEMMA UpdateInvNext ==
    ASSUME TypeInv, SearchInv, UpdateInv, [Next]_vars
    PROVE  UpdateInv'
<1> USE SameTable
<1>1. CASE Search
  <2>1. i' = i /\ i = 0 /\ randuri' = randuri
    BY <1>1 DEF Search, TypeInv, SearchInv
  <2>2. 1 .. 0 = {}
    OBVIOUS
  <2> QED
    BY <2>1, <2>2 DEF UpdateInv
<1>2. CASE UpdateRow
  <2> DEFINE q == searched[i + 1]
  <2>1. /\ i + 1 \in 1 .. Len(searched) /\ i' = i + 1 /\ q \in Rows
        /\ searched' = searched /\ statement = "update"
        /\ randuri \in Seq(Row) /\ i \in Nat
    BY <1>2 DEF UpdateRow, TypeInv
  <2>2. randuri' = [randuri EXCEPT ![q + 1].set = TRUE]
    BY <1>2 DEF UpdateRow
  <2>3. Len(randuri) = Len(column) /\ Len(column) \in Nat
    BY <2>1 DEF UpdateInv, TypeInv
  <2>4. q + 1 \in Int
    BY <2>1 DEF Rows
  <2> HIDE DEF q
  <2>5. /\ Len(randuri') = Len(randuri)
        /\ \A n \in 1 .. Len(randuri) :
              randuri'[n] = IF n = q + 1 THEN [id |-> randuri[n].id, set |-> TRUE] ELSE randuri[n]
    BY <2>1, <2>2, <2>4, SetRow
  <2>6. ASSUME NEW r \in Rows
        PROVE  /\ randuri'[r + 1].id = r
               /\ randuri'[r + 1].set <=> \E j \in 1 .. i + 1 : searched[j] = r
    <3>1. r + 1 \in 1 .. Len(randuri) /\ (r + 1 = q + 1 <=> r = q)
      BY <2>1, <2>3 DEF Rows
    <3>2. /\ randuri[r + 1].id = r
          /\ randuri[r + 1].set <=> \E j \in 1 .. i : searched[j] = r
      BY <2>1 DEF UpdateInv
    <3>3. \A j : j \in 1 .. i + 1 <=> j \in 1 .. i \/ j = i + 1
      BY <2>1
    <3>4. CASE r = q
      <4>1. randuri'[r + 1] = [id |-> randuri[r + 1].id, set |-> TRUE]
        BY <2>5, <3>1, <3>4
      <4>2. searched[i + 1] = r /\ i + 1 \in 1 .. i + 1
        BY <2>1, <3>4 DEF q
      <4> QED
        BY <3>2, <4>1, <4>2
    <3>5. CASE r # q
      <4>1. randuri'[r + 1] = randuri[r + 1]
        BY <2>5, <3>1, <3>5
      <4>2. searched[i + 1] # r
        BY <3>5 DEF q
      <4> QED
        BY <3>2, <3>3, <4>1, <4>2
    <3> QED
      BY <3>4, <3>5
  <2> QED
    BY <2>1, <2>3, <2>5, <2>6 DEF UpdateInv
<1>3. CASE DeleteRow
  BY <1>3 DEF DeleteRow, UpdateInv
<1>4. CASE WriteTable
  BY <1>4 DEF WriteTable, UpdateInv
<1>5. CASE UNCHANGED vars
  BY <1>5 DEF vars, UpdateInv
<1> QED
  BY <1>1, <1>2, <1>3, <1>4, <1>5 DEF Next

\* UPDATE sets the rows the clause names and no other, and removes none,
\* whatever the order in which the tree gives them.
THEOREM UpdateIsExactHolds == Spec => []UpdateIsExact
<1>1. ASSUME TypeInv, SearchInv, UpdateInv
      PROVE  UpdateIsExact
  <2> SUFFICES ASSUME step = "done", statement = "update", NEW r \in Rows
               PROVE  randuri[r + 1] = [id |-> r, set |-> r \in Matching]
    BY DEF UpdateIsExact
  <2>1. i = Len(searched) /\ ToSet(searched) = Matching
    BY <1>1 DEF SearchInv, Lists
  <2>2. (\E j \in 1 .. i : searched[j] = r) <=> r \in Matching
    <3>1. searched \in Seq(Rows)
      BY <1>1 DEF TypeInv
    <3> QED
      BY <2>1, <3>1 DEF ToSet
  <2>3. randuri[r + 1].id = r /\ (randuri[r + 1].set <=> r \in Matching)
    BY <1>1, <2>2 DEF UpdateInv
  <2>4. randuri[r + 1] \in Row
    <3>1. r + 1 \in 1 .. Len(randuri)
      BY <1>1 DEF UpdateInv, TypeInv, Rows
    <3> QED
      BY <1>1, <3>1 DEF TypeInv
  <2>5. PICK x \in Rows, b \in BOOLEAN : randuri[r + 1] = [id |-> x, set |-> b]
    BY <2>4, Zenon DEF Row
  <2>6. x = r /\ (b <=> r \in Matching)
    BY <2>3, <2>5
  <2>7. b = (r \in Matching)
    BY <2>6
  <2> QED
    BY <2>5, <2>6, <2>7
<1>2. TypeInv /\ SearchInv /\ UpdateInv /\ [Next]_vars => UpdateInv'
  BY UpdateInvNext
<1> QED
  BY <1>1, <1>2, UpdateInvInit, TypeInvariant, PTL DEF Spec

-----------------------------------------------------------------------------
(* DELETE.                                                                 *)

LEMMA OrderInit == Init => DeleteKeepsOrder
<1> SUFFICES ASSUME Init, NEW r \in 1 .. Len(randuri), NEW q \in 1 .. Len(randuri), r < q
             PROVE  randuri[r].id < randuri[q].id
  BY DEF DeleteKeepsOrder
<1>1. randuri[r].id = r - 1 /\ randuri[q].id = q - 1 /\ Len(randuri) \in Nat
  BY Loaded
<1> QED
  BY <1>1

LEMMA OrderNext ==
    ASSUME TypeInv, SearchInv, DeleteKeepsOrder, [Next]_vars
    PROVE  DeleteKeepsOrder'
<1>0. randuri \in Seq(Row) /\ Len(randuri) \in Nat
  BY DEF TypeInv
<1>1. CASE UpdateRow
  <2> DEFINE q == searched[i + 1]
  <2>1. q + 1 \in Int
    BY <1>1 DEF UpdateRow, TypeInv, Rows
  <2>2. randuri' = [randuri EXCEPT ![q + 1].set = TRUE]
    BY <1>1 DEF UpdateRow
  <2> HIDE DEF q
  <2>3. /\ Len(randuri') = Len(randuri)
        /\ \A n \in 1 .. Len(randuri) :
              randuri'[n] = IF n = q + 1 THEN [id |-> randuri[n].id, set |-> TRUE] ELSE randuri[n]
    BY <1>0, <2>1, <2>2, SetRow
  <2>4. ASSUME NEW n \in 1 .. Len(randuri)
        PROVE  randuri'[n].id = randuri[n].id
    <3>1. [id |-> randuri[n].id, set |-> TRUE].id = randuri[n].id
      BY Zenon
    <3> QED
      BY <2>3, <3>1, Zenon
  <2> QED
    BY <2>3, <2>4 DEF DeleteKeepsOrder
<1>2. CASE DeleteRow
  <2> DEFINE q == searched[i + 1]
             p == rowmap'[q]
  <2>1. q \in Rows /\ rowmap' = Shifted(q) /\ randuri' = StergeRand(p)
    BY <1>2 DEF DeleteRow, TypeInv
  <2> HIDE DEF q
  <2>2. p \in Int
    BY <2>1, ShiftedType
  <2> HIDE DEF p
  <2>3. CASE p \notin 0 .. Len(randuri) - 1
    <3>1. randuri' = randuri
      BY <2>1, <2>2, <2>3, StergeRandType
    <3> QED
      BY <3>1 DEF DeleteKeepsOrder
  <2>4. CASE p \in 0 .. Len(randuri) - 1
    <3>1. /\ Len(randuri') = Len(randuri) - 1
          /\ \A n \in 1 .. Len(randuri) - 1 :
                randuri'[n] = IF n < p + 1 THEN randuri[n] ELSE randuri[n + 1]
      BY <2>1, <2>2, <2>4, StergeRandType
    <3> SUFFICES ASSUME NEW m \in 1 .. Len(randuri) - 1, NEW n \in 1 .. Len(randuri) - 1, m < n
                 PROVE  randuri'[m].id < randuri'[n].id
      BY <3>1 DEF DeleteKeepsOrder
    <3> DEFINE At(k) == IF k < p + 1 THEN k ELSE k + 1
    <3>2. At(m) \in 1 .. Len(randuri) /\ At(n) \in 1 .. Len(randuri) /\ At(m) < At(n)
      BY <1>0, <2>2
    <3>3. randuri'[m] = randuri[At(m)] /\ randuri'[n] = randuri[At(n)]
      BY <3>1
    <3> HIDE DEF At
    <3> QED
      BY <3>2, <3>3 DEF DeleteKeepsOrder
  <2> QED
    BY <2>3, <2>4
<1>3. CASE randuri' = randuri
  BY <1>3 DEF DeleteKeepsOrder
<1>4. UpdateRow \/ DeleteRow \/ randuri' = randuri
  BY DEF Next, Search, WriteTable, vars
<1> QED
  BY <1>1, <1>2, <1>3, <1>4

\* No statement ever reorders the rows that stay.
THEOREM DeleteKeepsOrderHolds == Spec => []DeleteKeepsOrder
<1>1. TypeInv /\ SearchInv /\ DeleteKeepsOrder /\ [Next]_vars => DeleteKeepsOrder'
  BY OrderNext
<1> QED
  BY <1>1, OrderInit, TypeInvariant, PTL DEF Spec

\* The row that is n-th once row a has left, and once row b has left too.
WithoutOne(n, a) == IF n - 1 < a THEN n - 1 ELSE n

WithoutTwo(n, a, b) ==
    IF n < (IF b > a THEN b - 1 ELSE b) + 1 THEN WithoutOne(n, a) ELSE WithoutOne(n + 1, a)

\* DELETE of at most two rows: where the rows are after each of them, and
\* where the map says they are.  After two the map may be wrong.
TwoInv ==
    statement = "delete" /\ Len(searched) <= 2 =>
        /\ i = 0 =>
              /\ Len(randuri) = Len(column)
              /\ \A n \in 1 .. Len(randuri) : randuri[n].id = n - 1
              /\ \A j \in Rows : rowmap[j] = j
        /\ i = 1 =>
              /\ Len(randuri) = Len(column) - 1
              /\ \A n \in 1 .. Len(randuri) :
                    randuri[n].id = WithoutOne(n, searched[1])
              /\ \A j \in Rows : rowmap[j] = IF j > searched[1] THEN j - 1 ELSE j
        /\ i = 2 => Left = Rows \ {searched[1], searched[2]}

LEMMA TwoInvInit == Init => TwoInv
<1> SUFFICES ASSUME Init PROVE TwoInv
  OBVIOUS
<1>1. \A n \in 1 .. Len(randuri) : randuri[n].id = n - 1
  BY Loaded
<1> QED
  BY <1>1, Loaded DEF TwoInv

LEMMA LeftOfOne ==
    ASSUME NEW N \in Nat, NEW a \in 0 .. N - 1
    PROVE  {WithoutOne(n, a) : n \in 1 .. N - 1} = (0 .. N - 1) \ {a}
<1> USE DEF WithoutOne
<1>1. ASSUME NEW n \in 1 .. N - 1
      PROVE  WithoutOne(n, a) \in (0 .. N - 1) \ {a}
  OBVIOUS
<1>2. ASSUME NEW r \in (0 .. N - 1) \ {a}
      PROVE  \E n \in 1 .. N - 1 : WithoutOne(n, a) = r
  <2> DEFINE m == IF r < a THEN r + 1 ELSE r
  <2>1. m \in 1 .. N - 1 /\ WithoutOne(m, a) = r
    OBVIOUS
  <2> QED
    BY <2>1
<1> QED
  BY <1>1, <1>2

LEMMA LeftOfTwo ==
    ASSUME NEW N \in Nat, NEW a \in 0 .. N - 1, NEW b \in 0 .. N - 1, a # b
    PROVE  {WithoutTwo(n, a, b) : n \in 1 .. N - 2} = (0 .. N - 1) \ {a, b}
<1> USE DEF WithoutOne, WithoutTwo
<1>1. ASSUME NEW n \in 1 .. N - 2
      PROVE  WithoutTwo(n, a, b) \in (0 .. N - 1) \ {a, b}
  OBVIOUS
<1>2. ASSUME NEW r \in (0 .. N - 1) \ {a, b}
      PROVE  \E n \in 1 .. N - 2 : WithoutTwo(n, a, b) = r
  <2> DEFINE m == IF r < a THEN r + 1 ELSE r
             p == IF b > a THEN b - 1 ELSE b
             n == IF m < p + 1 THEN m ELSE m - 1
  <2>1. n \in 1 .. N - 2 /\ WithoutTwo(n, a, b) = r
    OBVIOUS
  <2> QED
    BY <2>1
<1> QED
  BY <1>1, <1>2

LEMMA TwoInvNext ==
    ASSUME TypeInv, SearchInv, TwoInv, [Next]_vars
    PROVE  TwoInv'
<1> USE SameTable
<1>1. CASE Search
  <2>1. /\ i' = i /\ i = 0 /\ randuri' = randuri /\ rowmap' = rowmap
        /\ Len(searched) = 0
    BY <1>1 DEF Search, TypeInv, SearchInv
  <2> QED
    BY <2>1 DEF TwoInv
<1>2. CASE UpdateRow
  BY <1>2 DEF UpdateRow, TwoInv
<1>3. CASE DeleteRow
  <2> SUFFICES ASSUME Len(searched) <= 2
               PROVE  TwoInv'
    BY <1>3 DEF DeleteRow, TwoInv
  <2> DEFINE N == Len(column)
             q == searched[i + 1]
             a == searched[1]
  <2>1. /\ statement = "delete" /\ searched' = searched
        /\ i' = i + 1 /\ i \in Nat /\ i < Len(searched) /\ Len(searched) \in Nat
        /\ N \in Nat /\ Rows = 0 .. N - 1
        /\ q \in Rows /\ a \in Rows
        /\ rowmap' = Shifted(q) /\ randuri' = StergeRand(rowmap'[q])
        /\ randuri \in Seq(Row) /\ rowmap \in [Rows -> Int]
    BY <1>3 DEF DeleteRow, TypeInv, Rows
  <2>2. \A j \in Rows : rowmap'[j] =
           IF j > q /\ j < Len(randuri) THEN rowmap[j] - 1 ELSE rowmap[j]
    BY <2>1, ShiftedType
  <2>3. CASE i = 0
    <3>1. q = a /\ i' = 1
      BY <2>1, <2>3
    <3>2. /\ Len(randuri) = N
          /\ \A n \in 1 .. Len(randuri) : randuri[n].id = n - 1
          /\ \A j \in Rows : rowmap[j] = j
      BY <2>1, <2>3 DEF TwoInv
    <3> HIDE DEF N, q, a
    <3>3. \A j \in Rows : rowmap'[j] = IF j > a THEN j - 1 ELSE j
      BY <2>1, <2>2, <3>1, <3>2
    <3>4. randuri' = StergeRand(a) /\ a \in Int /\ a \in 0 .. Len(randuri) - 1
      BY <2>1, <3>1, <3>2, <3>3
    <3>5. /\ Len(randuri') = N - 1
          /\ \A n \in 1 .. N - 1 :
                randuri'[n] = IF n < a + 1 THEN randuri[n] ELSE randuri[n + 1]
      BY <3>2, <3>4, StergeRandType
    <3>6. ASSUME NEW n \in 1 .. N - 1
          PROVE  randuri'[n].id = WithoutOne(n, a)
      <4>1. randuri[n].id = n - 1 /\ randuri[n + 1].id = n
        <5>1. n \in 1 .. N /\ n + 1 \in 1 .. N /\ (n + 1) - 1 = n
          BY <2>1
        <5> QED
          BY <3>2, <5>1
      <4>2. n < a + 1 <=> n - 1 < a
        BY <2>1
      <4> QED
        BY <3>5, <4>1, <4>2 DEF WithoutOne
    <3>7. /\ Len(randuri') = Len(column') - 1
          /\ \A n \in 1 .. Len(randuri') : randuri'[n].id = WithoutOne(n, searched'[1])
          /\ \A j \in Rows' : rowmap'[j] = IF j > searched'[1] THEN j - 1 ELSE j
      BY <2>1, <3>3, <3>5, <3>6 DEF N, a
    <3> QED
      BY <3>1, <3>7 DEF TwoInv
  <2>4. CASE i = 1
    <3> DEFINE p == IF q > a THEN q - 1 ELSE q
    <3>1. q = searched[2] /\ i' = 2 /\ Len(searched) = 2 /\ q # a
      <4>1. q = searched[2] /\ i' = 2 /\ Len(searched) = 2
        <5>1. i + 1 = 2
          BY <2>4
        <5>2. Len(searched) = 2
          <6>1. 1 < Len(searched) /\ Len(searched) \in Nat
            BY <2>1, <2>4
          <6>2. \A l \in Nat : 1 < l /\ l <= 2 => l = 2
            OBVIOUS
          <6> HIDE DEF q, a, N
          <6> QED
            BY <6>1, <6>2
        <5> QED
          BY <2>1, <5>1, <5>2
      <4>2. Lists(searched, Matching)
        BY <1>3 DEF DeleteRow, SearchInv
      <4>3. ASSUME q = a PROVE FALSE
        <5>1. ToSet(searched) = {a}
          <6>1. \A n \in DOMAIN searched : n = 1 \/ n = 2
            BY <4>1, <4>2 DEF Lists
          <6>2. 1 \in DOMAIN searched
            BY <4>1, <4>2 DEF Lists
          <6> QED
            BY <4>1, <4>3, <6>1, <6>2 DEF ToSet
        <5>2. Cardinality({a}) = 1
          BY FS_Singleton
        <5>3. ToSet(searched) = Matching /\ Cardinality(Matching) = 2
          BY <4>1, <4>2 DEF Lists
        <5>4. Matching = {a}
          BY <5>1, <5>3
        <5> HIDE DEF a
        <5> QED
          BY <5>2, <5>3, <5>4
      <4> QED
        BY <4>1, <4>3
    <3>2. /\ Len(randuri) = N - 1
          /\ \A n \in 1 .. Len(randuri) : randuri[n].id = WithoutOne(n, a)
          /\ \A j \in Rows : rowmap[j] = IF j > a THEN j - 1 ELSE j
      BY <2>1, <2>4 DEF TwoInv
    <3> HIDE DEF N, q, a
    <3>3. rowmap'[q] = p
      <4>1. ~ (q > q) /\ q \in Rows
        BY <2>1
      <4>2. rowmap'[q] = rowmap[q]
        BY <2>2, <4>1
      <4> QED
        BY <3>2, <4>1, <4>2
    <3>4. p \in Int /\ p \in 0 .. Len(randuri) - 1
      <4>1. N \in Nat /\ a \in 0 .. N - 1 /\ q \in 0 .. N - 1 /\ a # q
        BY <2>1, <3>1
      <4>2. Len(randuri) = N - 1
        BY <3>2
      <4> QED
        BY <4>1, <4>2
    <3>5. randuri' = StergeRand(p)
      BY <2>1, <3>3
    <3> HIDE DEF p
    <3>6. /\ Len(randuri') = N - 2
          /\ \A n \in 1 .. N - 2 :
                randuri'[n] = IF n < p + 1 THEN randuri[n] ELSE randuri[n + 1]
      <4>1. /\ Len(randuri') = Len(randuri) - 1
            /\ \A n \in 1 .. Len(randuri) - 1 :
                  randuri'[n] = IF n < p + 1 THEN randuri[n] ELSE randuri[n + 1]
        BY <3>4, <3>5, StergeRandType
      <4>2. Len(randuri) - 1 = N - 2
        BY <2>1, <3>2
      <4> QED
        BY <3>2, <4>1, <4>2
    <3>7. ASSUME NEW n \in 1 .. N - 2
          PROVE  randuri'[n].id = WithoutTwo(n, a, q)
      <4>1. n \in 1 .. Len(randuri) /\ n + 1 \in 1 .. Len(randuri)
        BY <2>1, <3>2
      <4>2. randuri[n].id = WithoutOne(n, a) /\ randuri[n + 1].id = WithoutOne(n + 1, a)
        BY <3>2, <4>1
      <4> QED
        BY <3>6, <4>2 DEF WithoutTwo, p
    <3>8. Left' = {WithoutTwo(n, a, q) : n \in 1 .. N - 2}
      <4>1. Left' = {randuri'[n].id : n \in 1 .. N - 2}
        BY <3>6 DEF Left
      <4> QED
        BY <3>7, <4>1
    <3>9. {WithoutTwo(n, a, q) : n \in 1 .. N - 2} = (0 .. N - 1) \ {a, q}
      <4>1. N \in Nat /\ a \in 0 .. N - 1 /\ q \in 0 .. N - 1 /\ a # q
        BY <2>1, <3>1
      <4> QED
        BY <4>1, LeftOfTwo
    <3>10. Left' = Rows' \ {searched'[1], searched'[2]}
      <4>1. Left' = Rows \ {a, q}
        BY <2>1, <3>8, <3>9
      <4> QED
        BY <2>1, <3>1, <4>1 DEF a
    <3> QED
      BY <3>1, <3>10 DEF TwoInv
  <2> QED
    BY <2>1, <2>3, <2>4
<1>4. CASE WriteTable
  BY <1>4 DEF WriteTable, TwoInv, Left
<1>5. CASE UNCHANGED vars
  BY <1>5 DEF vars, TwoInv, Left
<1> QED
  BY <1>1, <1>2, <1>3, <1>4, <1>5 DEF Next

\* DELETE of at most two rows removes these two and no other, wherever they
\* are and in whatever order the tree gives them.
THEOREM DeleteOfTwoIsExactHolds == Spec => []DeleteOfTwoIsExact
<1>1. ASSUME TypeInv, SearchInv, TwoInv
      PROVE  DeleteOfTwoIsExact
  <2> SUFFICES ASSUME step = "done", statement = "delete", Cardinality(Matching) <= 2
               PROVE  Left = Rows \ Matching
    BY DEF DeleteOfTwoIsExact
  <2> DEFINE N == Len(column)
             a == searched[1]
  <2>1. /\ i = Len(searched) /\ Len(searched) = Cardinality(Matching) /\ Len(searched) \in Nat
        /\ searched \in Seq(Rows) /\ ToSet(searched) = Matching
        /\ N \in Nat /\ Rows = 0 .. N - 1
    BY <1>1 DEF SearchInv, TypeInv, Lists, Rows
  <2>2. Matching = {searched[n] : n \in 1 .. i}
    BY <2>1 DEF ToSet
  <2>3. Len(searched) <= 2
    BY <2>1
  <2> HIDE DEF N
  <2>5. CASE i = 0
    <3>1. Matching = {}
      BY <2>2, <2>5
    <3>2. Len(randuri) = N /\ \A n \in 1 .. N : randuri[n].id = n - 1
      BY <1>1, <2>3, <2>5 DEF TwoInv, N
    <3>3. \A r \in 0 .. N - 1 : r + 1 \in 1 .. N /\ (r + 1) - 1 = r
      BY <2>1
    <3>4. \A n \in 1 .. N : n - 1 \in 0 .. N - 1
      BY <2>1
    <3>5. Left = 0 .. N - 1
      BY <3>2, <3>3, <3>4 DEF Left
    <3> QED
      BY <2>1, <3>1, <3>5
  <2>6. CASE i = 1
    <3>1. Matching = {a}
      BY <2>2, <2>6
    <3>2. a \in 0 .. N - 1
      <4>1. searched \in Seq(Rows) /\ Len(searched) = 1
        BY <2>1, <2>6
      <4>2. a \in Rows
        BY <4>1
      <4> QED
        BY <2>1, <4>2
    <3>3. Len(randuri) = N - 1 /\ \A n \in 1 .. N - 1 : randuri[n].id = WithoutOne(n, a)
      BY <1>1, <2>3, <2>6 DEF TwoInv, N
    <3> HIDE DEF a
    <3>4. Left = {WithoutOne(n, a) : n \in 1 .. N - 1}
      BY <3>3 DEF Left
    <3> QED
      BY <2>1, <3>1, <3>2, <3>4, LeftOfOne
  <2>7. CASE i = 2
    <3>1. Matching = {searched[1], searched[2]}
      BY <2>2, <2>7
    <3> QED
      BY <1>1, <2>3, <2>7, <3>1 DEF TwoInv
  <2> QED
    BY <2>1, <2>5, <2>6, <2>7
<1>2. TypeInv /\ SearchInv /\ TwoInv /\ [Next]_vars => TwoInv'
  BY TwoInvNext
<1> QED
  BY <1>1, <1>2, TwoInvInit, TypeInvariant, PTL DEF Spec
=============================================================================
