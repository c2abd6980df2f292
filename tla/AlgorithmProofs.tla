--------------------------- MODULE AlgorithmProofs ---------------------------
(***************************************************************************)
(* Proofs about the two algorithms of the evidence, for inputs of any      *)
(* length.  IdentityMatching, for any names, addresses, aliases and        *)
(* nicknames: the two-row computation finds the edit distance, legitimate  *)
(* variants of a name match, and addresses match only within their domain. *)
(* IsotonicCalibration, for any samples: the loop that pools adjacent      *)
(* violators ends with their isotonic regression, and the mapping through  *)
(* its knots keeps the order of any two probabilities.                     *)
(***************************************************************************)
EXTENDS IdentityMatching, IsotonicCalibration, OperatorLemmas, SequenceTheorems

-----------------------------------------------------------------------------
(* The rows of the table of distances *)

\* What cell j of row i is made of.
Cell(s, t, previous, current, i, j) ==
    Least(Least(current[j - 1] + 1, previous[j] + 1),
          previous[j - 1] + (IF s[i] = t[j] THEN 0 ELSE 1))

\* The row with that cell written.
WithCell(s, t, previous, row, i, j) == [row EXCEPT ![j] = Cell(s, t, previous, row, i, j)]

Rows(m) == [0 .. m -> Int]

\* A cell is a number.
LEMMA CellWritten ==
    ASSUME NEW s, NEW t, NEW m \in Nat, NEW previous \in Rows(m), NEW i,
           NEW row \in Rows(m), NEW j \in 1 .. m,
           NEW next, next = WithCell(s, t, previous, row, i, j)
    PROVE  next \in Rows(m) /\ next[j] = Cell(s, t, previous, row, i, j)
<1>1. row[j - 1] \in Int /\ previous[j] \in Int /\ previous[j - 1] \in Int
  BY DEF Rows
<1>2. Cell(s, t, previous, row, i, j) \in Int
  BY <1>1 DEF Cell, Least
<1>3. j \in 0 .. m
  OBVIOUS
<1> QED
  BY <1>2, <1>3 DEF WithCell, Rows

\* The first cell of a row is its number, those from 1 to k are made of their neighbours.
MadeUpTo(k, s, t, previous, row, i) ==
    row[0] = i /\ \A j \in 1 .. k : row[j] = Cell(s, t, previous, row, i, j)

\* The recursion of NextRow's fold.
RowFold(g, s, t, previous, i) ==
    [S \in SUBSET DOMAIN [j \in 1 .. Len(t) |-> j] |->
        IF S = {} THEN [previous EXCEPT ![0] = i]
        ELSE LET last == Max(S)
             IN WithCell(s, t, previous, g[S \ {last}], i, [j \in 1 .. Len(t) |-> j][last])]

\* It is defined, and NextRow is what it comes to.
LEMMA RowFoldEnds ==
    ASSUME NEW s, NEW m \in Nat, NEW t \in [1 .. m -> Nat], NEW previous \in Rows(m), NEW i \in Nat
    PROVE  \E iter : /\ iter = RowFold(iter, s, t, previous, i)
                     /\ iter[1 .. m] = NextRow(s, t, previous, i)
<1> DEFINE base == [previous EXCEPT ![0] = i]
           step == [j \in 1 .. m |-> [row \in Rows(m) |-> WithCell(s, t, previous, row, i, j)]]
           iter == CHOOSE g : g = RowFold(g, s, t, previous, i)
<1>1. t \in Seq(Nat) /\ Len(t) = m
  OBVIOUS
<1>2. base \in Rows(m)
  BY DEF Rows
<1>3. step \in [1 .. m -> [Rows(m) -> Rows(m)]]
  BY CellWritten
<1> HIDE DEF step, base
<1>4. HasFold(Rows(m), m, base, step)
  BY <1>2, <1>3, FoldEnds
<1>5. PICK g \in [SUBSET (1 .. m) -> Rows(m)] : IsFold(g, m, base, step)
  BY <1>4 DEF HasFold
<1>6. ASSUME NEW S \in SUBSET (1 .. m)
      PROVE  g[S] = IF S = {} THEN base ELSE WithCell(s, t, previous, g[S \ {Max(S)}], i, Max(S))
  <2>1. CASE S = {}
    BY <1>5, <2>1 DEF IsFold
  <2>2. CASE S # {}
    <3>1. Max(S) \in 1 .. m /\ g[S \ {Max(S)}] \in Rows(m)
      BY <2>2, MaxOfNumbers
    <3>2. g[S] = step[Max(S)][g[S \ {Max(S)}]]
      BY <1>5, <2>2 DEF IsFold
    <3> QED
      BY <2>2, <3>1, <3>2 DEF step
  <2> QED
    BY <2>1, <2>2
<1>7. g = RowFold(g, s, t, previous, i)
  BY <1>1, <1>5, <1>6, MaxOfNumbers DEF RowFold, base
<1>8. iter = RowFold(iter, s, t, previous, i)
  BY <1>7
<1>9. iter[1 .. m] = NextRow(s, t, previous, i)
  BY <1>1 DEF NextRow, FoldLeft, MapThenFoldSet, Cell, WithCell, RowFold
<1> HIDE DEF iter
<1> QED
  BY <1>8, <1>9

\* The row below a row of numbers, with every cell made of its neighbours.
LEMMA NextRowCells ==
    ASSUME NEW s, NEW m \in Nat, NEW t \in [1 .. m -> Nat], NEW previous \in Rows(m), NEW i \in Nat,
           NEW row, row = NextRow(s, t, previous, i)
    PROVE  row \in Rows(m) /\ MadeUpTo(m, s, t, previous, row, i)
<1>1. PICK iter : /\ iter = RowFold(iter, s, t, previous, i)
                  /\ iter[1 .. m] = NextRow(s, t, previous, i)
  BY RowFoldEnds
<1>0. t \in Seq(Nat) /\ Len(t) = m
  OBVIOUS
<1> DEFINE Right(made, k) == made \in Rows(m) /\ MadeUpTo(k, s, t, previous, made, i)
           P == { k \in Nat : k <= m => Right(iter[1 .. k], k) }
<1>2. 0 \in P
  <2>1. 1 .. 0 = {} /\ {} \in SUBSET (1 .. m)
    OBVIOUS
  <2>2. iter[1 .. 0] = [previous EXCEPT ![0] = i]
    BY <1>0, <1>1, <2>1 DEF RowFold
  <2>3. /\ [previous EXCEPT ![0] = i] \in Rows(m)
        /\ [previous EXCEPT ![0] = i][0] = i
    BY DEF Rows
  <2>4. MadeUpTo(0, s, t, previous, iter[1 .. 0], i)
    BY <2>2, <2>3 DEF MadeUpTo
  <2> QED
    BY <2>2, <2>3, <2>4
<1>3. ASSUME NEW k \in Nat, k \in P PROVE k + 1 \in P
  <2> SUFFICES ASSUME k + 1 <= m PROVE Right(iter[1 .. k + 1], k + 1)
    OBVIOUS
  <2>1. PICK above \in Rows(m) :
            above = iter[1 .. k] /\ MadeUpTo(k, s, t, previous, above, i)
    BY <1>3
  <2>2. /\ 1 .. k + 1 \in SUBSET (1 .. m) /\ 1 .. k + 1 # {}
        /\ Max(1 .. k + 1) = k + 1 /\ (1 .. k + 1) \ {k + 1} = 1 .. k
    <3>1. PICK l \in 1 .. m : l = k + 1 /\ l - 1 = k
      OBVIOUS
    <3>2. 1 .. l \in SUBSET (1 .. m) /\ 1 .. l # {} /\ Max(1 .. l) = l /\ (1 .. l) \ {l} = 1 .. l - 1
      BY LastOfInterval
    <3> QED
      BY <3>1, <3>2
  <2>3. PICK next : next = iter[1 .. k + 1]
    OBVIOUS
  <2>4. next = WithCell(s, t, previous, above, i, k + 1)
    <3>1. /\ DOMAIN [j \in 1 .. Len(t) |-> j] = 1 .. m
          /\ [j \in 1 .. Len(t) |-> j][k + 1] = k + 1
      BY <1>0
    <3>2. iter[1 .. k + 1] =
              WithCell(s, t, previous, iter[(1 .. k + 1) \ {k + 1}], i, [j \in 1 .. Len(t) |-> j][k + 1])
      BY <1>1, <2>2, <3>1 DEF RowFold
    <3> QED
      BY <2>1, <2>2, <2>3, <3>1, <3>2
  <2>5. /\ next \in Rows(m) /\ next[k + 1] = Cell(s, t, previous, above, i, k + 1)
        /\ \A j \in 0 .. m : j # k + 1 => next[j] = above[j]
    <3>1. PICK j \in 1 .. m : j = k + 1
      OBVIOUS
    <3>2. next = WithCell(s, t, previous, above, i, j)
      BY <2>4, <3>1
    <3>3. next \in Rows(m) /\ next[j] = Cell(s, t, previous, above, i, j)
      BY <3>2, CellWritten
    <3>4. \A l \in 0 .. m : l # j => next[l] = above[l]
      BY <3>2 DEF WithCell, Rows
    <3> QED
      BY <3>1, <3>3, <3>4
  <2>6. ASSUME NEW j \in 1 .. k + 1
        PROVE  next[j] = Cell(s, t, previous, next, i, j)
    <3>1. next[j - 1] = above[j - 1]
      BY <2>5
    <3>2. Cell(s, t, previous, next, i, j) = Cell(s, t, previous, above, i, j)
      BY <3>1 DEF Cell
    <3>3. CASE j = k + 1
      BY <2>5, <3>2, <3>3
    <3>4. CASE j # k + 1
      <4>1. j \in 1 .. k /\ next[j] = above[j]
        BY <2>5, <3>4
      <4> QED
        BY <2>1, <3>2, <4>1 DEF MadeUpTo
    <3> QED
      BY <3>3, <3>4
  <2>7. next[0] = i
    BY <2>1, <2>5 DEF MadeUpTo
  <2> QED
    BY <2>3, <2>5, <2>6, <2>7 DEF MadeUpTo
<1>4. m \in P
  <2> HIDE DEF P
  <2> QED
    BY <1>2, <1>3, NumbersByInduction
<1> QED
  BY <1>1, <1>4

FirstRow(m) == [j \in 0 .. m |-> j]

\* The recursion of the fold over the letters of s.
TableFold(g, s, t) ==
    [S \in SUBSET DOMAIN [i \in 1 .. Len(s) |-> i] |->
        IF S = {} THEN [j \in 0 .. Len(t) |-> j]
        ELSE LET last == Max(S)
             IN NextRow(s, t, g[S \ {last}], [i \in 1 .. Len(s) |-> i][last])]

\* It is defined, and LastRow is what it comes to.
LEMMA TableFoldEnds ==
    ASSUME NEW n \in Nat, NEW s \in [1 .. n -> Nat], NEW m \in Nat, NEW t \in [1 .. m -> Nat]
    PROVE  \E iter : iter = TableFold(iter, s, t) /\ iter[1 .. n] = LastRow(s, t)
<1> DEFINE step == [i \in 1 .. n |-> [row \in Rows(m) |-> NextRow(s, t, row, i)]]
           iter == CHOOSE g : g = TableFold(g, s, t)
<1>1. /\ t \in Seq(Nat) /\ Len(t) = m
      /\ s \in Seq(Nat) /\ Len(s) = n
  OBVIOUS
<1>2. FirstRow(m) \in Rows(m)
  BY DEF Rows, FirstRow
<1>3. step \in [1 .. n -> [Rows(m) -> Rows(m)]]
  <2>1. ASSUME NEW i \in 1 .. n, NEW row \in Rows(m) PROVE NextRow(s, t, row, i) \in Rows(m)
    <3>1. i \in Nat
      OBVIOUS
    <3> QED
      BY <3>1, NextRowCells
  <2> QED
    BY <2>1
<1> HIDE DEF step
<1>4. HasFold(Rows(m), n, FirstRow(m), step)
  BY <1>2, <1>3, FoldEnds
<1>5. PICK g \in [SUBSET (1 .. n) -> Rows(m)] : IsFold(g, n, FirstRow(m), step)
  BY <1>4 DEF HasFold
<1>6. ASSUME NEW S \in SUBSET (1 .. n)
      PROVE  g[S] = IF S = {} THEN FirstRow(m) ELSE NextRow(s, t, g[S \ {Max(S)}], Max(S))
  <2>1. CASE S = {}
    BY <1>5, <2>1 DEF IsFold
  <2>2. CASE S # {}
    <3>1. Max(S) \in 1 .. n /\ g[S \ {Max(S)}] \in Rows(m)
      BY <2>2, MaxOfNumbers
    <3>2. g[S] = step[Max(S)][g[S \ {Max(S)}]]
      BY <1>5, <2>2 DEF IsFold
    <3> QED
      BY <2>2, <3>1, <3>2 DEF step
  <2> QED
    BY <2>1, <2>2
<1>7. g = TableFold(g, s, t)
  BY <1>1, <1>5, <1>6, MaxOfNumbers DEF TableFold, FirstRow
<1>8. iter = TableFold(iter, s, t)
  BY <1>7
<1>9. iter[1 .. n] = LastRow(s, t)
  BY <1>1 DEF LastRow, FoldLeft, MapThenFoldSet, TableFold
<1> HIDE DEF iter
<1> QED
  BY <1>8, <1>9

\* The table of distances: its first row counts, its first column counts, and
\* every other cell is made of its neighbours.
IsTable(d, s, t, n, m) ==
    /\ d \in [0 .. n -> Rows(m)]
    /\ \A j \in 0 .. m : d[0][j] = j
    /\ \A i \in 1 .. n : MadeUpTo(m, s, t, d[i - 1], d[i], i)

\* levenshteinDistance computes the rows of that table, one after the other.
LEMMA LastRowOfTable ==
    ASSUME NEW n \in Nat, NEW s \in [1 .. n -> Nat], NEW m \in Nat, NEW t \in [1 .. m -> Nat]
    PROVE  \E d : IsTable(d, s, t, n, m) /\ LastRow(s, t) = d[n]
<1>0. /\ t \in Seq(Nat) /\ Len(t) = m
      /\ s \in Seq(Nat) /\ Len(s) = n
  OBVIOUS
<1>1. PICK iter : iter = TableFold(iter, s, t) /\ iter[1 .. n] = LastRow(s, t)
  BY TableFoldEnds
<1> DEFINE P == { k \in Nat : k <= n => iter[1 .. k] \in Rows(m) }
<1>2. iter[1 .. 0] = FirstRow(m)
  <2>1. 1 .. 0 = {} /\ {} \in SUBSET DOMAIN [i \in 1 .. Len(s) |-> i]
    OBVIOUS
  <2> QED
    BY <1>0, <1>1, <2>1 DEF TableFold, FirstRow
<1>3. ASSUME NEW k \in 1 .. n
      PROVE  iter[1 .. k] = NextRow(s, t, iter[1 .. k - 1], k)
  <2>1. /\ DOMAIN [i \in 1 .. Len(s) |-> i] = 1 .. n
        /\ [i \in 1 .. Len(s) |-> i][k] = k
    BY <1>0
  <2>2. 1 .. k \in SUBSET (1 .. n) /\ 1 .. k # {}
    BY LastOfInterval
  <2>3. Max(1 .. k) = k /\ (1 .. k) \ {k} = 1 .. k - 1
    BY LastOfInterval
  <2>4. iter[1 .. k] = NextRow(s, t, iter[(1 .. k) \ {k}], [i \in 1 .. Len(s) |-> i][k])
    BY <1>1, <2>1, <2>2, <2>3 DEF TableFold
  <2> QED
    BY <2>1, <2>3, <2>4
<1>4. 0 \in P
  BY <1>2 DEF Rows, FirstRow
<1>5. ASSUME NEW k \in Nat, k \in P PROVE k + 1 \in P
  <2> SUFFICES ASSUME k + 1 <= n PROVE iter[1 .. k + 1] \in Rows(m)
    OBVIOUS
  <2>1. PICK row \in Rows(m) : row = iter[1 .. k]
    BY <1>5
  <2>2. PICK i \in 1 .. n : i = k + 1 /\ i - 1 = k
    OBVIOUS
  <2>3. PICK next : next = iter[1 .. i]
    OBVIOUS
  <2>4. i \in Nat /\ next = NextRow(s, t, row, i)
    BY <1>3, <2>1, <2>2, <2>3
  <2>5. next \in Rows(m)
    BY <2>4, NextRowCells
  <2> QED
    BY <2>2, <2>3, <2>5
<1>6. Nat \subseteq P
  <2> HIDE DEF P
  <2> QED
    BY <1>4, <1>5, NumbersByInduction
<1> DEFINE d == [k \in 0 .. n |-> iter[1 .. k]]
<1>7. d \in [0 .. n -> Rows(m)]
  BY <1>6
<1>8. d[0] = FirstRow(m) /\ d[n] = LastRow(s, t)
  BY <1>1, <1>2
<1>9. ASSUME NEW i \in 1 .. n PROVE d[i] = NextRow(s, t, d[i - 1], i)
  <2>1. i \in 0 .. n /\ i - 1 \in 0 .. n
    OBVIOUS
  <2> QED
    BY <1>3, <2>1
<1> HIDE DEF d
<1>10. ASSUME NEW i \in 1 .. n PROVE MadeUpTo(m, s, t, d[i - 1], d[i], i)
  <2>1. d[i - 1] \in Rows(m) /\ i \in Nat
    BY <1>7
  <2>2. PICK previous \in Rows(m), row \in {d[i]} : previous = d[i - 1] /\ row = d[i]
    BY <2>1
  <2>3. row = NextRow(s, t, previous, i)
    BY <1>9, <2>2
  <2>4. MadeUpTo(m, s, t, previous, row, i)
    BY <2>1, <2>3, NextRowCells
  <2> QED
    BY <2>2, <2>4
<1>11. \A j \in 0 .. m : d[0][j] = j
  BY <1>8 DEF FirstRow
<1> QED
  BY <1>7, <1>8, <1>10, <1>11 DEF IsTable

-----------------------------------------------------------------------------
(* The table is that of the edit distance *)

\* Neighbours in a row differ by one at most.
Gentle(row, m) ==
    \A j \in 1 .. m : row[j - 1] <= row[j] + 1 /\ row[j] <= row[j - 1] + 1

\* A row falls by one at most below the row before it.
Near(previous, row, m) == \A j \in 0 .. m : previous[j] <= row[j] + 1

\* A row made of a gentle one is gentle too, and near it.
LEMMA RowBelow ==
    ASSUME NEW s, NEW t, NEW m \in Nat, NEW previous \in Rows(m), NEW row \in Rows(m),
           NEW i \in Nat, previous[0] = i - 1,
           Gentle(previous, m), MadeUpTo(m, s, t, previous, row, i)
    PROVE  Gentle(row, m) /\ Near(previous, row, m)
<1>1. ASSUME NEW j \in 0 .. m PROVE row[j] \in Int /\ previous[j] \in Int
  BY DEF Rows
<1>2. ASSUME NEW j \in 1 .. m
      PROVE  /\ row[j] <= row[j - 1] + 1
             /\ row[j] <= previous[j] + 1
             /\ \/ row[j] = row[j - 1] + 1
                \/ row[j] = previous[j] + 1
                \/ row[j] >= previous[j - 1]
  <2>1. row[j] = Cell(s, t, previous, row, i, j)
    BY DEF MadeUpTo
  <2>2. j \in 0 .. m /\ j - 1 \in 0 .. m
    OBVIOUS
  <2>3. row[j] \in Int /\ row[j - 1] \in Int /\ previous[j] \in Int /\ previous[j - 1] \in Int
    BY <1>1, <2>2
  <2> QED
    BY <2>1, <2>3 DEF Cell, Least
<1>3. row[0] = i
  BY DEF MadeUpTo
<1>4. ASSUME NEW j \in 0 .. m PROVE row[j] <= previous[j] + 1
  <2>1. CASE j = 0
    BY <1>3, <2>1
  <2>2. CASE j # 0
    BY <1>2, <2>2
  <2> QED
    BY <2>1, <2>2
<1>5. ASSUME NEW j \in 1 .. m PROVE row[j - 1] <= row[j] + 1
  <2>1. j \in 0 .. m /\ j - 1 \in 0 .. m
    OBVIOUS
  <2>2. row[j] \in Int /\ row[j - 1] \in Int /\ previous[j] \in Int /\ previous[j - 1] \in Int
    BY <1>1, <2>1
  <2>3. row[j - 1] <= previous[j - 1] + 1
    BY <1>4, <2>1
  <2>4. previous[j - 1] <= previous[j] + 1
    BY DEF Gentle
  <2> QED
    BY <1>2, <2>2, <2>3, <2>4
<1>6. Gentle(row, m)
  BY <1>2, <1>5 DEF Gentle
<1> DEFINE P == { j \in Nat : j <= m => previous[j] <= row[j] + 1 }
<1>7. 0 \in P
  BY <1>3
<1>8. ASSUME NEW k \in Nat, k \in P PROVE k + 1 \in P
  <2> SUFFICES ASSUME k + 1 <= m PROVE previous[k + 1] <= row[k + 1] + 1
    OBVIOUS
  <2>1. PICK j \in 1 .. m : j = k + 1 /\ j - 1 = k
    OBVIOUS
  <2>2. j \in 0 .. m /\ j - 1 \in 0 .. m
    OBVIOUS
  <2>3. row[j] \in Int /\ row[j - 1] \in Int /\ previous[j] \in Int /\ previous[j - 1] \in Int
    BY <1>1, <2>2
  <2>4. previous[j - 1] <= row[j - 1] + 1
    BY <1>8, <2>1
  <2>5. previous[j] <= previous[j - 1] + 1
    BY DEF Gentle
  <2>6. previous[j] <= row[j] + 1
    BY <1>2, <2>3, <2>4, <2>5
  <2> QED
    BY <2>1, <2>6
<1>9. Nat \subseteq P
  <2> HIDE DEF P
  <2> QED
    BY <1>7, <1>8, NumbersByInduction
<1>10. Near(previous, row, m)
  BY <1>9 DEF Near
<1> QED
  BY <1>6, <1>10

\* The recurrence of the edit distance, for a table d.
EditStep(d, s, t, i, j) ==
    IF i = 0 THEN j
    ELSE IF j = 0 THEN i
    ELSE IF s[i] = t[j] THEN d[i - 1][j - 1]
    ELSE 1 + Least(d[i - 1][j - 1], Least(d[i - 1][j], d[i][j - 1]))

\* The table satisfies the recurrence: where the letters agree, neither neighbour
\* can be better than the diagonal.
LEMMA TableSatisfiesTheRecurrence ==
    ASSUME NEW n \in Nat, NEW s, NEW m \in Nat, NEW t, NEW d, IsTable(d, s, t, n, m)
    PROVE  \A i \in 0 .. n : \A j \in 0 .. m : d[i][j] = EditStep(d, s, t, i, j)
<1>1. ASSUME NEW i \in 0 .. n PROVE d[i] \in Rows(m)
  BY DEF IsTable
<1>2. ASSUME NEW i \in 0 .. n PROVE d[i][0] = i
  <2>1. CASE i = 0
    BY <2>1 DEF IsTable
  <2>2. CASE i # 0
    BY <2>2 DEF IsTable, MadeUpTo
  <2> QED
    BY <2>1, <2>2
<1> DEFINE P == { i \in Nat : i <= n => Gentle(d[i], m) }
<1>3. 0 \in P
  BY DEF IsTable, Gentle
<1>4. ASSUME NEW i \in 1 .. n, Gentle(d[i - 1], m)
      PROVE  Gentle(d[i], m) /\ Near(d[i - 1], d[i], m)
  <2>1. PICK previous \in Rows(m), row \in Rows(m) : previous = d[i - 1] /\ row = d[i]
    BY <1>1
  <2>2. MadeUpTo(m, s, t, previous, row, i) /\ previous[0] = i - 1 /\ Gentle(previous, m) /\ i \in Nat
    BY <1>2, <1>4, <2>1 DEF IsTable
  <2>3. Gentle(row, m) /\ Near(previous, row, m)
    BY <2>2, RowBelow
  <2> QED
    BY <2>1, <2>3
<1>5. ASSUME NEW k \in Nat, k \in P PROVE k + 1 \in P
  <2> SUFFICES ASSUME k + 1 <= n PROVE Gentle(d[k + 1], m)
    OBVIOUS
  <2>1. PICK i \in 1 .. n : i = k + 1 /\ i - 1 = k
    OBVIOUS
  <2> QED
    BY <1>4, <1>5, <2>1
<1>6. Nat \subseteq P
  <2> HIDE DEF P
  <2> QED
    BY <1>3, <1>5, NumbersByInduction
<1>7. ASSUME NEW i \in 1 .. n, NEW j \in 1 .. m PROVE d[i][j] = EditStep(d, s, t, i, j)
  <2>1. Gentle(d[i - 1], m)
    BY <1>6
  <2>2. Near(d[i - 1], d[i], m)
    BY <1>4, <2>1
  <2>3. d[i][j] = Cell(s, t, d[i - 1], d[i], i, j)
    BY DEF IsTable, MadeUpTo
  <2>4. d[i - 1] \in Rows(m) /\ d[i] \in Rows(m)
    BY <1>1
  <2>5. /\ d[i][j - 1] \in Int /\ d[i - 1][j] \in Int /\ d[i - 1][j - 1] \in Int
    BY <2>4 DEF Rows
  <2>6. d[i - 1][j - 1] <= d[i - 1][j] + 1
    BY <2>1 DEF Gentle
  <2>7. d[i - 1][j - 1] <= d[i][j - 1] + 1
    BY <2>2 DEF Near
  <2> QED
    BY <2>3, <2>5, <2>6, <2>7 DEF Cell, Least, EditStep
<1>8. \A j \in 0 .. m : d[0][j] = j
  BY DEF IsTable
<1>9. ASSUME NEW i \in 0 .. n, NEW j \in 0 .. m PROVE d[i][j] = EditStep(d, s, t, i, j)
  <2>1. CASE i = 0
    BY <1>8, <2>1 DEF EditStep
  <2>2. CASE i # 0 /\ j = 0
    BY <1>2, <2>2 DEF EditStep
  <2>3. CASE i # 0 /\ j # 0
    BY <1>7, <2>3
  <2> QED
    BY <2>1, <2>2, <2>3
<1> QED
  BY <1>9

\* The recursion in the definition of the edit distance.
EditRecursion(distance, s, t) ==
    [cell \in (0 .. Len(s)) \X (0 .. Len(t)) |->
        IF cell[1] = 0 THEN cell[2]
        ELSE IF cell[2] = 0 THEN cell[1]
        ELSE IF s[cell[1]] = t[cell[2]] THEN distance[<< cell[1] - 1, cell[2] - 1 >>]
        ELSE 1 + Least(distance[<< cell[1] - 1, cell[2] - 1 >>],
                       Least(distance[<< cell[1] - 1, cell[2] >>],
                             distance[<< cell[1], cell[2] - 1 >>]))]

\* One cell of it.
PairStep(distance, s, t, i, j) ==
    IF i = 0 THEN j
    ELSE IF j = 0 THEN i
    ELSE IF s[i] = t[j] THEN distance[<< i - 1, j - 1 >>]
    ELSE 1 + Least(distance[<< i - 1, j - 1 >>],
                   Least(distance[<< i - 1, j >>], distance[<< i, j - 1 >>]))

\* It is defined where a table is, and determines each cell of the table.
LEMMA EditDistanceOfTable ==
    ASSUME NEW n \in Nat, NEW s \in [1 .. n -> Nat], NEW m \in Nat, NEW t \in [1 .. m -> Nat],
           NEW d, IsTable(d, s, t, n, m)
    PROVE  EditDistance(s, t) = d[n][m]
<1>0. Len(t) = m /\ Len(s) = n
  OBVIOUS
<1> DEFINE e == [cell \in (0 .. n) \X (0 .. m) |-> d[cell[1]][cell[2]]]
           distance == CHOOSE f : f = EditRecursion(f, s, t)
<1>1. \A i \in 0 .. n : \A j \in 0 .. m : d[i][j] = EditStep(d, s, t, i, j)
  BY TableSatisfiesTheRecurrence
<1>2. \A i \in 0 .. n : \A j \in 0 .. m : e[<< i, j >>] = d[i][j]
  OBVIOUS
<1>3. e = EditRecursion(e, s, t)
  <2>1. ASSUME NEW cell \in (0 .. n) \X (0 .. m)
        PROVE  e[cell] = EditRecursion(e, s, t)[cell]
    <3>1. PICK i \in 0 .. n, j \in 0 .. m : cell = << i, j >>
      OBVIOUS
    <3>2. e[cell] = EditStep(d, s, t, i, j)
      BY <1>1, <1>2, <3>1
    <3> HIDE DEF e
    <3>3. EditRecursion(e, s, t)[cell] = PairStep(e, s, t, i, j)
      BY <1>0, <3>1 DEF EditRecursion, PairStep
    <3>4. PairStep(e, s, t, i, j) = EditStep(d, s, t, i, j)
      <4>1. CASE i = 0 \/ j = 0
        BY <4>1 DEF PairStep, EditStep
      <4>2. CASE i # 0 /\ j # 0
        <5>1. i - 1 \in 0 .. n /\ j - 1 \in 0 .. m
          BY <4>2
        <5>2. /\ e[<< i - 1, j - 1 >>] = d[i - 1][j - 1]
              /\ e[<< i - 1, j >>] = d[i - 1][j]
              /\ e[<< i, j - 1 >>] = d[i][j - 1]
          BY <1>2, <5>1
        <5> QED
          BY <5>2 DEF PairStep, EditStep
      <4> QED
        BY <4>1, <4>2
    <3> QED
      BY <3>2, <3>3, <3>4
  <2>2. DOMAIN EditRecursion(e, s, t) = (0 .. n) \X (0 .. m)
    BY <1>0 DEF EditRecursion
  <2>3. EditRecursion(e, s, t) = [cell \in (0 .. n) \X (0 .. m) |-> EditRecursion(e, s, t)[cell]]
    BY <1>0 DEF EditRecursion
  <2> QED
    BY <2>1, <2>2, <2>3
<1>4. distance = EditRecursion(distance, s, t)
  BY <1>3
<1>5. EditDistance(s, t) = distance[<< n, m >>]
  BY <1>0 DEF EditDistance, EditRecursion
<1> HIDE DEF distance, e
<1>6. ASSUME NEW i \in 0 .. n, NEW j \in 0 .. m
      PROVE  distance[<< i, j >>] = PairStep(distance, s, t, i, j)
  <2>1. PICK cell \in (0 .. n) \X (0 .. m) : cell = << i, j >>
    OBVIOUS
  <2>2. EditRecursion(distance, s, t)[cell] = PairStep(distance, s, t, i, j)
    BY <1>0, <2>1 DEF EditRecursion, PairStep
  <2> QED
    BY <1>4, <2>1, <2>2
<1> DEFINE RowEquals(i) == \A j \in 0 .. m : distance[<< i, j >>] = d[i][j]
           P == { i \in Nat : i <= n => RowEquals(i) }
<1>7. 0 \in P
  <2>1. \A j \in 0 .. m : d[0][j] = j
    <3>1. \A j \in 0 .. m : d[0][j] = EditStep(d, s, t, 0, j)
      BY <1>1
    <3> QED
      BY <3>1 DEF EditStep
  <2>2. \A j \in 0 .. m : distance[<< 0, j >>] = j
    <3>1. \A j \in 0 .. m : distance[<< 0, j >>] = PairStep(distance, s, t, 0, j)
      BY <1>6
    <3> QED
      BY <3>1 DEF PairStep
  <2> QED
    BY <2>1, <2>2
<1>8. ASSUME NEW k \in Nat, k \in P PROVE k + 1 \in P
  <2> SUFFICES ASSUME k + 1 <= n PROVE RowEquals(k + 1)
    OBVIOUS
  <2>1. PICK i \in 1 .. n : i = k + 1 /\ i - 1 = k
    OBVIOUS
  <2>2. RowEquals(i - 1)
    BY <1>8, <2>1
  <2> DEFINE Q == { j \in Nat : j <= m => distance[<< i, j >>] = d[i][j] }
  <2>3. 0 \in Q
    <3>1. d[i][0] = i
      BY <1>1 DEF EditStep
    <3>2. distance[<< i, 0 >>] = i
      <4>1. distance[<< i, 0 >>] = PairStep(distance, s, t, i, 0)
        BY <1>6
      <4> QED
        BY <4>1 DEF PairStep
    <3> QED
      BY <3>1, <3>2
  <2>4. ASSUME NEW l \in Nat, l \in Q PROVE l + 1 \in Q
    <3> SUFFICES ASSUME l + 1 <= m PROVE distance[<< i, l + 1 >>] = d[i][l + 1]
      OBVIOUS
    <3>1. PICK j \in 1 .. m : j = l + 1 /\ j - 1 = l
      OBVIOUS
    <3>2. distance[<< i, j - 1 >>] = d[i][j - 1]
      BY <2>4, <3>1
    <3>3. /\ distance[<< i - 1, j - 1 >>] = d[i - 1][j - 1]
          /\ distance[<< i - 1, j >>] = d[i - 1][j]
      BY <2>2, <3>1
    <3>4. d[i][j] = EditStep(d, s, t, i, j)
      BY <1>1
    <3>5. distance[<< i, j >>] = PairStep(distance, s, t, i, j)
      BY <1>6
    <3>6. PairStep(distance, s, t, i, j) = EditStep(d, s, t, i, j)
      <4>1. i # 0 /\ j # 0
        OBVIOUS
      <4>2. PairStep(distance, s, t, i, j) =
                IF s[i] = t[j] THEN distance[<< i - 1, j - 1 >>]
                ELSE 1 + Least(distance[<< i - 1, j - 1 >>],
                               Least(distance[<< i - 1, j >>], distance[<< i, j - 1 >>]))
        BY <4>1 DEF PairStep
      <4>3. EditStep(d, s, t, i, j) =
                IF s[i] = t[j] THEN d[i - 1][j - 1]
                ELSE 1 + Least(d[i - 1][j - 1], Least(d[i - 1][j], d[i][j - 1]))
        BY <4>1 DEF EditStep
      <4> QED
        BY <3>2, <3>3, <4>2, <4>3
    <3> QED
      BY <3>1, <3>4, <3>5, <3>6
  <2>5. Nat \subseteq Q
    <3> HIDE DEF Q
    <3> QED
      BY <2>3, <2>4, NumbersByInduction
  <2> QED
    BY <2>1, <2>5
<1>9. Nat \subseteq P
  <2> HIDE DEF P
  <2> QED
    BY <1>7, <1>8, NumbersByInduction
<1> QED
  BY <1>5, <1>9

-----------------------------------------------------------------------------
(* Names as they are compared *)

\* The recursion of FlattenSeq.
FlattenRecursion(flatten, seqs) ==
    [i \in 1 .. Len(seqs) |-> IF i = 1 THEN seqs[i] ELSE flatten[i - 1] \o seqs[i]]

\* What the first k sequences come to, one after the other.
IsFlattened(flatten, k, seqs) ==
    \A i \in 1 .. k : flatten[i] = IF i = 1 THEN seqs[i] ELSE flatten[i - 1] \o seqs[i]

HasFlattened(k, A, seqs) == \E flatten \in [1 .. k -> Seq(A)] : IsFlattened(flatten, k, seqs)

\* The tokens of a name written without spaces are a sequence of letters.
LEMMA FlattenedSequence ==
    ASSUME NEW A, NEW seqs \in Seq(Seq(A))
    PROVE  FlattenSeq(seqs) \in Seq(A)
<1> DEFINE n == Len(seqs)
           chosen == CHOOSE f : f = FlattenRecursion(f, seqs)
           P == { k \in Nat : k <= n => HasFlattened(k, A, seqs) }
<1>1. n \in Nat /\ \A i \in 1 .. n : seqs[i] \in Seq(A)
  OBVIOUS
<1> HIDE DEF n
<1>2. 0 \in P
  <2>1. [i \in 1 .. 0 |-> << >>] \in [1 .. 0 -> Seq(A)]
    OBVIOUS
  <2>2. IsFlattened([i \in 1 .. 0 |-> << >>], 0, seqs)
    BY DEF IsFlattened
  <2> QED
    BY <2>1, <2>2 DEF HasFlattened
<1>3. ASSUME NEW k \in Nat, k \in P PROVE k + 1 \in P
  <2> SUFFICES ASSUME k + 1 <= n PROVE HasFlattened(k + 1, A, seqs)
    OBVIOUS
  <2>0. HasFlattened(k, A, seqs)
    BY <1>1, <1>3
  <2>1. PICK f \in [1 .. k -> Seq(A)] : IsFlattened(f, k, seqs)
    BY <2>0 DEF HasFlattened
  <2>2. PICK l \in 1 .. n : l = k + 1 /\ l - 1 = k
    BY <1>1
  <2>3. PICK last \in Seq(A) : last = IF l = 1 THEN seqs[l] ELSE f[k] \o seqs[l]
    <3>1. seqs[l] \in Seq(A)
      BY <1>1
    <3>2. l # 1 => f[k] \in Seq(A)
      BY <2>2
    <3>3. l # 1 => f[k] \o seqs[l] \in Seq(A)
      BY <3>1, <3>2
    <3> QED
      BY <3>1, <3>3
  <2> DEFINE g == [i \in 1 .. l |-> IF i = l THEN last ELSE f[i]]
  <2>4. ASSUME NEW i \in 1 .. l PROVE g[i] \in Seq(A)
    BY <2>2
  <2>5. ASSUME NEW i \in 1 .. l
        PROVE  g[i] = IF i = 1 THEN seqs[i] ELSE g[i - 1] \o seqs[i]
    <3>1. CASE i = l
      <4>1. i # 1 => g[i - 1] = f[k]
        BY <2>2, <3>1
      <4> QED
        BY <2>3, <3>1, <4>1
    <3>2. CASE i # l
      <4>1. i \in 1 .. k /\ g[i] = f[i]
        BY <2>2, <3>2
      <4>2. i # 1 => g[i - 1] = f[i - 1]
        BY <2>2, <4>1
      <4> QED
        BY <2>1, <4>1, <4>2 DEF IsFlattened
    <3> QED
      BY <3>1, <3>2
  <2>6. g \in [1 .. l -> Seq(A)]
    BY <2>4
  <2>7. IsFlattened(g, l, seqs)
    <3> HIDE DEF g
    <3> QED
      BY <2>5 DEF IsFlattened
  <2> HIDE DEF g
  <2>8. HasFlattened(l, A, seqs)
    BY <2>6, <2>7 DEF HasFlattened
  <2> QED
    BY <2>2, <2>8
<1>4. Nat \subseteq P
  <2> HIDE DEF P
  <2> QED
    BY <1>2, <1>3, NumbersByInduction
<1>5. HasFlattened(n, A, seqs)
  BY <1>1, <1>4
<1>6. PICK f \in [1 .. n -> Seq(A)] : IsFlattened(f, n, seqs)
  BY <1>5 DEF HasFlattened
<1>7. f = FlattenRecursion(f, seqs)
  BY <1>6 DEF IsFlattened, FlattenRecursion, n
<1>8. chosen = FlattenRecursion(chosen, seqs)
  BY <1>7
<1>9. n > 0 => FlattenSeq(seqs) = chosen[n]
  BY DEF FlattenSeq, FlattenRecursion, n
<1>10. n = 0 => FlattenSeq(seqs) = << >>
  BY DEF FlattenSeq, n
<1> HIDE DEF chosen
<1>11. ASSUME NEW i \in 1 .. n
       PROVE  chosen[i] = IF i = 1 THEN seqs[i] ELSE chosen[i - 1] \o seqs[i]
  BY <1>8 DEF FlattenRecursion, n
<1> DEFINE Q == { k \in Nat : k \in 1 .. n => chosen[k] \in Seq(A) }
<1>12. 0 \in Q
  OBVIOUS
<1>13. ASSUME NEW k \in Nat, k \in Q PROVE k + 1 \in Q
  <2> SUFFICES ASSUME k + 1 \in 1 .. n PROVE chosen[k + 1] \in Seq(A)
    OBVIOUS
  <2>1. PICK l \in 1 .. n : l = k + 1 /\ l - 1 = k
    OBVIOUS
  <2>2. seqs[l] \in Seq(A)
    BY <1>1
  <2>3. CASE l = 1
    BY <1>11, <2>1, <2>2, <2>3
  <2>4. CASE l # 1
    <3>1. k \in 1 .. n
      BY <1>1, <2>1, <2>4
    <3>2. chosen[k] \in Seq(A)
      BY <1>13, <3>1
    <3>3. chosen[l] = chosen[k] \o seqs[l]
      BY <1>11, <2>1, <2>4
    <3> QED
      BY <2>1, <2>2, <3>2, <3>3
  <2> QED
    BY <2>3, <2>4
<1>14. Nat \subseteq Q
  <2> HIDE DEF Q
  <2> QED
    BY <1>12, <1>13, NumbersByInduction
<1>15. n > 0 => chosen[n] \in Seq(A)
  BY <1>1, <1>14
<1>16. << >> \in Seq(A)
  OBVIOUS
<1> QED
  BY <1>1, <1>9, <1>10, <1>15, <1>16

\* levenshteinDistance is the edit distance.
LEMMA LevenshteinIsEditDistance ==
    ASSUME NEW s \in Seq(Nat), NEW t \in Seq(Nat)
    PROVE  LevenshteinDistance(s, t) = EditDistance(s, t)
<1>1. PICK n \in Nat : n = Len(s)
  OBVIOUS
<1>2. PICK m \in Nat : m = Len(t)
  OBVIOUS
<1>3. s \in [1 .. n -> Nat] /\ t \in [1 .. m -> Nat]
  BY <1>1, <1>2
<1>4. PICK d : IsTable(d, s, t, n, m) /\ LastRow(s, t) = d[n]
  BY <1>3, LastRowOfTable
<1>5. EditDistance(s, t) = d[n][m]
  BY <1>3, <1>4, EditDistanceOfTable, ZenonT(60)
<1> QED
  BY <1>2, <1>4, <1>5 DEF LevenshteinDistance

-----------------------------------------------------------------------------
(* The comparison that is asked for, and its answer *)

NameComparisons ==
    [kind : { "display_name" }, observed : Names, claimed : Names, aliases : Aliases]

AddressComparisons ==
    [kind : { "email", "calendar_invite" }, observed : Addresses,
     claimed : Addresses, aliases : {{}}]

Matches == MatchIdentityField(comparison.kind, comparison.observed,
                              comparison.claimed, comparison.aliases)

\* What is asked is a name or an address, and the answer is that of the matcher.
MatchingInv ==
    /\ comparison \in NameComparisons \union AddressComparisons
    /\ answer \in { "asked", "matched", "different" }
    /\ answer # "asked" => answer = IF Matches THEN "matched" ELSE "different"

\* MatchingInv holds throughout.
THEOREM MatchingTypeCorrect == MatchingSpec => []MatchingInv
<1>1. MatchingInit => MatchingInv
  BY DEF MatchingInit, MatchingInv, NameComparisons, AddressComparisons
<1>2. MatchingInv /\ [MatchingNext]_matchingVars => MatchingInv'
  <2> SUFFICES ASSUME MatchingInv, [MatchingNext]_matchingVars PROVE MatchingInv'
    OBVIOUS
  <2>1. CASE Answer
    BY <2>1 DEF Answer, MatchingInv, Matches, NameComparisons, AddressComparisons
  <2>2. CASE UNCHANGED matchingVars
    BY <2>2 DEF matchingVars, MatchingInv, Matches
  <2> QED
    BY <2>1, <2>2 DEF MatchingNext
<1> QED
  BY <1>1, <1>2, PTL DEF MatchingSpec

\* The two-row computation of levenshteinDistance gives the edit distance.
THEOREM MatchingComputesEditDistances == MatchingSpec => []DistancesAreEditDistances
<1>1. MatchingInv => DistancesAreEditDistances
  <2> SUFFICES ASSUME MatchingInv, comparison.kind = "display_name"
               PROVE  LevenshteinDistance(FlattenSeq(comparison.observed), FlattenSeq(comparison.claimed))
                      = EditDistance(FlattenSeq(comparison.observed), FlattenSeq(comparison.claimed))
    BY DEF DistancesAreEditDistances, Answered
  <2>1. comparison \in NameComparisons
    BY DEF MatchingInv, NameComparisons, AddressComparisons
  <2>2. comparison.observed \in Seq(Seq(Nat)) /\ comparison.claimed \in Seq(Seq(Nat))
    <3>1. Seq(Seq(Nat) \ { << >> }) \subseteq Seq(Seq(Nat))
      BY SeqMonotonic
    <3>2. comparison.observed \in Names /\ comparison.claimed \in Names
      BY <2>1 DEF NameComparisons
    <3> QED
      BY <3>1, <3>2, MatchingAssumption
  <2>3. FlattenSeq(comparison.observed) \in Seq(Nat) /\ FlattenSeq(comparison.claimed) \in Seq(Nat)
    BY <2>2, FlattenedSequence
  <2> QED
    BY <2>3, LevenshteinIsEditDistance
<1> QED
  BY <1>1, MatchingTypeCorrect, PTL

-----------------------------------------------------------------------------
(* Similarities *)

\* No cell of a row is negative.
NoneNegative(row, m) == \A j \in 0 .. m : row[j] >= 0

\* The row made of one without negative cells has none.
LEMMA RowNotNegative ==
    ASSUME NEW s, NEW t, NEW m \in Nat, NEW previous \in Rows(m), NEW row \in Rows(m),
           NEW i \in Nat, NoneNegative(previous, m), MadeUpTo(m, s, t, previous, row, i)
    PROVE  NoneNegative(row, m)
<1>1. ASSUME NEW j \in 0 .. m PROVE row[j] \in Int /\ previous[j] \in Int /\ previous[j] >= 0
  BY DEF Rows, NoneNegative
<1> DEFINE P == { j \in Nat : j <= m => row[j] >= 0 }
<1>2. 0 \in P
  BY DEF MadeUpTo
<1>3. ASSUME NEW k \in Nat, k \in P PROVE k + 1 \in P
  <2> SUFFICES ASSUME k + 1 <= m PROVE row[k + 1] >= 0
    OBVIOUS
  <2>1. PICK j \in 1 .. m : j = k + 1 /\ j - 1 = k
    OBVIOUS
  <2>2. j \in 0 .. m /\ j - 1 \in 0 .. m
    OBVIOUS
  <2>3. row[j - 1] \in Int /\ row[j - 1] >= 0
    BY <1>1, <1>3, <2>1, <2>2
  <2>4. previous[j] \in Nat /\ previous[j - 1] \in Nat
    BY <1>1, <2>2
  <2>5. row[j] = Cell(s, t, previous, row, i, j)
    BY DEF MadeUpTo
  <2>6. row[j] >= 0
    BY <2>3, <2>4, <2>5 DEF Cell, Least
  <2> QED
    BY <2>1, <2>6
<1>4. Nat \subseteq P
  <2> HIDE DEF P
  <2> QED
    BY <1>2, <1>3, NumbersByInduction
<1> QED
  BY <1>4 DEF NoneNegative

\* A distance is a natural number.
LEMMA DistanceIsNatural ==
    ASSUME NEW s \in Seq(Nat), NEW t \in Seq(Nat)
    PROVE  LevenshteinDistance(s, t) \in Nat
<1>1. PICK n \in Nat : n = Len(s)
  OBVIOUS
<1>2. PICK m \in Nat : m = Len(t)
  OBVIOUS
<1>3. s \in [1 .. n -> Nat] /\ t \in [1 .. m -> Nat]
  BY <1>1, <1>2
<1>4. PICK d : IsTable(d, s, t, n, m) /\ LastRow(s, t) = d[n]
  BY <1>3, LastRowOfTable
<1>5. ASSUME NEW i \in 0 .. n PROVE d[i] \in Rows(m)
  BY <1>4 DEF IsTable
<1> DEFINE P == { i \in Nat : i <= n => NoneNegative(d[i], m) }
<1>6. 0 \in P
  BY <1>4 DEF IsTable, NoneNegative
<1>7. ASSUME NEW k \in Nat, k \in P PROVE k + 1 \in P
  <2> SUFFICES ASSUME k + 1 <= n PROVE NoneNegative(d[k + 1], m)
    OBVIOUS
  <2>1. PICK i \in 1 .. n : i = k + 1 /\ i - 1 = k
    OBVIOUS
  <2>2. PICK previous \in Rows(m), row \in Rows(m) : previous = d[i - 1] /\ row = d[i]
    BY <1>5, <2>1
  <2>3. MadeUpTo(m, s, t, previous, row, i) /\ NoneNegative(previous, m) /\ i \in Nat
    BY <1>4, <1>7, <2>1, <2>2 DEF IsTable
  <2>4. NoneNegative(row, m)
    BY <2>3, RowNotNegative
  <2> QED
    BY <2>1, <2>2, <2>4
<1>8. Nat \subseteq P
  <2> HIDE DEF P
  <2> QED
    BY <1>6, <1>7, NumbersByInduction
<1>9. NoneNegative(d[n], m) /\ d[n] \in Rows(m)
  BY <1>5, <1>8
<1>10. d[n][m] \in Nat
  BY <1>9 DEF NoneNegative, Rows
<1> QED
  BY <1>2, <1>4, <1>10 DEF LevenshteinDistance

\* A quotient of natural numbers is one.
LEMMA QuotientIsNatural ==
    ASSUME NEW a \in Nat, NEW b \in Nat \ {0}
    PROVE  (a * Unit) \div b \in Nat
<1>1. a * Unit \in Nat
  BY DEF Unit
<1> QED
  BY <1>1

\* A similarity is at most Unit.
LEMMA RatioIsAtMostUnit ==
    ASSUME NEW s \in Seq(Nat), NEW t \in Seq(Nat)
    PROVE  LevenshteinRatio(s, t) \in Int /\ LevenshteinRatio(s, t) <= Unit
<1>1. PICK distance \in Nat : distance = LevenshteinDistance(s, t)
  BY DistanceIsNatural
<1>2. PICK longest \in Nat \ {0} : longest = Greatest(Greatest(Len(s), Len(t)), 1)
  BY DEF Greatest
<1>3. (distance * Unit) \div longest \in Nat
  BY QuotientIsNatural
<1>4. PICK lost \in Nat : lost = (distance * Unit) \div longest
  BY <1>3
<1> QED
  BY <1>1, <1>2, <1>4 DEF LevenshteinRatio, Unit

-----------------------------------------------------------------------------
(* Addresses *)

\* Two well-formed addresses match only if they are of one domain.
LEMMA DomainsBoundTheMatch ==
    ASSUME MatchingInv, comparison.kind \in { "email", "calendar_invite" }, Matches,
           Parses(comparison.observed), Parses(comparison.claimed)
    PROVE  comparison.observed.domain = comparison.claimed.domain
<1> SUFFICES ASSUME comparison.observed.domain # comparison.claimed.domain PROVE FALSE
  OBVIOUS
<1> DEFINE observed == comparison.observed
           claimed == comparison.claimed
<1>1. comparison \in AddressComparisons
  BY DEF MatchingInv, NameComparisons, AddressComparisons
<1>2. observed.domain \in Seq(Nat) /\ claimed.domain \in Seq(Nat) /\ comparison.aliases = {}
  BY <1>1, MatchingAssumption DEF AddressComparisons
<1>3. /\ LevenshteinRatio(observed.domain, claimed.domain) \in Int
      /\ LevenshteinRatio(observed.domain, claimed.domain) <= Unit
  BY <1>2, RatioIsAtMostUnit
<1>4. CASE comparison.kind = "email"
  <2>1. CompareEmailDomains(observed, claimed) >= Percent(82)
    BY <1>4 DEF Matches, MatchIdentityField
  <2>2. CompareEmailDomains(observed, claimed) = LevenshteinRatio(observed.domain, claimed.domain) \div 2
    BY DEF CompareEmailDomains
  <2> QED
    BY <1>3, <2>1, <2>2 DEF Percent, Unit
<1>5. CASE comparison.kind = "calendar_invite"
  <2>1. CompareEmailPair(observed, claimed).similarity >= Percent(85)
    BY <1>2, <1>5 DEF Matches, MatchIdentityField
  <2>2. CompareEmailPair(observed, claimed).similarity
            = (LevenshteinRatio(observed.domain, claimed.domain) * 2) \div 5
    BY DEF CompareEmailPair
  <2> QED
    BY <1>3, <2>1, <2>2 DEF Percent, Unit
<1> QED
  BY <1>4, <1>5

-----------------------------------------------------------------------------
(* The alignment of the tokens of two names *)

Tokens == Seq(Nat) \ { << >> }

\* A token stands for another if it is that token, a nickname or the initial.
StandsFor(token, filed) ==
    token = filed \/ Nicknames(token, filed) \/ token = << filed[1] >>

\* The score of two tokens.
LEMMA ScoreIsWithinUnit ==
    ASSUME NEW observed \in Tokens, NEW claimed \in Tokens
    PROVE  ScoreTokenPair(observed, claimed) \in 0 .. Unit
<1>1. PICK ratio \in Int : ratio = LevenshteinRatio(observed, claimed) /\ ratio <= Unit
  BY RatioIsAtMostUnit DEF Tokens
<1> QED
  BY <1>1 DEF ScoreTokenPair, Percent, Unit

\* One that stands for the other scores.
LEMMA StandInsScore ==
    ASSUME NEW observed \in Tokens, NEW claimed \in Tokens, StandsFor(observed, claimed)
    PROVE  ScoreTokenPair(observed, claimed) > 0
<1>1. observed = << claimed[1] >> => IsAbbreviationOf(observed, claimed)
  <2> SUFFICES ASSUME observed = << claimed[1] >> PROVE IsPrefix(observed, claimed)
    BY DEF IsAbbreviationOf
  <2>1. Len(claimed) >= 1 /\ claimed[1] \in Nat
    BY DEF Tokens
  <2>2. Len(observed) = 1
    OBVIOUS
  <2>3. observed \in Seq(Nat) /\ claimed \in Seq(Nat) /\ Len(claimed) \in Nat
    BY DEF Tokens
  <2>4. /\ SubSeq(claimed, 1, 1) \in Seq(Nat) /\ Len(SubSeq(claimed, 1, 1)) = 1
        /\ SubSeq(claimed, 1, 1)[1] = claimed[1]
    BY <2>1, <2>3, SubSeqProperties
  <2>5. SubSeq(observed, 1, 1) = observed
    BY <2>2, <2>3, SubSeqFull
  <2>6. observed[1] = claimed[1]
    BY <2>1
  <2>7. SubSeq(claimed, 1, 1) = observed
    <3>1. PICK one : one = SubSeq(claimed, 1, 1)
      OBVIOUS
    <3>2. one \in Seq(Nat) /\ Len(one) = Len(observed) /\ \A i \in 1 .. Len(one) : one[i] = observed[i]
      <4>1. one \in Seq(Nat) /\ Len(one) = 1
        BY <2>4, <3>1
      <4>2. one[1] = observed[1]
        BY <2>4, <2>6, <3>1
      <4> QED
        BY <2>2, <4>1, <4>2
    <3>3. one = observed
      BY <2>3, <3>2, SeqEqual
    <3> QED
      BY <3>1, <3>3
  <2> QED
    BY <2>1, <2>2, <2>5, <2>7 DEF IsPrefix
<1> QED
  BY <1>1 DEF StandsFor, ScoreTokenPair, Percent, Unit

Score(token, claimed, i) == ScoreTokenPair(token, claimed[i])

\* The places that a token takes: the best that is still free.
BestFor(token, claimed, used) ==
    { i \in (DOMAIN claimed) \ used :
        Score(token, claimed, i) > 0 /\ \A j \in (DOMAIN claimed) \ used :
            \/ Score(token, claimed, j) < Score(token, claimed, i)
            \/ Score(token, claimed, j) = Score(token, claimed, i) /\ i <= j }

\* Of places one of which scores, one is best: none scores more, and of those
\* that score as much it is the first.
LEMMA BestOfScores ==
    ASSUME NEW free \in SUBSET Nat, NEW top \in Nat, NEW score \in [free -> 0 .. top],
           NEW place \in free, score[place] > 0
    PROVE  \E i \in free : score[i] > 0 /\ \A j \in free :
               score[j] < score[i] \/ (score[j] = score[i] /\ i <= j)
<1> DEFINE shortfall == { top - score[i] : i \in free }
<1>0. ASSUME NEW i \in free PROVE score[i] \in Int /\ 0 <= score[i] /\ score[i] <= top
  <2>1. score[i] \in 0 .. top
    OBVIOUS
  <2> QED
    BY <2>1
<1>1. shortfall \subseteq Nat /\ shortfall # {}
  <2>1. ASSUME NEW i \in free PROVE top - score[i] \in Nat
    BY <1>0
  <2> QED
    BY <2>1
<1>2. PICK least \in shortfall : \A other \in shortfall : least <= other
  <2> HIDE DEF shortfall
  <2> QED
    BY <1>1, LeastOfNumbers
<1>3. PICK i0 \in free : least = top - score[i0]
  BY <1>2
<1>4. ASSUME NEW j \in free PROVE score[j] <= score[i0]
  <2>1. top - score[j] \in shortfall
    OBVIOUS
  <2>2. top - score[i0] <= top - score[j]
    BY <1>2, <1>3, <2>1
  <2>3. score[i0] \in Int /\ score[j] \in Int
    BY <1>0
  <2> QED
    BY <2>2, <2>3
<1> DEFINE equals == { i \in free : score[i] = score[i0] }
<1>5. equals \subseteq Nat /\ i0 \in equals
  OBVIOUS
<1>6. PICK i \in equals : \A j \in equals : i <= j
  <2> HIDE DEF equals
  <2> QED
    BY <1>5, LeastOfNumbers
<1>7. ASSUME NEW j \in free
      PROVE  score[j] < score[i] \/ (score[j] = score[i] /\ i <= j)
  <2>1. score[j] = score[i] => i <= j
    BY <1>6
  <2>2. score[j] \in Int /\ score[i] \in Int /\ score[j] <= score[i]
    BY <1>0, <1>4
  <2> QED
    BY <2>1, <2>2
<1>8. score[i] > 0
  <2>1. score[place] <= score[i]
    BY <1>4
  <2>2. score[place] \in Int /\ score[i] \in Int
    BY <1>0
  <2> QED
    BY <2>1, <2>2
<1> QED
  BY <1>7, <1>8

\* A token that scores with a free place takes one.
LEMMA BestExists ==
    ASSUME NEW claimed \in Seq(Tokens), NEW token \in Tokens, NEW used,
           NEW place \in (DOMAIN claimed) \ used, Score(token, claimed, place) > 0
    PROVE  BestFor(token, claimed, used) # {}
<1>1. PICK free \in SUBSET Nat : free = (DOMAIN claimed) \ used
  <2>1. (DOMAIN claimed) \ used \in SUBSET Nat
    OBVIOUS
  <2> QED
    BY <2>1
<1> DEFINE score == [i \in free |-> ScoreTokenPair(token, claimed[i])]
<1>2. ASSUME NEW i \in free PROVE ScoreTokenPair(token, claimed[i]) \in 0 .. Unit
  <2>1. claimed[i] \in Tokens
    BY <1>1
  <2> QED
    BY <2>1, ScoreIsWithinUnit
<1>3. score \in [free -> 0 .. Unit]
  BY <1>2
<1>4. \A i \in free : score[i] = Score(token, claimed, i)
  BY DEF Score
<1> HIDE DEF score
<1>5. place \in free /\ score[place] > 0
  BY <1>1, <1>4
<1>6. PICK i \in free : score[i] > 0 /\ \A j \in free :
          score[j] < score[i] \/ (score[j] = score[i] /\ i <= j)
  <2>1. Unit \in Nat
    BY DEF Unit
  <2> QED
    BY <1>3, <1>5, <2>1, BestOfScores
<1>7. i \in BestFor(token, claimed, used)
  BY <1>1, <1>4, <1>6 DEF BestFor
<1> QED
  BY <1>7

\* The places taken, with those of one token more.
WithBest(token, claimed, used) == used \union BestFor(token, claimed, used)

\* The recursion of Aligned's fold.
AlignedFold(g, observed, claimed) ==
    [S \in SUBSET DOMAIN observed |->
        IF S = {} THEN {}
        ELSE LET last == Max(S)
             IN WithBest(observed[last], claimed, g[S \ {last}])]

\* It is defined, and Aligned is what it comes to.
LEMMA AlignedFoldEnds ==
    ASSUME NEW n \in Nat, NEW observed \in [1 .. n -> Tokens], NEW claimed \in Seq(Tokens)
    PROVE  \E iter : iter = AlignedFold(iter, observed, claimed) /\ iter[1 .. n] = Aligned(observed, claimed)
<1> DEFINE A == SUBSET DOMAIN claimed
           step == [i \in 1 .. n |-> [used \in A |-> WithBest(observed[i], claimed, used)]]
           iter == CHOOSE g : g = AlignedFold(g, observed, claimed)
<1>1. DOMAIN observed = 1 .. n
  OBVIOUS
<1>2. {} \in A
  OBVIOUS
<1>3. step \in [1 .. n -> [A -> A]]
  BY DEF WithBest, BestFor
<1> HIDE DEF step, A
<1>4. HasFold(A, n, {}, step)
  BY <1>2, <1>3, FoldEnds
<1>5. PICK g \in [SUBSET (1 .. n) -> A] : IsFold(g, n, {}, step)
  BY <1>4 DEF HasFold
<1>6. ASSUME NEW S \in SUBSET (1 .. n)
      PROVE  g[S] = IF S = {} THEN {} ELSE WithBest(observed[Max(S)], claimed, g[S \ {Max(S)}])
  <2>1. CASE S = {}
    BY <1>5, <2>1 DEF IsFold
  <2>2. CASE S # {}
    <3>1. Max(S) \in 1 .. n /\ g[S \ {Max(S)}] \in A
      BY <2>2, MaxOfNumbers
    <3>2. g[S] = step[Max(S)][g[S \ {Max(S)}]]
      BY <1>5, <2>2 DEF IsFold
    <3> QED
      BY <2>2, <3>1, <3>2 DEF step
  <2> QED
    BY <2>1, <2>2
<1>7. g = AlignedFold(g, observed, claimed)
  BY <1>1, <1>5, <1>6 DEF AlignedFold
<1>8. iter = AlignedFold(iter, observed, claimed)
  BY <1>7
<1>9. iter[1 .. n] = Aligned(observed, claimed)
  BY <1>1 DEF Aligned, FoldLeft, MapThenFoldSet, WithBest, BestFor, Score, AlignedFold
<1> HIDE DEF iter
<1> QED
  BY <1>8, <1>9

\* The places of the tokens that one of the first k observed ones stands for and
\* that are not taken.
Missed(used, order, k) == { i \in DOMAIN order : order[i] <= k /\ i \notin used }

\* As many places are taken as are missed.
TakesAsManyAsItMisses(used, order, k, n) ==
    used \in SUBSET (1 .. n) /\ Cardinality(Missed(used, order, k)) <= Cardinality(used)

\* It stays so with one token more: if the place of the token it stands for is
\* free, it takes a free one, that or another.
LEMMA OneTokenMore ==
    ASSUME NEW n \in Nat, NEW claimed \in [1 .. n -> Tokens],
           NEW order \in [1 .. n -> 1 .. n], NEW k \in Nat,
           NEW i0 \in 1 .. n, \A i \in 1 .. n : order[i] = k + 1 => i = i0,
           NEW token \in Tokens, StandsFor(token, claimed[i0]),
           NEW used, TakesAsManyAsItMisses(used, order, k, n),
           NEW next, next = WithBest(token, claimed, used)
    PROVE  TakesAsManyAsItMisses(next, order, k + 1, n)
<1>1. used \in SUBSET (1 .. n) /\ next \in SUBSET (1 .. n) /\ used \subseteq next
  BY DEF WithBest, BestFor, TakesAsManyAsItMisses
<1>2. IsFiniteSet(1 .. n)
  BY FS_Interval
<1> DEFINE before == Missed(used, order, k)
           after == Missed(next, order, k + 1)
<1>3. before \in SUBSET (1 .. n) /\ after \in SUBSET (1 .. n)
  BY DEF Missed
<1>4. after \subseteq before \union {i0}
  BY <1>1 DEF Missed
<1>5. i0 \in used => after \subseteq before
  <2> SUFFICES ASSUME i0 \in used, NEW i \in after PROVE i \in before
    OBVIOUS
  <2>1. i \in before \union {i0}
    BY <1>4
  <2>2. i # i0
    BY <1>1 DEF Missed
  <2> QED
    BY <2>1, <2>2
<1>6. /\ IsFiniteSet(used) /\ IsFiniteSet(next) /\ IsFiniteSet(before) /\ IsFiniteSet(after)
      /\ Cardinality(used) \in Nat /\ Cardinality(next) \in Nat
      /\ Cardinality(before) \in Nat /\ Cardinality(after) \in Nat
  BY <1>1, <1>2, <1>3, FS_Subset, FS_CardinalityType
<1>7. Cardinality(before) <= Cardinality(used)
  BY DEF TakesAsManyAsItMisses
<1> HIDE DEF before, after
<1>8. CASE i0 \in used
  <2>1. Cardinality(after) <= Cardinality(before)
    BY <1>5, <1>6, <1>8, FS_Subset
  <2>2. Cardinality(used) <= Cardinality(next)
    BY <1>1, <1>6, FS_Subset
  <2>3. Cardinality(after) <= Cardinality(next)
    BY <1>6, <1>7, <2>1, <2>2
  <2> QED
    BY <1>1, <2>3 DEF TakesAsManyAsItMisses, after
<1>9. CASE i0 \notin used
  <2>1. i0 \in (DOMAIN claimed) \ used /\ claimed \in Seq(Tokens) /\ claimed[i0] \in Tokens
    BY <1>9
  <2>2. Score(token, claimed, i0) > 0
    BY <2>1, StandInsScore DEF Score
  <2>3. BestFor(token, claimed, used) # {}
    BY <2>1, <2>2, BestExists
  <2>4. PICK best \in BestFor(token, claimed, used) : best \notin used /\ best \in next
    BY <2>3 DEF BestFor, WithBest
  <2>5. /\ IsFiniteSet(used \union {best})
        /\ Cardinality(used \union {best}) = Cardinality(used) + 1
    BY <1>6, <2>4, FS_AddElement
  <2>6. Cardinality(used \union {best}) <= Cardinality(next)
    <3>1. used \union {best} \in SUBSET next
      BY <1>1, <2>4
    <3> QED
      BY <1>6, <3>1, FS_Subset
  <2>7. Cardinality(after) <= Cardinality(before) + 1
    <3>1. /\ IsFiniteSet(before \union {i0})
          /\ Cardinality(before \union {i0}) \in { Cardinality(before), Cardinality(before) + 1 }
      BY <1>6, FS_AddElement
    <3>2. Cardinality(after) <= Cardinality(before \union {i0})
      BY <1>4, <3>1, FS_Subset
    <3>3. PICK both : both = Cardinality(before \union {i0})
      OBVIOUS
    <3>4. both = Cardinality(before) \/ both = Cardinality(before) + 1
      BY <3>1, <3>3
    <3>5. Cardinality(after) <= both
      BY <3>2, <3>3
    <3>6. Cardinality(after) \in Int /\ Cardinality(before) \in Int
      BY <1>6
    <3> QED
      BY <3>4, <3>5, <3>6
  <2>8. Cardinality(after) <= Cardinality(next)
    BY <1>6, <1>7, <2>5, <2>6, <2>7
  <2> QED
    BY <1>1, <2>8 DEF TakesAsManyAsItMisses, after
<1> QED
  BY <1>8, <1>9

\* The alignment takes half of the places at least.
LEMMA AlignmentTakesHalf ==
    ASSUME NEW n \in Nat, NEW observed \in [1 .. n -> Tokens], NEW claimed \in [1 .. n -> Tokens],
           NEW order \in Bijection(1 .. n, 1 .. n),
           \A i \in 1 .. n : StandsFor(observed[order[i]], claimed[i])
    PROVE  /\ Cardinality(Aligned(observed, claimed)) \in Nat
           /\ n <= 2 * Cardinality(Aligned(observed, claimed))
<1>0. claimed \in Seq(Tokens) /\ order \in [1 .. n -> 1 .. n] /\ DOMAIN observed = 1 .. n
  BY DEF Bijection, Injection
<1>1. PICK iter : /\ iter = AlignedFold(iter, observed, claimed)
                  /\ iter[1 .. n] = Aligned(observed, claimed)
  BY <1>0, AlignedFoldEnds
<1> DEFINE Right(used, k) == TakesAsManyAsItMisses(used, order, k, n)
           P == { k \in Nat : k <= n => Right(iter[1 .. k], k) }
<1>2. 0 \in P
  <2>1. 1 .. 0 = {} /\ {} \in SUBSET DOMAIN observed
    OBVIOUS
  <2>2. iter[1 .. 0] = {}
    BY <1>1, <2>1 DEF AlignedFold
  <2>3. Missed({}, order, 0) = {}
    BY <1>0 DEF Missed
  <2>4. TakesAsManyAsItMisses({}, order, 0, n)
    BY <2>3, FS_EmptySet DEF TakesAsManyAsItMisses
  <2> QED
    BY <2>2, <2>4
<1>3. ASSUME NEW k \in Nat, k \in P PROVE k + 1 \in P
  <2> SUFFICES ASSUME k + 1 <= n PROVE Right(iter[1 .. k + 1], k + 1)
    OBVIOUS
  <2>1. PICK l \in 1 .. n : l = k + 1 /\ l - 1 = k
    OBVIOUS
  <2>2. PICK used : used = iter[1 .. k] /\ TakesAsManyAsItMisses(used, order, k, n)
    BY <1>3
  <2>3. PICK next : next = iter[1 .. l]
    OBVIOUS
  <2>4. 1 .. l \in SUBSET (1 .. n) /\ 1 .. l # {}
    BY LastOfInterval
  <2>5. Max(1 .. l) = l /\ (1 .. l) \ {l} = 1 .. l - 1
    BY LastOfInterval
  <2>6. iter[1 .. l] = WithBest(observed[l], claimed, iter[(1 .. l) \ {l}])
    BY <1>0, <1>1, <2>4, <2>5 DEF AlignedFold
  <2>7. next = WithBest(observed[l], claimed, used)
    BY <2>1, <2>2, <2>3, <2>5, <2>6
  <2>8. PICK i0 \in 1 .. n : order[i0] = l
    BY DEF Bijection, Surjection
  <2>9. \A i \in 1 .. n : order[i] = k + 1 => i = i0
    <3> SUFFICES ASSUME NEW i \in 1 .. n, order[i] = l PROVE i = i0
      BY <2>1
    <3> QED
      BY <1>0, <2>8 DEF Bijection, Injection, IsInjective
  <2>10. observed[l] \in Tokens /\ StandsFor(observed[l], claimed[i0])
    BY <2>8
  <2>11. TakesAsManyAsItMisses(next, order, k + 1, n)
    BY <1>0, <2>2, <2>7, <2>9, <2>10, OneTokenMore
  <2> QED
    BY <2>1, <2>3, <2>11
<1>4. Nat \subseteq P
  <2> HIDE DEF P
  <2> QED
    BY <1>2, <1>3, NumbersByInduction
<1>5. PICK used : used = Aligned(observed, claimed) /\ TakesAsManyAsItMisses(used, order, n, n)
  BY <1>1, <1>4
<1>6. used \in SUBSET (1 .. n) /\ Cardinality(Missed(used, order, n)) <= Cardinality(used)
  BY <1>5 DEF TakesAsManyAsItMisses
<1>7. Missed(used, order, n) = (1 .. n) \ used
  BY <1>0 DEF Missed
<1>8. IsFiniteSet(1 .. n) /\ Cardinality(1 .. n) = n
  BY FS_Interval
<1>9. IsFiniteSet(used) /\ Cardinality(used) \in Nat /\ (1 .. n) \intersect used = used
  BY <1>6, <1>8, FS_Subset, FS_CardinalityType
<1>10. Cardinality((1 .. n) \ used) = n - Cardinality(used)
  <2>1. PICK all : all = 1 .. n
    OBVIOUS
  <2>2. Cardinality(all \ used) = Cardinality(all) - Cardinality(all \intersect used)
    BY <1>8, <2>1, FS_Difference
  <2> QED
    BY <1>8, <1>9, <2>1, <2>2
<1>11. n - Cardinality(used) <= Cardinality(used)
  BY <1>6, <1>7, <1>10
<1> QED
  BY <1>5, <1>9, <1>11

-----------------------------------------------------------------------------
(* Names *)

\* The greatest of some integers with an upper bound.
LEMMA MaxOfBounded ==
    ASSUME NEW S \in SUBSET Int, NEW top \in Int, \A x \in S : x <= top, NEW y \in S
    PROVE  Max(S) \in S /\ Max(S) >= y
<1> DEFINE left == { top - x : x \in S }
<1>1. left \subseteq Nat /\ left # {}
  <2>1. ASSUME NEW x \in S PROVE top - x \in Nat
    <3>1. x \in Int /\ x <= top
      OBVIOUS
    <3> QED
      BY <3>1
  <2> QED
    BY <2>1
<1>2. PICK least \in left : \A other \in left : least <= other
  <2> HIDE DEF left
  <2> QED
    BY <1>1, LeastOfNumbers
<1>3. PICK x0 \in S : least = top - x0
  BY <1>2
<1>4. ASSUME NEW x \in S PROVE x0 >= x
  <2>1. top - x \in left
    OBVIOUS
  <2>2. top - x0 <= top - x
    BY <1>2, <1>3, <2>1
  <2>3. x0 \in Int /\ x \in Int
    OBVIOUS
  <2> QED
    BY <2>2, <2>3
<1>5. PICK greatest \in S : greatest = Max(S) /\ \A x \in S : greatest >= x
  BY <1>4 DEF Max
<1> QED
  BY <1>5

\* The similarities of the rules that apply to two names.
Candidates(observed, claimed) ==
    LET sameInitials == LevenshteinRatio(Initials(observed), Initials(claimed)) >= Percent(85)
        typoRatio == LevenshteinRatio(FlattenSeq(observed), FlattenSeq(claimed))
        overlap == Jaccard(Range(observed), Range(claimed))
    IN { Alignment(observed, claimed) }
       \union (IF Reordered(observed, claimed) THEN { Percent(96) } ELSE {})
       \union (IF Len(observed) >= 2 /\ Len(claimed) >= 2 /\ sameInitials
               THEN { Percent(88) } ELSE {})
       \union (IF typoRatio >= Percent(72) THEN { typoRatio } ELSE {})
       \union (IF overlap >= Percent(60) /\ ~Reordered(observed, claimed)
               THEN { overlap } ELSE {})

\* The tokens of a name are finitely many.
LEMMA TokensAreFinite ==
    ASSUME NEW n \in Nat \ {0}, NEW name \in [1 .. n -> Tokens]
    PROVE  IsFiniteSet(Range(name)) /\ Range(name) # {}
<1>1. name \in Surjection(1 .. n, Range(name))
  BY DEF Surjection, Range
<1>2. IsFiniteSet(1 .. n)
  BY FS_Interval
<1>3. 1 \in DOMAIN name
  OBVIOUS
<1>4. name[1] \in Range(name)
  BY <1>3 DEF Range
<1> QED
  BY <1>1, <1>2, <1>4, FS_Surjection

\* The share of tokens in common is a number.
LEMMA OverlapIsNatural ==
    ASSUME NEW one, NEW other, IsFiniteSet(one), IsFiniteSet(other), one # {}
    PROVE  Jaccard(one, other) \in Nat
<1>1. PICK common \in Nat : common = Cardinality(one \intersect other)
  <2>1. one \intersect other \in SUBSET one
    OBVIOUS
  <2>2. IsFiniteSet(one \intersect other)
    BY <2>1, FS_Subset
  <2> QED
    BY <2>2, FS_CardinalityType
<1>2. PICK all \in Nat \ {0} : all = Cardinality(one \union other)
  <2>1. IsFiniteSet(one \union other)
    BY FS_Union
  <2>2. Cardinality(one \union other) # 0
    BY <2>1, FS_EmptySet
  <2> QED
    BY <2>1, <2>2, FS_CardinalityType
<1>3. (common * Unit) \div all \in Nat
  BY QuotientIsNatural
<1> QED
  BY <1>1, <1>2, <1>3 DEF Jaccard

\* The share of a count of half of n, in 84ths.
LEMMA ShareOfHalf ==
    ASSUME NEW n \in Nat \ {0}, NEW count \in Nat, n <= 2 * count
    PROVE  (count * 84) \div n \in Int /\ (count * 84) \div n >= 42
<1>1. PICK a \in Nat : a = count * 84
  OBVIOUS
<1>2. a >= 42 * n
  BY <1>1
<1>3. PICK q \in Int : q = a \div n /\ a < n * q + n
  OBVIOUS
<1>4. q >= 42
  <2> SUFFICES ASSUME q <= 41 PROVE FALSE
    OBVIOUS
  <2>1. PICK r \in Nat : r = 41 - q
    OBVIOUS
  <2>2. n * q = n * 41 - n * r
    BY <2>1
  <2>3. n * r >= 0
    OBVIOUS
  <2> QED
    BY <1>2, <1>3, <2>2, <2>3
<1> QED
  BY <1>1, <1>3, <1>4

\* Half of the tokens aligned are enough for a match.
LEMMA HalfAlignedIsEnough ==
    ASSUME NEW n \in Nat \ {0}, NEW observed \in [1 .. n -> Tokens], NEW claimed \in [1 .. n -> Tokens],
           NEW count \in Nat, count = Cardinality(Aligned(observed, claimed)), n <= 2 * count
    PROVE  Alignment(observed, claimed) \in Int /\ Alignment(observed, claimed) >= Percent(78)
<1>1. Len(observed) = n /\ Len(claimed) = n /\ Greatest(n, n) = n
  BY DEF Greatest
<1>2. Alignment(observed, claimed) = Least(Percent(98), Percent(70) + (count * Percent(28)) \div n)
  BY <1>1 DEF Alignment
<1>3. Percent(98) = 294 /\ Percent(70) = 210 /\ Percent(28) = 84 /\ Percent(78) = 234
  BY DEF Percent, Unit
<1>4. (count * 84) \div n \in Int /\ (count * 84) \div n >= 42
  BY ShareOfHalf
<1>5. PICK share \in Int : share = (count * 84) \div n /\ share >= 42
  BY <1>4
<1>6. Alignment(observed, claimed) = Least(294, 210 + share)
  BY <1>2, <1>3, <1>5
<1>7. Least(294, 210 + share) \in Int /\ Least(294, 210 + share) >= 234
  <2>1. 294 \in Int /\ 210 + share \in Int /\ 210 + share >= 234 /\ 294 >= 234
    BY <1>5
  <2>2. Least(294, 210 + share) \in { 294, 210 + share }
    BY DEF Least
  <2> QED
    BY <2>1, <2>2
<1> QED
  BY <1>3, <1>6, <1>7

\* A name in another order, with any token as a nickname or an initial, matches.
LEMMA VariantsMatch ==
    ASSUME NEW observed \in Seq(Tokens), NEW claimed \in Seq(Tokens),
           Len(observed) = Len(claimed),
           NEW order \in Bijection(DOMAIN claimed, DOMAIN claimed),
           \A i \in DOMAIN claimed : StandsFor(observed[order[i]], claimed[i])
    PROVE  CompareNamePair(observed, claimed) >= Percent(78)
<1>1. CASE observed = claimed
  BY <1>1 DEF CompareNamePair, Percent, Unit
<1>2. CASE observed # claimed
  <2>1. PICK n \in Nat : n = Len(claimed)
    OBVIOUS
  <2>2. observed \in [1 .. n -> Tokens] /\ claimed \in [1 .. n -> Tokens] /\ DOMAIN claimed = 1 .. n
    BY <2>1
  <2>3. n # 0
    BY <1>2, <2>1
  <2>4. order \in Bijection(1 .. n, 1 .. n) /\ \A i \in 1 .. n : StandsFor(observed[order[i]], claimed[i])
    BY <2>2
  <2>5. PICK count \in Nat : count = Cardinality(Aligned(observed, claimed)) /\ n <= 2 * count
    BY <2>2, <2>4, AlignmentTakesHalf
  <2>6. PICK alignment \in Int : alignment = Alignment(observed, claimed) /\ alignment >= Percent(78)
    BY <2>2, <2>3, <2>5, HalfAlignedIsEnough
  <2>7. PICK typoRatio \in Int :
            typoRatio = LevenshteinRatio(FlattenSeq(observed), FlattenSeq(claimed))
    <3>1. observed \in Seq(Seq(Nat)) /\ claimed \in Seq(Seq(Nat))
      <4>1. Tokens \subseteq Seq(Nat)
        BY DEF Tokens
      <4> QED
        BY <4>1, SeqMonotonic
    <3>2. FlattenSeq(observed) \in Seq(Nat) /\ FlattenSeq(claimed) \in Seq(Nat)
      BY <3>1, FlattenedSequence
    <3> QED
      BY <3>2, RatioIsAtMostUnit
  <2>8. PICK overlap \in Int : overlap = Jaccard(Range(observed), Range(claimed))
    <3>1. Jaccard(Range(observed), Range(claimed)) \in Nat
      BY <2>2, <2>3, TokensAreFinite, OverlapIsNatural
    <3> QED
      BY <3>1
  <2> DEFINE candidates == Candidates(observed, claimed)
             most == { alignment, typoRatio, overlap, Percent(96), Percent(88) }
  <2>9. candidates \subseteq most /\ alignment \in candidates
    BY <2>6, <2>7, <2>8 DEF Candidates
  <2>10. Percent(96) \in Int /\ Percent(88) \in Int /\ Percent(78) = 234
    BY DEF Percent, Unit
  <2>11. PICK top \in Int : \A x \in most : x <= top
    <3>1. PICK a \in Int : a = Greatest(alignment, typoRatio) /\ a >= alignment /\ a >= typoRatio
      BY DEF Greatest
    <3>2. PICK b \in Int : b = Greatest(a, overlap) /\ b >= a /\ b >= overlap
      BY DEF Greatest
    <3>3. PICK c \in Int : c = Greatest(b, Percent(96)) /\ c >= b /\ c >= Percent(96) /\ c >= Percent(88)
      BY DEF Percent, Unit, Greatest
    <3>4. \A x \in most : x <= c
      BY <2>10, <3>1, <3>2, <3>3, SMTT(30)
    <3> QED
      BY <3>4
  <2> HIDE DEF most
  <2>12. candidates \subseteq Int
    BY <2>9, <2>10 DEF most
  <2>13. CompareNamePair(observed, claimed) = IF candidates = {0}
             THEN LevenshteinRatio(FlattenSeq(observed), FlattenSeq(claimed)) ELSE Max(candidates)
    BY <1>2 DEF CompareNamePair, Candidates
  <2> HIDE DEF candidates
  <2>14. candidates # {0}
    BY <2>6, <2>9, <2>10
  <2>15. Max(candidates) \in candidates /\ Max(candidates) >= alignment
    BY <2>9, <2>11, <2>12, MaxOfBounded
  <2>16. PICK similarity \in Int : similarity = Max(candidates)
    BY <2>12, <2>15
  <2>17. similarity >= Percent(78)
    BY <2>6, <2>10, <2>15, <2>16
  <2> QED
    BY <2>13, <2>14, <2>16, <2>17
<1> QED
  BY <1>1, <1>2

\* The tolerance reaches the variants of a filed name, and ends at the domain.
THEOREM MatchingToleranceHasItsBounds == MatchingSpec => []ToleranceHasItsBounds
<1>1. MatchingInv => ToleranceHasItsBounds
  <2> SUFFICES ASSUME MatchingInv PROVE ToleranceHasItsBounds
    OBVIOUS
  <2>1. LegitimateVariantsMatch
    <3> SUFFICES ASSUME comparison.kind = "display_name", answer # "asked",
                        NEW filed \in { comparison.claimed } \union comparison.aliases,
                        NEW order \in Bijection(DOMAIN filed, DOMAIN filed),
                        Len(comparison.observed) = Len(filed),
                        \A i \in DOMAIN filed :
                            StandsFor(comparison.observed[order[i]], filed[i])
                 PROVE  answer = "matched"
      BY DEF LegitimateVariantsMatch, Answered, StandsFor
    <3>1. comparison \in NameComparisons
      BY DEF MatchingInv, NameComparisons, AddressComparisons
    <3>2. comparison.observed \in Names /\ filed \in Names
      <4>1. comparison.claimed \in Names /\ comparison.aliases \in Aliases
        BY <3>1 DEF NameComparisons
      <4> QED
        BY <3>1, <4>1, MatchingAssumption DEF NameComparisons
    <3>3. comparison.observed \in Seq(Tokens) /\ filed \in Seq(Tokens)
      BY <3>2, MatchingAssumption DEF Tokens
    <3>4. CompareNamePair(comparison.observed, filed) >= Percent(78)
      BY <3>3, VariantsMatch
    <3>5. Matches
      BY <3>4 DEF Matches, MatchIdentityField
    <3> QED
      BY <3>5 DEF MatchingInv
  <2>2. AddressesMatchWithinTheirDomain
    <3> SUFFICES ASSUME comparison.kind \in { "email", "calendar_invite" }, answer = "matched",
                        Parses(comparison.observed), Parses(comparison.claimed)
                 PROVE  comparison.observed.domain = comparison.claimed.domain
      BY DEF AddressesMatchWithinTheirDomain, Answered
    <3>1. Matches
      BY DEF MatchingInv
    <3> QED
      BY <3>1, DomainsBoundTheMatch
  <2> QED
    BY <2>1, <2>2 DEF ToleranceHasItsBounds
<1> QED
  BY <1>1, MatchingTypeCorrect, PTL

-----------------------------------------------------------------------------
(* Blocks *)

Sample == [rawProbability : 0 .. Grid, actualOutcome : {0, 1}]
Block == [xSum : Int, ySum : Int, count : Int]

\* How many of the first k samples have the outcome.
Ones(s, k) == Cardinality({ l \in 1 .. k : s[l].actualOutcome = 1 })

\* What holds of the block that samples i + 1 to j went into: its sums, and that
\* none of its beginnings has a lower mean outcome than the whole.
IsBlock(block, s, i, j) ==
    /\ block.count = j - i
    /\ block.ySum = Ones(s, j) - Ones(s, i)
    /\ block.count * s[i + 1].rawProbability <= block.xSum
    /\ block.xSum <= block.count * s[j].rawProbability
    /\ \A k \in i .. j : (Ones(s, k) - Ones(s, i)) * block.count >= block.ySum * (k - i)

\* A product of numbers that are not negative.
LEMMA ProductNotNegative ==
    ASSUME NEW a \in Int, NEW b \in Int, a >= 0, b >= 0
    PROVE  a * b >= 0
OBVIOUS

\* A factor of a product that is not negative.
LEMMA FactorNotNegative ==
    ASSUME NEW a \in Int, NEW b \in Int, a > 0, a * b >= 0
    PROVE  b >= 0
OBVIOUS

\* A beginning of the first of two blocks, the second of which has the lower
\* mean, has no lower mean than both together.
LEMMA BeginningOfFirst ==
    ASSUME NEW p \in Int, NEW pA \in Int, NEW yA \in Int, NEW cA \in Int, NEW yB \in Int, NEW cB \in Int,
           cA > 0, cB > 0, p >= 0, pA * cA >= yA * p, yB * cA < yA * cB
    PROVE  pA * (cA + cB) >= (yA + yB) * p
<1> DEFINE D == pA * (cA + cB) - (yA + yB) * p
<1>1. cA * D = (cA + cB) * (pA * cA - yA * p) + p * (yA * cB - yB * cA)
  OBVIOUS
<1>2. (cA + cB) * (pA * cA - yA * p) >= 0
  BY ProductNotNegative
<1>3. p * (yA * cB - yB * cA) >= 0
  BY ProductNotNegative
<1>4. D \in Int
  OBVIOUS
<1>5. D >= 0
  <2> HIDE DEF D
  <2> QED
    BY <1>1, <1>2, <1>3, <1>4, FactorNotNegative
<1> QED
  BY <1>5

\* Nor has the first block with a beginning of the second.
LEMMA BeginningOfSecond ==
    ASSUME NEW r \in Int, NEW q \in Int, NEW yA \in Int, NEW cA \in Int, NEW yB \in Int, NEW cB \in Int,
           cA > 0, cB > 0, r <= cB, q * cB >= yB * r, yB * cA < yA * cB
    PROVE  (yA + q) * (cA + cB) >= (yA + yB) * (cA + r)
<1> DEFINE D == (yA + q) * (cA + cB) - (yA + yB) * (cA + r)
<1>1. cB * D = (cA + cB) * (q * cB - yB * r) + (cB - r) * (yA * cB - yB * cA)
  OBVIOUS
<1>2. (cA + cB) * (q * cB - yB * r) >= 0
  BY ProductNotNegative
<1>3. (cB - r) * (yA * cB - yB * cA) >= 0
  BY ProductNotNegative
<1>4. D \in Int
  OBVIOUS
<1>5. D >= 0
  <2> HIDE DEF D
  <2> QED
    BY <1>1, <1>2, <1>3, <1>4, FactorNotNegative
<1> QED
  BY <1>5

\* The samples are sorted.
Rising(s) ==
    \A i, j \in DOMAIN s : i < j => s[i].rawProbability <= s[j].rawProbability

\* Outcomes are counted.
LEMMA OnesAreNatural ==
    ASSUME NEW n \in Nat, NEW s \in [1 .. n -> Sample], NEW k \in 0 .. n
    PROVE  Ones(s, k) \in Nat
<1> DEFINE with == { l \in 1 .. k : s[l].actualOutcome = 1 }
<1>1. IsFiniteSet(1 .. k) /\ with \in SUBSET (1 .. k)
  BY FS_Interval
<1>2. IsFiniteSet(with) /\ Cardinality(with) \in Nat
  BY <1>1, FS_Subset, FS_CardinalityType
<1> QED
  BY <1>2 DEF Ones

\* No sample, no outcome.
LEMMA NoSampleNoOutcome == \A s : Ones(s, 0) = 0
<1>1. \A s : { l \in 1 .. 0 : s[l].actualOutcome = 1 } = {}
  OBVIOUS
<1> QED
  BY <1>1, FS_EmptySet DEF Ones

\* The outcomes of one sample more.
LEMMA OneSampleMore ==
    ASSUME NEW n \in Nat, NEW s \in [1 .. n -> Sample], NEW k \in 1 .. n
    PROVE  Ones(s, k) = Ones(s, k - 1) + s[k].actualOutcome
<1> DEFINE before == { l \in 1 .. k - 1 : s[l].actualOutcome = 1 }
           after == { l \in 1 .. k : s[l].actualOutcome = 1 }
<1>1. IsFiniteSet(1 .. k - 1) /\ before \in SUBSET (1 .. k - 1)
  BY FS_Interval
<1>2. IsFiniteSet(before) /\ Cardinality(before) \in Nat
  BY <1>1, FS_Subset, FS_CardinalityType
<1>3. s[k].actualOutcome \in {0, 1}
  BY DEF Sample
<1>4. CASE s[k].actualOutcome = 1
  <2>1. after = before \union {k} /\ k \notin before
    BY <1>4
  <2>2. Cardinality(after) = Cardinality(before) + 1
    <3> HIDE DEF before, after
    <3> QED
      BY <1>2, <2>1, FS_AddElement
  <2> QED
    BY <1>4, <2>2 DEF Ones
<1>5. CASE s[k].actualOutcome = 0
  <2>1. after = before
    BY <1>5
  <2>2. Cardinality(after) = Cardinality(before) + 0
    <3> HIDE DEF before, after
    <3> QED
      BY <1>2, <2>1
  <2> QED
    BY <1>5, <2>2 DEF Ones
<1> QED
  BY <1>3, <1>4, <1>5

\* The outcomes of the samples i to j.
LEMMA OutcomesBetween ==
    ASSUME NEW n \in Nat, NEW s \in [1 .. n -> Sample], NEW i \in 1 .. n, NEW j \in i .. n
    PROVE  Cardinality({ k \in i .. j : s[k].actualOutcome = 1 }) = Ones(s, j) - Ones(s, i - 1)
<1> DEFINE all == { l \in 1 .. j : s[l].actualOutcome = 1 }
           first == { l \in 1 .. i - 1 : s[l].actualOutcome = 1 }
           rest == { k \in i .. j : s[k].actualOutcome = 1 }
<1>1. IsFiniteSet(1 .. j) /\ all \in SUBSET (1 .. j)
  BY FS_Interval
<1>2. IsFiniteSet(all)
  BY <1>1, FS_Subset
<1>3. rest = all \ first /\ all \intersect first = first
  OBVIOUS
<1> HIDE DEF all, first, rest
<1>4. Cardinality(all \ first) = Cardinality(all) - Cardinality(all \intersect first)
  BY <1>2, FS_Difference
<1> QED
  BY <1>3, <1>4 DEF Ones, all, first, rest

\* A block of one sample.
LEMMA SingleBlock ==
    ASSUME NEW n \in Nat, NEW s \in [1 .. n -> Sample], NEW j \in 1 .. n, NEW block,
           block = [xSum |-> s[j].rawProbability, ySum |-> s[j].actualOutcome, count |-> 1]
    PROVE  IsBlock(block, s, j - 1, j)
<1>1. Ones(s, j) = Ones(s, j - 1) + s[j].actualOutcome /\ Ones(s, j) \in Nat /\ Ones(s, j - 1) \in Nat
  <2>1. Ones(s, j) = Ones(s, j - 1) + s[j].actualOutcome
    BY OneSampleMore
  <2>2. PICK l \in 0 .. n : l = j - 1
    OBVIOUS
  <2>3. Ones(s, l) \in Nat /\ Ones(s, j) \in Nat
    <3>1. j \in 0 .. n
      OBVIOUS
    <3> QED
      BY <3>1, OnesAreNatural
  <2> QED
    BY <2>1, <2>2, <2>3
<1>2. s[j].actualOutcome \in Int /\ s[j].rawProbability \in Int
  BY DEF Sample
<1>3. block.count = 1 /\ block.ySum = s[j].actualOutcome /\ block.xSum = s[j].rawProbability
  OBVIOUS
<1>4. ASSUME NEW k \in j - 1 .. j
      PROVE  (Ones(s, k) - Ones(s, j - 1)) * block.count >= block.ySum * (k - (j - 1))
  <2>1. CASE k = j
    BY <1>1, <1>2, <1>3, <2>1
  <2>2. CASE k = j - 1
    BY <1>1, <1>2, <1>3, <2>2
  <2> QED
    BY <2>1, <2>2
<1>5. (j - 1) + 1 = j
  OBVIOUS
<1> QED
  BY <1>1, <1>2, <1>3, <1>4, <1>5 DEF IsBlock

Pooled(a, b) ==
    [xSum |-> a.xSum + b.xSum, ySum |-> a.ySum + b.ySum, count |-> a.count + b.count]

\* Two neighbours pooled, the second of which has the lower mean.
LEMMA PooledBlock ==
    ASSUME NEW n \in Nat, NEW s \in [1 .. n -> Sample], Rising(s),
           NEW i \in 0 .. n, NEW j \in 0 .. n, NEW k \in 0 .. n, i < j, j < k,
           NEW a \in Block, NEW b \in Block, IsBlock(a, s, i, j), IsBlock(b, s, j, k),
           b.ySum * a.count < a.ySum * b.count
    PROVE  Pooled(a, b) \in Block /\ IsBlock(Pooled(a, b), s, i, k)
<1>1. PICK yA \in Int, cA \in Int, xA \in Int : yA = a.ySum /\ cA = a.count /\ xA = a.xSum
  BY DEF Block
<1>2. PICK yB \in Int, cB \in Int, xB \in Int : yB = b.ySum /\ cB = b.count /\ xB = b.xSum
  BY DEF Block
<1>3. ASSUME NEW l \in 0 .. n PROVE Ones(s, l) \in Int
  <2>1. Ones(s, l) \in Nat
    BY OnesAreNatural
  <2> QED
    BY <2>1
<1>4. cA = j - i /\ cB = k - j
  BY <1>1, <1>2 DEF IsBlock
<1>5. yA = Ones(s, j) - Ones(s, i) /\ yB = Ones(s, k) - Ones(s, j)
  BY <1>1, <1>2 DEF IsBlock
<1>6. yB * cA < yA * cB
  BY <1>1, <1>2
<1>7. cA > 0 /\ cB > 0 /\ cA + cB = k - i
  BY <1>4
<1>8. yA + yB = Ones(s, k) - Ones(s, i)
  BY <1>3, <1>5, SMTT(30)
<1>9. ASSUME NEW l \in i .. k
      PROVE  (Ones(s, l) - Ones(s, i)) * (cA + cB) >= (yA + yB) * (l - i)
  <2>1. CASE l <= j
    <3>1. l \in i .. j /\ l \in 0 .. n
      BY <2>1
    <3>2. PICK p \in Int : p = l - i /\ p >= 0
      OBVIOUS
    <3>3. PICK pA \in Int : pA = Ones(s, l) - Ones(s, i)
      BY <1>3, <3>1
    <3>4. (Ones(s, l) - Ones(s, i)) * a.count >= a.ySum * (l - i)
      BY <3>1 DEF IsBlock
    <3>5. pA * cA >= yA * p
      BY <1>1, <3>2, <3>3, <3>4
    <3>6. pA * (cA + cB) >= (yA + yB) * p
      BY <1>6, <1>7, <3>2, <3>5, BeginningOfFirst
    <3> QED
      BY <3>2, <3>3, <3>6
  <2>2. CASE l >= j
    <3>1. l \in j .. k /\ l \in 0 .. n
      BY <2>2
    <3>2. PICK r \in Int : r = l - j /\ r <= cB /\ cA + r = l - i
      BY <1>4
    <3>3. PICK q \in Int : q = Ones(s, l) - Ones(s, j)
      BY <1>3, <3>1
    <3>7. yA + q = Ones(s, l) - Ones(s, i)
      <4>1. PICK oi \in Int, oj \in Int, ol \in Int :
                oi = Ones(s, i) /\ oj = Ones(s, j) /\ ol = Ones(s, l)
        BY <1>3, <3>1
      <4>2. yA = oj - oi /\ q = ol - oj
        BY <1>5, <3>3, <4>1
      <4> QED
        BY <4>1, <4>2
    <3>4. (Ones(s, l) - Ones(s, j)) * b.count >= b.ySum * (l - j)
      BY <3>1 DEF IsBlock
    <3>5. q * cB >= yB * r
      BY <1>2, <3>2, <3>3, <3>4
    <3>6. (yA + q) * (cA + cB) >= (yA + yB) * (cA + r)
      BY <1>6, <1>7, <3>2, <3>5, BeginningOfSecond
    <3> QED
      BY <3>2, <3>6, <3>7
  <2> QED
    BY <2>1, <2>2
<1>10. PICK low \in Int, mid1 \in Int, mid2 \in Int, high \in Int :
           /\ low = s[i + 1].rawProbability /\ mid1 = s[j].rawProbability
           /\ mid2 = s[j + 1].rawProbability /\ high = s[k].rawProbability
           /\ low <= mid2 /\ mid1 <= high
  <2>1. i + 1 \in DOMAIN s /\ j \in DOMAIN s /\ j + 1 \in DOMAIN s /\ k \in DOMAIN s
    OBVIOUS
  <2>2. \A l \in DOMAIN s : s[l].rawProbability \in Int
    BY DEF Sample
  <2>3. s[i + 1].rawProbability <= s[j + 1].rawProbability /\ s[j].rawProbability <= s[k].rawProbability
    BY <2>1 DEF Rising
  <2> QED
    BY <2>1, <2>2, <2>3
<1>11. cA * low <= xA /\ xA <= cA * mid1 /\ cB * mid2 <= xB /\ xB <= cB * high
  BY <1>1, <1>2, <1>10 DEF IsBlock
<1>12. cB * (mid2 - low) >= 0 /\ cA * (high - mid1) >= 0
  <2>1. cA >= 0 /\ cB >= 0
    BY <1>7
  <2>2. mid2 - low >= 0 /\ high - mid1 >= 0
    BY <1>10, SMTT(30)
  <2> QED
    BY <2>1, <2>2, ProductNotNegative
<1>13. (cA + cB) * low <= xA + xB /\ xA + xB <= (cA + cB) * high
  <2>1. cB * mid2 >= cB * low /\ cA * high >= cA * mid1
    BY <1>12
  <2> QED
    BY <1>11, <2>1
<1>14. Pooled(a, b) = [xSum |-> xA + xB, ySum |-> yA + yB, count |-> cA + cB]
  BY <1>1, <1>2 DEF Pooled
<1> QED
  BY <1>7, <1>8, <1>9, <1>10, <1>13, <1>14 DEF IsBlock, Block

-----------------------------------------------------------------------------
(* The blocks cut the samples into intervals *)

\* The means of two blocks are in order.
InOrder(a, b) == a.ySum * b.count <= b.ySum * a.count

\* m blocks of the first n samples, e[b] being the last sample of block b.
Cut(e, m, n) ==
    /\ e \in [0 .. m -> 0 .. n]
    /\ e[0] = 0 /\ e[m] = n
    /\ \A b \in 1 .. m : e[b - 1] < e[b]

\* The blocks are those of such a cut, and those before place i are in order.
Fit(e, s, bs, i) ==
    /\ Cut(e, Len(bs), Len(s))
    /\ \A b \in 1 .. Len(bs) : IsBlock(bs[b], s, e[b - 1], e[b])
    /\ \A b \in 2 .. Len(bs) : b < i => InOrder(bs[b - 1], bs[b])

\* t is s without its element i.
IsWithout(t, s, i) ==
    /\ Len(t) = Len(s) - 1
    /\ \A j \in 1 .. Len(s) - 1 : t[j] = IF j < i THEN s[j] ELSE s[j + 1]

\* RemoveAt takes out one element.
LEMMA RemoveAtPlaces ==
    ASSUME NEW S, NEW s \in Seq(S), NEW i \in 1 .. Len(s), NEW t, t = RemoveAt(s, i)
    PROVE  t \in Seq(S) /\ IsWithout(t, s, i)
<1> DEFINE left == SubSeq(s, 1, i - 1)
           right == SubSeq(s, i + 1, Len(s))
<1>1. /\ left \in Seq(S) /\ Len(left) = i - 1
      /\ \A j \in 1 .. i - 1 : left[j] = s[j]
  <2>1. \A j \in 1 .. i - 1 : s[j] \in S
    OBVIOUS
  <2>2. /\ left \in Seq(S) /\ Len(left) = IF 1 <= i - 1 THEN (i - 1) - 1 + 1 ELSE 0
        /\ \A j \in 1 .. (i - 1) - 1 + 1 : left[j] = s[1 + j - 1]
    BY <2>1, SubSeqProperties
  <2> QED
    BY <2>2
<1>2. /\ right \in Seq(S) /\ Len(right) = Len(s) - i
      /\ \A j \in 1 .. Len(s) - i : right[j] = s[j + i]
  <2>1. \A j \in i + 1 .. Len(s) : s[j] \in S
    OBVIOUS
  <2>2. /\ right \in Seq(S)
        /\ Len(right) = IF i + 1 <= Len(s) THEN Len(s) - (i + 1) + 1 ELSE 0
        /\ \A j \in 1 .. Len(s) - (i + 1) + 1 : right[j] = s[i + 1 + j - 1]
    BY <2>1, SubSeqProperties
  <2> QED
    BY <2>2
<1>3. t = left \o right
  BY DEF RemoveAt
<1> HIDE DEF left, right
<1>4. /\ t \in Seq(S) /\ Len(t) = Len(left) + Len(right)
      /\ \A j \in 1 .. Len(left) + Len(right) :
             t[j] = IF j <= Len(left) THEN left[j] ELSE right[j - Len(left)]
  <2>1. left \in Seq(S) /\ right \in Seq(S)
    BY <1>1, <1>2
  <2>2. /\ left \o right \in Seq(S) /\ Len(left \o right) = Len(left) + Len(right)
        /\ \A j \in 1 .. Len(left) + Len(right) :
               (left \o right)[j] = IF j <= Len(left) THEN left[j] ELSE right[j - Len(left)]
    BY <2>1, ConcatProperties
  <2> QED
    BY <1>3, <2>2
<1>5. Len(t) = Len(s) - 1
  BY <1>1, <1>2, <1>4
<1>6. ASSUME NEW j \in 1 .. Len(s) - 1 PROVE t[j] = IF j < i THEN s[j] ELSE s[j + 1]
  <2>1. CASE j < i
    <3>1. j \in 1 .. i - 1 /\ j <= Len(left) /\ j \in 1 .. Len(left) + Len(right)
      BY <1>1, <1>2, <2>1
    <3>2. t[j] = left[j]
      BY <1>4, <3>1
    <3> QED
      BY <1>1, <2>1, <3>1, <3>2
  <2>2. CASE ~(j < i)
    <3>1. PICK r \in 1 .. Len(s) - i : r = j - (i - 1) /\ r + i = j + 1
      BY <2>2
    <3>2. ~(j <= Len(left)) /\ j \in 1 .. Len(left) + Len(right) /\ j - Len(left) = r
      BY <1>1, <1>2, <2>2, <3>1
    <3>3. t[j] = right[r]
      BY <1>4, <3>2
    <3> QED
      BY <1>2, <2>2, <3>1, <3>3
  <2> QED
    BY <2>1, <2>2
<1> QED
  BY <1>4, <1>5, <1>6 DEF IsWithout

\* At first every sample is a block.
LEMMA FirstFit ==
    ASSUME NEW n \in Nat, NEW s \in [1 .. n -> Sample], NEW bs,
           bs = [i \in DOMAIN s |-> [xSum |-> s[i].rawProbability, ySum |-> s[i].actualOutcome,
                                     count |-> 1]]
    PROVE  bs \in Seq(Block) /\ Len(bs) = n /\ \E e : Fit(e, s, bs, 1)
<1>1. bs \in [1 .. n -> Block]
  BY DEF Sample, Block
<1>2. bs \in Seq(Block) /\ Len(bs) = n /\ Len(s) = n
  BY <1>1
<1> DEFINE e == [b \in 0 .. n |-> b]
<1>3. Cut(e, n, n)
  BY DEF Cut
<1>4. ASSUME NEW b \in 1 .. n PROVE IsBlock(bs[b], s, e[b - 1], e[b])
  <2>1. PICK block : block = bs[b]
    OBVIOUS
  <2>2. block = [xSum |-> s[b].rawProbability, ySum |-> s[b].actualOutcome, count |-> 1]
    BY <2>1
  <2>3. IsBlock(block, s, b - 1, b)
    BY <2>2, SingleBlock
  <2>4. e[b - 1] = b - 1 /\ e[b] = b
    OBVIOUS
  <2> QED
    BY <2>1, <2>3, <2>4
<1>5. Fit(e, s, bs, 1)
  <2> HIDE DEF e
  <2> QED
    BY <1>2, <1>3, <1>4 DEF Fit
<1> QED
  BY <1>2, <1>5

\* new is bs with its elements j and j + 1 replaced by pooled.
IsPooled(new, bs, j, pooled) ==
    /\ Len(new) = Len(bs) - 1
    /\ \A l \in 1 .. Len(bs) - 1 : /\ l < j => new[l] = bs[l]
                                   /\ l = j => new[l] = pooled
                                   /\ l > j => new[l] = bs[l + 1]

\* Pool replaces two blocks by one.
LEMMA PooledPlaces ==
    ASSUME NEW m \in Nat, NEW bs \in [1 .. m -> Block], NEW j \in 1 .. m, NEW i \in 1 .. m, i = j + 1,
           NEW pooled \in Block, NEW new, new = RemoveAt([bs EXCEPT ![j] = pooled], i)
    PROVE  new \in Seq(Block) /\ IsPooled(new, bs, j, pooled)
<1>1. PICK mid : mid = [bs EXCEPT ![j] = pooled]
  OBVIOUS
<1>2. /\ mid \in Seq(Block) /\ Len(mid) = m
      /\ mid[j] = pooled /\ \A l \in 1 .. m : l # j => mid[l] = bs[l]
  <2>1. mid \in [1 .. m -> Block]
    BY <1>1
  <2> QED
    BY <1>1, <2>1
<1>3. new = RemoveAt(mid, i) /\ i \in 1 .. Len(mid)
  BY <1>1, <1>2
<1>4. new \in Seq(Block) /\ IsWithout(new, mid, i)
  BY <1>2, <1>3, RemoveAtPlaces
<1>5. Len(new) = m - 1 /\ \A l \in 1 .. m - 1 : new[l] = IF l < i THEN mid[l] ELSE mid[l + 1]
  BY <1>2, <1>4 DEF IsWithout
<1>6. ASSUME NEW l \in 1 .. m - 1, l < j PROVE new[l] = bs[l]
  <2>1. l < i /\ l # j /\ l \in 1 .. m
    BY <1>6
  <2> QED
    BY <1>2, <1>5, <2>1
<1>7. ASSUME NEW l \in 1 .. m - 1, l = j PROVE new[l] = pooled
  <2>1. l < i
    BY <1>7
  <2> QED
    BY <1>2, <1>5, <1>7, <2>1
<1>8. ASSUME NEW l \in 1 .. m - 1, l > j PROVE new[l] = bs[l + 1]
  <2>1. ~(l < i) /\ l + 1 # j /\ l + 1 \in 1 .. m
    BY <1>8
  <2> QED
    BY <1>2, <1>5, <2>1
<1>9. Len(bs) = m
  OBVIOUS
<1> QED
  BY <1>4, <1>5, <1>6, <1>7, <1>8, <1>9 DEF IsPooled

\* The cut without its end j.
Joined(e, m, j) == [l \in 0 .. m - 1 |-> IF l < j THEN e[l] ELSE e[l + 1]]

\* It is a cut.
LEMMA JoinedCut ==
    ASSUME NEW n \in Nat, NEW m \in Nat, NEW e, Cut(e, m, n), NEW j \in 1 .. m - 1
    PROVE  Cut(Joined(e, m, j), m - 1, n)
<1> DEFINE f == Joined(e, m, j)
<1>1. e \in [0 .. m -> 0 .. n] /\ e[0] = 0 /\ e[m] = n /\ \A l \in 1 .. m : e[l - 1] < e[l]
  BY DEF Cut
<1>2. f \in [0 .. m - 1 -> 0 .. n]
  BY <1>1 DEF Joined
<1>3. f[0] = 0 /\ f[m - 1] = n
  BY <1>1 DEF Joined
<1>4. ASSUME NEW l \in 1 .. m - 1 PROVE f[l - 1] < f[l]
  <2>1. l \in 1 .. m /\ l + 1 \in 1 .. m /\ (l + 1) - 1 = l
    OBVIOUS
  <2>2. e[l - 1] < e[l] /\ e[l] < e[l + 1]
    BY <1>1, <2>1
  <2>3. e[l - 1] \in Int /\ e[l] \in Int /\ e[l + 1] \in Int
    BY <1>1, <2>1
  <2>4. f[l] = IF l < j THEN e[l] ELSE e[l + 1]
    BY DEF Joined
  <2>5. f[l - 1] = IF l - 1 < j THEN e[l - 1] ELSE e[l]
    BY DEF Joined
  <2> QED
    BY <2>2, <2>3, <2>4, <2>5
<1> QED
  BY <1>2, <1>3, <1>4 DEF Cut

\* The means of two neighbours are out of order.
OutOfOrder(a, b) == b.ySum * a.count < a.ySum * b.count

\* The blocks j and i pooled.
Merged(bs, j, i) == RemoveAt([bs EXCEPT ![j] = Pooled(bs[j], bs[i])], i)

\* Two neighbours pooled leave a fit.
LEMMA PooledFit ==
    ASSUME NEW n \in Nat, NEW s \in [1 .. n -> Sample], Rising(s),
           NEW m \in Nat, NEW bs \in [1 .. m -> Block], NEW e,
           NEW j \in 1 .. m, NEW i \in 1 .. m, i = j + 1, Fit(e, s, bs, i),
           OutOfOrder(bs[j], bs[i]),
           NEW new, new = Merged(bs, j, i)
    PROVE  new \in Seq(Block) /\ Len(new) = m - 1 /\ \E f : Fit(f, s, new, j)
<1>1. Len(s) = n /\ Len(bs) = m
  OBVIOUS
<1>2. Cut(e, m, n) /\ \A b \in 1 .. m : IsBlock(bs[b], s, e[b - 1], e[b])
  BY <1>1 DEF Fit
<1>3. PICK a \in Block, b \in Block : a = bs[j] /\ b = bs[i]
  OBVIOUS
<1>4. PICK ei \in 0 .. n, ej \in 0 .. n, ek \in 0 .. n :
          ei = e[j - 1] /\ ej = e[j] /\ ek = e[i] /\ ei < ej /\ ej < ek
  <2>1. j - 1 \in 0 .. m /\ j \in 0 .. m /\ i \in 0 .. m /\ i - 1 = j
    OBVIOUS
  <2>2. e[j - 1] < e[j] /\ e[i - 1] < e[i]
    BY <1>2 DEF Cut
  <2> QED
    BY <1>2, <2>1, <2>2 DEF Cut
<1>5. PICK pooled : pooled = Pooled(a, b)
  OBVIOUS
<1>6. pooled \in Block /\ IsBlock(pooled, s, ei, ek)
  <2>1. IsBlock(a, s, ei, ej)
    BY <1>2, <1>3, <1>4
  <2>2. IsBlock(b, s, ej, ek)
    <3>1. i - 1 = j /\ IsBlock(bs[i], s, e[i - 1], e[i])
      BY <1>2
    <3> QED
      BY <1>3, <1>4, <3>1
  <2>3. b.ySum * a.count < a.ySum * b.count
    BY <1>3 DEF OutOfOrder
  <2>4. Pooled(a, b) \in Block /\ IsBlock(Pooled(a, b), s, ei, ek)
    BY <1>4, <2>1, <2>2, <2>3, PooledBlock
  <2> QED
    BY <1>5, <2>4
<1>7. new = RemoveAt([bs EXCEPT ![j] = pooled], i)
  BY <1>3, <1>5 DEF Merged
<1>8. new \in Seq(Block) /\ IsPooled(new, bs, j, pooled)
  BY <1>6, <1>7, PooledPlaces
<1>9. /\ Len(new) = m - 1
      /\ \A l \in 1 .. m - 1 : /\ l < j => new[l] = bs[l]
                               /\ l = j => new[l] = pooled
                               /\ l > j => new[l] = bs[l + 1]
  BY <1>1, <1>8 DEF IsPooled
<1>10. PICK f : f = Joined(e, m, j)
  OBVIOUS
<1>11. Cut(f, m - 1, n)
  <2>1. j \in 1 .. m - 1
    OBVIOUS
  <2> QED
    BY <1>2, <1>10, <2>1, JoinedCut
<1>12. ASSUME NEW l \in 1 .. m - 1 PROVE IsBlock(new[l], s, f[l - 1], f[l])
  <2>1. CASE l < j
    <3>1. f[l - 1] = e[l - 1] /\ f[l] = e[l]
      BY <1>10, <2>1 DEF Joined
    <3>2. new[l] = bs[l]
      BY <1>9, <2>1
    <3> QED
      BY <1>2, <3>1, <3>2
  <2>2. CASE l = j
    <3>1. f[l - 1] = ei /\ f[l] = ek
      BY <1>4, <1>10, <2>2 DEF Joined
    <3>2. new[l] = pooled
      BY <1>9, <2>2
    <3> QED
      BY <1>6, <3>1, <3>2
  <2>3. CASE l > j
    <3>1. f[l - 1] = e[l] /\ f[l] = e[l + 1]
      BY <1>10, <2>3 DEF Joined
    <3>2. new[l] = bs[l + 1]
      BY <1>9, <2>3
    <3>3. l + 1 \in 1 .. m /\ (l + 1) - 1 = l
      OBVIOUS
    <3>4. IsBlock(bs[l + 1], s, e[(l + 1) - 1], e[l + 1])
      BY <1>2, <3>3
    <3> QED
      BY <3>1, <3>2, <3>3, <3>4
  <2> QED
    BY <2>1, <2>2, <2>3
<1>13. ASSUME NEW l \in 2 .. m - 1, l < j PROVE InOrder(new[l - 1], new[l])
  <2>1. l \in 1 .. m - 1 /\ l - 1 \in 1 .. m - 1 /\ l - 1 < j /\ l < i
    BY <1>13
  <2>2. new[l - 1] = bs[l - 1] /\ new[l] = bs[l]
    BY <1>9, <1>13, <2>1
  <2>3. InOrder(bs[l - 1], bs[l])
    BY <1>1, <2>1 DEF Fit
  <2> QED
    BY <2>2, <2>3
<1>14. Fit(f, s, new, j)
  BY <1>1, <1>9, <1>11, <1>12, <1>13 DEF Fit
<1> QED
  BY <1>8, <1>9, <1>14

-----------------------------------------------------------------------------
(* Every step keeps a fit *)

\* The samples are sorted, and the blocks cut them into intervals whose sums they
\* hold; no beginning of a block has a lower mean than the block; and the blocks
\* before index are in order.
CalibrationInv ==
    /\ \E n \in Nat : samples \in [1 .. n -> Sample]
    /\ Rising(samples)
    /\ blocks \in Seq(Block)
    /\ index \in 1 .. Len(blocks) + 1
    /\ \E e : Fit(e, samples, blocks, index)

\* At first.
LEMMA CalibrationStarts == CalibrationInit => CalibrationInv
<1> SUFFICES ASSUME CalibrationInit PROVE CalibrationInv
  OBVIOUS
<1>1. PICK n \in 0 .. MaxSamples : samples \in [1 .. n -> Sample]
  BY DEF CalibrationInit, Sample
<1>2. n \in Nat
  BY <1>1, CalibrationAssumption DEF CalibrationAssumption
<1>3. Rising(samples)
  BY DEF CalibrationInit, Rising
<1>4. blocks = [i \in DOMAIN samples |-> [xSum |-> samples[i].rawProbability,
                                          ySum |-> samples[i].actualOutcome, count |-> 1]]
  BY DEF CalibrationInit
<1>5. blocks \in Seq(Block) /\ Len(blocks) = n /\ \E e : Fit(e, samples, blocks, 1)
  BY <1>1, <1>2, <1>4, FirstFit
<1>6. index = 1
  BY DEF CalibrationInit
<1> QED
  BY <1>1, <1>2, <1>3, <1>5, <1>6 DEF CalibrationInv

\* Pool keeps the invariant: the pooled block has sums and beginnings as it should,
\* and the loop is back behind the blocks that are still in order.
LEMMA PoolKeepsFit == CalibrationInv /\ Pool => CalibrationInv'
<1> SUFFICES ASSUME CalibrationInv, Pool PROVE CalibrationInv'
  OBVIOUS
<1>1. PICK n \in Nat : samples \in [1 .. n -> Sample]
  BY DEF CalibrationInv
<1>2. PICK m \in Nat : m = Len(blocks) /\ blocks \in [1 .. m -> Block]
  BY DEF CalibrationInv
<1>3. PICK e : Fit(e, samples, blocks, index)
  BY DEF CalibrationInv
<1>4. index \in 1 .. m /\ index > 1
  BY <1>2 DEF CalibrationInv, Pool, Violates
<1>5. PICK j \in 1 .. m : j = index - 1 /\ index = j + 1
  BY <1>4
<1>6. OutOfOrder(blocks[j], blocks[index])
  BY <1>5 DEF Pool, Violates, OutOfOrder
<1>7. blocks' = Merged(blocks, j, index)
  BY <1>5 DEF Pool, Pooled, Merged
<1>8. PICK new : new = blocks'
  OBVIOUS
<1>9. new \in Seq(Block) /\ Len(new) = m - 1 /\ \E f : Fit(f, samples, new, j)
  <2>1. PICK s \in [1 .. n -> Sample], bs \in [1 .. m -> Block], i \in 1 .. m :
            s = samples /\ bs = blocks /\ i = index
    BY <1>1, <1>2, <1>4
  <2>2. new = Merged(bs, j, i)
    BY <1>7, <1>8, <2>1
  <2>3. Rising(s)
    BY <2>1 DEF CalibrationInv
  <2>4. Fit(e, s, bs, i) /\ OutOfOrder(bs[j], bs[i]) /\ i = j + 1
    BY <1>3, <1>5, <1>6, <2>1
  <2>5. new \in Seq(Block) /\ Len(new) = m - 1 /\ \E f : Fit(f, s, new, j)
    BY <2>2, <2>3, <2>4, PooledFit
  <2> QED
    BY <2>1, <2>5
<1>10. index' = j /\ samples' = samples
  BY <1>5 DEF Pool, StepBack
<1>11. index' \in 1 .. Len(blocks') + 1
  BY <1>4, <1>5, <1>8, <1>9, <1>10
<1>12. Rising(samples)'
  BY <1>10 DEF CalibrationInv, Rising
<1>13. \E f : Fit(f, samples', blocks', index')
  BY <1>8, <1>9, <1>10
<1>14. (\E l \in Nat : samples \in [1 .. l -> Sample])'
  BY <1>1, <1>10 DEF Sample
<1>15. (blocks \in Seq(Block))'
  BY <1>8, <1>9 DEF Block
<1> QED
  BY <1>11, <1>12, <1>13, <1>14, <1>15 DEF CalibrationInv, Fit

\* Advance passes a block that is in order with the one before it.
LEMMA AdvanceKeepsFit == CalibrationInv /\ Advance => CalibrationInv'
<1> SUFFICES ASSUME CalibrationInv, Advance PROVE CalibrationInv'
  OBVIOUS
<1>1. PICK m \in Nat : m = Len(blocks) /\ blocks \in [1 .. m -> Block]
  BY DEF CalibrationInv
<1>2. PICK e : Fit(e, samples, blocks, index)
  BY DEF CalibrationInv
<1>3. index \in 1 .. m /\ index' = index + 1 /\ samples' = samples /\ blocks' = blocks
  BY <1>1 DEF CalibrationInv, Advance
<1>4. ASSUME index > 1 PROVE InOrder(blocks[index - 1], blocks[index])
  <2>1. index - 1 \in 1 .. m
    BY <1>3, <1>4
  <2>2. PICK a \in Block, b \in Block : a = blocks[index - 1] /\ b = blocks[index]
    BY <1>1, <1>3, <2>1
  <2>3. ~(b.ySum * a.count < a.ySum * b.count)
    BY <1>4, <2>2 DEF Advance, Violates
  <2>4. PICK left \in Int, right \in Int : left = b.ySum * a.count /\ right = a.ySum * b.count
    BY <2>2 DEF Block
  <2>5. InOrder(a, b)
    BY <2>3, <2>4 DEF InOrder
  <2> QED
    BY <2>2, <2>5
<1>5. ASSUME NEW b \in 2 .. m, b < index + 1 PROVE InOrder(blocks[b - 1], blocks[b])
  <2>1. CASE b < index
    BY <1>1, <1>2, <2>1 DEF Fit
  <2>2. CASE b = index
    BY <1>4, <2>2
  <2> QED
    BY <1>3, <1>5, <2>1, <2>2
<1>6. Fit(e, samples, blocks, index + 1)
  BY <1>1, <1>2, <1>5 DEF Fit
<1>7. index + 1 \in 1 .. Len(blocks) + 1
  BY <1>1, <1>3
<1>8. \E f : Fit(f, samples', blocks', index')
  BY <1>3, <1>6
<1>9. index' \in 1 .. Len(blocks') + 1
  BY <1>3, <1>7
<1>10. Rising(samples)' /\ (\E l \in Nat : samples \in [1 .. l -> Sample])' /\ (blocks \in Seq(Block))'
  BY <1>3 DEF CalibrationInv, Rising, Sample, Block
<1> QED
  BY <1>8, <1>9, <1>10 DEF CalibrationInv, Fit

\* fitIsotonicRegression's loop always has blocks that cut the sorted samples into
\* intervals and hold their sums, those it has passed being in order.
THEOREM CalibrationKeepsFit == CalibrationSpec => []CalibrationInv
<1>1. CalibrationInv /\ UNCHANGED calibrationVars => CalibrationInv'
  BY DEF CalibrationInv, calibrationVars, Rising, Sample, Block, Fit
<1>2. CalibrationInv /\ [CalibrationNext]_calibrationVars => CalibrationInv'
  BY <1>1, PoolKeepsFit, AdvanceKeepsFit DEF CalibrationNext
<1> QED
  BY <1>2, CalibrationStarts, PTL DEF CalibrationSpec

-----------------------------------------------------------------------------
(* The fit is the isotonic regression of the samples *)

\* The order of means is transitive.
LEMMA OrderOfMeans ==
    ASSUME NEW a \in Block, NEW b \in Block, NEW c \in Block, a.count > 0, b.count > 0, c.count > 0,
           InOrder(a, b), InOrder(b, c)
    PROVE  InOrder(a, c)
<1>1. PICK yA \in Int, cA \in Int : yA = a.ySum /\ cA = a.count
  BY DEF Block
<1>2. PICK yB \in Int, cB \in Int : yB = b.ySum /\ cB = b.count
  BY DEF Block
<1>3. PICK yC \in Int, cC \in Int : yC = c.ySum /\ cC = c.count
  BY DEF Block
<1>4. yB * cA - yA * cB >= 0 /\ yC * cB - yB * cC >= 0
  BY <1>1, <1>2, <1>3 DEF InOrder
<1>5. cA * (yC * cB - yB * cC) >= 0 /\ cC * (yB * cA - yA * cB) >= 0
  <2>1. cA >= 0 /\ cC >= 0
    BY <1>1, <1>3
  <2>2. \A p, q \in Int : p >= 0 /\ q >= 0 => p * q >= 0
    BY ProductNotNegative
  <2>3. yB * cA - yA * cB \in Int /\ yC * cB - yB * cC \in Int
    OBVIOUS
  <2> QED
    BY <1>4, <2>1, <2>2, <2>3
<1>6. cB * (yC * cA - yA * cC) = cA * (yC * cB - yB * cC) + cC * (yB * cA - yA * cB)
  OBVIOUS
<1>7. yC * cA - yA * cC >= 0
  <2>1. PICK d \in Int : d = yC * cA - yA * cC
    OBVIOUS
  <2>2. cB * d >= 0
    BY <1>5, <1>6, <2>1
  <2> QED
    BY <1>2, <2>1, <2>2, FactorNotNegative
<1> QED
  BY <1>1, <1>3, <1>7 DEF InOrder

\* All neighbours are in order, and no block is empty.
Ordered(bs, m) ==
    /\ \A b \in 1 .. m : bs[b].count > 0
    /\ \A b \in 2 .. m : InOrder(bs[b - 1], bs[b])

\* Then so are any two blocks.
LEMMA AllInOrder ==
    ASSUME NEW m \in Nat, NEW bs \in [1 .. m -> Block], Ordered(bs, m),
           NEW b \in 1 .. m, NEW a \in b .. m
    PROVE  InOrder(bs[b], bs[a])
<1> DEFINE P == { k \in Nat : k \in b .. m => InOrder(bs[b], bs[k]) }
<1>1. 0 \in P
  OBVIOUS
<1>2. ASSUME NEW k \in Nat, k \in P PROVE k + 1 \in P
  <2> SUFFICES ASSUME k + 1 \in b .. m PROVE InOrder(bs[b], bs[k + 1])
    OBVIOUS
  <2>1. CASE k + 1 = b
    <3>1. PICK y \in Int, c \in Int : y = bs[b].ySum /\ c = bs[b].count
      BY DEF Block
    <3>2. y * c <= y * c
      OBVIOUS
    <3> QED
      BY <2>1, <3>1, <3>2 DEF InOrder
  <2>2. CASE k + 1 # b
    <3>1. k \in b .. m /\ k \in 1 .. m /\ k + 1 \in 2 .. m /\ k + 1 \in 1 .. m /\ (k + 1) - 1 = k
      BY <2>2
    <3>2. InOrder(bs[b], bs[k]) /\ InOrder(bs[k], bs[k + 1])
      <4>1. InOrder(bs[(k + 1) - 1], bs[k + 1])
        BY <3>1 DEF Ordered
      <4> QED
        BY <1>2, <3>1, <4>1
    <3>3. bs[b] \in Block /\ bs[k] \in Block /\ bs[k + 1] \in Block
      BY <3>1
    <3>4. bs[b].count > 0 /\ bs[k].count > 0 /\ bs[k + 1].count > 0
      BY <3>1 DEF Ordered
    <3> QED
      BY <3>2, <3>3, <3>4, OrderOfMeans
  <2> QED
    BY <2>1, <2>2
<1>3. a \in P
  <2> HIDE DEF P
  <2>1. a \in Nat
    OBVIOUS
  <2> QED
    BY <1>1, <1>2, <2>1, NumbersByInduction
<1> QED
  BY <1>3

\* A function that falls until place b and rises from there is lowest at b.
LEMMA LowestWhereItTurns ==
    ASSUME NEW m \in Nat, NEW v \in [0 .. m -> Int], NEW b \in 0 .. m,
           \A a \in 1 .. m : /\ a <= b => v[a] <= v[a - 1]
                             /\ a > b => v[a - 1] <= v[a]
    PROVE  \A a \in 0 .. m : v[b] <= v[a]
<1> DEFINE Up == { k \in Nat : b + k <= m => v[b] <= v[b + k] }
           Down == { k \in Nat : k <= b => v[b] <= v[b - k] }
<1>1. 0 \in Up /\ 0 \in Down
  OBVIOUS
<1>2. ASSUME NEW k \in Nat, k \in Up PROVE k + 1 \in Up
  <2> SUFFICES ASSUME b + (k + 1) <= m PROVE v[b] <= v[b + (k + 1)]
    OBVIOUS
  <2>1. PICK a \in 1 .. m : a = b + (k + 1) /\ a - 1 = b + k
    OBVIOUS
  <2>2. v[a - 1] <= v[a] /\ v[b] <= v[b + k]
    BY <1>2, <2>1
  <2>3. v[a] \in Int /\ v[a - 1] \in Int /\ v[b] \in Int
    BY <2>1
  <2> QED
    BY <2>1, <2>2, <2>3
<1>3. ASSUME NEW k \in Nat, k \in Down PROVE k + 1 \in Down
  <2> SUFFICES ASSUME k + 1 <= b PROVE v[b] <= v[b - (k + 1)]
    OBVIOUS
  <2>1. PICK a \in 1 .. m : a = b - k /\ a - 1 = b - (k + 1) /\ a <= b
    OBVIOUS
  <2>2. v[a] <= v[a - 1] /\ v[b] <= v[b - k]
    BY <1>3, <2>1
  <2>3. v[a] \in Int /\ v[a - 1] \in Int /\ v[b] \in Int
    BY <2>1
  <2> QED
    BY <2>1, <2>2, <2>3
<1>4. Nat \subseteq Up /\ Nat \subseteq Down
  <2> HIDE DEF Up, Down
  <2>1. Nat \subseteq Up
    BY <1>1, <1>2, NumbersByInduction
  <2>2. Nat \subseteq Down
    BY <1>1, <1>3, NumbersByInduction
  <2> QED
    BY <2>1, <2>2
<1> SUFFICES ASSUME NEW a \in 0 .. m PROVE v[b] <= v[a]
  OBVIOUS
<1>5. CASE a >= b
  <2>1. a - b \in Nat /\ b + (a - b) = a
    BY <1>5
  <2>2. a - b \in Up
    BY <1>4, <2>1
  <2> QED
    BY <2>1, <2>2
<1>6. CASE a < b
  <2>1. b - a \in Nat /\ b - (b - a) = a
    BY <1>6
  <2>2. b - a \in Down
    BY <1>4, <2>1
  <2> QED
    BY <2>1, <2>2
<1> QED
  BY <1>5, <1>6

\* A cut reaches every sample.
LEMMA CutReachesAll ==
    ASSUME NEW n \in Nat, NEW m \in Nat \ {0}, NEW e, Cut(e, m, n), NEW k \in 0 .. n
    PROVE  \E a \in 1 .. m : e[a - 1] <= k /\ k <= e[a]
<1>1. e \in [0 .. m -> 0 .. n] /\ e[0] = 0 /\ e[m] = n
  BY DEF Cut
<1> DEFINE Reached(l) == \E a \in 1 .. m : e[a - 1] <= k /\ k <= e[a]
           P == { l \in Nat : (l \in 1 .. m /\ k <= e[l]) => Reached(l) }
<1>2. 0 \in P
  OBVIOUS
<1>3. ASSUME NEW l \in Nat, l \in P PROVE l + 1 \in P
  <2> SUFFICES ASSUME l + 1 \in 1 .. m, k <= e[l + 1] PROVE Reached(l + 1)
    OBVIOUS
  <2>1. PICK a \in 1 .. m : a = l + 1 /\ a - 1 = l /\ l \in 0 .. m
    OBVIOUS
  <2>2. e[l] \in Int
    BY <1>1, <2>1
  <2>3. CASE e[l] <= k
    BY <2>1, <2>3
  <2>4. CASE k <= e[l] /\ l # 0
    BY <1>3, <2>1, <2>4
  <2>5. CASE k <= e[l] /\ l = 0
    <3>1. e[l] <= k
      BY <1>1, <2>5
    <3> QED
      BY <2>3, <3>1
  <2> QED
    BY <2>2, <2>3, <2>4, <2>5
<1>4. m \in P
  <2> HIDE DEF P
  <2> QED
    BY <1>2, <1>3, NumbersByInduction
<1> QED
  BY <1>1, <1>4

\* A beginning of a block of a higher mean than y / c is not below that mean.
LEMMA BeginningOfHigher ==
    ASSUME NEW y \in Int, NEW c \in Int, NEW yA \in Int, NEW cA \in Int, NEW p \in Int, NEW q \in Int,
           c > 0, cA > 0, p >= 0, q * cA >= yA * p, y * cA <= yA * c
    PROVE  q * c - y * p >= 0
<1>1. cA * (q * c - y * p) = c * (q * cA - yA * p) + p * (yA * c - y * cA)
  OBVIOUS
<1>2. c * (q * cA - yA * p) >= 0
  BY ProductNotNegative
<1>3. p * (yA * c - y * cA) >= 0
  BY ProductNotNegative
<1>4. PICK d \in Int : d = q * c - y * p
  OBVIOUS
<1>5. cA * d >= 0
  BY <1>1, <1>2, <1>3, <1>4
<1>6. d >= 0
  BY <1>5, FactorNotNegative
<1> QED
  BY <1>4, <1>6

\* The end of a block of a lower mean than y / c is not above that mean.
LEMMA EndOfLower ==
    ASSUME NEW y \in Int, NEW c \in Int, NEW yA \in Int, NEW cA \in Int, NEW p \in Int, NEW q \in Int,
           c > 0, cA > 0, p <= cA, q * cA >= yA * p, yA * c <= y * cA
    PROVE  (yA - q) * c - y * (cA - p) <= 0
<1>1. cA * (y * (cA - p) - (yA - q) * c) = (cA - p) * (y * cA - yA * c) + c * (q * cA - yA * p)
  OBVIOUS
<1>2. c * (q * cA - yA * p) >= 0
  BY ProductNotNegative
<1>3. (cA - p) * (y * cA - yA * c) >= 0
  BY ProductNotNegative
<1>4. PICK d \in Int : d = y * (cA - p) - (yA - q) * c
  OBVIOUS
<1>5. cA * d >= 0
  BY <1>1, <1>2, <1>3, <1>4
<1>6. d >= 0
  BY <1>5, FactorNotNegative
<1> QED
  BY <1>4, <1>6

\* By how much the outcomes of the first k samples exceed the mean y / c.
Excess(s, n, y, c) == [k \in 0 .. n |-> Ones(s, k) * c - y * k]

\* The blocks of a cut of the samples.
AreBlocks(bs, e, s, m) == \A b \in 1 .. m : IsBlock(bs[b], s, e[b - 1], e[b])

\* The excess over a mean is a number.
LEMMA ExcessIsNumber ==
    ASSUME NEW n \in Nat, NEW s \in [1 .. n -> Sample], NEW y \in Int, NEW c \in Int, NEW w, w = Excess(s, n, y, c)
    PROVE  w \in [0 .. n -> Int]
<1>1. ASSUME NEW k \in 0 .. n PROVE Ones(s, k) * c - y * k \in Int
  <2>1. Ones(s, k) \in Nat
    BY OnesAreNatural
  <2>2. PICK o \in Int : o = Ones(s, k)
    BY <2>1
  <2>3. o * c - y * k \in Int
    OBVIOUS
  <2> QED
    BY <2>2, <2>3
<1> QED
  BY <1>1 DEF Excess

\* Within a block the excess is not below that before the block, if the block has
\* the higher mean, and not below that after the block, if it has the lower.
LEMMA ExcessWithinBlock ==
    ASSUME NEW n \in Nat, NEW s \in [1 .. n -> Sample], NEW y \in Int, NEW c \in Int, c > 0,
           NEW w, w = Excess(s, n, y, c),
           NEW i \in 0 .. n, NEW j \in 0 .. n, i < j, NEW block \in Block, IsBlock(block, s, i, j),
           NEW k \in i .. j
    PROVE  /\ y * block.count <= block.ySum * c => w[i] <= w[k]
           /\ block.ySum * c <= y * block.count => w[j] <= w[k]
<1>1. PICK yA \in Int, cA \in Int : yA = block.ySum /\ cA = block.count
  BY DEF Block
<1>2. PICK oi \in Int, oj \in Int, ok \in Int : oi = Ones(s, i) /\ oj = Ones(s, j) /\ ok = Ones(s, k)
  <2>1. k \in 0 .. n
    OBVIOUS
  <2>2. Ones(s, i) \in Nat /\ Ones(s, j) \in Nat /\ Ones(s, k) \in Nat
    BY <2>1, OnesAreNatural
  <2> QED
    BY <2>2
<1>3. PICK p \in Int, q \in Int : p = k - i /\ q = ok - oi
  OBVIOUS
<1>4. cA = j - i /\ yA = oj - oi /\ q * cA >= yA * p
  BY <1>1, <1>2, <1>3 DEF IsBlock
<1>5. w[i] = oi * c - y * i /\ w[j] = oj * c - y * j /\ w[k] = ok * c - y * k
  BY <1>2 DEF Excess
<1>6. cA > 0 /\ p >= 0 /\ p <= cA
  BY <1>3, <1>4
<1>7. ASSUME y * cA <= yA * c PROVE w[i] <= w[k]
  <2>1. q * c - y * p >= 0
    BY <1>4, <1>6, <1>7, BeginningOfHigher
  <2>2. w[k] - w[i] = q * c - y * p
    <3>1. (ok * c - y * k) - (oi * c - y * i) = (ok - oi) * c - y * (k - i)
      OBVIOUS
    <3> QED
      BY <1>3, <1>5, <3>1
  <2>3. w[k] \in Int /\ w[i] \in Int
    BY <1>5
  <2>4. PICK d \in Int : d = q * c - y * p
    OBVIOUS
  <2> QED
    BY <2>1, <2>2, <2>3, <2>4
<1>8. ASSUME yA * c <= y * cA PROVE w[j] <= w[k]
  <2>1. (yA - q) * c - y * (cA - p) <= 0
    BY <1>4, <1>6, <1>8, EndOfLower
  <2>2. w[j] - w[k] = (yA - q) * c - y * (cA - p)
    <3>1. (oj * c - y * j) - (ok * c - y * k) = (oj - ok) * c - y * (j - k)
      OBVIOUS
    <3>2. oj - ok = yA - q /\ j - k = cA - p
      BY <1>3, <1>4
    <3> QED
      BY <1>5, <3>1, <3>2
  <2>3. w[k] \in Int /\ w[j] \in Int
    BY <1>5
  <2>4. PICK d \in Int : d = (yA - q) * c - y * (cA - p)
    OBVIOUS
  <2> QED
    BY <2>1, <2>2, <2>3, <2>4
<1> QED
  BY <1>1, <1>7, <1>8

\* The function w has the same value at both ends of block b, and none lower.
IsLowestAt(w, e, b, n) ==
    /\ w \in [0 .. n -> Int]
    /\ w[e[b - 1]] = w[e[b]]
    /\ \A k \in 0 .. n : w[e[b]] <= w[k]

\* The excess over the mean of block b is the same at both ends of the block, and
\* nowhere lower: the sums of the blocks are the convex minorant of the samples.
LEMMA ExcessIsLowestAtBlock ==
    ASSUME NEW n \in Nat, NEW s \in [1 .. n -> Sample], NEW m \in Nat, NEW bs \in [1 .. m -> Block],
           NEW e, Cut(e, m, n), AreBlocks(bs, e, s, m), Ordered(bs, m),
           NEW b \in 1 .. m, NEW w, w = Excess(s, n, bs[b].ySum, bs[b].count)
    PROVE  IsLowestAt(w, e, b, n)
<1>1. PICK y \in Int, c \in Int : y = bs[b].ySum /\ c = bs[b].count
  BY DEF Block
<1>2. c > 0 /\ w = Excess(s, n, y, c)
  BY <1>1 DEF Ordered
<1>3. w \in [0 .. n -> Int]
  BY <1>2, ExcessIsNumber
<1>4. e \in [0 .. m -> 0 .. n] /\ \A a \in 1 .. m : e[a - 1] < e[a]
  BY DEF Cut
<1>5. ASSUME NEW a \in 1 .. m, NEW k \in e[a - 1] .. e[a]
      PROVE  /\ a >= b => w[e[a - 1]] <= w[k]
             /\ a <= b => w[e[a]] <= w[k]
  <2>1. a - 1 \in 0 .. m /\ a \in 0 .. m
    OBVIOUS
  <2>2. PICK i \in 0 .. n, j \in 0 .. n : i = e[a - 1] /\ j = e[a] /\ i < j /\ k \in i .. j
    BY <1>4, <2>1
  <2>3. PICK block \in Block : block = bs[a]
    OBVIOUS
  <2>4. IsBlock(block, s, i, j)
    BY <2>2, <2>3 DEF AreBlocks
  <2>5. PICK yA \in Int, cA \in Int : yA = block.ySum /\ cA = block.count
    BY DEF Block
  <2>6. /\ y * cA <= yA * c => w[i] <= w[k]
        /\ yA * c <= y * cA => w[j] <= w[k]
    <3>1. /\ y * block.count <= block.ySum * c => w[i] <= w[k]
          /\ block.ySum * c <= y * block.count => w[j] <= w[k]
      BY <1>2, <2>2, <2>4, ExcessWithinBlock, SMTT(30)
    <3> QED
      BY <2>5, <3>1
  <2>7. ASSUME a >= b PROVE y * cA <= yA * c
    <3>1. a \in b .. m
      BY <2>7
    <3>2. InOrder(bs[b], bs[a])
      BY <3>1, AllInOrder
    <3> QED
      BY <1>1, <2>3, <2>5, <3>2 DEF InOrder
  <2>8. ASSUME a <= b PROVE yA * c <= y * cA
    <3>1. b \in a .. m
      BY <2>8
    <3>2. InOrder(bs[a], bs[b])
      BY <3>1, AllInOrder
    <3> QED
      BY <1>1, <2>3, <2>5, <3>2 DEF InOrder
  <2> QED
    BY <2>2, <2>6, <2>7, <2>8
<1>6. w[e[b - 1]] = w[e[b]]
  <2>1. PICK i \in 0 .. n, j \in 0 .. n : i = e[b - 1] /\ j = e[b] /\ i < j
    BY <1>4
  <2>2. w[i] <= w[j] /\ w[j] <= w[i]
    <3>1. i \in e[b - 1] .. e[b] /\ j \in e[b - 1] .. e[b]
      BY <2>1
    <3>2. b >= b /\ b <= b
      OBVIOUS
    <3>3. w[e[b - 1]] <= w[j] /\ w[e[b]] <= w[i]
      BY <1>5, <3>1, <3>2
    <3> QED
      BY <2>1, <3>3
  <2>3. w[i] \in Int /\ w[j] \in Int
    BY <1>3
  <2> QED
    BY <2>1, <2>2, <2>3
<1>7. PICK v \in [0 .. m -> Int] : \A a \in 0 .. m : v[a] = w[e[a]]
  <2> DEFINE v == [a \in 0 .. m |-> w[e[a]]]
  <2>1. v \in [0 .. m -> Int]
    BY <1>3, <1>4
  <2> QED
    BY <2>1
<1>8. \A a \in 0 .. m : v[b] <= v[a]
  <2>1. ASSUME NEW a \in 1 .. m
        PROVE  /\ a <= b => v[a] <= v[a - 1]
               /\ a > b => v[a - 1] <= v[a]
    <3>1. a - 1 \in 0 .. m /\ a \in 0 .. m
      OBVIOUS
    <3>2. e[a - 1] \in e[a - 1] .. e[a] /\ e[a] \in e[a - 1] .. e[a]
      <4>1. PICK i \in 0 .. n, j \in 0 .. n : i = e[a - 1] /\ j = e[a] /\ i < j
        BY <1>4, <3>1
      <4> QED
        BY <4>1, SMTT(30)
    <3>3. /\ a >= b => w[e[a - 1]] <= w[e[a]]
          /\ a <= b => w[e[a]] <= w[e[a - 1]]
      BY <1>5, <3>2
    <3> QED
      BY <1>7, <3>1, <3>3
  <2>2. b \in 0 .. m
    OBVIOUS
  <2> QED
    BY <2>1, <2>2, LowestWhereItTurns
<1>9. ASSUME NEW k \in 0 .. n PROVE w[e[b]] <= w[k]
  <2>1. PICK a \in 1 .. m : e[a - 1] <= k /\ k <= e[a]
    <3>1. m \in Nat \ {0}
      OBVIOUS
    <3> QED
      BY <3>1, CutReachesAll
  <2>2. a - 1 \in 0 .. m /\ a \in 0 .. m /\ b \in 0 .. m
    OBVIOUS
  <2>3. k \in e[a - 1] .. e[a]
    BY <1>4, <2>1, <2>2
  <2>4. w[e[b]] <= w[e[a]] /\ w[e[b]] <= w[e[a - 1]]
    BY <1>7, <1>8, <2>2
  <2>5. w[e[a]] <= w[k] \/ w[e[a - 1]] <= w[k]
    BY <1>5, <2>3
  <2>6. PICK wb \in Int, wa \in Int, wp \in Int, wk \in Int :
            wb = w[e[b]] /\ wa = w[e[a]] /\ wp = w[e[a - 1]] /\ wk = w[k]
    BY <1>3, <1>4, <2>2
  <2>7. wb <= wa /\ wb <= wp /\ (wa <= wk \/ wp <= wk)
    BY <2>4, <2>5, <2>6
  <2>8. wb <= wk
    BY <2>7
  <2> QED
    BY <2>6, <2>8
<1> QED
  BY <1>3, <1>6, <1>9 DEF IsLowestAt

\* In a fit that has come to its end all blocks are in order.
LEMMA FitIsOrdered ==
    ASSUME NEW n \in Nat, NEW s \in [1 .. n -> Sample], NEW m \in Nat, NEW bs \in [1 .. m -> Block],
           NEW e, NEW i \in Int, i > m, Fit(e, s, bs, i)
    PROVE  Cut(e, m, n) /\ AreBlocks(bs, e, s, m) /\ Ordered(bs, m)
<1>1. Len(s) = n /\ Len(bs) = m
  OBVIOUS
<1>2. Cut(e, m, n) /\ AreBlocks(bs, e, s, m)
  BY <1>1 DEF Fit, AreBlocks
<1>3. ASSUME NEW b \in 1 .. m PROVE bs[b].count > 0
  <2>1. b - 1 \in 0 .. m /\ b \in 0 .. m
    OBVIOUS
  <2>2. e[b - 1] < e[b] /\ e[b - 1] \in 0 .. n /\ e[b] \in 0 .. n
    BY <1>2, <2>1 DEF Cut
  <2>3. bs[b].count = e[b] - e[b - 1]
    BY <1>2 DEF AreBlocks, IsBlock
  <2> QED
    BY <2>2, <2>3
<1>4. ASSUME NEW b \in 2 .. m PROVE InOrder(bs[b - 1], bs[b])
  <2>1. b < i
    OBVIOUS
  <2> QED
    BY <1>1, <2>1 DEF Fit
<1> QED
  BY <1>2, <1>3, <1>4 DEF Ordered

\* The recursion that Ends stands for, over m blocks.
EndsRecursion(f, bs, m) == [b \in 0 .. m |-> IF b = 0 THEN 0 ELSE f[b - 1] + bs[b].count]

EndsAre(e, m) == \A b \in 0 .. m : Ends[b] = e[b]

\* Ends gives the places at which the blocks cut the samples.
LEMMA EndsAreTheCut ==
    ASSUME NEW n \in Nat, NEW s \in [1 .. n -> Sample], NEW m \in Nat, m = Len(blocks),
           NEW e, Cut(e, m, n), AreBlocks(blocks, e, s, m)
    PROVE  EndsAre(e, m)
<1>1. e \in [0 .. m -> 0 .. n] /\ e[0] = 0
  BY DEF Cut
<1>2. ASSUME NEW b \in 1 .. m PROVE e[b - 1] + blocks[b].count = e[b]
  <2>1. b - 1 \in 0 .. m /\ b \in 0 .. m
    OBVIOUS
  <2>2. PICK i \in Int, j \in Int : i = e[b - 1] /\ j = e[b]
    BY <1>1, <2>1
  <2>3. blocks[b].count = j - i
    BY <2>2 DEF AreBlocks, IsBlock
  <2> QED
    BY <2>2, <2>3
<1>3. e = EndsRecursion(e, blocks, m)
  <2>1. \A b \in 0 .. m : e[b] = IF b = 0 THEN 0 ELSE e[b - 1] + blocks[b].count
    BY <1>1, <1>2
  <2>2. EndsRecursion(e, blocks, m) = [b \in 0 .. m |-> e[b]]
    BY <2>1 DEF EndsRecursion
  <2> QED
    BY <1>1, <2>2
<1> DEFINE ends == CHOOSE f : f = EndsRecursion(f, blocks, m)
<1>4. ends = EndsRecursion(ends, blocks, m)
  BY <1>3
<1>5. Ends = ends
  BY DEF Ends, EndsRecursion
<1> HIDE DEF ends
<1>6. \A b \in 0 .. m : ends[b] = IF b = 0 THEN 0 ELSE ends[b - 1] + blocks[b].count
  <2>1. \A b \in 0 .. m : EndsRecursion(ends, blocks, m)[b]
                              = IF b = 0 THEN 0 ELSE ends[b - 1] + blocks[b].count
    BY DEF EndsRecursion
  <2> QED
    BY <1>4, <2>1
<1> DEFINE P == { b \in Nat : b <= m => ends[b] = e[b] }
<1>7. 0 \in P
  BY <1>1, <1>6
<1>8. ASSUME NEW b \in Nat, b \in P PROVE b + 1 \in P
  <2> SUFFICES ASSUME b + 1 <= m PROVE ends[b + 1] = e[b + 1]
    OBVIOUS
  <2>1. PICK a \in 1 .. m : a = b + 1 /\ a - 1 = b /\ a \in 0 .. m
    OBVIOUS
  <2>2. ends[a] = ends[b] + blocks[a].count /\ e[a] = e[b] + blocks[a].count
    BY <1>2, <1>6, <2>1
  <2> QED
    BY <1>8, <2>1, <2>2
<1>9. Nat \subseteq P
  <2> HIDE DEF P
  <2> QED
    BY <1>7, <1>8, NumbersByInduction
<1> QED
  BY <1>5, <1>9 DEF EndsAre

\* The mean of a block is the value of the max-min formula at its samples.
LEMMA BlockIsMaxMin ==
    ASSUME NEW n \in Nat, samples \in [1 .. n -> Sample], NEW m \in Nat, blocks \in [1 .. m -> Block],
           NEW e, Cut(e, m, n), AreBlocks(blocks, e, samples, m), Ordered(blocks, m),
           NEW b \in 1 .. m, NEW i \in e[b - 1] + 1 .. e[b]
    PROVE  IsMaxMin(b, i)
<1>1. PICK s \in [1 .. n -> Sample], bs \in [1 .. m -> Block] : s = samples /\ bs = blocks
  OBVIOUS
<1>2. PICK y \in Int, c \in Int : y = bs[b].ySum /\ c = bs[b].count
  BY DEF Block
<1>3. PICK w : w = Excess(s, n, bs[b].ySum, bs[b].count)
  OBVIOUS
<1>4. w \in [0 .. n -> Int] /\ w[e[b - 1]] = w[e[b]] /\ \A k \in 0 .. n : w[e[b]] <= w[k]
  <2>1. AreBlocks(bs, e, s, m) /\ Ordered(bs, m)
    BY <1>1
  <2>2. IsLowestAt(w, e, b, n)
    BY <1>3, <2>1, ExcessIsLowestAtBlock
  <2> QED
    BY <2>2 DEF IsLowestAt
<1>5. \A k \in 0 .. n : w[k] = Ones(s, k) * c - y * k
  BY <1>2, <1>3 DEF Excess
<1>6. PICK first \in 0 .. n, last \in 0 .. n : first = e[b - 1] /\ last = e[b]
  <2>1. b - 1 \in 0 .. m /\ b \in 0 .. m
    OBVIOUS
  <2> QED
    BY <2>1 DEF Cut
<1>7. first < i /\ i <= last /\ i \in 1 .. n
  BY <1>6
<1>8. Len(samples) = n
  OBVIOUS
<1>9. ASSUME NEW from \in 1 .. n, NEW to \in from .. n
      PROVE  \E d \in Int : /\ d = Outcomes(from, to) * c - y * (to - from + 1)
                            /\ w[to] = w[from - 1] + d
                            /\ Outcomes(from, to) \in Int
  <2>1. Outcomes(from, to) = Ones(s, to) - Ones(s, from - 1)
    BY <1>1, OutcomesBetween DEF Outcomes
  <2>2. PICK k \in 0 .. n : k = from - 1
    OBVIOUS
  <2>3. to \in 0 .. n
    OBVIOUS
  <2>4. PICK ot \in Int, ok \in Int : ot = Ones(s, to) /\ ok = Ones(s, k)
    <3>1. Ones(s, to) \in Nat /\ Ones(s, k) \in Nat
      BY <2>2, <2>3, OnesAreNatural
    <3> QED
      BY <3>1
  <2>5. w[to] = ot * c - y * to /\ w[k] = ok * c - y * k
    BY <1>5, <2>2, <2>3, <2>4
  <2>6. to - from + 1 = to - k
    BY <2>2
  <2>7. ot * c - y * to = (ok * c - y * k) + ((ot - ok) * c - y * (to - k))
    OBVIOUS
  <2>8. PICK d \in Int : d = (ot - ok) * c - y * (to - k)
    OBVIOUS
  <2>9. d = Outcomes(from, to) * c - y * (to - from + 1) /\ Outcomes(from, to) \in Int
    BY <2>1, <2>2, <2>4, <2>6, <2>8
  <2> QED
    BY <2>2, <2>5, <2>7, <2>8, <2>9
<1>10. ASSUME NEW from \in 1 .. i
       PROVE  Outcomes(from, last) * c <= y * (last - from + 1)
  <2>1. from \in 1 .. n /\ last \in from .. n /\ from - 1 \in 0 .. n
    BY <1>7
  <2>2. PICK d \in Int : /\ d = Outcomes(from, last) * c - y * (last - from + 1)
                         /\ w[last] = w[from - 1] + d
                         /\ Outcomes(from, last) \in Int
    BY <1>9, <2>1
  <2>3. w[last] <= w[from - 1] /\ w[from - 1] \in Int /\ w[last] \in Int
    BY <1>4, <1>6, <2>1
  <2>4. d <= 0
    BY <2>2, <2>3
  <2>5. PICK o \in Int : o = Outcomes(from, last)
    BY <2>2
  <2>6. d = o * c - y * (last - from + 1)
    BY <2>2, <2>5
  <2>7. o * c <= y * (last - from + 1)
    BY <2>4, <2>6
  <2> QED
    BY <2>5, <2>7
<1>11. ASSUME NEW to \in i .. n
       PROVE  Outcomes(first + 1, to) * c >= y * (to - (first + 1) + 1)
  <2>1. PICK from \in 1 .. n : from = first + 1 /\ from - 1 = first /\ to \in from .. n /\ to \in 0 .. n
    BY <1>7
  <2>2. PICK d \in Int : /\ d = Outcomes(from, to) * c - y * (to - from + 1)
                         /\ w[to] = w[from - 1] + d
                         /\ Outcomes(from, to) \in Int
    BY <1>9, <2>1
  <2>3. w[first] <= w[to] /\ w[first] \in Int /\ w[to] \in Int
    BY <1>4, <1>6, <2>1
  <2>4. d >= 0
    BY <2>1, <2>2, <2>3, SMTT(30)
  <2>5. PICK o \in Int : o = Outcomes(from, to)
    BY <2>2
  <2>6. d = o * c - y * (to - from + 1)
    BY <2>2, <2>5
  <2>7. o * c >= y * (to - from + 1)
    BY <2>4, <2>6
  <2> QED
    BY <2>1, <2>5, <2>7
<1>12. blocks[b].count = c /\ blocks[b].ySum = y
  BY <1>1, <1>2
<1>13. last \in i .. n /\ first + 1 \in 1 .. i
  BY <1>7
<1>14. \A from \in 1 .. i : \E to \in i .. Len(samples) :
           Outcomes(from, to) * blocks[b].count <= blocks[b].ySum * (to - from + 1)
  BY <1>8, <1>10, <1>12, <1>13
<1>15. \E from \in 1 .. i : \A to \in i .. Len(samples) :
           Outcomes(from, to) * blocks[b].count >= blocks[b].ySum * (to - from + 1)
  BY <1>8, <1>11, <1>12, <1>13
<1> QED
  BY <1>14, <1>15 DEF IsMaxMin

\* The fitted blocks are the isotonic regression of the samples.
LEMMA FittedBlocksFit == CalibrationInv /\ Fitted => FitsTheSamples
<1> SUFFICES ASSUME CalibrationInv, Fitted PROVE FitsTheSamples
  OBVIOUS
<1>1. PICK n \in Nat : samples \in [1 .. n -> Sample]
  BY DEF CalibrationInv
<1>2. PICK m \in Nat : m = Len(blocks) /\ blocks \in [1 .. m -> Block]
  BY DEF CalibrationInv
<1>3. PICK e : Fit(e, samples, blocks, index)
  BY DEF CalibrationInv
<1>4. index \in Int /\ index > m
  BY <1>2 DEF CalibrationInv, Fitted
<1>5. Cut(e, m, n) /\ AreBlocks(blocks, e, samples, m) /\ Ordered(blocks, m)
  <2>1. PICK s \in [1 .. n -> Sample], bs \in [1 .. m -> Block], i \in Int :
            s = samples /\ bs = blocks /\ i = index
    BY <1>1, <1>2, <1>4
  <2>2. Fit(e, s, bs, i) /\ i > m
    BY <1>3, <1>4, <2>1
  <2>3. Cut(e, m, n) /\ AreBlocks(bs, e, s, m) /\ Ordered(bs, m)
    BY <2>2, FitIsOrdered
  <2> QED
    BY <2>1, <2>3
<1>6. \A b \in 0 .. m : Ends[b] = e[b]
  <2>1. PICK s \in [1 .. n -> Sample] : s = samples
    BY <1>1
  <2>2. AreBlocks(blocks, e, s, m)
    BY <1>5, <2>1
  <2>3. EndsAre(e, m)
    BY <1>2, <1>5, <2>2, EndsAreTheCut
  <2> QED
    BY <2>3 DEF EndsAre
<1>7. Ends[Len(blocks)] = Len(samples)
  BY <1>1, <1>2, <1>5, <1>6 DEF Cut
<1>8. ASSUME NEW b \in DOMAIN blocks, NEW i \in Ends[b - 1] + 1 .. Ends[b]
      PROVE  IsMaxMin(b, i)
  <2>1. b \in 1 .. m /\ b \in 0 .. m /\ b - 1 \in 0 .. m
    BY <1>2
  <2>2. i \in e[b - 1] + 1 .. e[b]
    BY <1>6, <2>1
  <2> QED
    BY <1>1, <1>2, <1>5, <2>1, <2>2, BlockIsMaxMin
<1> QED
  BY <1>7, <1>8 DEF FitsTheSamples

-----------------------------------------------------------------------------
(* The knots of a fit are sorted *)

\* Means that are in order are still so when they are rounded down.
LEMMA AveragesInOrder ==
    ASSUME NEW u \in Int, NEW p \in Int, NEW v \in Int, NEW q \in Int, p > 0, q > 0, u * q <= v * p
    PROVE  /\ Average(u, p) \in Int /\ Average(v, q) \in Int
           /\ Average(u, p) <= Average(v, q)
<1>1. PICK a \in Int, b \in Int : a = Average(u, p) /\ b = Average(v, q)
  BY DEF Average, Scale
<1>2. a * p <= u * 60 /\ v * 60 < (b + 1) * q
  <2>1. a = (u * 60) \div p /\ b = (v * 60) \div q
    BY <1>1 DEF Average, Scale
  <2>2. \A x \in Int, d \in Int : d > 0 => (x \div d) * d <= x /\ x < ((x \div d) + 1) * d
    OBVIOUS
  <2>3. u * 60 \in Int /\ v * 60 \in Int
    OBVIOUS
  <2> QED
    BY <2>1, <2>2, <2>3
<1>3. ASSUME a > b PROVE FALSE
  <2>1. (a - (b + 1)) * q >= 0 /\ a - (b + 1) \in Int
    <3>1. a - (b + 1) >= 0 /\ q >= 0 /\ a - (b + 1) \in Int
      BY <1>3
    <3> QED
      BY <3>1, ProductNotNegative
  <2>2. v * 60 < a * q
    <3>1. (a - (b + 1)) * q = a * q - (b + 1) * q
      OBVIOUS
    <3> QED
      BY <1>2, <2>1, <3>1
  <2>3. q * (u * 60 - a * p) >= 0 /\ p * (a * q - v * 60 - 1) >= 0
    <3>1. u * 60 - a * p >= 0 /\ a * q - v * 60 - 1 >= 0
      BY <1>2, <2>2
    <3>2. \A k, l \in Int : k >= 0 /\ l >= 0 => k * l >= 0
      BY ProductNotNegative
    <3>3. u * 60 - a * p \in Int /\ a * q - v * 60 - 1 \in Int /\ p >= 0 /\ q >= 0
      OBVIOUS
    <3> QED
      BY <3>1, <3>2, <3>3
  <2>4. q * (u * 60 - a * p) + p * (a * q - v * 60 - 1) = 60 * (u * q - v * p) - p
    OBVIOUS
  <2>5. PICK d \in Int : d = u * q - v * p /\ d <= 0
    <3>1. u * q \in Int /\ v * p \in Int
      OBVIOUS
    <3> QED
      BY <3>1
  <2>6. 60 * d - p >= 0
    BY <2>3, <2>4, <2>5
  <2> QED
    BY <2>5, <2>6
<1> QED
  BY <1>1, <1>3

\* The raw probabilities of a block are not above those of the next.
LEMMA ProbabilitiesInOrder ==
    ASSUME NEW n \in Nat, NEW s \in [1 .. n -> Sample], Rising(s),
           NEW i \in 0 .. n, NEW j \in 0 .. n, NEW k \in 0 .. n, i < j, j < k,
           NEW a \in Block, NEW b \in Block, IsBlock(a, s, i, j), IsBlock(b, s, j, k)
    PROVE  a.xSum * b.count <= b.xSum * a.count
<1>1. PICK xA \in Int, cA \in Int : xA = a.xSum /\ cA = a.count
  BY DEF Block
<1>2. PICK xB \in Int, cB \in Int : xB = b.xSum /\ cB = b.count
  BY DEF Block
<1>3. cA > 0 /\ cB > 0
  BY <1>1, <1>2 DEF IsBlock
<1>4. PICK high \in Int, low \in Int :
          high = s[j].rawProbability /\ low = s[j + 1].rawProbability /\ high <= low
  <2>1. j \in DOMAIN s /\ j + 1 \in DOMAIN s
    OBVIOUS
  <2>2. \A l \in DOMAIN s : s[l].rawProbability \in Int
    BY DEF Sample
  <2> QED
    BY <2>1, <2>2 DEF Rising
<1>5. xA <= cA * high /\ cB * low <= xB
  BY <1>1, <1>2, <1>4 DEF IsBlock
<1>6. cB * (cA * high - xA) >= 0
  <2>1. cA * high - xA \in Int /\ cA * high - xA >= 0 /\ cB >= 0
    BY <1>3, <1>5
  <2> QED
    BY <2>1, ProductNotNegative
<1>7. cA * (xB - cB * low) >= 0
  <2>1. xB - cB * low \in Int /\ xB - cB * low >= 0 /\ cA >= 0
    BY <1>3, <1>5
  <2> QED
    BY <2>1, ProductNotNegative
<1>8. (cA * cB) * (low - high) >= 0
  <2>1. cA >= 0 /\ cB >= 0 /\ low - high >= 0 /\ low - high \in Int
    BY <1>3, <1>4
  <2>2. cA * cB >= 0 /\ cA * cB \in Int
    BY <2>1, ProductNotNegative
  <2> QED
    BY <2>1, <2>2, ProductNotNegative
<1>9. xB * cA - xA * cB = cB * (cA * high - xA) + cA * (xB - cB * low) + (cA * cB) * (low - high)
  OBVIOUS
<1>10. PICK left \in Int, right \in Int : left = xA * cB /\ right = xB * cA
  OBVIOUS
<1>11. left <= right
  BY <1>6, <1>7, <1>8, <1>9, <1>10
<1> QED
  BY <1>1, <1>2, <1>10, <1>11

Knot == [x : Int, y : Int]

\* The knots of a fit are numbers, at least one, and sorted.
LEMMA FittedKnotsAreSorted ==
    ASSUME CalibrationInv, Fitted
    PROVE  \E m \in Nat \ {0} : Knots \in [1 .. m -> Knot] /\ Sorted(Knots)
<1>1. PICK n \in Nat : samples \in [1 .. n -> Sample]
  BY DEF CalibrationInv
<1>2. PICK m \in Nat : m = Len(blocks) /\ blocks \in [1 .. m -> Block]
  BY DEF CalibrationInv
<1>3. PICK e : Fit(e, samples, blocks, index)
  BY DEF CalibrationInv
<1>4. index \in Int /\ index > m
  BY <1>2 DEF CalibrationInv, Fitted
<1>5. PICK s \in [1 .. n -> Sample], bs \in [1 .. m -> Block], i \in Int :
          s = samples /\ bs = blocks /\ i = index
  BY <1>1, <1>2, <1>4
<1>6. Cut(e, m, n) /\ AreBlocks(bs, e, s, m) /\ Ordered(bs, m)
  <2>1. Fit(e, s, bs, i) /\ i > m
    BY <1>3, <1>4, <1>5
  <2> QED
    BY <2>1, FitIsOrdered
<1>7. CASE samples = << >>
  <2>1. Knots = << [x |-> 0, y |-> 0], [x |-> Grid * Scale, y |-> Scale] >>
    BY <1>7 DEF Knots
  <2>2. PICK top \in Int : top = Grid * Scale /\ 0 <= top
    BY CalibrationAssumption DEF CalibrationAssumption, Scale
  <2>3. Knots \in [1 .. 2 -> Knot]
    BY <2>1, <2>2 DEF Knot, Scale
  <2>4. Sorted(Knots)
    BY <2>1, <2>2 DEF Sorted, Scale
  <2> QED
    BY <2>3, <2>4
<1>8. CASE samples # << >>
  <2>1. n # 0
    BY <1>1, <1>8
  <2>2. m # 0
    BY <1>6, <2>1 DEF Cut
  <2>3. Knots = [b \in 1 .. m |-> [x |-> Average(bs[b].xSum, bs[b].count),
                                   y |-> Average(bs[b].ySum, bs[b].count)]]
    BY <1>2, <1>5, <1>8 DEF Knots
  <2>4. ASSUME NEW b \in 1 .. m
        PROVE  Average(bs[b].xSum, bs[b].count) \in Int /\ Average(bs[b].ySum, bs[b].count) \in Int
    <3>1. PICK x \in Int, y \in Int, c \in Int : x = bs[b].xSum /\ y = bs[b].ySum /\ c = bs[b].count
      BY DEF Block
    <3>2. c > 0
      BY <1>6, <3>1 DEF Ordered
    <3>3. Average(x, c) \in Int /\ Average(y, c) \in Int
      BY <3>2 DEF Average, Scale
    <3> QED
      BY <3>1, <3>3
  <2>5. Knots \in [1 .. m -> Knot]
    BY <2>3, <2>4 DEF Knot
  <2>6. ASSUME NEW b \in 2 .. m
        PROVE  Knots[b - 1].x <= Knots[b].x /\ Knots[b - 1].y <= Knots[b].y
    <3>1. PICK a \in 1 .. m : a = b - 1
      OBVIOUS
    <3>2. PICK one \in Block, two \in Block : one = bs[a] /\ two = bs[b]
      OBVIOUS
    <3>3. PICK xA \in Int, yA \in Int, cA \in Int : xA = one.xSum /\ yA = one.ySum /\ cA = one.count
      BY DEF Block
    <3>4. PICK xB \in Int, yB \in Int, cB \in Int : xB = two.xSum /\ yB = two.ySum /\ cB = two.count
      BY DEF Block
    <3>5. cA > 0 /\ cB > 0
      BY <1>6, <3>2, <3>3, <3>4 DEF Ordered
    <3>6. yA * cB <= yB * cA
      <4>1. InOrder(bs[b - 1], bs[b])
        BY <1>6 DEF Ordered
      <4> QED
        BY <3>1, <3>2, <3>3, <3>4, <4>1 DEF InOrder
    <3>7. xA * cB <= xB * cA
      <4>1. a - 1 \in 0 .. m /\ a \in 0 .. m /\ b \in 0 .. m /\ b - 1 = a
        BY <3>1
      <4>2. PICK ei \in 0 .. n, ej \in 0 .. n, ek \in 0 .. n :
                ei = e[a - 1] /\ ej = e[a] /\ ek = e[b] /\ ei < ej /\ ej < ek
        <5>1. e[a - 1] < e[a] /\ e[b - 1] < e[b]
          BY <1>6 DEF Cut
        <5> QED
          BY <1>6, <4>1, <5>1 DEF Cut
      <4>3. IsBlock(one, s, ei, ej)
        BY <1>6, <3>2, <4>2 DEF AreBlocks
      <4>4. IsBlock(two, s, ej, ek)
        <5>1. IsBlock(bs[b], s, e[b - 1], e[b])
          BY <1>6 DEF AreBlocks
        <5> QED
          BY <3>2, <4>1, <4>2, <5>1
      <4>5. Rising(s)
        BY <1>5 DEF CalibrationInv
      <4>6. one.xSum * two.count <= two.xSum * one.count
        BY <4>2, <4>3, <4>4, <4>5, ProbabilitiesInOrder
      <4> QED
        BY <3>3, <3>4, <4>6
    <3>8. Average(xA, cA) <= Average(xB, cB) /\ Average(yA, cA) <= Average(yB, cB)
      BY <3>5, <3>6, <3>7, AveragesInOrder
    <3>9. Knots[a] = [x |-> Average(xA, cA), y |-> Average(yA, cA)]
      BY <2>3, <3>2, <3>3
    <3>10. Knots[b] = [x |-> Average(xB, cB), y |-> Average(yB, cB)]
      <4>1. b \in 1 .. m
        OBVIOUS
      <4> QED
        BY <2>3, <3>2, <3>4, <4>1
    <3> QED
      BY <3>1, <3>8, <3>9, <3>10
  <2>7. Sorted(Knots)
    <3>1. Len(Knots) = m
      BY <2>5
    <3> QED
      BY <2>6, <3>1 DEF Sorted
  <2> QED
    BY <2>2, <2>5, <2>7
<1> QED
  BY <1>7, <1>8

-----------------------------------------------------------------------------
(* The mapping through sorted knots keeps the order *)

\* The knots at i are not above those at j.
KnotsUpTo(knots, i, j) == knots[i].x <= knots[j].x /\ knots[i].y <= knots[j].y

\* Sorted neighbours are sorted altogether.
LEMMA KnotsInOrder ==
    ASSUME NEW m \in Nat, NEW knots \in [1 .. m -> Knot], Sorted(knots),
           NEW i \in 1 .. m, NEW j \in i .. m
    PROVE  KnotsUpTo(knots, i, j)
<1> DEFINE P == { k \in Nat : k \in i .. m => KnotsUpTo(knots, i, k) }
<1>0. \A k \in 1 .. m : knots[k].x \in Int /\ knots[k].y \in Int
  BY DEF Knot
<1>1. 0 \in P
  OBVIOUS
<1>2. ASSUME NEW k \in Nat, k \in P PROVE k + 1 \in P
  <2> SUFFICES ASSUME k + 1 \in i .. m PROVE KnotsUpTo(knots, i, k + 1)
    OBVIOUS
  <2>1. CASE k + 1 = i
    <3>1. PICK u \in Int, v \in Int : u = knots[i].x /\ v = knots[i].y
      BY <1>0
    <3> QED
      BY <2>1, <3>1 DEF KnotsUpTo
  <2>2. CASE k + 1 # i
    <3>1. PICK l \in 2 .. m : l = k + 1 /\ l - 1 = k /\ k \in i .. m /\ k \in 1 .. m /\ l \in 1 .. m
      BY <2>2
    <3>2. Len(knots) = m
      OBVIOUS
    <3>3. knots[k].x <= knots[l].x /\ knots[k].y <= knots[l].y
      BY <3>1, <3>2 DEF Sorted
    <3>4. knots[i].x <= knots[k].x /\ knots[i].y <= knots[k].y
      BY <1>2, <3>1 DEF KnotsUpTo
    <3>5. knots[i].x <= knots[l].x /\ knots[i].y <= knots[l].y
      BY <1>0, <3>1, <3>3, <3>4
    <3> QED
      BY <3>1, <3>5 DEF KnotsUpTo
  <2> QED
    BY <2>1, <2>2
<1>3. j \in P
  <2> HIDE DEF P
  <2>1. j \in Nat
    OBVIOUS
  <2> QED
    BY <1>1, <1>2, <2>1, NumbersByInduction
<1> QED
  BY <1>3

\* right is the first place whose knot x does not pass, or 0.
IsFirstReached(right, x, knots, m) ==
    \/ right = 0 /\ \A i \in 1 .. m : knots[i].x < x
    \/ /\ right \in 1 .. m /\ x <= knots[right].x
       /\ \A i \in 1 .. right - 1 : knots[i].x < x

\* That is what SelectInSeq finds.
LEMMA FirstReached ==
    ASSUME NEW m \in Nat, NEW knots \in [1 .. m -> Knot], NEW x \in Int,
           NEW right, right = SelectInSeq(knots, LAMBDA knot : x <= knot.x)
    PROVE  IsFirstReached(right, x, knots, m)
<1> DEFINE places == { i \in 1 .. m : x <= knots[i].x }
<1>1. Len(knots) = m
  OBVIOUS
<1>2. right = IF places # {} THEN Min(places) ELSE 0
  BY <1>1 DEF SelectInSeq
<1>3. ASSUME NEW i \in 1 .. m, i \notin places PROVE knots[i].x < x
  <2>1. PICK u \in Int : u = knots[i].x
    BY DEF Knot
  <2> QED
    BY <1>3, <2>1
<1>4. CASE places = {}
  BY <1>2, <1>3, <1>4 DEF IsFirstReached
<1>5. CASE places # {}
  <2>1. places \subseteq Nat
    OBVIOUS
  <2>2. PICK least \in places : \A i \in places : least <= i
    <3> HIDE DEF places
    <3> QED
      BY <1>5, <2>1, LeastOfNumbers
  <2>3. Min(places) = least
    <3>1. \A i \in places : i \in Int
      OBVIOUS
    <3> HIDE DEF places
    <3>2. \A i \in places : (\A j \in places : i <= j) => i = least
      BY <2>2, <3>1
    <3> QED
      BY <2>2, <3>2 DEF Min
  <2>4. ASSUME NEW i \in 1 .. least - 1 PROVE knots[i].x < x
    <3>1. i \in 1 .. m /\ ~(least <= i)
      OBVIOUS
    <3>2. i \notin places
      BY <2>2, <3>1
    <3> QED
      BY <1>3, <3>1, <3>2
  <2> QED
    BY <1>2, <1>5, <2>2, <2>3, <2>4 DEF IsFirstReached
<1> QED
  BY <1>4, <1>5

\* The value before the first knot, behind the last, and at x between the knots
\* k - 1 and k.
Whole(y) == [part |-> y, of |-> 1]

Between(x, knots, k) ==
    [part |-> knots[k - 1].y * (knots[k].x - knots[k - 1].x)
              + (x - knots[k - 1].x) * (knots[k].y - knots[k - 1].y),
     of |-> knots[k].x - knots[k - 1].x]

IsBefore(value, x, top, knots) ==
    /\ x = 0 \/ (x # top /\ x <= knots[1].x)
    /\ value = Whole(knots[1].y)

IsBehind(value, x, top, knots, m) ==
    /\ x # 0
    /\ x = top \/ (knots[m].x <= x /\ knots[1].x < x)
    /\ value = Whole(knots[m].y)

IsBetween(value, x, top, knots, k) ==
    /\ x # 0 /\ x # top
    /\ knots[k - 1].x < x /\ x <= knots[k].x
    /\ value = Between(x, knots, k)

IsApplied(value, x, top, knots, m) ==
    \/ IsBefore(value, x, top, knots)
    \/ IsBehind(value, x, top, knots, m)
    \/ x < knots[m].x /\ \E k \in 2 .. m : IsBetween(value, x, top, knots, k)

\* The mapping gives one of these values.
LEMMA AppliedIsOneOfThese ==
    ASSUME NEW m \in Nat \ {0}, NEW knots \in [1 .. m -> Knot], NEW x \in Int,
           NEW top, top = Grid * Scale,
           NEW value, value = ApplyIsotonicRegression(x, knots)
    PROVE  IsApplied(value, x, top, knots, m)
<1>1. PICK right : right = SelectInSeq(knots, LAMBDA knot : x <= knot.x)
  OBVIOUS
<1>2. IsFirstReached(right, x, knots, m)
  BY <1>1, FirstReached
<1>3. Last(knots) = knots[m]
  BY DEF Last
<1>4. value = IF x = 0 THEN Whole(knots[1].y)
              ELSE IF x = top THEN Whole(knots[m].y)
              ELSE IF right = 1 THEN Whole(knots[1].y)
              ELSE IF x >= knots[m].x THEN Whole(knots[m].y)
              ELSE Between(x, knots, right)
  BY <1>1, <1>3 DEF ApplyIsotonicRegression, Whole, Between
<1>5. 1 \in 1 .. m /\ m \in 1 .. m
  OBVIOUS
<1>6. PICK first \in Int, last \in Int : first = knots[1].x /\ last = knots[m].x
  BY <1>5 DEF Knot
<1>7. CASE x = 0
  BY <1>4, <1>7 DEF IsApplied, IsBefore
<1>8. CASE x # 0 /\ x = top
  BY <1>4, <1>8 DEF IsApplied, IsBehind
<1>9. CASE x # 0 /\ x # top /\ right = 1
  <2>1. x <= knots[1].x
    BY <1>2, <1>9 DEF IsFirstReached
  <2> QED
    BY <1>4, <1>9, <2>1 DEF IsApplied, IsBefore
<1>10. CASE x # 0 /\ x # top /\ right # 1 /\ x >= last
  <2>1. knots[1].x < x
    <3>1. CASE right = 0
      BY <1>2, <1>5, <3>1 DEF IsFirstReached
    <3>2. CASE right # 0
      <4>1. right \in 1 .. m /\ \A i \in 1 .. right - 1 : knots[i].x < x
        BY <1>2, <3>2 DEF IsFirstReached
      <4>2. 1 \in 1 .. right - 1
        BY <1>10, <4>1
      <4> QED
        BY <4>1, <4>2
    <3> QED
      BY <3>1, <3>2
  <2>2. value = Whole(knots[m].y)
    BY <1>4, <1>6, <1>10
  <2>3. knots[m].x <= x
    BY <1>6, <1>10
  <2> QED
    BY <1>10, <2>1, <2>2, <2>3 DEF IsApplied, IsBehind
<1>11. CASE x # 0 /\ x # top /\ right # 1 /\ ~(x >= last)
  <2>1. right # 0
    <3>1. ~(knots[m].x < x)
      BY <1>6, <1>11
    <3> QED
      BY <1>2, <1>5, <3>1 DEF IsFirstReached
  <2>2. right \in 1 .. m /\ x <= knots[right].x /\ \A i \in 1 .. right - 1 : knots[i].x < x
    BY <1>2, <2>1 DEF IsFirstReached
  <2>3. right \in 2 .. m /\ right - 1 \in 1 .. right - 1
    BY <1>11, <2>2
  <2>4. knots[right - 1].x < x
    BY <2>2, <2>3
  <2>5. value = Between(x, knots, right)
    BY <1>4, <1>6, <1>11
  <2>6. IsBetween(value, x, top, knots, right)
    BY <1>11, <2>2, <2>4, <2>5 DEF IsBetween
  <2>7. x < knots[m].x
    BY <1>6, <1>11
  <2> QED
    BY <2>3, <2>6, <2>7 DEF IsApplied
<1> QED
  BY <1>6, <1>7, <1>8, <1>9, <1>10, <1>11

\* value, a fraction, is not below low and not above high.
Within(value, low, high) ==
    /\ value.part \in Int /\ value.of \in Int /\ value.of > 0
    /\ low * value.of <= value.part
    /\ value.part <= high * value.of

\* The first of two fractions is not above the second.
NotAbove(lower, higher) == lower.part * higher.of <= higher.part * lower.of

\* Two fractions between which a number lies are in order.
LEMMA OrderAcross ==
    ASSUME NEW lower, NEW higher, NEW low \in Int, NEW mid \in Int, NEW mid2 \in Int, NEW high \in Int,
           Within(lower, low, mid), Within(higher, mid2, high), mid <= mid2
    PROVE  NotAbove(lower, higher)
<1>1. PICK p \in Int, q \in Int : p = lower.part /\ q = lower.of /\ q > 0 /\ p <= mid * q
  BY DEF Within
<1>2. PICK u \in Int, v \in Int : u = higher.part /\ v = higher.of /\ v > 0 /\ mid2 * v <= u
  BY DEF Within
<1>3. PICK a \in Int, b \in Int : a = mid * q - p /\ b = u - mid2 * v /\ a >= 0 /\ b >= 0
  <2>1. mid * q \in Int /\ mid2 * v \in Int
    OBVIOUS
  <2> QED
    BY <1>1, <1>2, <2>1
<1>4. v * a >= 0 /\ q * b >= 0
  <2>1. \A k, l \in Int : k >= 0 /\ l >= 0 => k * l >= 0
    BY ProductNotNegative
  <2> QED
    BY <1>1, <1>2, <1>3, <2>1
<1>5. (q * v) * (mid2 - mid) >= 0
  <2>1. mid2 - mid \in Int /\ mid2 - mid >= 0 /\ q >= 0 /\ v >= 0
    BY <1>1, <1>2
  <2>2. q * v \in Int /\ q * v >= 0
    BY <2>1, ProductNotNegative
  <2> QED
    BY <2>1, <2>2, ProductNotNegative
<1>6. u * q - p * v = v * (mid * q - p) + q * (u - mid2 * v) + (q * v) * (mid2 - mid)
  OBVIOUS
<1>7. PICK left \in Int, right \in Int : left = p * v /\ right = u * q
  OBVIOUS
<1>8. left <= right
  BY <1>3, <1>4, <1>5, <1>6, <1>7
<1> QED
  BY <1>1, <1>2, <1>7, <1>8 DEF NotAbove

\* A value between two knots lies between theirs.
LEMMA BetweenIsWithin ==
    ASSUME NEW m \in Nat, NEW knots \in [1 .. m -> Knot], Sorted(knots),
           NEW k \in 2 .. m, NEW x \in Int, NEW top, NEW value, IsBetween(value, x, top, knots, k)
    PROVE  Within(value, knots[k - 1].y, knots[k].y)
<1>1. PICK j \in 1 .. m : j = k - 1
  OBVIOUS
<1>2. PICK xl \in Int, yl \in Int : xl = knots[j].x /\ yl = knots[j].y
  BY DEF Knot
<1>3. PICK xr \in Int, yr \in Int : xr = knots[k].x /\ yr = knots[k].y
  <2>1. k \in 1 .. m
    OBVIOUS
  <2> QED
    BY <2>1 DEF Knot
<1>4. xl < x /\ x <= xr
  BY <1>1, <1>2, <1>3 DEF IsBetween
<1>5. yl <= yr
  <2>1. Len(knots) = m
    OBVIOUS
  <2> QED
    BY <1>1, <1>2, <1>3, <2>1 DEF Sorted
<1>6. value = [part |-> yl * (xr - xl) + (x - xl) * (yr - yl), of |-> xr - xl]
  BY <1>1, <1>2, <1>3 DEF IsBetween, Between
<1>7. (x - xl) * (yr - yl) >= 0 /\ (xr - x) * (yr - yl) >= 0
  <2>1. x - xl >= 0 /\ xr - x >= 0 /\ yr - yl >= 0
    BY <1>4, <1>5
  <2>2. x - xl \in Int /\ xr - x \in Int /\ yr - yl \in Int
    OBVIOUS
  <2> QED
    BY <2>1, <2>2, ProductNotNegative
<1>8. yl * (xr - xl) <= yl * (xr - xl) + (x - xl) * (yr - yl)
  BY <1>7
<1>9. yl * (xr - xl) + (x - xl) * (yr - yl) <= yr * (xr - xl)
  <2>1. yr * (xr - xl) - (yl * (xr - xl) + (x - xl) * (yr - yl)) = (xr - x) * (yr - yl)
    OBVIOUS
  <2>2. PICK a \in Int, b \in Int : a = yr * (xr - xl) /\ b = yl * (xr - xl) + (x - xl) * (yr - yl)
    OBVIOUS
  <2>3. b <= a
    BY <1>7, <2>1, <2>2
  <2> QED
    BY <2>2, <2>3
<1>10. Within(value, yl, yr)
  <2>1. PICK part \in Int, of \in Int :
            part = yl * (xr - xl) + (x - xl) * (yr - yl) /\ of = xr - xl
    OBVIOUS
  <2>2. value = [part |-> part, of |-> of] /\ of > 0
    BY <1>4, <1>6, <2>1
  <2>3. yl * of <= part /\ part <= yr * of
    BY <1>8, <1>9, <2>1
  <2> QED
    BY <2>2, <2>3 DEF Within
<1> QED
  BY <1>1, <1>2, <1>3, <1>10

\* Wider bounds hold too.
LEMMA WiderBounds ==
    ASSUME NEW value, NEW low \in Int, NEW high \in Int, NEW low2 \in Int, NEW high2 \in Int,
           Within(value, low, high), low2 <= low, high <= high2
    PROVE  Within(value, low2, high2)
<1>1. PICK p \in Int, q \in Int : p = value.part /\ q = value.of /\ q > 0 /\ low * q <= p /\ p <= high * q
  BY DEF Within
<1>2. q * (low - low2) >= 0 /\ q * (high2 - high) >= 0
  <2>1. \A k, l \in Int : k >= 0 /\ l >= 0 => k * l >= 0
    BY ProductNotNegative
  <2>2. low - low2 \in Int /\ low - low2 >= 0 /\ high2 - high \in Int /\ high2 - high >= 0
    OBVIOUS
  <2> QED
    BY <1>1, <2>1, <2>2
<1>3. q * (low - low2) = low * q - low2 * q /\ q * (high2 - high) = high2 * q - high * q
  OBVIOUS
<1>4. low2 * q <= p /\ p <= high2 * q
  <2>1. PICK a \in Int, b \in Int, c \in Int, d \in Int :
            a = low * q /\ b = low2 * q /\ c = high * q /\ d = high2 * q
    OBVIOUS
  <2> QED
    BY <1>1, <1>2, <1>3, <2>1
<1> QED
  BY <1>1, <1>4 DEF Within

\* A whole number as a fraction.
LEMMA WholeIsWithin ==
    ASSUME NEW y \in Int
    PROVE  Within(Whole(y), y, y)
<1>1. y * 1 = y
  OBVIOUS
<1> QED
  BY <1>1 DEF Whole, Within

\* No value is below that of the first knot or above that of the last.
LEMMA AppliedIsWithin ==
    ASSUME NEW m \in Nat \ {0}, NEW knots \in [1 .. m -> Knot], Sorted(knots),
           NEW x \in Int, NEW top, NEW value, IsApplied(value, x, top, knots, m)
    PROVE  Within(value, knots[1].y, knots[m].y)
<1>1. PICK first \in Int, last \in Int : first = knots[1].y /\ last = knots[m].y
  <2>1. 1 \in 1 .. m /\ m \in 1 .. m
    OBVIOUS
  <2> QED
    BY <2>1 DEF Knot
<1>2. first <= last
  <2>1. 1 \in 1 .. m /\ m \in 1 .. m
    OBVIOUS
  <2>2. KnotsUpTo(knots, 1, m)
    BY <2>1, KnotsInOrder
  <2> QED
    BY <1>1, <2>2 DEF KnotsUpTo
<1>3. ASSUME value = Whole(first) PROVE Within(value, first, last)
  <2>1. Within(value, first, first)
    BY <1>3, WholeIsWithin
  <2>2. first <= first
    OBVIOUS
  <2> QED
    BY <1>2, <2>1, <2>2, WiderBounds
<1>4. ASSUME value = Whole(last) PROVE Within(value, first, last)
  <2>1. Within(value, last, last)
    BY <1>4, WholeIsWithin
  <2>2. last <= last
    OBVIOUS
  <2> QED
    BY <1>2, <2>1, <2>2, WiderBounds
<1>5. ASSUME NEW k \in 2 .. m, IsBetween(value, x, top, knots, k) PROVE Within(value, first, last)
  <2>1. PICK j \in 1 .. m : j = k - 1 /\ k \in j .. m /\ j \in 1 .. m /\ k \in 1 .. m
    OBVIOUS
  <2>2. PICK yl \in Int, yr \in Int : yl = knots[j].y /\ yr = knots[k].y
    BY <2>1 DEF Knot
  <2>3. Within(value, yl, yr)
    BY <1>5, <2>1, <2>2, BetweenIsWithin
  <2>4. first <= yl
    <3>1. KnotsUpTo(knots, 1, j)
      <4>1. 1 \in 1 .. m /\ j \in 1 .. m
        BY <2>1
      <4> QED
        BY <4>1, KnotsInOrder
    <3> QED
      BY <1>1, <2>2, <3>1 DEF KnotsUpTo
  <2>5. yr <= last
    <3>1. KnotsUpTo(knots, k, m)
      <4>1. m \in k .. m
        OBVIOUS
      <4> QED
        BY <2>1, <4>1, KnotsInOrder
    <3> QED
      BY <1>1, <2>2, <3>1 DEF KnotsUpTo
  <2> QED
    BY <2>3, <2>4, <2>5, WiderBounds
<1> QED
  BY <1>1, <1>3, <1>4, <1>5 DEF IsApplied, IsBefore, IsBehind

\* Two values between the same knots are in the order of their arguments.
LEMMA OrderWithinSegment ==
    ASSUME NEW m \in Nat, NEW knots \in [1 .. m -> Knot], Sorted(knots), NEW k \in 2 .. m,
           NEW x \in Int, NEW y \in Int, x <= y, NEW top, NEW lower, NEW higher,
           IsBetween(lower, x, top, knots, k), IsBetween(higher, y, top, knots, k)
    PROVE  NotAbove(lower, higher)
<1>1. PICK j \in 1 .. m : j = k - 1 /\ k \in 1 .. m
  OBVIOUS
<1>2. PICK xl \in Int, yl \in Int : xl = knots[j].x /\ yl = knots[j].y
  BY DEF Knot
<1>3. PICK xr \in Int, yr \in Int : xr = knots[k].x /\ yr = knots[k].y
  BY <1>1 DEF Knot
<1>4. xl < x /\ y <= xr
  BY <1>1, <1>2, <1>3 DEF IsBetween
<1>5. yl <= yr
  <2>1. Len(knots) = m
    OBVIOUS
  <2> QED
    BY <1>1, <1>2, <1>3, <2>1 DEF Sorted
<1>6. /\ lower = [part |-> yl * (xr - xl) + (x - xl) * (yr - yl), of |-> xr - xl]
      /\ higher = [part |-> yl * (xr - xl) + (y - xl) * (yr - yl), of |-> xr - xl]
  BY <1>1, <1>2, <1>3 DEF IsBetween, Between
<1>7. PICK of \in Int, p \in Int, q \in Int :
          /\ of = xr - xl
          /\ p = yl * (xr - xl) + (x - xl) * (yr - yl)
          /\ q = yl * (xr - xl) + (y - xl) * (yr - yl)
  OBVIOUS
<1>8. (y - x) * (yr - yl) >= 0
  <2>1. y - x \in Int /\ y - x >= 0 /\ yr - yl \in Int /\ yr - yl >= 0
    BY <1>5
  <2> QED
    BY <2>1, ProductNotNegative
<1>9. q - p >= 0 /\ of > 0
  <2>1. (yl * (xr - xl) + (y - xl) * (yr - yl)) - (yl * (xr - xl) + (x - xl) * (yr - yl))
            = (y - x) * (yr - yl)
    OBVIOUS
  <2>2. q - p = (y - x) * (yr - yl)
    BY <1>7, <2>1
  <2>3. of > 0
    BY <1>4, <1>7
  <2> QED
    BY <1>8, <2>2, <2>3
<1>10. p * of <= q * of
  <2>1. of * (q - p) >= 0
    <3>1. of >= 0 /\ q - p \in Int
      BY <1>9
    <3> QED
      BY <1>9, <3>1, ProductNotNegative
  <2>2. of * (q - p) = q * of - p * of
    OBVIOUS
  <2>3. PICK a \in Int, b \in Int : a = p * of /\ b = q * of
    OBVIOUS
  <2> QED
    BY <2>1, <2>2, <2>3
<1>11. lower = [part |-> p, of |-> of] /\ higher = [part |-> q, of |-> of]
  BY <1>6, <1>7
<1> QED
  BY <1>10, <1>11 DEF NotAbove

\* The mapping keeps the order of any two probabilities.
LEMMA MappingKeepsOrder ==
    ASSUME NEW m \in Nat \ {0}, NEW knots \in [1 .. m -> Knot], Sorted(knots),
           NEW x \in Int, NEW y \in Int, NEW top \in Int, 0 <= x, x <= y, y <= top, 0 < top,
           NEW lower, NEW higher,
           IsApplied(lower, x, top, knots, m), IsApplied(higher, y, top, knots, m)
    PROVE  NotAbove(lower, higher)
<1>1. PICK first \in Int, last \in Int, xf \in Int, xt \in Int :
          first = knots[1].y /\ last = knots[m].y /\ xf = knots[1].x /\ xt = knots[m].x
  <2>1. 1 \in 1 .. m /\ m \in 1 .. m
    OBVIOUS
  <2> QED
    BY <2>1 DEF Knot
<1>2. Within(lower, first, last) /\ Within(higher, first, last)
  <2>1. Within(lower, knots[1].y, knots[m].y)
    BY AppliedIsWithin
  <2>2. Within(higher, knots[1].y, knots[m].y)
    BY AppliedIsWithin
  <2> QED
    BY <1>1, <2>1, <2>2
<1>3. CASE IsBefore(lower, x, top, knots)
  <2>1. Within(lower, first, first)
    BY <1>1, <1>3, WholeIsWithin DEF IsBefore
  <2>2. first <= first
    OBVIOUS
  <2> QED
    BY <1>2, <2>1, <2>2, OrderAcross
<1>4. CASE IsBehind(higher, y, top, knots, m)
  <2>1. Within(higher, last, last)
    BY <1>1, <1>4, WholeIsWithin DEF IsBehind
  <2>2. last <= last
    OBVIOUS
  <2> QED
    BY <1>2, <2>1, <2>2, OrderAcross
<1>5. ASSUME NEW k \in 2 .. m PROVE \E xk \in Int : xk = knots[k - 1].x /\ xf <= xk
  <2>1. PICK j \in 1 .. m : j = k - 1
    OBVIOUS
  <2>2. KnotsUpTo(knots, 1, j)
    <3>1. 1 \in 1 .. m /\ j \in 1 .. m
      BY <2>1
    <3> QED
      BY <3>1, KnotsInOrder
  <2>3. PICK xk \in Int : xk = knots[j].x
    BY DEF Knot
  <2> QED
    BY <1>1, <2>1, <2>2, <2>3 DEF KnotsUpTo
<1>6. CASE IsBehind(lower, x, top, knots, m) /\ IsBefore(higher, y, top, knots)
  BY <1>1, <1>6 DEF IsBehind, IsBefore
<1>7. ASSUME IsBehind(lower, x, top, knots, m), y < knots[m].x, NEW k \in 2 .. m,
             IsBetween(higher, y, top, knots, k)
      PROVE  FALSE
  BY <1>1, <1>7 DEF IsBehind, IsBetween
<1>8. ASSUME NEW k \in 2 .. m, IsBetween(lower, x, top, knots, k), IsBefore(higher, y, top, knots)
      PROVE  FALSE
  <2>1. PICK xk \in Int : xk = knots[k - 1].x /\ xf <= xk
    BY <1>5
  <2>2. xk < x /\ x # 0
    BY <1>8, <2>1 DEF IsBetween
  <2>3. y = 0 \/ y <= xf
    BY <1>1, <1>8 DEF IsBefore
  <2> QED
    BY <2>1, <2>2, <2>3
<1>9. ASSUME NEW k \in 2 .. m, IsBetween(lower, x, top, knots, k),
             NEW l \in 2 .. m, IsBetween(higher, y, top, knots, l)
      PROVE  NotAbove(lower, higher)
  <2>1. PICK j \in 1 .. m, i \in 1 .. m : j = k - 1 /\ i = l - 1 /\ k \in 1 .. m /\ l \in 1 .. m
    OBVIOUS
  <2>2. PICK xk \in Int, xi \in Int, xj \in Int, xl \in Int :
            xk = knots[k].x /\ xi = knots[i].x /\ xj = knots[j].x /\ xl = knots[l].x
    BY <2>1 DEF Knot
  <2>3. PICK yk \in Int, yi \in Int, yj \in Int, yl \in Int :
            yk = knots[k].y /\ yi = knots[i].y /\ yj = knots[j].y /\ yl = knots[l].y
    BY <2>1 DEF Knot
  <2>4. xj < x /\ x <= xk /\ xi < y /\ y <= xl
    BY <1>9, <2>1, <2>2 DEF IsBetween
  <2>5. CASE k = l
    BY <1>9, <2>5, OrderWithinSegment
  <2>6. CASE k < l
    <3>1. i \in k .. m
      BY <2>1, <2>6
    <3>2. KnotsUpTo(knots, k, i)
      BY <2>1, <3>1, KnotsInOrder
    <3>3. yk <= yi
      BY <2>3, <3>2 DEF KnotsUpTo
    <3>4. Within(lower, yj, yk)
      BY <1>9, <2>1, <2>3, BetweenIsWithin
    <3>5. Within(higher, yi, yl)
      BY <1>9, <2>1, <2>3, BetweenIsWithin
    <3> QED
      BY <3>3, <3>4, <3>5, OrderAcross
  <2>7. CASE k > l
    <3>1. j \in l .. m
      BY <2>1, <2>7
    <3>2. KnotsUpTo(knots, l, j)
      BY <2>1, <3>1, KnotsInOrder
    <3>3. xl <= xj
      BY <2>2, <3>2 DEF KnotsUpTo
    <3> QED
      BY <2>4, <3>3
  <2> QED
    BY <2>5, <2>6, <2>7
<1> QED
  BY <1>3, <1>4, <1>6, <1>7, <1>8, <1>9 DEF IsApplied

\* Any two probabilities keep their order under the knots of a fit.
LEMMA FittedKnotsKeepOrder == CalibrationInv /\ Fitted => KeepsTheOrder
<1> SUFFICES ASSUME CalibrationInv, Fitted,
                    NEW x \in 0 .. 2 * Grid, NEW y \in 0 .. 2 * Grid, x <= y
             PROVE  NotAbove(ApplyIsotonicRegression((x * Scale) \div 2, Knots),
                             ApplyIsotonicRegression((y * Scale) \div 2, Knots))
  BY DEF KeepsTheOrder, NotAbove
<1>1. PICK m \in Nat \ {0} : Knots \in [1 .. m -> Knot] /\ Sorted(Knots)
  BY FittedKnotsAreSorted
<1>2. PICK knots \in [1 .. m -> Knot] : knots = Knots /\ Sorted(knots)
  BY <1>1
<1>3. PICK top \in Int : top = Grid * Scale /\ 0 < top
  BY CalibrationAssumption DEF CalibrationAssumption, Scale
<1>4. PICK u \in Int, v \in Int :
          /\ u = (x * Scale) \div 2 /\ v = (y * Scale) \div 2
          /\ 0 <= u /\ u <= v /\ v <= top
  <2>1. Grid \in Int /\ x \in Int /\ y \in Int /\ 0 <= x /\ y <= 2 * Grid /\ Scale = 60
    BY CalibrationAssumption DEF CalibrationAssumption, Scale
  <2>2. (x * 60) \div 2 = 30 * x /\ (y * 60) \div 2 = 30 * y
    BY <2>1
  <2> QED
    BY <1>3, <2>1, <2>2
<1>5. PICK lower, higher :
          /\ lower = ApplyIsotonicRegression(u, knots)
          /\ higher = ApplyIsotonicRegression(v, knots)
  OBVIOUS
<1>6. IsApplied(lower, u, top, knots, m)
  BY <1>3, <1>5, AppliedIsOneOfThese
<1>7. IsApplied(higher, v, top, knots, m)
  BY <1>3, <1>5, AppliedIsOneOfThese
<1>8. NotAbove(lower, higher)
  BY <1>2, <1>3, <1>4, <1>6, <1>7, MappingKeepsOrder
<1> QED
  BY <1>2, <1>4, <1>5, <1>8

\* When the loop of fitIsotonicRegression ends, its blocks are the isotonic
\* regression of the samples, assertSortedKnots accepts the knots, and
\* applyIsotonicRegression reorders no two probabilities.
THEOREM CalibrationFitsIsotonically == CalibrationSpec => []CalibrationIsIsotonic
<1>1. CalibrationInv => CalibrationIsIsotonic
  <2>1. CalibrationInv /\ Fitted => Sorted(Knots)
    BY FittedKnotsAreSorted
  <2> QED
    BY <2>1, FittedBlocksFit, FittedKnotsKeepOrder DEF CalibrationIsIsotonic
<1> QED
  BY <1>1, CalibrationKeepsFit, PTL
=============================================================================
