--------------------------- MODULE Console_proofs ---------------------------
(***************************************************************************)
(* Proofs about Console.  The texts that puts prints have any length, so   *)
(* the first section shows that a fold takes its steps one by one.         *)
(***************************************************************************)
EXTENDS Console, LeastFacts, FiniteSetTheorems

\* Induction up to a bound, for a set of numbers instead of a predicate.
LEMMA UpTo ==
  ASSUME NEW N \in Nat, NEW P, 0 \in P,
         \A i \in 1 .. N : i - 1 \in P => i \in P
  PROVE  \A i \in 0 .. N : i \in P
<1> DEFINE bad == (0 .. N) \ P
<1>1. SUFFICES ASSUME bad # {}
               PROVE  FALSE
  OBVIOUS
<1>2. bad \in SUBSET Nat
  OBVIOUS
<1>3. PICK m \in bad : \A k \in bad : m <= k
  <2> HIDE DEF bad
  <2> QED BY <1>1, <1>2, MinIsLeast
<1>4. m \in 1 .. N /\ m - 1 \in 0 .. N
  BY <1>3
<1>5. m - 1 \in P
  BY <1>3, <1>4
<1> QED BY <1>3, <1>4, <1>5

LEMMA MaxIsGreatest ==
  ASSUME NEW N \in Nat, NEW X \in SUBSET (1 .. N), X # {}
  PROVE  Max(X) \in X /\ \A k \in X : k <= Max(X)
<1> DEFINE D == {N - k : k \in X}
<1>1. D \in SUBSET Nat /\ D # {}
  <2>1. \A k \in X : k \in 1 .. N /\ N - k \in Nat
    OBVIOUS
  <2>2. D # {}
    BY Zenon
  <2> QED BY <2>1, <2>2
<1>2. PICK d \in D : \A k \in D : d <= k
  <2> HIDE DEF D
  <2> QED BY <1>1, MinIsLeast
<1>3. PICK m \in X : d = N - m
  BY <1>2
<1>4. \A k \in X : m >= k
  <2> TAKE k \in X
  <2>1. d <= N - k
    BY <1>2
  <2> QED BY <2>1, <1>3
<1>5. Max(X) \in X /\ \A k \in X : Max(X) >= k
  BY <1>4, Zenon DEF Max
<1> QED BY <1>5

LEMMA MaxOfInterval ==
  ASSUME NEW n \in Nat \ {0}
  PROVE  Max(1 .. n) = n /\ (1 .. n) \ {Max(1 .. n)} = 1 .. (n - 1)
<1>1. 1 .. n # {} /\ n \in 1 .. n
  OBVIOUS
<1>2. Max(1 .. n) \in 1 .. n /\ n <= Max(1 .. n)
  BY <1>1, MaxIsGreatest
<1>3. Max(1 .. n) = n
  BY <1>2
<1> QED BY <1>3

\* g is the fold of the steps over sets of positions, last position outermost.
IsFold(g, S, base, N, step) ==
  /\ g \in [SUBSET (1 .. N) -> S]
  /\ \A X \in SUBSET (1 .. N) :
       g[X] = IF X = {} THEN base ELSE step[Max(X)][g[X \ {Max(X)}]]

LEMMA FoldDefined ==
  ASSUME NEW S, NEW base \in S, NEW N \in Nat, NEW step \in [1 .. N -> [S -> S]]
  PROVE  \E g : IsFold(g, S, base, N, step)
<1> DEFINE Defines(g, n) ==
             \A X \in SUBSET (1 .. n) :
               g[X] = IF X = {} THEN base ELSE step[Max(X)][g[X \ {Max(X)}]]
           P == {n \in 0 .. N : \E g \in [SUBSET (1 .. n) -> S] : Defines(g, n)}
<1>1. 0 \in P
  <2> DEFINE g == [X \in SUBSET (1 .. 0) |-> base]
  <2>1. g \in [SUBSET (1 .. 0) -> S]
    OBVIOUS
  <2>2. Defines(g, 0)
    <3>1. \A X \in SUBSET (1 .. 0) : X = {}
      OBVIOUS
    <3> QED BY <3>1
  <2>3. \E f \in [SUBSET (1 .. 0) -> S] : Defines(f, 0)
    <3> HIDE DEF g, Defines
    <3> QED BY <2>1, <2>2
  <2> HIDE DEF Defines
  <2>4. 0 \in 0 .. N
    OBVIOUS
  <2> QED BY <2>3, <2>4, Zenon
<1>2. ASSUME NEW n \in 1 .. N, n - 1 \in P
      PROVE  n \in P
  <2>1. PICK g \in [SUBSET (1 .. (n - 1)) -> S] : Defines(g, n - 1)
    BY <1>2
  <2> DEFINE h == [X \in SUBSET (1 .. n) |->
                     IF n \in X THEN step[n][g[X \ {n}]] ELSE g[X]]
  <2>2. \A X \in SUBSET (1 .. n) :
          IF n \in X THEN X \ {n} \in SUBSET (1 .. (n - 1)) ELSE X \in SUBSET (1 .. (n - 1))
    OBVIOUS
  <2>3. \A X \in SUBSET (1 .. (n - 1)) : X \in SUBSET (1 .. n) /\ n \notin X
    OBVIOUS
  <2>4. h \in [SUBSET (1 .. n) -> S]
    <3>1. ASSUME NEW X \in SUBSET (1 .. n)
          PROVE  (IF n \in X THEN step[n][g[X \ {n}]] ELSE g[X]) \in S
      <4>1. CASE n \in X
        <5>1. g[X \ {n}] \in S
          BY <2>2, <4>1
        <5> QED BY <4>1, <5>1
      <4> QED BY <4>1, <2>2
    <3> QED BY <3>1
  <2>5. ASSUME NEW X \in SUBSET (1 .. n)
        PROVE  h[X] = IF X = {} THEN base ELSE step[Max(X)][h[X \ {Max(X)}]]
    <3>1. CASE n \in X
      <4>1. Max(X) = n
        <5>1. n \in Nat /\ X # {} /\ \A k \in X : k \in 1 .. n
          BY <3>1
        <5>2. Max(X) \in X /\ \A k \in X : k <= Max(X)
          BY <5>1, MaxIsGreatest
        <5>3. n <= Max(X) /\ Max(X) \in 1 .. n
          BY <5>1, <5>2, <3>1
        <5> QED BY <5>3
      <4>2. h[X \ {n}] = g[X \ {n}]
        BY <2>2, <2>3, <3>1
      <4> QED BY <3>1, <4>1, <4>2
    <3>2. CASE n \notin X
      <4>1. X \in SUBSET (1 .. (n - 1)) /\ X \ {Max(X)} \in SUBSET (1 .. (n - 1))
        BY <2>2, <3>2
      <4>2. h[X] = g[X] /\ h[X \ {Max(X)}] = g[X \ {Max(X)}]
        BY <4>1, <2>3
      <4> QED BY <4>1, <4>2, <2>1
    <3> QED BY <3>1, <3>2
  <2>6. \E f \in [SUBSET (1 .. n) -> S] : Defines(f, n)
    <3> HIDE DEF h
    <3> QED BY <2>4, <2>5
  <2> HIDE DEF Defines
  <2>7. n \in 0 .. N
    OBVIOUS
  <2> QED BY <2>6, <2>7, Zenon
<1>3. N \in P
  <2> HIDE DEF P
  <2>1. \A n \in 0 .. N : n \in P
    BY <1>1, <1>2, UpTo
  <2> QED BY <2>1
<1>4. PICK g \in [SUBSET (1 .. N) -> S] : Defines(g, N)
  BY <1>3, Zenon
<1>5. IsFold(g, S, base, N, step)
  BY <1>4 DEF IsFold
<1> HIDE DEF Defines, P
<1> QED BY <1>5

-----------------------------------------------------------------------------
(* Screens and papers                                                      *)

Inks == {WRITTEN, TYPED, BLANK}
Printable == {WRITTEN, TYPED, NEWLINE}
Grids == [Rows -> [Cols -> Inks]]
Screens == [cells : Grids, x : Nat, y : Nat, strayed : BOOLEAN]
Papers == [rows : Grids, ink : Cols]

LEMMA Sizes ==
  /\ NUM_ROWS \in Nat /\ NUM_ROWS > 1 /\ NUM_COLS \in Nat /\ NUM_COLS > 0
  /\ MAX_BUFFER_LENGTH \in Nat /\ MAX_BUFFER_LENGTH > 0
  /\ BYTE \in Nat /\ NUM_ROWS < BYTE /\ NUM_COLS < BYTE
BY SizesAssumption

LEMMA Characters ==
  /\ WRITTEN \in Inks /\ TYPED \in Inks /\ BLANK \in Inks /\ NEWLINE \notin Inks
  /\ Printable \ {NEWLINE} = {WRITTEN, TYPED}
BY DEF Inks, Printable, WRITTEN, TYPED, BLANK, NEWLINE

\* The cell of a place is in one row and one column only.
LEMMA CellOfPlace ==
  ASSUME NEW row \in Nat, NEW col \in Cols
  PROVE  /\ NUM_COLS * row + col \in Nat
         /\ (NUM_COLS * row + col) \div NUM_COLS = row
         /\ (NUM_COLS * row + col) % NUM_COLS = col
<1> DEFINE k == NUM_COLS * row + col
           q == k \div NUM_COLS
           m == k % NUM_COLS
<1>1. NUM_COLS \in Nat /\ NUM_COLS > 0 /\ col \in 0 .. NUM_COLS - 1
  BY Sizes DEF Cols
<1>2. NUM_COLS * row \in Nat
  BY <1>1
<1>3. k \in Nat /\ q \in Int /\ m \in 0 .. NUM_COLS - 1 /\ k = NUM_COLS * q + m
  BY <1>1, <1>2
<1>4. ASSUME NEW i \in Int, NEW j \in Int, i < j
      PROVE  NUM_COLS * i + NUM_COLS <= NUM_COLS * j
  <2>1. NUM_COLS * (j - i - 1) >= 0
    BY <1>1, <1>4
  <2>2. NUM_COLS * (j - i - 1) = NUM_COLS * j - NUM_COLS * i - NUM_COLS
    BY <1>1
  <2> QED BY <2>1, <2>2, <1>1
<1>5. q = row
  <2> HIDE DEF q, m, k
  <2>1. ~ (q < row)
    <3> SUFFICES ASSUME q < row PROVE FALSE
      OBVIOUS
    <3>1. NUM_COLS * q + NUM_COLS <= NUM_COLS * row
      BY <1>3, <1>4
    <3>2. NUM_COLS * q + m = NUM_COLS * row + col
      BY <1>3 DEF k
    <3>3. NUM_COLS * q \in Int
      BY <1>1, <1>3
    <3> QED BY <3>1, <3>2, <3>3, <1>1, <1>2, <1>3
  <2>2. ~ (row < q)
    <3> SUFFICES ASSUME row < q PROVE FALSE
      OBVIOUS
    <3>1. NUM_COLS * row + NUM_COLS <= NUM_COLS * q
      BY <1>3, <1>4
    <3>2. NUM_COLS * q + m = NUM_COLS * row + col
      BY <1>3 DEF k
    <3>3. NUM_COLS * q \in Int
      BY <1>1, <1>3
    <3> QED BY <3>1, <3>2, <3>3, <1>1, <1>2, <1>3
  <2> QED BY <2>1, <2>2, <1>3
<1>6. m = col
  <2> HIDE DEF q, m
  <2> QED BY <1>2, <1>3, <1>5, <1>1
<1> QED BY <1>3, <1>5, <1>6

LEMMA ModOfSmall ==
  ASSUME NEW n \in Nat, NEW a \in 0 .. n - 1
  PROVE  a % n = a
<1> DEFINE q == a \div n
           m == a % n
<1>1. n > 0 /\ q \in Int /\ m \in 0 .. n - 1 /\ a = n * q + m
  OBVIOUS
<1> HIDE DEF q, m
<1>2. ~ (q > 0)
  <2> SUFFICES ASSUME q > 0 PROVE FALSE
    OBVIOUS
  <2>1. n * (q - 1) >= 0 /\ n * (q - 1) = n * q - n
    BY <1>1
  <2> QED BY <2>1, <1>1
<1>3. ~ (q < 0)
  <2> SUFFICES ASSUME q < 0 PROVE FALSE
    OBVIOUS
  <2>1. n * (-1 - q) >= 0 /\ n * (-1 - q) = - n - n * q
    BY <1>1
  <2> QED BY <2>1, <1>1
<1>4. q = 0 /\ n * 0 = 0
  BY <1>1, <1>2, <1>3
<1>5. a = m
  BY <1>1, <1>4
<1> QED BY <1>5 DEF m

LEMMA GridPut ==
  ASSUME NEW G \in Grids, NEW row, NEW col, NEW c \in Inks
  PROVE  /\ [G EXCEPT ![row][col] = c] \in Grids
         /\ \A r \in Rows, k \in Cols :
              [G EXCEPT ![row][col] = c][r][k] = IF r = row /\ k = col THEN c ELSE G[r][k]
BY DEF Grids

LEMMA ClearType == clear \in Grids /\ \A r \in Rows, c \in Cols : clear[r][c] = BLANK
BY Characters DEF clear, BlankRow, Grids

\* One character on a screen: the three ways it can go.
LEMMA PutcType ==
  ASSUME NEW s \in Screens, NEW c \in Printable
  PROVE  /\ putc(s, c) \in Screens
         /\ c # NEWLINE => putc(s, c).y \in Rows /\ putc(s, c).x \in Cols
<1> DEFINE place == NUM_COLS * s.y + s.x
           row == place \div NUM_COLS
<1>1. s.cells \in Grids /\ s.x \in Nat /\ s.y \in Nat /\ s.strayed \in BOOLEAN
  BY DEF Screens
<1>2. CASE c = NEWLINE
  <2>1. putc(s, c) = [cells |-> s.cells, x |-> 0, y |-> s.y + 1, strayed |-> s.strayed]
    BY <1>2 DEF putc, Screens
  <2> QED BY <2>1, <1>1, <1>2 DEF Screens
<1>3. CASE c # NEWLINE
  <2>1. c \in Inks
    BY <1>3, Characters DEF Printable, Inks
  <2> DEFINE G == IF row \in Rows THEN [s.cells EXCEPT ![row][place % NUM_COLS] = c] ELSE s.cells
             cx == (s.x + 1) % NUM_COLS
             cy == (s.y + (s.x + 1) \div NUM_COLS) % NUM_ROWS
             off == s.strayed \/ row \notin Rows
  <2>2. G \in Grids
    <3> HIDE DEF row, place
    <3> QED BY <1>1, <2>1, GridPut
  <2>3. cx \in Cols /\ cx \in Nat
    BY <1>1, Sizes DEF Cols
  <2>4. cy \in Rows /\ cy \in Nat
    <3>1. (s.x + 1) \div NUM_COLS \in Int
      BY <1>1, Sizes
    <3> QED BY <3>1, <1>1, Sizes DEF Rows
  <2>5. putc(s, c) = [s EXCEPT !.cells = G, !.strayed = off, !.x = cx, !.y = cy]
    BY <1>3 DEF putc, Screens
  <2>6. off \in BOOLEAN
    BY Zenon
  <2>7. /\ putc(s, c) = [cells |-> G, x |-> cx, y |-> cy, strayed |-> off]
        /\ putc(s, c) \in Screens
    <3> HIDE DEF G, cx, cy, off
    <3> QED BY <2>2, <2>3, <2>4, <2>5, <2>6 DEF Screens
  <2>8. putc(s, c).x = cx /\ putc(s, c).y = cy
    BY <2>7
  <2> HIDE DEF G, cx, cy, row, place, off
  <2> QED BY <2>3, <2>4, <2>7, <2>8
<1> QED BY <1>2, <1>3

LEMMA FedType ==
  ASSUME NEW rows \in Grids
  PROVE  /\ Fed(rows) \in Grids
         /\ \A k \in Rows, c \in Cols :
              Fed(rows)[k][c] = IF k = 0 THEN BLANK ELSE rows[k - 1][c]
<1>1. BlankRow \in [Cols -> Inks] /\ \A c \in Cols : BlankRow[c] = BLANK
  BY Characters DEF BlankRow
<1>2. \A k \in Rows : k # 0 => k - 1 \in Rows
  BY Sizes DEF Rows
<1> QED BY <1>1, <1>2 DEF Fed, Grids

LEMMA PaperType ==
  ASSUME NEW p \in Papers, NEW c \in Printable
  PROVE  PaperPut(p, c) \in Papers
<1>1. p.rows \in Grids /\ p.ink \in Cols
  BY DEF Papers
<1>2. CASE c = NEWLINE
  <2>1. Fed(p.rows) \in Grids /\ 0 \in Cols
    BY <1>1, FedType, Sizes DEF Cols
  <2> QED BY <1>2, <2>1 DEF PaperPut, Papers
<1>3. CASE c # NEWLINE
  <2> DEFINE filled == [p.rows EXCEPT ![0][p.ink] = c]
  <2>1. c \in Inks
    BY <1>3, Characters DEF Printable, Inks
  <2>2. filled \in Grids
    BY <1>1, <2>1, GridPut
  <2>3. Fed(filled) \in Grids
    <3> HIDE DEF filled
    <3> QED BY <2>2, FedType
  <2>4. 0 \in Cols /\ (p.ink + 1 # NUM_COLS => p.ink + 1 \in Cols)
    BY <1>1, Sizes DEF Cols
  <2>5. PaperPut(p, c) = IF p.ink + 1 = NUM_COLS THEN [rows |-> Fed(filled), ink |-> 0]
                         ELSE [rows |-> filled, ink |-> p.ink + 1]
    BY <1>3 DEF PaperPut
  <2> HIDE DEF filled
  <2> QED BY <2>2, <2>3, <2>4, <2>5 DEF Papers
<1> QED BY <1>2, <1>3

\* puts puts one character after another.
LEMMA PutsSteps ==
  ASSUME NEW s \in Screens, NEW str \in Seq(Printable)
  PROVE  \E a \in [0 .. Len(str) -> Screens] :
           /\ a[0] = s /\ puts(s, str) = a[Len(str)]
           /\ \A n \in 1 .. Len(str) : a[n] = putc(a[n - 1], str[n])
<1> DEFINE N == Len(str)
           step == [n \in 1 .. N |-> [q \in Screens |-> putc(q, str[n])]]
           Folds(h) == h = [X \in SUBSET (DOMAIN str) |->
                              IF X = {} THEN s ELSE putc(h[X \ {Max(X)}], str[Max(X)])]
           iter == CHOOSE h : Folds(h)
           a == [n \in 0 .. N |-> iter[1 .. n]]
<1>1. N \in Nat /\ DOMAIN str = 1 .. N /\ \A n \in 1 .. N : str[n] \in Printable
  OBVIOUS
<1>2. step \in [1 .. N -> [Screens -> Screens]]
  BY <1>1, PutcType
<1>3. PICK g \in [SUBSET (1 .. N) -> Screens] :
        \A X \in SUBSET (1 .. N) :
          g[X] = IF X = {} THEN s ELSE step[Max(X)][g[X \ {Max(X)}]]
  <2> HIDE DEF step, N
  <2>1. \E g : IsFold(g, Screens, s, N, step)
    BY <1>1, <1>2, FoldDefined
  <2> QED BY <2>1 DEF IsFold
<1>4. Folds(g)
  <2>1. ASSUME NEW X \in SUBSET (1 .. N), X # {}
        PROVE  g[X] = putc(g[X \ {Max(X)}], str[Max(X)])
    <3>1. Max(X) \in 1 .. N
      BY <2>1, <1>1, MaxIsGreatest
    <3>2. g[X \ {Max(X)}] \in Screens
      OBVIOUS
    <3>3. step[Max(X)][g[X \ {Max(X)}]] = putc(g[X \ {Max(X)}], str[Max(X)])
      BY <3>1, <3>2
    <3> QED BY <2>1, <3>3, <1>3
  <2> HIDE DEF step, N
  <2> QED BY <1>1, <1>3, <2>1
<1>5. Folds(iter)
  <2> HIDE DEF Folds
  <2> QED BY <1>4
<1>6. puts(s, str) = iter[DOMAIN str]
  BY Zenon DEF puts, FoldLeft, MapThenFoldSet
<1> HIDE DEF iter
<1>7. a[0] = s
  <2>1. 1 .. 0 = {} /\ {} \in SUBSET (DOMAIN str) /\ 0 \in 0 .. N
    BY <1>1
  <2>2. iter[{}] = s
    BY <2>1, <1>5
  <2> QED BY <2>1, <2>2
<1>8. ASSUME NEW n \in 1 .. N
      PROVE  a[n] = putc(a[n - 1], str[n])
  <2>1. 1 .. n # {} /\ 1 .. n \in SUBSET (DOMAIN str)
    BY <1>1
  <2>2. iter[1 .. n] = putc(iter[(1 .. n) \ {Max(1 .. n)}], str[Max(1 .. n)])
    BY <2>1, <1>5
  <2>3. Max(1 .. n) = n /\ (1 .. n) \ {Max(1 .. n)} = 1 .. (n - 1)
    BY MaxOfInterval
  <2>4. a[n] = iter[1 .. n] /\ a[n - 1] = iter[1 .. (n - 1)]
    BY <1>1
  <2> QED BY <2>2, <2>3, <2>4
<1>9. puts(s, str) = a[N]
  BY <1>1, <1>6
<1>10. a \in [0 .. N -> Screens]
  <2> DEFINE P == {n \in 0 .. N : a[n] \in Screens}
  <2> HIDE DEF a
  <2>1. 0 \in P
    BY <1>1, <1>7
  <2>2. ASSUME NEW n \in 1 .. N, n - 1 \in P
        PROVE  n \in P
    BY <2>2, <1>1, <1>8, PutcType
  <2>3. \A n \in 0 .. N : n \in P
    <3> HIDE DEF P, N
    <3> QED BY <1>1, <2>1, <2>2, UpTo
  <2>4. a = [n \in 0 .. N |-> a[n]]
    BY DEF a
  <2> QED BY <2>3, <2>4
<1> HIDE DEF a
<1> QED BY <1>7, <1>8, <1>9, <1>10

\* So does the paper.
LEMMA PrintedSteps ==
  ASSUME NEW s \in Papers, NEW str \in Seq(Printable)
  PROVE  \E a \in [0 .. Len(str) -> Papers] :
           /\ a[0] = s /\ Printed(s, str) = a[Len(str)]
           /\ \A n \in 1 .. Len(str) : a[n] = PaperPut(a[n - 1], str[n])
<1> DEFINE N == Len(str)
           step == [n \in 1 .. N |-> [q \in Papers |-> PaperPut(q, str[n])]]
           Folds(h) == h = [X \in SUBSET (DOMAIN str) |->
                              IF X = {} THEN s ELSE PaperPut(h[X \ {Max(X)}], str[Max(X)])]
           iter == CHOOSE h : Folds(h)
           a == [n \in 0 .. N |-> iter[1 .. n]]
<1>1. N \in Nat /\ DOMAIN str = 1 .. N /\ \A n \in 1 .. N : str[n] \in Printable
  OBVIOUS
<1>2. step \in [1 .. N -> [Papers -> Papers]]
  BY <1>1, PaperType
<1>3. PICK g \in [SUBSET (1 .. N) -> Papers] :
        \A X \in SUBSET (1 .. N) :
          g[X] = IF X = {} THEN s ELSE step[Max(X)][g[X \ {Max(X)}]]
  <2> HIDE DEF step, N
  <2>1. \E g : IsFold(g, Papers, s, N, step)
    BY <1>1, <1>2, FoldDefined
  <2> QED BY <2>1 DEF IsFold
<1>4. Folds(g)
  <2>1. ASSUME NEW X \in SUBSET (1 .. N), X # {}
        PROVE  g[X] = PaperPut(g[X \ {Max(X)}], str[Max(X)])
    <3>1. Max(X) \in 1 .. N
      BY <2>1, <1>1, MaxIsGreatest
    <3>2. g[X \ {Max(X)}] \in Papers
      OBVIOUS
    <3>3. step[Max(X)][g[X \ {Max(X)}]] = PaperPut(g[X \ {Max(X)}], str[Max(X)])
      BY <3>1, <3>2
    <3> QED BY <2>1, <3>3, <1>3
  <2> HIDE DEF step, N
  <2> QED BY <1>1, <1>3, <2>1
<1>5. Folds(iter)
  <2> HIDE DEF Folds
  <2> QED BY <1>4
<1>6. Printed(s, str) = iter[DOMAIN str]
  BY Zenon DEF Printed, FoldLeft, MapThenFoldSet
<1> HIDE DEF iter
<1>7. a[0] = s
  <2>1. 1 .. 0 = {} /\ {} \in SUBSET (DOMAIN str) /\ 0 \in 0 .. N
    BY <1>1
  <2>2. iter[{}] = s
    BY <2>1, <1>5
  <2> QED BY <2>1, <2>2
<1>8. ASSUME NEW n \in 1 .. N
      PROVE  a[n] = PaperPut(a[n - 1], str[n])
  <2>1. 1 .. n # {} /\ 1 .. n \in SUBSET (DOMAIN str)
    BY <1>1
  <2>2. iter[1 .. n] = PaperPut(iter[(1 .. n) \ {Max(1 .. n)}], str[Max(1 .. n)])
    BY <2>1, <1>5
  <2>3. Max(1 .. n) = n /\ (1 .. n) \ {Max(1 .. n)} = 1 .. (n - 1)
    BY MaxOfInterval
  <2>4. a[n] = iter[1 .. n] /\ a[n - 1] = iter[1 .. (n - 1)]
    BY <1>1
  <2> QED BY <2>2, <2>3, <2>4
<1>9. Printed(s, str) = a[N]
  BY <1>1, <1>6
<1>10. a \in [0 .. N -> Papers]
  <2> DEFINE P == {n \in 0 .. N : a[n] \in Papers}
  <2> HIDE DEF a
  <2>1. 0 \in P
    BY <1>1, <1>7
  <2>2. ASSUME NEW n \in 1 .. N, n - 1 \in P
        PROVE  n \in P
    BY <2>2, <1>1, <1>8, PaperType
  <2>3. \A n \in 0 .. N : n \in P
    <3> HIDE DEF P, N
    <3> QED BY <1>1, <2>1, <2>2, UpTo
  <2>4. a = [n \in 0 .. N |-> a[n]]
    BY DEF a
  <2> QED BY <2>3, <2>4
<1> HIDE DEF a
<1> QED BY <1>7, <1>8, <1>9, <1>10

-----------------------------------------------------------------------------
(* Types                                                                   *)

LEMMA PutsType ==
  ASSUME NEW s \in Screens, NEW str \in Seq(Printable)
  PROVE  puts(s, str) \in Screens
<1>1. PICK a \in [0 .. Len(str) -> Screens] : puts(s, str) = a[Len(str)]
  BY PutsSteps
<1>2. Len(str) \in 0 .. Len(str)
  OBVIOUS
<1> QED BY <1>1, <1>2

LEMMA PrintedType ==
  ASSUME NEW p \in Papers, NEW str \in Seq(Printable)
  PROVE  Printed(p, str) \in Papers
<1>1. PICK a \in [0 .. Len(str) -> Papers] : Printed(p, str) = a[Len(str)]
  BY PrintedSteps
<1>2. Len(str) \in 0 .. Len(str)
  OBVIOUS
<1> QED BY <1>1, <1>2

LEMMA TypedType ==
  ASSUME NEW n \in Nat
  PROVE  /\ Typed(n) \in Seq(Printable) /\ Len(Typed(n)) = n
         /\ \A i \in 1 .. n : Typed(n)[i] = TYPED
<1>1. Typed(n) \in [1 .. n -> Printable]
  BY DEF Typed, Printable
<1>2. Typed(n) \in Seq(Printable) /\ DOMAIN Typed(n) = 1 .. n
  BY <1>1
<1>3. Len(Typed(n)) = n
  BY <1>2
<1> QED BY <1>2, <1>3 DEF Typed

\* The echo puts one typed character after another.
LEMMA TypedSteps ==
  ASSUME NEW s \in Screens, NEW n \in Nat
  PROVE  \E a \in [0 .. n -> Screens] :
           /\ a[0] = s /\ puts(s, Typed(n)) = a[n]
           /\ \A i \in 1 .. n : a[i] = putc(a[i - 1], TYPED)
<1> DEFINE t == Typed(n)
<1>1. t \in Seq(Printable) /\ Len(t) = n /\ \A i \in 1 .. n : t[i] = TYPED
  BY TypedType
<1> HIDE DEF t
<1>2. \E a \in [0 .. Len(t) -> Screens] :
        /\ a[0] = s /\ puts(s, t) = a[Len(t)]
        /\ \A i \in 1 .. Len(t) : a[i] = putc(a[i - 1], t[i])
  BY ONLY <1>1, PutsSteps, s \in Screens, Zenon
<1>3. PICK a \in [0 .. n -> Screens] :
        /\ a[0] = s /\ puts(s, t) = a[n]
        /\ \A i \in 1 .. n : a[i] = putc(a[i - 1], t[i])
  BY ONLY <1>1, <1>2, Zenon
<1>4. \A i \in 1 .. n : a[i] = putc(a[i - 1], TYPED)
  BY ONLY <1>1, <1>3, Zenon
<1> QED BY <1>3, <1>4, Zenon DEF t

LEMMA BlankPaperType == BlankPaper \in Papers
BY ClearType, Sizes DEF BlankPaper, Papers, Cols

\* The same for the paper on which nothing is printed but the line.
LEMMA TypedPrints ==
  ASSUME NEW n \in Nat
  PROVE  \E a \in [0 .. n -> Papers] :
           /\ a[0] = BlankPaper /\ Printed(BlankPaper, Typed(n)) = a[n]
           /\ \A i \in 1 .. n : a[i] = PaperPut(a[i - 1], TYPED)
<1> DEFINE t == Typed(n)
<1>1. t \in Seq(Printable) /\ Len(t) = n /\ \A i \in 1 .. n : t[i] = TYPED
  BY TypedType
<1> HIDE DEF t
<1>2. \E a \in [0 .. Len(t) -> Papers] :
        /\ a[0] = BlankPaper /\ Printed(BlankPaper, t) = a[Len(t)]
        /\ \A i \in 1 .. Len(t) : a[i] = PaperPut(a[i - 1], t[i])
  BY ONLY <1>1, PrintedSteps, BlankPaperType, Zenon
<1>3. PICK a \in [0 .. n -> Papers] :
        /\ a[0] = BlankPaper /\ Printed(BlankPaper, t) = a[n]
        /\ \A i \in 1 .. n : a[i] = PaperPut(a[i - 1], t[i])
  BY ONLY <1>1, <1>2, Zenon
<1>4. \A i \in 1 .. n : a[i] = PaperPut(a[i - 1], TYPED)
  BY ONLY <1>1, <1>3, Zenon
<1> QED BY <1>3, <1>4, Zenon DEF t

\* Where the cursor is behind a typed line.
LEMMA EchoType ==
  ASSUME NEW s \in Screens, NEW n \in Nat
  PROVE  LET e == puts(s, Typed(n)) IN
         /\ e \in Screens
         /\ IF n = 0 THEN e.x = s.x /\ e.y = s.y ELSE e.x \in Cols /\ e.y \in Rows
<1>2. PICK a \in [0 .. n -> Screens] :
        /\ a[0] = s /\ puts(s, Typed(n)) = a[n]
        /\ \A i \in 1 .. n : a[i] = putc(a[i - 1], TYPED)
  BY TypedSteps, Zenon
<1>3. CASE n = 0
  BY <1>2, <1>3
<1>4. CASE n # 0
  <2>1. n \in 1 .. n /\ n - 1 \in 0 .. n /\ n \in 0 .. n
    BY <1>4
  <2>2. a[n - 1] \in Screens /\ a[n] = putc(a[n - 1], TYPED)
    BY <2>1, <1>2
  <2>3. TYPED \in Printable /\ TYPED # NEWLINE
    BY DEF Printable, TYPED, NEWLINE
  <2> QED BY <2>1, <2>2, <2>3, <1>2, <1>4, PutcType
<1> QED BY <1>3, <1>4

LEMMA ShiftedType ==
  ASSUME NEW G \in Grids, NEW k \in Nat
  PROVE  [r \in Rows |-> IF r + k \in Rows THEN G[r + k] ELSE BlankRow] \in Grids
<1>1. BlankRow \in [Cols -> Inks]
  BY Characters DEF BlankRow
<1> QED BY <1>1 DEF Grids

LEMMA ErasedType ==
  ASSUME NEW p \in Papers
  PROVE  Erased(p) \in Papers
<1> DEFINE back == [k \in Rows |-> IF k + 1 \in Rows THEN p.rows[k + 1] ELSE BlankRow]
<1>1. p.rows \in Grids /\ p.ink \in Cols
  BY DEF Papers
<1>2. back \in Grids
  BY <1>1, ShiftedType
<1>3. NUM_COLS - 1 \in Cols /\ (p.ink > 0 => p.ink - 1 \in Cols)
  BY <1>1, Sizes DEF Cols
<1>4. /\ [p.rows EXCEPT ![0][p.ink - 1] = BLANK] \in Grids
      /\ [back EXCEPT ![0][NUM_COLS - 1] = BLANK] \in Grids
  <2> HIDE DEF back
  <2> QED BY <1>1, <1>2, GridPut, Characters
<1>5. Erased(p) = IF p.ink > 0
                  THEN [rows |-> [p.rows EXCEPT ![0][p.ink - 1] = BLANK], ink |-> p.ink - 1]
                  ELSE [rows |-> [back EXCEPT ![0][NUM_COLS - 1] = BLANK], ink |-> NUM_COLS - 1]
  BY DEF Erased
<1> HIDE DEF back
<1> QED BY <1>3, <1>4, <1>5 DEF Papers

LEMMA TextType ==
  ASSUME NEW t \in Texts
  PROVE  t \in Seq(Printable) /\ t # <<>> /\ Len(t) \in Nat \ {0} /\ DOMAIN t = 1 .. Len(t)
<1>1. t \in Seq({WRITTEN, NEWLINE}) /\ t # <<>>
  BY TextsAssumption
<1>2. t \in Seq(Printable)
  BY <1>1 DEF Printable
<1> QED BY <1>1, <1>2

\* The newlines among the first n characters.
Newlines(n) == {i \in 1 .. n : text[i] = NEWLINE}

LEMMA NewlinesCounted ==
  ASSUME text \in Seq(Printable)
  PROVE  newline_count \in Nat /\ newline_count = Cardinality(Newlines(Len(text)))
<1>1. DOMAIN text = 1 .. Len(text) /\ Len(text) \in Nat
  OBVIOUS
<1>2. IsFiniteSet(1 .. Len(text))
  BY <1>1, FS_Interval
<1>3. Newlines(Len(text)) \subseteq 1 .. Len(text)
  BY DEF Newlines
<1>4. Cardinality(Newlines(Len(text))) \in Nat
  BY <1>2, <1>3, FS_Subset, FS_CardinalityType
<1> QED BY <1>1, <1>4 DEF newline_count, Newlines

\* current_char leaves room for the newline of the line.
TypeInv == TypeOK /\ (pc \in {"loop", "clear"} => current_char < MAX_BUFFER_LENGTH)

LEMMA TypeFacts ==
  ASSUME TypeOK
  PROVE  /\ cells \in Grids /\ paper \in Papers
         /\ current_line \in Nat /\ char_in_line \in Nat /\ current_char \in Nat
         /\ text \in Seq(Printable)
         /\ At(cells, char_in_line, current_line)
              = [cells |-> cells, x |-> char_in_line, y |-> current_line, strayed |-> strayed]
         /\ At(cells, char_in_line, current_line) \in Screens
<1>1. cells \in Grids /\ paper \in Papers
  BY DEF TypeOK, Grids, Papers, Inks
<1>2. current_line \in Nat /\ char_in_line \in Nat /\ current_char \in Nat
  BY Sizes DEF TypeOK
<1>3. text \in Seq(Printable)
  <2>1. text \in Texts \/ text = <<>>
    BY DEF TypeOK
  <2>2. <<>> \in Seq(Printable)
    OBVIOUS
  <2> QED BY <2>1, <2>2, TextType
<1>4. At(cells, char_in_line, current_line)
        = [cells |-> cells, x |-> char_in_line, y |-> current_line, strayed |-> strayed]
  BY DEF At
<1>5. strayed \in BOOLEAN
  BY DEF TypeOK
<1> QED BY <1>1, <1>2, <1>3, <1>4, <1>5 DEF Screens

\* What is seen of a drawing is a screen, too.
LEMMA SeenType ==
  ASSUME TypeOK, NEW G \in Grids
  PROVE  Seen(G) \in Grids
BY TypeFacts DEF Seen

LEMMA OverType ==
  ASSUME NEW n \in Nat
  PROVE  Over(n) \in Nat /\ n - Over(n) \in Rows /\ n - Over(n) <= n
BY Sizes DEF Over, Rows

LEMMA WriteTypes ==
  ASSUME TypeInv, NEW t \in Texts, Write(t)
  PROVE  TypeInv'
<1> DEFINE line == (current_line + (IF current_char > 0 THEN 1 ELSE 0)) % BYTE
           last == line - Over(line)
           one  == IF last = NUM_ROWS - 1 /\ Len(t) >= NUM_COLS - char_in_line THEN 1 ELSE 0
<1>1. line \in Nat
  BY TypeFacts, Sizes DEF TypeInv
<1>2. Over(line) \in Nat /\ last \in Rows
  <2> HIDE DEF line
  <2> QED BY <1>1, OverType
<1>3. one \in {0, 1} /\ last - one \in Rows /\ Over(line) + one \in Nat
  <2> HIDE DEF line, last
  <2> QED BY <1>2, Sizes DEF Rows
<1>4. cells' = Seen(Shifted(Over(line) + one)) /\ current_line' = last - one
  BY Zenon DEF Write
<1>5. cells' \in Grids
  <2> HIDE DEF line, one
  <2>1. Shifted(Over(line) + one) \in Grids
    BY <1>3, TypeFacts, ShiftedType DEF Shifted, TypeInv
  <2> QED BY <2>1, <1>4, SeenType DEF TypeInv
<1>6. current_line' \in 0 .. BYTE - 1
  <2> HIDE DEF line, one, last
  <2> QED BY <1>3, <1>4, Sizes DEF Rows
<1>7. paper' \in Papers
  <2>1. NEWLINE \in Printable
    BY DEF Printable
  <2> QED BY <2>1, PaperType, TypeFacts DEF Write, TypeInv
<1>8. pc' = "scroll" /\ text' \in Texts \cup {<<>>} /\ current_char' = 0 /\ open' \in BOOLEAN
  BY DEF Write
<1>9. UNCHANGED <<char_in_line, last_current_char, reset_flag, enter_flag, vmap, strayed, x, y,
                  terminal_screen, prev, shift_up>>
  BY DEF Write, cursor
<1> HIDE DEF line, last, one
<1> QED BY <1>5, <1>6, <1>7, <1>8, <1>9, Sizes DEF TypeInv, TypeOK, Grids, Papers, Inks

LEMMA PutTextTypes ==
  ASSUME TypeInv, PutText
  PROVE  TypeInv'
<1> DEFINE whole  == Len(text) # NUM_COLS /\ Last(text) # NEWLINE
           column == IF whole THEN (char_in_line + Len(text)) % BYTE ELSE char_in_line
           nbytes == IF whole THEN Len(text) ELSE Len(text) - 1
           line   == (current_line + newline_count
                        + (IF nbytes >= NUM_COLS - column THEN 1 ELSE 0)) % BYTE
           s      == puts(At(cells, char_in_line, current_line), text)
<1>1. column \in 0 .. BYTE - 1
  BY TypeFacts, Sizes DEF TypeInv, TypeOK
<1>2. line \in Nat
  <2> HIDE DEF nbytes, column
  <2> QED BY TypeFacts, NewlinesCounted, Sizes DEF TypeInv
<1>3. s \in Screens /\ s.cells \in Grids /\ s.strayed \in BOOLEAN
  BY TypeFacts, PutsType DEF TypeInv, Screens
<1>4. IF newline_count = 0
      THEN /\ char_in_line' = column
           /\ UNCHANGED current_line
           /\ cells' = Seen(s.cells)
      ELSE /\ char_in_line' = 0
           /\ current_line' = line - Over(line)
           /\ cells' = Seen([r \in Rows |-> IF r + Over(line) \in Rows
                                            THEN s.cells[r + Over(line)] ELSE BlankRow])
  BY Zenon DEF PutText
<1>5. Over(line) \in Nat /\ line - Over(line) \in 0 .. BYTE - 1
  <2> HIDE DEF line
  <2> QED BY <1>2, OverType, Sizes DEF Rows
<1>6. cells' \in Grids
  <2> HIDE DEF line, s
  <2> DEFINE up == [r \in Rows |-> IF r + Over(line) \in Rows
                                   THEN s.cells[r + Over(line)] ELSE BlankRow]
  <2>1. up \in Grids
    BY <1>3, <1>5, ShiftedType
  <2>2. cells' = Seen(s.cells) \/ cells' = Seen(up)
    BY <1>4
  <2> HIDE DEF up
  <2> QED BY <1>3, <2>1, <2>2, SeenType DEF TypeInv
<1>7. char_in_line' \in 0 .. BYTE - 1 /\ current_line' \in 0 .. BYTE - 1
  <2> HIDE DEF line, s, column
  <2> QED BY <1>1, <1>4, <1>5, Sizes DEF TypeInv, TypeOK
<1>8. paper' \in Papers
  BY TypeFacts, PrintedType DEF PutText, TypeInv
<1>9. /\ x' = char_in_line' /\ y' = current_line' /\ text' \in Texts \cup {<<>>} /\ pc' = "user"
      /\ strayed' = s.strayed
  BY DEF PutText
<1>10. UNCHANGED <<current_char, last_current_char, reset_flag, enter_flag, vmap,
                   terminal_screen, prev, shift_up, open>>
  BY DEF PutText
<1> HIDE DEF line, s, column, nbytes, whole
<1> QED BY <1>3, <1>6, <1>7, <1>8, <1>9, <1>10 DEF TypeInv, TypeOK, Grids, Papers, Inks

LEMMA EchoTypes ==
  ASSUME TypeInv, Echo
  PROVE  TypeInv'
<1> DEFINE up == /\ current_char >= NUM_COLS - char_in_line /\ ~ shift_up
                 /\ current_line >= NUM_ROWS - 1
           line == IF up THEN current_line - 1 ELSE current_line
           room == IF up THEN Shifted(1) ELSE cells
           s == [cells |-> room, x |-> char_in_line, y |-> line, strayed |-> strayed]
           e == puts(s, Typed(current_char))
<1>1. line \in 0 .. BYTE - 1 /\ line \in Nat
  BY Sizes DEF TypeInv, TypeOK
<1>2. room \in Grids
  <2> HIDE DEF up
  <2> QED BY TypeFacts, ShiftedType DEF Shifted, TypeInv
<1>3. s \in Screens
  <2> HIDE DEF line, room
  <2>1. strayed \in BOOLEAN
    BY DEF TypeInv, TypeOK
  <2> QED BY <2>1, <1>1, <1>2, TypeFacts DEF Screens, TypeInv
<1>4. e \in Screens /\ IF current_char = 0 THEN e.x = s.x /\ e.y = s.y
                       ELSE e.x \in Cols /\ e.y \in Rows
  <2> HIDE DEF s
  <2> QED BY <1>3, EchoType, TypeFacts DEF TypeInv
<1>5. Seen(e.cells) \in Grids /\ e.x \in 0 .. BYTE - 1 /\ e.y \in 0 .. BYTE - 1 /\ e.strayed \in BOOLEAN
  <2>1. s.x = char_in_line /\ s.y = line
    OBVIOUS
  <2> HIDE DEF e, s, line
  <2>2. e.cells \in Grids /\ e.strayed \in BOOLEAN
    BY <1>4 DEF Screens
  <2>3. Seen(e.cells) \in Grids
    BY <2>2, SeenType DEF TypeInv
  <2> QED BY <2>1, <2>2, <2>3, <1>1, <1>4, Sizes DEF Screens, Rows, Cols, TypeInv, TypeOK
<1>6. /\ cells' = Seen(e.cells) /\ x' = e.x /\ y' = e.y /\ strayed' = e.strayed
      /\ current_line' = line /\ shift_up' \in BOOLEAN
  <2>1. At(room, char_in_line, line) = s
    <3> HIDE DEF room, line
    <3> QED BY DEF At
  <2> QED BY <2>1, Zenon DEF Echo, TypeInv, TypeOK
<1>7. reset_flag' = FALSE /\ last_current_char' = current_char
  BY DEF Echo
<1>8. UNCHANGED <<char_in_line, current_char, enter_flag, vmap, terminal_screen, pc, text, prev,
                  paper, open>>
  BY DEF Echo
<1> HIDE DEF e, s, line, room
<1> QED BY <1>1, <1>5, <1>6, <1>7, <1>8 DEF TypeInv, TypeOK, Grids, Inks

LEMMA BackspaceTypes ==
  ASSUME TypeInv, Backspace
  PROVE  TypeInv'
<1> DEFINE place == NUM_COLS * terminal_screen[2] + terminal_screen[1] - 1
           row == place \div NUM_COLS
           col == place % NUM_COLS
<1>1. cells' = IF place < 0 THEN cells ELSE [cells EXCEPT ![row][col] = BLANK]
  BY DEF Backspace, backspace_called
<1>2. cells' \in Grids
  <2> HIDE DEF place, row, col
  <2> QED BY <1>1, GridPut, Characters, TypeFacts DEF TypeInv
<1>3. paper' \in Papers
  BY ErasedType, TypeFacts DEF Backspace, TypeInv
<1>4. x' = terminal_screen[1] /\ y' = terminal_screen[2] /\ vmap' = "back" /\ strayed' \in BOOLEAN
  BY DEF Backspace
<1>5. x' \in 0 .. BYTE - 1 /\ y' \in 0 .. BYTE - 1
  BY <1>4 DEF TypeInv, TypeOK
<1>6. /\ current_char' \in 0 .. MAX_BUFFER_LENGTH
      /\ pc = "loop" /\ current_char' < MAX_BUFFER_LENGTH
  BY TypeFacts, Sizes DEF Backspace, Key, TypeInv, TypeOK
<1>7. UNCHANGED <<current_line, char_in_line, last_current_char, reset_flag, enter_flag,
                  terminal_screen, pc, text, prev, shift_up, open>>
  BY DEF Backspace
<1> QED BY <1>2, <1>3, <1>4, <1>5, <1>6, <1>7 DEF TypeInv, TypeOK, Grids, Papers, Inks

LEMMA InitTypes == Init => TypeInv
<1> SUFFICES ASSUME Init PROVE TypeInv
  OBVIOUS
<1>1. cells \in Grids /\ paper \in Papers
  BY ClearType, BlankPaperType DEF Init
<1>2. text \in Texts \cup {<<>>} /\ pc = "user"
  BY DEF Init
<1>3. 0 \in 0 .. BYTE - 1
  BY Sizes
<1>4. terminal_screen \in (0 .. BYTE - 1) \X (0 .. BYTE - 1)
  BY <1>3 DEF Init
<1>5. /\ current_line = 0 /\ char_in_line = 0 /\ current_char = 0 /\ last_current_char = 0
      /\ reset_flag \in BOOLEAN /\ enter_flag \in BOOLEAN /\ x = 0 /\ y = 0
      /\ prev = 0 /\ shift_up \in BOOLEAN /\ open \in BOOLEAN
      /\ vmap = "screen" /\ strayed \in BOOLEAN
  BY DEF Init
<1> QED BY <1>1, <1>2, <1>3, <1>4, <1>5, Sizes DEF TypeInv, TypeOK, Grids, Papers, Inks

LEMMA NextTypes == TypeInv /\ [Next]_vars => TypeInv'
<1> SUFFICES ASSUME TypeInv, [Next]_vars
             PROVE  TypeInv'
  OBVIOUS
<1>1. CASE scheduler
  BY <1>1 DEF scheduler, info, cursor, TypeInv, TypeOK
<1>2. ASSUME NEW t \in Texts, Write(t)
      PROVE  TypeInv'
  BY <1>2, WriteTypes
<1>13. ASSUME NEW t \in Texts, WriteRefused(t)
       PROVE  TypeInv'
  BY <1>13 DEF WriteRefused, vars, info, output, cursor, TypeInv, TypeOK
<1>3. CASE MakeRoom
  <2>1. cells' \in Grids
    <3>1. Shifted(1) \in Grids
      BY ShiftedType, TypeFacts DEF Shifted, TypeInv
    <3> QED BY <1>3, <3>1, SeenType DEF MakeRoom, TypeInv
  <2>2. current_line' \in 0 .. BYTE - 1
    BY <1>3, TypeFacts, Sizes DEF MakeRoom, TypeInv
  <2> QED BY <1>3, <2>1, <2>2 DEF MakeRoom, cursor, TypeInv, TypeOK, Grids, Inks
<1>4. CASE PutText
  BY <1>4, PutTextTypes
<1>5. CASE ReadCalled
  BY <1>5, Sizes DEF ReadCalled, info, output, cursor, TypeInv, TypeOK
<1>6. CASE Echo
  BY <1>6, EchoTypes
<1>7. CASE TakeLine
  <2>1. current_line' \in 0 .. BYTE - 1 /\ x' \in 0 .. BYTE - 1 /\ y' \in 0 .. BYTE - 1
    BY <1>7, Sizes DEF TakeLine, cursor, TypeInv, TypeOK
  <2>2. current_char' \in 0 .. MAX_BUFFER_LENGTH
    BY <1>7, Sizes DEF TakeLine, TypeInv, TypeOK
  <2> QED BY <1>7, <2>1, <2>2 DEF TakeLine, output, TypeInv, TypeOK
<1>8. CASE Type
  <2>1. paper' \in Papers
    <3>1. TYPED \in Printable
      BY DEF Printable
    <3> QED BY <1>8, <3>1, PaperType, TypeFacts DEF Type, TypeInv
  <2>2. current_char' \in 0 .. MAX_BUFFER_LENGTH /\ current_char' < MAX_BUFFER_LENGTH
    BY <1>8, Sizes DEF Type, TypeInv, TypeOK
  <2> QED BY <1>8, <2>1, <2>2 DEF Type, output, cursor, TypeInv, TypeOK, Papers, Grids, Inks
<1>9. CASE Enter
  BY <1>9, Sizes DEF Enter, Key, output, cursor, TypeInv, TypeOK
<1>10. CASE Backspace
  BY <1>10, BackspaceTypes
<1>11. CASE clear_terminal
  <2>1. cells' \in Grids
    BY <1>11, ClearType DEF clear_terminal
  <2> QED BY <1>11, <2>1, Sizes DEF clear_terminal, Key, info, TypeInv, TypeOK, Grids, Inks
<1>14. CASE ClearEnds
  <2>1. paper' \in Papers
    BY <1>14, PrintedType, BlankPaperType, TypedType, TypeFacts DEF ClearEnds, TypeInv
  <2> QED BY <1>14, <2>1, Sizes DEF ClearEnds, output, cursor, TypeInv, TypeOK, Papers, Grids, Inks
<1>12. CASE UNCHANGED vars
  BY <1>12 DEF vars, info, output, cursor, TypeInv, TypeOK
<1> QED
  BY <1>1, <1>2, <1>3, <1>4, <1>5, <1>6, <1>7, <1>8, <1>9, <1>10, <1>11, <1>12, <1>13, <1>14
  DEF Next

\* Every byte, flag, cell and row has its type, whatever programs write and users type:
\* the counts of rows and columns stay bytes, and the buffer has room for the newline that
\* terminal_read adds to the line (devices/terminal.c 113, 114).
THEOREM TypeCorrect == Spec => []TypeOK
<1>1. Spec => []TypeInv
  BY InitTypes, NextTypes, PTL DEF Spec
<1>2. TypeInv => TypeOK
  BY DEF TypeInv
<1> QED BY <1>1, <1>2, PTL

-----------------------------------------------------------------------------
(* One character, on the screen and on the paper                           *)

LEMMA PutcNewline ==
  ASSUME NEW s \in Screens
  PROVE  putc(s, NEWLINE) = [cells |-> s.cells, x |-> 0, y |-> s.y + 1, strayed |-> s.strayed]
BY DEF putc, Screens

LEMMA PutcChar ==
  ASSUME NEW s \in Screens, s.x \in Cols, s.y \in Rows, NEW c \in {WRITTEN, TYPED}
  PROVE  /\ putc(s, c).cells = [s.cells EXCEPT ![s.y][s.x] = c]
         /\ putc(s, c).x = IF s.x + 1 = NUM_COLS THEN 0 ELSE s.x + 1
         /\ s.x + 1 < NUM_COLS => putc(s, c).y = s.y
         /\ s.x + 1 = NUM_COLS /\ s.y + 1 \in Rows => putc(s, c).y = s.y + 1
         /\ putc(s, c).strayed = s.strayed
<1> DEFINE place == NUM_COLS * s.y + s.x
           row == place \div NUM_COLS
           G == IF row \in Rows THEN [s.cells EXCEPT ![row][place % NUM_COLS] = c] ELSE s.cells
           cx == (s.x + 1) % NUM_COLS
           over == (s.x + 1) \div NUM_COLS
           cy == (s.y + over) % NUM_ROWS
           off == s.strayed \/ row \notin Rows
<1>1. c # NEWLINE
  BY Characters DEF Printable
<1>2. putc(s, c) = [cells |-> G, x |-> cx, y |-> cy, strayed |-> off]
  <2>1. putc(s, c) = [s EXCEPT !.cells = G, !.strayed = off, !.x = cx, !.y = cy]
    BY <1>1 DEF putc, Screens
  <2> HIDE DEF G, cx, cy, off
  <2> QED BY <2>1 DEF Screens
<1>3. row = s.y /\ place % NUM_COLS = s.x
  <2>1. s.y \in Nat
    BY Sizes DEF Rows
  <2> QED BY <2>1, CellOfPlace
<1>4. G = [s.cells EXCEPT ![s.y][s.x] = c] /\ off = s.strayed
  BY <1>3 DEF Screens
<1>5. /\ cx = IF s.x + 1 = NUM_COLS THEN 0 ELSE s.x + 1
      /\ over = IF s.x + 1 = NUM_COLS THEN 1 ELSE 0
  <2>1. CASE s.x + 1 = NUM_COLS
    <3>1. 0 \in Cols /\ 1 \in Nat /\ NUM_COLS * 1 + 0 = NUM_COLS
      BY Sizes DEF Cols
    <3>2. (NUM_COLS * 1 + 0) \div NUM_COLS = 1 /\ (NUM_COLS * 1 + 0) % NUM_COLS = 0
      BY <3>1, CellOfPlace
    <3> QED BY <2>1, <3>1, <3>2
  <2>2. CASE s.x + 1 # NUM_COLS
    <3>1. s.x + 1 \in Cols /\ NUM_COLS * 0 + (s.x + 1) = s.x + 1
      BY <2>2, Sizes DEF Cols
    <3>2. /\ (NUM_COLS * 0 + (s.x + 1)) \div NUM_COLS = 0
          /\ (NUM_COLS * 0 + (s.x + 1)) % NUM_COLS = s.x + 1
      BY <3>1, CellOfPlace
    <3> QED BY <2>2, <3>1, <3>2
  <2> QED BY <2>1, <2>2
<1>6. /\ s.x + 1 < NUM_COLS => cy = s.y
      /\ s.x + 1 = NUM_COLS /\ s.y + 1 \in Rows => cy = s.y + 1
  <2>1. over \in {0, 1} /\ (s.x + 1 < NUM_COLS => over = 0) /\ (s.x + 1 = NUM_COLS => over = 1)
    BY <1>5, Sizes DEF Cols
  <2>2. s.y + over \in Rows => cy = s.y + over
    <3> HIDE DEF over
    <3> QED BY ModOfSmall, Sizes DEF Rows
  <2>3. s.y \in Int /\ s.y + 0 = s.y
    BY Sizes DEF Rows
  <2> HIDE DEF over, cy
  <2> QED BY <2>1, <2>2, <2>3
<1> HIDE DEF G, cx, cy, off, place, row, over
<1> QED BY <1>2, <1>4, <1>5, <1>6

LEMMA PaperNewline ==
  ASSUME NEW p \in Papers
  PROVE  PaperPut(p, NEWLINE) = [rows |-> Fed(p.rows), ink |-> 0]
BY DEF PaperPut

LEMMA PaperChar ==
  ASSUME NEW p \in Papers, NEW c \in {WRITTEN, TYPED}
  PROVE  LET filled == [p.rows EXCEPT ![0][p.ink] = c] IN
         PaperPut(p, c) = IF p.ink + 1 = NUM_COLS THEN [rows |-> Fed(filled), ink |-> 0]
                          ELSE [rows |-> filled, ink |-> p.ink + 1]
<1>1. c # NEWLINE
  BY Characters DEF Printable
<1> QED BY <1>1 DEF PaperPut

-----------------------------------------------------------------------------
(* What the screen shows of the paper                                      *)

\* The screen G shows the rows of a paper whose newest row is at row b.
OnScreen(G, rows, b) ==
  \A r \in Rows, c \in Cols :
    /\ r > b => G[r][c] = BLANK
    /\ b - r \in Rows => G[r][c] = rows[b - r][c]

\* Nothing is behind the place where the paper goes on.
BlankBehind(p) == \A c \in Cols : p.ink <= c => p.rows[0][c] = BLANK

LEMMA ShowsIsOnScreen ==
  ASSUME NEW b \in Int
  PROVE  Shows(b) <=> OnScreen(cells, paper.rows, b)
BY Zenon DEF Shows, Agrees, OnScreen

\* The screen moves up, by k rows, with its text.
LEMMA ShiftShows ==
  ASSUME NEW G \in Grids, NEW p \in Papers, NEW b \in 0 .. NUM_ROWS, NEW k \in Nat,
         OnScreen(G, p.rows, b), b = NUM_ROWS => p.ink = 0, BlankBehind(p)
  PROVE  OnScreen([r \in Rows |-> IF r + k \in Rows THEN G[r + k] ELSE BlankRow], p.rows, b - k)
<1> DEFINE H == [r \in Rows |-> IF r + k \in Rows THEN G[r + k] ELSE BlankRow]
<1> SUFFICES ASSUME NEW r \in Rows, NEW c \in Cols
             PROVE  /\ r > b - k => H[r][c] = BLANK
                    /\ (b - k) - r \in Rows => H[r][c] = p.rows[(b - k) - r][c]
  BY Zenon DEF OnScreen
<1>1. CASE r + k \in Rows
  <2>1. H[r][c] = G[r + k][c]
    BY <1>1
  <2>2. /\ r + k > b => G[r + k][c] = BLANK
        /\ b - (r + k) \in Rows => G[r + k][c] = p.rows[b - (r + k)][c]
    BY <1>1, Zenon DEF OnScreen
  <2>3. (b - k) - r = b - (r + k) /\ (r > b - k => r + k > b)
    BY Sizes DEF Rows
  <2> HIDE DEF H
  <2> QED BY <2>1, <2>2, <2>3
<1>2. CASE r + k \notin Rows
  <2>1. H[r][c] = BLANK
    BY <1>2 DEF BlankRow
  <2>2. ASSUME (b - k) - r \in Rows
        PROVE  p.rows[(b - k) - r][c] = BLANK
    <3>1. b = NUM_ROWS /\ (b - k) - r = 0
      BY <1>2, <2>2, Sizes DEF Rows
    <3>2. p.ink <= c
      BY <3>1, Sizes DEF Cols
    <3> QED BY <3>1, <3>2 DEF BlankBehind
  <2> HIDE DEF H
  <2> QED BY <2>1, <2>2
<1> QED BY <1>1, <1>2

\* A new row on both.
LEMMA FeedShows ==
  ASSUME NEW G \in Grids, NEW rows \in Grids, NEW b \in Nat, OnScreen(G, rows, b)
  PROVE  OnScreen(G, Fed(rows), b + 1)
<1> SUFFICES ASSUME NEW r \in Rows, NEW c \in Cols
             PROVE  /\ r > b + 1 => G[r][c] = BLANK
                    /\ (b + 1) - r \in Rows => G[r][c] = Fed(rows)[(b + 1) - r][c]
  BY Zenon DEF OnScreen
<1>1. /\ r > b => G[r][c] = BLANK
      /\ b - r \in Rows => G[r][c] = rows[b - r][c]
  BY Zenon DEF OnScreen
<1>2. r > b + 1 => G[r][c] = BLANK
  BY <1>1, Sizes DEF Rows
<1>3. ASSUME (b + 1) - r \in Rows
      PROVE  G[r][c] = Fed(rows)[(b + 1) - r][c]
  <2>1. Fed(rows)[(b + 1) - r][c] = IF (b + 1) - r = 0 THEN BLANK ELSE rows[(b + 1) - r - 1][c]
    BY <1>3, FedType
  <2>2. CASE (b + 1) - r = 0
    <3>1. r > b
      BY <2>2, Sizes DEF Rows
    <3> QED BY <2>1, <2>2, <3>1, <1>1
  <2>3. CASE (b + 1) - r # 0
    <3>1. b - r \in Rows /\ (b + 1) - r - 1 = b - r
      BY <2>3, <1>3, Sizes DEF Rows
    <3> QED BY <2>1, <2>3, <3>1, <1>1
  <2> QED BY <2>2, <2>3
<1> QED BY <1>2, <1>3

\* A character at the same place on both.
LEMMA CharShows ==
  ASSUME NEW G \in Grids, NEW rows \in Grids, NEW b \in Rows, NEW col \in Cols, NEW k \in Inks,
         OnScreen(G, rows, b)
  PROVE  OnScreen([G EXCEPT ![b][col] = k], [rows EXCEPT ![0][col] = k], b)
<1> DEFINE H == [G EXCEPT ![b][col] = k]
           q == [rows EXCEPT ![0][col] = k]
<1> SUFFICES ASSUME NEW r \in Rows, NEW c \in Cols
             PROVE  /\ r > b => H[r][c] = BLANK
                    /\ b - r \in Rows => H[r][c] = q[b - r][c]
  BY Zenon DEF OnScreen
<1>1. /\ r > b => G[r][c] = BLANK
      /\ b - r \in Rows => G[r][c] = rows[b - r][c]
  BY Zenon DEF OnScreen
<1>2. H[r][c] = IF r = b /\ c = col THEN k ELSE G[r][c]
  BY DEF Grids
<1>3. b - r \in Rows => q[b - r][c] = IF b - r = 0 /\ c = col THEN k ELSE rows[b - r][c]
  BY DEF Grids
<1> HIDE DEF H, q
<1> QED BY <1>1, <1>2, <1>3, Sizes DEF Rows

-----------------------------------------------------------------------------
(* A text, and a line that is typed                                        *)

LEMMA NewlinesStep ==
  ASSUME NEW n \in Nat \ {0}
  PROVE  /\ text[n] = NEWLINE => /\ Newlines(n) # {}
                                 /\ Cardinality(Newlines(n)) = Cardinality(Newlines(n - 1)) + 1
         /\ text[n] # NEWLINE => Newlines(n) = Newlines(n - 1)
         /\ Newlines(0) = {} /\ Cardinality(Newlines(0)) = 0
         /\ Cardinality(Newlines(n)) \in Nat /\ Cardinality(Newlines(n - 1)) \in Nat
<1>1. IsFiniteSet(Newlines(n)) /\ IsFiniteSet(Newlines(n - 1))
  <2>1. IsFiniteSet(1 .. n) /\ IsFiniteSet(1 .. (n - 1))
    BY FS_Interval
  <2>2. Newlines(n) \subseteq 1 .. n /\ Newlines(n - 1) \subseteq 1 .. (n - 1)
    BY DEF Newlines
  <2> QED BY <2>1, <2>2, FS_Subset
<1>2. Cardinality(Newlines(n)) \in Nat /\ Cardinality(Newlines(n - 1)) \in Nat
  BY <1>1, FS_CardinalityType
<1>3. ASSUME text[n] = NEWLINE
      PROVE  /\ Newlines(n) # {}
             /\ Cardinality(Newlines(n)) = Cardinality(Newlines(n - 1)) + 1
  <2>1. Newlines(n) = Newlines(n - 1) \cup {n} /\ n \notin Newlines(n - 1)
    BY <1>3 DEF Newlines
  <2> QED BY <2>1, <1>1, FS_AddElement
<1>4. text[n] # NEWLINE => Newlines(n) = Newlines(n - 1)
  BY DEF Newlines
<1>5. Newlines(0) = {}
  BY DEF Newlines
<1>6. Cardinality(Newlines(0)) = 0
  BY <1>5, FS_EmptySet
<1> QED BY <1>2, <1>3, <1>4, <1>5, <1>6

\* The newlines of a tidy text are its end.
LEMMA TidyText ==
  ASSUME Tidy, text \in Texts, NEW n \in 1 .. Len(text), text[n] # NEWLINE
  PROVE  Newlines(n) = {}
<1>1. DOMAIN text = 1 .. Len(text) /\ Len(text) \in Nat
  BY TextType
<1>2. \A i, j \in DOMAIN text : i <= j /\ text[i] = NEWLINE => text[j] = NEWLINE
  BY DEF Tidy
<1> QED BY <1>1, <1>2 DEF Newlines

\* Screen s and paper p, where both began at column col of row row, after n
\* characters of text.
InStep(s, p, col, row, n) ==
  /\ s.x = p.ink /\ s.y = row + Cardinality(Newlines(n))
  /\ p.ink = IF Newlines(n) = {} THEN col + n ELSE 0
  /\ BlankBehind(p) /\ OnScreen(s.cells, p.rows, s.y) /\ ~ s.strayed

\* One character of a tidy text.
LEMMA TextStep ==
  ASSUME Tidy, text \in Texts, NEW s \in Screens, NEW p \in Papers,
         NEW col \in Cols, NEW row \in Rows, col + Len(text) < NUM_COLS,
         NEW n \in 1 .. Len(text), InStep(s, p, col, row, n - 1)
  PROVE  InStep(putc(s, text[n]), PaperPut(p, text[n]), col, row, n)
<1>1. /\ n \in Nat \ {0} /\ Len(text) \in Nat /\ text[n] \in {WRITTEN, NEWLINE}
      /\ row \in Nat /\ col \in Nat
  <2>1. text \in Seq({WRITTEN, NEWLINE})
    BY TextsAssumption
  <2> QED BY <2>1, Sizes DEF Rows, Cols
<1>2. s.cells \in Grids /\ s.y \in Nat /\ p.rows \in Grids /\ p.ink \in Cols
  BY DEF Screens, Papers
<1>3. CASE text[n] = NEWLINE
  <2>1. Newlines(n) # {} /\ Cardinality(Newlines(n)) = Cardinality(Newlines(n - 1)) + 1
    BY <1>1, <1>3, NewlinesStep
  <2>2. /\ putc(s, text[n]) = [cells |-> s.cells, x |-> 0, y |-> s.y + 1, strayed |-> s.strayed]
        /\ PaperPut(p, text[n]) = [rows |-> Fed(p.rows), ink |-> 0]
    BY <1>3, PutcNewline, PaperNewline
  <2>3. OnScreen(s.cells, Fed(p.rows), s.y + 1)
    BY <1>2, FeedShows DEF InStep
  <2>4. s.y + 1 = row + Cardinality(Newlines(n))
    BY <2>1, <1>1, NewlinesStep DEF InStep
  <2>5. BlankBehind(PaperPut(p, text[n]))
    <3>1. 0 \in Rows /\ \A c \in Cols : Fed(p.rows)[0][c] = BLANK
      BY <1>2, FedType, Sizes DEF Rows
    <3> QED BY <3>1, <2>2 DEF BlankBehind
  <2> QED BY <2>1, <2>2, <2>3, <2>4, <2>5 DEF InStep
<1>4. CASE text[n] # NEWLINE
  <2>1. Newlines(n) = {} /\ Newlines(n - 1) = {} /\ Cardinality(Newlines(n - 1)) = 0
    BY <1>1, <1>4, TidyText, NewlinesStep, FS_EmptySet
  <2>2. s.y = row /\ s.x = p.ink /\ p.ink = col + n - 1 /\ p.ink + 1 < NUM_COLS
    BY <2>1, <1>1, Sizes DEF InStep
  <2> DEFINE G == [s.cells EXCEPT ![s.y][s.x] = text[n]]
             filled == [p.rows EXCEPT ![0][p.ink] = text[n]]
  <2>3. /\ putc(s, text[n]).cells = G /\ putc(s, text[n]).x = s.x + 1
        /\ putc(s, text[n]).y = s.y /\ putc(s, text[n]).strayed = s.strayed
    <3>1. text[n] \in {WRITTEN, TYPED} /\ s.x \in Cols /\ s.y \in Rows /\ s.x + 1 # NUM_COLS
      BY <2>2, <1>1, <1>2, <1>4, Sizes DEF Cols
    <3> QED BY <3>1, <2>2, PutcChar
  <2>4. PaperPut(p, text[n]) = [rows |-> filled, ink |-> p.ink + 1]
    <3>1. text[n] \in {WRITTEN, TYPED} /\ p.ink + 1 # NUM_COLS
      BY <2>2, <1>1, <1>2, <1>4, Sizes DEF Cols
    <3> QED BY <3>1, PaperChar
  <2>5. OnScreen(G, filled, s.y)
    <3>1. text[n] \in Inks /\ s.y \in Rows /\ s.x \in Cols /\ s.x = p.ink
      BY <2>2, <1>1, <1>2, <1>4, Characters DEF Inks
    <3>2. OnScreen(s.cells, p.rows, s.y)
      BY DEF InStep
    <3> QED BY <3>1, <3>2, <1>2, CharShows
  <2>6. BlankBehind(PaperPut(p, text[n]))
    <3>1. \A c \in Cols : p.ink + 1 <= c => filled[0][c] = p.rows[0][c] /\ p.ink <= c
      BY <1>2, Sizes DEF Grids, Rows, Cols
    <3>2. \A c \in Cols : p.ink + 1 <= c => filled[0][c] = BLANK
      <4> HIDE DEF filled
      <4> QED BY <3>1 DEF BlankBehind, InStep
    <3> HIDE DEF filled
    <3> QED BY <2>4, <3>2 DEF BlankBehind
  <2>7. p.ink + 1 = col + n /\ s.y = row + Cardinality(Newlines(n))
    <3>1. Cardinality(Newlines(n)) = 0
      BY <2>1
    <3> QED BY <3>1, <2>2, <1>1, Sizes DEF Cols
  <2> HIDE DEF G, filled
  <2>8. PaperPut(p, text[n]).ink = p.ink + 1 /\ PaperPut(p, text[n]).rows = filled
    BY <2>4
  <2> QED BY <2>1, <2>2, <2>3, <2>5, <2>6, <2>7, <2>8 DEF InStep
<1> QED BY <1>3, <1>4

\* A tidy text leaves the screen and the paper in step.
LEMMA TextInStep ==
  ASSUME Tidy, text \in Texts, NEW s \in Screens, NEW p \in Papers,
         s.x \in Cols, s.y \in Rows, s.x + Len(text) < NUM_COLS, s.x = p.ink,
         BlankBehind(p), OnScreen(s.cells, p.rows, s.y), ~ s.strayed
  PROVE  InStep(puts(s, text), Printed(p, text), s.x, s.y, Len(text))
<1> DEFINE N == Len(text)
<1>1. text \in Seq(Printable) /\ N \in Nat \ {0}
  BY TextType
<1>2. PICK a \in [0 .. N -> Screens] :
        /\ a[0] = s /\ puts(s, text) = a[N]
        /\ \A n \in 1 .. N : a[n] = putc(a[n - 1], text[n])
  BY <1>1, PutsSteps
<1>3. PICK b \in [0 .. N -> Papers] :
        /\ b[0] = p /\ Printed(p, text) = b[N]
        /\ \A n \in 1 .. N : b[n] = PaperPut(b[n - 1], text[n])
  BY <1>1, PrintedSteps
<1> DEFINE P == {n \in 0 .. N : InStep(a[n], b[n], s.x, s.y, n)}
<1>4. 0 \in P
  <2>1. Newlines(0) = {} /\ Cardinality(Newlines(0)) = 0
    BY <1>1, NewlinesStep
  <2>2. s.x + 0 = s.x /\ s.y + 0 = s.y
    BY DEF Screens
  <2>3. InStep(s, p, s.x, s.y, 0)
    BY <2>1, <2>2 DEF InStep
  <2> QED BY <2>3, <1>1, <1>2, <1>3
<1>5. ASSUME NEW n \in 1 .. N, n - 1 \in P
      PROVE  n \in P
  <2>1. n - 1 \in 0 .. N /\ n \in 0 .. N
    BY <1>1
  <2>2. a[n - 1] \in Screens /\ b[n - 1] \in Papers /\ InStep(a[n - 1], b[n - 1], s.x, s.y, n - 1)
    BY <2>1, <1>5
  <2>3. InStep(putc(a[n - 1], text[n]), PaperPut(b[n - 1], text[n]), s.x, s.y, n)
    BY <2>2, TextStep
  <2> QED BY <2>1, <2>3, <1>2, <1>3
<1>6. \A n \in 0 .. N : n \in P
  <2> HIDE DEF P, N
  <2> QED BY <1>1, <1>4, <1>5, UpTo
<1>7. N \in 0 .. N
  BY <1>1
<1> QED BY <1>2, <1>3, <1>6, <1>7

\* A typed line of n characters behind column col of row row takes cell (r, c).
Line(row, col, n, r, c) ==
  \/ r = row /\ col <= c /\ c < col + n
  \/ r = row + 1 /\ c < col + n - NUM_COLS

\* e is the screen s with such a line behind its cursor.
Drawn(s, e, n) ==
  /\ IF s.x + n < NUM_COLS THEN e.x = s.x + n /\ e.y = s.y
     ELSE e.x = s.x + n - NUM_COLS /\ e.y = s.y + 1
  /\ e.strayed = s.strayed
  /\ \A r \in Rows, c \in Cols :
       e.cells[r][c] = IF Line(s.y, s.x, n, r, c) THEN TYPED ELSE s.cells[r][c]

LEMMA DrawnStep ==
  ASSUME NEW s \in Screens, s.x \in Cols, s.y \in Rows, NEW n \in Nat \ {0},
         s.x + n < 2 * NUM_COLS, s.x + n >= NUM_COLS => s.y + 1 \in Rows,
         NEW e \in Screens, Drawn(s, e, n - 1)
  PROVE  Drawn(s, putc(e, TYPED), n)
<1> DEFINE G == [e.cells EXCEPT ![e.y][e.x] = TYPED]
<1>1. s.x \in Nat /\ s.y \in Nat /\ e.cells \in Grids
  BY DEF Screens
<1>2. /\ e.x \in Cols /\ e.y \in Rows
      /\ IF s.x + n - 1 < NUM_COLS THEN e.x = s.x + n - 1 /\ e.y = s.y
         ELSE e.x = s.x + n - 1 - NUM_COLS /\ e.y = s.y + 1
  BY <1>1, Sizes DEF Drawn, Rows, Cols
<1>3. putc(e, TYPED).cells = G /\ putc(e, TYPED).strayed = s.strayed
  BY <1>2, PutcChar DEF Drawn
<1>4. IF s.x + n < NUM_COLS THEN putc(e, TYPED).x = s.x + n /\ putc(e, TYPED).y = s.y
      ELSE putc(e, TYPED).x = s.x + n - NUM_COLS /\ putc(e, TYPED).y = s.y + 1
  <2>1. /\ putc(e, TYPED).x = IF e.x + 1 = NUM_COLS THEN 0 ELSE e.x + 1
        /\ e.x + 1 < NUM_COLS => putc(e, TYPED).y = e.y
        /\ e.x + 1 = NUM_COLS /\ e.y + 1 \in Rows => putc(e, TYPED).y = e.y + 1
    BY <1>2, PutcChar
  <2>2. CASE s.x + n < NUM_COLS
    BY <1>1, <1>2, <2>1, <2>2, Sizes DEF Cols
  <2>3. CASE s.x + n = NUM_COLS
    BY <1>1, <1>2, <2>1, <2>3, Sizes DEF Cols
  <2>4. CASE s.x + n > NUM_COLS
    BY <1>1, <1>2, <2>1, <2>4, Sizes DEF Cols
  <2> QED BY <2>2, <2>3, <2>4, <1>1, Sizes
<1>5. ASSUME NEW r \in Rows, NEW c \in Cols
      PROVE  G[r][c] = IF Line(s.y, s.x, n, r, c) THEN TYPED ELSE s.cells[r][c]
  <2>1. G[r][c] = IF r = e.y /\ c = e.x THEN TYPED ELSE e.cells[r][c]
    BY <1>1, <1>2 DEF Grids
  <2>2. e.cells[r][c] = IF Line(s.y, s.x, n - 1, r, c) THEN TYPED ELSE s.cells[r][c]
    BY DEF Drawn
  <2>3. Line(s.y, s.x, n, r, c) <=> (r = e.y /\ c = e.x) \/ Line(s.y, s.x, n - 1, r, c)
    BY <1>1, <1>2, Sizes DEF Line, Rows, Cols
  <2> HIDE DEF G
  <2> QED BY <2>1, <2>2, <2>3
<1> HIDE DEF G
<1> QED BY <1>3, <1>4, <1>5 DEF Drawn

LEMMA LineDrawn ==
  ASSUME NEW s \in Screens, s.x \in Cols, s.y \in Rows, NEW n \in Nat,
         s.x + n < 2 * NUM_COLS, s.x + n >= NUM_COLS => s.y + 1 \in Rows
  PROVE  Drawn(s, puts(s, Typed(n)), n)
<1>2. PICK a \in [0 .. n -> Screens] :
        /\ a[0] = s /\ puts(s, Typed(n)) = a[n]
        /\ \A i \in 1 .. n : a[i] = putc(a[i - 1], TYPED)
  BY TypedSteps, Zenon
<1> DEFINE P == {i \in 0 .. n : Drawn(s, a[i], i)}
<1>3. 0 \in P
  <2>1. \A r \in Rows, c \in Cols : ~ Line(s.y, s.x, 0, r, c)
    BY Sizes DEF Line, Cols
  <2>2. s.x + 0 = s.x /\ s.x < NUM_COLS
    BY Sizes DEF Cols
  <2>3. Drawn(s, s, 0)
    BY <2>1, <2>2 DEF Drawn
  <2> QED BY <1>2, <2>3
<1>4. ASSUME NEW i \in 1 .. n, i - 1 \in P
      PROVE  i \in P
  <2>1. i \in Nat \ {0} /\ i - 1 \in 0 .. n /\ i \in 0 .. n
    OBVIOUS
  <2>2. a[i - 1] \in Screens /\ Drawn(s, a[i - 1], i - 1)
    BY <2>1, <1>4
  <2>3. s.x + i < 2 * NUM_COLS /\ (s.x + i >= NUM_COLS => s.y + 1 \in Rows)
    BY <2>1, Sizes DEF Cols
  <2>4. Drawn(s, putc(a[i - 1], TYPED), i)
    BY <2>1, <2>2, <2>3, DrawnStep
  <2> QED BY <2>1, <2>4, <1>2
<1>5. \A i \in 0 .. n : i \in P
  <2> HIDE DEF P
  <2> QED BY <1>3, <1>4, UpTo
<1> QED BY <1>2, <1>5

-----------------------------------------------------------------------------
(* The place of the next text                                              *)

LEMMA PlaceTypes ==
  ASSUME PlaceInv
  PROVE  /\ TypeInv /\ TypeOK /\ cells \in Grids /\ paper \in Papers /\ paper.rows \in Grids
         /\ paper.ink \in Cols /\ current_line \in Rows /\ BlankBehind(paper)
<1>1. TypeInv /\ TypeOK /\ current_line \in Rows /\ BlankBehind(paper)
  BY Sizes DEF PlaceInv, ReadInv, ClearInv, TypeInv, BlankBehind
<1> QED BY <1>1, TypeFacts DEF Papers

\* What the next write finds once the typed line is left.
LEMMA WriteFinds ==
  ASSUME PlaceInv, Tidy, NEW t \in Texts, Write(t)
  PROVE  LET line == (current_line + (IF current_char > 0 THEN 1 ELSE 0)) % BYTE IN
         /\ line \in 0 .. NUM_ROWS /\ OnScreen(cells, paper'.rows, line)
         /\ BlankBehind(paper') /\ paper' \in Papers
         /\ paper'.ink = char_in_line /\ (line = NUM_ROWS => char_in_line = 0)
<1> DEFINE line == (current_line + (IF current_char > 0 THEN 1 ELSE 0)) % BYTE
<1>1. /\ TypeInv /\ cells \in Grids /\ paper \in Papers /\ paper.rows \in Grids /\ paper.ink \in Cols
      /\ current_line \in Rows /\ BlankBehind(paper) /\ current_line \in Int /\ current_line + 1 \in Int
  BY PlaceTypes DEF Rows
<1>2. pc = "user" /\ UserInv
  BY DEF Write, PlaceInv
<1>3. paper' = IF open THEN PaperPut(paper, NEWLINE) ELSE paper
  BY DEF Write
<1>4. CASE current_char = 0
  <2>1. line = current_line
    <3>1. current_line + 0 = current_line /\ current_line \in 0 .. BYTE - 1
      BY <1>1, Sizes DEF Rows
    <3> QED BY <3>1, <1>4, Sizes, ModOfSmall
  <2>2. ~ open /\ char_in_line = paper.ink /\ OnScreen(cells, paper.rows, current_line)
    BY <1>1, <1>2, <1>4, ShowsIsOnScreen DEF UserInv
  <2>3. paper' = paper /\ current_line \in 0 .. NUM_ROWS /\ current_line # NUM_ROWS
    BY <1>1, <1>3, <2>2, Sizes DEF Rows
  <2> QED BY <1>1, <2>1, <2>2, <2>3
<1>5. CASE current_char # 0
  <2>1. line = current_line + 1 /\ current_char > 0
    <3>1. current_char > 0 /\ current_line + 1 \in 0 .. BYTE - 1
      BY <1>1, <1>5, Sizes DEF Rows, TypeInv, TypeOK
    <3> QED BY <3>1, Sizes, ModOfSmall
  <2>2. current_line + 1 \in 0 .. NUM_ROWS /\ char_in_line = 0
    BY <1>1, <1>2, <2>1, Sizes DEF UserInv, Rows
  <2>3. CASE open
    <3>1. OnScreen(cells, paper.rows, current_line)
      BY <1>1, <1>2, <2>1, <2>3, ShowsIsOnScreen DEF UserInv
    <3>2. paper' = [rows |-> Fed(paper.rows), ink |-> 0]
      BY <1>1, <1>3, <2>3, PaperNewline
    <3>3. OnScreen(cells, Fed(paper.rows), current_line + 1)
      BY <1>1, <3>1, FeedShows, Sizes DEF Rows
    <3>4. Fed(paper.rows) \in Grids /\ \A c \in Cols : Fed(paper.rows)[0][c] = BLANK
      BY <1>1, FedType, Sizes DEF Rows
    <3>5. BlankBehind(paper') /\ paper' \in Papers
      BY <3>2, <3>4, Sizes DEF BlankBehind, Papers, Cols
    <3> QED BY <2>1, <2>2, <3>2, <3>3, <3>5
  <2>4. CASE ~ open
    <3>1. paper.ink = 0 /\ OnScreen(cells, paper.rows, current_line + 1)
      BY <1>1, <1>2, <2>1, <2>4, ShowsIsOnScreen DEF UserInv
    <3> QED BY <1>1, <1>3, <2>1, <2>2, <2>4, <3>1
  <2> QED BY <2>3, <2>4
<1> QED BY <1>4, <1>5

LEMMA WritePlace ==
  ASSUME PlaceInv, Tidy, TypeOK', NEW t \in Texts, Write(t)
  PROVE  PlaceInv'
<1> DEFINE line == (current_line + (IF current_char > 0 THEN 1 ELSE 0)) % BYTE
           last == line - Over(line)
           one  == IF last = NUM_ROWS - 1 /\ Len(t) >= NUM_COLS - char_in_line THEN 1 ELSE 0
<1>1. /\ line \in 0 .. NUM_ROWS /\ OnScreen(cells, paper'.rows, line)
      /\ BlankBehind(paper') /\ paper' \in Papers
      /\ paper'.ink = char_in_line /\ (line = NUM_ROWS => char_in_line = 0)
  BY WriteFinds
<1>2. char_in_line + Len(t) < NUM_COLS
  BY DEF Write, Tidy
<1>3. one = 0
  <2>1. char_in_line \in Int /\ Len(t) \in Int
    BY TextType, PlaceTypes, TypeFacts
  <2> HIDE DEF last
  <2> QED BY <1>2, <2>1, Sizes
<1>4. Over(line) \in Nat /\ last \in Rows
  <2> HIDE DEF line
  <2> QED BY <1>1, OverType, Sizes
<1>5. cells' = Shifted(Over(line) + one) /\ current_line' = last - one
  <2>1. cells' = Seen(Shifted(Over(line) + one)) /\ current_line' = last - one
    BY Zenon DEF Write
  <2>2. vmap = "screen"
    BY DEF Write, PlaceInv, UserInv
  <2> HIDE DEF line, last, one
  <2> QED BY <2>1, <2>2 DEF Seen
<1>6. cells' = Shifted(Over(line)) /\ current_line' = last
  <2>1. Over(line) + 0 = Over(line) /\ last - 0 = last
    <3> HIDE DEF last, line
    <3> QED BY <1>4 DEF Rows
  <2> HIDE DEF one, line, last
  <2> QED BY <1>3, <1>5, <2>1
<1>7. OnScreen(cells', paper'.rows, current_line')
  <2> HIDE DEF line
  <2> QED BY <1>1, <1>4, <1>6, ShiftShows, PlaceTypes DEF Shifted
<1>8. /\ pc' = "scroll" /\ text' = t /\ current_char' = 0 /\ open' = FALSE /\ pc = "user"
      /\ UNCHANGED <<char_in_line, reset_flag, enter_flag, vmap, strayed>>
  BY DEF Write
<1>9. Quiet' /\ vmap' = "screen" /\ ~ strayed'
  BY <1>8 DEF PlaceInv, UserInv, Quiet
<1>10. Shows(current_line)'
  BY <1>7, Zenon DEF Shows, Agrees, OnScreen
<1>11. WriteInv'
  BY <1>1, <1>2, <1>8, <1>9, <1>10 DEF WriteInv
<1>12. UserInv' /\ ReadInv' /\ ClearInv'
  BY <1>8 DEF UserInv, ReadInv, ClearInv
<1> HIDE DEF line, last
<1> QED BY <1>1, <1>4, <1>6, <1>9, <1>11, <1>12 DEF PlaceInv, BlankBehind

LEMMA MakeRoomPlace ==
  ASSUME PlaceInv, Tidy, TypeOK', MakeRoom
  PROVE  PlaceInv'
<1>1. pc = "scroll" /\ WriteInv
  BY DEF MakeRoom, PlaceInv
<1>2. text \in Texts /\ OnScreen(cells, paper.rows, current_line) /\ current_line \in Rows
  BY <1>1, PlaceTypes, ShowsIsOnScreen, Sizes DEF WriteInv, Rows
<1>3. newline_count \in Nat /\ newline_count <= NUM_ROWS
  BY <1>2, TextType, NewlinesCounted DEF Tidy, newline_count
<1>4. current_line > 0
  BY <1>2, <1>3, Sizes DEF MakeRoom, lines_left, Rows
<1>5. current_line' = current_line - 1 /\ current_line - 1 \in Rows
  <2> DEFINE low == current_line - 1
  <2>1. low \in 0 .. BYTE - 1 /\ low \in Rows
    BY <1>2, <1>4, Sizes DEF Rows
  <2>2. (BYTE + low) % BYTE = low
    <3> DEFINE q == (BYTE * 1 + low) \div BYTE
               m == (BYTE * 1 + low) % BYTE
    <3>1. q \in Int /\ m \in 0 .. BYTE - 1 /\ BYTE + low = BYTE * q + m
      BY <2>1, Sizes
    <3> HIDE DEF q, low
    <3>2. ~ (q > 1)
      <4> SUFFICES ASSUME q > 1 PROVE FALSE
        OBVIOUS
      <4>1. BYTE * (q - 2) >= 0 /\ BYTE * (q - 2) = BYTE * q - 2 * BYTE
        BY <3>1, Sizes
      <4> HIDE DEF m
      <4> QED BY <4>1, <3>1, <2>1, Sizes
    <3>3. ~ (q < 1)
      <4> SUFFICES ASSUME q < 1 PROVE FALSE
        OBVIOUS
      <4>1. BYTE * (- q) >= 0 /\ BYTE * (- q) = - (BYTE * q)
        BY <3>1, Sizes
      <4> HIDE DEF m
      <4> QED BY <4>1, <3>1, <2>1, Sizes
    <3>4. q = 1 /\ BYTE * 1 = BYTE
      BY <3>1, <3>2, <3>3, Sizes
    <3>5. low = m
      <4> HIDE DEF m
      <4> QED BY <3>1, <3>4, <2>1, Sizes
    <3> QED BY <3>5, <3>4
  <2>3. current_line + BYTE - 1 = BYTE + low
    BY <1>2, Sizes DEF Rows
  <2> HIDE DEF low
  <2>4. current_line' = low
    BY <2>2, <2>3 DEF MakeRoom
  <2> QED BY <2>1, <2>4 DEF low
<1>6. OnScreen(cells', paper.rows, current_line - 1)
  <2>1. current_line \in 0 .. NUM_ROWS /\ current_line # NUM_ROWS
    BY <1>2, Sizes DEF Rows
  <2>2. cells' = Shifted(1)
    BY <1>1 DEF MakeRoom, Seen, WriteInv
  <2> QED BY <1>2, <2>1, <2>2, PlaceTypes, ShiftShows DEF Shifted
<1>7. UNCHANGED <<char_in_line, current_char, reset_flag, enter_flag, vmap, strayed, pc, text, open,
                  paper>>
  BY DEF MakeRoom
<1>8. Shows(current_line)'
  BY <1>5, <1>6, <1>7, Zenon DEF Shows, Agrees, OnScreen
<1>9. WriteInv'
  BY <1>1, <1>7, <1>8 DEF WriteInv, Quiet
<1>10. UserInv' /\ ReadInv' /\ ClearInv'
  BY <1>1, <1>7 DEF UserInv, ReadInv, ClearInv
<1> QED BY <1>5, <1>7, <1>9, <1>10, PlaceTypes DEF PlaceInv, BlankBehind

LEMMA PutTextPlace ==
  ASSUME PlaceInv, Tidy, TypeOK', PutText
  PROVE  PlaceInv'
<1> DEFINE whole  == Len(text) # NUM_COLS /\ Last(text) # NEWLINE
           column == IF whole THEN (char_in_line + Len(text)) % BYTE ELSE char_in_line
           nbytes == IF whole THEN Len(text) ELSE Len(text) - 1
           line   == (current_line + newline_count
                        + (IF nbytes >= NUM_COLS - column THEN 1 ELSE 0)) % BYTE
           s      == puts(At(cells, char_in_line, current_line), text)
           q      == Printed(paper, text)
           N      == Len(text)
<1>1. /\ pc = "scroll" /\ WriteInv /\ pc' = "user" /\ paper' = q
      /\ x' = char_in_line' /\ y' = current_line' /\ newline_count <= lines_left
      /\ strayed' = s.strayed
      /\ UNCHANGED <<current_char, reset_flag, enter_flag, vmap, open>>
  BY DEF PutText, PlaceInv
<1>2. /\ text \in Texts /\ char_in_line + N < NUM_COLS /\ char_in_line = paper.ink
      /\ OnScreen(cells, paper.rows, current_line)
      /\ Quiet /\ vmap = "screen" /\ current_char = 0 /\ ~ open
  BY <1>1, PlaceTypes, ShowsIsOnScreen, Sizes DEF WriteInv, Rows
<1>3. /\ text \in Seq(Printable) /\ N \in Nat \ {0} /\ Last(text) = text[N]
  BY <1>2, TextType DEF Last
<1>4. /\ char_in_line \in Cols /\ current_line \in Rows /\ char_in_line \in Nat
      /\ current_line \in Nat
  BY <1>2, PlaceTypes, Sizes DEF Rows, Cols
<1>5. newline_count \in Nat /\ newline_count = Cardinality(Newlines(N))
  BY <1>3, NewlinesCounted
<1>6. InStep(s, q, char_in_line, current_line, N) /\ s \in Screens /\ q \in Papers
  <2> DEFINE a == At(cells, char_in_line, current_line)
  <2>1. /\ a \in Screens /\ a.cells = cells /\ a.x = char_in_line /\ a.y = current_line
        /\ ~ a.strayed
    BY PlaceTypes, TypeFacts DEF PlaceInv
  <2> HIDE DEF a
  <2>2. InStep(puts(a, text), q, a.x, a.y, N)
    BY <2>1, <1>2, <1>4, PlaceTypes, TextInStep
  <2>3. puts(a, text) \in Screens /\ q \in Papers
    BY <2>1, <1>3, PutsType, PrintedType, PlaceTypes
  <2> QED BY <2>1, <2>2, <2>3 DEF a
<1>7. /\ s.cells \in Grids /\ q.ink \in Cols
      /\ s.y = current_line + newline_count
      /\ q.ink = IF Newlines(N) = {} THEN char_in_line + N ELSE 0
      /\ BlankBehind(q) /\ OnScreen(s.cells, q.rows, s.y) /\ ~ s.strayed
  <2> HIDE DEF s, q, N
  <2> QED BY <1>5, <1>6 DEF InStep, Screens, Papers
<1>8. IF newline_count = 0
      THEN /\ char_in_line' = column
           /\ UNCHANGED current_line
           /\ cells' = s.cells
      ELSE /\ char_in_line' = 0
           /\ current_line' = line - Over(line)
           /\ cells' = [r \in Rows |-> IF r + Over(line) \in Rows
                                       THEN s.cells[r + Over(line)] ELSE BlankRow]
  <2> DEFINE up == [r \in Rows |-> IF r + Over(line) \in Rows
                                   THEN s.cells[r + Over(line)] ELSE BlankRow]
  <2>1. IF newline_count = 0
        THEN /\ char_in_line' = column
             /\ UNCHANGED current_line
             /\ cells' = Seen(s.cells)
        ELSE /\ char_in_line' = 0
             /\ current_line' = line - Over(line)
             /\ cells' = Seen(up)
    BY Zenon DEF PutText
  <2> HIDE DEF line, s, column, up
  <2>2. Seen(s.cells) = s.cells /\ Seen(up) = up
    BY <1>2 DEF Seen
  <2> QED BY <2>1, <2>2 DEF up
<1>9. /\ OnScreen(cells', q.rows, current_line') /\ char_in_line' = q.ink
      /\ current_line' \in Rows
  <2>1. CASE text[N] # NEWLINE
    <3>1. Newlines(N) = {}
      BY <2>1, <1>2, <1>3, TidyText
    <3>2. newline_count = 0
      BY <3>1, <1>5, FS_EmptySet
    <3>3. whole
      BY <2>1, <1>2, <1>3, <1>4, Sizes
    <3>4. column = char_in_line + N
      <4>1. char_in_line + N \in 0 .. BYTE - 1
        BY <1>2, <1>3, <1>4, Sizes
      <4> HIDE DEF whole
      <4> QED BY <4>1, <3>3, Sizes, ModOfSmall
    <3>5. s.y = current_line
      BY <3>2, <1>4, <1>7
    <3> HIDE DEF s, q, column, N, line
    <3> QED BY <3>1, <3>2, <3>4, <3>5, <1>4, <1>7, <1>8
  <2>2. CASE text[N] = NEWLINE
    <3>1. Newlines(N) # {} /\ newline_count # 0
      <4>1. Newlines(N) # {} /\ Cardinality(Newlines(N)) = Cardinality(Newlines(N - 1)) + 1
            /\ Cardinality(Newlines(N - 1)) \in Nat
        BY <2>2, <1>3, NewlinesStep
      <4> QED BY <4>1, <1>5
    <3>2. ~ whole /\ nbytes = N - 1 /\ column = char_in_line
      BY <2>2, <1>3
    <3>3. ~ (nbytes >= NUM_COLS - column)
      <4> HIDE DEF whole, nbytes, column
      <4> QED BY <3>2, <1>2, <1>3, <1>4, Sizes
    <3>4. /\ current_line + newline_count + 0 = current_line + newline_count
          /\ current_line + newline_count \in 0 .. BYTE - 1
          /\ current_line + newline_count \in 0 .. NUM_ROWS
      BY <1>1, <1>4, <1>5, Sizes DEF lines_left
    <3>5. line = current_line + newline_count
      <4>1. line = (current_line + newline_count + 0) % BYTE
        BY <3>3
      <4> HIDE DEF line
      <4> QED BY <4>1, <3>4, Sizes, ModOfSmall
    <3>6. s.y = line /\ line \in 0 .. NUM_ROWS /\ line \in Nat
      BY <3>4, <3>5, <1>7
    <3>7. Over(line) \in Nat /\ line - Over(line) \in Rows
      <4> HIDE DEF line
      <4> QED BY <3>6, OverType
    <3>8. q.ink = 0
      <4> HIDE DEF q, N
      <4> QED BY <3>1, <1>7
    <3>9. OnScreen([r \in Rows |-> IF r + Over(line) \in Rows
                                   THEN s.cells[r + Over(line)] ELSE BlankRow],
                   q.rows, line - Over(line))
      <4> HIDE DEF line, s, q
      <4> QED BY <3>6, <3>7, <3>8, <1>6, <1>7, ShiftShows
    <3> HIDE DEF s, q, line, N, column
    <3> QED BY <3>1, <3>7, <3>8, <3>9, <1>8
  <2> QED BY <2>1, <2>2
<1>10. Shows(current_line)'
  BY <1>1, <1>9, Zenon DEF Shows, Agrees, OnScreen
<1>11. UserInv'
  <2> HIDE DEF q
  <2> QED BY <1>1, <1>2, <1>9, <1>10 DEF UserInv, Quiet
<1>12. WriteInv' /\ ReadInv' /\ ClearInv'
  BY <1>1 DEF WriteInv, ReadInv, ClearInv
<1> HIDE DEF q, s, line, column, N
<1> QED BY <1>1, <1>7, <1>9, <1>11, <1>12 DEF PlaceInv, BlankBehind

\* The line has not begun.
LEMMA ReadCalledPlace ==
  ASSUME PlaceInv, Tidy, TypeOK', ReadCalled
  PROVE  PlaceInv'
<1>1. /\ pc = "user" /\ current_char = 0 /\ pc' = "loop" /\ prev' = char_in_line /\ shift_up' = FALSE
      /\ UNCHANGED <<current_line, char_in_line, current_char, last_current_char, reset_flag,
                     enter_flag, vmap, strayed, x, y, cells, paper, open>>
      /\ char_in_line + MAX_BUFFER_LENGTH <= 2 * NUM_COLS
  BY DEF ReadCalled, info, output, cursor, Tidy
<1>2. /\ Quiet /\ ~ strayed /\ ~ open /\ char_in_line = paper.ink /\ Shows(current_line)
      /\ x = char_in_line /\ y = current_line
  BY <1>1 DEF PlaceInv, UserInv
<1>3. paper.ink \in Cols /\ current_line \in Rows /\ current_line \in Nat
  BY PlaceTypes, Sizes DEF Rows
<1>4. paper.ink + 0 = paper.ink /\ paper.ink < NUM_COLS /\ paper.ink \in Nat
  BY <1>3, Sizes DEF Cols
<1>5. Wraps' = 0
  BY <1>1, <1>2, <1>4 DEF Wraps
<1>6. LineOnPaper'
  <2>1. paper.ink = paper.ink + 0 - 0 * NUM_COLS
    BY <1>4, Sizes
  <2>2. \A c \in Cols : ~ (paper.ink <= c /\ c < paper.ink)
    BY <1>4, Sizes DEF Cols
  <2> QED BY <1>1, <1>2, <1>5, <2>1, <2>2 DEF LineOnPaper
<1>7. LineShows'
  <2>1. \A r \in Rows, c \in Cols : ~ InLine(r, c)'
    BY <1>1, <1>2, <1>4, Sizes DEF InLine, Rows, Cols
  <2>2. current_line + 0 = current_line
    BY <1>3
  <2>3. \A r \in Rows, c \in Cols : Agrees(current_line + Wraps, r, c)'
    BY <1>1, <1>2, <1>5, <2>2 DEF Shows, Agrees
  <2> QED BY <2>1, <2>3 DEF LineShows
<1>8. ReadInv'
  <2>1. current_char' < MAX_BUFFER_LENGTH
    BY <1>1, Sizes
  <2>2. current_line + 0 = current_line
    BY <1>3
  <2> QED BY <1>1, <1>2, <1>3, <1>5, <1>6, <1>7, <2>1, <2>2 DEF ReadInv, Quiet
<1>9. UserInv' /\ WriteInv' /\ ClearInv'
  BY <1>1 DEF UserInv, WriteInv, ClearInv
<1> QED BY <1>1, <1>2, <1>3, <1>8, <1>9 DEF PlaceInv

-----------------------------------------------------------------------------
(* The line that is typed                                                  *)

\* Where the line ends, without products and capital letters.
LEMMA LineFacts ==
  ASSUME PlaceInv, pc = "loop"
  PROVE  /\ prev \in Cols /\ prev \in Nat /\ current_char \in Nat
         /\ prev + current_char < 2 * NUM_COLS
         /\ IF prev + current_char < NUM_COLS
            THEN Wraps = 0 /\ paper.ink = prev + current_char
            ELSE Wraps = 1 /\ paper.ink = prev + current_char - NUM_COLS
         /\ current_line \in Rows /\ current_line \in Nat
         /\ current_line + Wraps \in Nat
         /\ LineShows /\ LineOnPaper /\ ReadInv /\ TypeOK
         /\ \A r, c : InLine(r, c) <=> Line(current_line, prev, current_char, r, c)
<1>1. ReadInv /\ current_line \in Rows /\ current_char \in Nat
  BY PlaceTypes, TypeFacts DEF PlaceInv
<1>2. /\ prev \in Cols /\ prev + MAX_BUFFER_LENGTH <= 2 * NUM_COLS
      /\ current_char < MAX_BUFFER_LENGTH /\ LineOnPaper /\ LineShows
  BY <1>1 DEF ReadInv
<1>3. prev \in Nat /\ prev + current_char < 2 * NUM_COLS
  BY <1>1, <1>2, Sizes DEF Cols
<1>4. paper.ink = prev + current_char - Wraps * NUM_COLS
  BY <1>2 DEF LineOnPaper
<1>5. CASE prev + current_char < NUM_COLS
  <2>1. Wraps = 0
    BY <1>5 DEF Wraps
  <2>2. Wraps * NUM_COLS = 0
    BY <2>1, Sizes
  <2> QED BY <1>1, <1>2, <1>3, <1>4, <1>5, <2>1, <2>2, PlaceTypes, Sizes DEF InLine, Line, Rows
<1>6. CASE ~ (prev + current_char < NUM_COLS)
  <2>1. Wraps = 1
    BY <1>6 DEF Wraps
  <2>2. Wraps * NUM_COLS = NUM_COLS
    BY <2>1, Sizes
  <2> QED BY <1>1, <1>2, <1>3, <1>4, <1>6, <2>1, <2>2, PlaceTypes, Sizes DEF InLine, Line, Rows
<1> QED BY <1>5, <1>6

\* Cell (r, c) of screen G shows the paper whose newest row is at row b.
CellShows(G, rows, b, r, c) ==
  /\ r > b => G[r][c] = BLANK
  /\ b - r \in Rows => G[r][c] = rows[b - r][c]

\* What Echo draws on: the screen, moved up if the line needs a row.
EchoUp == current_char >= NUM_COLS - char_in_line /\ ~ shift_up /\ current_line >= NUM_ROWS - 1
EchoLine == IF EchoUp THEN current_line - 1 ELSE current_line
EchoCells == IF EchoUp THEN Shifted(1) ELSE cells

\* One row is room enough.
LEMMA EchoRoom ==
  ASSUME PlaceInv, pc = "loop", char_in_line = prev
  PROVE  /\ EchoLine \in Rows /\ EchoLine + Wraps \in Rows /\ EchoCells \in Grids
         /\ shift_up \/ EchoUp => EchoLine + 1 \in Rows
         /\ \A r \in Rows, c \in Cols :
              ~ Line(EchoLine, prev, current_char, r, c) =>
                CellShows(EchoCells, paper.rows, EchoLine + Wraps, r, c)
<1>1. EchoUp => prev + current_char >= NUM_COLS
  BY LineFacts, Sizes DEF EchoUp
<1>2. shift_up => current_line + 1 \in Rows
  BY LineFacts DEF ReadInv
<1>3. \A r \in Rows, c \in Cols :
        ~ Line(current_line, prev, current_char, r, c) =>
          CellShows(cells, paper.rows, current_line + Wraps, r, c)
  BY LineFacts DEF LineShows, Agrees, CellShows
<1>4. CASE ~ EchoUp
  <2>1. current_line + Wraps \in Rows
    BY <1>2, <1>4, LineFacts, Sizes DEF Rows, EchoUp
  <2>2. EchoLine = current_line /\ EchoCells = cells
    BY <1>4 DEF EchoLine, EchoCells
  <2> QED BY <1>2, <1>3, <1>4, <2>1, <2>2, LineFacts, PlaceTypes
<1>5. CASE EchoUp
  <2>1. /\ Wraps = 1 /\ current_line = NUM_ROWS - 1
        /\ paper.ink = prev + current_char - NUM_COLS /\ prev + current_char - NUM_COLS \in Nat
    BY <1>1, <1>5, LineFacts, Sizes DEF Rows, EchoUp
  <2>2. EchoLine = NUM_ROWS - 2 /\ EchoCells = Shifted(1) /\ EchoLine + Wraps = NUM_ROWS - 1
    BY <1>5, <2>1, Sizes DEF EchoLine, EchoCells
  <2>3. EchoLine \in Rows /\ EchoLine + Wraps \in Rows /\ EchoLine + 1 \in Rows
    BY <2>1, <2>2, Sizes DEF Rows
  <2>4. Shifted(1) \in Grids
    BY PlaceTypes, ShiftedType DEF Shifted
  <2>5. ASSUME NEW r \in Rows, NEW c \in Cols,
               ~ Line(NUM_ROWS - 2, prev, current_char, r, c)
        PROVE  CellShows(Shifted(1), paper.rows, NUM_ROWS - 1, r, c)
    <3>1. CASE r + 1 \in Rows
      <4>1. Shifted(1)[r][c] = cells[r + 1][c]
        BY <3>1 DEF Shifted
      <4>2. ~ Line(NUM_ROWS - 1, prev, current_char, r + 1, c)
        BY <2>1, <2>5, Sizes DEF Line, Rows
      <4>3. CellShows(cells, paper.rows, NUM_ROWS, r + 1, c)
        <5>1. NUM_ROWS - 1 + 1 = NUM_ROWS
          BY Sizes
        <5> QED BY <1>3, <2>1, <3>1, <4>2, <5>1
      <4>4. /\ NUM_ROWS - 1 - r = NUM_ROWS - (r + 1)
            /\ (r > NUM_ROWS - 1 => r + 1 > NUM_ROWS)
        BY Sizes DEF Rows
      <4> QED BY <4>1, <4>3, <4>4 DEF CellShows
    <3>2. CASE r + 1 \notin Rows
      <4>1. Shifted(1)[r][c] = BLANK
        BY <3>2 DEF Shifted, BlankRow
      <4>2. r = NUM_ROWS - 1 /\ NUM_ROWS - 1 - r = 0
        BY <3>2, Sizes DEF Rows
      <4>3. paper.ink <= c
        BY <2>1, <2>5, <4>2, Sizes DEF Line, Rows, Cols
      <4>4. paper.rows[0][c] = BLANK
        BY <4>3, PlaceTypes DEF BlankBehind
      <4> QED BY <4>1, <4>2, <4>4 DEF CellShows
    <3> QED BY <3>1, <3>2
  <2> QED BY <2>2, <2>3, <2>4, <2>5
<1> QED BY <1>4, <1>5

LEMMA EchoPlace ==
  ASSUME PlaceInv, Tidy, TypeOK', Echo
  PROVE  PlaceInv'
<1> DEFINE s == [cells |-> EchoCells, x |-> char_in_line, y |-> EchoLine, strayed |-> strayed]
           e == puts(s, Typed(current_char))
<1>1. At(EchoCells, char_in_line, EchoLine) = s
  BY DEF At
<1>2. /\ pc = "loop" /\ ~ enter_flag /\ reset_flag' = FALSE /\ shift_up' = (shift_up \/ EchoUp)
      /\ current_line' = EchoLine /\ last_current_char' = current_char
      /\ cells' = Seen(e.cells) /\ strayed' = e.strayed /\ x' = e.x /\ y' = e.y
      /\ UNCHANGED <<char_in_line, current_char, enter_flag, vmap, pc, prev, paper, open>>
  BY <1>1 DEF Echo, EchoUp, EchoLine, EchoCells
<1>3. char_in_line = prev /\ ~ open
  BY <1>2, LineFacts DEF ReadInv
<1>4. /\ EchoLine \in Rows /\ EchoLine + Wraps \in Rows /\ EchoCells \in Grids
      /\ shift_up \/ EchoUp => EchoLine + 1 \in Rows
      /\ \A r \in Rows, c \in Cols :
           ~ Line(EchoLine, prev, current_char, r, c) =>
             CellShows(EchoCells, paper.rows, EchoLine + Wraps, r, c)
  BY <1>2, <1>3, EchoRoom
<1>5. /\ Drawn(s, e, current_char) /\ s.x = prev /\ s.y = EchoLine /\ s.cells = EchoCells
      /\ s.strayed = FALSE
  <2>1. strayed = FALSE
    <3>1. strayed \in BOOLEAN /\ ~ strayed
      BY PlaceTypes DEF PlaceInv, TypeOK
    <3> QED BY <3>1, Zenon
  <2>2. /\ s \in Screens /\ s.x = prev /\ s.y = EchoLine /\ s.cells = EchoCells
        /\ s.strayed = FALSE
    <3>1. EchoLine \in Nat /\ char_in_line \in Nat
      <4>1. prev \in Nat
        BY <1>2, LineFacts
      <4> QED BY <1>3, <1>4, <4>1, Sizes DEF Rows
    <3> QED BY <1>3, <1>4, <2>1, <3>1, Zenon DEF Screens
  <2>3. prev + current_char >= NUM_COLS => EchoLine + 1 \in Rows
    BY <1>2, <1>4, LineFacts, Sizes
  <2> HIDE DEF s
  <2> QED BY <1>2, <1>4, <2>2, <2>3, LineFacts, LineDrawn
<1> HIDE DEF s, e
<1>6. /\ x' = paper.ink /\ y' = EchoLine + Wraps /\ strayed' = FALSE
      /\ \A r \in Rows, c \in Cols :
           cells'[r][c] = IF Line(EchoLine, prev, current_char, r, c) THEN TYPED
                          ELSE EchoCells[r][c]
  <2>1. EchoLine \in Nat
    BY <1>4, Sizes DEF Rows
  <2>2. x' = paper.ink /\ y' = EchoLine + Wraps /\ strayed' = FALSE
    BY <1>2, <1>5, <2>1, LineFacts DEF Drawn
  <2>3. CASE vmap = "screen"
    <3>1. cells' = e.cells
      BY <1>2, <2>3 DEF Seen
    <3> QED BY <1>5, <2>2, <3>1 DEF Drawn
  <2>4. CASE vmap # "screen"
    <3>1. cells' = cells /\ Settled
      BY <1>2, <2>4, PlaceTypes DEF Seen, Settled, TypeOK
    <3>2. current_line + Wraps \in Rows
      BY <1>2, <3>1, LineFacts DEF ReadInv
    <3>3. ~ EchoUp
      BY <1>2, <1>3, <3>2, LineFacts, Sizes DEF EchoUp, Rows, Cols
    <3>4. EchoLine = current_line /\ EchoCells = cells
      BY <3>3 DEF EchoLine, EchoCells
    <3>5. \A r \in Rows, c \in Cols :
            Line(EchoLine, prev, current_char, r, c) => cells[r][c] = TYPED
      BY <1>2, <3>1, <3>4, LineFacts DEF LineShows
    <3> QED BY <2>2, <3>1, <3>4, <3>5
  <2> QED BY <2>3, <2>4
<1>7. Wraps' = Wraps /\ Echoed'
  BY <1>2 DEF Wraps, Echoed
<1>8. LineOnPaper'
  BY <1>2, <1>7, LineFacts DEF LineOnPaper
<1>9. LineShows'
  <2>1. \A r \in Rows, c \in Cols :
          InLine(r, c)' <=> Line(EchoLine, prev, current_char, r, c)
    BY <1>2, <1>4, LineFacts, Sizes DEF InLine, Line, Rows, Cols
  <2>2. \A r \in Rows, c \in Cols :
          ~ Line(EchoLine, prev, current_char, r, c) =>
            CellShows(cells', paper.rows, EchoLine + Wraps, r, c)
    BY <1>4, <1>6 DEF CellShows
  <2>3. \A r \in Rows, c \in Cols :
          ~ Line(EchoLine, prev, current_char, r, c) => Agrees(current_line + Wraps, r, c)'
    BY <1>2, <1>7, <2>2 DEF Agrees, CellShows
  <2> QED BY <1>6, <2>1, <2>3 DEF LineShows
<1>10. ReadInv'
  BY <1>2, <1>3, <1>4, <1>6, <1>7, <1>8, <1>9, LineFacts DEF ReadInv
<1>11. UserInv' /\ WriteInv' /\ ClearInv'
  BY <1>2 DEF UserInv, WriteInv, ClearInv
<1> QED BY <1>2, <1>4, <1>6, <1>10, <1>11, PlaceTypes DEF PlaceInv, BlankBehind

\* A line that is echoed is shown whole.
LEMMA LineShown ==
  ASSUME PlaceInv, pc = "loop", Echoed
  PROVE  Shows(current_line + Wraps) /\ current_line + Wraps \in Rows
<1>1. current_line + Wraps \in Rows /\ Settled
  BY LineFacts DEF ReadInv, Settled
<1>2. ASSUME NEW r \in Rows, NEW c \in Cols
      PROVE  Agrees(current_line + Wraps, r, c)
  <2>1. CASE ~ InLine(r, c)
    BY <2>1, LineFacts DEF LineShows
  <2>2. CASE InLine(r, c)
    <3>1. cells[r][c] = TYPED
      BY <1>1, <2>2, LineFacts DEF LineShows
    <3>2. /\ ~ (r > current_line + Wraps)
          /\ (current_line + Wraps) - r \in Rows =>
               paper.rows[(current_line + Wraps) - r][c] = TYPED
      <4>1. CASE Wraps = 0
        <5>1. r = current_line /\ prev <= c /\ c < paper.ink
          BY <2>2, <4>1, LineFacts, Sizes DEF Line, Cols
        <5>2. paper.rows[0][c] = TYPED
          BY <4>1, <5>1, LineFacts DEF LineOnPaper
        <5>3. (current_line + Wraps) - r = 0 /\ ~ (r > current_line + Wraps)
          BY <4>1, <5>1, LineFacts
        <5> QED BY <5>2, <5>3
      <4>2. CASE Wraps = 1 /\ r = current_line
        <5>1. prev <= c
          BY <2>2, <4>2, LineFacts, Sizes DEF Line, Cols
        <5>2. paper.rows[1][c] = TYPED
          BY <4>2, <5>1, LineFacts DEF LineOnPaper
        <5>3. (current_line + Wraps) - r = 1 /\ ~ (r > current_line + Wraps)
          BY <4>2, LineFacts
        <5> QED BY <5>2, <5>3
      <4>3. CASE Wraps = 1 /\ r # current_line
        <5>1. r = current_line + 1 /\ c < paper.ink
          BY <2>2, <4>3, LineFacts, Sizes DEF Line, Cols
        <5>2. paper.rows[0][c] = TYPED
          BY <4>3, <5>1, LineFacts DEF LineOnPaper
        <5>3. (current_line + Wraps) - r = 0 /\ ~ (r > current_line + Wraps)
          BY <4>3, <5>1, LineFacts
        <5> QED BY <5>2, <5>3
      <4> QED BY <4>1, <4>2, <4>3, LineFacts
    <3>3. r \in Int /\ current_line + Wraps \in Int
      BY LineFacts DEF Rows
    <3>4. r > current_line + Wraps => cells[r][c] = BLANK
      BY <3>2
    <3>5. (current_line + Wraps) - r \in Rows => cells[r][c] = paper.rows[(current_line + Wraps) - r][c]
      BY <3>1, <3>2
    <3> QED BY <3>4, <3>5, Zenon DEF Agrees
  <2> QED BY <2>1, <2>2
<1> QED BY <1>1, <1>2 DEF Shows

LEMMA TakeLinePlace ==
  ASSUME PlaceInv, Tidy, TypeOK', TakeLine
  PROVE  PlaceInv'
<1>1. /\ pc = "loop" /\ enter_flag /\ enter_flag' = FALSE
      /\ IF current_char > NUM_COLS - prev
         THEN current_line' = (current_line + 1) % BYTE ELSE current_line' = current_line
      /\ current_char' = current_char + 1 /\ pc' = "user" /\ open' = ~ FillsRow
      /\ UNCHANGED <<char_in_line, last_current_char, reset_flag, vmap, cells, strayed, paper>>
  BY DEF TakeLine, output
<1>2. Echoed /\ vmap = "screen" /\ char_in_line = 0 /\ ~ reset_flag
  BY <1>1, LineFacts DEF ReadInv, Echoed
<1>3. Shows(current_line + Wraps) /\ current_line + Wraps \in Rows
  BY <1>1, <1>2, LineShown
<1>4. Quiet' /\ current_char' > 0 /\ ~ (current_char' = 0)
  BY <1>1, <1>2, LineFacts DEF Quiet
<1>5. CASE prev + current_char < NUM_COLS
  <2>1. Wraps = 0 /\ current_line + Wraps = current_line /\ current_line' = current_line
    BY <1>1, <1>5, LineFacts, Sizes
  <2>2. ~ FillsRow
    BY <1>1, <1>5, LineFacts DEF FillsRow
  <2>3. Shows(current_line)'
    BY <1>1, <1>3, <2>1 DEF Shows, Agrees
  <2> QED BY <1>1, <1>2, <1>4, <2>1, <2>2, <2>3, LineFacts, PlaceTypes
          DEF PlaceInv, UserInv, WriteInv, ReadInv, ClearInv, BlankBehind
<1>6. CASE prev + current_char = NUM_COLS
  <2>1. Wraps = 1 /\ paper.ink = 0 /\ current_line' = current_line /\ current_char > 0
    BY <1>1, <1>6, LineFacts, Sizes DEF Cols
  <2>2. FillsRow
    BY <2>1 DEF FillsRow
  <2>3. Shows(current_line + 1)' /\ current_line' + 1 \in Rows
    BY <1>1, <1>3, <2>1 DEF Shows, Agrees
  <2>4. ~ open' /\ paper'.ink = 0
    BY <1>1, <2>1, <2>2
  <2>5. UserInv'
    BY <1>1, <1>2, <1>4, <2>3, <2>4 DEF UserInv
  <2> QED BY <1>1, <2>1, <2>5, LineFacts, PlaceTypes
          DEF PlaceInv, WriteInv, ReadInv, ClearInv, BlankBehind
<1>7. CASE prev + current_char > NUM_COLS
  <2>1. Wraps = 1 /\ paper.ink > 0 /\ current_char > NUM_COLS - prev
    BY <1>1, <1>7, LineFacts, Sizes DEF Cols
  <2>2. current_line + 1 \in Rows /\ current_line' = current_line + 1
    <3>1. current_line + 1 \in Rows
      BY <1>3, <2>1
    <3>2. current_line + 1 \in 0 .. BYTE - 1
      BY <3>1, Sizes DEF Rows
    <3> QED BY <1>1, <2>1, <3>1, <3>2, Sizes, ModOfSmall
  <2>3. ~ FillsRow
    BY <2>1 DEF FillsRow
  <2>4. Shows(current_line)'
    BY <1>1, <1>3, <2>1, <2>2 DEF Shows, Agrees
  <2> QED BY <1>1, <1>2, <1>4, <2>2, <2>3, <2>4, PlaceTypes
          DEF PlaceInv, UserInv, WriteInv, ReadInv, ClearInv, BlankBehind
<1> QED BY <1>1, <1>5, <1>6, <1>7, LineFacts, Sizes

\* When a key is pressed the line is echoed, and the cursor behind it saved.
LEMMA KeyFacts ==
  ASSUME PlaceInv, Tidy, Key
  PROVE  /\ pc = "loop" /\ Quiet /\ Echoed /\ ~ open /\ char_in_line = prev
         /\ vmap = "screen" /\ ~ strayed
         /\ terminal_screen[1] = paper.ink /\ terminal_screen[2] = current_line + Wraps
         /\ current_line + Wraps \in Rows
         /\ prev + MAX_BUFFER_LENGTH <= 2 * NUM_COLS /\ current_char < MAX_BUFFER_LENGTH
         /\ shift_up => current_line + 1 \in Rows
<1>1. /\ pc = "loop" /\ ~ enter_flag /\ Echoed /\ vmap = "screen"
      /\ terminal_screen = <<x, y>>
  BY DEF Key, Saved, Tidy, cursor
<1> QED BY <1>1, LineFacts DEF ReadInv, Quiet, Echoed, Settled, PlaceInv

LEMMA EnterPlace ==
  ASSUME PlaceInv, Tidy, TypeOK', Enter
  PROVE  PlaceInv'
<1>1. /\ enter_flag' = TRUE /\ char_in_line' = 0 /\ Key
      /\ UNCHANGED <<current_line, current_char, last_current_char, reset_flag, vmap, cells,
                     strayed, x, y, pc, prev, shift_up, paper, open>>
  BY DEF Enter, cursor, output
<1>2. pc = "loop" /\ Echoed /\ vmap = "screen" /\ ~ strayed
  BY <1>1, KeyFacts
<1>3. LineOnPaper' /\ LineShows'
  BY <1>1, <1>2, LineFacts
     DEF LineOnPaper, LineShows, Wraps, InLine, Agrees, Echoed, Settled
<1>4. ReadInv'
  BY <1>1, <1>2, <1>3, KeyFacts, LineFacts DEF ReadInv, Wraps, Echoed, Settled
<1> QED BY <1>1, <1>2, <1>4, PlaceTypes DEF PlaceInv, UserInv, WriteInv, ClearInv, BlankBehind

\* A key that changes the line to n characters leaves the rest as the paper has it.
LEMMA LineEdited ==
  ASSUME PlaceInv, Tidy, TypeOK', Key, NEW n \in Nat, n # current_char, n < MAX_BUFFER_LENGTH,
         current_char' = n,
         UNCHANGED <<current_line, char_in_line, last_current_char, reset_flag, enter_flag,
                     pc, prev, shift_up, open>>,
         NEW w \in {0, 1}, Wraps' = w,
         \A r \in Rows, c \in Cols : ~ Line(current_line, prev, n, r, c) =>
           CellShows(cells', paper'.rows, current_line + w, r, c),
         LineOnPaper', BlankBehind(paper'), ~ strayed',
         Settled' => /\ current_line + w \in Rows
                     /\ \A r \in Rows, c \in Cols :
                          Line(current_line, prev, n, r, c) => cells'[r][c] = TYPED
  PROVE  PlaceInv'
<1>1. /\ pc = "loop" /\ Quiet /\ Echoed /\ ~ open /\ char_in_line = prev
      /\ prev + MAX_BUFFER_LENGTH <= 2 * NUM_COLS
      /\ shift_up => current_line + 1 \in Rows
  BY KeyFacts
<1>2. \A r \in Rows, c \in Cols : InLine(r, c)' <=> Line(current_line, prev, n, r, c)
  BY <1>1, LineFacts DEF InLine, Line
<1>3. ~ Echoed'
  BY <1>1 DEF Echoed
<1>4. LineShows'
  BY <1>2, <1>3 DEF LineShows, Agrees, CellShows
<1>5. ReadInv'
  BY <1>1, <1>3, <1>4, LineFacts DEF ReadInv, Quiet
<1> QED BY <1>1, <1>5, PlaceTypes DEF PlaceInv, UserInv, WriteInv, ClearInv, BlankBehind

LEMMA TypePlace ==
  ASSUME PlaceInv, Tidy, TypeOK', Type
  PROVE  PlaceInv'
<1> DEFINE n == current_char + 1
           filled == [paper.rows EXCEPT ![0][paper.ink] = TYPED]
<1>1. /\ Key /\ current_char < MAX_BUFFER_LENGTH - 1 /\ current_char' = n
      /\ paper' = PaperPut(paper, TYPED)
      /\ UNCHANGED <<current_line, char_in_line, last_current_char, reset_flag, enter_flag, vmap,
                     cells, strayed, pc, prev, shift_up, open>>
  BY DEF Type, output
<1>2. /\ pc = "loop" /\ Quiet /\ Echoed /\ ~ open /\ char_in_line = prev
      /\ vmap = "screen" /\ ~ strayed
      /\ prev + MAX_BUFFER_LENGTH <= 2 * NUM_COLS
      /\ shift_up => current_line + 1 \in Rows
  BY <1>1, KeyFacts
<1>3. n \in Nat /\ prev + n < 2 * NUM_COLS /\ n < MAX_BUFFER_LENGTH /\ n # current_char
  <2>1. current_char \in Nat /\ prev \in Nat
    BY <1>2, LineFacts
  <2> QED BY <1>1, <1>2, <2>1, Sizes
<1>4. paper' = IF paper.ink + 1 = NUM_COLS THEN [rows |-> Fed(filled), ink |-> 0]
               ELSE [rows |-> filled, ink |-> paper.ink + 1]
  BY <1>1, PlaceTypes, PaperChar
<1>5. filled \in Grids
  BY PlaceTypes, GridPut, Characters
<1>6. \A k \in Rows, c \in Cols :
        filled[k][c] = IF k = 0 /\ c = paper.ink THEN TYPED ELSE paper.rows[k][c]
  BY PlaceTypes DEF Grids
<1> HIDE DEF filled
<1>7. ASSUME NEW r \in Rows, NEW c \in Cols, ~ Line(current_line, prev, n, r, c)
      PROVE  CellShows(cells, paper.rows, current_line + Wraps, r, c)
  <2>1. ~ InLine(r, c)
    BY <1>2, <1>3, <1>7, LineFacts, Sizes DEF Line, Cols
  <2> QED BY <1>2, <2>1, LineFacts DEF LineShows, Agrees, CellShows
<1>8. ASSUME NEW w \in {0, 1}, Wraps' = w,
             \A r \in Rows, c \in Cols : ~ Line(current_line, prev, n, r, c) =>
               CellShows(cells', paper'.rows, current_line + w, r, c),
             LineOnPaper', BlankBehind(paper')
      PROVE  PlaceInv'
  <2>1. ~ Settled' /\ ~ strayed'
    BY <1>1, <1>2, <1>3 DEF Settled, Echoed
  <2> QED BY <1>1, <1>3, <1>8, <2>1, LineEdited
<1>9. CASE paper.ink + 1 # NUM_COLS
  <2>1. paper'.rows = filled /\ paper'.ink = paper.ink + 1 /\ paper.ink \in Nat
    BY <1>4, <1>9, PlaceTypes, Sizes DEF Cols
  <2>2. /\ Wraps' = Wraps /\ Wraps \in {0, 1} /\ paper.ink + 1 < NUM_COLS
        /\ IF Wraps = 0 THEN prev + n < NUM_COLS /\ paper.ink + 1 = prev + n
           ELSE prev + n >= NUM_COLS /\ paper.ink + 1 = prev + n - NUM_COLS
    BY <1>1, <1>2, <1>3, <1>9, <2>1, PlaceTypes, LineFacts, Sizes DEF Wraps, Cols
  <2>3. ASSUME NEW r \in Rows, NEW c \in Cols, ~ Line(current_line, prev, n, r, c)
        PROVE  CellShows(cells', paper'.rows, current_line + Wraps, r, c)
    <3>1. CellShows(cells, paper.rows, current_line + Wraps, r, c)
      BY <1>7, <2>3
    <3>2. ~ ((current_line + Wraps) - r = 0 /\ c = paper.ink)
      <4>1. r \in Nat /\ c \in Nat /\ c < NUM_COLS /\ current_line \in Nat /\ prev \in Nat
        BY <1>2, LineFacts, Sizes DEF Rows, Cols
      <4>2. CASE Wraps = 0
        BY <1>2, <1>3, <2>2, <2>3, <4>1, <4>2, LineFacts, Sizes DEF Line
      <4>3. CASE Wraps = 1
        BY <1>2, <1>3, <2>2, <2>3, <4>1, <4>3, LineFacts, Sizes DEF Line
      <4> QED BY <2>2, <4>2, <4>3
    <3>3. (current_line + Wraps) - r \in Rows =>
            filled[(current_line + Wraps) - r][c] = paper.rows[(current_line + Wraps) - r][c]
      BY <1>6, <3>2
    <3>4. r \in Int /\ current_line + Wraps \in Int
      BY <1>2, LineFacts DEF Rows
    <3>5. CellShows(cells, filled, current_line + Wraps, r, c)
      BY <3>1, <3>3, Zenon DEF CellShows
    <3> QED BY <1>1, <2>1, <3>5
  <2>4. LineOnPaper'
    <3>1. \A c \in Cols :
            IF Wraps = 0
            THEN prev <= c /\ c < paper.ink + 1 => filled[0][c] = TYPED
            ELSE /\ c < paper.ink + 1 => filled[0][c] = TYPED
                 /\ prev <= c => filled[1][c] = TYPED
      <4>1. 0 \in Rows /\ 1 \in Rows /\ 0 # 1
        BY Sizes DEF Rows
      <4>2. \A c \in Cols : c < paper.ink + 1 => c = paper.ink \/ c < paper.ink
        BY <2>1, Sizes DEF Cols
      <4>3. \A c \in Cols :
              IF Wraps = 0
              THEN prev <= c /\ c < paper.ink => paper.rows[0][c] = TYPED
              ELSE /\ c < paper.ink => paper.rows[0][c] = TYPED
                   /\ prev <= c => paper.rows[1][c] = TYPED
        BY <1>2, LineFacts DEF LineOnPaper
      <4> QED BY <1>6, <4>1, <4>2, <4>3
    <3>2. paper.ink + 1 = prev + n - Wraps * NUM_COLS
      <4>1. CASE Wraps = 0
        BY <1>2, <1>3, <2>2, <4>1, LineFacts, Sizes
      <4>2. CASE Wraps = 1
        BY <1>2, <1>3, <2>2, <4>2, LineFacts, Sizes
      <4> QED BY <2>2, <4>1, <4>2
    <3> QED BY <1>1, <2>1, <2>2, <3>1, <3>2 DEF LineOnPaper
  <2>5. BlankBehind(paper')
    <3>1. \A c \in Cols : paper.ink + 1 <= c => paper.ink <= c /\ c # paper.ink
      BY <2>1, Sizes DEF Cols
    <3>2. 0 \in Rows
      BY Sizes DEF Rows
    <3> QED BY <1>6, <2>1, <3>1, <3>2, PlaceTypes DEF BlankBehind
  <2> QED BY <1>8, <2>2, <2>3, <2>4, <2>5
<1>10. CASE paper.ink + 1 = NUM_COLS
  <2>1. paper'.rows = Fed(filled) /\ paper'.ink = 0
    BY <1>4, <1>10
  <2>2. Wraps' = 1 /\ Wraps = 0 /\ prev + n = NUM_COLS /\ paper.ink = prev + current_char
    BY <1>1, <1>2, <1>3, <1>10, LineFacts, Sizes DEF Wraps
  <2>3. \A k \in Rows, c \in Cols : Fed(filled)[k][c] = IF k = 0 THEN BLANK ELSE filled[k - 1][c]
    BY <1>5, FedType
  <2>4. ASSUME NEW r \in Rows, NEW c \in Cols, ~ Line(current_line, prev, n, r, c)
        PROVE  CellShows(cells', paper'.rows, current_line + 1, r, c)
    <3>1. CellShows(cells, paper.rows, current_line, r, c)
      <4>1. current_line + Wraps = current_line
        BY <1>2, <2>2, LineFacts
      <4> QED BY <1>7, <2>4, <4>1
    <3>2. r \in Int /\ current_line \in Int
      BY <1>2, LineFacts DEF Rows
    <3>3. r > current_line + 1 => cells[r][c] = BLANK
      BY <3>1, <3>2 DEF CellShows
    <3>4. ASSUME (current_line + 1) - r \in Rows
          PROVE  cells[r][c] = Fed(filled)[(current_line + 1) - r][c]
      <4>1. CASE (current_line + 1) - r = 0
        <5>1. cells[r][c] = BLANK
          BY <3>1, <3>2, <4>1 DEF CellShows
        <5> QED BY <2>3, <3>4, <4>1, <5>1
      <4>2. CASE (current_line + 1) - r # 0
        <5>1. current_line - r \in Rows /\ (current_line + 1) - r - 1 = current_line - r
          BY <3>2, <3>4, <4>2, Sizes DEF Rows
        <5>2. cells[r][c] = paper.rows[current_line - r][c]
          BY <3>1, <5>1 DEF CellShows
        <5>3. ~ (current_line - r = 0 /\ c = paper.ink)
          BY <1>2, <1>3, <2>2, <2>4, <3>2, LineFacts, Sizes DEF Line, Cols
        <5>4. filled[current_line - r][c] = paper.rows[current_line - r][c]
          BY <1>6, <5>1, <5>3
        <5>5. Fed(filled)[(current_line + 1) - r][c] = filled[(current_line + 1) - r - 1][c]
          <6> DEFINE k == (current_line + 1) - r
          <6>1. k \in Rows /\ k # 0
            BY <3>4, <4>2
          <6> HIDE DEF k
          <6>2. Fed(filled)[k][c] = filled[k - 1][c]
            BY <2>3, <6>1
          <6> QED BY <6>2 DEF k
        <5> QED BY <5>1, <5>2, <5>4, <5>5
      <4> QED BY <4>1, <4>2
    <3>5. current_line + 1 \in Int
      BY <3>2
    <3> QED BY <1>1, <2>1, <3>2, <3>3, <3>4, <3>5 DEF CellShows
  <2>5. LineOnPaper'
    <3>1. 0 = prev + n - 1 * NUM_COLS
      BY <1>2, <1>3, <2>2, LineFacts, Sizes
    <3>2. \A c \in Cols : ~ (c < 0) /\ (c = paper.ink \/ c < paper.ink)
      BY <1>10, Sizes, PlaceTypes DEF Cols
    <3>3. 0 \in Rows /\ 1 \in Rows /\ 1 # 0 /\ 1 - 1 = 0
      BY Sizes DEF Rows
    <3>4. \A c \in Cols : prev <= c /\ c < paper.ink => paper.rows[0][c] = TYPED
      BY <1>2, <2>2, LineFacts DEF LineOnPaper
    <3>5. \A c \in Cols : prev <= c => Fed(filled)[1][c] = TYPED
      BY <1>6, <2>3, <3>2, <3>3, <3>4
    <3> QED BY <1>1, <2>1, <2>2, <3>1, <3>2, <3>5 DEF LineOnPaper
  <2>6. BlankBehind(paper')
    <3>1. 0 \in Rows
      BY Sizes DEF Rows
    <3> QED BY <2>1, <2>3, <3>1 DEF BlankBehind
  <2> QED BY <1>8, <2>2, <2>4, <2>5, <2>6
<1> QED BY <1>9, <1>10

\* A place in a row of the screen is on the screen.
LEMMA PlaceOnScreen ==
  ASSUME NEW r \in Rows, NEW c \in Cols
  PROVE  ~ (NUM_COLS * r + c >= NUM_ROWS * NUM_COLS)
<1>1. r \in Nat /\ NUM_ROWS - 1 - r \in Nat /\ c \in Nat /\ c < NUM_COLS
  BY Sizes DEF Rows, Cols
<1>2. NUM_COLS * (NUM_ROWS - 1 - r) \in Nat
  BY <1>1, Sizes
<1>3. NUM_COLS * (NUM_ROWS - 1 - r) = NUM_ROWS * NUM_COLS - NUM_COLS - NUM_COLS * r
  BY <1>1, Sizes
<1>4. NUM_ROWS * NUM_COLS \in Nat /\ NUM_COLS * r \in Nat
  BY <1>1, Sizes
<1> QED BY <1>1, <1>2, <1>3, <1>4, Sizes

LEMMA BackspacePlace ==
  ASSUME PlaceInv, Tidy, TypeOK', Backspace
  PROVE  PlaceInv'
<1> DEFINE place == NUM_COLS * terminal_screen[2] + terminal_screen[1] - 1
           n == current_char - 1
           b == current_line + Wraps
<1>1. /\ Key /\ current_char > 0 /\ current_char' = n /\ paper' = Erased(paper)
      /\ cells' = IF place < 0 THEN cells
                  ELSE [cells EXCEPT ![place \div NUM_COLS][place % NUM_COLS] = BLANK]
      /\ strayed' = (strayed \/ place >= NUM_ROWS * NUM_COLS)
      /\ UNCHANGED <<current_line, char_in_line, last_current_char, reset_flag, enter_flag,
                     pc, prev, shift_up, open>>
  BY DEF Backspace, backspace_called, Tidy
<1>2. /\ pc = "loop" /\ terminal_screen[1] = paper.ink /\ terminal_screen[2] = b
      /\ b \in Rows /\ b \in Nat /\ current_char < MAX_BUFFER_LENGTH /\ ~ strayed /\ Settled
  BY <1>1, KeyFacts, LineFacts DEF Settled
<1>3. n \in Nat /\ n # current_char /\ n < MAX_BUFFER_LENGTH /\ prev + n + 1 = prev + current_char
  BY <1>1, <1>2, LineFacts, Sizes
<1>4. ASSUME NEW r \in Rows, NEW c \in Cols, ~ Line(current_line, prev, current_char, r, c)
      PROVE  CellShows(cells, paper.rows, b, r, c)
  BY <1>2, <1>4, LineFacts DEF LineShows, Agrees, CellShows
<1>5. ASSUME NEW r \in Rows, NEW c \in Cols, Line(current_line, prev, current_char, r, c)
      PROVE  cells[r][c] = TYPED
  BY <1>2, <1>5, LineFacts DEF LineShows
<1>6. ASSUME NEW w \in {0, 1}, Wraps' = w,
             \A r \in Rows, c \in Cols : ~ Line(current_line, prev, n, r, c) =>
               CellShows(cells', paper'.rows, current_line + w, r, c),
             LineOnPaper', BlankBehind(paper'), ~ strayed', current_line + w \in Rows,
             \A r \in Rows, c \in Cols :
               Line(current_line, prev, n, r, c) => cells'[r][c] = TYPED
      PROVE  PlaceInv'
  <2> HIDE DEF n
  <2> QED BY <1>1, <1>3, <1>6, LineEdited
<1>7. paper.ink \in Nat /\ 0 \in Rows /\ 1 \in Rows
  BY PlaceTypes, Sizes DEF Rows, Cols
<1>8. CASE paper.ink > 0
  <2> DEFINE col == paper.ink - 1
             G == [cells EXCEPT ![b][col] = BLANK]
             q == [paper.rows EXCEPT ![0][col] = BLANK]
  <2>1. col \in Cols /\ col \in Nat
    BY <1>7, <1>8, PlaceTypes, Sizes DEF Cols
  <2>2. place = NUM_COLS * b + col /\ ~ (place < 0)
    BY <1>2, <1>7, <2>1, Sizes, CellOfPlace
  <2>3. place \div NUM_COLS = b /\ place % NUM_COLS = col
    BY <1>2, <2>1, <2>2, CellOfPlace
  <2>4. ~ strayed'
    BY <1>1, <1>2, <2>1, <2>2, PlaceOnScreen
  <2>5. cells' = G
    BY <1>1, <2>2, <2>3
  <2>6. paper'.rows = q /\ paper'.ink = col
    BY <1>1, <1>8 DEF Erased
  <2>7. \A r \in Rows, c \in Cols : G[r][c] = IF r = b /\ c = col THEN BLANK ELSE cells[r][c]
    BY <1>2, <2>1, PlaceTypes DEF Grids
  <2>8. \A k \in Rows, c \in Cols :
          q[k][c] = IF k = 0 /\ c = col THEN BLANK ELSE paper.rows[k][c]
    BY <1>7, <2>1, PlaceTypes DEF Grids
  <2>9. /\ Wraps' = Wraps /\ Wraps \in {0, 1}
        /\ IF Wraps = 0 THEN prev + current_char < NUM_COLS /\ col = prev + n
           ELSE prev + n >= NUM_COLS /\ col = prev + n - NUM_COLS
    BY <1>1, <1>2, <1>3, <1>8, LineFacts, Sizes DEF Wraps
  <2> HIDE DEF G, q, place, n, col
  <2>10. ASSUME NEW r \in Rows, NEW c \in Cols, ~ Line(current_line, prev, n, r, c)
        PROVE  CellShows(cells', paper'.rows, b, r, c)
    <3>1. r \in Nat /\ c \in Nat /\ c < NUM_COLS /\ current_line \in Nat
      BY <1>2, LineFacts, Sizes DEF Rows, Cols
    <3>2. CASE r = b /\ c = col
      <4>1. G[r][c] = BLANK /\ (b - r \in Rows => q[b - r][c] = BLANK)
        BY <1>2, <2>7, <2>8, <3>2
      <4> QED BY <2>5, <2>6, <4>1, Zenon DEF CellShows
    <3>3. CASE ~ (r = b /\ c = col)
      <4>1. ~ Line(current_line, prev, current_char, r, c)
        <5>1. CASE Wraps = 0
          BY <1>2, <1>3, <2>1, <2>9, <2>10, <3>1, <3>3, <5>1, LineFacts, Sizes DEF Line
        <5>2. CASE Wraps = 1
          BY <1>2, <1>3, <2>1, <2>9, <2>10, <3>1, <3>3, <5>2, LineFacts, Sizes DEF Line
        <5> QED BY <2>9, <5>1, <5>2
      <4>2. CellShows(cells, paper.rows, b, r, c)
        BY <1>4, <4>1
      <4>3. G[r][c] = cells[r][c] /\ (b - r \in Rows => q[b - r][c] = paper.rows[b - r][c])
        <5>1. ~ (b - r = 0 /\ c = col)
          BY <1>2, <3>1, <3>3
        <5> QED BY <2>7, <2>8, <3>3, <5>1
      <4>4. CellShows(G, q, b, r, c)
        BY <4>2, <4>3, Zenon DEF CellShows
      <4> QED BY <2>5, <2>6, <4>4
    <3> QED BY <3>2, <3>3
  <2>11. LineOnPaper'
    <3>1. \A c \in Cols : c < col => c < paper.ink /\ c # col
      BY <1>7, <2>1, Sizes DEF Cols, col
    <3>2. \A c \in Cols :
            IF Wraps = 0
            THEN prev <= c /\ c < col => q[0][c] = TYPED
            ELSE /\ c < col => q[0][c] = TYPED
                 /\ prev <= c => q[1][c] = TYPED
      BY <1>2, <1>7, <2>8, <3>1, LineFacts DEF LineOnPaper
    <3>3. col = prev + n - Wraps * NUM_COLS
      <4>1. CASE Wraps = 0
        BY <1>2, <1>3, <2>1, <2>9, <4>1, LineFacts, Sizes
      <4>2. CASE Wraps = 1
        BY <1>2, <1>3, <2>1, <2>9, <4>2, LineFacts, Sizes
      <4> QED BY <2>9, <4>1, <4>2
    <3> QED BY <1>1, <2>6, <2>9, <3>2, <3>3 DEF LineOnPaper
  <2>12. BlankBehind(paper')
    <3>1. \A c \in Cols : col <= c => c = col \/ paper.ink <= c
      BY <1>7, <2>1, Sizes DEF Cols, col
    <3> QED BY <1>7, <2>6, <2>8, <3>1, PlaceTypes DEF BlankBehind
  <2>13. ASSUME NEW r \in Rows, NEW c \in Cols, Line(current_line, prev, n, r, c)
         PROVE  cells'[r][c] = TYPED
    <3>1. r \in Nat /\ c \in Nat /\ c < NUM_COLS /\ current_line \in Nat
      BY <1>2, LineFacts, Sizes DEF Rows, Cols
    <3>2. Line(current_line, prev, current_char, r, c) /\ ~ (r = b /\ c = col)
      <4>1. CASE Wraps = 0
        BY <1>2, <1>3, <2>1, <2>9, <2>13, <3>1, <4>1, LineFacts, Sizes DEF Line
      <4>2. CASE Wraps = 1
        BY <1>2, <1>3, <2>1, <2>9, <2>13, <3>1, <4>2, LineFacts, Sizes DEF Line
      <4> QED BY <2>9, <4>1, <4>2
    <3> QED BY <1>5, <2>5, <2>7, <3>2
  <2> QED BY <1>2, <1>6, <2>9, <2>10, <2>11, <2>12, <2>4, <2>13
<1>9. CASE paper.ink = 0
  <2> DEFINE col == NUM_COLS - 1
             back == [k \in Rows |-> IF k + 1 \in Rows THEN paper.rows[k + 1] ELSE BlankRow]
             G == [cells EXCEPT ![current_line][col] = BLANK]
             q == [back EXCEPT ![0][col] = BLANK]
  <2>1. col \in Cols /\ col \in Nat
    BY Sizes DEF Cols
  <2>2. /\ Wraps = 1 /\ Wraps' = 0 /\ prev + current_char = NUM_COLS
        /\ b = current_line + 1 /\ current_line \in Rows /\ current_line \in Nat
    BY <1>1, <1>2, <1>3, <1>9, LineFacts, Sizes DEF Wraps
  <2>3. place = NUM_COLS * current_line + col /\ ~ (place < 0)
    <3>1. NUM_COLS * (current_line + 1) = NUM_COLS * current_line + NUM_COLS
      BY <2>2, Sizes
    <3>2. NUM_COLS * current_line \in Nat
      BY <2>2, Sizes
    <3> QED BY <1>2, <1>9, <2>1, <2>2, <3>1, <3>2, Sizes
  <2>4. place \div NUM_COLS = current_line /\ place % NUM_COLS = col
    BY <2>1, <2>2, <2>3, CellOfPlace
  <2>5. ~ strayed'
    BY <1>1, <1>2, <2>1, <2>2, <2>3, PlaceOnScreen
  <2>6. cells' = G
    BY <1>1, <2>3, <2>4
  <2>7. paper'.rows = q /\ paper'.ink = col
    BY <1>1, <1>9 DEF Erased
  <2>8. \A r \in Rows, c \in Cols :
          G[r][c] = IF r = current_line /\ c = col THEN BLANK ELSE cells[r][c]
    BY <2>1, <2>2, PlaceTypes DEF Grids
  <2>9. back \in Grids
    BY PlaceTypes, ShiftedType
  <2>10. \A k \in Rows, c \in Cols :
          q[k][c] = IF k = 0 /\ c = col THEN BLANK
                    ELSE IF k + 1 \in Rows THEN paper.rows[k + 1][c] ELSE BLANK
    <3>1. \A k \in Rows, c \in Cols :
            back[k][c] = IF k + 1 \in Rows THEN paper.rows[k + 1][c] ELSE BLANK
      BY DEF BlankRow
    <3>2. \A k \in Rows, c \in Cols : q[k][c] = IF k = 0 /\ c = col THEN BLANK ELSE back[k][c]
      <4> HIDE DEF back
      <4> QED BY <1>7, <2>1, <2>9 DEF Grids
    <3> HIDE DEF q, back
    <3> QED BY <3>1, <3>2
  <2> HIDE DEF G, q, place, n
  <2>11. ASSUME NEW r \in Rows, NEW c \in Cols, ~ Line(current_line, prev, n, r, c)
         PROVE  CellShows(cells', paper'.rows, current_line, r, c)
    <3>1. r \in Nat /\ c \in Nat /\ c < NUM_COLS /\ current_line \in Nat
      BY <1>2, LineFacts, Sizes DEF Rows, Cols
    <3>2. CASE r = current_line /\ c = col
      <4>1. G[r][c] = BLANK /\ (current_line - r \in Rows => q[current_line - r][c] = BLANK)
        BY <2>2, <2>8, <2>10, <3>2
      <4> QED BY <2>6, <2>7, <4>1, Zenon DEF CellShows
    <3>3. CASE ~ (r = current_line /\ c = col)
      <4>1. ~ Line(current_line, prev, current_char, r, c)
        BY <1>2, <1>3, <2>1, <2>2, <2>11, <3>1, <3>3, LineFacts, Sizes DEF Line
      <4>2. CellShows(cells, paper.rows, current_line + 1, r, c)
        BY <1>4, <2>2, <4>1
      <4>3. G[r][c] = cells[r][c]
        BY <2>8, <3>3
      <4>4. ASSUME r > current_line
            PROVE  cells[r][c] = BLANK
        <5>1. CASE r = current_line + 1
          <6>1. (current_line + 1) - r = 0 /\ paper.rows[0][c] = BLANK
            BY <1>9, <3>1, <5>1, PlaceTypes, Sizes DEF BlankBehind
          <6> QED BY <1>7, <4>2, <6>1 DEF CellShows
        <5>2. CASE r > current_line + 1
          BY <4>2, <5>2 DEF CellShows
        <5> QED BY <3>1, <4>4, <5>1, <5>2
      <4>5. ASSUME current_line - r \in Rows
            PROVE  cells[r][c] = q[current_line - r][c]
        <5> DEFINE k == current_line - r
        <5>1. /\ (current_line + 1) - r = k + 1 /\ k + 1 \in Rows /\ k \in Rows
              /\ ~ (k = 0 /\ c = col)
          BY <1>2, <2>2, <3>1, <3>3, <4>5, Sizes DEF Rows
        <5> HIDE DEF k
        <5>2. q[k][c] = paper.rows[k + 1][c]
          BY <2>10, <5>1
        <5>3. cells[r][c] = paper.rows[k + 1][c]
          BY <4>2, <5>1 DEF CellShows
        <5> QED BY <5>2, <5>3 DEF k
      <4>6. CellShows(G, q, current_line, r, c)
        BY <4>3, <4>4, <4>5, Zenon DEF CellShows
      <4> QED BY <2>6, <2>7, <4>6
    <3> QED BY <3>2, <3>3
  <2>12. LineOnPaper'
    <3>1. \A c \in Cols : c < col => c # col
      BY <2>1, Sizes DEF Cols
    <3>2. \A c \in Cols : prev <= c => paper.rows[1][c] = TYPED
      BY <1>2, <2>2, LineFacts DEF LineOnPaper
    <3>3. \A c \in Cols : prev <= c /\ c < col => q[0][c] = TYPED
      <4>1. 0 + 1 = 1
        OBVIOUS
      <4> HIDE DEF col
      <4> QED BY <1>7, <2>10, <3>1, <3>2, <4>1
    <3>4. col = prev + n - 0 * NUM_COLS
      BY <1>2, <1>3, <2>1, <2>2, LineFacts, Sizes
    <3> HIDE DEF col
    <3> QED BY <1>1, <2>2, <2>7, <3>3, <3>4 DEF LineOnPaper
  <2>13. BlankBehind(paper')
    <3>1. \A c \in Cols : col <= c => c = col
      BY Sizes DEF Cols
    <3> HIDE DEF col
    <3> QED BY <1>7, <2>7, <2>10, <3>1 DEF BlankBehind
  <2>14. current_line + 0 = current_line
    BY <2>2
  <2>15. ASSUME NEW r \in Rows, NEW c \in Cols, Line(current_line, prev, n, r, c)
         PROVE  cells'[r][c] = TYPED
    <3>1. r \in Nat /\ c \in Nat /\ c < NUM_COLS /\ current_line \in Nat
      BY <1>2, LineFacts, Sizes DEF Rows, Cols
    <3>2. Line(current_line, prev, current_char, r, c) /\ ~ (r = current_line /\ c = col)
      BY <1>2, <1>3, <2>1, <2>2, <2>15, <3>1, LineFacts, Sizes DEF Line
    <3> QED BY <1>5, <2>6, <2>8, <3>2
  <2> QED BY <1>6, <2>2, <2>11, <2>12, <2>13, <2>14, <2>5, <2>15
<1> QED BY <1>7, <1>8, <1>9

LEMMA ClearPlace ==
  ASSUME PlaceInv, Tidy, TypeOK', clear_terminal
  PROVE  PlaceInv'
<1>1. /\ Key /\ prev = 0 /\ current_char = 0 /\ cells' = clear /\ pc' = "clear"
      /\ UNCHANGED <<current_line, enter_flag, current_char, strayed, prev, paper, open>>
  BY DEF clear_terminal, Tidy, info
<1>2. /\ pc = "loop" /\ Quiet /\ ~ open /\ ~ strayed
      /\ prev + MAX_BUFFER_LENGTH <= 2 * NUM_COLS
  BY <1>1, KeyFacts
<1>3. ClearInv'
  BY <1>1, <1>2, Sizes DEF ClearInv, Quiet
<1> QED BY <1>1, <1>2, <1>3, PlaceTypes DEF PlaceInv, UserInv, WriteInv, ReadInv, BlankBehind

LEMMA ClearEndsPlace ==
  ASSUME PlaceInv, Tidy, TypeOK', ClearEnds
  PROVE  PlaceInv'
<1>1. /\ pc = "clear" /\ pc' = "loop" /\ reset_flag' = TRUE
      /\ current_line' = 0 /\ char_in_line' = 0
      /\ paper' = Printed(BlankPaper, Typed(current_char))
      /\ UNCHANGED <<current_char, enter_flag, cells, strayed, prev, shift_up, open>>
  BY DEF ClearEnds, output
<1>2. /\ ~ open /\ ~ enter_flag /\ prev = 0 /\ MAX_BUFFER_LENGTH <= 2 * NUM_COLS
      /\ current_char = 0 /\ cells = clear /\ ~ strayed
  BY <1>1 DEF PlaceInv, ClearInv
<1>3. paper' = BlankPaper
  <2>1. 0 \in Nat /\ ~ \E i \in 1 .. 0 : TRUE
    OBVIOUS
  <2>2. PICK b \in [0 .. 0 -> Papers] : b[0] = BlankPaper /\ Printed(BlankPaper, Typed(0)) = b[0]
    BY <2>1, BlankPaperType, TypedPrints
  <2> QED BY <1>1, <1>2, <2>2
<1>4. /\ 0 \in Rows /\ 1 \in Rows /\ 0 \in Cols
      /\ \A r \in Rows, c \in Cols : r \in Nat /\ c \in Nat /\ c < NUM_COLS
      /\ \A r \in Rows, c \in Cols : clear[r][c] = BLANK
  BY ClearType, Sizes DEF Rows, Cols
<1>5. paper'.ink = 0 /\ paper'.rows = clear
  BY <1>3 DEF BlankPaper
<1>6. Wraps' = 0 /\ ~ Echoed'
  BY <1>1, <1>2, Sizes DEF Wraps, Echoed
<1>7. LineOnPaper'
  BY <1>1, <1>2, <1>4, <1>5, <1>6, Sizes DEF LineOnPaper
<1>8. LineShows'
  <2>1. ASSUME NEW r \in Rows, NEW c \in Cols
        PROVE  ~ InLine(r, c)' /\ Agrees(0, r, c)'
    <3>1. ~ InLine(r, c)'
      BY <1>1, <1>2, <1>4, Sizes DEF InLine
    <3>2. Agrees(0, r, c)'
      BY <1>1, <1>2, <1>4, <1>5 DEF Agrees
    <3> QED BY <3>1, <3>2
  <2>2. current_line' + Wraps' = 0
    BY <1>1, <1>6
  <2> QED BY <2>1, <2>2 DEF LineShows
<1>9. ReadInv'
  BY <1>1, <1>2, <1>4, <1>6, <1>7, <1>8, Sizes DEF ReadInv
<1> QED BY <1>1, <1>2, <1>4, <1>5, <1>9 DEF PlaceInv, UserInv, WriteInv, ClearInv

\* The place depends neither on the cursor that the scheduler saves nor on the page that
\* it maps; it maps the screen.
LEMMA SavedPlace ==
  ASSUME PlaceInv, TypeOK', vmap' \in {vmap, "screen"},
         UNCHANGED <<info, cells, strayed, cursor, pc, text, prev, shift_up, paper, open>>
  PROVE  PlaceInv'
<1>1. UNCHANGED <<current_line, char_in_line, current_char, last_current_char, reset_flag,
                  enter_flag, x, y, cells, strayed, pc, text, prev, shift_up, paper, open>>
  BY DEF info, cursor
<1>2. UserInv' /\ WriteInv' /\ ClearInv'
  BY <1>1 DEF PlaceInv, UserInv, WriteInv, ClearInv, Quiet, Shows, Agrees
<1>3. ReadInv'
  <2>1. Wraps' = Wraps /\ (Echoed' <=> Echoed) /\ (Settled' => Settled)
    BY <1>1 DEF Wraps, Echoed, Settled
  <2>2. LineOnPaper => LineOnPaper'
    BY <1>1, <2>1 DEF LineOnPaper
  <2>3. LineShows => LineShows'
    BY <1>1, <2>1 DEF LineShows, InLine, Agrees
  <2> QED BY <1>1, <2>1, <2>2, <2>3 DEF PlaceInv, ReadInv
<1> QED BY <1>1, <1>2, <1>3 DEF PlaceInv

LEMMA InitPlace == Init => PlaceInv
<1> SUFFICES ASSUME Init PROVE PlaceInv
  OBVIOUS
<1>1. TypeOK
  BY InitTypes DEF TypeInv
<1>2. 0 \in Rows /\ \A r \in Rows, c \in Cols : clear[r][c] = BLANK
  BY ClearType, Sizes DEF Rows
<1>3. Shows(current_line)
  BY <1>2 DEF Init, BlankPaper, Shows, Agrees
<1>4. UserInv
  BY <1>3 DEF Init, BlankPaper, UserInv, Quiet
<1> QED BY <1>1, <1>2, <1>4 DEF Init, BlankPaper, PlaceInv, WriteInv, ReadInv, ClearInv

LEMMA NextPlace ==
  ASSUME Tidy, PlaceInv, [Next]_vars
  PROVE  PlaceInv'
<1>1. TypeOK'
  BY PlaceTypes, NextTypes DEF TypeInv
<1>2. CASE scheduler
  BY <1>1, <1>2, SavedPlace DEF scheduler
<1>3. CASE UNCHANGED vars
  BY <1>1, <1>3, SavedPlace DEF vars, output
<1>4. ASSUME NEW t \in Texts, Write(t)
      PROVE  PlaceInv'
  BY <1>1, <1>4, WritePlace
<1>5. CASE MakeRoom
  BY <1>1, <1>5, MakeRoomPlace
<1>6. CASE PutText
  BY <1>1, <1>6, PutTextPlace
<1>7. CASE ReadCalled
  BY <1>1, <1>7, ReadCalledPlace
<1>8. CASE Echo
  BY <1>1, <1>8, EchoPlace
<1>9. CASE TakeLine
  BY <1>1, <1>9, TakeLinePlace
<1>10. CASE Type
  BY <1>1, <1>10, TypePlace
<1>11. CASE Enter
  BY <1>1, <1>11, EnterPlace
<1>12. CASE Backspace
  BY <1>1, <1>12, BackspacePlace
<1>13. CASE clear_terminal
  BY <1>1, <1>13, ClearPlace
<1>14. CASE ClearEnds
  BY <1>1, <1>14, ClearEndsPlace
<1>15. ASSUME NEW t \in Texts, WriteRefused(t)
       PROVE  PlaceInv'
  BY <1>3, <1>15 DEF WriteRefused
<1> QED BY <1>2, <1>3, <1>4, <1>5, <1>6, <1>7, <1>8, <1>9, <1>10, <1>11, <1>12, <1>13, <1>14,
           <1>15 DEF Next

\* For every size of the screen, the buffer and the texts, and tidy use of the terminal:
\* current_line and char_in_line (devices/terminal.c) always name the row and the column
\* behind what putc has put on the screen, and putc puts nothing behind the last row,
\* whose memory it does not keep clear of (lib.c:185).
THEOREM PlaceCorrect ==
  ASSUME Tidy
  PROVE  Spec => []PlaceInv
<1>1. PlaceInv /\ [Next]_vars => PlaceInv'
  BY NextPlace
<1> QED BY <1>1, InitPlace, PTL DEF Spec

\* So the screen always shows the end of what was written and typed: terminal_write and
\* terminal_read scroll when, and only when, a row is needed.
THEOREM ScreenCorrect ==
  ASSUME Tidy
  PROVE  Spec => []ScreenShows
<1>1. PlaceInv => ScreenShows
  <2> SUFFICES ASSUME PlaceInv, pc = "user" \/ (pc = "loop" /\ Echoed)
               PROVE  \E b \in Rows : \A r \in Rows :
                        cells[r] = IF r > b THEN BlankRow ELSE paper.rows[b - r]
    BY DEF ScreenShows
  <2>1. PICK b \in Rows : Shows(b)
    <3>1. CASE pc = "loop" /\ Echoed
      BY <3>1, LineShown
    <3>2. CASE pc = "user"
      BY <3>2, PlaceTypes, TypeFacts DEF PlaceInv, UserInv
    <3> QED BY <3>1, <3>2
  <2>2. ASSUME NEW r \in Rows
        PROVE  cells[r] = IF r > b THEN BlankRow ELSE paper.rows[b - r]
    <3>1. cells[r] \in [Cols -> Inks]
      BY PlaceTypes DEF Grids
    <3>2. CASE r > b
      BY <2>1, <3>1, <3>2 DEF Shows, Agrees, BlankRow
    <3>3. CASE ~ (r > b)
      <4>1. b - r \in Rows
        BY <3>3, Sizes DEF Rows
      <4>2. paper.rows[b - r] \in [Cols -> Inks]
        BY <4>1, PlaceTypes DEF Grids
      <4>3. \A c \in Cols : cells[r][c] = paper.rows[b - r][c]
        BY <2>1, <4>1 DEF Shows, Agrees
      <4> QED BY <3>1, <3>3, <4>2, <4>3
    <3> QED BY <3>2, <3>3
  <2> QED BY <2>2
<1> QED BY <1>1, PlaceCorrect, PTL
=============================================================================
