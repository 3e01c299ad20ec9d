------------------------- MODULE QueenSolverProofs -------------------------
(***************************************************************************)
(* The N-Queen solver solves every puzzle that has a solution, on a board  *)
(* of any size: what it leaves on the server's board are N queens of which *)
(* no two attack each other.                                               *)
(*                                                                         *)
(* The search is sound because the bookkeeping of rows and columns and     *)
(* checkqueen together exclude every attack (PeacefulStays), and complete  *)
(* because every solution is still ahead of it: it agrees with all the     *)
(* queens placed so far, or it differs first in a queen that is further    *)
(* right than the one the search has there (AllAhead).                     *)
(***************************************************************************)
EXTENDS PuzzleSolvers, SequenceTheorems, FiniteSetTheorems, TLAPS

(* The board that a placement, a column for every row, stands for.         *)
Board(place) == {<<r, place[r]>> : r \in Index}

IsSolution(place) == given \subseteq Board(place) /\ Peaceful(Board(place))

Placed(i) == i \in 1..Len(calls)

Agrees(place, n) == \A i \in 1..n : place[calls[i][1]] = calls[i][2]

Ahead(place) ==
    \/ Agrees(place, Len(calls)) /\ (row < N => place[row] >= col)
    \/ \E k \in 1..Len(calls) : Agrees(place, k - 1) /\ place[calls[k][1]] > calls[k][2]

QueenType ==
    /\ given \subseteq Cell
    /\ table \subseteq Cell
    /\ sent \subseteq Cell
    /\ row \in 0..N
    /\ col \in 0..N
    /\ calls \in Seq(Cell)
    /\ stage \in {"start", "board", "search", "upload", "reply", "verdict", "ended",
                  "spinning", "fault", "killed"}

(* The frames are those of rows further and further down.                  *)
CallsDescend ==
    /\ \A i, j \in 1..Len(calls) : i < j => calls[i][1] < calls[j][1]
    /\ \A i \in 1..Len(calls) : calls[i][1] < row

TableIs == table = given \cup {calls[i] : i \in 1..Len(calls)}

(* A queen that was placed shares its row and its column with no other.    *)
Alone ==
    \A i \in 1..Len(calls) :
        /\ calls[i] \notin given
        /\ \A p \in table : p[1] = calls[i][1] \/ p[2] = calls[i][2] => p = calls[i]

Books ==
    /\ row_Queen = {q[1] : q \in table}
    /\ col_Queen = {q[2] : q \in table}

RowsDone == \A r \in Index : r < row => r \in row_Queen

PeacefulStays == Peaceful(given) => Peaceful(table)

AllAhead == \A place \in [Index -> Index] : IsSolution(place) => Ahead(place)

Searching ==
    CallsDescend /\ TableIs /\ Alone /\ Books /\ RowsDone /\ PeacefulStays /\ AllAhead

Outcome == Solvable(given) => given \subseteq table /\ Solves(table)

Early == stage \in {"start", "board"} => calls = <<>> /\ row = 0 /\ col = 0 /\ sent = {}
During == stage = "search" => Searching /\ sent = {}
Late == stage \in {"upload", "reply", "verdict", "ended"} => Outcome /\ sent \subseteq table
Told == stage \in {"verdict", "ended"} => table \subseteq sent

QueenInv == QueenType /\ Early /\ During /\ Late /\ Told
----------------------------------------------------------------------------
(* The board.                                                              *)

LEMMA CellFacts ==
    ASSUME NEW p \in Cell
    PROVE /\ p[1] \in Index /\ p[2] \in Index
          /\ p = <<p[1], p[2]>>
          /\ p[1] \in Nat /\ p[2] \in Nat
  BY NAssumption DEF Cell, Index

(* A stack without its top.                                                *)
LEMMA Shortened ==
    ASSUME NEW cs \in Seq(Cell), cs # <<>>
    PROVE  LET n == Len(cs) IN
           /\ n \in Nat \ {0} /\ n \in 1..n /\ cs[n] \in Cell
           /\ SubSeq(cs, 1, n - 1) \in Seq(Cell) /\ Len(SubSeq(cs, 1, n - 1)) = n - 1
           /\ \A i \in 1..(n - 1) : SubSeq(cs, 1, n - 1)[i] = cs[i] /\ i \in 1..n
  <1> DEFINE n == Len(cs)
  <1>1. n \in Nat \ {0} /\ n \in 1..n
    BY EmptySeq, LenProperties
  <1>2. \A i \in 1..n : cs[i] \in Cell
    BY ElementOfSeq
  <1>3. \A i \in 1..(n - 1) : cs[i] \in Cell
    BY <1>1, <1>2
  <1>4. /\ SubSeq(cs, 1, n - 1) \in Seq(Cell)
        /\ Len(SubSeq(cs, 1, n - 1)) = IF 1 <= n - 1 THEN (n - 1) - 1 + 1 ELSE 0
        /\ \A i \in 1..((n - 1) - 1 + 1) : SubSeq(cs, 1, n - 1)[i] = cs[1 + i - 1]
    BY <1>1, <1>3, SubSeqProperties
  <1> HIDE DEF n
  <1>5. (IF 1 <= n - 1 THEN (n - 1) - 1 + 1 ELSE 0) = n - 1 /\ (n - 1) - 1 + 1 = n - 1
    BY <1>1
  <1>6. ASSUME NEW i \in 1..(n - 1) PROVE 1 + i - 1 = i /\ i \in 1..n
    BY <1>1, <1>6
  <1> QED BY <1>1, <1>2, <1>4, <1>5, <1>6 DEF n

LEMMA BoardFacts ==
    ASSUME NEW place \in [Index -> Index]
    PROVE /\ Board(place) \subseteq Cell
          /\ \A p \in Board(place) : place[p[1]] = p[2]
          /\ \A r \in Index : <<r, place[r]>> \in Board(place)
  BY DEF Board, Cell

(* checkqueen looks along both diagonals to the border.                    *)
LEMMA ChecksDiagonals ==
    ASSUME NEW x \in Index, NEW y \in Index, checkqueen(x, y),
           NEW p \in table, table \subseteq Cell
    PROVE /\ p[1] + p[2] # x + y
          /\ p[1] + y # x + p[2]
  <1>1. /\ p[1] \in Index /\ p[2] \in Index /\ p = <<p[1], p[2]>>
    BY CellFacts
  <1>2. /\ x \in Nat /\ y \in Nat /\ p[1] \in Nat /\ p[2] \in Nat
        /\ x < N /\ y < N /\ p[1] < N /\ p[2] < N
    BY <1>1, NAssumption DEF Index
  <1> DEFINE i == IF p[1] < x THEN x - p[1] ELSE p[1] - x
  <1>3. i \in Index
    BY <1>2, NAssumption DEF Index
  <1>4. /\ p # <<x + i, y + i>> /\ p # <<x - i, y - i>>
        /\ p # <<x + i, y - i>> /\ p # <<x - i, y + i>>
    BY <1>3 DEF checkqueen
  <1>5. CASE p[1] + p[2] = x + y
    <2>1. CASE p[1] < x
      BY <1>1, <1>2, <1>4, <1>5, <2>1
    <2>2. CASE ~(p[1] < x)
      BY <1>1, <1>2, <1>4, <1>5, <2>2
    <2> QED BY <2>1, <2>2
  <1>6. CASE p[1] + y = x + p[2]
    <2>1. CASE p[1] < x
      BY <1>1, <1>2, <1>4, <1>6, <2>1
    <2>2. CASE ~(p[1] < x)
      BY <1>1, <1>2, <1>4, <1>6, <2>2
    <2> QED BY <2>1, <2>2
  <1> QED BY <1>5, <1>6

(* In a peaceful board the cell of a row that has no queen yet is free.    *)
LEMMA PeacefulChecks ==
    ASSUME NEW board, board \subseteq Cell, Peaceful(board), table \subseteq board,
           NEW x \in Index, NEW y \in Index, <<x, y>> \in board,
           \A p \in table : p[1] # x
    PROVE checkqueen(x, y) /\ \A p \in table : p[2] # y
  <1>1. ASSUME NEW p \in table
        PROVE /\ p \in Cell /\ p # <<x, y>>
              /\ p[2] # y
              /\ p[1] + p[2] # x + y
              /\ p[1] + y # x + p[2]
    <2>1. p \in Cell /\ p \in board
      OBVIOUS
    <2>2. p # <<x, y>>
      OBVIOUS
    <2>3. ~Attack(p, <<x, y>>)
      BY <2>1, <2>2 DEF Peaceful
    <2> QED BY <2>1, <2>2, <2>3 DEF Attack
  <1>2. ASSUME NEW i \in Index, NEW p \in table,
               p \in {<<x + i, y + i>>, <<x - i, y - i>>, <<x + i, y - i>>, <<x - i, y + i>>}
        PROVE FALSE
    <2>1. x \in Nat /\ y \in Nat /\ i \in Nat
      BY NAssumption DEF Index
    <2>2. p[1] + p[2] # x + y /\ p[1] + y # x + p[2]
      BY <1>1
    <2>3. CASE p = <<x + i, y + i>>
      BY <2>1, <2>2, <2>3
    <2>4. CASE p = <<x - i, y - i>>
      BY <2>1, <2>2, <2>4
    <2>5. CASE p = <<x + i, y - i>>
      BY <2>1, <2>2, <2>5
    <2>6. CASE p = <<x - i, y + i>>
      BY <2>1, <2>2, <2>6
    <2> QED BY <1>2, <2>3, <2>4, <2>5, <2>6
  <1>3. checkqueen(x, y)
    BY <1>2 DEF checkqueen
  <1> QED BY <1>1, <1>3

(* A peaceful board with a queen in every row has N of them.               *)
LEMMA FullBoard ==
    ASSUME NEW board, board \subseteq Cell, Peaceful(board),
           \A r \in Index : \E p \in board : p[1] = r
    PROVE Cardinality(board) = N
  <1> DEFINE f == [p \in board |-> p[1]]
  <1>1. f \in [board -> Index]
    BY CellFacts
  <1>2. ASSUME NEW p \in board, NEW q \in board, f[p] = f[q]
        PROVE p = q
    BY <1>2 DEF Peaceful, Attack
  <1>3. \A r \in Index : \E p \in board : f[p] = r
    OBVIOUS
  <1>4. f \in Injection(board, Index)
    BY <1>1, <1>2 DEF Injection, IsInjective
  <1>5. f \in Surjection(board, Index)
    BY <1>1, <1>3 DEF Surjection
  <1>6. IsFiniteSet(Index) /\ Cardinality(Index) = N
    BY FS_Interval, NAssumption DEF Index
  <1>7. Cardinality(board) = Cardinality(Index)
    BY <1>4, <1>5, <1>6, FS_Injection
  <1> QED BY <1>6, <1>7

LEMMA SubboardIsPeaceful ==
    ASSUME NEW board, NEW part \in SUBSET board, Peaceful(board)
    PROVE Peaceful(part)
  BY DEF Peaceful

LEMMA SolvableMeans ==
    Solvable(given) <=> \E place \in [Index -> Index] : IsSolution(place)
  BY DEF Solvable, IsSolution, Board

----------------------------------------------------------------------------
(* The search.                                                             *)

(* A solution that agrees with every queen placed has one in this row that *)
(* the loop may still place.                                               *)
LEMMA SolutionMayBePlaced ==
    ASSUME QueenType, Searching, InLoop,
           NEW place \in [Index -> Index], IsSolution(place),
           Agrees(place, Len(calls)), place[row] >= col
    PROVE MayPlace(place[row])
  <1>1. row \in Index /\ place[row] \in Index
    BY NAssumption DEF InLoop, QueenType, Index
  <1>2. table \subseteq Board(place)
    <2>1. \A i \in 1..Len(calls) : calls[i] \in Board(place)
      <3> SUFFICES ASSUME NEW i \in 1..Len(calls) PROVE calls[i] \in Board(place)
        OBVIOUS
      <3>1. calls[i] \in Cell
        BY ElementOfSeq DEF QueenType
      <3>2. calls[i] = <<calls[i][1], calls[i][2]>> /\ calls[i][1] \in Index
        BY <3>1, CellFacts
      <3>3. calls[i] = <<calls[i][1], place[calls[i][1]]>>
        BY <3>2 DEF Agrees
      <3> QED BY <3>2, <3>3, BoardFacts
    <2> QED BY <2>1 DEF Searching, TableIs, IsSolution
  <1>3. \A p \in table : p[1] # row
    BY DEF Searching, Books, InLoop
  <1>4. <<row, place[row]>> \in Board(place)
    BY <1>1, BoardFacts
  <1>5. checkqueen(row, place[row]) /\ \A p \in table : p[2] # place[row]
    BY <1>1, <1>2, <1>3, <1>4, PeacefulChecks, BoardFacts DEF IsSolution
  <1>6. place[row] \notin col_Queen
    BY <1>5 DEF Searching, Books
  <1>7. place[row] \in col..(N - 1)
    BY <1>1, NAssumption DEF Index, QueenType
  <1> QED BY <1>5, <1>6, <1>7 DEF MayPlace

LEMMA SkipRowSearches ==
    ASSUME QueenType, Searching, SkipRow
    PROVE QueenType' /\ Searching'
  <1> USE DEF SkipRow
  <1>1. row \in Index /\ row + 1 \in 0..N /\ 0 \in 0..N
    <2>1. PICK q \in table : row = q[1]
      BY DEF Searching, Books
    <2>2. row \in Index
      BY <2>1, CellFacts DEF QueenType
    <2> QED BY <2>2, NAssumption DEF Index
  <1>2. QueenType'
    BY <1>1 DEF QueenType
  <1>3. CallsDescend'
    <2>1. \A i \in 1..Len(calls) : calls[i][1] \in Nat
      BY ElementOfSeq, CellFacts DEF QueenType
    <2> QED BY <1>1, <2>1 DEF CallsDescend, Searching, QueenType
  <1>4. TableIs' /\ Alone' /\ Books'
    BY DEF Searching, TableIs, Alone, Books
  <1>5. RowsDone'
    BY NAssumption DEF Searching, RowsDone, QueenType, Index
  <1>6. PeacefulStays'
    BY DEF Searching, PeacefulStays
  <1>7. AllAhead'
    <2> SUFFICES ASSUME NEW place \in [Index -> Index], IsSolution(place)
                 PROVE Ahead(place)'
      BY DEF AllAhead, IsSolution
    <2>1. Ahead(place)
      BY DEF Searching, AllAhead
    <2>2. row + 1 < N => place[row + 1] >= 0
      BY <1>1, NAssumption DEF Index
    <2> QED BY <2>1, <2>2 DEF Ahead, Agrees
  <1> QED BY <1>2, <1>3, <1>4, <1>5, <1>6, <1>7 DEF Searching

LEMMA PlaceQueenSearches ==
    ASSUME QueenType, Searching, PlaceQueen
    PROVE QueenType' /\ Searching'
  <1>1. PICK c \in Index :
          /\ MayPlace(c)
          /\ \A d \in Index : MayPlace(d) => c <= d
          /\ table' = table \cup {<<row, c>>}
          /\ row_Queen' = row_Queen \cup {row}
          /\ col_Queen' = col_Queen \cup {c}
          /\ calls' = Append(calls, <<row, c>>)
    BY DEF PlaceQueen
  <1>2. /\ row' = row + 1 /\ col' = 0 /\ row < N /\ row \notin row_Queen
        /\ UNCHANGED <<given, stage, sent>>
    BY DEF PlaceQueen, InLoop
  <1>3. /\ row \in Index /\ row + 1 \in 0..N /\ 0 \in 0..N /\ c \in Nat
        /\ <<row, c>> \in Cell
    BY <1>1, <1>2, NAssumption DEF QueenType, Index, Cell
  <1>4. /\ calls' \in Seq(Cell)
        /\ Len(calls) \in Nat
        /\ Len(calls') = Len(calls) + 1
        /\ \A i \in 1..Len(calls) : calls'[i] = calls[i] /\ calls[i] \in Cell
        /\ calls'[Len(calls) + 1] = <<row, c>>
    BY <1>1, <1>3, AppendProperties, ElementOfSeq, LenProperties DEF QueenType
  <1>5. \A i \in 1..Len(calls') : i \in 1..Len(calls) \/ i = Len(calls) + 1
    BY <1>4
  <1>6. \A p \in table : p[1] # row /\ p[2] # c
    BY <1>1, <1>2 DEF Searching, Books, MayPlace
  <1>7. \A i \in 1..Len(calls) : calls[i] \in table /\ calls[i][1] \in Nat /\ calls[i][1] < row
    BY <1>4, CellFacts DEF Searching, TableIs, CallsDescend
  <1>8. QueenType'
    BY <1>1, <1>2, <1>3, <1>4 DEF QueenType
  <1>9. CallsDescend'
    <2>1. ASSUME NEW i \in 1..Len(calls'), NEW j \in 1..Len(calls'), i < j
          PROVE calls'[i][1] < calls'[j][1]
      <3>1. i \in 1..Len(calls)
        BY <1>4, <2>1
      <3>2. CASE j \in 1..Len(calls)
        BY <1>4, <2>1, <3>1, <3>2 DEF Searching, CallsDescend
      <3>3. CASE j = Len(calls) + 1
        BY <1>4, <1>7, <3>1, <3>3
      <3> QED BY <1>5, <3>2, <3>3
    <2>2. ASSUME NEW i \in 1..Len(calls') PROVE calls'[i][1] < row'
      <3>1. CASE i \in 1..Len(calls)
        BY <1>2, <1>3, <1>4, <1>7, <3>1 DEF QueenType
      <3>2. CASE i = Len(calls) + 1
        BY <1>2, <1>3, <1>4, <3>2 DEF QueenType
      <3> QED BY <1>5, <3>1, <3>2
    <2> QED BY <2>1, <2>2 DEF CallsDescend
  <1>10. TableIs'
    <2>1. {calls'[i] : i \in 1..Len(calls')} = {calls[i] : i \in 1..Len(calls)} \cup {<<row, c>>}
      <3>1. \A i \in 1..Len(calls') : calls'[i] \in {calls[j] : j \in 1..Len(calls)} \cup {<<row, c>>}
        BY <1>4, <1>5
      <3>2. \A i \in 1..Len(calls) : i \in 1..Len(calls') /\ calls[i] = calls'[i]
        BY <1>4
      <3>3. Len(calls) + 1 \in 1..Len(calls') /\ <<row, c>> = calls'[Len(calls) + 1]
        BY <1>4
      <3> QED BY <3>1, <3>2, <3>3
    <2> QED BY <1>1, <1>2, <2>1 DEF Searching, TableIs
  <1>11. Alone'
    <2> SUFFICES ASSUME NEW i \in 1..Len(calls')
                 PROVE /\ calls'[i] \notin given
                       /\ \A p \in table' :
                            p[1] = calls'[i][1] \/ p[2] = calls'[i][2] => p = calls'[i]
      BY <1>2 DEF Alone
    <2>1. CASE i \in 1..Len(calls)
      <3>1. calls[i][1] # row /\ calls[i][2] # c
        BY <1>6, <1>7, <2>1
      <3> QED BY <1>1, <1>4, <2>1, <3>1 DEF Searching, Alone
    <2>2. CASE i = Len(calls) + 1
      <3>1. <<row, c>> \notin given
        BY <1>6 DEF Searching, TableIs
      <3> QED BY <1>1, <1>4, <1>6, <2>2, <3>1
    <2> QED BY <1>5, <2>1, <2>2
  <1>12. Books'
    <2>1. <<row, c>>[1] = row /\ <<row, c>>[2] = c
      OBVIOUS
    <2>2. \A q \in table' : q \in table \/ q = <<row, c>>
      BY <1>1
    <2>3. table \subseteq table' /\ <<row, c>> \in table'
      BY <1>1
    <2>4. row_Queen' = {q[1] : q \in table} \cup {row} /\ col_Queen' = {q[2] : q \in table} \cup {c}
      BY <1>1 DEF Searching, Books
    <2>5. {q[1] : q \in table'} = {q[1] : q \in table} \cup {row}
      BY <2>1, <2>2, <2>3
    <2>6. {q[2] : q \in table'} = {q[2] : q \in table} \cup {c}
      BY <2>1, <2>2, <2>3
    <2> QED BY <2>4, <2>5, <2>6 DEF Books
  <1>13. RowsDone'
    BY <1>1, <1>2, <1>3, NAssumption DEF Searching, RowsDone, QueenType, Index
  <1>14. PeacefulStays'
    <2> SUFFICES ASSUME Peaceful(given) PROVE Peaceful(table')
      BY <1>2 DEF PeacefulStays
    <2>1. Peaceful(table)
      BY DEF Searching, PeacefulStays
    <2>2. ASSUME NEW p \in table
          PROVE ~Attack(p, <<row, c>>) /\ ~Attack(<<row, c>>, p)
      <3>1. p[1] + p[2] # row + c /\ p[1] + c # row + p[2]
        BY <1>1, <1>3, ChecksDiagonals DEF MayPlace, QueenType
      <3>2. /\ p[1] \in Nat /\ p[2] \in Nat /\ row \in Nat /\ c \in Nat
        BY <1>3, CellFacts DEF QueenType
      <3> QED BY <1>6, <3>1, <3>2 DEF Attack
    <2> QED BY <1>1, <2>1, <2>2 DEF Peaceful
  <1>15. AllAhead'
    <2> SUFFICES ASSUME NEW place \in [Index -> Index], IsSolution(place)
                 PROVE Ahead(place)'
      BY <1>2 DEF AllAhead, IsSolution
    <2>1. Ahead(place)
      BY DEF Searching, AllAhead
    <2>2. place[row] \in Nat /\ place[row] \in Index /\ (row + 1 < N => place[row + 1] >= 0)
      BY <1>3, NAssumption DEF Index
    <2>3. CASE Agrees(place, Len(calls)) /\ (row < N => place[row] >= col)
      <3>1. MayPlace(place[row])
        BY <2>3, <1>2, SolutionMayBePlaced DEF PlaceQueen
      <3>2. c <= place[row]
        BY <1>1, <2>2, <3>1
      <3>3. CASE place[row] = c
        <4>1. Agrees(place, Len(calls))
          BY <2>3
        <4>2. \A i \in 1..Len(calls') : place[calls'[i][1]] = calls'[i][2]
          BY <1>4, <1>5, <3>3, <4>1 DEF Agrees
        <4> QED BY <1>2, <2>2, <4>2 DEF Ahead, Agrees
      <3>4. CASE place[row] > c
        <4>1. \A i \in 1..Len(calls) : place[calls'[i][1]] = calls'[i][2]
          BY <1>4, <2>3 DEF Agrees
        <4>2. Len(calls) + 1 \in 1..Len(calls') /\ (Len(calls) + 1) - 1 = Len(calls)
          BY <1>4
        <4>3. place[calls'[Len(calls) + 1][1]] > calls'[Len(calls) + 1][2]
          BY <1>4, <3>4
        <4> QED BY <4>1, <4>2, <4>3 DEF Ahead, Agrees
      <3> QED BY <1>3, <2>2, <3>2, <3>3, <3>4
    <2>4. ASSUME NEW k \in 1..Len(calls),
                 Agrees(place, k - 1), place[calls[k][1]] > calls[k][2]
          PROVE Ahead(place)'
      <3>1. k \in 1..Len(calls') /\ \A i \in 1..(k - 1) : i \in 1..Len(calls)
        BY <1>4
      <3>2. \A i \in 1..(k - 1) : place[calls'[i][1]] = calls'[i][2]
        BY <1>4, <2>4, <3>1 DEF Agrees
      <3> QED BY <1>4, <2>4, <3>1, <3>2 DEF Ahead, Agrees
    <2> QED BY <2>1, <2>3, <2>4 DEF Ahead
  <1> QED BY <1>8, <1>9, <1>10, <1>11, <1>12, <1>13, <1>14, <1>15 DEF Searching

LEMMA BacktrackSearches ==
    ASSUME QueenType, Searching, Backtrack
    PROVE QueenType' /\ Searching'
  <1> DEFINE n == Len(calls)
             q == calls[n]
  <1>1. /\ InLoop /\ \A c \in Index : ~MayPlace(c)
        /\ calls # <<>>
        /\ table' = table \ {q}
        /\ row_Queen' = row_Queen \ {q[1]}
        /\ col_Queen' = col_Queen \ {q[2]}
        /\ row' = q[1]
        /\ col' = q[2] + 1
        /\ calls' = SubSeq(calls, 1, n - 1)
        /\ UNCHANGED <<given, stage, sent>>
    BY DEF Backtrack, NextColumn
  <1>2. n \in Nat \ {0} /\ n \in 1..n /\ q \in Cell
    BY <1>1, EmptySeq, ElementOfSeq DEF QueenType
  <1>3. /\ calls' \in Seq(Cell)
        /\ Len(calls') = n - 1
        /\ \A i \in 1..(n - 1) : calls'[i] = calls[i] /\ i \in 1..n
    BY <1>1, Shortened DEF QueenType
  <1>4. q[1] \in Index /\ q[2] \in Index /\ q[1] \in 0..N /\ q[2] + 1 \in 0..N /\ q[1] \in Nat /\ q[2] \in Nat
    BY <1>2, CellFacts, NAssumption DEF Index
  <1>5. \A i \in 1..(n - 1) : calls[i] # q /\ calls[i][1] < q[1] /\ calls[i] \in Cell
    <2> SUFFICES ASSUME NEW i \in 1..(n - 1)
                 PROVE calls[i] # q /\ calls[i][1] < q[1] /\ calls[i] \in Cell
      OBVIOUS
    <2>1. i \in 1..n /\ i < n
      BY <1>2
    <2>2. calls[i][1] < q[1]
      BY <1>2, <2>1 DEF Searching, CallsDescend
    <2> QED BY <1>4, <2>1, <2>2, ElementOfSeq DEF QueenType
  <1>6. \A p \in table : p[1] = q[1] \/ p[2] = q[2] => p = q
    BY <1>2 DEF Searching, Alone
  <1>7. q \in table /\ q \notin given
    BY <1>2 DEF Searching, TableIs, Alone
  <1>8. QueenType'
    BY <1>1, <1>3, <1>4 DEF QueenType
  <1>9. CallsDescend'
    BY <1>1, <1>2, <1>3, <1>5 DEF Searching, CallsDescend
  <1>10. TableIs'
    <2>1. \A i \in 1..n : i \in 1..(n - 1) \/ i = n
      BY <1>2
    <2>2. {calls[i] : i \in 1..n} \ {q} = {calls[i] : i \in 1..(n - 1)}
      BY <1>3, <1>5, <2>1
    <2>3. {calls'[i] : i \in 1..Len(calls')} = {calls[i] : i \in 1..(n - 1)}
      BY <1>3
    <2> QED BY <1>1, <1>7, <2>2, <2>3 DEF Searching, TableIs
  <1>11. Alone'
    BY <1>1, <1>3 DEF Searching, Alone
  <1>12. Books'
    <2>1. {p[1] : p \in table} \ {q[1]} = {p[1] : p \in table'}
      BY <1>1, <1>6, <1>7
    <2>2. {p[2] : p \in table} \ {q[2]} = {p[2] : p \in table'}
      BY <1>1, <1>6, <1>7
    <2> QED BY <1>1, <2>1, <2>2 DEF Searching, Books
  <1>13. RowsDone'
    <2> SUFFICES ASSUME NEW r \in Index, r < q[1] PROVE r \in row_Queen /\ r # q[1]
      BY <1>1 DEF RowsDone
    <2>1. q[1] < row
      BY <1>2 DEF Searching, CallsDescend
    <2>2. r \in Nat /\ row \in Nat
      BY NAssumption DEF Index, QueenType
    <2>3. r < row
      BY <1>4, <2>1, <2>2
    <2> QED BY <1>4, <2>2, <2>3 DEF Searching, RowsDone
  <1>14. PeacefulStays'
    BY <1>1, SubboardIsPeaceful DEF Searching, PeacefulStays
  <1>15. AllAhead'
    <2> SUFFICES ASSUME NEW place \in [Index -> Index], IsSolution(place)
                 PROVE Ahead(place)'
      BY <1>1 DEF AllAhead, IsSolution
    <2>1. Ahead(place)
      BY DEF Searching, AllAhead
    <2>2. ~(Agrees(place, n) /\ (row < N => place[row] >= col))
      <3>1. row \in Index /\ row < N
        BY <1>1, NAssumption DEF InLoop, QueenType, Index
      <3> QED BY <1>1, <3>1, SolutionMayBePlaced
    <2>3. PICK k \in 1..n : Agrees(place, k - 1) /\ place[calls[k][1]] > calls[k][2]
      BY <2>1, <2>2 DEF Ahead
    <2>4. \A i \in 1..(k - 1) : i \in 1..(n - 1) /\ place[calls'[i][1]] = calls'[i][2]
      BY <1>2, <1>3, <2>3 DEF Agrees
    <2>5. CASE k = n
      <3>1. place[q[1]] >= q[2] + 1
        BY <1>4, <2>3, <2>5, NAssumption DEF Index
      <3> QED BY <1>1, <1>3, <2>4, <2>5, <3>1 DEF Ahead, Agrees
    <2>6. CASE k # n
      <3>1. k \in 1..(n - 1) /\ k \in 1..Len(calls')
        BY <1>2, <1>3, <2>6
      <3>2. place[calls'[k][1]] > calls'[k][2]
        BY <1>3, <2>3, <3>1
      <3> QED BY <2>4, <3>1, <3>2 DEF Ahead, Agrees
    <2> QED BY <2>5, <2>6
  <1> QED BY <1>8, <1>9, <1>10, <1>11, <1>12, <1>13, <1>14, <1>15 DEF Searching

(* Behind the last row the board is full; without a row to go back to, no  *)
(* solution is left.                                                       *)
LEMMA SearchReturnsOutcome ==
    ASSUME QueenType, Searching, SearchReturns
    PROVE Outcome
  <1>1. CASE row = N
    <2> SUFFICES ASSUME Solvable(given) PROVE given \subseteq table /\ Solves(table)
      BY DEF Outcome
    <2>1. Peaceful(given)
      <3>1. PICK place \in [Index -> Index] : IsSolution(place)
        BY SolvableMeans
      <3> QED BY <3>1, SubboardIsPeaceful DEF IsSolution
    <2>2. Peaceful(table)
      BY <2>1 DEF Searching, PeacefulStays
    <2>3. \A r \in Index : \E p \in table : p[1] = r
      <3> SUFFICES ASSUME NEW r \in Index PROVE \E p \in table : p[1] = r
        OBVIOUS
      <3>1. r \in row_Queen
        BY <1>1, NAssumption DEF Searching, RowsDone, Index
      <3> QED BY <3>1 DEF Searching, Books
    <2> QED BY <2>2, <2>3, FullBoard DEF Solves, Searching, TableIs, QueenType
  <1>2. CASE InLoop /\ calls = <<>> /\ \A c \in Index : ~MayPlace(c)
    <2>1. Len(calls) = 0 /\ row \in Index /\ row < N
      BY <1>2, EmptySeq, NAssumption DEF InLoop, QueenType, Index
    <2>2. ASSUME NEW place \in [Index -> Index], IsSolution(place)
          PROVE FALSE
      <3>1. Ahead(place)
        BY <2>2 DEF Searching, AllAhead
      <3>2. Agrees(place, Len(calls)) /\ place[row] >= col
        BY <2>1, <3>1 DEF Ahead
      <3>3. MayPlace(place[row])
        BY <1>2, <2>2, <3>2, SolutionMayBePlaced
      <3> QED BY <1>2, <2>1, <3>3
    <2> QED BY <2>2, SolvableMeans DEF Outcome
  <1> QED BY <1>1, <1>2 DEF SearchReturns

LEMMA BoardTimeoutSearches ==
    ASSUME QueenType, Early, BoardTimeout, stage' = "search"
    PROVE Searching' /\ QueenType'
  <1>1. /\ table' = given
        /\ row_Queen' = {q[1] : q \in given}
        /\ col_Queen' = {q[2] : q \in given}
        /\ row' = 0 /\ col' = 0 /\ calls' = <<>> /\ UNCHANGED <<given, sent>>
    BY DEF BoardTimeout, Early
  <1>2. Len(calls') = 0
    BY <1>1, EmptySeq
  <1>3. QueenType'
    BY <1>1, EmptySeq, NAssumption DEF QueenType
  <1>4. CallsDescend' /\ TableIs' /\ Alone' /\ Books'
    BY <1>1, <1>2 DEF CallsDescend, TableIs, Alone, Books
  <1>5. RowsDone' /\ PeacefulStays'
    BY <1>1, NAssumption DEF RowsDone, PeacefulStays, Index
  <1>6. AllAhead'
    <2> SUFFICES ASSUME NEW place \in [Index -> Index] PROVE Ahead(place)'
      BY DEF AllAhead
    <2>1. 0 \in Index /\ place[0] >= 0
      BY NAssumption DEF Index
    <2> QED BY <1>1, <1>2, <2>1 DEF Ahead, Agrees
  <1> QED BY <1>3, <1>4, <1>5, <1>6 DEF Searching

----------------------------------------------------------------------------
(* The solver.                                                             *)

LEMMA QueenInvInit == Init => QueenInv
  <1> SUFFICES ASSUME Init PROVE QueenInv
    OBVIOUS
  <1>1. \/ QueenInit(Puzzles)
        \/ QueenInit({{}})
    BY DEF Init
  <1>2. /\ given \subseteq Cell /\ stage = "start" /\ table = {} /\ row = 0 /\ col = 0
        /\ calls = <<>> /\ sent = {}
    BY <1>1, PuzzlesAssumption DEF QueenInit, Cell, Index
  <1>3. QueenType
    BY <1>2, EmptySeq, NAssumption DEF QueenType
  <1> QED BY <1>2, <1>3 DEF QueenInv, Early, During, Late, Told

LEMMA QueenInvStep == QueenInv /\ [Next]_solverVars => QueenInv'
  <1> SUFFICES ASSUME QueenInv, [Next]_solverVars PROVE QueenInv'
    OBVIOUS
  <1> USE DEF QueenInv
  <1>1. ASSUME UNCHANGED queenVars PROVE QueenInv'
    <2> USE <1>1 DEF queenVars, boardVars
    <2>1. QueenType' /\ Early' /\ Told'
      BY DEF QueenType, Early, Told
    <2>2. Searching' = Searching
      BY DEF Searching, CallsDescend, TableIs, Alone, Books, RowsDone, PeacefulStays, AllAhead,
             IsSolution, Ahead, Agrees
    <2>3. Outcome' = Outcome
      BY DEF Outcome
    <2> QED BY <2>1, <2>2, <2>3 DEF During, Late
  <1>2. ASSUME UNCHANGED <<given, boardVars, sent>>,
               stage' \notin {"start", "board", "search"},
               stage' \in {"upload", "reply", "verdict", "ended"} =>
                   stage \in {"upload", "reply", "verdict", "ended"},
               stage' \in {"verdict", "ended"} => table \subseteq sent,
               stage' \in {"upload", "reply", "verdict", "ended", "spinning", "fault", "killed"}
        PROVE QueenInv'
    <2> USE <1>2 DEF boardVars
    <2>1. QueenType' /\ Early' /\ During' /\ Told'
      BY DEF QueenType, Early, During, Told
    <2>2. Outcome' = Outcome
      BY DEF Outcome
    <2> QED BY <2>1, <2>2 DEF Late
  <1>3. CASE AskBoard
    <2>1. stage' \in {"board", "killed"} /\ stage = "start" /\ UNCHANGED <<given, boardVars, sent>>
      BY <1>3 DEF AskBoard, SendMsg
    <2> QED BY <2>1 DEF boardVars, QueenType, Early, During, Late, Told
  <1>4. CASE ReadPieces
    BY <1>4 DEF ReadPieces, boardVars, QueenType, Early, During, Late, Told, Receiving, Outcome
  <1>5. CASE SpinAtEof
    BY <1>2, <1>5 DEF SpinAtEof
  <1>6. CASE BoardTimeout
    <2>1. CASE stage' = "search"
      <3>1. sent' = {} /\ QueenType' /\ Searching'
        BY <1>6, <2>1, BoardTimeoutSearches DEF BoardTimeout, Early
      <3> QED BY <2>1, <3>1 DEF Early, During, Late, Told
    <2>2. CASE stage' = "fault"
      <3>1. UNCHANGED <<given, boardVars, sent>>
        BY <1>6, <2>2 DEF BoardTimeout, boardVars
      <3> QED BY <1>2, <2>2, <3>1
    <2> QED BY <1>6, <2>1, <2>2 DEF BoardTimeout
  <1>7. ASSUME stage = "search", stage' = "search", sent' = sent, QueenType' /\ Searching'
        PROVE QueenInv'
    BY <1>7 DEF Early, During, Late, Told
  <1>8. CASE SkipRow
    BY <1>7, <1>8, SkipRowSearches DEF SkipRow, During
  <1>9. CASE PlaceQueen
    BY <1>7, <1>9, PlaceQueenSearches DEF PlaceQueen, InLoop, During
  <1>10. CASE Backtrack
    BY <1>7, <1>10, BacktrackSearches DEF Backtrack, InLoop, During
  <1>11. CASE SearchReturns
    <2>1. stage = "search" /\ stage' = "upload" /\ UNCHANGED <<given, boardVars, sent>>
      BY <1>11 DEF SearchReturns, InLoop
    <2>2. Outcome /\ sent = {}
      BY <1>11, <2>1, SearchReturnsOutcome DEF During
    <2>3. Outcome'
      BY <2>1, <2>2 DEF Outcome, boardVars
    <2> QED BY <2>1, <2>2, <2>3 DEF boardVars, QueenType, Early, During, Late, Told
  <1>12. CASE MarkQueen
    <2>1. /\ stage = "upload" /\ stage' \in {"killed", "reply"}
          /\ UNCHANGED <<given, boardVars>>
          /\ sent \subseteq sent' /\ sent' \subseteq sent \cup table
      BY <1>12 DEF MarkQueen, SendMsg
    <2>2. Outcome' = Outcome
      BY <2>1 DEF Outcome, boardVars
    <2> QED BY <2>1, <2>2 DEF boardVars, QueenType, Early, During, Late, Told
  <1>13. CASE AskVerdict
    BY <1>2, <1>13 DEF AskVerdict, SendMsg
  <1>14. CASE ReplyTimeout
    BY <1>2, <1>14 DEF ReplyTimeout, Told
  <1>15. CASE UNCHANGED solverVars
    BY <1>1, <1>15 DEF solverVars
  <1>16. CASE program = "solve_maze" /\ solve_maze /\ UNCHANGED <<queenVars, program>>
    BY <1>1, <1>16
  <1>17. CASE Server
    BY <1>1, <1>17 DEF Server
  <1> QED BY <1>3, <1>4, <1>5, <1>6, <1>8, <1>9, <1>10, <1>11, <1>12, <1>13, <1>14, <1>15, <1>16, <1>17
          DEF Next, Run, solver

(* On a board of any size, from any given queens: if the puzzle has a      *)
(* solution, then once the solver has asked for the verdict the server's   *)
(* board is one.                                                           *)
THEOREM QueensSolved == Spec => []PuzzleIsSolved
  <1>1. QueenInv => PuzzleIsSolved
    <2> SUFFICES ASSUME QueenInv, stage = "ended", Solvable(given)
                 PROVE Solves(given \cup sent)
      BY DEF PuzzleIsSolved
    <2>1. given \subseteq table /\ Solves(table) /\ sent = table
      BY DEF QueenInv, Late, Told, Outcome
    <2>2. given \cup sent = table
      BY <2>1
    <2> QED BY <2>1, <2>2
  <1> QED BY <1>1, QueenInvInit, QueenInvStep, PTL DEF Spec

----------------------------------------------------------------------------
(* The search does not go round in circles.                                *)

(* Where the search is: the queens it has placed, and the cell its         *)
(* innermost loop has come to.                                             *)
Place == Append(calls, <<row, col>>)

(* The lexicographic order of places: q is further than p when it goes     *)
(* beyond it at the first cell where they differ, or continues it.         *)
Further(p, q) ==
    \E k \in 1..Len(q) :
        /\ \A i \in 1..(k - 1) : i <= Len(p) /\ p[i] = q[i]
        /\ k <= Len(p) => Before(p[k], q[k])

(* There are only so many places: a queen for each row at most.            *)
FewCalls ==
    /\ Len(calls) <= row
    /\ \A i \in 1..Len(calls) : i <= calls[i][1] + 1

GoesFurther ==
    stage = "search" /\ stage' = "search" => UNCHANGED boardVars \/ Further(Place, Place')

LEMMA PlaceFacts ==
    ASSUME NEW cs \in Seq(Cell), NEW r \in 0..N, NEW c \in 0..N
    PROVE  LET p == Append(cs, <<r, c>>) IN
           /\ Len(cs) \in Nat /\ Len(p) = Len(cs) + 1
           /\ \A i \in 1..Len(cs) : p[i] = cs[i]
           /\ p[Len(cs) + 1] = <<r, c>>
           /\ r \in Nat /\ c \in Nat
  <1>1. cs \in Seq(Cell \cup {<<r, c>>}) /\ Len(cs) \in Nat
    BY LenProperties
  <1>2. r \in Nat /\ c \in Nat
    BY NAssumption
  <1> QED BY <1>1, <1>2, AppendProperties

(* Two places that agree up to the first n cells.                          *)
AgreeTo(p, q, n) == \A i \in 1..n : p[i] = q[i]

LEMMA FurtherAt ==
    ASSUME NEW p, NEW q, NEW n \in Nat, NEW k \in Nat, Len(p) = k, n <= k,
           Len(q) \in Nat, n < Len(q), AgreeTo(p, q, n),
           n = k \/ Before(p[n + 1], q[n + 1])
    PROVE  Further(p, q)
  <1>1. n + 1 \in 1..Len(q) /\ \A i \in 1..((n + 1) - 1) : i \in 1..n /\ i <= Len(p)
    OBVIOUS
  <1>2. n + 1 <= Len(p) => Before(p[n + 1], q[n + 1])
    OBVIOUS
  <1> QED BY <1>1, <1>2 DEF Further, AgreeTo

LEMMA SkipGoesFurther ==
    ASSUME QueenType, QueenType', SkipRow
    PROVE  Further(Place, Place')
  <1> DEFINE n == Len(calls)
  <1>1. /\ row' = row + 1 /\ calls' = calls
        /\ calls \in Seq(Cell) /\ row \in 0..N /\ col \in 0..N /\ row' \in 0..N /\ col' \in 0..N
    BY DEF SkipRow, QueenType
  <1>2. /\ n \in Nat /\ Len(Place) = n + 1
        /\ \A i \in 1..n : Place[i] = calls[i]
        /\ Place[n + 1] = <<row, col>> /\ row \in Nat
    BY <1>1, PlaceFacts DEF Place
  <1>3. /\ Len(Place') = n + 1
        /\ \A i \in 1..n : Place'[i] = calls[i]
        /\ Place'[n + 1] = <<row + 1, col'>>
    BY <1>1, PlaceFacts DEF Place
  <1>4. Before(Place[n + 1], Place'[n + 1])
    BY <1>2, <1>3 DEF Before
  <1> HIDE DEF n
  <1>5. AgreeTo(Place, Place', n)
    BY <1>2, <1>3 DEF AgreeTo
  <1>6. n + 1 \in Nat /\ n <= n + 1 /\ n < Len(Place') /\ Len(Place') \in Nat
    BY <1>2, <1>3
  <1> QED BY <1>2, <1>4, <1>5, <1>6, FurtherAt

LEMMA PlacingGoesFurther ==
    ASSUME QueenType, QueenType', PlaceQueen
    PROVE  Further(Place, Place')
  <1> DEFINE n == Len(calls)
  <1>1. PICK c \in Index : MayPlace(c) /\ calls' = Append(calls, <<row, c>>)
    BY DEF PlaceQueen
  <1>2. /\ calls \in Seq(Cell) /\ calls' \in Seq(Cell)
        /\ row \in 0..N /\ col \in 0..N /\ row' \in 0..N /\ col' \in 0..N
        /\ c \in 0..N /\ c \in col..(N - 1)
    BY <1>1, NAssumption DEF QueenType, MayPlace, Index
  <1>3. /\ n \in Nat /\ Len(Place) = n + 1
        /\ \A i \in 1..n : Place[i] = calls[i]
        /\ Place[n + 1] = <<row, col>> /\ row \in Nat /\ col \in Nat
    BY <1>2, PlaceFacts DEF Place
  <1>4. /\ Len(calls') = n + 1
        /\ \A i \in 1..n : calls'[i] = calls[i]
        /\ calls'[n + 1] = <<row, c>> /\ c \in Nat
    BY <1>1, <1>2, PlaceFacts
  <1>5. /\ Len(Place') = Len(calls') + 1
        /\ \A i \in 1..Len(calls') : Place'[i] = calls'[i]
    BY <1>2, PlaceFacts DEF Place
  <1> HIDE DEF n
  <1>6. /\ Len(Place') = n + 2
        /\ \A i \in 1..n : Place[i] = Place'[i]
        /\ Place'[n + 1] = <<row, c>>
    <2>1. \A i \in 1..n : i \in 1..(n + 1)
      BY <1>3
    <2> QED BY <1>3, <1>4, <1>5, <2>1
  <1>7. CASE c = col
    <2>1. \A i \in 1..(n + 1) : i \in 1..n \/ i = n + 1
      BY <1>3
    <2>2. \A i \in 1..(n + 1) : Place[i] = Place'[i]
      BY <1>3, <1>6, <1>7, <2>1
    <2>3. /\ AgreeTo(Place, Place', n + 1)
          /\ n + 1 \in Nat /\ n + 1 < Len(Place') /\ Len(Place') \in Nat
      BY <1>3, <1>6, <2>2 DEF AgreeTo
    <2> QED BY <1>3, <2>3, FurtherAt
  <1>8. CASE c # col
    <2>1. Before(Place[n + 1], Place'[n + 1])
      BY <1>2, <1>3, <1>4, <1>6, <1>8 DEF Before
    <2>2. /\ AgreeTo(Place, Place', n)
          /\ n + 1 \in Nat /\ n <= n + 1 /\ n < Len(Place') /\ Len(Place') \in Nat
      BY <1>3, <1>6 DEF AgreeTo
    <2> QED BY <1>3, <2>1, <2>2, FurtherAt
  <1> QED BY <1>7, <1>8

LEMMA BacktrackingGoesFurther ==
    ASSUME QueenType, QueenType', Backtrack
    PROVE  Further(Place, Place')
  <1> DEFINE n == Len(calls)
             q == calls[n]
  <1>1. /\ calls # <<>> /\ calls \in Seq(Cell) /\ calls' \in Seq(Cell)
        /\ calls' = SubSeq(calls, 1, n - 1)
        /\ row' = q[1] /\ col' = q[2] + 1
        /\ row \in 0..N /\ col \in 0..N /\ row' \in 0..N /\ col' \in 0..N
    BY DEF Backtrack, NextColumn, QueenType
  <1>2. n \in Nat \ {0} /\ q \in Cell /\ q[1] \in Nat /\ q[2] \in Nat
    BY <1>1, Shortened, CellFacts
  <1>3. /\ Len(calls') = n - 1
        /\ \A i \in 1..(n - 1) : calls'[i] = calls[i]
    BY <1>1, Shortened
  <1>4. Len(Place) = n + 1 /\ \A i \in 1..n : Place[i] = calls[i]
    BY <1>1, PlaceFacts DEF Place
  <1>5. /\ Len(Place') = Len(calls') + 1 /\ Place'[Len(calls') + 1] = <<row', col'>>
        /\ \A i \in 1..Len(calls') : Place'[i] = calls'[i]
    BY <1>1, PlaceFacts DEF Place
  <1>6. Place[n] = q /\ n \in 1..n
    BY <1>2, <1>4
  <1> DEFINE m == n - 1
  <1>7. m \in Nat /\ n = m + 1 /\ \A i \in 1..m : i \in 1..n
    BY <1>2
  <1>8. /\ Len(Place') = m + 1 /\ Place'[m + 1] = <<q[1], q[2] + 1>>
        /\ \A i \in 1..m : Place[i] = Place'[i]
    BY <1>1, <1>3, <1>4, <1>5, <1>7
  <1>9. Before(Place[m + 1], Place'[m + 1])
    <2>1. Place[m + 1] = q
      BY <1>6, <1>7
    <2> HIDE DEF q, m
    <2> QED BY <1>2, <1>8, <2>1 DEF Before
  <1> HIDE DEF m, n, q
  <1>10. AgreeTo(Place, Place', m)
    BY <1>8 DEF AgreeTo
  <1>11. n + 1 \in Nat /\ m <= n + 1 /\ m < Len(Place') /\ Len(Place') \in Nat
    BY <1>7, <1>8
  <1> QED BY <1>4, <1>7, <1>9, <1>10, <1>11, FurtherAt

LEMMA FewCallsStep ==
    ASSUME QueenType, FewCalls, QueenType', SkipRow \/ PlaceQueen \/ Backtrack
    PROVE  FewCalls'
  <1> DEFINE n == Len(calls)
  <1>1. /\ calls \in Seq(Cell) /\ n \in Nat /\ row \in Nat /\ row \in 0..N
        /\ \A i \in 1..n : calls[i] \in Cell /\ calls[i][1] \in Nat
    BY LenProperties, ElementOfSeq, CellFacts, NAssumption DEF QueenType
  <1>2. n <= row /\ \A i \in 1..n : i <= calls[i][1] + 1
    BY DEF FewCalls
  <1>3. CASE SkipRow
    BY <1>1, <1>2, <1>3 DEF SkipRow, FewCalls
  <1>4. CASE PlaceQueen
    <2>1. PICK c \in Index : calls' = Append(calls, <<row, c>>) /\ row' = row + 1
      BY <1>4 DEF PlaceQueen
    <2>2. c \in 0..N
      BY NAssumption DEF Index
    <2>3. /\ Len(calls') = n + 1 /\ calls'[n + 1] = <<row, c>>
          /\ \A i \in 1..n : calls'[i] = calls[i]
      BY <1>1, <2>1, <2>2, PlaceFacts
    <2>4. \A i \in 1..(n + 1) : i \in 1..n \/ i = n + 1
      BY <1>1
    <2>5. n + 1 <= calls'[n + 1][1] + 1
      BY <1>1, <1>2, <2>3
    <2> HIDE DEF n
    <2> QED BY <1>1, <1>2, <2>1, <2>3, <2>4, <2>5 DEF FewCalls
  <1>5. CASE Backtrack
    <2>1. /\ calls # <<>> /\ calls' = SubSeq(calls, 1, n - 1) /\ row' = calls[n][1]
      BY <1>5 DEF Backtrack
    <2>2. n # 0 /\ n \in 1..n
      BY <1>1, <2>1, Shortened
    <2>3. Len(calls') = n - 1 /\ \A i \in 1..(n - 1) : calls'[i] = calls[i] /\ i \in 1..n
      BY <1>1, <2>1, Shortened
    <2>4. n - 1 <= row'
      BY <1>1, <1>2, <2>1, <2>2
    <2> HIDE DEF n
    <2> QED BY <1>1, <1>2, <2>3, <2>4 DEF FewCalls
  <1> QED BY <1>3, <1>4, <1>5

(* Every step of the search leads further, and there are only so many      *)
(* places to come to, a queen for each row at most: on a board of any      *)
(* size the search never comes back to where it was, and ends.             *)
THEOREM SearchGoesFurther ==
    Spec => [](QueenType /\ FewCalls) /\ [][GoesFurther]_solverVars
  <1> DEFINE Inv == QueenInv /\ FewCalls
  <1>1. Init => Inv
    <2>1. Init => calls = <<>> /\ row = 0
      BY DEF Init, QueenInit
    <2> QED BY <2>1, QueenInvInit, EmptySeq DEF FewCalls
  <1>2. ASSUME QueenInv, QueenInv', FewCalls, [Next]_solverVars
        PROVE  FewCalls' /\ (UNCHANGED boardVars \/ Further(Place, Place') \/ stage # "search" \/ stage' # "search")
    <2>1. QueenType /\ QueenType'
      BY <1>2 DEF QueenInv
    <2>2. CASE UNCHANGED boardVars
      BY <1>2, <2>2 DEF boardVars, FewCalls
    <2>3. CASE SkipRow \/ PlaceQueen \/ Backtrack
      BY <1>2, <2>1, <2>3, FewCallsStep, SkipGoesFurther, PlacingGoesFurther, BacktrackingGoesFurther
    <2>4. CASE BoardTimeout
      BY <1>2, <2>4 DEF BoardTimeout, FewCalls
    <2>5. CASE AskBoard \/ ReadPieces \/ SpinAtEof \/ SearchReturns
      BY <2>2, <2>5 DEF AskBoard, ReadPieces, SpinAtEof, SearchReturns
    <2>6. CASE MarkQueen \/ AskVerdict \/ ReplyTimeout
      BY <2>2, <2>6 DEF MarkQueen, AskVerdict, ReplyTimeout
    <2>7. CASE UNCHANGED queenVars
      BY <2>2, <2>7 DEF queenVars
    <2> QED BY <1>2, <2>3, <2>4, <2>5, <2>6, <2>7
            DEF Next, Run, Server, solver, solverVars
  <1>3. Inv /\ [Next]_solverVars => Inv'
    BY <1>2, QueenInvStep
  <1>4. Inv /\ Inv' /\ [Next]_solverVars => [GoesFurther]_solverVars
    BY <1>2 DEF GoesFurther
  <1>5. Inv => QueenType /\ FewCalls
    BY DEF QueenInv
  <1> QED BY <1>1, <1>3, <1>4, <1>5, PTL DEF Spec
=============================================================================
