------------------------- MODULE MazeSolverProofs -------------------------
(***************************************************************************)
(* The maze solver finds a shortest walk in every maze that has one.  The  *)
(* heuristic is consistent (Consistent), so a position is closed at its    *)
(* distance from the start, and the heap holds what is reached and not     *)
(* closed at a priority never below the way found (Offered, NoneCheaper,   *)
(* ClosedFirst).  Entries left behind by a better way change nothing.      *)
(***************************************************************************)
EXTENDS PuzzleSolvers, FiniteSetTheorems, WellFoundedInduction, TLAPS

LEMMA HasLowest ==
    ASSUME NEW S, S \subseteq Nat, S # {}
    PROVE  \E n \in S : \A m \in S : n <= m
<1> DEFINE R == OpToRel(<, Nat)
<1>1. IsWellFoundedOn(R, Nat)
  BY NatLessThanWellFounded
<1>2. \A x \in Nat, y \in Nat : <<y, x>> \in R <=> y < x
  BY DEF OpToRel
<1> HIDE DEF R
<1>3. PICK x \in S : \A y \in S : ~(<<y, x>> \in R)
  BY <1>1, WFMin
<1>4. ASSUME NEW y \in S PROVE x <= y
  <2>1. x \in Nat /\ y \in Nat
    OBVIOUS
  <2>2. ~(y < x)
    BY <1>2, <1>3, <2>1
  <2>3. QED
    BY <2>1, <2>2
<1>5. QED
  BY <1>4

(* A walk is the one sequence of positions its moves lead through.         *)
LEMMA WalkIs ==
    ASSUME NEW s, Len(s) \in Nat, NEW w,
           w = [i \in 0..Len(s) |-> IF i = 0 THEN maze.start ELSE Step(w[i - 1], s[i])]
    PROVE  Walk(s) = w
<1> DEFINE n == Len(s)
           at == CHOOSE f : f = [i \in 0..n |-> IF i = 0 THEN maze.start ELSE Step(f[i - 1], s[i])]
<1>1. Walk(s) = [i \in 0..n |-> at[i]]
  BY DEF Walk
<1>2. at = [i \in 0..n |-> IF i = 0 THEN maze.start ELSE Step(at[i - 1], s[i])]
  OBVIOUS
<1> HIDE DEF at
<1> DEFINE Bad == {i \in 0..n : at[i] # w[i]}
<1>3. Bad = {}
  <2> SUFFICES ASSUME Bad # {} PROVE FALSE
    OBVIOUS
  <2>1. Bad \subseteq Nat
    OBVIOUS
  <2>2. PICK i \in Bad : \A j \in Bad : i <= j
    BY <2>1, HasLowest
  <2>3. CASE i = 0
    BY <1>2, <2>2, <2>3
  <2>4. CASE i # 0
    <3>1. i - 1 \in 0..n /\ ~(i <= i - 1) /\ i \in 0..n
      BY <2>2, <2>4
    <3>2. at[i - 1] = w[i - 1]
      BY <2>2, <3>1
    <3>3. QED
      BY <1>2, <2>2, <2>4, <3>1, <3>2
  <2>5. QED
    BY <2>3, <2>4
<1>4. [i \in 0..n |-> at[i]] = w
  BY <1>3
<1>5. QED
  BY <1>1, <1>4

----------------------------------------------------------------------------
(* The geometry.                                                           *)

GoodMaze ==
    /\ maze.size \in Nat \X Nat
    /\ {maze.start, maze.exit} \subseteq Free
    /\ maze.start # maze.exit

LEMMA FreeAreCells ==
    ASSUME GoodMaze, NEW p \in Free
    PROVE  p = <<p[1], p[2]>> /\ p[1] \in Nat /\ p[2] \in Nat
<1>1. maze.size[1] \in Nat /\ maze.size[2] \in Nat
  BY DEF GoodMaze
<1>2. p \in (0..(maze.size[1] - 1)) \X (0..(maze.size[2] - 1))
  BY DEF Free, Positions
<1>3. QED
  BY <1>1, <1>2

LEMMA HeuristicIsNat ==
    ASSUME GoodMaze, NEW p \in Free
    PROVE  heuristic(p) \in Nat
<1>1. maze.exit \in Free
  BY DEF GoodMaze
<1>2. QED
  BY <1>1, FreeAreCells DEF heuristic, Abs

(* A step changes the distance by one: the heuristic is consistent.        *)
LEMMA Consistent ==
    ASSUME GoodMaze, NEW p \in Free, NEW q \in get_neighbors(p)
    PROVE  /\ q \in Free /\ q # p
           /\ heuristic(p) <= heuristic(q) + 1
<1>1. q \in Free /\ q \in Next4(p)
  BY DEF get_neighbors
<1>2. maze.exit \in Free
  BY DEF GoodMaze
<1> DEFINE x == p[1]
           y == p[2]
           u == q[1]
           v == q[2]
           ex == maze.exit[1]
           ey == maze.exit[2]
<1>3. x \in Int /\ y \in Int /\ u \in Int /\ v \in Int /\ ex \in Int /\ ey \in Int
  BY <1>1, <1>2, FreeAreCells
<1>4. \/ u = x /\ v = y + 1
      \/ u = x /\ v = y - 1
      \/ u = x + 1 /\ v = y
      \/ u = x - 1 /\ v = y
  BY <1>1 DEF Next4
<1>5. heuristic(p) = Abs(x - ex) + Abs(y - ey) /\ heuristic(q) = Abs(u - ex) + Abs(v - ey)
  BY DEF heuristic
<1> HIDE DEF x, y, u, v, ex, ey
<1>6. ASSUME NEW a \in Int, NEW b \in Int, b = a \/ b = a + 1 \/ b = a - 1
      PROVE  Abs(a) \in Int /\ Abs(b) \in Int /\ Abs(a) <= Abs(b) + (IF a = b THEN 0 ELSE 1)
  BY <1>6 DEF Abs
<1>7. Abs(x - ex) \in Int /\ Abs(u - ex) \in Int /\ Abs(x - ex) <= Abs(u - ex) + (IF u = x THEN 0 ELSE 1)
  <2>1. x - ex \in Int /\ u - ex \in Int /\ (u - ex = x - ex \/ u - ex = (x - ex) + 1 \/ u - ex = (x - ex) - 1)
    BY <1>3, <1>4
  <2>2. x - ex = u - ex <=> u = x
    BY <1>3
  <2>3. QED
    BY <1>6, <2>1, <2>2
<1>8. Abs(y - ey) \in Int /\ Abs(v - ey) \in Int /\ Abs(y - ey) <= Abs(v - ey) + (IF v = y THEN 0 ELSE 1)
  <2>1. y - ey \in Int /\ v - ey \in Int /\ (v - ey = y - ey \/ v - ey = (y - ey) + 1 \/ v - ey = (y - ey) - 1)
    BY <1>3, <1>4
  <2>2. y - ey = v - ey <=> v = y
    BY <1>3
  <2>3. QED
    BY <1>6, <2>1, <2>2
<1>9. heuristic(p) <= heuristic(q) + 1
  <2>1. (IF u = x THEN 0 ELSE 1) + (IF v = y THEN 0 ELSE 1) = 1
    BY <1>3, <1>4
  <2>2. QED
    BY <1>5, <1>7, <1>8, <2>1
<1>10. q # p
  BY <1>3, <1>4 DEF x, y, u, v
<1>11. QED
  BY <1>1, <1>9, <1>10

(* Move names the direction of a step.                                     *)
LEMMA StepMove ==
    ASSUME GoodMaze, NEW q \in Free, NEW p \in Free, p \in Next4(q)
    PROVE  Step(q, Move(q, p)) = p /\ Move(q, p) \in {"W", "A", "S", "D"}
<1> DEFINE x == q[1]
           y == q[2]
<1>1. x \in Int /\ y \in Int
  BY FreeAreCells
<1>2. \/ p = <<x, y + 1>> \/ p = <<x, y - 1>> \/ p = <<x + 1, y>> \/ p = <<x - 1, y>>
  BY DEF Next4
<1>3. CASE p = <<x, y + 1>>
  <2>1. Move(q, p) = "S"
    BY <1>1, <1>3 DEF Move
  <2>2. QED
    BY <1>3, <2>1 DEF Step
<1>4. CASE p = <<x, y - 1>>
  <2>1. Move(q, p) = "W"
    BY <1>1, <1>4 DEF Move
  <2>2. QED
    BY <1>4, <2>1 DEF Step
<1>5. CASE p = <<x + 1, y>>
  <2>1. Move(q, p) = "D"
    BY <1>1, <1>5 DEF Move
  <2>2. QED
    BY <1>5, <2>1 DEF Step
<1>6. CASE p = <<x - 1, y>>
  <2>1. Move(q, p) = "A"
    BY <1>1, <1>6 DEF Move
  <2>2. QED
    BY <1>6, <2>1 DEF Step
<1>7. QED
  BY <1>2, <1>3, <1>4, <1>5, <1>6

----------------------------------------------------------------------------
(* What the search keeps.                                                  *)

Reached == DOMAIN cost

Directions == {"W", "A", "S", "D"}

ListsAgree ==
    /\ cost \in [Reached -> Nat]
    /\ Reached \subseteq Free
    /\ closed_list \subseteq Reached \ {maze.exit}
    /\ open_list \subseteq Nat \X Reached

(* The way to a position comes from a closed one, one step shorter.        *)
ParentsAgree ==
    /\ maze.start \in Reached /\ cost[maze.start] = 0
    /\ \A p \in Reached \ {maze.start} :
         /\ p \in DOMAIN parent
         /\ parent[p] \in closed_list
         /\ p \in Next4(parent[p])
         /\ cost[p] = cost[parent[p]] + 1

IsWay(way) ==
    way = [p \in Reached |-> IF p = maze.start THEN <<>>
                             ELSE Append(way[parent[p]], Move(parent[p], p))]

HasWays == \E way : IsWay(way)

(* What is reached and not closed is in the heap, at its present cost.     *)
Offered ==
    \A p \in Reached \ closed_list :
        \E e \in open_list : e[2] = p /\ e[1] <= priority(cost[p], p)

JustStarted == open_list = {<<0, maze.start>>} /\ closed_list = {} /\ Reached = {maze.start}

NoneCheaper ==
    \/ JustStarted
    \/ /\ maze.start \in closed_list
       /\ \A e \in open_list : priority(cost[e[2]], e[2]) <= e[1]

Relaxed ==
    \A c \in closed_list : \A q \in get_neighbors(c) : q \in Reached /\ cost[q] <= cost[c] + 1

ClosedFirst ==
    \A c \in closed_list : \A e \in open_list : priority(cost[c], c) <= e[1]

SearchInv ==
    /\ ListsAgree /\ ParentsAgree /\ HasWays
    /\ Offered /\ NoneCheaper /\ Relaxed /\ ClosedFirst

MazeInv ==
    /\ GoodMaze
    /\ phase \in {"start", "receive", "search", "sent", "ended", "raised", "reset"}
    /\ program = "solver" => phase = "start"
    /\ phase \in {"start", "receive"} => closed_list = {}
    /\ phase \in {"search", "sent", "ended", "raised"} => SearchInv
    /\ phase \in {"sent", "ended"} => open_list # {} /\ Popped[2] = maze.exit /\ moves = Moves
    /\ phase = "raised" => open_list = {}

(* heappop takes the entry of the lowest priority.                         *)
LEMMA PoppedIsLowest ==
    ASSUME GoodMaze, ListsAgree, open_list # {}
    PROVE  Popped \in open_list /\ \A e \in open_list : Popped[1] <= e[1]
<1>1. \A e \in open_list :
        /\ e = <<e[1], e[2]>> /\ e[2] = <<e[2][1], e[2][2]>>
        /\ e[1] \in Nat /\ e[2][1] \in Nat /\ e[2][2] \in Nat
  <2> TAKE e \in open_list
  <2>1. e \in Nat \X Reached /\ Reached \subseteq Free
    BY DEF ListsAgree
  <2>2. e = <<e[1], e[2]>> /\ e[1] \in Nat /\ e[2] \in Free
    BY <2>1
  <2>3. QED
    BY <2>2, FreeAreCells
<1>2. PICK n \in {e[1] : e \in open_list} : \A m \in {e[1] : e \in open_list} : n <= m
  <2>1. {e[1] : e \in open_list} \subseteq Nat /\ {e[1] : e \in open_list} # {}
    BY <1>1
  <2>2. QED
    BY <2>1, HasLowest
<1> DEFINE Xs == {e[2][1] : e \in {f \in open_list : f[1] = n}}
<1>3. PICK x \in Xs : \A z \in Xs : x <= z
  <2>1. Xs \subseteq Nat /\ Xs # {}
    BY <1>1, <1>2
  <2>2. QED
    BY <2>1, HasLowest
<1> DEFINE Ys == {e[2][2] : e \in {f \in open_list : f[1] = n /\ f[2][1] = x}}
<1>4. PICK y \in Ys : \A z \in Ys : y <= z
  <2>1. Ys \subseteq Nat /\ Ys # {}
    BY <1>1, <1>3
  <2>2. QED
    BY <2>1, HasLowest
<1>5. PICK e \in open_list : e[1] = n /\ e[2][1] = x /\ e[2][2] = y
  BY <1>4
<1>6. \A f \in open_list : f = e \/ Smaller(e, f)
  <2> TAKE f \in open_list
  <2>1. n <= f[1]
    BY <1>2
  <2>2. f[1] = n => x <= f[2][1]
    BY <1>3
  <2>3. f[1] = n /\ f[2][1] = x => y <= f[2][2]
    BY <1>4
  <2>4. f[1] = n /\ f[2][1] = x /\ f[2][2] = y => f = e
    BY <1>1, <1>5
  <2>5. f[1] \in Nat /\ f[2][1] \in Nat /\ f[2][2] \in Nat /\ n \in Nat /\ x \in Nat /\ y \in Nat
    BY <1>1, <1>5
  <2>6. QED
    BY <1>5, <2>1, <2>2, <2>3, <2>4, <2>5 DEF Smaller
<1>7. Popped \in open_list /\ \A f \in open_list : f = Popped \/ Smaller(Popped, f)
  BY <1>6 DEF Popped
<1>8. QED
  <2> SUFFICES ASSUME NEW f \in open_list PROVE Popped[1] <= f[1]
    BY <1>7
  <2>1. Popped[1] \in Nat /\ f[1] \in Nat
    BY <1>1, <1>7
  <2>2. QED
    BY <1>7, <2>1 DEF Smaller

LEMMA ExpandSearches ==
    ASSUME GoodMaze, SearchInv, Expand
    PROVE  SearchInv'
<1> DEFINE here == Popped[2]
           heap == open_list \ {Popped}
           done == closed_list \cup {here}
           n == cost[here] + 1
           better == {p \in get_neighbors(here) \ done : Improves(heap, p, n)}
<1>1. /\ here # maze.exit
      /\ closed_list' = done
      /\ open_list' = heap \cup {<<priority(n, p), p>> : p \in better}
      /\ cost' = [p \in Reached \cup better |-> IF p \in better THEN n ELSE cost[p]]
      /\ parent' = [p \in DOMAIN parent \cup better |-> IF p \in better THEN here ELSE parent[p]]
      /\ maze' = maze
  BY DEF Expand, Reached
<1>2. ListsAgree /\ ParentsAgree /\ HasWays /\ Offered /\ NoneCheaper /\ Relaxed /\ ClosedFirst
  BY DEF SearchInv
<1>3. Popped \in open_list /\ \A e \in open_list : Popped[1] <= e[1]
  BY <1>2, PoppedIsLowest DEF Expand
<1>4. \A e \in open_list : e = <<e[1], e[2]>> /\ e[1] \in Nat /\ e[2] \in Reached
  BY <1>2 DEF ListsAgree
<1>5. here \in Reached /\ Reached \subseteq Free /\ n \in Nat
      /\ \A p \in Reached : cost[p] \in Nat
  BY <1>2, <1>3, <1>4 DEF ListsAgree
<1>6. \A p \in Free : heuristic(p) \in Nat
  BY HeuristicIsNat
<1>7. \A p \in Free : \A q \in get_neighbors(p) : q \in Free /\ q # p /\ heuristic(p) <= heuristic(q) + 1
  BY Consistent
<1>8. \A p : get_neighbors(p)' = get_neighbors(p) /\ heuristic(p)' = heuristic(p)
      /\ \A k : priority(k, p)' = priority(k, p)
  BY <1>1 DEF get_neighbors, heuristic, priority, Free, Positions
<1>9. Reached' = Reached \cup better /\ Free' = Free
  BY <1>1 DEF Reached, Free, Positions
<1>10. \A p \in better : /\ p \in get_neighbors(here) /\ p \in Free /\ p \notin done
                         /\ cost'[p] = n /\ parent'[p] = here
  BY <1>1, <1>5, <1>7
<1>11. \A p \in Reached \ better : cost'[p] = cost[p]
  BY <1>1
<1>12. \A p \in better \cap Reached : n < cost[p]
  <2> TAKE p \in better \cap Reached
  <2>1. Improves(heap, p, n) /\ p \notin closed_list /\ p # here
    OBVIOUS
  <2>2. PICK e \in open_list : e[2] = p
    BY <1>2, <2>1 DEF Offered
  <2>3. e \in heap
    BY <2>1, <2>2
  <2>4. QED
    BY <2>1, <2>2, <2>3 DEF Improves
<1> HIDE DEF better
<1>13. done \subseteq Reached /\ \A c \in done : cost'[c] = cost[c] /\ c \notin better
  BY <1>2, <1>5, <1>10, <1>11 DEF ListsAgree
<1>14. \A p \in Reached : cost'[p] \in Nat /\ cost'[p] <= cost[p]
  <2> TAKE p \in Reached
  <2>1. CASE p \in better
    BY <1>5, <1>10, <1>12, <2>1
  <2>2. CASE p \notin better
    BY <1>5, <1>11, <2>2
  <2>3. QED
    BY <2>1, <2>2
<1>15. ListsAgree'
  <2>1. cost' \in [Reached' -> Nat]
    BY <1>1, <1>5, <1>9
  <2>2. Reached' \subseteq Free'
    BY <1>5, <1>9, <1>10
  <2>3. closed_list' \subseteq Reached' \ {maze'.exit}
    BY <1>1, <1>2, <1>5, <1>9 DEF ListsAgree
  <2>4. open_list' \subseteq Nat \X Reached'
    <3>1. heap \subseteq Nat \X Reached'
      BY <1>2, <1>9 DEF ListsAgree
    <3>2. \A p \in better : priority(n, p) \in Nat
      BY <1>5, <1>6, <1>10 DEF priority
    <3>3. QED
      BY <1>1, <1>9, <3>1, <3>2
  <2>5. QED
    BY <2>1, <2>2, <2>3, <2>4 DEF ListsAgree
(* Either this entry is of a position that was closed before, or its       *)
(* priority is that of the way to here.                                    *)
<1>16. CASE here \in closed_list
  <2>1. better = {}
    <3> SUFFICES ASSUME NEW p \in better PROVE FALSE
      OBVIOUS
    <3>1. p \in Reached /\ cost[p] <= n
      BY <1>2, <1>10, <1>16 DEF Relaxed
    <3>2. n < cost[p]
      BY <1>12, <3>1
    <3>3. QED
      BY <1>5, <3>1, <3>2
  <2>2. open_list' = heap /\ closed_list' = closed_list /\ Reached' = Reached
        /\ (\A p \in Reached : cost'[p] = cost[p])
    BY <1>1, <1>9, <1>11, <1>16, <2>1
  <2>3. DOMAIN parent' = DOMAIN parent /\ \A p \in DOMAIN parent : parent'[p] = parent[p]
    BY <1>1, <2>1
  <2>4. ParentsAgree'
    BY <1>1, <1>2, <2>2, <2>3 DEF ParentsAgree, Next4, ListsAgree
  <2>5. HasWays'
    <3>1. PICK way : IsWay(way)
      BY <1>2 DEF HasWays
    <3>2. \A p \in Reached \ {maze.start} : parent'[p] = parent[p]
      BY <1>2, <2>3 DEF ParentsAgree
    <3>3. way = [p \in Reached |-> IF p = maze.start THEN <<>>
                                   ELSE Append(way[parent'[p]], Move(parent'[p], p))]
      BY <3>1, <3>2 DEF IsWay
    <3>4. way = [p \in Reached' |-> IF p = maze'.start THEN <<>>
                                    ELSE Append(way[parent'[p]], Move(parent'[p], p))]
      BY <1>1, <2>2, <3>3
    <3>5. IsWay(way)'
      BY <3>4 DEF IsWay, Move
    <3>6. QED
      BY <3>5 DEF HasWays
  <2>6. Offered'
    BY <1>2, <1>8, <1>16, <2>2 DEF Offered
  <2>7. NoneCheaper'
    BY <1>1, <1>2, <1>4, <1>8, <1>16, <2>2 DEF NoneCheaper, JustStarted
  <2>8. Relaxed'
    <3>1. \A c \in closed_list : c \in Reached
      BY <1>2 DEF ListsAgree
    <3>2. QED
      BY <1>2, <1>8, <2>2, <3>1 DEF Relaxed
  <2>9. ClosedFirst'
    BY <1>2, <1>8, <1>13, <1>16, <2>2 DEF ClosedFirst
  <2>10. QED
    BY <1>15, <2>4, <2>5, <2>6, <2>7, <2>8, <2>9 DEF SearchInv
<1>17. CASE here \notin closed_list
  <2>1. Popped[1] <= priority(cost[here], here)
    <3>1. PICK e \in open_list : e[2] = here /\ e[1] <= priority(cost[here], here)
      BY <1>2, <1>5, <1>17 DEF Offered
    <3>2. e[1] \in Nat /\ Popped[1] \in Nat /\ Popped[1] <= e[1] /\ priority(cost[here], here) \in Nat
      BY <1>3, <1>4, <1>5, <1>6 DEF priority
    <3>3. QED
      BY <3>1, <3>2
  <2>2. maze.start \in done
    BY <1>2, <1>3 DEF NoneCheaper, JustStarted
  <2>3. heap = {} \/ (/\ priority(cost[here], here) <= Popped[1]
                      /\ \A e \in heap : priority(cost[e[2]], e[2]) <= e[1])
    BY <1>2, <1>3 DEF NoneCheaper, JustStarted
  <2>4. \A c \in closed_list : priority(cost[c], c) <= Popped[1]
    BY <1>2, <1>3 DEF ClosedFirst
  <2>5. \A p \in better : /\ p \in Free /\ priority(n, p) \in Nat
                          /\ priority(cost[here], here) <= priority(n, p)
    <3> TAKE p \in better
    <3>1. heuristic(here) <= heuristic(p) + 1 /\ p \in Free
      BY <1>5, <1>7, <1>10
    <3>2. cost[here] \in Nat /\ heuristic(here) \in Nat /\ heuristic(p) \in Nat
      BY <1>5, <1>6, <3>1
    <3>3. QED
      BY <3>1, <3>2 DEF priority
  <2>6. \A c \in done : c \in Reached /\ priority(cost[c], c) \in Nat
    BY <1>5, <1>6, <1>13 DEF priority
  <2>7. ParentsAgree'
    <3>1. maze.start \in Reached' /\ cost'[maze.start] = 0
      BY <1>2, <1>9, <1>13, <2>2 DEF ParentsAgree
    <3>2. ASSUME NEW p \in Reached' \ {maze.start}
          PROVE  /\ p \in DOMAIN parent' /\ parent'[p] \in done
                 /\ p \in Next4(parent'[p]) /\ cost'[p] = cost'[parent'[p]] + 1
      <4>1. CASE p \in better
        <5>1. parent'[p] = here /\ p \in DOMAIN parent'
          BY <1>1, <1>10, <4>1
        <5>2. p \in Next4(here) /\ cost'[p] = n /\ cost'[here] = cost[here]
          BY <1>10, <1>13, <4>1 DEF get_neighbors
        <5>3. QED
          BY <5>1, <5>2
      <4>2. CASE p \notin better
        <5>1. /\ p \in Reached /\ p \in DOMAIN parent /\ parent[p] \in closed_list
              /\ p \in Next4(parent[p]) /\ cost[p] = cost[parent[p]] + 1
          BY <1>2, <1>9, <3>2, <4>2 DEF ParentsAgree
        <5>2. parent'[p] = parent[p] /\ p \in DOMAIN parent'
          BY <1>1, <4>2, <5>1
        <5>3. cost'[p] = cost[p] /\ cost'[parent[p]] = cost[parent[p]]
          BY <1>11, <1>13, <4>2, <5>1
        <5>4. QED
          BY <5>1, <5>2, <5>3
      <4>3. QED
        BY <4>1, <4>2
    <3>3. QED
      BY <1>1, <3>1, <3>2 DEF ParentsAgree, Next4
  <2>8. HasWays'
    <3>1. PICK way : IsWay(way)
      BY <1>2 DEF HasWays
    <3> DEFINE new == [p \in Reached \cup better |->
                         IF p \in better THEN Append(way[here], Move(here, p)) ELSE way[p]]
    <3>2. new[here] = way[here] /\ \A c \in closed_list : new[c] = way[c]
      BY <1>13
    <3>3. ASSUME NEW p \in Reached \cup better
          PROVE  new[p] = IF p = maze.start THEN <<>> ELSE Append(new[parent'[p]], Move(parent'[p], p))
      <4>1. CASE p \in better
        <5>1. p # maze.start /\ parent'[p] = here
          BY <1>10, <2>2, <4>1
        <5>2. QED
          BY <3>2, <4>1, <5>1
      <4>2. CASE p \notin better /\ p = maze.start
        BY <3>1, <4>2 DEF IsWay
      <4>3. CASE p \notin better /\ p # maze.start
        <5>1. p \in Reached /\ p \in DOMAIN parent /\ parent[p] \in closed_list
          BY <1>2, <4>3, <3>3 DEF ParentsAgree
        <5>2. parent'[p] = parent[p]
          BY <1>1, <4>3, <5>1
        <5>3. new[parent[p]] = way[parent[p]]
          BY <3>2, <5>1
        <5>4. new[p] = way[p] /\ way[p] = Append(way[parent[p]], Move(parent[p], p))
          BY <3>1, <4>3, <5>1 DEF IsWay
        <5>5. QED
          BY <4>3, <5>2, <5>3, <5>4
      <4>4. QED
        BY <4>1, <4>2, <4>3
    <3>4. new = [p \in Reached \cup better |->
                   IF p = maze.start THEN <<>> ELSE Append(new[parent'[p]], Move(parent'[p], p))]
      BY <3>3
    <3> HIDE DEF new
    <3>5. QED
      BY <1>1, <1>9, <3>4 DEF HasWays, IsWay, Move
  <2>9. Offered'
    <3> SUFFICES ASSUME NEW p \in Reached' \ done
                 PROVE  \E e \in open_list' : e[2] = p /\ e[1] <= priority(cost'[p], p)
      BY <1>1, <1>8 DEF Offered
    <3>1. CASE p \in better
      <4>1. <<priority(n, p), p>> \in open_list' /\ cost'[p] = n /\ priority(n, p) \in Nat
        BY <1>1, <1>10, <2>5, <3>1
      <4>2. QED
        BY <4>1
    <3>2. CASE p \notin better
      <4>1. p \in Reached \ closed_list /\ p # here /\ cost'[p] = cost[p]
        BY <1>9, <1>11, <3>2
      <4>2. PICK e \in open_list : e[2] = p /\ e[1] <= priority(cost[p], p)
        BY <1>2, <4>1 DEF Offered
      <4>3. e \in open_list'
        BY <1>1, <4>1, <4>2
      <4>4. QED
        BY <4>1, <4>2, <4>3
    <3>3. QED
      BY <3>1, <3>2
  <2>10. NoneCheaper'
    <3> SUFFICES ASSUME NEW e \in open_list' PROVE priority(cost'[e[2]], e[2]) <= e[1]
      BY <1>1, <1>8, <2>2 DEF NoneCheaper
    <3>1. CASE e \in heap
      <4>1. e[1] \in Nat /\ e[2] \in Reached /\ priority(cost[e[2]], e[2]) <= e[1]
        BY <1>4, <2>3, <3>1
      <4>2. heuristic(e[2]) \in Nat /\ cost'[e[2]] \in Nat /\ cost[e[2]] \in Nat /\ cost'[e[2]] <= cost[e[2]]
        BY <1>5, <1>6, <1>14, <4>1
      <4>3. QED
        BY <4>1, <4>2 DEF priority
    <3>2. CASE e \notin heap
      <4>1. PICK p \in better : e = <<priority(n, p), p>>
        BY <1>1, <3>2
      <4>2. cost'[p] = n /\ priority(n, p) \in Nat
        BY <1>10, <2>5
      <4>3. QED
        BY <4>1, <4>2
    <3>3. QED
      BY <3>1, <3>2
  <2>11. Relaxed'
    <3> SUFFICES ASSUME NEW c \in done, NEW q \in get_neighbors(c)
                 PROVE  q \in Reached' /\ cost'[q] <= cost[c] + 1
      BY <1>1, <1>8, <1>13 DEF Relaxed
    <3>0. c \in Reached /\ c \in Free /\ cost[c] \in Nat
      BY <1>5, <1>13
    <3>1. CASE c = here
      <4>1. q # here /\ q \in Free /\ heuristic(here) <= heuristic(q) + 1
        BY <1>5, <1>7, <3>1
      <4>2. CASE q \in better
        BY <1>5, <1>9, <1>10, <3>1, <4>2
      <4>3. CASE q \in closed_list
        <5>1. priority(cost[q], q) <= Popped[1] /\ cost'[q] = cost[q] /\ q \in Reached
          BY <1>13, <2>4, <4>3
        <5>2. cost[q] \in Nat /\ heuristic(q) \in Nat /\ cost[here] \in Nat /\ heuristic(here) \in Nat
              /\ Popped[1] \in Nat
          BY <1>3, <1>4, <1>5, <1>6, <4>1, <5>1
        <5>3. cost[q] <= cost[here] + 1
          BY <2>1, <4>1, <5>1, <5>2 DEF priority
        <5>4. QED
          BY <1>9, <3>1, <5>1, <5>3
      <4>4. CASE q \notin better /\ q \notin closed_list
        <5>1. ~Improves(heap, q, n)
          BY <3>1, <4>1, <4>4 DEF better
        <5>2. PICK e \in heap : e[2] = q
          BY <5>1 DEF Improves
        <5>3. q \in Reached
          BY <1>4, <5>2
        <5>4. cost'[q] = cost[q] /\ cost[q] \in Nat /\ ~(n < cost[q])
          BY <1>5, <1>11, <4>4, <5>1, <5>3 DEF Improves
        <5>5. QED
          BY <1>5, <1>9, <3>1, <5>3, <5>4
      <4>5. QED
        BY <4>2, <4>3, <4>4
    <3>2. CASE c \in closed_list
      <4>1. q \in Reached /\ cost[q] <= cost[c] + 1
        BY <1>2, <3>2 DEF Relaxed
      <4>2. cost'[q] \in Nat /\ cost'[q] <= cost[q] /\ cost[q] \in Nat
        BY <1>5, <1>14, <4>1
      <4>3. QED
        BY <1>9, <3>0, <4>1, <4>2
    <3>3. QED
      BY <3>1, <3>2
  <2>12. ClosedFirst'
    <3> SUFFICES ASSUME NEW c \in done, NEW e \in open_list'
                 PROVE  priority(cost[c], c) <= e[1]
      BY <1>1, <1>8, <1>13 DEF ClosedFirst
    <3>1. priority(cost[c], c) \in Nat /\ priority(cost[here], here) \in Nat /\ Popped[1] \in Nat
      BY <1>3, <1>4, <2>6
    <3>2. CASE e \in heap
      <4>1. e[1] \in Nat /\ Popped[1] <= e[1]
        BY <1>3, <1>4, <3>2
      <4>2. priority(cost[c], c) <= Popped[1]
        BY <2>3, <2>4, <3>2
      <4>3. QED
        BY <3>1, <4>1, <4>2
    <3>3. CASE e \notin heap
      <4>1. PICK p \in better : e = <<priority(n, p), p>>
        BY <1>1, <3>3
      <4>2. priority(cost[here], here) <= e[1] /\ e[1] \in Nat
        BY <2>5, <4>1
      <4>3. priority(cost[c], c) <= priority(cost[here], here)
        BY <2>1, <2>4, <3>1
      <4>4. QED
        BY <3>1, <4>2, <4>3
    <3>4. QED
      BY <3>2, <3>3
  <2>13. QED
    BY <1>15, <2>7, <2>8, <2>9, <2>10, <2>11, <2>12 DEF SearchInv
<1>18. QED
  BY <1>16, <1>17

----------------------------------------------------------------------------
(* The moves.                                                              *)

Follows(s, w) == w = [i \in 0..Len(s) |-> IF i = 0 THEN maze.start ELSE Step(w[i - 1], s[i])]

(* The moves s are a way of the given length to p through no wall.         *)
LeadsTo(s, p, n) ==
    /\ s \in Seq(Directions)
    /\ Len(s) = n
    /\ \E w : Follows(s, w) /\ w[n] = p /\ \A i \in 0..n : w[i] \in Free

LEMMA OneStepFurther ==
    ASSUME GoodMaze, NEW s, NEW q \in Free, NEW p \in Free, NEW n \in Nat,
           p \in Next4(q), LeadsTo(s, q, n)
    PROVE  LeadsTo(Append(s, Move(q, p)), p, n + 1)
<1> DEFINE m == Move(q, p)
           t == Append(s, m)
<1>1. Step(q, m) = p /\ m \in Directions
  BY StepMove DEF Directions
<1>2. s \in Seq(Directions) /\ Len(s) = n
  BY DEF LeadsTo
<1> HIDE DEF m
<1>3. /\ t \in Seq(Directions) /\ Len(t) = n + 1
      /\ t[n + 1] = m /\ \A i \in 1..n : t[i] = s[i]
  BY <1>1, <1>2
<1>4. PICK w : Follows(s, w) /\ w[n] = q /\ \A i \in 0..n : w[i] \in Free
  BY DEF LeadsTo
<1> HIDE DEF t
<1> DEFINE v == [i \in 0..(n + 1) |-> IF i = n + 1 THEN p ELSE w[i]]
<1>5. ASSUME NEW i \in 0..(n + 1)
      PROVE  v[i] = IF i = 0 THEN maze.start ELSE Step(v[i - 1], t[i])
  <2>1. CASE i = n + 1
    <3>1. i # 0 /\ i - 1 = n /\ v[n] = q /\ v[i] = p
      BY <1>4, <2>1
    <3>2. QED
      BY <1>1, <1>3, <2>1, <3>1
  <2>2. CASE i = 0
    BY <1>2, <1>4, <2>2 DEF Follows
  <2>3. CASE i \in 1..n
    <3>1. i - 1 \in 0..(n + 1) /\ i - 1 # n + 1 /\ i # n + 1 /\ i # 0 /\ i \in 0..n
      BY <2>3
    <3>2. v[i] = w[i] /\ v[i - 1] = w[i - 1]
      BY <3>1
    <3>3. w[i] = Step(w[i - 1], s[i])
      BY <1>2, <1>4, <3>1 DEF Follows
    <3>4. QED
      BY <1>3, <2>3, <3>1, <3>2, <3>3
  <2>4. QED
    BY <2>1, <2>2, <2>3
<1>6. v = [i \in 0..Len(t) |-> IF i = 0 THEN maze.start ELSE Step(v[i - 1], t[i])]
  BY <1>3, <1>5
<1>7. v[n + 1] = p /\ \A i \in 0..(n + 1) : v[i] \in Free
  BY <1>4
<1> HIDE DEF v
<1>8. Follows(t, v)
  BY <1>6 DEF Follows
<1>9. LeadsTo(t, p, n + 1)
  BY <1>3, <1>7, <1>8 DEF LeadsTo
<1>10. QED
  BY <1>9 DEF t, m

LEMMA MovesLead ==
    ASSUME GoodMaze, SearchInv, maze.exit \in Reached
    PROVE  LeadsTo(Moves, maze.exit, cost[maze.exit])
<1> DEFINE to == CHOOSE f : f = [p \in DOMAIN cost |->
                     IF p = maze.start THEN <<>> ELSE Append(f[parent[p]], Move(parent[p], p))]
<1>1. Moves = to[maze.exit]
  BY DEF Moves
<1>2. to = [p \in Reached |-> IF p = maze.start THEN <<>> ELSE Append(to[parent[p]], Move(parent[p], p))]
  BY DEF SearchInv, HasWays, IsWay, Reached
<1> HIDE DEF to
<1>3. ListsAgree /\ ParentsAgree
  BY DEF SearchInv
<1> DEFINE Bad == {p \in Reached : ~LeadsTo(to[p], p, cost[p])}
<1>4. Bad = {}
  <2> SUFFICES ASSUME Bad # {} PROVE FALSE
    OBVIOUS
  <2> DEFINE Costs == {cost[p] : p \in Bad}
  <2>1. Costs \subseteq Nat /\ Costs # {}
    BY <1>3 DEF ListsAgree
  <2> HIDE DEF Costs
  <2>2a. PICK k \in Costs : \A m \in Costs : k <= m
    BY <2>1, HasLowest
  <2>2. PICK p \in Bad : \A q \in Bad : cost[p] <= cost[q]
    BY <2>2a DEF Costs
  <2>3. p \in Reached /\ p \in Free /\ ~LeadsTo(to[p], p, cost[p])
    BY <1>3 DEF ListsAgree
  <2>4. CASE p = maze.start
    <3>1. to[p] = <<>> /\ cost[p] = 0
      BY <1>2, <1>3, <2>3, <2>4 DEF ParentsAgree
    <3> DEFINE w == [i \in 0..0 |-> p]
    <3>2. w = [i \in 0..Len(<<>>) |-> IF i = 0 THEN maze.start ELSE Step(w[i - 1], <<>>[i])]
      BY <2>4
    <3>3. w[0] = p /\ \A i \in 0..0 : w[i] \in Free
      BY <2>3
    <3> HIDE DEF w
    <3>4. LeadsTo(<<>>, p, 0)
      BY <3>2, <3>3 DEF LeadsTo, Follows
    <3>5. QED
      BY <2>3, <3>1, <3>4
  <2>5. CASE p # maze.start
    <3> DEFINE q == parent[p]
    <3>1. q \in closed_list /\ p \in Next4(q) /\ cost[p] = cost[q] + 1
      BY <1>3, <2>3, <2>5 DEF ParentsAgree
    <3>2. q \in Reached /\ q \in Free /\ cost[q] \in Nat
      BY <1>3, <3>1 DEF ListsAgree
    <3>3. ~(cost[p] <= cost[q])
      BY <3>1, <3>2
    <3>4. LeadsTo(to[q], q, cost[q])
      BY <2>2, <3>2, <3>3
    <3>5. to[p] = Append(to[q], Move(q, p))
      BY <1>2, <2>3, <2>5
    <3> HIDE DEF q
    <3>6. LeadsTo(to[p], p, cost[q] + 1)
      BY <2>3, <3>1, <3>2, <3>4, <3>5, OneStepFurther
    <3>7. QED
      BY <2>3, <3>1, <3>6
  <2>6. QED
    BY <2>4, <2>5
<1>5. QED
  BY <1>1, <1>4

----------------------------------------------------------------------------
(* The distance.                                                           *)

Near(B) == B \cup ((UNION {Next4(p) : p \in B}) \cap Free)

LEMMA NearHas ==
    ASSUME NEW B, NEW q \in Near(B), q \notin B
    PROVE  q \in Free /\ \E r \in B : q \in Next4(r)
<1>1. q \in UNION {Next4(p) : p \in B} /\ q \in Free
  BY DEF Near
<1>2. PICK S \in {Next4(p) : p \in B} : q \in S
  BY <1>1
<1>3. QED
  BY <1>1, <1>2

IsBalls(b, n) == b = [i \in 0..n |-> IF i = 0 THEN {maze.start} ELSE Near(b[i - 1])]

LEMMA HasBalls ==
    ASSUME NEW n \in Nat
    PROVE  \E b : IsBalls(b, n)
<1> DEFINE Bad == {k \in Nat : \A b : ~IsBalls(b, k)}
<1>1. Bad = {}
  <2> SUFFICES ASSUME Bad # {} PROVE FALSE
    OBVIOUS
  <2>1. PICK k \in Bad : \A j \in Bad : k <= j
    BY HasLowest
  <2>2. k # 0
    <3> DEFINE b == [i \in 0..0 |-> {maze.start}]
    <3>1. b = [i \in 0..0 |-> IF i = 0 THEN {maze.start} ELSE Near(b[i - 1])]
      OBVIOUS
    <3> HIDE DEF b
    <3>2. IsBalls(b, 0)
      BY <3>1 DEF IsBalls
    <3>3. QED
      BY <3>2
  <2>3. k \in Nat /\ k - 1 \in Nat /\ ~(k <= k - 1)
    BY <2>2
  <2>4. PICK b : IsBalls(b, k - 1)
    BY <2>1, <2>3
  <2> DEFINE d == [i \in 0..k |-> IF i = k THEN Near(b[k - 1]) ELSE b[i]]
  <2>5. ASSUME NEW i \in 0..k
        PROVE  d[i] = IF i = 0 THEN {maze.start} ELSE Near(d[i - 1])
    <3>1. CASE i = k
      BY <2>3, <3>1
    <3>2. CASE i # k
      <4>1. i \in 0..(k - 1)
        BY <2>3, <3>2
      <4>2. d[i] = b[i] /\ (i # 0 => d[i - 1] = b[i - 1])
        BY <2>3, <3>2
      <4>3. b[i] = IF i = 0 THEN {maze.start} ELSE Near(b[i - 1])
        BY <2>4, <4>1 DEF IsBalls
      <4>4. QED
        BY <4>2, <4>3
    <3>3. QED
      BY <3>1, <3>2
  <2>6. d = [i \in 0..k |-> IF i = 0 THEN {maze.start} ELSE Near(d[i - 1])]
    BY <2>5
  <2> HIDE DEF d
  <2>7. IsBalls(d, k)
    BY <2>6 DEF IsBalls
  <2>8. QED
    BY <2>7
<1>2. QED
  BY <1>1

LEMMA WithinIs ==
    ASSUME NEW n \in Nat
    PROVE  \E b : IsBalls(b, n) /\ Within(n) = b[n]
<1> DEFINE ball == CHOOSE b : b = [i \in 0..n |-> IF i = 0 THEN {maze.start} ELSE Near(b[i - 1])]
<1>1. Within(n) = ball[n]
  BY DEF Within, Near
<1>2. IsBalls(ball, n)
  BY HasBalls DEF IsBalls
<1>3. QED
  BY <1>1, <1>2

(* A position that is nearer than every entry of the heap is closed, at a  *)
(* cost of no more than its distance.                                      *)
LEMMA NearerIsClosed ==
    ASSUME GoodMaze, SearchInv, NEW n \in Nat, NEW p \in Within(n),
           \A e \in open_list : priority(n, p) < e[1]
    PROVE  p \in closed_list
<1>1. PICK b : IsBalls(b, n) /\ Within(n) = b[n]
  BY WithinIs
<1>2. ListsAgree /\ ParentsAgree /\ Offered /\ Relaxed
  BY DEF SearchInv
<1>3. \A q \in Free : heuristic(q) \in Nat
  BY HeuristicIsNat
<1>4. \A q \in Reached : q \in Free /\ cost[q] \in Nat
  BY <1>2 DEF ListsAgree
<1>5. \A e \in open_list : e[1] \in Nat
  BY <1>2 DEF ListsAgree
<1> DEFINE Known(i, q) == q \in Free /\ ((\A e \in open_list : priority(i, q) < e[1])
                                            => q \in closed_list /\ cost[q] <= i)
           Bad == {i \in 0..n : \E q \in b[i] : ~Known(i, q)}
<1>6. ASSUME NEW i \in Nat, NEW q \in Reached, cost[q] <= i,
             \A e \in open_list : priority(i, q) < e[1]
      PROVE  q \in closed_list
  <2> SUFFICES ASSUME q \notin closed_list PROVE FALSE
    OBVIOUS
  <2>1. PICK e \in open_list : e[2] = q /\ e[1] <= priority(cost[q], q)
    BY <1>2 DEF Offered
  <2>2. heuristic(q) \in Nat /\ cost[q] \in Nat /\ e[1] \in Nat /\ priority(i, q) < e[1]
    BY <1>3, <1>4, <1>5, <1>6
  <2>3. QED
    BY <1>6, <2>1, <2>2 DEF priority
<1>7. Bad = {}
  <2> SUFFICES ASSUME Bad # {} PROVE FALSE
    OBVIOUS
  <2>1. Bad \subseteq Nat
    OBVIOUS
  <2>2. PICK i \in Bad : \A j \in Bad : i <= j
    BY <2>1, HasLowest
  <2>3. i \in 0..n /\ i \in Nat
    OBVIOUS
  <2>4. PICK q \in b[i] : ~Known(i, q)
    OBVIOUS
  <2>5. CASE i = 0
    <3>1. q = maze.start
      BY <1>1, <2>3, <2>4, <2>5 DEF IsBalls
    <3>2. q \in Reached /\ cost[q] = 0
      BY <1>2, <3>1 DEF ParentsAgree
    <3>3. QED
      BY <1>4, <1>6, <2>4, <2>5, <3>2
  <2>6. CASE i # 0
    <3>1. i - 1 \in 0..n /\ i - 1 \in Nat /\ ~(i <= i - 1)
      BY <2>3, <2>6
    <3>2. \A r \in b[i - 1] : Known(i - 1, r)
      BY <2>2, <3>1
    <3>3. b[i] = Near(b[i - 1])
      BY <1>1, <2>3, <2>6 DEF IsBalls
    <3>4. CASE q \in b[i - 1]
      <4>1. q \in Free /\ heuristic(q) \in Nat
        BY <1>3, <3>2, <3>4
      <4>2. \A e \in open_list : priority(i, q) < e[1] => priority(i - 1, q) < e[1]
        BY <1>5, <2>3, <3>1, <4>1 DEF priority
      <4>3. q \in closed_list => cost[q] \in Nat
        BY <1>2, <1>4 DEF ListsAgree
      <4>4. q \in closed_list /\ cost[q] <= i - 1 => cost[q] <= i
        BY <2>3, <3>1, <4>3
      <4>5. QED
        BY <2>4, <3>2, <3>4, <4>1, <4>2, <4>4
    <3>5. CASE q \notin b[i - 1]
      <4>1. PICK r \in b[i - 1] : q \in Next4(r) /\ q \in Free
        BY <2>4, <3>3, <3>5, NearHas
      <4>2. r \in Free /\ q \in get_neighbors(r)
        BY <3>2, <4>1 DEF get_neighbors
      <4>3. heuristic(r) <= heuristic(q) + 1 /\ heuristic(r) \in Nat /\ heuristic(q) \in Nat
        BY <1>3, <4>1, <4>2, Consistent
      <4>4. ASSUME \A e \in open_list : priority(i, q) < e[1]
            PROVE  q \in closed_list /\ cost[q] <= i
        <5>1. \A e \in open_list : priority(i - 1, r) < e[1]
          BY <1>5, <2>3, <3>1, <4>3, <4>4 DEF priority
        <5>2. r \in closed_list /\ cost[r] <= i - 1
          BY <3>2, <5>1
        <5>3. q \in Reached /\ cost[q] <= cost[r] + 1
          BY <1>2, <4>2, <5>2 DEF Relaxed
        <5>4. r \in Reached
          BY <1>2, <5>2 DEF ListsAgree
        <5>5. cost[q] <= i
          BY <1>4, <2>3, <5>2, <5>3, <5>4
        <5>6. QED
          BY <1>6, <2>3, <4>4, <5>3, <5>5
      <4>5. QED
        BY <2>4, <4>1, <4>4
    <3>6. QED
      BY <3>4, <3>5
  <2>7. QED
    BY <2>5, <2>6
<1>8. QED
  BY <1>1, <1>7

----------------------------------------------------------------------------
(* The invariant.                                                          *)

LEMMA MazeInvInit == Init => MazeInv
<1> SUFFICES ASSUME Init PROVE MazeInv
  OBVIOUS
<1>1. phase = "start" /\ closed_list = {} /\ maze \in Mazes \cup {NoMaze}
  BY DEF Init, MazeInit
<1>2. CASE maze \in Mazes
  <2>1. GoodMaze
    BY <1>2, MazesAssumption DEF GoodMaze, Free, Positions
  <2>2. QED
    BY <1>1, <2>1 DEF MazeInv
<1>3. CASE maze = NoMaze
  <2>1. GoodMaze
    BY <1>3 DEF NoMaze, GoodMaze, Free, Positions
  <2>2. QED
    BY <1>1, <2>1 DEF MazeInv
<1>4. QED
  BY <1>1, <1>2, <1>3

(* The search starts with the start alone.                                 *)
LEMMA RecvMazeStarts ==
    ASSUME GoodMaze, closed_list = {}, RecvMaze, phase' = "search"
    PROVE  SearchInv'
<1>1. /\ open_list' = {<<0, maze.start>>}
      /\ cost' = [p \in {maze.start} |-> 0]
      /\ maze' = maze /\ closed_list' = {}
  BY DEF RecvMaze
<1>2. Reached' = {maze.start} /\ cost'[maze.start] = 0
  BY <1>1 DEF Reached
<1>3. Free' = Free /\ maze.start \in Free /\ maze.start # maze.exit
  BY <1>1 DEF Free, Positions, GoodMaze
<1>4. priority(0, maze.start)' \in Nat
  BY <1>1, <1>3, HeuristicIsNat DEF priority, heuristic
<1>5. ListsAgree'
  BY <1>1, <1>2, <1>3 DEF ListsAgree
<1>6. ParentsAgree'
  BY <1>1, <1>2 DEF ParentsAgree
<1>7. HasWays'
  <2> DEFINE way == [p \in {maze.start} |-> <<>>]
  <2>1. way = [p \in Reached' |-> IF p = maze'.start THEN <<>>
                                  ELSE Append(way[parent'[p]], Move(parent'[p], p))]
    BY <1>1, <1>2
  <2> HIDE DEF way
  <2>2. QED
    BY <2>1 DEF HasWays, IsWay, Move
<1>8. Offered'
  <2>1. 0 <= priority(0, maze.start)'
    BY <1>4
  <2>2. QED
    BY <1>1, <1>2, <2>1 DEF Offered
<1>9. NoneCheaper' /\ Relaxed' /\ ClosedFirst'
  BY <1>1, <1>2 DEF NoneCheaper, JustStarted, Relaxed, ClosedFirst
<1>10. QED
  BY <1>5, <1>6, <1>7, <1>8, <1>9 DEF SearchInv

LEMMA SearchStays ==
    ASSUME UNCHANGED <<maze, searchVars>>
    PROVE  SearchInv' = SearchInv /\ Popped' = Popped /\ Moves' = Moves
<1>1. UNCHANGED <<maze, open_list, closed_list, parent, cost>>
  BY DEF searchVars
<1>2. SearchInv' = SearchInv
  BY <1>1 DEF SearchInv, ListsAgree, ParentsAgree, HasWays, IsWay, Offered, NoneCheaper, JustStarted,
              Relaxed, ClosedFirst, Reached, Free, Positions, Next4, Move, priority, heuristic,
              get_neighbors
<1>3. Popped' = Popped
  BY <1>1 DEF Popped, Smaller
<1>4. Moves' = Moves
  BY <1>1 DEF Moves, Move
<1>5. QED
  BY <1>2, <1>3, <1>4

LEMMA MazeInvStep == MazeInv /\ [Next]_solverVars => MazeInv'
<1> SUFFICES ASSUME MazeInv, [Next]_solverVars PROVE MazeInv'
  OBVIOUS
<1>1. GoodMaze /\ maze' = maze => GoodMaze'
  BY DEF GoodMaze, Free, Positions
<1>2. CASE UNCHANGED mazeVars /\ UNCHANGED program
  <2>1. UNCHANGED <<maze, searchVars, phase, moves, closed_list, open_list>>
    BY <1>2 DEF mazeVars, searchVars
  <2>2. SearchInv' = SearchInv /\ Popped' = Popped /\ Moves' = Moves
    BY <2>1, SearchStays
  <2>3. QED
    BY <1>1, <1>2, <2>1, <2>2 DEF MazeInv
<1>3. CASE ConnectMaze /\ UNCHANGED program /\ program = "solve_maze"
  BY <1>1, <1>3 DEF ConnectMaze, MazeInv, searchVars
<1>4. CASE RecvMaze /\ UNCHANGED program /\ program = "solve_maze"
  <2>1. phase = "receive" /\ maze' = maze /\ closed_list = {} /\ closed_list' = {} /\ GoodMaze
    BY <1>4 DEF RecvMaze, MazeInv
  <2>2. phase' = phase \/ phase' = "search"
    BY <1>4 DEF RecvMaze
  <2>3. phase' = "search" => SearchInv'
    BY <1>4, <2>1, RecvMazeStarts
  <2>4. QED
    BY <1>1, <1>4, <2>1, <2>2, <2>3 DEF MazeInv
<1>5. CASE Expand /\ UNCHANGED program /\ program = "solve_maze"
  <2>1. phase = "search" /\ phase' = "search" /\ maze' = maze /\ GoodMaze /\ SearchInv
    BY <1>5 DEF Expand, MazeInv
  <2>2. SearchInv'
    BY <1>5, <2>1, ExpandSearches
  <2>3. QED
    BY <1>1, <1>5, <2>1, <2>2 DEF MazeInv
<1>6. CASE SendMoves /\ UNCHANGED program /\ program = "solve_maze"
  <2>1. /\ phase = "search" /\ phase' = "sent" /\ maze' = maze /\ GoodMaze /\ SearchInv
        /\ open_list # {} /\ Popped[2] = maze.exit /\ moves' = Moves
        /\ UNCHANGED <<maze, searchVars, open_list>>
    BY <1>6 DEF SendMoves, PathFound, MazeInv, searchVars
  <2>2. SearchInv' = SearchInv /\ Popped' = Popped /\ Moves' = Moves
    BY <2>1, SearchStays
  <2>3. QED
    BY <1>1, <1>6, <2>1, <2>2 DEF MazeInv
<1>7. CASE NoPath /\ UNCHANGED program /\ program = "solve_maze"
  <2>1. /\ phase = "search" /\ phase' = "raised" /\ maze' = maze /\ GoodMaze /\ SearchInv
        /\ open_list = {}
        /\ UNCHANGED <<maze, searchVars, open_list>>
    BY <1>7 DEF NoPath, MazeInv, searchVars
  <2>2. SearchInv'
    BY <2>1, SearchStays
  <2>3. QED
    BY <1>1, <1>7, <2>1, <2>2 DEF MazeInv
<1>8. CASE RecvReply /\ UNCHANGED program /\ program = "solve_maze"
  <2>1. /\ phase = "sent" /\ phase' \in {"sent", "ended"}
        /\ UNCHANGED <<maze, searchVars, open_list, moves>>
    BY <1>8 DEF RecvReply, searchVars
  <2>2. SearchInv' = SearchInv /\ Popped' = Popped /\ Moves' = Moves
    BY <2>1, SearchStays
  <2>3. QED
    BY <1>1, <1>8, <2>1, <2>2 DEF MazeInv
<1>9. CASE (SendRaises \/ RecvRaises) /\ UNCHANGED program /\ program = "solve_maze"
  BY <1>1, <1>9 DEF SendRaises, RecvRaises, MazeInv
<1>10. QED
  BY <1>2, <1>3, <1>4, <1>5, <1>6, <1>7, <1>8, <1>9 DEF Next, Run, Server, solve_maze, solverVars, mazeVars

(* In every maze: the moves lead from the start to the exit, through no    *)
(* wall and on a shortest way, and none are sent only where there is no    *)
(* way.                                                                    *)
THEOREM WalksAreShortest == Spec => []WalkIsShortest
<1>1. ASSUME MazeInv PROVE WalkIsShortest
  <2>1. GoodMaze
    BY <1>1 DEF MazeInv
  <2>2. ASSUME phase \in {"sent", "ended"}
        PROVE  /\ \A i \in 0..Len(moves) : Walk(moves)[i] \in Free
               /\ Walk(moves)[Len(moves)] = maze.exit
               /\ maze.exit \notin Within(Len(moves) - 1)
    <3>1. SearchInv /\ open_list # {} /\ Popped[2] = maze.exit /\ moves = Moves
      BY <1>1, <2>2 DEF MazeInv
    <3>2. ListsAgree /\ ParentsAgree /\ NoneCheaper /\ maze.start # maze.exit /\ maze.exit \in Free
      BY <2>1, <3>1 DEF SearchInv, GoodMaze
    <3>3. Popped \in open_list /\ \A e \in open_list : Popped[1] <= e[1]
      BY <2>1, <3>1, <3>2, PoppedIsLowest
    <3>4. maze.exit \in Reached /\ Popped[1] \in Nat /\ \A e \in open_list : e[1] \in Nat
      BY <3>1, <3>2, <3>3 DEF ListsAgree
    <3> DEFINE n == cost[maze.exit]
    <3>5. LeadsTo(moves, maze.exit, n)
      BY <2>1, <3>1, <3>4, MovesLead
    <3>6. n \in Nat /\ n - 1 \in Nat /\ Len(moves) = n
      <4>1. /\ parent[maze.exit] \in closed_list
            /\ n = cost[parent[maze.exit]] + 1
        BY <3>2, <3>4 DEF ParentsAgree
      <4>2. cost[parent[maze.exit]] \in Nat
        BY <3>2, <4>1 DEF ListsAgree
      <4>3. QED
        BY <3>5, <4>1, <4>2 DEF LeadsTo
    <3>7. n <= Popped[1]
      <4>1. open_list # {<<0, maze.start>>}
        BY <3>1, <3>2, <3>3
      <4>2. priority(n, maze.exit) <= Popped[1]
        BY <3>1, <3>2, <3>3, <4>1 DEF NoneCheaper, JustStarted
      <4>3. heuristic(maze.exit) \in Nat
        BY <2>1, <3>2, HeuristicIsNat
      <4>4. QED
        BY <3>4, <3>6, <4>2, <4>3 DEF priority
    <3>8. maze.exit \notin Within(n - 1)
      <4>1. heuristic(maze.exit) = 0
        <5>1. maze.exit[1] \in Int /\ maze.exit[2] \in Int
          BY <2>1, <3>2, FreeAreCells
        <5>2. QED
          BY <5>1 DEF heuristic, Abs
      <4>2. \A e \in open_list : priority(n - 1, maze.exit) < e[1]
        BY <3>3, <3>4, <3>6, <3>7, <4>1 DEF priority
      <4>3. maze.exit \notin closed_list
        BY <3>2 DEF ListsAgree
      <4>4. QED
        BY <2>1, <3>1, <3>6, <4>2, <4>3, NearerIsClosed
    <3>9. PICK w : Follows(moves, w) /\ w[n] = maze.exit /\ \A i \in 0..n : w[i] \in Free
      BY <3>5 DEF LeadsTo
    <3>10. Walk(moves) = w
      BY <3>6, <3>9, WalkIs DEF Follows
    <3>11. QED
      BY <3>6, <3>8, <3>9, <3>10
  <2>3. ASSUME phase = "raised"
        PROVE  maze.exit \notin Within(maze.size[1] * maze.size[2])
    <3>1. SearchInv /\ open_list = {}
      BY <1>1, <2>3 DEF MazeInv
    <3>2. maze.exit \notin closed_list
      BY <3>1 DEF SearchInv, ListsAgree
    <3>3. maze.size[1] * maze.size[2] \in Nat
      <4>1. maze.size[1] \in Nat /\ maze.size[2] \in Nat
        BY <2>1 DEF GoodMaze
      <4>2. QED
        BY <4>1
    <3>4. QED
      BY <2>1, <3>1, <3>2, <3>3, NearerIsClosed
  <2>4. QED
    BY <2>2, <2>3 DEF WalkIsShortest
<1>2. QED
  BY <1>1, MazeInvInit, MazeInvStep, PTL DEF Spec

----------------------------------------------------------------------------
(* The search runs dry.                                                    *)

FiniteSearch == IsFiniteSet(Free) /\ IsFiniteSet(open_list)

(* A round closes one more of the positions, or takes from the heap an     *)
(* entry left behind and adds none.                                        *)
FewerLeft ==
    \/ Cardinality((Free \ closed_list)') < Cardinality(Free \ closed_list)
    \/ closed_list' = closed_list /\ Cardinality(open_list') < Cardinality(open_list)

LEMMA FreeIsFinite ==
    ASSUME GoodMaze
    PROVE  IsFiniteSet(Free)
<1>1. maze.size[1] \in Nat /\ maze.size[2] \in Nat
  BY DEF GoodMaze
<1>2. IsFiniteSet(0..(maze.size[1] - 1)) /\ IsFiniteSet(0..(maze.size[2] - 1))
  <2>1. 0 \in Int /\ maze.size[1] - 1 \in Int /\ maze.size[2] - 1 \in Int
    BY <1>1
  <2>2. QED
    BY <2>1, FS_Interval
<1>3. IsFiniteSet(Positions)
  BY <1>2, FS_Product DEF Positions
<1>4. QED
  BY <1>3, FS_Difference DEF Free

(* Nothing better is found from a position that was closed before.         *)
LEMMA NoneBetterFromClosed ==
    ASSUME GoodMaze, SearchInv, open_list # {}, Popped[2] \in closed_list,
           NEW p \in get_neighbors(Popped[2]), p \notin closed_list
    PROVE  ~Improves(open_list \ {Popped}, p, cost[Popped[2]] + 1)
<1> DEFINE here == Popped[2]
<1>1. ListsAgree /\ Offered /\ Relaxed
  BY DEF SearchInv
<1>2. here \in Reached /\ here \in Free /\ cost[here] \in Nat
  BY <1>1 DEF ListsAgree
<1>3. p \in Reached /\ cost[p] <= cost[here] + 1
  BY <1>1 DEF Relaxed
<1>4. cost[p] \in Nat
  BY <1>1, <1>3 DEF ListsAgree
<1>5. PICK e \in open_list : e[2] = p
  BY <1>1, <1>3 DEF Offered
<1>6. e \in open_list \ {Popped}
  BY <1>5
<1>7. QED
  BY <1>2, <1>3, <1>4, <1>5, <1>6 DEF Improves

LEMMA ExpandLeavesFewer ==
    ASSUME GoodMaze, SearchInv, FiniteSearch, Expand
    PROVE  FiniteSearch' /\ FewerLeft
<1> DEFINE here == Popped[2]
           heap == open_list \ {Popped}
           done == closed_list \cup {here}
           n == cost[here] + 1
           better == {p \in get_neighbors(here) \ done : Improves(heap, p, n)}
           added == {<<priority(n, p), p>> : p \in better}
<1>1. /\ open_list # {} /\ Free' = Free
      /\ closed_list' = done
      /\ open_list' = heap \cup added
  BY DEF Expand, Free, Positions
<1>2. ListsAgree
  BY DEF SearchInv
<1>3. Popped \in open_list
  BY <1>1, <1>2, PoppedIsLowest
<1>4. here \in Free
  BY <1>2, <1>3 DEF ListsAgree
<1>5. IsFiniteSet(heap) /\ Cardinality(heap) = Cardinality(open_list) - 1
      /\ Cardinality(open_list) \in Nat
  BY <1>3, FS_RemoveElement, FS_CardinalityType DEF FiniteSearch
<1>6. IsFiniteSet(added)
  <2>1. IsFiniteSet(better)
    <3>1. better \in SUBSET Free
      BY DEF get_neighbors
    <3>2. QED
      BY <3>1, FS_Subset DEF FiniteSearch
  <2> DEFINE f == [p \in better |-> <<priority(n, p), p>>]
  <2> HIDE DEF better
  <2>2. f \in Surjection(better, added)
    BY DEF Surjection
  <2>3. QED
    BY <2>1, <2>2, FS_Surjection
<1>7. IsFiniteSet(open_list')
  BY <1>1, <1>5, <1>6, FS_Union
<1>8. CASE here \in closed_list
  <2>1. better = {}
    BY <1>1, <1>8, NoneBetterFromClosed
  <2>2. added = {}
    BY <2>1
  <2>3. open_list' = heap /\ closed_list' = closed_list
    BY <1>1, <1>8, <2>2
  <2>4. Cardinality(open_list') < Cardinality(open_list)
    <3> HIDE DEF heap
    <3>1. QED
      BY <1>5, <2>3
  <2>5. QED
    BY <1>1, <1>7, <2>3, <2>4 DEF FewerLeft, FiniteSearch
<1>9. CASE here \notin closed_list
  <2>1. IsFiniteSet(Free \ closed_list)
    BY FS_Difference DEF FiniteSearch
  <2>2. here \in Free \ closed_list /\ Free \ done = (Free \ closed_list) \ {here}
    BY <1>4, <1>9
  <2> DEFINE left == Free \ closed_list
  <2>3. Cardinality(left) \in Nat /\ Cardinality(left \ {here}) = Cardinality(left) - 1
    <3>1. IsFiniteSet(left) /\ here \in left
      BY <2>1, <2>2
    <3> HIDE DEF left, here
    <3>2. QED
      BY <3>1, FS_RemoveElement, FS_CardinalityType
  <2>4. (Free \ closed_list)' = left \ {here}
    BY <1>1, <2>2
  <2>5. Cardinality((Free \ closed_list)') < Cardinality(left)
    <3> HIDE DEF left
    <3>1. QED
      BY <2>3, <2>4
  <2>6. QED
    BY <1>1, <1>7, <2>5 DEF FewerLeft, FiniteSearch
<1>10. QED
  BY <1>8, <1>9

(* The search cannot go on for ever, in whatever maze: its positions and   *)
(* its heap are finite, and each round leaves fewer positions to close, or *)
(* as many and fewer entries in the heap.                                  *)
THEOREM SearchRunsDry == Spec => []FiniteSearch /\ [][Expand => FewerLeft]_solverVars
<1>1. Init => FiniteSearch
  <2> SUFFICES ASSUME Init PROVE FiniteSearch
    OBVIOUS
  <2>1. GoodMaze /\ open_list = {}
    BY MazeInvInit DEF Init, MazeInit, MazeInv
  <2>2. QED
    BY <2>1, FreeIsFinite, FS_EmptySet DEF FiniteSearch
<1>2. MazeInv /\ FiniteSearch /\ [Next]_solverVars => FiniteSearch' /\ (Expand => FewerLeft)
  <2> SUFFICES ASSUME MazeInv, FiniteSearch, [Next]_solverVars
               PROVE  FiniteSearch' /\ (Expand => FewerLeft)
    OBVIOUS
  <2>1. GoodMaze /\ (phase = "search" => SearchInv)
    BY DEF MazeInv
  <2>2. CASE Expand
    BY <2>1, <2>2, ExpandLeavesFewer DEF Expand
  <2>3. CASE ~Expand
    <3>1. maze' = maze /\ (open_list' = open_list \/ open_list' = {<<0, maze.start>>})
      BY <2>3 DEF Next, Run, Server, solve_maze, ConnectMaze, RecvMaze, SendMoves, SendRaises, NoPath,
                  RecvReply, RecvRaises, solverVars, mazeVars, searchVars
    <3>2. Free' = Free
      BY <3>1 DEF Free, Positions
    <3>3. IsFiniteSet(open_list')
      BY <3>1, FS_Singleton DEF FiniteSearch
    <3>4. QED
      BY <2>3, <3>2, <3>3 DEF FiniteSearch
  <2>4. QED
    BY <2>2, <2>3
<1>3. QED
  BY <1>1, <1>2, MazeInvInit, MazeInvStep, PTL DEF Spec
============================================================================
