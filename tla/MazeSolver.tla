---------------------------- MODULE MazeSolver ----------------------------
(***************************************************************************)
(* The maze solver (lab3: lab3_1.py, lab3_2.py, MazeSolver.py): receives a *)
(* maze until it sees the prompt, searches with A*, sends the moves and    *)
(* receives three times what the server says to them.                      *)
(* A position is <<x, y>>; the maze is what is not wall.                   *)
(***************************************************************************)
EXTENDS ChallengeLink, Integers, Sequences

CONSTANT Mazes  \* records [size, walls, start, exit]

(* A maze has its start and its exit, neither in a wall.                   *)
ASSUME MazesAssumption ==
    \A m \in Mazes :
        /\ m.size \in Nat \X Nat
        /\ {m.start, m.exit} \subseteq
             ((0..(m.size[1] - 1)) \X (0..(m.size[2] - 1))) \ m.walls
        /\ m.start # m.exit

VARIABLES
    maze,
    cut,          \* the prompt lies across the last two pieces
    phase,
    open_list,    \* the heap: pairs of a priority and a position
    closed_list,
    parent, cost, \* functions on the positions reached so far
    moves,        \* the moves sent
    recvs         \* receives that returned since then

searchVars == <<open_list, closed_list, parent, cost>>
mazeVars == <<maze, cut, phase, searchVars, moves, recvs>>

(* Where there is nothing to walk: the maze while the other solver runs.   *)
NoMaze == [size |-> <<2, 1>>, walls |-> {}, start |-> <<0, 0>>, exit |-> <<1, 0>>]

MazeInit(Given) ==
    /\ maze \in Given
    /\ cut = FALSE
    /\ phase = "start"
    /\ open_list = {}
    /\ closed_list = {}
    /\ parent = <<>>
    /\ cost = <<>>
    /\ moves = <<>>
    /\ recvs = 0

----------------------------------------------------------------------------
(* A server that has closed sends nothing more.                            *)
Sends(n) == IF closed THEN UNCHANGED linkVars ELSE Answers(n)

(* The server sends the maze to whoever connects.                          *)
ConnectMaze ==
    /\ phase = "start"
    /\ Sends(Pieces)
    /\ cut' \in BOOLEAN
    /\ phase' = "receive"
    /\ UNCHANGED <<maze, searchVars, moves, recvs>>

PromptIn(data) == (IF cut THEN {Pieces - 1, Pieces} \ {0} ELSE {Pieces}) \subseteq data

(* The prompt is looked for in what this recv returned, not in all that    *)
(* was received.  At end of file recv returns nothing, again and again.    *)
RecvMaze ==
    /\ phase = "receive"
    /\ inbox # {}
    /\ \E n \in inbox :
         LET data == {p \in inbox : p <= n} IN
         /\ inbox' = inbox \ data
         /\ IF PromptIn(data)
              THEN /\ phase' = "search"
                   /\ open_list' = {<<0, maze.start>>}
                   /\ cost' = [p \in {maze.start} |-> 0]
              ELSE UNCHANGED <<phase, open_list, cost>>
    /\ UNCHANGED <<unsent, closed, maze, cut, closed_list, parent, moves, recvs>>

----------------------------------------------------------------------------
Positions == (0..(maze.size[1] - 1)) \X (0..(maze.size[2] - 1))
Free == Positions \ maze.walls

Abs(n) == IF n < 0 THEN -n ELSE n

heuristic(p) == Abs(p[1] - maze.exit[1]) + Abs(p[2] - maze.exit[2])

\* Mutant of priority: the way so far does not count.
priorityGreedy(n, p) == heuristic(p)

priority(n, p) == n + heuristic(p)

Next4(p) == {<<p[1], p[2] + 1>>, <<p[1], p[2] - 1>>, <<p[1] + 1, p[2]>>, <<p[1] - 1, p[2]>>}

get_neighbors(p) == Next4(p) \cap Free

(* heappop: the smallest pair.                                             *)
Smaller(e, f) ==
    \/ e[1] < f[1]
    \/ e[1] = f[1] /\ e[2][1] < f[2][1]
    \/ e[1] = f[1] /\ e[2][1] = f[2][1] /\ e[2][2] < f[2][2]

Popped == CHOOSE e \in open_list : \A f \in open_list : f = e \/ Smaller(e, f)

Improves(heap, p, n) == p \notin {e[2] : e \in heap} \/ n < cost[p]

(* One round of the loop: the position is closed, and its neighbours that  *)
(* are not get a better way.                                               *)
Expand ==
    /\ phase = "search"
    /\ open_list # {}
    /\ Popped[2] # maze.exit
    /\ LET here == Popped[2]
           heap == open_list \ {Popped}
           done == closed_list \cup {here}
           n == cost[here] + 1
           better == {p \in get_neighbors(here) \ done : Improves(heap, p, n)}
       IN
       /\ closed_list' = done
       /\ open_list' = heap \cup {<<priority(n, p), p>> : p \in better}
       /\ cost' = [p \in DOMAIN cost \cup better |-> IF p \in better THEN n ELSE cost[p]]
       /\ parent' = [p \in DOMAIN parent \cup better |-> IF p \in better THEN here ELSE parent[p]]
    /\ UNCHANGED <<linkVars, maze, cut, phase, moves, recvs>>

(* path_to_moves, step by step.                                            *)
Move(p, q) ==
    CASE q[1] > p[1] -> "D" [] q[1] < p[1] -> "A"
      [] q[1] = p[1] /\ q[2] > p[2] -> "S" [] q[1] = p[1] /\ q[2] < p[2] -> "W"

(* The path back from the exit along parent, as moves from the start.      *)
Moves ==
    LET to[p \in DOMAIN cost] ==
            IF p = maze.start THEN <<>> ELSE Append(to[parent[p]], Move(parent[p], p))
    IN to[maze.exit]

Receives == 3

PathFound == phase = "search" /\ open_list # {} /\ Popped[2] = maze.exit

(* The server answers with any text, of which no more than Receives pieces *)
(* matter.                                                                 *)
SendMoves ==
    /\ PathFound
    /\ moves' = Moves
    /\ phase' = "sent"
    /\ \E n \in 0..Receives : Sends(n)
    /\ UNCHANGED <<maze, cut, searchVars, recvs>>

(* sendall raises when the other side has reset the connection.            *)
SendRaises ==
    /\ PathFound
    /\ closed
    /\ phase' = "reset"
    /\ UNCHANGED <<linkVars, maze, cut, searchVars, moves, recvs>>

(* Without a path the result is a list, which has no encode.               *)
NoPath ==
    /\ phase = "search"
    /\ open_list = {}
    /\ phase' = "raised"
    /\ UNCHANGED <<linkVars, maze, cut, searchVars, moves, recvs>>

(* One of the receives after the moves, whatever it returns; at end of     *)
(* file, nothing.  Otherwise it waits, for ever if need be.                *)
RecvReply ==
    /\ phase = "sent"
    /\ \/ \E n \in inbox : inbox' = {p \in inbox : p > n}
       \/ closed /\ inbox = {} /\ UNCHANGED inbox
    /\ recvs' = recvs + 1
    /\ phase' = IF recvs' = Receives THEN "ended" ELSE "sent"
    /\ UNCHANGED <<unsent, closed, maze, cut, searchVars, moves>>

RecvRaises ==
    /\ phase = "sent"
    /\ closed
    /\ phase' = "reset"
    /\ UNCHANGED <<linkVars, maze, cut, searchVars, moves, recvs>>

solve_maze == ConnectMaze \/ RecvMaze \/ Expand \/ SendMoves \/ SendRaises \/ NoPath
              \/ RecvReply \/ RecvRaises

----------------------------------------------------------------------------
(* The game, as lab3/README.md states it: where moves lead, and how far    *)
(* the exit is.                                                            *)
Step(p, m) ==
    CASE m = "W" -> <<p[1], p[2] - 1>> [] m = "S" -> <<p[1], p[2] + 1>>
      [] m = "A" -> <<p[1] - 1, p[2]>> [] m = "D" -> <<p[1] + 1, p[2]>>

Walk(s) ==
    LET at[i \in 0..Len(s)] == IF i = 0 THEN maze.start ELSE Step(at[i - 1], s[i])
    IN [i \in 0..Len(s) |-> at[i]]

(* The positions within n moves of the start.                              *)
Within(n) ==
    LET near(B) == B \cup ((UNION {Next4(p) : p \in B}) \cap Free)
        ball[i \in 0..n] == IF i = 0 THEN {maze.start} ELSE near(ball[i - 1])
    IN ball[n]
============================================================================
