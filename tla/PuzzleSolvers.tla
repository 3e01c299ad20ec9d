--------------------------- MODULE PuzzleSolvers ---------------------------
(***************************************************************************)
(* The programs that solve a puzzle of the challenge server, each on a     *)
(* connection of its own: one of them runs.                                *)
(***************************************************************************)
EXTENDS QueenSolver, MazeSolver

VARIABLE program  \* "solver" or "solve_maze"

solverVars == <<linkVars, queenVars, mazeVars, program>>

Init ==
    /\ LinkInit
    /\ \/ program = "solver" /\ QueenInit(Puzzles) /\ MazeInit({NoMaze})
       \/ program = "solve_maze" /\ QueenInit({{}}) /\ MazeInit(Mazes)

Run ==
    \/ program = "solver" /\ solver /\ UNCHANGED <<mazeVars, program>>
    \/ program = "solve_maze" /\ solve_maze /\ UNCHANGED <<queenVars, program>>

Server == (Arrives \/ ServerCloses) /\ UNCHANGED <<queenVars, mazeVars, program>>

Next == Run \/ Server

Spec == Init /\ [][Next]_solverVars

(* The solver runs, and what the server sends arrives.                     *)
FairSpec ==
    /\ Spec
    /\ WF_solverVars(Run)
    /\ WF_solverVars(Arrives /\ UNCHANGED <<queenVars, mazeVars, program>>)

----------------------------------------------------------------------------
(* Properties.                                                             *)

(* What the solver leaves on the server's board, the given queens and its  *)
(* own, solves every puzzle that has a solution.                           *)
PuzzleIsSolved ==
    stage = "ended" => (Solvable(given) => Solves(given \cup sent))

(* The moves lead from the start to the exit, through no wall, on one of   *)
(* the shortest ways, and without a way none are sent.                     *)
WalkIsShortest ==
    /\ phase \in {"sent", "ended"} =>
         /\ \A i \in 0..Len(moves) : Walk(moves)[i] \in Free
         /\ Walk(moves)[Len(moves)] = maze.exit
         /\ maze.exit \notin Within(Len(moves) - 1)
    /\ phase = "raised" => maze.exit \notin Within(maze.size[1] * maze.size[2])

(* The ways a solver may hang: at end of file recvMsg spins, and on an     *)
(* incomplete board nothing is known of the search; the maze's prompt is   *)
(* never seen if it is cut in two or the server closes before it; and the  *)
(* last receives wait for replies that do not come.                        *)
Hangs ==
    IF program = "solver" THEN stage \in {"spinning", "fault"}
    ELSE /\ unsent = {} /\ inbox = {}
         /\ \/ phase = "receive" /\ (cut \/ closed)
            \/ phase = "sent" /\ ~closed

Ended ==
    IF program = "solver" THEN stage \in {"ended", "killed"}
                          ELSE phase \in {"ended", "raised", "reset"}

(* A solver ends for good, if it does not hang in one of these ways: no    *)
(* search goes on for ever, and a server that answers is heard out.        *)
SolversEnd == <>[](Ended \/ Hangs)
============================================================================
