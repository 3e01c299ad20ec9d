-------------------------- MODULE MCPuzzleSolvers --------------------------
(* Small instances of PuzzleSolvers for TLC.                               *)
EXTENDS PuzzleSolvers

(* All boards of up to two given queens.                                   *)
Cells == (0..(N - 1)) \X (0..(N - 1))
UpToTwo == {{p, q} : p, q \in Cells} \cup {{}}

(* Mazes of three by three with the start in a corner, at a side or in the *)
(* middle, and of five by three with a start and an exit between which     *)
(* walls can mislead the search.                                           *)
Grid(w, h) == (0..(w - 1)) \X (0..(h - 1))
MazesOf(w, h, starts, exits) ==
    UNION { {[size |-> <<w, h>>, walls |-> walls, start |-> s, exit |-> e] :
               walls \in SUBSET (Grid(w, h) \ {s, e})} : s \in starts, e \in exits }
SmallMazes ==
    {m \in MazesOf(3, 3, {<<0, 0>>, <<1, 0>>, <<1, 1>>}, Grid(3, 3)) : m.start # m.exit}
      \cup MazesOf(5, 3, {<<0, 2>>}, {<<4, 1>>})
============================================================================
