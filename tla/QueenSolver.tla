---------------------------- MODULE QueenSolver ----------------------------
(***************************************************************************)
(* The N-Queen solver (lab7/src/solver.cpp): asks the challenge server for *)
(* its board, completes it row by row with backtracking, marks the queens  *)
(* on the server's board and has it checked.                               *)
(*                                                                         *)
(* recvMsg reads until half a second passes without data, and every read   *)
(* overwrites the one before.  The recursion of solveNQueen is a stack of  *)
(* the frames that wait for a deeper call.                                 *)
(***************************************************************************)
EXTENDS ChallengeLink, Sequences

CONSTANTS
    N,        \* MAX_N, and the 30 at which the recursion ends
    Puzzles   \* sets of given queens, as <<row, column>>

ASSUME NAssumption == N \in Nat \ {0}
ASSUME PuzzlesAssumption == Puzzles \subseteq SUBSET ((0..(N - 1)) \X (0..(N - 1)))

VARIABLES
    given,      \* the queens on the server's board
    buf,        \* pieces of the board that buf holds
    stage,      \* where main is
    table, row_Queen, col_Queen,
    row,        \* row of the innermost call
    col,        \* the column its loop is at
    calls,      \* the outer frames, each with the row and column of its queen
    sent        \* the queens the server was told of

boardVars == <<table, row_Queen, col_Queen, row, col, calls>>
queenVars == <<given, buf, stage, boardVars, sent>>

Index == 0..(N - 1)
Cell == Index \X Index

QueenInit(Some) ==
    /\ given \in Some
    /\ buf = {}
    /\ stage = "start"
    /\ table = {}
    /\ row_Queen = {}
    /\ col_Queen = {}
    /\ row = 0
    /\ col = 0
    /\ calls = <<>>
    /\ sent = {}

----------------------------------------------------------------------------
(* sendMsg: a write to a server that has closed raises SIGPIPE.            *)
SendMsg(answer, next) ==
    IF closed THEN stage' = "killed" /\ UNCHANGED linkVars
              ELSE stage' = next /\ Answers(answer)

AskBoard ==
    /\ stage = "start"
    /\ SendMsg(Pieces, "board")
    /\ UNCHANGED <<given, buf, boardVars, sent>>

Receiving == stage \in {"board", "reply", "verdict"}

ReadPieces ==
    /\ Receiving
    /\ inbox # {}
    /\ buf' = inbox
    /\ inbox' = {}
    /\ UNCHANGED <<unsent, closed, given, stage, boardVars, sent>>

(* At end of file read returns at once, again and again.                   *)
SpinAtEof ==
    /\ Receiving
    /\ inbox = {}
    /\ closed
    /\ stage' = "spinning"
    /\ UNCHANGED <<linkVars, given, buf, boardVars, sent>>

(* The board is taken to be what the last read left.  With rows missing,   *)
(* the search reads beyond its table, and nothing can be said of it.       *)
BoardTimeout ==
    /\ stage = "board"
    /\ inbox = {}
    /\ ~closed
    /\ IF buf = Piece
         THEN /\ stage' = "search"
              /\ table' = given
              /\ row_Queen' = {q[1] : q \in given}
              /\ col_Queen' = {q[2] : q \in given}
         ELSE stage' = "fault" /\ UNCHANGED <<table, row_Queen, col_Queen>>
    /\ UNCHANGED <<linkVars, given, buf, row, col, calls, sent>>

----------------------------------------------------------------------------
\* Mutant of checkqueen: one of the four directions is forgotten.
checkqueenThreeWays(x, y) ==
    \A i \in Index : {<<x + i, y + i>>, <<x - i, y - i>>, <<x + i, y - i>>} \cap table = {}

checkqueen(x, y) ==
    \A i \in Index :
        {<<x + i, y + i>>, <<x - i, y - i>>, <<x + i, y - i>>, <<x - i, y + i>>} \cap table = {}

MayPlace(c) == c \in col..(N - 1) /\ c \notin col_Queen /\ checkqueen(row, c)

InLoop == stage = "search" /\ row < N /\ row \notin row_Queen

SkipRow ==
    /\ stage = "search"
    /\ row \in row_Queen
    /\ row' = row + 1
    /\ col' = 0
    /\ UNCHANGED <<linkVars, given, buf, stage, table, row_Queen, col_Queen, calls, sent>>

PlaceQueen ==
    /\ InLoop
    /\ \E c \in Index :
         /\ MayPlace(c)
         /\ \A d \in Index : MayPlace(d) => c <= d
         /\ table' = table \cup {<<row, c>>}
         /\ row_Queen' = row_Queen \cup {row}
         /\ col_Queen' = col_Queen \cup {c}
         /\ calls' = Append(calls, <<row, c>>)
    /\ row' = row + 1
    /\ col' = 0
    /\ UNCHANGED <<linkVars, given, buf, stage, sent>>

\* Mutant of NextColumn: the loop does not go on.
SameColumn(q) == q[2]

NextColumn(q) == q[2] + 1

(* The call returns false: the queen of the caller is taken back.          *)
Backtrack ==
    /\ InLoop
    /\ \A c \in Index : ~MayPlace(c)
    /\ calls # <<>>
    /\ LET q == calls[Len(calls)] IN
       /\ table' = table \ {q}
       /\ row_Queen' = row_Queen \ {q[1]}
       /\ col_Queen' = col_Queen \ {q[2]}
       /\ row' = q[1]
       /\ col' = NextColumn(q)
    /\ calls' = SubSeq(calls, 1, Len(calls) - 1)
    /\ UNCHANGED <<linkVars, given, buf, stage, sent>>

(* main does not look at the result.                                       *)
SearchReturns ==
    /\ \/ stage = "search" /\ row = N
       \/ InLoop /\ calls = <<>> /\ \A c \in Index : ~MayPlace(c)
    /\ stage' = "upload"
    /\ UNCHANGED <<linkVars, given, buf, boardVars, sent>>

----------------------------------------------------------------------------
(* The cells of the table in the order of the two loops.                   *)
Before(p, q) == p[1] < q[1] \/ (p[1] = q[1] /\ p[2] < q[2])

MarkQueen ==
    /\ stage = "upload"
    /\ \E q \in table \ sent :
         /\ \A p \in table \ sent : p = q \/ Before(q, p)
         /\ sent' = IF closed THEN sent ELSE sent \cup {q}
    /\ SendMsg(1, "reply")
    /\ UNCHANGED <<given, buf, boardVars>>

AskVerdict ==
    /\ stage = "upload"
    /\ table \subseteq sent
    /\ SendMsg(1, "verdict")
    /\ UNCHANGED <<given, buf, boardVars, sent>>

(* What was answered is not looked at, late or not.                        *)
ReplyTimeout ==
    /\ stage \in {"reply", "verdict"}
    /\ inbox = {}
    /\ ~closed
    /\ stage' = IF stage = "reply" THEN "upload" ELSE "ended"
    /\ UNCHANGED <<linkVars, given, buf, boardVars, sent>>

solver ==
    \/ AskBoard \/ ReadPieces \/ SpinAtEof \/ BoardTimeout
    \/ SkipRow \/ PlaceQueen \/ Backtrack \/ SearchReturns
    \/ MarkQueen \/ AskVerdict \/ ReplyTimeout

----------------------------------------------------------------------------
(* The puzzle, as lab7/README.md states it.                                *)
Attack(p, q) ==
    \/ p[1] = q[1] \/ p[2] = q[2]
    \/ p[1] + p[2] = q[1] + q[2]
    \/ p[1] + q[2] = q[1] + p[2]

Peaceful(board) == \A p, q \in board : p # q => ~Attack(p, q)

Solves(board) == Cardinality(board) = N /\ Peaceful(board)

Solvable(board) ==
    \E place \in [Index -> Index] :
        LET whole == {<<r, place[r]>> : r \in Index} IN board \subseteq whole /\ Peaceful(whole)
============================================================================
