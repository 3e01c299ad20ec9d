--------------------------- MODULE ChallengeLink ---------------------------
(***************************************************************************)
(* The connection between a solver and the challenge server that set its   *)
(* puzzle.  The server is not part of the repository: it is what lab3 and  *)
(* lab7 expect of it.  It answers a command with a text, which TCP or the  *)
(* UNIX socket delivers in pieces, at any time, and may close.             *)
(***************************************************************************)
EXTENDS Naturals, FiniteSets

CONSTANT Pieces  \* how many pieces the puzzle's text comes in

ASSUME PiecesAssumption == Pieces \in Nat \ {0}

VARIABLES
    unsent,  \* pieces the server has still to send, by number
    inbox,   \* pieces that arrived and were not read
    closed   \* the server closed the connection

linkVars == <<unsent, inbox, closed>>

LinkInit == unsent = {} /\ inbox = {} /\ closed = FALSE

Piece == 1..Pieces

(* The server answers with a text of n pieces.                             *)
Answers(n) == unsent' = 1..n /\ UNCHANGED <<inbox, closed>>

Arrives ==
    /\ unsent # {}
    /\ ~closed
    /\ \E p \in unsent :
         /\ \A o \in unsent : p <= o
         /\ unsent' = unsent \ {p}
         /\ inbox' = inbox \cup {p}
    /\ UNCHANGED closed

ServerCloses ==
    /\ ~closed
    /\ closed' = TRUE
    /\ unsent' = {}
    /\ UNCHANGED inbox
============================================================================
