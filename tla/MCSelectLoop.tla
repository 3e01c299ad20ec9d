--------------------------- MODULE MCSelectLoop ---------------------------
(* A small instance of SelectLoop for TLC: what the clients may send.      *)
EXTENDS SelectLoop

CONSTANTS u1, p1

(* Lines that open, use and end a session, and one without effect.         *)
SessionLines ==
    { [op |-> "register", user |-> u1, pass |-> p1],
      [op |-> "login", user |-> u1, pass |-> p1],
      [op |-> "exit"] }
============================================================================
