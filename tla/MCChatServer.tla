--------------------------- MODULE MCChatServer ---------------------------
(* Small instances of ChatServer for TLC.                                  *)
EXTENDS ChatServer, TLC

(* Descriptors, users, rooms and passwords are interchangeable.            *)
Symmetry ==
    Permutations(Fds) \cup Permutations(Users) \cup Permutations(Rooms)
        \cup Permutations(Passwords)
============================================================================
