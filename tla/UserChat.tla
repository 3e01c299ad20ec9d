----------------------------- MODULE UserChat -----------------------------
(***************************************************************************)
(* What the chat server promises its users, in their terms: a user is      *)
(* away, in the lobby or in one room; rooms have an owner, a history of    *)
(* clean messages and at most one pin.  No descriptors, no connections, no *)
(* duplicated books: ChatServer is shown to implement this.                *)
(***************************************************************************)
EXTENDS Naturals, Sequences

CONSTANTS
    Users, Passwords, Rooms,
    Texts,       \* message texts without a word of the filter list
    NoUser, NoPassword, NoPin

VARIABLES
    account,     \* the password of each user who registered
    place,       \* "away", "lobby", or the room the user is in
    owner, history, pin

vars == <<account, place, owner, history, pin>>

Init ==
    /\ account = [u \in Users |-> NoPassword]
    /\ place = [u \in Users |-> "away"]
    /\ owner = [r \in Rooms |-> NoUser]
    /\ history = [r \in Rooms |-> <<>>]
    /\ pin = [r \in Rooms |-> NoPin]

Register(u) ==
    /\ account[u] = NoPassword
    /\ \E p \in Passwords : account' = [account EXCEPT ![u] = p]
    /\ UNCHANGED <<place, owner, history, pin>>

Login(u) ==
    /\ account[u] # NoPassword
    /\ place[u] = "away"
    /\ place' = [place EXCEPT ![u] = "lobby"]
    /\ UNCHANGED <<account, owner, history, pin>>

Logout(u) ==
    /\ place[u] = "lobby"
    /\ place' = [place EXCEPT ![u] = "away"]
    /\ UNCHANGED <<account, owner, history, pin>>

Open(u, r) ==
    /\ place[u] = "lobby"
    /\ owner[r] = NoUser
    /\ owner' = [owner EXCEPT ![r] = u]
    /\ place' = [place EXCEPT ![u] = r]
    /\ UNCHANGED <<account, history, pin>>

Enter(u, r) ==
    /\ place[u] = "lobby"
    /\ owner[r] # NoUser
    /\ place' = [place EXCEPT ![u] = r]
    /\ UNCHANGED <<account, owner, history, pin>>

Leave(u) ==
    /\ place[u] \in Rooms
    /\ place' = [place EXCEPT ![u] = "lobby"]
    /\ UNCHANGED <<account, owner, history, pin>>

Close(u, r) ==
    /\ place[u] = "lobby"
    /\ owner[r] = u
    /\ place' = [v \in Users |-> IF place[v] = r THEN "lobby" ELSE place[v]]
    /\ owner' = [owner EXCEPT ![r] = NoUser]
    /\ history' = [history EXCEPT ![r] = <<>>]
    /\ pin' = [pin EXCEPT ![r] = NoPin]
    /\ UNCHANGED account

Say(u, r) ==
    /\ place[u] = r
    /\ \E t \in Texts :
          history' = [history EXCEPT ![r] = Append(@, [user |-> u, text |-> t])]
    /\ UNCHANGED <<account, place, owner, pin>>

Pin(u, r) ==
    /\ place[u] = r
    /\ \E t \in Texts : pin' = [pin EXCEPT ![r] = [user |-> u, text |-> t]]
    /\ UNCHANGED <<account, place, owner, history>>

Unpin(u, r) ==
    /\ place[u] = r
    /\ pin' = [pin EXCEPT ![r] = NoPin]
    /\ UNCHANGED <<account, place, owner, history>>

Next ==
    \E u \in Users :
        \/ Register(u) \/ Login(u) \/ Logout(u) \/ Leave(u)
        \/ \E r \in Rooms :
              Open(u, r) \/ Enter(u, r) \/ Close(u, r) \/ Say(u, r) \/ Pin(u, r) \/ Unpin(u, r)

Spec == Init /\ [][Next]_vars
============================================================================
