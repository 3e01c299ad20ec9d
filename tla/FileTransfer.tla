--------------------------- MODULE FileTransfer ---------------------------
(***************************************************************************)
(* What the robust UDP pair promises: every file appears at the receiver   *)
(* at most once and as it is at the sender, and the sender ends only when  *)
(* all of them have.  No packets, acknowledgements or faults.              *)
(***************************************************************************)
CONSTANTS
    Files,
    Original,  \* the content of each file at the sender
    NoFile

VARIABLES
    disk,      \* the content of each file at the receiver
    ended      \* the sender ended

Init ==
    /\ disk = [f \in Files |-> NoFile]
    /\ ended = FALSE

Save(f) ==
    /\ disk[f] = NoFile
    /\ disk' = [disk EXCEPT ![f] = Original[f]]
    /\ UNCHANGED ended

End ==
    /\ \A f \in Files : disk[f] = Original[f]
    /\ ended' = TRUE
    /\ UNCHANGED disk

Next == End \/ \E f \in Files : Save(f)

Spec == Init /\ [][Next]_<<disk, ended>>
============================================================================
