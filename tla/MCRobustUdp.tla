--------------------------- MODULE MCRobustUdp ---------------------------
(* Small instances of RobustUdp for TLC.                                   *)
EXTENDS RobustUdp, TLC

(* A file of two packets and one of a single packet.                       *)
TwoAndOne == 0 :> 2 @@ 1 :> 1

(* Three files.                                                            *)
TwoOneOne == 0 :> 2 @@ 1 :> 1 @@ 2 :> 1
============================================================================
