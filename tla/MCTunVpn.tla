----------------------------- MODULE MCTunVpn -----------------------------
(* Small instances of TunVpn for TLC.                                      *)
EXTENDS TunVpn

(* One client runs twice, the others once.                                 *)
OneTwice == [c \in Clients |-> IF c = (CHOOSE d \in Clients : TRUE) THEN 2 ELSE 1]
============================================================================
