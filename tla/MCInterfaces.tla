---------------------------- MODULE MCInterfaces ----------------------------
(* Interfaces with room for two interfaces and two addresses of a kind, on *)
(* a computer with three interfaces.                                       *)
EXTENDS Interfaces, TLC

CONSTANTS eth, wlan, tun

MCName  == {eth, wlan, tun}
MCFlags == {{"UP", "RUNNING"}, {"UP"}, {"UP", "RUNNING", "LOOPBACK"}}
MCSymmetry == Permutations(MCName)
=============================================================================
