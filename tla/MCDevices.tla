----------------------------- MODULE MCDevices -----------------------------
(* Devices with a battery that may come back under its name, a mouse with  *)
(* a battery that is excluded, and a charger. Dir, two devices and a file  *)
(* are four descriptors, and three devices are never more.                 *)
EXTENDS Devices, TLC

CONSTANTS bat, again, mouse, charger

MCNameOf  == (bat :> "BAT0") @@ (again :> "BAT0") @@ (mouse :> "hid") @@ (charger :> "AC")
MCModelOf == (bat :> "5B10") @@ (again :> "45N1") @@ (mouse :> "M705") @@ (charger :> "nullptr")
=============================================================================
