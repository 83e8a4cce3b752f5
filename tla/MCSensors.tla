----------------------------- MODULE MCSensors -----------------------------
(* Sensors on five features: three temperatures with a value, between them *)
(* one without, and a fan. A reading is shown on three lines.              *)
EXTENDS Sensors

MCTemp  == {1, 2, 4, 5}
MCInput == {1, 3, 4, 5}
=============================================================================
