--------------------------- MODULE MCModuleConfig ---------------------------
(* ModuleConfig with one ordinary block and the custom one, any settings.  *)
(* The order may be longer than its buffer, which is larger than the array *)
(* of callbacks, as it is in the program (20 and 12).                      *)
EXTENDS ModuleConfig

CONSTANTS battery, custom, unknown

MCKnown    == {battery, custom}
MCDefault  == <<battery>>
MCSettings == SUBSET {"own", "handler", "callbacks", "extra"}
=============================================================================
