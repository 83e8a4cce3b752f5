---------------------------- MODULE MCCallbacks ----------------------------
(* Callbacks with a click handler and an update function whose code is in  *)
(* the configuration under one module name, a print function and a second  *)
(* click handler taken from one function of a file, and a click handler of *)
(* a dynamic library.                                                      *)
EXTENDS Callbacks, TLC

CONSTANTS clicked, updated, printed, filed, native, v1, v2

MCOrder    == <<updated, printed, clicked, native, filed>>
MCLanguage == [c \in Callable |-> IF c = native THEN "dylib" ELSE "python"]
MCRole     == (clicked :> "click") @@ (filed :> "click") @@ (native :> "click")
              @@ (updated :> "update") @@ (printed :> "print")
MCInline   == [c \in Callable |-> c \in {clicked, updated}]
MCSlot     == [c \in Callable |-> IF c \in {clicked, updated} THEN "mine.f"
                                  ELSE IF c = native THEN "lib.f" ELSE "file.f"]
=============================================================================
