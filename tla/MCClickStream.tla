--------------------------- MODULE MCClickStream ---------------------------
(* ClickStream on three events. A buffer takes 6, 7 or 25 tokens, so that  *)
(* the cut falls on every position of an event; or it takes everything.    *)
EXTENDS ClickStream

CutAnywhere == {6, 7, 25}
NeverCut    == {100}
=============================================================================
