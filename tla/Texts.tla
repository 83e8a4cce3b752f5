------------------------------- MODULE Texts -------------------------------
(* A text is a sequence of words. Quotes, backslashes and the end of a     *)
(* line are words of their own; some words are numbers.                    *)
EXTENDS Naturals

CONSTANT Amount    \* the number each word that is a number stands for

ASSUME TextsAssumption == \A w \in DOMAIN Amount : Amount[w] \in Nat

Quote     == "\""
Backslash == "\\"
Newline   == "\n"
=============================================================================
