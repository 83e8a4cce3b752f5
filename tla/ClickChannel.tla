---------------------------- MODULE ClickChannel ----------------------------
(***************************************************************************)
(* What the handler of stdin promises to the callbacks, without saying how *)
(* it cuts the stream: clicks come whole, one after the other and without  *)
(* a gap. When the process is replaced at most the click that was just     *)
(* being read is lost, unless nobody wanted them.                          *)
(***************************************************************************)
EXTENDS Naturals, Sequences

CONSTANT Click(_)    \* what a callback gets of each click, by its number

VARIABLES sent,      \* the number of clicks written by swaybar
          next,      \* the click that is handed over next
          listening, \* somebody wants them
          got        \* what this process handed over

vars == <<sent, next, listening, got>>

Init == sent = 0 /\ next = 0 /\ listening \in BOOLEAN /\ got = <<>>

Write == sent' = sent + 1 /\ UNCHANGED <<next, listening, got>>

HandOver ==
    /\ listening /\ next < sent
    /\ got' = Append(got, Click(next))
    /\ next' = next + 1
    /\ UNCHANGED <<sent, listening>>

Restart ==
    /\ next' \in next..(IF listening /\ next < sent THEN next + 1 ELSE sent)
    /\ listening' \in BOOLEAN
    /\ got' = <<>>
    /\ UNCHANGED sent

Next == Write \/ HandOver \/ Restart

Spec == Init /\ [][Next]_vars
=============================================================================
