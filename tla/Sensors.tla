------------------------------ MODULE Sensors ------------------------------
(***************************************************************************)
(* The sensors block: the chips found by libsensors, the temperature       *)
(* readings fetched from them, and the iterator that shows one reading at  *)
(* a time. The iterator and the Sensor* in the readings point into vectors *)
(* that a reload or a fetch empties and fills again.                       *)
(*                                                                         *)
(* A feature of a chip is known by its position in the order in which the  *)
(* chips and their features are visited; a vector of readings is the set   *)
(* of the positions of the features it was filled from.                    *)
(***************************************************************************)
EXTENDS Naturals, FiniteSets

CONSTANTS
    Features,   \* number of features of all the chips libsensors found
    Temp,       \* those of type TEMP
    Input,      \* those with a readable TEMP_INPUT subfeature
    Interval    \* update_interval of the block, as a number of lines

Position == 1..Features
End      == Features + 1   \* the end iterator

ASSUME SensorsAssumption ==
    /\ Features \in Nat
    /\ Temp \subseteq Position
    /\ Input \subseteq Position
    /\ Interval \in Nat \ {0}

Request == {"update", "reload"}

VARIABLES
    readings,    \* the vector of readings
    live,        \* those whose Sensor* points into the vector of sensors
    reading_it,  \* the reading to show
    cycle_cnt,   \* Base::cycle_cnt
    requested,   \* what click handlers asked for since the last line
    status,      \* "running", "failed" (errx) or "undefined" (wild pointer)
    seen,        \* observer: readings shown since they were fetched
    extra        \* observer: updates since the last fetch beyond one on a line

vars == <<readings, live, reading_it, cycle_cnt, requested, status, seen, extra>>

(* A reading is created for every temperature feature, and removed again   *)
(* when none of its subfeatures gave a value.                              *)
Valid == Temp \cap Input

Init ==
    /\ readings = {} /\ live = {} /\ reading_it = End
    /\ cycle_cnt = Interval - 1
    /\ requested = {} /\ status = "running"
    /\ seen = {} /\ extra = 0

----------------------------------------------------------------------------
(* What the member functions do to the record [readings, live, it, fresh]; *)
(* fresh tells that the readings were fetched anew.                        *)

(* Sensors::reload. The sensors move in memory, the readings are dropped.  *)
Reloaded_ReadingsKept(s) == [s EXCEPT !.live = {}]
Reloaded(s) == [s EXCEPT !.readings = {}, !.live = {}]

Least(S) == CHOOSE p \in S : \A q \in S : p <= q
FirstOf(S) == IF S = {} THEN End ELSE Least(S)

(* Sensors::update, and the iterator put on the first of the readings. *)
Fetched(s) == [readings |-> Valid, live |-> Valid, it |-> FirstOf(Valid),
               fresh |-> TRUE]

(* TemperaturePrinter::update *)
Advanced_FetchesAlways(s) == Fetched(s)
Advanced_KeepsReadings(s) ==
    LET next == FirstOf({p \in s.readings : p > s.it})
    IN  IF next # End THEN [s EXCEPT !.it = next]
        ELSE IF s.readings = {} THEN Fetched(s)
        ELSE [s EXCEPT !.it = FirstOf(s.readings)]
Advanced_TwoByTwo(s) ==
    LET next == FirstOf({p \in s.readings : p > s.it + 1})
    IN  IF next = End THEN Fetched(s) ELSE [s EXCEPT !.it = next]
Advanced(s) ==
    LET next == FirstOf({p \in s.readings : p > s.it})
    IN  IF next = End THEN Fetched(s) ELSE [s EXCEPT !.it = next]

Current == [readings |-> readings, live |-> live, it |-> reading_it, fresh |-> FALSE]

(* Base::update_and_print up to the print: a reload is followed by an      *)
(* update, a request to update and the cycle counter make one more each.   *)
AfterReload(s) == IF "reload" \in requested THEN Advanced(Reloaded(s)) ELSE s
AfterUpdate(s) == IF "update" \in requested THEN Advanced(s) ELSE s
Due_Late == cycle_cnt = Interval
Due == cycle_cnt + 1 = Interval
AfterCycle(s) == IF Due THEN Advanced(s) ELSE s
Updated == AfterCycle(AfterUpdate(AfterReload(Current)))

(* How many updates that are on one line. *)
Count(b) == IF b THEN 1 ELSE 0
Updates  == Count("reload" \in requested) + Count("update" \in requested) + Count(Due)
Extra    == IF Updates = 0 THEN 0 ELSE Updates - 1

(* do_print dereferences the iterator and the Sensor* without a check;     *)
(* nothing is said of the process once one of them was invalid.            *)
UpdateAndPrint ==
    /\ status = "running"
    /\ readings' = Updated.readings
    /\ live' = Updated.live
    /\ reading_it' = Updated.it
    /\ cycle_cnt' = IF Due THEN 0 ELSE cycle_cnt + 1
    /\ requested' = {}
    /\ status' = IF reading_it' \in live' THEN "running" ELSE "undefined"
    /\ seen' = IF Updated.fresh THEN {reading_it'} ELSE seen \cup {reading_it'}
    /\ extra' = IF Updated.fresh THEN Extra ELSE extra + Extra

(* A chip that cannot be read any more is fatal. *)
SensorFails ==
    /\ status = "running"
    /\ Updated.fresh
    /\ Valid # {}
    /\ status' = "failed"
    /\ UNCHANGED <<readings, live, reading_it, cycle_cnt, requested, seen, extra>>

(* A click handler returns a combination of the requests. *)
Click ==
    /\ status = "running"
    /\ \E r \in SUBSET Request : requested' = requested \cup r
    /\ UNCHANGED <<readings, live, reading_it, cycle_cnt, status, seen, extra>>

Terminated == status # "running" /\ UNCHANGED vars

Next == UpdateAndPrint \/ SensorFails \/ Click \/ Terminated

Spec == Init /\ [][Next]_vars

FairSpec == Spec /\ WF_vars(UpdateAndPrint)

----------------------------------------------------------------------------
(* Type correctness. *)
TypeOK ==
    /\ readings \subseteq Valid /\ live \subseteq readings
    /\ reading_it \in 1..End
    /\ cycle_cnt \in 0..(Interval - 1)
    /\ requested \subseteq Request
    /\ status \in {"running", "failed", "undefined"}
    /\ seen \subseteq 1..End /\ extra \in Nat

(* The iterator and the pointers of the readings are good on every line,   *)
(* whatever mix of reloads and updates was asked for before it -- on a     *)
(* computer that has a temperature to show.                                *)
NoWildPointer == status = "undefined" => Valid = {}

(* README, "When all sensors are shown, swaystatus will then update the    *)
(* sensors reading". What a click costs: update() moves the iterator also  *)
(* when a click asked for it, on a line on which a reload or the counter   *)
(* may move it as well. New readings are fetched before all were shown     *)
(* only then, and no more readings are left out than there were additional *)
(* updates (TemperaturePrinter::update, Base::update_and_print). A reload  *)
(* drops the readings whether shown or not.                                *)
AllShownBeforeFetch ==
    [][ UpdateAndPrint /\ Updated.fresh /\ "reload" \notin requested
        => Cardinality(readings \ seen) <= extra + Extra ]_vars

(* "Print one sensor each time and once update_interval is reached, next   *)
(* sensor is shown": when clicks have ceased, no reading is left out for   *)
(* ever, each is on the bar again and again -- unless a chip that cannot   *)
(* be read has ended the process (TemperaturePrinter::update).             *)
Calm == <>[](requested = {})
EveryReadingShown ==
    Calm => \A p \in Valid : []<>(reading_it = p) \/ <>(status # "running")

(* Readings are not shown for ever: once all were shown new ones are       *)
(* fetched, so that the first is shown right after a fetch again and again.*)
FetchedAgain ==
    Calm /\ Valid # {} => []<>(seen = {FirstOf(Valid)}) \/ <>(status # "running")
=============================================================================
