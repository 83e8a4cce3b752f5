---------------------------- MODULE ClickStream ----------------------------
(***************************************************************************)
(* How click events are cut out of stdin. swaybar writes one infinite JSON *)
(* array, one event at a time; the handler of stdin reads a buffer full of *)
(* it, skips what separates the events and feeds the rest to json-c's      *)
(* incremental parser, which keeps an unfinished event until the next call.*)
(* A reload replaces the process at any moment between two calls: what it  *)
(* had read is gone, what it had not read is left to its successor.        *)
(*                                                                         *)
(* The stream is a sequence of tokens known by their positions: "[" and a  *)
(* newline, then for every event the 9 tokens { s : s , s : s } and a      *)
(* newline, with a "," before every event but the first. s stands for any  *)
(* string or number, two pairs for the ten that swaybar sends.             *)
(***************************************************************************)
EXTENDS Naturals, Sequences

CONSTANTS
    Fills,       \* numbers of tokens that may fill the buffer of 4096 bytes
    MaxEvents,   \* bound: events written by swaybar
    MaxReloads   \* bound: reloads

ASSUME StreamAssumption ==
    /\ Fills # {} /\ Fills \subseteq Nat \ {0}
    /\ MaxEvents \in Nat
    /\ MaxReloads \in Nat

(* Positions 0 and 1 open the array; from position 2 on the stream repeats *)
(* itself every 11 tokens.                                                 *)
Period   == 11
Shape    == <<"{", "s", ":", "s", ",", "s", ":", "s", "}", "ws", ",">>
Offset(p) == (p - 2) % Period
TokenAt(p) == CASE p = 0 -> "["
                [] p = 1 -> "ws"
                [] OTHER -> Shape[Offset(p) + 1]

First(e) == 2 + e * Period           \* position of the "{" of event e
Last(e)  == First(e) + 8             \* position of its "}"
Written(e) == IF e = 0 THEN 2 ELSE Last(e - 1) + 2  \* tokens of the first e

VARIABLES
    events,      \* events written by swaybar
    taken,       \* tokens read from stdin, by whichever process
    pc,          \* "poll", "skip", "parse" or "exited"
    handlers,    \* callback_cnt > 0
    first_read,  \* this process has read nothing yet
    blanked,     \* positions overwritten with a space
    i, end,      \* positions of the cursor in the buffer and of its end
    parser,      \* what json-c has seen of the current value
    start,       \* position at which the current value began
    reloads,     \* reloads so far
    origin,      \* observer: the first token left to this process
    dropped,     \* observer: a "," inside an event was skipped
    clicks       \* observer: the first and last tokens of what was delivered

vars == <<events, taken, pc, handlers, first_read, blanked, i, end, parser,
          start, reloads, origin, dropped, clicks>>

Init ==
    /\ events = 0 /\ taken = 0 /\ pc = "poll"
    /\ handlers \in BOOLEAN /\ first_read = TRUE /\ blanked = {}
    /\ i = 0 /\ end = 0
    /\ parser = "start" /\ start = 0
    /\ reloads = 0 /\ origin = 0 /\ dropped = FALSE /\ clicks = <<>>

Seen(p) == IF p \in blanked THEN "ws" ELSE TokenAt(p)

----------------------------------------------------------------------------
(* json-c, as far as the grammar of events goes: "done" is a value that is *)
(* complete, "array" an array that never is, "error" what it rejects.      *)

After(state, token) ==
    CASE token = "ws"                             -> state
      [] state = "array"                          -> "array"
      [] state = "start" /\ token = "{"           -> "object"
      [] state = "start" /\ token = "["           -> "array"
      [] state = "start" /\ token = "s"           -> "done"
      [] state = "object" /\ token = "s"          -> "colon"
      [] state = "object" /\ token = "}"          -> "done"
      [] state = "colon" /\ token = ":"           -> "value"
      [] state = "value" /\ token = "s"           -> "sep"
      [] state = "sep" /\ token = ","             -> "key"
      [] state = "sep" /\ token = "}"             -> "done"
      [] state = "key" /\ token = "s"             -> "colon"
      [] OTHER                                    -> "error"

----------------------------------------------------------------------------
(* The stdin handler *)

Blank_Never(p) == {}
Blank(p) == IF first_read THEN {p} ELSE {}

(* readall: until the buffer is full or the pipe is empty. Without a       *)
(* handler what was read is thrown away, the very first token included.    *)
Read ==
    /\ pc = "poll"
    /\ taken < Written(events)
    /\ \E fill \in Fills :
         end' = IF Written(events) - taken < fill THEN Written(events)
                                                  ELSE taken + fill
    /\ i' = taken /\ taken' = end'
    /\ blanked' = Blank(taken)
    /\ first_read' = FALSE
    /\ pc' = IF handlers THEN "skip" ELSE "poll"
    /\ UNCHANGED <<events, handlers, parser, start, reloads, origin, dropped,
                   clicks>>

Separator(token) == token \in {",", "ws"}

(* The loop over "," and white space, which does not ask the parser where  *)
(* in the stream the buffer begins.                                        *)
SkipSeparator ==
    /\ pc = "skip"
    /\ i < end
    /\ Separator(Seen(i))
    /\ dropped' = (dropped \/ (Seen(i) = "," /\ parser # "start"))
    /\ i' = i + 1
    /\ UNCHANGED <<events, taken, pc, handlers, first_read, blanked, end, parser,
                   start, reloads, origin, clicks>>

CallParser ==
    /\ pc = "skip"
    /\ i < end => ~Separator(Seen(i))
    /\ pc' = "parse"
    /\ start' = IF parser = "start" THEN i ELSE start
    /\ UNCHANGED <<events, taken, handlers, first_read, blanked, i, end, parser,
                   reloads, origin, dropped, clicks>>

Resume_Abandoned == "start"
Resume == parser

Leave_WhenIdleOnly == "skip"
Leave == "poll"

(* The parser has seen all of the buffer and asks for more: the handler    *)
(* returns and the parser keeps what it has.                               *)
NeedMore ==
    /\ pc = "parse"
    /\ i = end
    /\ pc' = Leave
    /\ parser' = Resume
    /\ UNCHANGED <<events, taken, handlers, first_read, blanked, i, end, start,
                   reloads, origin, dropped, clicks>>

Feed ==
    /\ pc = "parse"
    /\ i < end
    /\ After(parser, Seen(i)) \notin {"done", "error"}
    /\ parser' = After(parser, Seen(i))
    /\ i' = i + 1
    /\ UNCHANGED <<events, taken, pc, handlers, first_read, blanked, end, start,
                   reloads, origin, dropped, clicks>>

Processed_OneTooMany == i + 2
Processed == i + 1

IsEvent_AnyValue == TRUE
IsEvent == parser # "start"     \* an object, not a bare string

(* A complete value: an object goes to the callbacks, anything else is     *)
(* ignored. The loop ends with the buffer.                                 *)
Deliver ==
    /\ pc = "parse"
    /\ i < end
    /\ After(parser, Seen(i)) = "done"
    /\ clicks' = IF IsEvent THEN Append(clicks, <<start, i>>) ELSE clicks
    /\ parser' = "start"
    /\ i' = Processed
    /\ pc' = IF i' = end THEN "poll" ELSE "skip"
    /\ UNCHANGED <<events, taken, handlers, first_read, blanked, end, start,
                   reloads, origin, dropped>>

Reject ==
    /\ pc = "parse"
    /\ i < end
    /\ After(parser, Seen(i)) = "error"
    /\ pc' = "exited"
    /\ UNCHANGED <<events, taken, handlers, first_read, blanked, i, end, parser,
                   start, reloads, origin, dropped, clicks>>

----------------------------------------------------------------------------
(* swaybar, and the reload *)

WriteEvent ==
    /\ events < MaxEvents
    /\ events' = events + 1
    /\ UNCHANGED <<taken, pc, handlers, first_read, blanked, i, end, parser,
                   start, reloads, origin, dropped, clicks>>

Left_Flushed == Written(events)
Left == taken     \* exec leaves in the pipe what was not read

(* exec between two calls of the handler; the configuration may change. *)
Reload ==
    /\ pc = "poll"
    /\ reloads < MaxReloads
    /\ reloads' = reloads + 1
    /\ handlers' \in BOOLEAN
    /\ first_read' = TRUE /\ blanked' = {}
    /\ taken' = Left /\ i' = Left /\ end' = Left
    /\ parser' = "start" /\ start' = Left
    /\ origin' = Left /\ dropped' = FALSE /\ clicks' = <<>>
    /\ UNCHANGED <<events, pc>>

Terminated == pc = "exited" /\ UNCHANGED vars

Idle ==   \* every bound is used up and poll() waits for ever
    /\ pc = "poll" /\ taken = Written(events)
    /\ events = MaxEvents /\ reloads = MaxReloads
    /\ UNCHANGED vars

Handler == Read \/ SkipSeparator \/ CallParser \/ NeedMore \/ Feed \/ Deliver \/ Reject

Next == Handler \/ WriteEvent \/ Reload \/ Terminated \/ Idle

Spec == Init /\ [][Next]_vars

(* The handler runs to its end: nothing else happens in this process. *)
FairSpec == Spec /\ WF_vars(Handler)

----------------------------------------------------------------------------
Parsing == {"start", "object", "colon", "value", "sep", "key", "array"}

(* Type correctness; the cursor stays in the buffer. *)
TypeOK ==
    /\ events \in 0..MaxEvents /\ reloads \in 0..MaxReloads
    /\ taken \in 0..Written(events)
    /\ pc \in {"poll", "skip", "parse", "exited"}
    /\ handlers \in BOOLEAN /\ first_read \in BOOLEAN /\ dropped \in BOOLEAN
    /\ blanked \in SUBSET Nat
    /\ i \in 0..end /\ end = taken
    /\ parser \in Parsing
    /\ start \in Nat /\ origin \in 0..taken
    /\ clicks \in Seq(Nat \X Nat)

(* The positions a process may take over from its predecessor and still    *)
(* understand the stream, its first token being blanked: the opening of    *)
(* the array, and the end of an event or what follows it.                  *)
CleanOrigin == origin \in {0, 1} \/ (origin >= 2 /\ Offset(origin) \in {8, 9, 10})

(* Whatever was read in whatever pieces, an object handed to the callbacks *)
(* is one event of swaybar from its first to its last token, and the       *)
(* objects come in the order of the clicks: a reload or a dropped token    *)
(* never makes one event of two halves. DeliversAsPromised says it of the  *)
(* single step, and that there is no gap.                                  *)
ClicksIntact ==
    /\ \A n \in 1..Len(clicks) :
         \E e \in 0..(events - 1) : clicks[n] = <<First(e), Last(e)>>
    /\ \A n \in 1..(Len(clicks) - 1) : clicks[n][2] < clicks[n + 1][1]

Complete == {e \in 0..(events - 1) : First(e) >= origin /\ Last(e) < taken}

(* When the handler has returned, every event that was read completely has *)
(* been delivered, once: a chunk that ends inside an event loses nothing,  *)
(* unless it is cut just before a "," (and then the process stops).        *)
NoClickLost ==
    pc = "poll" /\ handlers /\ CleanOrigin /\ ~dropped
        => \A e \in Complete : \E n \in 1..Len(clicks) :
               clicks[n] = <<First(e), Last(e)>>

(* The process stops over its input only in the two situations the code    *)
(* does not survive: a buffer that begins with a "," inside an event, and  *)
(* a start inside of what its predecessor had left.                        *)
RejectsOnlyCutStream == pc = "exited" => dropped \/ ~CleanOrigin

(* The events whose first token lies before q: the number of the next one. *)
Started(q) == IF q <= 2 THEN 0 ELSE (q + 8) \div Period

Event(e) == <<First(e), Last(e)>>

Channel == INSTANCE ClickChannel WITH
    Click <- Event, sent <- events, listening <- handlers, got <- clicks,
    next <- Started(origin) + Len(clicks)

(* The callbacks get every event from the first one that begins in what    *)
(* was left to the process, without a gap; and a reload loses at most the  *)
(* event that the old process had begun to read (handle_click_events, and  *)
(* the parser that exec throws away).                                      *)
DeliversAsPromised == Channel!Spec

(* One call of the handler comes to an end: every turn of the loop gets    *)
(* further in the buffer.                                                  *)
HandlerReturns == pc \in {"skip", "parse"} ~> pc \in {"poll", "exited"}

(* "If it is not an object, then it is likely that swaystatus reloaded and *)
(* the input isn't completed processed before exec": a reload is survived. *)
ReloadSurvived == pc = "exited" => origin = 0
=============================================================================
