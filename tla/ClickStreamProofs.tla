------------------------- MODULE ClickStreamProofs -------------------------
(***************************************************************************)
(* Theorems about ClickStream for any sizes of the pieces stdin is read    *)
(* in, any number of events and any number of reloads: no event is torn,   *)
(* lost or delivered twice, and the input is rejected only where it was    *)
(* cut.                                                                    *)
(***************************************************************************)
EXTENDS ClickStream, TLAPS, SequenceTheorems

----------------------------------------------------------------------------
(* Positions *)

LEMMA OffsetOf ==
    ASSUME NEW e \in Nat, NEW k \in 0..10
    PROVE  /\ First(e) \in Nat /\ First(e) + k \in Nat /\ First(e) + k >= 2
           /\ Offset(First(e) + k) = k
  BY DEF Offset, First, Period

(* Each position behind the opening of the array is in one event, or in    *)
(* what separates it from the next.                                        *)
LEMMA Located ==
    ASSUME NEW q \in Nat, q >= 2
    PROVE  \E e \in Nat, k \in 0..10 : q = First(e) + k
  <1> DEFINE e == (q - 2) \div 11
             k == (q - 2) % 11
  <1>1. e \in Nat /\ k \in 0..10 /\ q - 2 = 11 * e + k
    OBVIOUS
  <1> QED
    BY <1>1 DEF First, Period

LEMMA Tokens ==
    ASSUME NEW e \in Nat
    PROVE  /\ TokenAt(First(e)) = "{"
           /\ TokenAt(First(e) + 1) = "s" /\ TokenAt(First(e) + 2) = ":"
           /\ TokenAt(First(e) + 3) = "s" /\ TokenAt(First(e) + 4) = ","
           /\ TokenAt(First(e) + 5) = "s" /\ TokenAt(First(e) + 6) = ":"
           /\ TokenAt(First(e) + 7) = "s" /\ TokenAt(First(e) + 8) = "}"
           /\ TokenAt(First(e) + 9) = "ws" /\ TokenAt(First(e) + 10) = ","
  <1>1. ASSUME NEW k \in 0..10
        PROVE  TokenAt(First(e) + k) = Shape[k + 1]
    <2> DEFINE q == First(e) + k
    <2>1. q \in Nat /\ q >= 2 /\ Offset(q) = k
      BY OffsetOf
    <2> HIDE DEF q
    <2>2. TokenAt(q) = Shape[k + 1]
      BY <2>1 DEF TokenAt
    <2> QED
      BY <2>2 DEF q
  <1>2. TokenAt(First(e)) = Shape[1]
    <2>1. First(e) + 0 = First(e)
      BY DEF First, Period
    <2>2. TokenAt(First(e) + 0) = Shape[0 + 1]
      BY <1>1
    <2> QED
      BY <2>1, <2>2
  <1>3. /\ TokenAt(First(e) + 1) = Shape[2] /\ TokenAt(First(e) + 2) = Shape[3]
        /\ TokenAt(First(e) + 3) = Shape[4] /\ TokenAt(First(e) + 4) = Shape[5]
        /\ TokenAt(First(e) + 5) = Shape[6] /\ TokenAt(First(e) + 6) = Shape[7]
        /\ TokenAt(First(e) + 7) = Shape[8] /\ TokenAt(First(e) + 8) = Shape[9]
        /\ TokenAt(First(e) + 9) = Shape[10] /\ TokenAt(First(e) + 10) = Shape[11]
    BY <1>1
  <1> QED
    BY <1>2, <1>3 DEF Shape

LEMMA TokenKinds ==
    ASSUME NEW q \in Nat
    PROVE  /\ TokenAt(q) \in {"[", "{", "s", ":", ",", "}", "ws"}
           /\ TokenAt(q) = "[" => q = 0
           /\ TokenAt(q) = "{" => \E e \in Nat : q = First(e)
  <1>1. CASE q \in {0, 1}
    BY <1>1 DEF TokenAt
  <1>2. CASE q \notin {0, 1}
    <2>1. PICK e \in Nat, k \in 0..10 : q = First(e) + k
      BY <1>2, Located
    <2>2. First(e) \in Nat /\ First(e) + 0 = First(e)
      BY DEF First, Period
    <2>3. \/ k = 0 \/ k = 1 \/ k = 2 \/ k = 3 \/ k = 4 \/ k = 5 \/ k = 6 \/ k = 7
          \/ k = 8 \/ k = 9 \/ k = 10
      OBVIOUS
    <2>4. /\ TokenAt(First(e) + k) \in {"{", "s", ":", ",", "}", "ws"}
          /\ k # 0 => TokenAt(First(e) + k) # "{"
      <3> DEFINE token(j) == TokenAt(First(e) + j)
      <3>1. /\ token(0) = "{" /\ token(1) = "s" /\ token(2) = ":" /\ token(3) = "s"
            /\ token(4) = "," /\ token(5) = "s" /\ token(6) = ":" /\ token(7) = "s"
            /\ token(8) = "}" /\ token(9) = "ws" /\ token(10) = ","
        BY <2>2, Tokens
      <3> HIDE DEF token
      <3>2. /\ token(k) \in {"{", "s", ":", ",", "}", "ws"}
            /\ k # 0 => token(k) # "{"
        BY <2>3, <3>1
      <3> QED
        BY <3>2 DEF token
    <2>5. k = 0 => q = First(e)
      BY <2>1, <2>2
    <2> QED
      BY <2>1, <2>4, <2>5
  <1> QED
    BY <1>1, <1>2

(* The places in an event at which the parser is in each state. *)
PlacesOf(state) ==
    CASE state = "object" -> {1}
      [] state = "colon"  -> {2, 6}
      [] state = "value"  -> {3, 7}
      [] state = "sep"    -> {4, 8}
      [] state = "key"    -> {5}
      [] OTHER            -> {}

(* The grammar of json-c and that of swaybar agree: a token at its place   *)
(* leads to the next place, the last one completes the event, and the one  *)
(* after a comma is not accepted without it.                               *)
LEMMA OneToken ==
    ASSUME NEW e \in Nat, NEW k \in 1..8, NEW state \in Parsing, k \in PlacesOf(state)
    PROVE  LET next == After(state, TokenAt(First(e) + k))
           IN  /\ k = 8 => next = "done"
               /\ k # 8 => next \in Parsing \ {"start"} /\ k + 1 \in PlacesOf(next)
  <1>1. \/ state = "object" /\ k = 1
        \/ state = "colon" /\ k \in {2, 6}
        \/ state = "value" /\ k \in {3, 7}
        \/ state = "sep" /\ k \in {4, 8}
        \/ state = "key" /\ k = 5
    <2>1. \/ state = "start" \/ state = "object" \/ state = "colon"
          \/ state = "value" \/ state = "sep" \/ state = "key" \/ state = "array"
      BY DEF Parsing
    <2>2. /\ PlacesOf("object") = {1} /\ PlacesOf("colon") = {2, 6}
          /\ PlacesOf("value") = {3, 7} /\ PlacesOf("sep") = {4, 8}
          /\ PlacesOf("key") = {5}
          /\ PlacesOf("start") = {} /\ PlacesOf("array") = {}
      BY DEF PlacesOf
    <2> QED
      BY <2>1, <2>2
  <1>2. CASE state = "object" /\ k = 1
    <2>1. After(state, TokenAt(First(e) + k)) = "colon"
      BY <1>2, Tokens DEF After
    <2> QED
      BY <1>2, <2>1 DEF PlacesOf, Parsing
  <1>3. CASE state = "colon"
    <2>1. After(state, TokenAt(First(e) + k)) = "value" /\ k \in {2, 6}
      BY <1>1, <1>3, Tokens DEF After
    <2> QED
      BY <2>1 DEF PlacesOf, Parsing
  <1>4. CASE state = "value"
    <2>1. After(state, TokenAt(First(e) + k)) = "sep" /\ k \in {3, 7}
      BY <1>1, <1>4, Tokens DEF After
    <2> QED
      BY <2>1 DEF PlacesOf, Parsing
  <1>5. CASE state = "sep" /\ k = 4
    <2>1. After(state, TokenAt(First(e) + k)) = "key"
      BY <1>5, Tokens DEF After
    <2> QED
      BY <1>5, <2>1 DEF PlacesOf, Parsing
  <1>6. CASE state = "sep" /\ k = 8
    <2>1. After(state, TokenAt(First(e) + k)) = "done"
      BY <1>6, Tokens DEF After
    <2> QED
      BY <1>6, <2>1
  <1>7. CASE state = "key"
    <2>1. After(state, TokenAt(First(e) + k)) = "colon" /\ k = 5
      BY <1>1, <1>7, Tokens DEF After
    <2> QED
      BY <2>1 DEF PlacesOf, Parsing
  <1> QED
    BY <1>1, <1>2, <1>3, <1>4, <1>5, <1>6, <1>7

LEMMA CommaMissing ==
    ASSUME NEW e \in Nat
    PROVE  After("sep", TokenAt(First(e) + 5)) = "error"
  BY Tokens DEF After

----------------------------------------------------------------------------
(* The inductive invariant *)

Typed ==
    /\ events \in 0..MaxEvents /\ reloads \in 0..MaxReloads
    /\ taken \in Nat /\ taken <= Written(events)
    /\ pc \in {"poll", "skip", "parse", "exited"}
    /\ handlers \in BOOLEAN /\ first_read \in BOOLEAN /\ dropped \in BOOLEAN
    /\ i \in Nat /\ i <= end /\ end = taken
    /\ parser \in Parsing
    /\ start \in Nat /\ origin \in Nat /\ origin <= taken
    /\ clicks \in Seq(Nat \X Nat)

(* The buffer of a process: what it blanks is its first token, and only    *)
(* with handlers does it look at what it reads.                            *)
BufferInv ==
    /\ blanked \in {{}, {origin}}
    /\ first_read = (taken = origin)
    /\ ~handlers => pc = "poll" /\ parser = "start" /\ ~dropped /\ clicks = <<>>
    /\ handlers => origin <= i /\ (pc = "poll" => i = end)
    /\ pc \in {"skip", "parse"} /\ i = origin => blanked = {origin}

InEvent(e, k) ==
    /\ start = First(e) /\ i = First(e) + k
    /\ k \in IF dropped THEN {5} ELSE PlacesOf(parser)
    /\ dropped => parser = "sep"

(* The parser is in the event that began at start, or between two values.  *)
ParserInv ==
    /\ parser # "start" =>
          /\ origin <= start
          /\ \E e \in Nat, k \in 1..8 : InEvent(e, k)
    /\ dropped => parser # "start"
    /\ pc = "parse" /\ parser = "start" =>
          start = i /\ (i < end => ~Separator(Seen(i)))

(* What the callbacks have got are events, in their order, and all of them *)
(* lie before what the parser works on.                                    *)
Mark == IF parser = "start" THEN i ELSE start
ClicksInv ==
    /\ \A n \in 1..Len(clicks) :
          /\ \E e \in Nat : clicks[n] = <<First(e), Last(e)>>
          /\ clicks[n][2] < Mark
    /\ \A n \in 1..(Len(clicks) - 1) : clicks[n][2] < clicks[n + 1][1]

(* After a clean start the parser is idle only between two events, or on   *)
(* the first token, which is blanked; what lies behind was delivered.      *)
Between(q) == q \in {0, 1, origin} \/ (q >= 2 /\ Offset(q) \in {0, 9, 10})
CleanInv ==
    handlers /\ CleanOrigin =>
       /\ parser = "start" => Between(i)
       /\ ~dropped => \A e \in Nat :
             First(e) >= origin /\ Last(e) < i =>
                \E n \in 1..Len(clicks) : clicks[n] = <<First(e), Last(e)>>
       /\ pc = "exited" => dropped

IInv == Typed /\ BufferInv /\ ParserInv /\ ClicksInv /\ CleanInv

----------------------------------------------------------------------------
(* What the handler finds at its cursor *)

LEMMA LastOf ==
    ASSUME NEW e \in Nat
    PROVE  First(e) \in Nat /\ First(e) >= 2 /\ Last(e) = First(e) + 8 /\ Last(e) \in Nat
  BY DEF First, Last, Period

LEMMA FirstOrder ==
    ASSUME NEW d \in Nat, NEW e \in Nat
    PROVE  /\ First(d) = First(e) => d = e
           /\ \A k \in 0..7 : Last(d) # First(e) + k
  BY DEF First, Last, Period

LEMMA InsideSeen ==
    ASSUME Typed, BufferInv, ParserInv, NEW e \in Nat, NEW k \in 1..8,
           parser # "start", InEvent(e, k)
    PROVE  i # origin /\ Seen(i) = TokenAt(First(e) + k)
  <1>1. First(e) \in Nat /\ origin <= start /\ start = First(e) /\ i = First(e) + k
    BY LastOf DEF ParserInv, InEvent
  <1>2. i # origin
    BY <1>1 DEF Typed
  <1>3. i \notin blanked
    BY <1>2 DEF BufferInv
  <1> QED
    BY <1>1, <1>2, <1>3 DEF Seen

LEMMA OutsideSeen ==
    ASSUME Typed, BufferInv, pc \in {"skip", "parse"}, i < end, Seen(i) # "ws"
    PROVE  /\ i # origin /\ origin < i /\ Seen(i) = TokenAt(i) /\ Seen(i) # "["
           /\ Seen(i) \in {"{", "s", ":", ",", "}"}
           /\ Seen(i) = "{" => \E e \in Nat : i = First(e)
  <1>1. handlers = TRUE /\ origin <= i /\ i \in Nat /\ origin \in Nat
    BY DEF Typed, BufferInv
  <1>2. i # origin
    BY DEF BufferInv, Seen
  <1>3. Seen(i) = TokenAt(i)
    BY <1>2 DEF BufferInv, Seen
  <1>4. i # 0 /\ origin < i
    BY <1>1, <1>2
  <1>5. /\ TokenAt(i) \in {"[", "{", "s", ":", ",", "}", "ws"}
        /\ TokenAt(i) = "[" => i = 0
        /\ TokenAt(i) = "{" => \E e \in Nat : i = First(e)
    BY <1>1, TokenKinds
  <1>6. TokenAt(i) # "[" /\ TokenAt(i) # "ws"
    BY <1>3, <1>4, <1>5
  <1> QED
    BY <1>2, <1>3, <1>4, <1>5, <1>6

(* A parser that is called between two values starts on a "{" if the       *)
(* process started clean.                                                  *)
LEMMA ParserStarts ==
    ASSUME IInv, pc = "parse", parser = "start", i < end
    PROVE  /\ i # origin /\ Seen(i) \in {"{", "s", ":", "}"}
           /\ Seen(i) = "{" => \E e \in Nat : i = First(e)
           /\ CleanOrigin => Seen(i) = "{"
  <1>1. ~Separator(Seen(i)) /\ Seen(i) # "ws" /\ Seen(i) # ","
    BY DEF IInv, ParserInv, Separator
  <1>2. /\ i # origin /\ origin < i /\ Seen(i) = TokenAt(i)
        /\ Seen(i) \in {"{", "s", ":", "}"}
        /\ Seen(i) = "{" => \E e \in Nat : i = First(e)
    BY <1>1, OutsideSeen DEF IInv
  <1>3. ASSUME CleanOrigin  PROVE Seen(i) = "{"
    <2>1. Between(i) /\ i \in Nat
      BY <1>3 DEF IInv, CleanInv, BufferInv, Typed
    <2>2. CASE i \in {0, 1}
      <3>1. origin \in Nat /\ origin < i
        BY <1>2 DEF IInv, Typed
      <3>2. i = 1
        BY <2>2, <3>1
      <3> QED
        BY <1>1, <1>2, <3>2 DEF TokenAt
    <2>3. CASE i >= 2 /\ Offset(i) \in {0, 9, 10}
      <3>1. PICK e \in Nat, k \in 0..10 : i = First(e) + k
        BY <2>1, <2>3, Located
      <3>2. k \in {0, 9, 10}
        BY <2>3, <3>1, OffsetOf
      <3>3. First(e) \in Nat /\ First(e) + 0 = First(e)
        BY LastOf
      <3>4. CASE k = 0
        BY <1>2, <3>1, <3>3, <3>4, Tokens
      <3>5. CASE k = 9
        BY <1>1, <1>2, <3>1, <3>5, Tokens
      <3>6. CASE k = 10
        BY <1>1, <1>2, <3>1, <3>6, Tokens
      <3> QED
        BY <3>2, <3>4, <3>5, <3>6
    <2> QED
      BY <1>2, <2>1, <2>2, <2>3 DEF Between
  <1> QED
    BY <1>2, <1>3

LEMMA NextOffset ==
    ASSUME NEW q \in Nat, q >= 2
    PROVE  /\ Offset(q) \in 0..10
           /\ Offset(q + 1) = IF Offset(q) = 10 THEN 0 ELSE Offset(q) + 1
  BY DEF Offset, Period

LEMMA BetweenNext ==
    ASSUME NEW q \in Nat, Typed, CleanOrigin, Between(q),
           Separator(TokenAt(q)) \/ q = origin
    PROVE  Between(q + 1)
  <1>1. CASE q = 0
    BY <1>1 DEF Between
  <1>2. CASE q = 1
    BY <1>2 DEF Between, Offset, Period
  <1>3. CASE q >= 2 /\ q = origin
    <2>1. Offset(q) \in {8, 9, 10}
      BY <1>3 DEF CleanOrigin
    <2> QED
      BY <1>3, <2>1, NextOffset DEF Between
  <1>4. CASE q >= 2 /\ q # origin
    <2>1. Offset(q) \in {0, 9, 10}
      BY <1>4 DEF Between
    <2>2. Offset(q) # 0
      <3> SUFFICES ASSUME Offset(q) = 0  PROVE FALSE
        OBVIOUS
      <3>1. TokenAt(q) = Shape[1]
        BY <1>4 DEF TokenAt
      <3> QED
        BY <1>4, <3>1 DEF Shape, Separator
    <2> QED
      BY <1>4, <2>1, <2>2, NextOffset DEF Between
  <1> QED
    BY <1>1, <1>2, <1>3, <1>4

LEMMA LastToken ==
    ASSUME Typed, BufferInv, NEW e \in Nat, First(e) >= origin, Last(e) = i
    PROVE  Seen(i) = "}"
  <1>1. First(e) \in Nat /\ i = First(e) + 8 /\ i # origin
    BY LastOf DEF Typed
  <1>2. i \notin blanked
    BY <1>1 DEF BufferInv
  <1> QED
    BY <1>1, <1>2, Tokens DEF Seen

LEMMA ClickEnds ==
    ASSUME ClicksInv, NEW n \in 1..Len(clicks)
    PROVE  clicks[n][2] \in Nat /\ clicks[n][2] < Mark
  <1>1. PICK e \in Nat : clicks[n] = <<First(e), Last(e)>>
    BY DEF ClicksInv
  <1>2. clicks[n][2] = Last(e)
    BY <1>1
  <1>3. Last(e) \in Nat
    BY LastOf
  <1> QED
    BY <1>2, <1>3 DEF ClicksInv

LEMMA WrittenOf ==
    ASSUME NEW n \in Nat
    PROVE  /\ Written(n) \in Nat /\ Written(n) <= Written(n + 1)
           /\ \A e \in Nat : Last(e) < Written(n) => e < n
  BY DEF Written, Last, First, Period

----------------------------------------------------------------------------
(* Every action keeps the invariant *)

(* Between two values the separators are those of swaybar, or the blanked  *)
(* first token; inside an event the only one is the "," at its place 4.    *)
LEMMA SkipStep == ASSUME IInv, SkipSeparator PROVE IInv'
  <1> USE DEF IInv
  <1>1. /\ handlers = TRUE /\ pc = "skip" /\ i < end /\ Separator(Seen(i))
        /\ i \in Nat /\ end \in Nat /\ origin \in Nat /\ origin <= i
        /\ start \in Nat /\ i' = i + 1
    BY DEF SkipSeparator, Typed, BufferInv
  <1>2. UNCHANGED <<events, taken, pc, handlers, first_read, blanked, end,
                    parser, start, reloads, origin, clicks>>
    BY DEF SkipSeparator
  <1>3. dropped' = (dropped \/ (Seen(i) = "," /\ parser # "start"))
    BY DEF SkipSeparator
  <1>4. Typed'
    <2>1. dropped' \in BOOLEAN
      BY <1>3
    <2>2. i' \in Nat /\ i' <= end
      BY <1>1
    <2> QED
      BY <1>2, <2>1, <2>2 DEF Typed
  <1>5. BufferInv'
    <2>1. origin <= i' /\ i' # origin /\ pc # "poll" /\ handlers' = TRUE
      BY <1>1, <1>2
    <2> QED
      BY <1>1, <1>2, <2>1 DEF BufferInv
  <1>6. CASE parser = "start"
    <2>1. dropped = FALSE /\ dropped' = FALSE
      BY <1>3, <1>6 DEF ParserInv, Typed
    <2>2. ParserInv'
      BY <1>1, <1>2, <1>6, <2>1 DEF ParserInv
    <2>3. ClicksInv'
      <3>1. Mark = i /\ Mark' = i + 1
        BY <1>1, <1>2, <1>6 DEF Mark
      <3>2. \A n \in 1..Len(clicks) : \E e \in Nat : clicks[n] = <<First(e), Last(e)>>
        BY DEF ClicksInv
      <3>3. \A n \in 1..Len(clicks) : clicks[n][2] < i + 1
        BY <1>1, <3>1, ClickEnds
      <3> QED
        BY <1>2, <3>1, <3>2, <3>3 DEF ClicksInv
    <2>4. CleanInv'
      <3> SUFFICES ASSUME CleanOrigin
                   PROVE  /\ Between(i)'
                          /\ \A e \in Nat : First(e) >= origin /\ Last(e) < i + 1 =>
                               \E n \in 1..Len(clicks) : clicks[n] = <<First(e), Last(e)>>
        BY <1>1, <1>2, <1>6 DEF CleanInv, CleanOrigin
      <3>1. Between(i + 1)
        <4>1. Separator(TokenAt(i)) \/ i = origin
          BY <1>1 DEF Seen, BufferInv
        <4>2. Between(i)
          BY <1>1, <1>6 DEF CleanInv
        <4> QED
          BY <1>1, <4>1, <4>2, BetweenNext
      <3>2. ASSUME NEW e \in Nat, First(e) >= origin, Last(e) < i + 1
            PROVE  \E n \in 1..Len(clicks) : clicks[n] = <<First(e), Last(e)>>
        <4>1. Last(e) # i
          BY <1>1, <3>2, LastToken DEF Separator
        <4>2. Last(e) < i
          BY <1>1, <3>2, <4>1, LastOf
        <4> QED
          BY <1>1, <2>1, <3>2, <4>2 DEF CleanInv
      <3>3. Between(i)'
        BY <1>1, <1>2, <3>1 DEF Between
      <3> QED
        BY <3>2, <3>3
    <2> QED
      BY <1>4, <1>5, <2>2, <2>3, <2>4
  <1>7. CASE parser # "start"
    <2>1. PICK e \in Nat, k \in 1..8 : InEvent(e, k)
      BY <1>7 DEF ParserInv
    <2>2. Seen(i) = TokenAt(First(e) + k)
      BY <1>7, <2>1, InsideSeen
    <2>3. k = 4
      <3> DEFINE token(j) == TokenAt(First(e) + j)
      <3>1. /\ token(1) = "s" /\ token(2) = ":" /\ token(3) = "s"
            /\ token(5) = "s" /\ token(6) = ":" /\ token(7) = "s" /\ token(8) = "}"
        BY Tokens
      <3>2. token(k) \in {",", "ws"}
        BY <1>1, <2>2 DEF Separator
      <3> HIDE DEF token
      <3>3. k # 1 /\ k # 2 /\ k # 3 /\ k # 5 /\ k # 6 /\ k # 7 /\ k # 8
        BY <3>1, <3>2
      <3> QED
        BY <3>3
    <2>4. parser = "sep" /\ Seen(i) = ","
      <3>1. dropped = FALSE /\ 4 \in PlacesOf(parser)
        BY <2>1, <2>3 DEF InEvent, Typed
      <3>2. parser = "sep"
        BY <3>1 DEF PlacesOf, Parsing, Typed
      <3> QED
        BY <2>2, <2>3, <3>2, Tokens
    <2>5. dropped' = TRUE
      BY <1>3, <1>7, <2>4
    <2>6. \E f \in Nat, j \in 1..8 : InEvent(f, j)'
      <3>1. First(e) \in Nat /\ start = First(e) /\ i = First(e) + 4
        BY <2>1, <2>3, LastOf DEF InEvent
      <3>2. start' = First(e) /\ i' = First(e) + 5
        BY <1>1, <1>2, <3>1
      <3>3. parser' = "sep"
        BY <1>2, <2>4
      <3>4. InEvent(e, 5)'
        BY <2>5, <3>2, <3>3 DEF InEvent
      <3> QED
        BY <3>4
    <2>7. ParserInv'
      BY <1>1, <1>2, <1>7, <2>6 DEF ParserInv
    <2>8. ClicksInv'
      BY <1>2, <1>7 DEF ClicksInv, Mark
    <2>9. CleanInv'
      BY <1>1, <1>2, <1>7, <2>5 DEF CleanInv
    <2> QED
      BY <1>4, <1>5, <2>7, <2>8, <2>9
  <1> QED
    BY <1>6, <1>7

LEMMA CallStep == ASSUME IInv, CallParser PROVE IInv'
  <1> USE DEF IInv
  <1>1. /\ pc = "skip" /\ pc' = "parse" /\ handlers = TRUE
        /\ i < end => ~Separator(Seen(i))
        /\ start' = IF parser = "start" THEN i ELSE start
        /\ UNCHANGED <<events, taken, handlers, first_read, blanked, i, end,
                       parser, reloads, origin, dropped, clicks>>
    BY DEF CallParser, BufferInv, Typed
  <1>2. Typed'
    BY <1>1 DEF Typed
  <1>3. BufferInv'
    BY <1>1 DEF BufferInv
  <1>4. ParserInv'
    <2>1. ASSUME NEW e \in Nat, NEW k \in 1..8, parser # "start", InEvent(e, k)
          PROVE  InEvent(e, k)'
      BY <1>1, <2>1 DEF InEvent
    <2> QED
      BY <1>1, <2>1 DEF ParserInv, Seen
  <1>5. ClicksInv'
    BY <1>1 DEF ClicksInv, Mark
  <1>6. CleanInv'
    BY <1>1 DEF CleanInv, CleanOrigin, Between
  <1> QED
    BY <1>2, <1>3, <1>4, <1>5, <1>6

LEMMA NeedMoreStep == ASSUME IInv, NeedMore PROVE IInv'
  <1> USE DEF IInv
  <1>1. /\ pc = "parse" /\ i = end /\ pc' = "poll" /\ parser' = parser
        /\ UNCHANGED <<events, taken, handlers, first_read, blanked, i, end, start,
                       reloads, origin, dropped, clicks>>
    BY DEF NeedMore, Leave, Resume
  <1>2. Typed'
    BY <1>1 DEF Typed
  <1>3. BufferInv'
    BY <1>1 DEF BufferInv
  <1>4. ParserInv'
    <2>1. ASSUME NEW e \in Nat, NEW k \in 1..8, InEvent(e, k)
          PROVE  InEvent(e, k)'
      BY <1>1, <2>1 DEF InEvent
    <2> QED
      BY <1>1, <2>1 DEF ParserInv
  <1>5. ClicksInv'
    BY <1>1 DEF ClicksInv, Mark
  <1>6. CleanInv'
    BY <1>1 DEF CleanInv, CleanOrigin, Between
  <1> QED
    BY <1>2, <1>3, <1>4, <1>5, <1>6

(* Inside an event a token leads to the next place; what a skipped comma   *)
(* leaves behind is an error.                                              *)
LEMMA InsideToken ==
    ASSUME Typed, BufferInv, ParserInv, parser # "start", pc = "parse",
           After(parser, Seen(i)) # "error"
    PROVE  /\ dropped = FALSE
           /\ \E e \in Nat, k \in 1..8 :
                 /\ start = First(e) /\ i = First(e) + k /\ First(e) \in Nat
                 /\ k = 8 => After(parser, Seen(i)) = "done"
                 /\ k # 8 => /\ After(parser, Seen(i)) \in Parsing \ {"start"}
                             /\ k + 1 \in PlacesOf(After(parser, Seen(i)))
  <1>1. PICK e \in Nat, k \in 1..8 : InEvent(e, k)
    BY DEF ParserInv
  <1>2. Seen(i) = TokenAt(First(e) + k)
    BY <1>1, InsideSeen
  <1>3. dropped = FALSE
    <2> SUFFICES ASSUME dropped = TRUE  PROVE FALSE
      BY DEF Typed
    <2>1. k = 5 /\ parser = "sep"
      BY <1>1 DEF InEvent
    <2>2. After(parser, Seen(i)) = "error"
      BY <1>2, <2>1, CommaMissing
    <2> QED
      BY <2>2
  <1>4. /\ start = First(e) /\ i = First(e) + k /\ First(e) \in Nat
        /\ k \in PlacesOf(parser) /\ parser \in Parsing
    BY <1>1, <1>3, LastOf DEF InEvent, Typed
  <1> DEFINE next == After(parser, Seen(i))
  <1>5. /\ k = 8 => next = "done"
        /\ k # 8 => next \in Parsing \ {"start"} /\ k + 1 \in PlacesOf(next)
    BY <1>2, <1>4, OneToken
  <1> QED
    BY <1>3, <1>4, <1>5

LEMMA FeedStep == ASSUME IInv, Feed PROVE IInv'
  <1> USE DEF IInv
  <1> DEFINE next == After(parser, Seen(i))
  <1>1. /\ pc = "parse" /\ handlers = TRUE /\ i < end
        /\ i \in Nat /\ end \in Nat /\ origin \in Nat /\ origin <= i /\ i' = i + 1
    BY DEF Feed, Typed, BufferInv
  <1>2. UNCHANGED <<events, taken, pc, handlers, first_read, blanked, end, start,
                    reloads, origin, dropped, clicks>>
    BY DEF Feed
  <1>3. next # "done" /\ next # "error" /\ parser' = next
    BY DEF Feed
  <1> HIDE DEF next
  <1>4. /\ dropped = FALSE
        /\ \E e \in Nat, k \in 1..8 :
              /\ start = First(e) /\ i + 1 = First(e) + k /\ First(e) \in Nat
              /\ next \in Parsing \ {"start"} /\ k \in PlacesOf(next)
        /\ origin <= start
        /\ parser = "start" => i = start
    <2>1. CASE parser = "start"
      <3>1. start = i /\ dropped = FALSE
        BY <1>1, <2>1 DEF ParserInv, Typed
      <3>2. /\ Seen(i) \in {"{", "s", ":", "}"}
            /\ Seen(i) = "{" => \E e \in Nat : i = First(e)
        BY <1>1, <2>1, ParserStarts
      <3>3. Seen(i) = "{" /\ next = "object"
        BY <1>3, <2>1, <3>2 DEF After, next
      <3>4. PICK e \in Nat : i = First(e)
        BY <3>2, <3>3
      <3>5. next \in Parsing \ {"start"} /\ 1 \in PlacesOf(next)
        BY <3>3 DEF Parsing, PlacesOf
      <3> QED
        BY <1>1, <3>1, <3>4, <3>5
    <2>2. CASE parser # "start"
      <3>1. PICK e \in Nat, k \in 1..8 :
                 /\ start = First(e) /\ i = First(e) + k /\ First(e) \in Nat
                 /\ k = 8 => next = "done"
                 /\ k # 8 => next \in Parsing \ {"start"} /\ k + 1 \in PlacesOf(next)
        BY <1>1, <1>3, <2>2, InsideToken DEF next
      <3>2. dropped = FALSE
        BY <1>1, <1>3, <2>2, InsideToken DEF next
      <3>3. k # 8
        BY <1>3, <3>1
      <3>4. k + 1 \in 1..8 /\ i + 1 = First(e) + (k + 1)
        BY <1>1, <3>1, <3>3
      <3> QED
        BY <2>2, <3>1, <3>2, <3>3, <3>4 DEF ParserInv
    <2> QED
      BY <2>1, <2>2
  <1>5. PICK e \in Nat, k \in 1..8 :
             /\ start = First(e) /\ i + 1 = First(e) + k /\ First(e) \in Nat
             /\ next \in Parsing \ {"start"} /\ k \in PlacesOf(next)
    BY <1>4
  <1>6. parser' # "start" /\ parser' \in Parsing /\ dropped' = FALSE /\ start' = start
    BY <1>2, <1>3, <1>4, <1>5
  <1>7. Typed'
    BY <1>1, <1>2, <1>6 DEF Typed
  <1>8. BufferInv'
    <2>1. origin <= i' /\ i' # origin /\ pc # "poll" /\ handlers' = TRUE
      BY <1>1, <1>2
    <2> QED
      BY <1>1, <1>2, <2>1 DEF BufferInv
  <1>9. ParserInv'
    <2>1. start' = First(e) /\ i' = First(e) + k /\ k \in PlacesOf(parser')
      BY <1>1, <1>2, <1>3, <1>5
    <2>2. InEvent(e, k)'
      BY <1>6, <2>1 DEF InEvent
    <2>3. \E f \in Nat, j \in 1..8 : InEvent(f, j)'
      BY <2>2
    <2>4. origin' <= start'
      BY <1>2, <1>4
    <2> QED
      BY <1>6, <2>3, <2>4 DEF ParserInv
  <1>10. ClicksInv'
    <2>1. Mark' = Mark
      BY <1>4, <1>6 DEF Mark
    <2> QED
      BY <1>2, <2>1 DEF ClicksInv
  <1>11. CleanInv'
    <2> SUFFICES ASSUME CleanOrigin, NEW f \in Nat, First(f) >= origin, Last(f) < i + 1
                 PROVE  \E n \in 1..Len(clicks) : clicks[n] = <<First(f), Last(f)>>
      BY <1>1, <1>2, <1>6 DEF CleanInv, CleanOrigin
    <2>1. Last(f) # i
      <3>1. k - 1 \in 0..7 /\ i = First(e) + (k - 1)
        BY <1>1, <1>5
      <3> QED
        BY <3>1, FirstOrder
    <2>2. Last(f) < i
      BY <1>1, <2>1, LastOf
    <2> QED
      BY <1>1, <1>4, <2>2 DEF CleanInv
  <1> QED
    BY <1>7, <1>8, <1>9, <1>10, <1>11

(* A value is complete at the last token of an event, or it is a bare      *)
(* string, which only a process meets that started inside an event.        *)
LEMMA DeliverStep == ASSUME IInv, Deliver PROVE IInv'
  <1> USE DEF IInv
  <1>1. /\ pc = "parse" /\ handlers = TRUE /\ i < end
        /\ i \in Nat /\ end \in Nat /\ origin \in Nat /\ origin <= i /\ i' = i + 1
    BY DEF Deliver, Typed, BufferInv, Processed
  <1>2. UNCHANGED <<events, taken, handlers, first_read, blanked, end, start,
                    reloads, origin, dropped>>
    BY DEF Deliver
  <1>3. parser' = "start" /\ pc' = IF i' = end THEN "poll" ELSE "skip"
    BY DEF Deliver
  <1>4. After(parser, Seen(i)) = "done"
    BY DEF Deliver
  <1>5. dropped = FALSE
    BY <1>1, <1>4, InsideToken DEF ParserInv, Typed
  <1>6. BufferInv'
    <2>1. /\ origin <= i' /\ i' # origin /\ handlers' = TRUE
          /\ pc' = "poll" => i' = end'
      BY <1>1, <1>2, <1>3
    <2> QED
      BY <1>1, <1>2, <1>3, <2>1 DEF BufferInv
  <1>7. ParserInv'
    <2>1. dropped' = FALSE /\ pc' # "parse"
      BY <1>2, <1>3, <1>5
    <2> QED
      BY <1>3, <2>1 DEF ParserInv
  <1>8. pc' \in {"poll", "skip", "parse", "exited"} /\ pc' # "exited" /\ i' \in Nat /\ i' <= end
        /\ Mark' = i + 1
    BY <1>1, <1>3 DEF Mark
  <1>9. CASE parser = "start"
    <2>1. clicks' = clicks
      BY <1>9 DEF Deliver, IsEvent
    <2>2. Mark = i
      BY <1>9 DEF Mark
    <2>3. ~CleanOrigin
      <3> SUFFICES ASSUME CleanOrigin  PROVE FALSE
        OBVIOUS
      <3>1. Seen(i) = "{"
        BY <1>1, <1>9, ParserStarts
      <3> QED
        BY <1>4, <1>9, <3>1 DEF After
    <2>4. Typed'
      BY <1>2, <1>3, <1>8, <2>1 DEF Typed, Parsing
    <2>5. ClicksInv'
      <3>1. \A n \in 1..Len(clicks) : \E e \in Nat : clicks[n] = <<First(e), Last(e)>>
        BY DEF ClicksInv
      <3>2. \A n \in 1..Len(clicks) : clicks[n][2] < i + 1
        BY <1>1, <2>2, ClickEnds
      <3> QED
        BY <1>8, <2>1, <3>1, <3>2 DEF ClicksInv
    <2>6. CleanInv'
      BY <1>2, <2>3 DEF CleanInv, CleanOrigin
    <2> QED
      BY <1>6, <1>7, <2>4, <2>5, <2>6
  <1>10. CASE parser # "start"
    <2>1. PICK e \in Nat, k \in 1..8 :
               /\ start = First(e) /\ i = First(e) + k /\ First(e) \in Nat
               /\ k # 8 => After(parser, Seen(i)) \in Parsing \ {"start"}
      BY <1>1, <1>4, <1>10, InsideToken
    <2>2. k = 8
      BY <1>4, <2>1 DEF Parsing
    <2>3. i = Last(e)
      BY <2>1, <2>2, LastOf
    <2>4. clicks' = Append(clicks, <<First(e), Last(e)>>)
      BY <1>10, <2>1, <2>3 DEF Deliver, IsEvent
    <2>5. clicks \in Seq(Nat \X Nat) /\ <<First(e), Last(e)>> \in Nat \X Nat
      BY <1>1, <2>1, <2>3 DEF Typed
    <2> DEFINE new == <<First(e), Last(e)>>
    <2>6. new[1] = start /\ new[2] = i
      BY <2>1, <2>3
    <2> HIDE DEF new
    <2>7. /\ clicks' \in Seq(Nat \X Nat) /\ Len(clicks) \in Nat
          /\ Len(clicks') = Len(clicks) + 1
          /\ \A n \in 1..Len(clicks) : clicks'[n] = clicks[n]
          /\ clicks'[Len(clicks) + 1] = new
      BY <2>4, <2>5 DEF new
    <2>8. Typed'
      BY <1>2, <1>3, <1>8, <2>7 DEF Typed, Parsing
    <2>9. ClicksInv'
      <3>1. \A n \in 1..Len(clicks) : clicks[n][2] < start
        BY <1>10 DEF ClicksInv, Mark
      <3>2. ASSUME NEW n \in 1..Len(clicks')
            PROVE  /\ \E d \in Nat : clicks'[n] = <<First(d), Last(d)>>
                   /\ clicks'[n][2] < Mark'
        <4>1. CASE n = Len(clicks) + 1
          <5>1. clicks'[n] = <<First(e), Last(e)>>
            BY <2>7, <4>1 DEF new
          <5>2. clicks'[n][2] < Mark'
            BY <1>1, <1>8, <2>6, <2>7, <4>1
          <5> QED
            BY <5>1, <5>2
        <4>2. CASE n # Len(clicks) + 1
          <5>1. n \in 1..Len(clicks) /\ clicks'[n] = clicks[n]
            BY <2>7, <4>2
          <5>2. PICK d \in Nat : clicks[n] = <<First(d), Last(d)>>
            BY <5>1 DEF ClicksInv
          <5>3. clicks[n][2] \in Nat
            BY <5>1, ClickEnds
          <5>4. clicks[n][2] < start
            BY <3>1, <5>1
          <5>5. clicks'[n][2] < Mark'
            BY <1>1, <1>8, <2>1, <2>2, <5>1, <5>3, <5>4
          <5> QED
            BY <5>1, <5>2, <5>5
        <4> QED
          BY <4>1, <4>2
      <3>3. ASSUME NEW n \in 1..(Len(clicks') - 1)
            PROVE  clicks'[n][2] < clicks'[n + 1][1]
        <4>1. n \in 1..Len(clicks) /\ clicks'[n] = clicks[n]
          BY <2>7
        <4>2. CASE n = Len(clicks)
          BY <2>6, <2>7, <3>1, <4>1, <4>2
        <4>3. CASE n # Len(clicks)
          <5>1. n \in 1..(Len(clicks) - 1) /\ n + 1 \in 1..Len(clicks)
            <6>1. Len(clicks) \in Nat /\ n \in 1..Len(clicks)
              BY <2>7, <4>1
            <6> QED
              BY <4>3, <6>1
          <5>2. clicks[n][2] < clicks[n + 1][1]
            BY <5>1 DEF ClicksInv
          <5>3. clicks'[n + 1] = clicks[n + 1]
            BY <2>7, <5>1
          <5> QED
            BY <4>1, <5>2, <5>3
        <4> QED
          BY <4>2, <4>3
      <3> QED
        BY <3>2, <3>3 DEF ClicksInv
    <2>10. CleanInv'
      <3> SUFFICES ASSUME CleanOrigin
                   PROVE  /\ Between(i)'
                          /\ \A f \in Nat : First(f) >= origin /\ Last(f) < i + 1 =>
                               \E n \in 1..Len(clicks') : clicks'[n] = <<First(f), Last(f)>>
        BY <1>1, <1>2, <1>8 DEF CleanInv, CleanOrigin
      <3>1. Between(i)'
        <4>1. i' \in Nat /\ i' >= 2 /\ i' = First(e) + 9
          BY <1>1, <2>1, <2>2, LastOf
        <4>2. Offset(i') = 9
          BY <4>1, OffsetOf
        <4> QED
          BY <4>1, <4>2 DEF Between, Offset, Period
      <3>2. ASSUME NEW f \in Nat, First(f) >= origin, Last(f) < i + 1
            PROVE  \E n \in 1..Len(clicks') : clicks'[n] = <<First(f), Last(f)>>
        <4>1. CASE Last(f) = i
          <5>1. First(f) = First(e) /\ Last(f) = Last(e)
            BY <2>3, <4>1, LastOf
          <5>2. Len(clicks) + 1 \in 1..Len(clicks')
            BY <2>7
          <5> QED
            BY <2>7, <5>1, <5>2 DEF new
        <4>2. CASE Last(f) # i
          <5>1. Last(f) < i
            BY <1>1, <3>2, <4>2, LastOf
          <5>2. PICK n \in 1..Len(clicks) : clicks[n] = <<First(f), Last(f)>>
            BY <1>1, <1>5, <3>2, <5>1 DEF CleanInv
          <5>3. n \in 1..Len(clicks') /\ clicks'[n] = clicks[n]
            BY <2>7
          <5> QED
            BY <5>2, <5>3
        <4> QED
          BY <4>1, <4>2
      <3> QED
        BY <3>1, <3>2
    <2> QED
      BY <1>6, <1>7, <2>8, <2>9, <2>10
  <1> QED
    BY <1>9, <1>10

LEMMA RejectStep == ASSUME IInv, Reject PROVE IInv'
  <1> USE DEF IInv
  <1>1. pc = "parse" /\ handlers = TRUE /\ i < end /\ pc' = "exited"
    BY DEF Reject, Typed, BufferInv
  <1>2. UNCHANGED <<events, taken, handlers, first_read, blanked, i, end, parser,
                    start, reloads, origin, dropped, clicks>>
    BY DEF Reject
  <1>3. After(parser, Seen(i)) = "error"
    BY DEF Reject
  <1>4. Typed'
    BY <1>1, <1>2 DEF Typed
  <1>5. BufferInv'
    BY <1>1, <1>2 DEF BufferInv
  <1>6. ParserInv'
    <2>1. ASSUME NEW e \in Nat, NEW k \in 1..8, InEvent(e, k)
          PROVE  InEvent(e, k)'
      BY <1>2, <2>1 DEF InEvent
    <2> QED
      BY <1>1, <1>2, <2>1 DEF ParserInv
  <1>7. ClicksInv'
    BY <1>2 DEF ClicksInv, Mark
  <1>8. CleanInv'
    <2> SUFFICES ASSUME CleanOrigin, dropped = FALSE  PROVE FALSE
      BY <1>1, <1>2 DEF CleanInv, CleanOrigin, Between, Typed
    <2>1. CASE parser = "start"
      <3>1. Seen(i) = "{"
        BY <1>1, <2>1, ParserStarts
      <3> QED
        BY <1>3, <2>1, <3>1 DEF After
    <2>2. CASE parser # "start"
      <3>1. PICK e \in Nat, k \in 1..8 : InEvent(e, k)
        BY <2>2 DEF ParserInv
      <3>2. Seen(i) = TokenAt(First(e) + k)
        BY <2>2, <3>1, InsideSeen
      <3>3. k \in PlacesOf(parser) /\ parser \in Parsing
        BY <3>1 DEF InEvent, Typed
      <3>4. After(parser, TokenAt(First(e) + k)) \in Parsing \cup {"done"}
        BY <3>3, OneToken
      <3> QED
        BY <1>3, <3>2, <3>4 DEF Parsing
    <2> QED
      BY <2>1, <2>2
  <1> QED
    BY <1>4, <1>5, <1>6, <1>7, <1>8

(* A call begins where the one before it ended; only its first one blanks. *)
LEMMA ReadStep == ASSUME IInv, Read PROVE IInv'
  <1> USE DEF IInv
  <1>1. PICK fill \in Fills :
           end' = IF Written(events) - taken < fill THEN Written(events) ELSE taken + fill
    BY DEF Read
  <1>2. /\ pc = "poll" /\ taken < Written(events) /\ i' = taken /\ taken' = end'
        /\ UNCHANGED <<events, handlers, parser, start, reloads, origin, dropped,
                       clicks>>
    BY DEF Read
  <1>3. /\ fill \in Nat /\ fill > 0 /\ taken \in Nat /\ origin \in Nat /\ origin <= taken
        /\ events \in Nat /\ Written(events) \in Nat /\ end = taken
    BY StreamAssumption, WrittenOf DEF Typed
  <1>4. end' \in Nat /\ end' > taken /\ end' <= Written(events)
    BY <1>1, <1>2, <1>3
  <1>5. /\ pc' = IF handlers THEN "skip" ELSE "poll"
        /\ first_read' = FALSE /\ blanked' = IF first_read THEN {taken} ELSE {}
    BY DEF Read, Blank
  <1>6. /\ taken' \in Nat /\ taken' <= Written(events') /\ end' = taken'
        /\ i' \in Nat /\ i' <= end' /\ origin <= taken'
        /\ first_read' \in BOOLEAN
    <2>1. events' = events /\ taken' = end' /\ i' = taken
      BY <1>2
    <2>2. first_read' \in BOOLEAN
      BY <1>5
    <2> QED
      BY <1>3, <1>4, <2>1, <2>2
  <1>7. CASE handlers = FALSE
    <2>1. /\ pc' = "poll" /\ handlers' = FALSE /\ parser = "start"
          /\ dropped = FALSE /\ clicks = <<>>
      BY <1>2, <1>5, <1>7 DEF BufferInv, Typed
    <2>2. taken' # origin
      BY <1>2, <1>3, <1>4
    <2>3. blanked' \in {{}, {origin}}
      BY <1>5 DEF BufferInv, Typed
    <2>4. Typed'
      BY <1>2, <1>6, <2>1 DEF Typed
    <2>5. BufferInv'
      BY <1>2, <1>5, <2>1, <2>2, <2>3 DEF BufferInv
    <2>6. ParserInv'
      BY <1>2, <2>1 DEF ParserInv
    <2>7. ClicksInv'
      <3>1. Len(clicks') = 0
        BY <1>2, <2>1
      <3> QED
        BY <3>1 DEF ClicksInv
    <2>8. CleanInv'
      BY <2>1 DEF CleanInv
    <2> QED
      BY <2>4, <2>5, <2>6, <2>7, <2>8
  <1>8. CASE handlers = TRUE
    <2>1. pc' = "skip" /\ handlers' = TRUE /\ i = taken
      BY <1>2, <1>3, <1>5, <1>8 DEF BufferInv
    <2>2. taken' # origin
      BY <1>2, <1>3, <1>4
    <2>3. blanked' \in {{}, {origin}}
      BY <1>5 DEF BufferInv, Typed
    <2>4. taken = origin => blanked' = {origin}
      BY <1>5 DEF BufferInv, Typed
    <2>5. Typed'
      BY <1>2, <1>6, <2>1 DEF Typed
    <2>6. BufferInv'
      BY <1>2, <1>3, <1>5, <2>1, <2>2, <2>3, <2>4 DEF BufferInv
    <2>7. i' = i
      BY <1>2, <2>1
    <2>8. ParserInv'
      <3>1. ASSUME NEW e \in Nat, NEW k \in 1..8, InEvent(e, k)
            PROVE  InEvent(e, k)'
        BY <1>2, <2>7, <3>1 DEF InEvent
      <3> QED
        BY <1>2, <2>1, <2>7, <3>1 DEF ParserInv
    <2>9. ClicksInv'
      BY <1>2, <2>7 DEF ClicksInv, Mark
    <2>10. CleanInv'
      BY <1>2, <1>8, <2>1, <2>7 DEF CleanInv, CleanOrigin, Between
    <2> QED
      BY <2>5, <2>6, <2>8, <2>9, <2>10
  <1> QED
    BY <1>7, <1>8 DEF Typed

LEMMA WriteStep == ASSUME IInv, WriteEvent PROVE IInv'
  <1> USE DEF IInv
  <1>1. /\ events < MaxEvents /\ events' = events + 1
        /\ UNCHANGED <<taken, pc, handlers, first_read, blanked, i, end, parser,
                       start, reloads, origin, dropped, clicks>>
    BY DEF WriteEvent
  <1>2. Typed'
    <2>1. events \in Nat /\ events \in 0..MaxEvents /\ taken \in Nat /\ taken <= Written(events)
      BY DEF Typed
    <2>2. Written(events) \in Nat /\ Written(events + 1) \in Nat
          /\ Written(events) <= Written(events + 1)
      BY <2>1, WrittenOf
    <2>3. taken' <= Written(events') /\ events' \in 0..MaxEvents
      BY <1>1, <2>1, <2>2, StreamAssumption
    <2> QED
      BY <1>1, <2>3 DEF Typed
  <1>3. BufferInv'
    BY <1>1 DEF BufferInv
  <1>4. ParserInv'
    <2>1. ASSUME NEW e \in Nat, NEW k \in 1..8, InEvent(e, k)
          PROVE  InEvent(e, k)'
      BY <1>1, <2>1 DEF InEvent
    <2> QED
      BY <1>1, <2>1 DEF ParserInv, Seen
  <1>5. ClicksInv'
    BY <1>1 DEF ClicksInv, Mark
  <1>6. CleanInv'
    BY <1>1 DEF CleanInv, CleanOrigin, Between
  <1> QED
    BY <1>2, <1>3, <1>4, <1>5, <1>6

LEMMA ReloadStep == ASSUME IInv, Reload PROVE IInv'
  <1> USE DEF IInv
  <1>1. /\ pc = "poll" /\ pc' = "poll" /\ reloads < MaxReloads /\ reloads' = reloads + 1
        /\ events' = events /\ taken' = taken
        /\ i' = taken /\ end' = taken /\ start' = taken /\ origin' = taken
        /\ parser' = "start" /\ blanked' = {} /\ clicks' = <<>>
    BY DEF Reload, Left
  <1>2. handlers' \in BOOLEAN /\ first_read' = TRUE /\ dropped' = FALSE
    BY DEF Reload
  <1>3. taken \in Nat /\ reloads' \in 0..MaxReloads /\ Len(clicks') = 0
    BY <1>1, StreamAssumption DEF Typed
  <1>4. Typed'
    <2>1. /\ events' \in 0..MaxEvents /\ taken' \in Nat /\ taken' <= Written(events')
          /\ i' \in Nat /\ i' <= end' /\ end' = taken'
          /\ start' \in Nat /\ origin' \in Nat /\ origin' <= taken'
      BY <1>1, <1>3 DEF Typed
    <2>2. pc' = "poll" /\ parser' \in Parsing
      BY <1>1 DEF Parsing
    <2>3. first_read' \in BOOLEAN /\ dropped' \in BOOLEAN
      BY <1>2
    <2>4. clicks' \in Seq(Nat \X Nat)
      BY <1>1
    <2> QED
      BY <1>2, <1>3, <2>1, <2>2, <2>3, <2>4 DEF Typed
  <1>5. BufferInv'
    <2>1. first_read' = (taken' = origin')
      BY <1>1, <1>2
    <2>2. origin' <= i' /\ i' = end'
      BY <1>1, <1>3
    <2> QED
      BY <1>1, <1>2, <2>1, <2>2 DEF BufferInv
  <1>6. ParserInv'
    BY <1>1, <1>2 DEF ParserInv
  <1>7. ClicksInv'
    BY <1>3 DEF ClicksInv
  <1>8. CleanInv'
    <2>1. ASSUME NEW e \in Nat, First(e) >= origin', Last(e) < i'  PROVE FALSE
      BY <1>1, <1>3, <2>1, LastOf
    <2>2. Between(i)'
      BY <1>1 DEF Between
    <2> QED
      BY <1>1, <2>1, <2>2 DEF CleanInv
  <1> QED
    BY <1>4, <1>5, <1>6, <1>7, <1>8

----------------------------------------------------------------------------
(* The theorems *)

LEMMA InitInvariant == Init => IInv
  <1> SUFFICES ASSUME Init  PROVE IInv
    OBVIOUS
  <1>1. /\ events = 0 /\ taken = 0 /\ i = 0 /\ end = 0 /\ start = 0 /\ origin = 0
        /\ reloads = 0 /\ pc = "poll" /\ parser = "start" /\ blanked = {}
        /\ clicks = <<>> /\ Len(clicks) = 0
    BY DEF Init
  <1>2. handlers \in BOOLEAN /\ first_read = TRUE /\ dropped = FALSE
    BY DEF Init
  <1>3. Typed
    <2>1. /\ events \in 0..MaxEvents /\ reloads \in 0..MaxReloads
          /\ taken <= Written(events) /\ parser \in Parsing
      BY <1>1, StreamAssumption DEF Written, Parsing
    <2>2. first_read \in BOOLEAN /\ dropped \in BOOLEAN
      BY <1>2
    <2>3. clicks \in Seq(Nat \X Nat)
      BY <1>1
    <2> QED
      BY <1>1, <1>2, <2>1, <2>2, <2>3 DEF Typed
  <1>4. BufferInv /\ ParserInv
    <2>1. first_read = (taken = origin)
      BY <1>1, <1>2
    <2> QED
      BY <1>1, <1>2, <2>1 DEF BufferInv, ParserInv
  <1>5. ClicksInv
    BY <1>1 DEF ClicksInv
  <1>6. CleanInv
    <2>1. ASSUME NEW e \in Nat, Last(e) < i  PROVE FALSE
      BY <1>1, <2>1, LastOf
    <2> QED
      BY <1>1, <2>1 DEF CleanInv, Between
  <1> QED
    BY <1>3, <1>4, <1>5, <1>6 DEF IInv

LEMMA NextInvariant == IInv /\ [Next]_vars => IInv'
  <1> SUFFICES ASSUME IInv, [Next]_vars  PROVE IInv'
    OBVIOUS
  <1>1. CASE Handler
    BY <1>1, SkipStep, CallStep, NeedMoreStep, FeedStep, DeliverStep, RejectStep, ReadStep
       DEF Handler
  <1>2. CASE WriteEvent \/ Reload
    BY <1>2, WriteStep, ReloadStep
  <1>3. CASE UNCHANGED vars
    <2>1. /\ UNCHANGED <<events, taken, pc, handlers, first_read, blanked, i>>
          /\ UNCHANGED <<end, parser, start, reloads, origin, dropped, clicks>>
      BY <1>3 DEF vars
    <2>2. Typed' /\ BufferInv'
      BY <2>1 DEF IInv, Typed, BufferInv
    <2>3. ParserInv'
      <3>1. ASSUME NEW e \in Nat, NEW k \in 1..8, InEvent(e, k)
            PROVE  InEvent(e, k)'
        BY <2>1, <3>1 DEF InEvent
      <3> QED
        BY <2>1, <3>1 DEF IInv, ParserInv, Seen
    <2>4. ClicksInv' /\ CleanInv'
      BY <2>1 DEF IInv, ClicksInv, Mark, CleanInv, CleanOrigin, Between
    <2> QED
      BY <2>2, <2>3, <2>4 DEF IInv
  <1> QED
    BY <1>1, <1>2, <1>3 DEF Next, Terminated, Idle

(* The inductive invariant: how the buffer lies on the stream, where the   *)
(* parser is inside an event, and what was delivered before it.            *)
THEOREM Invariant == Spec => []IInv
  BY InitInvariant, NextInvariant, PTL DEF Spec

(* Type correctness, and the cursor of the stdin handler stays in the      *)
(* buffer whatever pieces the stream comes in.                             *)
THEOREM TypeCorrect == Spec => []TypeOK
  <1>1. IInv => TypeOK
    <2> SUFFICES ASSUME IInv  PROVE TypeOK
      OBVIOUS
    <2>1. events \in Nat /\ Written(events) \in Nat
      BY WrittenOf DEF IInv, Typed
    <2>2. taken \in 0..Written(events) /\ i \in 0..end /\ origin \in 0..taken
      BY <2>1 DEF IInv, Typed
    <2>3. blanked \in SUBSET Nat
      BY DEF IInv, Typed, BufferInv
    <2> QED
      BY <2>2, <2>3 DEF IInv, Typed, TypeOK
  <1> QED
    BY <1>1, Invariant, PTL

(* An object that the parser hands to the callbacks is one event of        *)
(* swaybar from its first to its last token, and the objects come in the   *)
(* order of the clicks, over any reloads, chunks and dropped tokens.       *)
THEOREM NoEventTorn == Spec => []ClicksIntact
  <1>1. IInv => ClicksIntact
    <2> SUFFICES ASSUME IInv  PROVE ClicksIntact
      OBVIOUS
    <2>1. Mark <= i /\ Mark \in Nat
      <3>1. CASE parser = "start"
        BY <3>1 DEF Mark, IInv, Typed
      <3>2. CASE parser # "start"
        <4>1. PICK e \in Nat, k \in 1..8 : InEvent(e, k)
          BY <3>2 DEF IInv, ParserInv
        <4>2. First(e) \in Nat /\ start = First(e) /\ i = First(e) + k
          BY <4>1, LastOf DEF InEvent
        <4> QED
          BY <3>2, <4>2 DEF Mark
      <3> QED
        BY <3>1, <3>2
    <2>2. /\ events \in Nat /\ i \in Nat /\ Written(events) \in Nat
          /\ i <= Written(events)
      BY WrittenOf DEF IInv, Typed
    <2>3. ASSUME NEW n \in 1..Len(clicks)
          PROVE  \E e \in 0..(events - 1) : clicks[n] = <<First(e), Last(e)>>
      <3>1. PICK e \in Nat : clicks[n] = <<First(e), Last(e)>>
        BY DEF IInv, ClicksInv
      <3>2. clicks[n][2] = Last(e)
        BY <3>1
      <3>3. clicks[n][2] < Mark
        BY DEF IInv, ClicksInv
      <3>4. Last(e) \in Nat /\ Last(e) < Written(events)
        <4>1. Last(e) \in Nat
          BY <3>1, LastOf
        <4>2. Last(e) < Mark
          BY <3>2, <3>3, Zenon
        <4>3. i \in Nat /\ i <= Written(events) /\ Written(events) \in Nat
          BY <2>2
        <4> QED
          BY <2>1, <4>1, <4>2, <4>3
      <3>5. e \in 0..(events - 1)
        BY <2>2, <3>1, <3>4, WrittenOf
      <3> QED
        BY <3>1, <3>5
    <2> QED
      BY <2>3 DEF IInv, ClicksInv, ClicksIntact
  <1> QED
    BY <1>1, Invariant, PTL

(* When the handler of stdin has returned in a process that started clean, *)
(* every event that was read completely has been delivered, whatever       *)
(* pieces it came in, unless a piece ended just before a "," inside it.    *)
THEOREM AllClicksDelivered == Spec => []NoClickLost
  <1>1. IInv => NoClickLost
    <2> SUFFICES ASSUME IInv, pc = "poll", handlers, CleanOrigin, ~dropped,
                        NEW e \in Complete
                 PROVE  \E n \in 1..Len(clicks) : clicks[n] = <<First(e), Last(e)>>
      BY DEF NoClickLost
    <2>1. e \in Nat /\ First(e) >= origin /\ Last(e) < taken
      BY DEF Complete, IInv, Typed
    <2>2. i = taken
      BY DEF IInv, Typed, BufferInv
    <2> QED
      BY <2>1, <2>2 DEF IInv, CleanInv
  <1> QED
    BY <1>1, Invariant, PTL

(* The process stops over its input only when a piece began with a ","     *)
(* inside an event, or when it started inside of what its predecessor had  *)
(* left in the pipe.                                                       *)
THEOREM StopsOnlyOnCutStream == Spec => []RejectsOnlyCutStream
  <1>1. IInv => RejectsOnlyCutStream
    <2> SUFFICES ASSUME IInv, pc = "exited", CleanOrigin  PROVE dropped
      BY DEF RejectsOnlyCutStream
    <2>1. handlers = TRUE
      BY DEF IInv, BufferInv, Typed
    <2> QED
      BY <2>1 DEF IInv, CleanInv
  <1> QED
    BY <1>1, Invariant, PTL

----------------------------------------------------------------------------
(* The handler keeps the promise of ClickChannel *)

(* Of a process that started clean: an idle parser has every event behind  *)
(* the cursor delivered, a parser inside an event is in the next one.      *)
InTurn ==
    handlers /\ CleanOrigin =>
       IF parser = "start" THEN Started(i) = Started(origin) + Len(clicks)
       ELSE start = First(Started(origin) + Len(clicks))

(* A process that started inside of an event never leaves it.              *)
Stuck ==
    handlers /\ ~CleanOrigin =>
       /\ parser = "start" /\ clicks = <<>>
       /\ \E e \in Nat : First(e) <= origin /\ origin < Last(e) /\ i <= Last(e)

ChannelInv == InTurn /\ Stuck

LEMMA StartedOf ==
    ASSUME NEW e \in Nat
    PROVE  /\ Started(First(e)) = e
           /\ \A k \in 1..11 : Started(First(e) + k) = e + 1
  <1>1. Started(First(e)) = e
    BY DEF Started, First, Period
  <1>2. ASSUME NEW k \in 1..11  PROVE Started(First(e) + k) = e + 1
    <2>1. First(e) + k > 2 /\ First(e) + k + 8 = 11 * e + 10 + k
      BY DEF First, Period
    <2>2. (11 * e + 10 + k) \div 11 = e + 1
      OBVIOUS
    <2>3. First(e) + k \in Nat
      BY LastOf
    <2>4. Started(First(e) + k) = (First(e) + k + 8) \div 11
      BY <2>1, <2>3 DEF Started, Period
    <2> QED
      BY <2>1, <2>2, <2>4
  <1> QED
    BY <1>1, <1>2

LEMMA StartedType ==
    ASSUME NEW q \in Nat
    PROVE  Started(q) \in Nat
  BY DEF Started, Period

LEMMA StartedGrows ==
    ASSUME NEW p \in Nat, NEW q \in Nat, p <= q
    PROVE  Started(p) <= Started(q)
  BY DEF Started, Period

(* What is written is no further than the events. *)
LEMMA StartedWritten ==
    ASSUME NEW n \in Nat, NEW q \in Nat, q <= Written(n)
    PROVE  Started(q) <= n
  BY DEF Started, Written, Last, First, Period

(* Where a process starts that does not start clean: before the end of an  *)
(* event.                                                                  *)
LEMMA StartsInside ==
    ASSUME NEW q \in Nat, q >= 2, Offset(q) \notin {8, 9, 10}
    PROVE  \E e \in Nat : First(e) <= q /\ q < Last(e)
  <1>1. PICK e \in Nat, k \in 0..10 : q = First(e) + k
    BY Located
  <1>2. Offset(q) = k
    BY <1>1, OffsetOf
  <1>3. k < 8
    BY <1>2
  <1>4. First(e) \in Nat /\ Last(e) = First(e) + 8
    BY LastOf
  <1> QED
    BY <1>1, <1>3, <1>4

LEMMA ChannelInvInit == Init => ChannelInv
  <1> SUFFICES ASSUME Init  PROVE ChannelInv
    OBVIOUS
  <1>1. origin = 0 /\ i = 0 /\ parser = "start" /\ clicks = <<>>
    BY DEF Init
  <1>2. CleanOrigin
    BY <1>1 DEF CleanOrigin
  <1>3. Len(clicks) = 0 /\ Started(0) = 0
    BY <1>1 DEF Started
  <1> QED
    BY <1>1, <1>2, <1>3 DEF ChannelInv, InTurn, Stuck

(* Of a step that leaves the parser idle and goes on behind a token that   *)
(* begins no event.                                                        *)
LEMMA PassedOver ==
    ASSUME NEW q \in Nat, \A e \in Nat : q # First(e)
    PROVE  Started(q + 1) = Started(q)
  <1>1. CASE q < 2
    <2>1. q + 1 <= 2
      BY <1>1
    <2> QED
      BY <1>1, <2>1 DEF Started
  <1>2. CASE q >= 2
    <2>1. PICK e \in Nat, k \in 0..10 : q = First(e) + k
      BY <1>2, Located
    <2>2. k # 0 /\ First(e) \in Nat
      BY <2>1, LastOf
    <2>3. k \in 1..11 /\ k + 1 \in 1..11 /\ q + 1 = First(e) + (k + 1)
      BY <2>1, <2>2
    <2> QED
      BY <2>1, <2>3, StartedOf
  <1> QED
    BY <1>1, <1>2

StuckIn(e) == First(e) <= origin /\ origin < Last(e) /\ i <= Last(e)

LEMMA StuckPlace ==
    ASSUME IInv, NEW e \in Nat, StuckIn(e)
    PROVE  /\ i = Last(e) => i # origin
           /\ i # Last(e) => i + 1 <= Last(e)
  <1>1. origin \in Nat /\ i \in Nat
    BY DEF IInv, Typed
  <1>2. Last(e) \in Nat
    BY LastOf
  <1> QED
    BY <1>1, <1>2 DEF StuckIn

(* In the event a process started in, what is no error is a string, a comma *)
(* or the blanked token, never the last one.                               *)
LEMMA StuckToken ==
    ASSUME IInv, Seen(i) \in {"s", ",", "ws"}, NEW e \in Nat, StuckIn(e)
    PROVE  i + 1 <= Last(e)
  <1>1. i # Last(e)
    <2> SUFFICES ASSUME i = Last(e)  PROVE FALSE
      OBVIOUS
    <2>1. i # origin
      BY StuckPlace
    <2>2. Seen(i) = TokenAt(First(e) + 8)
      BY <2>1, LastOf DEF Seen, IInv, BufferInv
    <2>3. TokenAt(First(e) + 8) = "}"
      BY Tokens
    <2> QED
      BY <2>2, <2>3
  <1> QED
    BY <1>1, StuckPlace

(* The steps that move neither the cursor nor the end of what was handed   *)
(* over.                                                                   *)
LEMMA ChannelKept ==
    ASSUME ChannelInv, UNCHANGED <<handlers, origin, parser, i, clicks>>,
           parser # "start" => start' = start
    PROVE  ChannelInv'
  BY DEF ChannelInv, InTurn, Stuck, CleanOrigin

LEMMA ChannelSkip == ASSUME IInv, ChannelInv, SkipSeparator PROVE ChannelInv'
  <1>1. /\ handlers = TRUE /\ pc = "skip" /\ i < end /\ Seen(i) \in {",", "ws"}
        /\ i \in Nat /\ i' = i + 1
    BY DEF SkipSeparator, Separator, IInv, Typed, BufferInv
  <1>2. UNCHANGED <<handlers, parser, start, origin, clicks>>
    BY DEF SkipSeparator
  <1>3. InTurn'
    <2> SUFFICES ASSUME CleanOrigin, parser = "start"
                 PROVE  Started(i + 1) = Started(origin) + Len(clicks)
      BY <1>1, <1>2 DEF ChannelInv, InTurn, CleanOrigin
    <2>1. Started(i) = Started(origin) + Len(clicks)
      BY <1>1 DEF ChannelInv, InTurn
    <2>2. ASSUME NEW e \in Nat, i = First(e)  PROVE FALSE
      <3>1. i # origin
        <4>1. First(e) + 0 = First(e) /\ First(e) >= 2 /\ Offset(First(e) + 0) = 0
          BY LastOf, OffsetOf
        <4> QED
          BY <2>2, <4>1 DEF CleanOrigin
      <3>2. Seen(i) = "{"
        BY <2>2, <3>1, Tokens DEF Seen, IInv, BufferInv
      <3> QED
        BY <1>1, <3>2
    <2> QED
      BY <1>1, <2>1, <2>2, PassedOver
  <1>4. Stuck'
    <2> SUFFICES ASSUME ~CleanOrigin
                 PROVE  \E e \in Nat : First(e) <= origin /\ origin < Last(e) /\ i + 1 <= Last(e)
      BY <1>1, <1>2 DEF ChannelInv, Stuck, CleanOrigin
    <2>1. PICK e \in Nat : First(e) <= origin /\ origin < Last(e) /\ i <= Last(e)
      BY <1>1 DEF ChannelInv, Stuck
    <2> QED
      BY <1>1, <2>1, StuckToken DEF StuckIn
  <1> QED
    BY <1>3, <1>4 DEF ChannelInv

LEMMA ChannelFeed == ASSUME IInv, ChannelInv, Feed PROVE ChannelInv'
  <1>1. /\ handlers = TRUE /\ pc = "parse" /\ i < end
        /\ i \in Nat /\ i' = i + 1
        /\ After(parser, Seen(i)) \notin {"done", "error"}
        /\ parser' = After(parser, Seen(i))
    BY DEF Feed, IInv, Typed, BufferInv
  <1>2. UNCHANGED <<handlers, start, origin, clicks>>
    BY DEF Feed
  <1>3. CASE parser = "start"
    <2>1. /\ start = i /\ Seen(i) \in {"{", "s", ":", "}"}
          /\ Seen(i) = "{" => \E e \in Nat : i = First(e)
      BY <1>1, <1>3, ParserStarts DEF IInv, ParserInv
    <2>2. Seen(i) = "{" /\ parser' = "object"
      BY <1>1, <1>3, <2>1 DEF After
    <2>3. PICK e \in Nat : i = First(e)
      BY <2>1, <2>2
    <2>4. Started(i) = e
      BY <2>3, StartedOf
    <2>5. CleanOrigin
      <3> SUFFICES ASSUME ~CleanOrigin  PROVE FALSE
        OBVIOUS
      <3>1. PICK d \in Nat : First(d) <= origin /\ origin < Last(d) /\ i <= Last(d)
        BY <1>1 DEF ChannelInv, Stuck
      <3>2. origin <= i /\ i # origin
        BY <1>1, <1>3, ParserStarts DEF IInv, BufferInv
      <3>3. origin \in Nat /\ First(d) < i
        BY <1>1, <3>1, <3>2, LastOf DEF IInv, Typed
      <3> QED
        BY <2>3, <3>1, <3>3 DEF First, Last, Period
    <2>6. start = First(Started(origin) + Len(clicks))
      BY <1>1, <1>3, <2>1, <2>3, <2>4, <2>5 DEF ChannelInv, InTurn
    <2>7. InTurn' /\ Stuck'
      BY <1>1, <1>2, <2>2, <2>5, <2>6 DEF InTurn, Stuck, CleanOrigin
    <2> QED
      BY <2>7 DEF ChannelInv
  <1>4. CASE parser # "start"
    <2>1. CleanOrigin
      BY <1>1, <1>4 DEF ChannelInv, Stuck
    <2>2. parser' # "start"
      BY <1>1, <1>4, InsideToken DEF IInv
    <2>3. start = First(Started(origin) + Len(clicks))
      BY <1>1, <1>4, <2>1 DEF ChannelInv, InTurn
    <2>4. InTurn' /\ Stuck'
      BY <1>1, <1>2, <2>1, <2>2, <2>3 DEF InTurn, Stuck, CleanOrigin
    <2> QED
      BY <2>4 DEF ChannelInv
  <1> QED
    BY <1>3, <1>4

(* What is handed over is the next event as a whole.                       *)
LEMMA HandedOver ==
    ASSUME IInv, ChannelInv, Deliver, parser # "start"
    PROVE  LET e == Started(origin) + Len(clicks)
           IN  /\ e \in Nat /\ i = Last(e) /\ clicks' = Append(clicks, Event(e))
               /\ CleanOrigin
  <1>1. /\ handlers = TRUE /\ pc = "parse" /\ After(parser, Seen(i)) = "done"
    BY DEF Deliver, IInv, Typed, BufferInv
  <1>2. PICK e \in Nat, k \in 1..8 :
             /\ start = First(e) /\ i = First(e) + k
             /\ k # 8 => After(parser, Seen(i)) \in Parsing \ {"start"}
    BY <1>1, InsideToken DEF IInv
  <1>3. k = 8 /\ i = Last(e)
    BY <1>1, <1>2, LastOf DEF Parsing
  <1>4. CleanOrigin /\ start = First(Started(origin) + Len(clicks))
    BY <1>1 DEF ChannelInv, Stuck, InTurn
  <1>5. Started(origin) + Len(clicks) \in Nat
    <2>1. origin \in Nat /\ Len(clicks) \in Nat
      BY LenProperties DEF IInv, Typed
    <2> QED
      BY <2>1, StartedType
  <1>6. e = Started(origin) + Len(clicks)
    BY <1>2, <1>4, <1>5, FirstOrder
  <1>7. clicks' = Append(clicks, <<start, i>>)
    BY DEF Deliver, IsEvent
  <1> QED
    BY <1>2, <1>3, <1>4, <1>5, <1>6, <1>7 DEF Event

LEMMA ChannelDeliver == ASSUME IInv, ChannelInv, Deliver PROVE ChannelInv'
  <1>1. /\ handlers = TRUE /\ pc = "parse" /\ i < end /\ i \in Nat /\ i' = i + 1
        /\ parser' = "start" /\ After(parser, Seen(i)) = "done"
    BY DEF Deliver, Processed, IInv, Typed, BufferInv
  <1>2. UNCHANGED <<handlers, start, origin>>
    BY DEF Deliver
  <1>3. CASE parser = "start"
    <2>1. /\ Seen(i) \in {"{", "s", ":", "}"} /\ CleanOrigin => Seen(i) = "{"
      BY <1>1, <1>3, ParserStarts
    <2>2. Seen(i) = "s" /\ ~CleanOrigin
      BY <1>1, <1>3, <2>1 DEF After
    <2>3. clicks' = clicks
      BY <1>3 DEF Deliver, IsEvent
    <2>4. clicks = <<>> /\ \E e \in Nat : First(e) <= origin /\ origin < Last(e) /\ i <= Last(e)
      BY <1>1, <2>2 DEF ChannelInv, Stuck
    <2>5. \E e \in Nat : First(e) <= origin /\ origin < Last(e) /\ i + 1 <= Last(e)
      BY <1>1, <2>2, <2>4, StuckToken DEF StuckIn
    <2> QED
      BY <1>1, <1>2, <2>2, <2>3, <2>4, <2>5 DEF ChannelInv, InTurn, Stuck, CleanOrigin
  <1>4. CASE parser # "start"
    <2>1. PICK e \in Nat :
             /\ e = Started(origin) + Len(clicks) /\ i = Last(e) /\ CleanOrigin
             /\ clicks' = Append(clicks, Event(e))
      BY <1>4, HandedOver
    <2>2. Len(clicks') = Len(clicks) + 1 /\ Len(clicks) \in Nat
      <3>1. clicks \in Seq(Nat \X Nat)
        BY DEF IInv, Typed
      <3>2. Event(e) \in Nat \X Nat
        BY LastOf DEF Event
      <3> QED
        BY <2>1, <3>1, <3>2, AppendProperties, LenProperties
    <2>3. i + 1 = First(e) + 9
      BY <2>1, LastOf
    <2>4. Started(i + 1) = e + 1
      BY <2>3, StartedOf
    <2>5. Started(origin) \in Nat
      BY StartedType DEF IInv, Typed
    <2>6. Started(i + 1) = Started(origin) + Len(clicks')
      BY <2>1, <2>2, <2>4, <2>5
    <2> QED
      BY <1>1, <1>2, <2>1, <2>6 DEF ChannelInv, InTurn, Stuck, CleanOrigin
  <1> QED
    BY <1>3, <1>4

LEMMA ChannelReload == ASSUME IInv, Reload PROVE ChannelInv'
  <1>1. /\ i' = taken /\ origin' = taken /\ parser' = "start" /\ clicks' = <<>>
        /\ taken' = taken
    BY DEF Reload, Left
  <1>2. InTurn'
    <2>1. Started(taken) \in Nat /\ Len(<<>>) = 0
      BY StartedType DEF IInv, Typed
    <2> QED
      BY <1>1, <2>1 DEF InTurn
  <1>3. Stuck'
    <2> SUFFICES ASSUME ~CleanOrigin'
                 PROVE  \E e \in Nat : First(e) <= taken /\ taken < Last(e) /\ taken <= Last(e)
      BY <1>1 DEF Stuck
    <2>1. taken \in Nat /\ taken >= 2 /\ Offset(taken) \notin {8, 9, 10}
      BY <1>1 DEF CleanOrigin, IInv, Typed
    <2>2. PICK e \in Nat : First(e) <= taken /\ taken < Last(e)
      BY <2>1, StartsInside
    <2>3. taken <= Last(e)
      BY <2>1, <2>2, LastOf
    <2> QED
      BY <2>2, <2>3
  <1> QED
    BY <1>2, <1>3 DEF ChannelInv

LEMMA ChannelRead == ASSUME IInv, ChannelInv, Read PROVE ChannelInv'
  <1>1. UNCHANGED <<handlers, parser, start, origin, clicks>> /\ i' = taken /\ pc = "poll"
    BY DEF Read
  <1>2. handlers => i = taken
    BY <1>1 DEF IInv, Typed, BufferInv
  <1>3. CASE handlers
    BY <1>1, <1>2, <1>3, ChannelKept
  <1>4. CASE ~handlers
    BY <1>1, <1>4 DEF ChannelInv, InTurn, Stuck
  <1> QED
    BY <1>3, <1>4

LEMMA ChannelInvNext == IInv /\ ChannelInv /\ [Next]_vars => ChannelInv'
  <1> SUFFICES ASSUME IInv, ChannelInv, [Next]_vars  PROVE ChannelInv'
    OBVIOUS
  <1>1. CASE CallParser
    BY <1>1, ChannelKept DEF CallParser
  <1>2. CASE NeedMore
    BY <1>2, ChannelKept DEF NeedMore, Resume
  <1>3. CASE Reject
    BY <1>3, ChannelKept DEF Reject
  <1>4. CASE WriteEvent
    BY <1>4, ChannelKept DEF WriteEvent
  <1>5. CASE UNCHANGED vars
    <2>1. UNCHANGED <<handlers, origin, parser, i, clicks, start>>
      BY <1>5 DEF vars
    <2> QED
      BY <2>1, ChannelKept
  <1> QED
    BY <1>1, <1>2, <1>3, <1>4, <1>5, ChannelSkip, ChannelFeed, ChannelDeliver, ChannelReload,
       ChannelRead DEF Next, Handler, Terminated, Idle

(* The next event is the one the channel hands over: the invariant of the  *)
(* refinement.                                                             *)
THEOREM ChannelInvariant == Spec => []ChannelInv
  BY Invariant, ChannelInvInit, ChannelInvNext, PTL DEF Spec

LEMMA ChannelInit == Init => Channel!Init
  <1> SUFFICES ASSUME Init  PROVE Channel!Init
    OBVIOUS
  <1>1. events = 0 /\ origin = 0 /\ clicks = <<>> /\ handlers \in BOOLEAN
    BY DEF Init
  <1>2. Started(0) = 0 /\ Len(<<>>) = 0
    BY DEF Started
  <1> QED
    BY <1>1, <1>2 DEF Channel!Init

(* At the end of a call the parser is in the next event or in none.        *)
LEMMA LeftToSuccessor ==
    ASSUME IInv, ChannelInv, pc = "poll"
    PROVE  LET next == Started(origin) + Len(clicks)
           IN  /\ next \in Nat /\ Started(taken) \in Nat
               /\ next <= Started(taken) /\ Started(taken) <= events
               /\ handlers => Started(taken) <= next + 1
  <1>1. /\ origin \in Nat /\ taken \in Nat /\ origin <= taken /\ events \in Nat
        /\ taken <= Written(events) /\ Len(clicks) \in Nat
    BY LenProperties DEF IInv, Typed
  <1>2. /\ Started(origin) \in Nat /\ Started(taken) \in Nat
        /\ Started(origin) <= Started(taken) /\ Started(taken) <= events
    BY <1>1, StartedType, StartedGrows, StartedWritten
  <1> DEFINE next == Started(origin) + Len(clicks)
  <1>3. next \in Nat
    BY <1>1, <1>2
  <1>4. handlers => i = taken
    BY DEF IInv, Typed, BufferInv
  <1>5. CASE ~handlers
    <2>1. Len(clicks) = 0
      BY <1>5 DEF IInv, BufferInv
    <2> QED
      BY <1>2, <1>5, <2>1
  <1>6. CASE handlers /\ CleanOrigin /\ parser = "start"
    BY <1>2, <1>3, <1>4, <1>6 DEF ChannelInv, InTurn
  <1>7. CASE handlers /\ CleanOrigin /\ parser # "start"
    <2>1. PICK e \in Nat, k \in 1..8 : InEvent(e, k)
      BY <1>7 DEF IInv, ParserInv
    <2>2. start = First(e) /\ taken = First(e) + k
      BY <1>4, <1>7, <2>1 DEF InEvent
    <2>3. Started(taken) = e + 1
      BY <2>2, StartedOf
    <2>4. e = next
      BY <1>3, <1>7, <2>2, FirstOrder DEF ChannelInv, InTurn
    <2> QED
      BY <1>2, <1>3, <2>3, <2>4
  <1>8. CASE handlers /\ ~CleanOrigin
    <2>1. PICK e \in Nat : First(e) <= origin /\ origin < Last(e) /\ taken <= Last(e)
      BY <1>4, <1>8 DEF ChannelInv, Stuck
    <2>2. Len(clicks) = 0
      BY <1>8 DEF ChannelInv, Stuck
    <2>3. /\ First(e) \in Nat /\ Last(e) \in Nat /\ Last(e) = First(e) + 8
          /\ Started(First(e)) = e /\ Started(First(e) + 8) = e + 1
      BY LastOf, StartedOf
    <2>4. e <= Started(origin) /\ Started(taken) <= e + 1
      BY <1>1, <2>1, <2>3, StartedGrows
    <2> QED
      BY <1>2, <2>2, <2>4
  <1> QED
    BY <1>5, <1>6, <1>7, <1>8

LEMMA ChannelStep ==
    IInv /\ ChannelInv /\ [Next]_vars => [Channel!Next]_(Channel!vars)
  <1> SUFFICES ASSUME IInv, ChannelInv, [Next]_vars  PROVE [Channel!Next]_(Channel!vars)
    OBVIOUS
  <1> USE DEF Channel!vars
  <1>1. CASE UNCHANGED <<events, origin, handlers, clicks>>
    BY <1>1
  <1>2. CASE WriteEvent
    <2>1. Channel!Write
      BY <1>2 DEF WriteEvent, Channel!Write
    <2> QED
      BY <2>1 DEF Channel!Next
  <1>3. CASE Deliver
    <2>1. UNCHANGED <<events, origin, handlers>> /\ handlers = TRUE
      BY <1>3 DEF Deliver, IInv, Typed, BufferInv
    <2>2. CASE parser = "start"
      <3>1. clicks' = clicks
        BY <1>3, <2>2 DEF Deliver, IsEvent
      <3> QED
        BY <1>1, <2>1, <3>1
    <2>3. CASE parser # "start"
      <3>1. PICK e \in Nat :
               /\ e = Started(origin) + Len(clicks) /\ i = Last(e)
               /\ clicks' = Append(clicks, Event(e))
        BY <1>3, <2>3, HandedOver
      <3>2. e < events
        <4>1. i < end /\ end = taken /\ taken <= Written(events) /\ events \in Nat
              /\ i \in Nat /\ taken \in Nat
          BY <1>3 DEF Deliver, IInv, Typed
        <4>2. Written(events) \in Nat /\ (Last(e) < Written(events) => e < events)
          BY <4>1, WrittenOf
        <4>3. Last(e) < Written(events)
          BY <3>1, <4>1, <4>2
        <4> QED
          BY <4>2, <4>3
      <3>3. Len(clicks') = Len(clicks) + 1 /\ Len(clicks) \in Nat
        <4>1. clicks \in Seq(Nat \X Nat)
          BY DEF IInv, Typed
        <4>2. Event(e) \in Nat \X Nat
          BY LastOf DEF Event
        <4> QED
          BY <3>1, <4>1, <4>2, AppendProperties, LenProperties
      <3>4. Started(origin) \in Nat
        BY StartedType DEF IInv, Typed
      <3>5. Channel!HandOver
        BY <2>1, <3>1, <3>2, <3>3, <3>4 DEF Channel!HandOver
      <3> QED
        BY <3>5 DEF Channel!Next
    <2> QED
      BY <2>2, <2>3
  <1>4. CASE Reload
    <2>1. /\ events' = events /\ origin' = taken /\ handlers' \in BOOLEAN /\ clicks' = <<>>
          /\ pc = "poll"
      BY <1>4 DEF Reload, Left
    <2> DEFINE next == Started(origin) + Len(clicks)
    <2>2. /\ next \in Nat /\ Started(taken) \in Nat
          /\ next <= Started(taken) /\ Started(taken) <= events
          /\ handlers => Started(taken) <= next + 1
      BY <2>1, LeftToSuccessor
    <2>3. Started(origin') + Len(clicks') = Started(taken)
      BY <2>1, <2>2
    <2>4. events \in Nat
      BY DEF IInv, Typed
    <2>5. Channel!Restart
      BY <2>1, <2>2, <2>3, <2>4 DEF Channel!Restart
    <2> QED
      BY <2>5 DEF Channel!Next
  <1>5. CASE Read \/ SkipSeparator \/ CallParser
    BY <1>1, <1>5 DEF Read, SkipSeparator, CallParser
  <1>6. CASE NeedMore \/ Feed \/ Reject
    BY <1>1, <1>6 DEF NeedMore, Feed, Reject
  <1>7. CASE UNCHANGED vars
    BY <1>1, <1>7 DEF vars
  <1> QED
    BY <1>2, <1>3, <1>4, <1>5, <1>6, <1>7 DEF Next, Handler, Terminated, Idle

(* The handler of stdin implements ClickChannel: the callbacks get every   *)
(* event in turn, and exec loses at most the one the parser was in.        *)
THEOREM ChannelImplemented == Spec => DeliversAsPromised
  BY ChannelInit, ChannelStep, Invariant, ChannelInvariant, PTL
     DEF Spec, DeliversAsPromised, Channel!Spec
=============================================================================
