------------------------------ MODULE Formats ------------------------------
(***************************************************************************)
(* How the format of a block becomes the text on the bar: the format is    *)
(* escaped when the configuration is read, expanded with the values of the *)
(* block, and put between quotes into a JSON object, which swaybar decodes.*)
(* The braces and the colon of a replacement field are words of their own, *)
(* and so is the name of a field.                                          *)
(***************************************************************************)
EXTENDS Texts, Naturals, Sequences, FiniteSets, SequencesExt

CONSTANT Kilo     \* the ratio of two units, 1024

ASSUME FormatsAssumption == Kilo \in Nat /\ Kilo > 1

(* escape_quotation_marks *)
Escaped(fmt) ==
    FlattenSeq([i \in DOMAIN fmt |->
                  IF fmt[i] = Quote THEN <<Backslash, Quote>> ELSE <<fmt[i]>>])

(* The parts with a separator between. *)
Joined(parts, separator) ==
    FlattenSeq([i \in DOMAIN parts |->
                  IF i = Len(parts) THEN parts[i] ELSE parts[i] \o separator])

----------------------------------------------------------------------------
(* Values *)

Unit == <<"B", "K", "M", "G", "T", "P", "E", "Z", "Y">>

(* No larger unit is taken for a number this small. *)
Small_Less(number) == number < Kilo
Small(number) == number <= Kilo

(* formatter<mem_size_t>::parse: the unit asked for, by default the one    *)
(* that suits. "B" is the one of the units it does not take.               *)
Presentation(spec) == IF spec = <<>> THEN "A" ELSE spec[1]
Accepted(spec)     == Presentation(spec) \in {"A"} \cup ToSet(Tail(Unit))

(* formatter<mem_size_t>::format: the unit asked for, or the first that    *)
(* leaves a number that is small enough.                                   *)
SizeText(bytes, spec) ==
    LET mem[ratio \in DOMAIN Unit] ==
            IF ratio = 1 THEN bytes ELSE mem[ratio - 1] \div Kilo
        small == {r \in DOMAIN Unit : r = Len(Unit) \/ Small(mem[r])}
        ratio == IF Presentation(spec) = "A"
                 THEN CHOOSE r \in small : \A q \in small : r <= q
                 ELSE CHOOSE r \in DOMAIN Unit : Unit[r] = Presentation(spec)
    IN  <<ToString(mem[ratio]), Unit[ratio]>>

(* parse_limit: no number is zero, which the count never is. *)
Limit(spec) == IF spec = <<>> THEN 0 ELSE Amount[spec[1]]

AddrsText(addrs, limit) ==
    LET from[i \in 1..(Len(addrs) + 1)] ==
            IF i > Len(addrs) THEN <<>>
            ELSE IF i = limit \/ i = Len(addrs) THEN <<addrs[i]>>
            ELSE <<addrs[i], " ">> \o from[i + 1]
    IN  from[1]

----------------------------------------------------------------------------
(* Expansion *)

(* find_end_of_format: where the braces opened since are all closed. *)
EndOfFormat(s, first) ==
    LET Number(w, i) == Cardinality({j \in first..i : s[j] = w})
        ends == {i \in first..Len(s) : 1 + Number("{", i) = Number("}", i)}
    IN  CHOOSE i \in ends : \A j \in ends : i <= j

(* A specification that is not accepted throws, and nothing catches it; a  *)
(* value that is looked up when it is used, behind the parsing of the      *)
(* specification, may be searched for without end. Either ends the text    *)
(* where it happens: the words stand for that.                             *)
Thrown  == "format_error"
Endless == "endless search"

(* A value is a record with its type in "is". The value of a condition or  *)
(* of a list takes a format of its own, behind the colon.                  *)
RECURSIVE Expand(_, _)

Replaced(arg, spec, args) ==
    CASE arg.is = "text"  -> arg.val
      [] arg.is = "size"  -> IF Accepted(spec) THEN SizeText(arg.val, spec) ELSE <<Thrown>>
      [] arg.is = "none"  -> IF Accepted(spec) THEN <<Endless>> ELSE <<Thrown>>
      [] arg.is = "addrs" -> AddrsText(arg.val, Limit(spec))
      [] arg.is = "cond"  -> IF arg.val THEN Expand(spec, args) ELSE <<>>
      [] arg.is = "list"  ->
            IF spec = <<>> THEN <<>>
            ELSE Joined([i \in DOMAIN arg.val |-> Expand(spec, arg.val[i])], arg.sep)

(* vformat_to: a field begins with a brace and its name. *)
Expand(s, args) ==
    IF s = <<>> THEN <<>>
    ELSE IF s[1] # "{" THEN <<s[1]>> \o Expand(Tail(s), args)
    ELSE LET end  == IF s[3] = ":" THEN EndOfFormat(s, 4) ELSE 3
             spec == SubSeq(s, 4, end - 1)
         IN  Replaced(args[s[2]], spec, args) \o Expand(SubSeq(s, end + 1, Len(s)), args)

----------------------------------------------------------------------------
(* The JSON object of a block: Base::update_and_print *)

DefaultProperty == "separator:true"
Property(name)  == IF name = "separator" THEN "separator:false" ELSE name

(* get_user_specified_property_str_impl2: extra holds the names of what is *)
(* left of the settings of the block. Without any, Base prints the default.*)
PropertiesText(extra) ==
    LET given == [i \in DOMAIN extra |-> <<Property(extra[i])>>]
    IN  IF extra = <<>> THEN <<DefaultProperty>>
        ELSE IF Contains(extra, "separator") THEN Joined(given, <<",">>)
        ELSE Joined(given, <<",">>) \o <<",", DefaultProperty>>

(* print_fmt *)
Member(name, fmt, args) ==
    <<name, Quote>> \o Expand(Escaped(fmt), args) \o <<Quote, ",">>

(* The format of the full text and, when there is one, of the short text.  *)
TextName == <<"full_text", "short_text">>

BlockText(formats, extra, args) ==
    <<"{">> \o FlattenSeq([i \in DOMAIN formats |-> Member(TextName[i], formats[i], args)])
            \o PropertiesText(extra) \o <<"}">>

----------------------------------------------------------------------------
(* The reader of the bar *)

(* The string whose first word is at i, decoded, and the place behind it.  *)
RECURSIVE StringAt(_, _)
StringAt(s, i) ==
    IF i >= Len(s) \/ s[i] = Newline THEN [text |-> <<"broken">>, next |-> Len(s)]
    ELSE IF s[i] = Quote THEN [text |-> <<>>, next |-> i + 1]
    ELSE LET escape == s[i] = Backslash
             behind == StringAt(s, IF escape THEN i + 2 ELSE i + 1)
             word   == IF ~escape THEN s[i]
                       ELSE IF s[i + 1] \in {Quote, Backslash} THEN s[i + 1]
                       ELSE "some escape"
         IN  [behind EXCEPT !.text = <<word>> \o @]

(* The members from the place i on. *)
RECURSIVE MembersAt(_, _)
MembersAt(s, i) ==
    IF i > Len(s) THEN <<"broken">>
    ELSE LET isText == i < Len(s) /\ s[i + 1] = Quote
             string == StringAt(s, i + 2)
             next   == IF isText THEN string.next ELSE i + 1
             member == IF isText THEN <<s[i], string.text>> ELSE <<s[i]>>
         IN  IF next > Len(s) THEN <<"broken">>
             ELSE IF s[next] = "," THEN <<member>> \o MembersAt(s, next + 1)
             ELSE IF s[next] = "}" /\ next = Len(s) THEN <<member>>
             ELSE <<"broken">>

Decoded(s) == MembersAt(s, 2)

----------------------------------------------------------------------------
(* What a format means: the format as a tree. A node is a word, a field    *)
(* with a name and what follows the colon, or a nested format.             *)

RECURSIVE Written(_)
Written(tree) ==
    FlattenSeq([i \in DOMAIN tree |->
       LET n == tree[i]
       IN  IF "word" \in DOMAIN n THEN <<n.word>>
           ELSE IF "body" \in DOMAIN n
                THEN <<"{", n.name, ":">> \o Written(n.body) \o <<"}">>
           ELSE IF n.spec = <<>> THEN <<"{", n.name, "}">>
           ELSE <<"{", n.name, ":">> \o n.spec \o <<"}">>])

(* A size is the whole number of its unit; the unit is the smallest one    *)
(* that gives no more than Kilo, unless one is asked for.                  *)
SizeMeant(bytes, spec) ==
    LET Number(k) == bytes \div Kilo^k
        k == IF spec \in {<<>>, <<"A">>}
             THEN CHOOSE j \in 0..8 : /\ Number(j) <= Kilo
                                      /\ \A i \in 0..(j - 1) : Number(i) > Kilo
             ELSE (CHOOSE j \in 0..8 : <<Unit[j + 1]>> = spec)
    IN  <<ToString(Number(k)), Unit[k + 1]>>

(* The first addresses, as many as the limit says; all without a limit. *)
AddrsMeant(addrs, limit) ==
    LET shown == IF limit \in 1..Len(addrs) THEN limit ELSE Len(addrs)
    IN  Joined([i \in 1..shown |-> <<addrs[i]>>], <<" ">>)

RECURSIVE Meaning(_, _)
Meaning(tree, args) ==
    FlattenSeq([i \in DOMAIN tree |->
       LET n == tree[i]
           a == args[n.name]
       IN  IF "word" \in DOMAIN n THEN <<n.word>>
           ELSE CASE a.is = "text"  -> a.val
                  [] a.is = "size"  -> SizeMeant(a.val, n.spec)
                  [] a.is = "addrs" -> AddrsMeant(a.val, Limit(n.spec))
                  [] a.is = "cond"  -> IF a.val THEN Meaning(n.body, args) ELSE <<>>
                  [] a.is = "list"  ->
                       Joined([k \in DOMAIN a.val |-> Meaning(n.body, a.val[k])], a.sep)])
=============================================================================
