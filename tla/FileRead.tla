------------------------------ MODULE FileRead ------------------------------
(***************************************************************************)
(* A block that shows what it reads: the battery block, the memory block,  *)
(* the load block and the network block. An update reads a file of the     *)
(* kernel piece by piece into a buffer that is kept from one update to the *)
(* next (the network block: the table of interfaces). A print looks up the *)
(* values in the buffer.                                                   *)
(*                                                                         *)
(* A file is given as its lines; what is read is its text. One battery and *)
(* one buffer stand for all of them.                                       *)
(***************************************************************************)
EXTENDS Texts, Naturals, Sequences, FiniteSets, SequencesExt

CONSTANTS
    Kind,        \* the blocks: "battery", "memory", "load", "network"
    Files,       \* what a block may find in its file, as lines
    Fields,      \* names a format of the block may use
    Words,       \* the words a name is made of
    Initial,     \* capacity of an empty string, 15
    Step,        \* by what a full buffer grows besides doubling, 100
    LoadSize,    \* size of the buffer of the load block, 100
    Thousand,    \* bytes in what the kernel calls a kB, 1000 for the block
    SizeMax      \* the size that stands for none, (size_t) -1

ASSUME FileReadAssumption ==
    /\ Kind \subseteq {"battery", "memory", "load", "network"}
    /\ Initial \in Nat /\ Step \in Nat \ {0} /\ LoadSize \in Nat \ {0}
    /\ Thousand \in Nat /\ SizeMax \in Nat

(* The files of the kernel: /sys/class/power_supply/*/uevent and           *)
(* /proc/meminfo have a line for each key, /proc/loadavg six values. What  *)
(* separates names from values is no part of either.                       *)
Plain == STRING \ {"POWER_SUPPLY_", "=", ":", " kB", Newline, " ", "/"}
Line  == [key : Seq(Plain), val : Plain]

ASSUME KernelFiles ==
    \A k \in Kind \cap {"battery", "memory"} :
       /\ \A n \in Fields[k] : Words[n] \in Seq(Plain) \ {<<>>}
       /\ \A lines \in Files[k] :
             /\ lines \in Seq(Line)
             /\ \A i, j \in DOMAIN lines : lines[i].key = lines[j].key => i = j

(* /proc/meminfo begins with the total of the memory, which stays the      *)
(* same. Its numbers are no parts of names and fit into a size.            *)
ASSUME MeminfoFiles ==
    "memory" \in Kind =>
       /\ Words["MemTotal"] \in Seq(Plain) \ {<<>>}
       /\ \A n \in Fields["memory"] \cup {"MemTotal"} : ToSet(Words[n]) \cap DOMAIN Amount = {}
       /\ \A lines \in Files["memory"] :
             /\ lines # <<>> /\ lines[1].key = Words["MemTotal"]
             /\ \A i \in DOMAIN lines :
                   lines[i].val \in DOMAIN Amount /\ Amount[lines[i].val] * Thousand < SizeMax
       /\ \A l, m \in Files["memory"] : l[1].val = m[1].val

ASSUME LoadavgFiles ==
    "load" \in Kind =>
       /\ \A n \in Fields["load"] : Words[n] \in 1..6
       /\ \A lines \in Files["load"] : lines = <<>> \/ lines \in [1..6 -> Plain]

Nul     == "NUL"
Missing == <<"nullptr">>
Hang    == SizeMax + 1   \* no size: the search does not end

VARIABLES
    kind,      \* which block this is
    pc,        \* "new", "reading", "idle", "printed", "searching" (forever),
               \* "rejected" (a format) or "failed" (err, errx)
    rest,      \* what is left of the file to read
    buffer,    \* the string, or the array of the load block
    capacity,  \* of the string
    bytes,     \* how much has been read
    memtotal,  \* kept by the memory block
    table,     \* the network block: its interfaces
    file       \* what the last update found, as lines

readVars == <<kind, pc, rest, buffer, capacity, bytes, memtotal, table, file>>

ReadInit ==
    /\ kind \in Kind /\ pc = "new"
    /\ rest = <<>> /\ bytes = 0 /\ capacity = Initial
    /\ buffer = IF kind = "load" THEN [i \in 1..LoadSize |-> Nul] ELSE <<>>
    /\ memtotal = SizeMax /\ table = <<>> /\ file = <<>>

----------------------------------------------------------------------------
(* The text of a file. *)
LineText(line) ==
    CASE kind = "battery" ->
            <<"POWER_SUPPLY_">> \o line.key \o <<"=", line.val, Newline>>
      [] kind = "memory"  -> line.key \o <<":", line.val, " kB", Newline>>

FileText(lines) ==
    IF kind = "load"
    THEN IF lines = <<>> THEN <<>>
         ELSE <<lines[1], " ", lines[2], " ", lines[3], " ",
                lines[4], "/", lines[5], " ", lines[6], Newline>>
    ELSE FlattenSeq([i \in DOMAIN lines |-> LineText(lines[i])])

(* std::string::resize *)
Resized(s, n) == [i \in 1..n |-> IF i <= Len(s) THEN s[i] ELSE Nul]

(* How much may still be read into the buffer. *)
Room_WholeBuffer == IF kind = "load" THEN LoadSize - 1 ELSE Len(buffer)
Room ==
    IF kind = "load" THEN LoadSize - 1 - bytes ELSE Len(buffer) - bytes

(* The string is as long as its capacity while it is read into. The block  *)
(* of the batteries clears it before, the array is not cleared.            *)
BeginUpdate ==
    /\ pc \in {"new", "idle", "printed"} /\ kind # "network"
    /\ \E lines \in Files[kind] : file' = lines /\ rest' = FileText(lines)
    /\ buffer' = CASE kind = "battery" -> Resized(<<>>, capacity)
                   [] kind = "memory"  -> Resized(buffer, capacity)
                   [] kind = "load"    -> buffer
    /\ bytes' = 0
    /\ pc' = "reading"
    /\ UNCHANGED <<kind, capacity, memtotal, table>>

Grow ==
    /\ pc = "reading" /\ kind # "load" /\ Len(buffer) = bytes
    /\ buffer' = Resized(buffer, 2 * Len(buffer) + Step)
    /\ capacity' = Len(buffer')
    /\ UNCHANGED <<kind, pc, rest, bytes, memtotal, table, file>>

(* A read may return less than there is. *)
ReadPiece ==
    /\ pc = "reading"
    /\ \E n \in 1..Len(rest) :
         /\ n <= Room
         /\ buffer' = [i \in 1..(IF bytes + n > Len(buffer) THEN bytes + n ELSE Len(buffer)) |->
                         IF i \in (bytes + 1)..(bytes + n) THEN rest[i - bytes] ELSE buffer[i]]
         /\ bytes' = bytes + n
         /\ rest' = SubSeq(rest, n + 1, Len(rest))
    /\ UNCHANGED <<kind, pc, capacity, memtotal, table, file>>

ReadFails ==
    /\ pc = "reading"
    /\ pc' = "failed"
    /\ UNCHANGED <<kind, rest, buffer, capacity, bytes, memtotal, table, file>>

----------------------------------------------------------------------------
(* Looking up *)

Occurrences(s, name) ==
    {i \in 1..(Len(s) - Len(name)) : SubSeq(s, i, i + Len(name) - 1) = name}

Least(places) == CHOOSE i \in places : \A j \in places : i <= j

(* The end of the line that goes on at i. *)
LineEnd(s, i) == CHOOSE e \in i..Len(s) : s[e] = Newline /\ \A j \in i..(e - 1) : s[j] # Newline

(* Battery::get_property goes on behind a match that no equals sign        *)
(* follows; no name overlaps with itself.                                  *)
Matches_Any(s, name) == Occurrences(s, name)
Matches(s, name) == {i \in Occurrences(s, name) : s[i + Len(name)] = "="}
GetProperty(s, name) ==
    LET first == Least(Matches(s, name))
    IN  IF Matches(s, name) = {} THEN Missing
        ELSE SubSeq(s, first + Len(name) + 1, LineEnd(s, first) - 1)

(* MemoryUsagePrinter::get_memusage looks at the first occurrence, over    *)
(* and over when no colon follows.                                         *)
GetMemusage(s, name) ==
    LET behind == Least(Occurrences(s, name)) + Len(name)
    IN  IF Occurrences(s, name) = {} THEN SizeMax
        ELSE IF s[behind] # ":" THEN Hang
        ELSE Amount[s[behind + 1]] * Thousand

(* LoadPrinter::split and parse_loadavg: the text is cut at its spaces.    *)
(* Cut(s, k) is the k-th of the places where it is cut.                    *)
Spaces(s) == {i \in DOMAIN s : s[i] = " "}
Cut(s, k) ==
    LET ends == Spaces(s) \cup {Len(s) + 1}
    IN  CHOOSE i \in {0} \cup ends : Cardinality({e \in ends : e <= i}) = k
Split(s) ==
    [k \in 1..(Cardinality(Spaces(s)) + 1) |-> SubSeq(s, Cut(s, k - 1) + 1, Cut(s, k) - 1)]

Statistics(s) ==
    LET parts     == Split(s)
        delimiter == CHOOSE i \in DOMAIN parts[4] : parts[4][i] = "/"
    IN  <<parts[1], parts[2], parts[3],
          SubSeq(parts[4], 1, delimiter - 1),
          SubSeq(parts[4], delimiter + 1, Len(parts[4])), parts[5]>>

(* What the load block demands of its file. *)
Loadavg(s) == Contains(s, "/") /\ Len(Split(s)) = 5

(* What a print finds under the names of the block. *)
Looked ==
    CASE kind = "battery" -> [n \in Fields[kind] |-> GetProperty(buffer, Words[n])]
      [] kind = "memory"  -> [n \in Fields[kind] |->
                                IF n = "MemTotal" THEN memtotal
                                ELSE GetMemusage(buffer, Words[n])]
      [] kind = "load"    -> LET s == Statistics(SubSeq(buffer, 1, bytes))
                             IN  [n \in Fields[kind] |-> s[Words[n]]]
      [] kind = "network" -> <<>>

----------------------------------------------------------------------------
(* The ends of an update *)

EndOfFile ==
    /\ pc = "reading" /\ kind \in {"battery", "memory"}
    /\ rest = <<>> /\ bytes < Len(buffer)
    /\ buffer' = SubSeq(buffer, 1, bytes)
    /\ LET total == IF kind = "memory" /\ memtotal = SizeMax
                    THEN GetMemusage(buffer', Words["MemTotal"]) ELSE memtotal
       IN  /\ memtotal' = IF total = Hang THEN memtotal ELSE total
           /\ pc' = IF total = Hang THEN "searching" ELSE "idle"
    /\ UNCHANGED <<kind, rest, capacity, bytes, table, file>>

EndOfLoad ==
    /\ pc = "reading" /\ kind = "load"
    /\ rest = <<>> \/ Room = 0
    /\ buffer' = [buffer EXCEPT ![bytes + 1] = Nul]
    /\ pc' = IF bytes # 0 /\ Room # 0 /\ Loadavg(SubSeq(buffer, 1, bytes))
             THEN "idle" ELSE "failed"
    /\ UNCHANGED <<kind, rest, capacity, bytes, memtotal, table, file>>

(* Interfaces::update as a whole: module Interfaces. *)
UpdateTable ==
    /\ pc \in {"new", "idle", "printed"} /\ kind = "network"
    /\ \E t \in Files[kind] : table' = t /\ file' = t
    /\ pc' = "idle"
    /\ UNCHANGED <<kind, rest, buffer, capacity, bytes, memtotal>>

UpdateNext ==
    \/ BeginUpdate \/ Grow \/ ReadPiece \/ ReadFails \/ EndOfFile \/ EndOfLoad
    \/ UpdateTable

(* A print looks the values up: module FileBlock. The search for one may   *)
(* be without end, and what the format asks for may be rejected.           *)
LookUp ==
    /\ pc \in {"idle", "printed"}
    /\ pc' \in {"printed", "searching", "rejected"}
    /\ UNCHANGED <<kind, rest, buffer, capacity, bytes, memtotal, table, file>>

ReadSpec == ReadInit /\ [][UpdateNext \/ LookUp]_readVars

----------------------------------------------------------------------------
(* Properties *)

(* The read never passes the end of the buffer and the string never its    *)
(* capacity (asreadall, readall).                                          *)
TypeOK ==
    /\ kind \in Kind
    /\ pc \in {"new", "idle", "reading", "printed", "searching", "rejected",
           "failed"}
    /\ Len(buffer) <= (IF kind = "load" THEN LoadSize ELSE capacity)
    /\ bytes + (IF kind = "load" THEN 1 ELSE 0) <=
          (IF kind = "load" THEN LoadSize ELSE capacity)
    /\ memtotal \in Nat /\ capacity \in Nat /\ bytes \in Nat

(* The value of the line with this name and no longer one. *)
LineOf(name) == {i \in DOMAIN file : file[i].key = Words[name]}

InFile(name) ==
    CASE kind = "battery" -> IF LineOf(name) = {} THEN Missing
                             ELSE <<file[CHOOSE i \in LineOf(name) : TRUE].val>>
      [] kind = "memory"  -> IF LineOf(name) = {} THEN SizeMax
                             ELSE Amount[file[CHOOSE i \in LineOf(name) : TRUE].val] * Thousand
      [] kind = "load"    -> IF Words[name] = 6 THEN <<file[6], Newline>> ELSE <<file[Words[name]]>>

(* No line in front of the one with a name has a name that would be taken  *)
(* for it, as in the files the kernel writes: for the battery block a name *)
(* that ends with it, for the memory block one that contains it.           *)
Confused(key, name) ==
    IF kind = "battery" THEN IsSuffix(Words[name], key) ELSE Words[name] \in SubSeqs(key)

KernelOrder ==
    kind \in {"battery", "memory"} =>
       \A n \in Fields[kind] : \A i \in DOMAIN file :
          Confused(file[i].key, n) => \E j \in LineOf(n) : j <= i

(* After an update every name of the block stands for what the file says   *)
(* under exactly this name, whatever the sizes of the pieces it was read   *)
(* in and whatever the buffer held before (asreadall, get_property,        *)
(* get_memusage, parse_loadavg).                                           *)
ShowsTheFile ==
    pc \in {"idle", "printed"} /\ kind # "network" /\ KernelOrder =>
       \A n \in Fields[kind] : Looked[n] = InFile(n)
=============================================================================
