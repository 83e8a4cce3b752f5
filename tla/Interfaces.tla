----------------------------- MODULE Interfaces -----------------------------
(***************************************************************************)
(* The network block: the table of network interfaces, filled anew by      *)
(* every update from the list of entries getifaddrs returns. The table and *)
(* the addresses of an interface are arrays of a fixed size, reused from   *)
(* one update to the next.                                                 *)
(*                                                                         *)
(* The list has an entry for the link of each interface (its address is    *)
(* null when the device has none) and then one for each address, with the  *)
(* flags of the link. What an entry carries, an address or statistics, is  *)
(* known by its position. The list is made up while it is walked: the      *)
(* variable holds the entries walked over so far.                          *)
(***************************************************************************)
EXTENDS Naturals, Sequences, FiniteSets, SequencesExt

CONSTANTS
    Name,        \* names of the network interfaces of the computer
    Flags,       \* the sets of flags a link may have
    Cap,         \* size of the array of interfaces
    AddrCap,     \* size of the arrays of addresses
    MaxEntries   \* bound: length of the list

ASSUME InterfacesAssumption ==
    /\ Flags \subseteq SUBSET {"LOOPBACK", "UP", "RUNNING"}
    /\ Cap \in Nat \ {0} /\ AddrCap \in Nat \ {0} /\ MaxEntries \in Nat

Link    == {"null", "packet"}
Address == {"inet", "inet6"}
Entry   == [name : Name, flags : Flags, family : Link \cup Address]

(* The entries getifaddrs may have put after those of l. *)
After(l) ==
    {e \in Entry :
       LET same == {i \in DOMAIN l : l[i].name = e.name}
       IN  IF e.family \in Link
           THEN same = {} /\ \A i \in DOMAIN l : l[i].family \in Link
           ELSE \E i \in same : l[i].family \in Link /\ l[i].flags = e.flags}

NoStats == 0
EmptySlot == [name |-> "", flags |-> {}, stat |-> NoStats, inet |-> <<>>, inet6 |-> <<>>]

VARIABLES
    interfaces,  \* the array
    cnt,         \* how many of its slots are in use
    status,      \* "idle", "reading", "failed" (err) or "undefined"
    list         \* the entries walked over by this update

vars == <<interfaces, cnt, status, list>>
table == <<interfaces, cnt>>

Init ==
    /\ interfaces = [s \in 1..Cap |-> EmptySlot] /\ cnt = 0
    /\ status = "idle" /\ list = <<>>

----------------------------------------------------------------------------
(* Interface::reset leaves the name and the flags. *)
ResetSlot_KeepsStats(slot) == [slot EXCEPT !.inet = <<>>, !.inet6 = <<>>]
ResetSlot(slot) == [slot EXCEPT !.stat = NoStats, !.inet = <<>>, !.inet6 = <<>>]

(* ipv4_addrs::add and ipv6_addrs::add ignore what does not fit. *)
Added_OneMore(addrs, a) == IF Len(addrs) > AddrCap THEN addrs ELSE Append(addrs, a)
Added(addrs, a) == IF Len(addrs) = AddrCap THEN addrs ELSE Append(addrs, a)

(* Update: clear() resets the slots in use, getifaddrs makes the list.     *)
Update ==
    /\ status = "idle"
    /\ interfaces' = [s \in 1..Cap |->
          IF s <= cnt THEN ResetSlot(interfaces[s]) ELSE interfaces[s]]
    /\ cnt' = 0
    /\ list' = <<>>
    /\ status' = "reading"

UpdateFails ==
    /\ status = "idle"
    /\ status' = "failed"
    /\ UNCHANGED <<table, list>>

(* The filters at the top of the loop. *)
Interesting(e) ==
    /\ e.family # "null"
    /\ "LOOPBACK" \notin e.flags
    /\ "UP" \in e.flags
    /\ "RUNNING" \in e.flags

(* The loop comes to entry e. *)
Walk(e) ==
    /\ status = "reading" /\ Len(list) < MaxEntries
    /\ e \in After(list)
    /\ list' = Append(list, e)

Skip(e) ==
    /\ Walk(e) /\ ~Interesting(e)
    /\ UNCHANGED <<table, status>>

(* operator[]: the slots in use are searched for the name. *)
Slots(n) == {s \in 1..cnt : interfaces[s].name = n}

(* The rest of the loop body: flags, then an address or the statistics. *)
Filled(slot, e) ==
    LET tagged == [slot EXCEPT !.name = e.name, !.flags = e.flags]
        this   == Len(list) + 1
    IN  IF e.family = "packet" THEN [tagged EXCEPT !.stat = this]
        ELSE [tagged EXCEPT ![e.family] = Added(@, this)]

AddToKnown(e) ==
    /\ Walk(e) /\ Interesting(e)
    /\ \E s \in Slots(e.name) : interfaces' = [interfaces EXCEPT ![s] = Filled(@, e)]
    /\ UNCHANGED <<cnt, status>>

AddNew(e) ==
    /\ Walk(e) /\ Interesting(e)
    /\ Slots(e.name) = {} /\ cnt < Cap
    /\ cnt' = cnt + 1
    /\ interfaces' = [interfaces EXCEPT ![cnt'] = Filled(@, e)]
    /\ UNCHANGED status

(* A full array: operator[] returns end(), which is not null, so the loop  *)
(* does not stop and the entry is written behind the array.                *)
AddPastEnd_KnownToo(e) ==
    /\ Walk(e) /\ Interesting(e)
    /\ cnt = Cap
    /\ status' = "undefined"
    /\ UNCHANGED table
AddPastEnd(e) ==
    /\ Walk(e) /\ Interesting(e)
    /\ Slots(e.name) = {} /\ cnt = Cap
    /\ status' = "undefined"
    /\ UNCHANGED table

(* freeifaddrs; the block is printed from the table. *)
Finish ==
    /\ status = "reading"
    /\ status' = "idle"
    /\ UNCHANGED <<table, list>>

Terminated == status \in {"failed", "undefined"} /\ UNCHANGED vars

Next ==
    \/ Update \/ UpdateFails
    \/ \E e \in Entry : Skip(e) \/ AddToKnown(e) \/ AddNew(e) \/ AddPastEnd(e)
    \/ Finish \/ Terminated

Spec == Init /\ [][Next]_vars

----------------------------------------------------------------------------
(* Type correctness. *)
Slot == [name : Name \cup {""}, flags : Flags \cup {{}}, stat : 0..MaxEntries,
         inet : SeqOf(1..MaxEntries, AddrCap), inet6 : SeqOf(1..MaxEntries, AddrCap)]
TypeOK ==
    /\ \A s \in 1..Cap : interfaces[s] \in Slot
    /\ cnt \in 0..Cap
    /\ status \in {"idle", "reading", "failed", "undefined"}
    /\ list \in Seq(Entry) /\ Len(list) <= MaxEntries

(* What the block has to show, read off the list without a table: the      *)
(* interfaces of the interesting entries in the order of their first one,  *)
(* each with its first addresses and its statistics.                       *)
Usable == {"UP", "RUNNING"}
Wanted == {i \in DOMAIN list : list[i].family # "null" /\ list[i].flags = Usable}
Of(n, family) == {i \in Wanted : list[i].name = n /\ list[i].family = family}
Firsts == {i \in Wanted : \A j \in Wanted : list[j].name = list[i].name => i <= j}

(* seq has the smallest elements of S, as many as fit into max places, in  *)
(* their order.                                                            *)
Least(seq, S, max) ==
    /\ Len(seq) <= max
    /\ \A k \in DOMAIN seq : seq[k] \in S
    /\ \A j, k \in DOMAIN seq : j < k => seq[j] < seq[k]
    /\ \A i \in S :
          (\A k \in DOMAIN seq : seq[k] # i) => Len(seq) = max /\ \A k \in DOMAIN seq : seq[k] < i
Shows(slot, n) ==
    /\ slot.name = n /\ slot.flags = Usable
    /\ Of(n, "packet") = {} => slot.stat = NoStats
    /\ \A i \in Of(n, "packet") : slot.stat = i
    /\ Least(slot.inet, Of(n, "inet"), AddrCap)
    /\ Least(slot.inet6, Of(n, "inet6"), AddrCap)

(* As far as the list was walked the table shows it and nothing else: no   *)
(* filtered interface, none twice, none with an address or the statistics  *)
(* of the interface that had its slot in an earlier update.                *)
ShowsTheList ==
    status \in {"reading", "idle"} =>
       \E shown \in [1..cnt -> Firsts] :
          /\ Least(shown, Firsts, Cap)
          /\ \A k \in 1..cnt : Shows(interfaces[k], list[shown[k]].name)

(* The array is overrun only on a computer with more than Cap interfaces   *)
(* up and running: more addresses, more links that are down, or a longer   *)
(* history of updates do not do it.                                        *)
OverrunOnlyWhenMore == status = "undefined" => Cardinality(Firsts) > Cap

(* "If it is full, then stop getting more": nothing is written behind the  *)
(* array of interfaces.                                                    *)
StopsWhenFull == status # "undefined"
=============================================================================
