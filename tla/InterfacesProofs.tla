-------------------------- MODULE InterfacesProofs --------------------------
(***************************************************************************)
(* Theorems about Interfaces for any names, any sizes of the arrays and    *)
(* lists of any length: after every entry the table shows the list that    *)
(* was walked, whatever an earlier update left in its slots, and only a    *)
(* computer with more usable interfaces than slots overruns the array.     *)
(***************************************************************************)
EXTENDS Interfaces, TLAPS, SequenceTheorems, FiniteSetTheorems

----------------------------------------------------------------------------
(* The inductive invariant *)

Live == status \in {"idle", "reading"}

Typed ==
    /\ interfaces \in [1..Cap -> Slot]
    /\ cnt \in 0..Cap
    /\ status \in {"idle", "reading", "failed", "undefined"}
    /\ list \in Seq(Entry) /\ Len(list) <= MaxEntries

(* The list has one link for each interface. *)
LinksOnce ==
    \A i, j \in DOMAIN list :
       list[i].family \in Link /\ list[j].family \in Link /\ list[i].name = list[j].name => i = j

(* A slot that is not in use has the name and the flags of an interface of *)
(* an earlier update at most.                                              *)
SpareSlotsClean ==
    Live => \A s \in 1..Cap :
       s > cnt => /\ interfaces[s].stat = NoStats
                  /\ interfaces[s].inet = <<>> /\ interfaces[s].inet6 = <<>>

(* operator[] finds the slot of every interface with an interesting entry. *)
WantedFound ==
    Live => \A i \in Wanted : \E s \in 1..cnt : interfaces[s].name = list[i].name

IInv ==
    Typed /\ LinksOnce /\ SpareSlotsClean /\ WantedFound /\ ShowsTheList /\ OverrunOnlyWhenMore
----------------------------------------------------------------------------
(* Sequences of positions *)

LEMMA Sizes == Cap \in Nat \ {0} /\ AddrCap \in Nat \ {0} /\ MaxEntries \in Nat
  BY InterfacesAssumption

LEMMA Bounded ==
    ASSUME NEW S, NEW n \in Nat, NEW q
    PROVE  q \in SeqOf(S, n) <=> q \in Seq(S) /\ Len(q) <= n
  <1>1. ASSUME q \in SeqOf(S, n)  PROVE q \in Seq(S) /\ Len(q) <= n
    <2>1. PICK m \in 0..n : q \in [1..m -> S]
      BY <1>1 DEF SeqOf
    <2>2. m \in Nat /\ m <= n
      BY <2>1
    <2>3. q \in Seq(S)
      BY <2>1, <2>2, SeqDef
    <2>4. Len(q) = m
      <3>1. DOMAIN q = 1..m /\ DOMAIN q = 1..Len(q) /\ Len(q) \in Nat
        BY <2>1, <2>3, LenProperties
      <3> QED
        BY <2>2, <3>1
    <2> QED
      BY <2>2, <2>3, <2>4
  <1>2. ASSUME q \in Seq(S), Len(q) <= n  PROVE q \in SeqOf(S, n)
    <2>1. Len(q) \in 0..n /\ q \in [1..Len(q) -> S]
      BY <1>2, LenProperties
    <2> QED
      BY <2>1 DEF SeqOf
  <1> QED
    BY <1>1, <1>2

LEMMA EmptyOnes ==
    ASSUME NEW S  PROVE <<>> \in Seq(S) /\ Len(<<>>) = 0 /\ DOMAIN <<>> = {}
  BY EmptySeq

LEMMA Appended ==
    ASSUME NEW S, NEW s \in Seq(S), NEW e \in S
    PROVE  /\ Append(s, e) \in Seq(S)
           /\ Len(Append(s, e)) = Len(s) + 1
           /\ DOMAIN Append(s, e) = DOMAIN s \cup {Len(s) + 1}
           /\ DOMAIN s = 1..Len(s) /\ Len(s) \in Nat
           /\ \A i \in 1..Len(s) : Append(s, e)[i] = s[i]
           /\ Append(s, e)[Len(s) + 1] = e
  <1>1. /\ Append(s, e) \in Seq(S) /\ Len(Append(s, e)) = Len(s) + 1
        /\ \A i \in 1..Len(s) : Append(s, e)[i] = s[i]
        /\ Append(s, e)[Len(s) + 1] = e
    BY AppendProperties
  <1>2. DOMAIN s = 1..Len(s) /\ Len(s) \in Nat /\ DOMAIN Append(s, e) = 1..(Len(s) + 1)
    BY <1>1, LenProperties
  <1> QED
    BY <1>1, <1>2

(* Of a set that gets its largest element the least ones are those of the  *)
(* set, and the new one where there is room for it.                        *)
LEMMA LeastAppend ==
    ASSUME NEW L \in Nat, NEW S \in SUBSET (1..L), NEW max \in Nat,
           NEW q \in Seq(Nat), Least(q, S, max), Len(q) < max
    PROVE  Least(Append(q, L + 1), S \cup {L + 1}, max)
  <1> DEFINE a == Append(q, L + 1)
  <1>1. /\ Len(a) = Len(q) + 1 /\ Len(q) \in Nat
        /\ DOMAIN a = DOMAIN q \cup {Len(q) + 1} /\ DOMAIN q = 1..Len(q)
        /\ \A i \in DOMAIN q : a[i] = q[i]
        /\ a[Len(q) + 1] = L + 1
    BY Appended
  <1> HIDE DEF a
  <1>2. Len(a) <= max
    BY <1>1
  <1>3. \A k \in DOMAIN q : q[k] \in S
    BY DEF Least
  <1>4. \A k \in DOMAIN a : a[k] \in S \cup {L + 1}
    BY <1>1, <1>3
  <1>5. ASSUME NEW j \in DOMAIN a, NEW k \in DOMAIN a, j < k  PROVE a[j] < a[k]
    <2>1. j \in DOMAIN q
      BY <1>1, <1>5
    <2>2. CASE k \in DOMAIN q
      BY <1>1, <1>5, <2>1, <2>2 DEF Least
    <2>3. CASE k = Len(q) + 1
      <3>1. a[j] \in 1..L
        BY <1>1, <1>3, <2>1
      <3> QED
        BY <1>1, <2>3, <3>1
    <2> QED
      BY <1>1, <2>2, <2>3
  <1>6. \A i \in S : \E k \in DOMAIN q : q[k] = i
    BY DEF Least
  <1>7. \A i \in S \cup {L + 1} : \E k \in DOMAIN a : a[k] = i
    BY <1>1, <1>6
  <1>8. Least(a, S \cup {L + 1}, max)
    BY <1>2, <1>4, <1>5, <1>7 DEF Least
  <1> QED
    BY <1>8 DEF a

LEMMA LeastFull ==
    ASSUME NEW L \in Nat, NEW S \in SUBSET (1..L), NEW max \in Nat,
           NEW q \in Seq(Nat), Least(q, S, max), Len(q) = max
    PROVE  Least(q, S \cup {L + 1}, max)
  <1>1. \A k \in DOMAIN q : q[k] \in S /\ q[k] < L + 1
    <2>1. \A k \in DOMAIN q : q[k] \in S
      BY DEF Least
    <2> QED
      BY <2>1
  <1> QED
    BY <1>1 DEF Least

LEMMA LeastAdded ==
    ASSUME NEW L \in Nat, NEW S \in SUBSET (1..L), NEW q \in Seq(Nat), Least(q, S, AddrCap)
    PROVE  Least(Added(q, L + 1), S \cup {L + 1}, AddrCap)
  <1>1. Len(q) \in Nat /\ Len(q) <= AddrCap
    BY LenProperties DEF Least
  <1>2. CASE Len(q) = AddrCap
    BY <1>2, LeastFull, Sizes DEF Added
  <1>3. CASE Len(q) < AddrCap
    <2>1. Added(q, L + 1) = Append(q, L + 1)
      BY <1>1, <1>3, Sizes DEF Added
    <2> QED
      BY <1>3, <2>1, LeastAppend, Sizes
  <1> QED
    BY <1>1, <1>2, <1>3, Sizes

LEMMA LeastOfNone == Least(<<>>, {}, AddrCap)
  BY EmptyOnes, Sizes DEF Least

LEMMA AddedBounded ==
    ASSUME NEW q \in SeqOf(1..MaxEntries, AddrCap), NEW a \in 1..MaxEntries
    PROVE  Added(q, a) \in SeqOf(1..MaxEntries, AddrCap)
  <1>1. q \in Seq(1..MaxEntries) /\ Len(q) <= AddrCap /\ Len(q) \in Nat
    BY Bounded, Sizes, LenProperties
  <1>2. CASE Len(q) = AddrCap
    BY <1>2 DEF Added
  <1>3. CASE Len(q) # AddrCap
    <2>1. Append(q, a) \in Seq(1..MaxEntries) /\ Len(Append(q, a)) <= AddrCap
      BY <1>1, <1>3, Appended, Sizes
    <2> QED
      BY <1>3, <2>1, Bounded, Sizes DEF Added
  <1> QED
    BY <1>2, <1>3
----------------------------------------------------------------------------
(* The list and the filters *)

LEMMA Filters ==
    ASSUME NEW e \in Entry  PROVE Interesting(e) <=> e.family # "null" /\ e.flags = Usable
  <1>1. e.flags \subseteq {"LOOPBACK", "UP", "RUNNING"}
    BY InterfacesAssumption DEF Entry
  <1> QED
    BY <1>1 DEF Interesting, Usable

LEMMA Walked ==
    ASSUME Typed, NEW e \in Entry, Walk(e)
    PROVE  /\ Len(list) \in Nat /\ Len(list) + 1 \in 1..MaxEntries /\ DOMAIN list = 1..Len(list)
           /\ list' \in Seq(Entry) /\ Len(list') = Len(list) + 1
           /\ DOMAIN list' = 1..Len(list) \cup {Len(list) + 1}
           /\ \A i \in 1..Len(list) : list'[i] = list[i]
           /\ list'[Len(list) + 1] = e
  <1>1. Len(list) < MaxEntries /\ list' = Append(list, e) /\ Len(list) \in Nat
    BY LenProperties DEF Walk, Typed
  <1>2. Len(list) + 1 \in 1..MaxEntries
    BY <1>1, Sizes
  <1> QED
    BY <1>1, <1>2, Appended DEF Typed

LEMMA WantedBounds ==
    ASSUME Typed
    PROVE  /\ Len(list) \in Nat /\ DOMAIN list = 1..Len(list)
           /\ Wanted \subseteq 1..Len(list) /\ Firsts \subseteq Wanted
           /\ \A n, f : Of(n, f) \subseteq 1..Len(list)
  <1>1. Len(list) \in Nat /\ DOMAIN list = 1..Len(list)
    BY LenProperties DEF Typed
  <1> QED
    BY <1>1 DEF Wanted, Firsts, Of

LEMMA WantedGrows ==
    ASSUME Typed, NEW e \in Entry, Walk(e)
    PROVE  /\ ~Interesting(e) => Wanted' = Wanted /\ Firsts' = Firsts /\ \A n, f : Of(n, f)' = Of(n, f)
           /\ Interesting(e) =>
                 /\ Wanted' = Wanted \cup {Len(list) + 1}
                 /\ Of(e.name, e.family)' = Of(e.name, e.family) \cup {Len(list) + 1}
                 /\ \A n, f : n # e.name \/ f # e.family => Of(n, f)' = Of(n, f)
                 /\ (\E i \in Wanted : list[i].name = e.name) => Firsts' = Firsts
                 /\ (\A i \in Wanted : list[i].name # e.name) => Firsts' = Firsts \cup {Len(list) + 1}
  <1> DEFINE L == Len(list)
  <1>1. /\ L \in Nat /\ DOMAIN list = 1..L /\ DOMAIN list' = 1..L \cup {L + 1}
        /\ \A i \in 1..L : list'[i] = list[i]
        /\ list'[L + 1] = e
    BY Walked
  <1>2. Wanted \subseteq 1..L
    BY WantedBounds
  <1> HIDE DEF L
  <1>3. CASE ~Interesting(e)
    <2>1. ~(e.family # "null" /\ e.flags = Usable)
      BY <1>3, Filters
    <2>2. Wanted' = Wanted
      BY <1>1, <2>1 DEF Wanted
    <2>3. Firsts' = Firsts
      BY <1>1, <1>2, <2>2 DEF Firsts
    <2>4. ASSUME NEW n, NEW f  PROVE Of(n, f)' = Of(n, f)
      BY <1>1, <1>2, <2>2 DEF Of
    <2> QED
      BY <1>3, <2>2, <2>3, <2>4
  <1>4. CASE Interesting(e)
    <2>1. e.family # "null" /\ e.flags = Usable
      BY <1>4, Filters
    <2>2. Wanted' = Wanted \cup {L + 1}
      BY <1>1, <2>1 DEF Wanted
    <2>3. ASSUME NEW n, NEW f
          PROVE  Of(n, f)' = IF n = e.name /\ f = e.family THEN Of(n, f) \cup {L + 1} ELSE Of(n, f)
      BY <1>1, <1>2, <2>2 DEF Of
    <2>4. ASSUME NEW i \in Wanted, list[i].name = e.name  PROVE Firsts' = Firsts
      <3>1. ASSUME NEW k \in Wanted  PROVE k \in Firsts' <=> k \in Firsts
        <4>1. k \in 1..L /\ k <= L + 1 /\ \A j \in Wanted : list'[j] = list[j]
          BY <1>1, <1>2
        <4>2. k \in Firsts' <=> \A j \in Wanted \cup {L + 1} : list'[j].name = list'[k].name => k <= j
          BY <2>2 DEF Firsts
        <4>3. k \in Firsts <=> \A j \in Wanted : list[j].name = list[k].name => k <= j
          BY DEF Firsts
        <4>4. (\A j \in Wanted \cup {L + 1} : list'[j].name = list'[k].name => k <= j)
                 <=> \A j \in Wanted : list[j].name = list[k].name => k <= j
          BY <4>1
        <4> QED
          BY <4>2, <4>3, <4>4
      <3>2. L + 1 \notin Firsts'
        <4>1. i \in Wanted' /\ list'[i].name = list'[L + 1].name /\ ~(L + 1 <= i)
          BY <1>1, <1>2, <2>2, <2>4
        <4> QED
          BY <4>1 DEF Firsts
      <3>3. Firsts' \subseteq Wanted' /\ Firsts \subseteq Wanted
        BY DEF Firsts
      <3> QED
        BY <2>2, <3>1, <3>2, <3>3
    <2>5. ASSUME \A i \in Wanted : list[i].name # e.name  PROVE Firsts' = Firsts \cup {L + 1}
      <3>1. ASSUME NEW k \in Wanted  PROVE k \in Firsts' <=> k \in Firsts
        <4>1. k \in 1..L /\ k <= L + 1
          BY <1>1, <1>2
        <4> QED
          BY <1>1, <1>2, <2>2, <4>1 DEF Firsts
      <3>2. L + 1 \in Firsts'
        <4>1. L + 1 \in Wanted' /\ L + 1 <= L + 1
          BY <1>1, <2>2
        <4>2. ASSUME NEW j \in Wanted', list'[j].name = list'[L + 1].name  PROVE L + 1 <= j
          <5>1. j \notin Wanted
            BY <1>1, <1>2, <2>5, <4>2
          <5> QED
            BY <2>2, <4>1, <5>1
        <4> QED
          BY <4>1, <4>2 DEF Firsts
      <3>3. Firsts' \subseteq Wanted' /\ Firsts \subseteq Wanted
        BY DEF Firsts
      <3> QED
        BY <2>2, <3>1, <3>2, <3>3
    <2> QED
      BY <1>4, <2>2, <2>3, <2>4, <2>5 DEF L
  <1> QED
    BY <1>3, <1>4

LEMMA LinksStayOnce ==
    ASSUME Typed, LinksOnce, NEW e \in Entry, Walk(e)  PROVE LinksOnce'
  <1> DEFINE L == Len(list)
  <1>1. /\ L \in Nat /\ DOMAIN list = 1..L /\ DOMAIN list' = 1..L \cup {L + 1}
        /\ \A i \in 1..L : list'[i] = list[i]
        /\ list'[L + 1] = e
    BY Walked
  <1>2. e.family \in Link => \A i \in 1..L : list[i].name # e.name
    BY <1>1 DEF Walk, After
  <1> HIDE DEF L
  <1> QED
    BY <1>1, <1>2 DEF LinksOnce

----------------------------------------------------------------------------
(* What an entry makes of a slot *)

LEMMA FilledFields ==
    ASSUME Typed, NEW e \in Entry, Walk(e), Interesting(e), NEW slot \in Slot
    PROVE  LET new == Filled(slot, e)
               this == Len(list) + 1
           IN  /\ new \in Slot /\ new.name = e.name /\ new.flags = Usable
               /\ new.stat = IF e.family = "packet" THEN this ELSE slot.stat
               /\ new.inet = IF e.family = "inet" THEN Added(slot.inet, this) ELSE slot.inet
               /\ new.inet6 = IF e.family = "inet6" THEN Added(slot.inet6, this) ELSE slot.inet6
  <1> DEFINE this == Len(list) + 1
             new == Filled(slot, e)
  <1>1. /\ e.flags = Usable /\ e.family # "null" /\ e.name \in Name /\ e.flags \in Flags
        /\ e.family \in {"packet", "inet", "inet6"}
    BY Filters DEF Entry, Link, Address
  <1>2. this \in 1..MaxEntries /\ this \in 0..MaxEntries
    BY Walked
  <1>3. /\ Added(slot.inet, this) \in SeqOf(1..MaxEntries, AddrCap)
        /\ Added(slot.inet6, this) \in SeqOf(1..MaxEntries, AddrCap)
    BY <1>2, AddedBounded DEF Slot
  <1> HIDE DEF this
  <1>4. slot = [name |-> slot.name, flags |-> slot.flags, stat |-> slot.stat,
                inet |-> slot.inet, inet6 |-> slot.inet6]
    BY DEF Slot
  <1>5. CASE e.family = "packet"
    <2>1. new = [[slot EXCEPT !.name = e.name, !.flags = e.flags] EXCEPT !.stat = this]
      BY <1>5 DEF Filled, this
    <2> QED
      BY <1>1, <1>2, <1>5, <2>1 DEF Slot, this
  <1>6. CASE e.family = "inet"
    <2>1. new = [[slot EXCEPT !.name = e.name, !.flags = e.flags] EXCEPT !.inet = Added(slot.inet, this)]
      BY <1>4, <1>6 DEF Filled, this
    <2> QED
      BY <1>1, <1>3, <1>6, <2>1 DEF Slot, this
  <1>7. CASE e.family = "inet6"
    <2>1. new = [[slot EXCEPT !.name = e.name, !.flags = e.flags] EXCEPT !.inet6 = Added(slot.inet6, this)]
      BY <1>4, <1>7 DEF Filled, this
    <2> QED
      BY <1>1, <1>3, <1>7, <2>1 DEF Slot, this
  <1> QED
    BY <1>1, <1>5, <1>6, <1>7
----------------------------------------------------------------------------
(* The steps that fill no slot *)

LEMMA NothingShown ==
    /\ <<>> \in [1..0 -> {}] /\ Least(<<>>, {}, Cap)
    /\ <<>> \in SeqOf(1..MaxEntries, AddrCap)
  <1>1. <<>> \in [1..0 -> {}]
    <2>1. <<>> \in Seq({}) /\ Len(<<>>) = 0
      BY EmptyOnes
    <2>2. <<>> \in [1..Len(<<>>) -> {}]
      BY <2>1, LenProperties
    <2> QED
      BY <2>1, <2>2
  <1>2. <<>> \in SeqOf(1..MaxEntries, AddrCap)
    <2>1. <<>> \in Seq(1..MaxEntries) /\ Len(<<>>) <= AddrCap
      BY EmptyOnes, Sizes
    <2> QED
      BY <2>1, Sizes, Bounded
  <1> QED
    BY <1>1, <1>2, EmptyOnes, Sizes DEF Least

LEMMA InitInvariant == Init => IInv
  <1> SUFFICES ASSUME Init  PROVE IInv
    OBVIOUS
  <1>1. /\ interfaces = [s \in 1..Cap |-> EmptySlot] /\ cnt = 0 /\ status = "idle"
        /\ list = <<>> /\ Len(list) = 0 /\ DOMAIN list = {} /\ list \in Seq(Entry)
    BY EmptyOnes DEF Init
  <1>2. EmptySlot \in Slot
    BY NothingShown, Sizes DEF EmptySlot, NoStats, Slot
  <1>3. Typed
    BY <1>1, <1>2, Sizes DEF Typed
  <1>4. Wanted = {} /\ Firsts = {}
    BY <1>1 DEF Wanted, Firsts
  <1>5. SpareSlotsClean
    BY <1>1 DEF SpareSlotsClean, EmptySlot
  <1>6. ShowsTheList
    BY <1>1, <1>4, NothingShown DEF ShowsTheList
  <1>7. LinksOnce /\ WantedFound /\ OverrunOnlyWhenMore
    BY <1>1, <1>4 DEF LinksOnce, WantedFound, OverrunOnlyWhenMore
  <1> QED
    BY <1>3, <1>5, <1>6, <1>7 DEF IInv

LEMMA ResetFields ==
    ASSUME NEW slot \in Slot
    PROVE  /\ ResetSlot(slot) \in Slot /\ ResetSlot(slot).stat = NoStats
           /\ ResetSlot(slot).inet = <<>> /\ ResetSlot(slot).inet6 = <<>>
  <1>1. <<>> \in SeqOf(1..MaxEntries, AddrCap)
    BY NothingShown
  <1>2. NoStats \in 0..MaxEntries
    BY Sizes DEF NoStats
  <1>3. ResetSlot(slot) = [slot EXCEPT !.stat = NoStats, !.inet = <<>>, !.inet6 = <<>>]
    BY DEF ResetSlot
  <1> QED
    BY <1>1, <1>2, <1>3 DEF Slot

LEMMA UpdateStep == ASSUME IInv, Update PROVE IInv'
  <1> USE DEF IInv
  <1>1. /\ status = "idle" /\ status' = "reading" /\ cnt' = 0
        /\ interfaces' = [s \in 1..Cap |->
                             IF s <= cnt THEN ResetSlot(interfaces[s]) ELSE interfaces[s]]
        /\ list' = <<>> /\ Len(list') = 0 /\ DOMAIN list' = {} /\ list' \in Seq(Entry)
    BY EmptyOnes DEF Update
  <1>2. \A s \in 1..Cap : interfaces[s] \in Slot
    BY DEF Typed
  <1>3. \A s \in 1..Cap : interfaces'[s] \in Slot
    BY <1>1, <1>2, ResetFields
  <1>4. Typed'
    BY <1>1, <1>3, Sizes DEF Typed
  <1>5. ASSUME NEW s \in 1..Cap
        PROVE  interfaces'[s].stat = NoStats /\ interfaces'[s].inet = <<>> /\ interfaces'[s].inet6 = <<>>
    <2>1. CASE s <= cnt
      BY <1>1, <1>2, <2>1, ResetFields
    <2>2. CASE s > cnt
      <3>1. interfaces'[s] = interfaces[s]
        BY <1>1, <2>2, Sizes DEF Typed
      <3> QED
        BY <1>1, <2>2, <3>1 DEF SpareSlotsClean, Live
    <2> QED
      BY <2>1, <2>2, Sizes DEF Typed
  <1>6. SpareSlotsClean'
    BY <1>5 DEF SpareSlotsClean
  <1>7. Wanted' = {} /\ Firsts' = {}
    BY <1>1 DEF Wanted, Firsts
  <1>8. ShowsTheList'
    BY <1>1, <1>7, NothingShown DEF ShowsTheList
  <1>9. LinksOnce' /\ WantedFound' /\ OverrunOnlyWhenMore'
    BY <1>1, <1>7 DEF LinksOnce, WantedFound, OverrunOnlyWhenMore
  <1> QED
    BY <1>4, <1>6, <1>8, <1>9

(* A table that is left alone still shows the list that is left alone. *)
LEMMA SameStep ==
    ASSUME IInv, Terminated \/ UNCHANGED vars \/ UpdateFails \/ Finish
    PROVE  IInv'
  <1> USE DEF IInv
  <1>1. UNCHANGED <<interfaces, cnt, list>>
    BY DEF Terminated, vars, UpdateFails, Finish, table
  <1>2. status' \in {status, "failed"} \/ (status = "reading" /\ status' = "idle")
    BY DEF Terminated, vars, UpdateFails, Finish
  <1>3. (Live' => Live) /\ (status' = "undefined" => status = "undefined")
    BY <1>2 DEF Live
  <1>4. Typed'
    BY <1>1, <1>2 DEF Typed
  <1>5. LinksOnce' /\ SpareSlotsClean'
    BY <1>1, <1>3 DEF LinksOnce, SpareSlotsClean
  <1>6. Wanted' = Wanted /\ Firsts' = Firsts /\ \A n, f : Of(n, f)' = Of(n, f)
    BY <1>1 DEF Wanted, Firsts, Of
  <1>7. WantedFound'
    BY <1>1, <1>3, <1>6 DEF WantedFound
  <1>8. ShowsTheList'
    BY <1>1, <1>3, <1>6 DEF ShowsTheList, Shows, Live
  <1>9. OverrunOnlyWhenMore'
    BY <1>3, <1>6 DEF OverrunOnlyWhenMore
  <1> QED
    BY <1>4, <1>5, <1>7, <1>8, <1>9

LEMMA SkipStep == ASSUME IInv, NEW e \in Entry, Skip(e) PROVE IInv'
  <1> USE DEF IInv
  <1>1. Walk(e) /\ ~Interesting(e) /\ status = "reading" /\ UNCHANGED <<interfaces, cnt, status>>
    BY DEF Skip, Walk, table
  <1>2. /\ Len(list) \in Nat /\ Len(list) + 1 \in 1..MaxEntries /\ DOMAIN list = 1..Len(list)
        /\ list' \in Seq(Entry) /\ Len(list') = Len(list) + 1
        /\ \A i \in 1..Len(list) : list'[i] = list[i]
    BY <1>1, Walked
  <1>3. Wanted' = Wanted /\ Firsts' = Firsts /\ \A n, f : Of(n, f)' = Of(n, f)
    BY <1>1, WantedGrows
  <1>4. Wanted \subseteq 1..Len(list) /\ Firsts \subseteq 1..Len(list)
    BY WantedBounds
  <1>5. Typed'
    BY <1>1, <1>2 DEF Typed
  <1>6. LinksOnce' /\ SpareSlotsClean' /\ OverrunOnlyWhenMore'
    BY <1>1, LinksStayOnce DEF SpareSlotsClean, OverrunOnlyWhenMore, Live
  <1>7. WantedFound'
    BY <1>1, <1>2, <1>3, <1>4 DEF WantedFound, Live
  <1>8. ShowsTheList'
    <2>1. PICK shown \in [1..cnt -> Firsts] :
             /\ Least(shown, Firsts, Cap)
             /\ \A k \in 1..cnt : Shows(interfaces[k], list[shown[k]].name)
      BY <1>1 DEF ShowsTheList
    <2>2. \A k \in 1..cnt : list'[shown[k]] = list[shown[k]]
      BY <1>2, <1>4, <2>1
    <2>3. ASSUME NEW k \in 1..cnt  PROVE Shows(interfaces[k], list[shown[k]].name)'
      <3>1. Shows(interfaces[k], list[shown[k]].name)
        BY <2>1
      <3> QED
        BY <1>1, <1>3, <2>2, <3>1 DEF Shows
    <2> QED
      BY <1>1, <1>3, <2>1, <2>3 DEF ShowsTheList
  <1> QED
    BY <1>5, <1>6, <1>7, <1>8
----------------------------------------------------------------------------
(* The steps that fill a slot *)

(* A slot that shows what there is of a name so far shows it with the next *)
(* entry of that name.                                                     *)
LEMMA FillShows ==
    ASSUME Typed, NEW e \in Entry, Walk(e), Interesting(e), NEW slot \in Slot,
           Of(e.name, "packet") = {} => slot.stat = NoStats,
           \A i \in Of(e.name, "packet") : slot.stat = i,
           Least(slot.inet, Of(e.name, "inet"), AddrCap),
           Least(slot.inet6, Of(e.name, "inet6"), AddrCap),
           e.family = "packet" => Of(e.name, "packet") = {}
    PROVE  LET new == Filled(slot, e)
           IN  /\ new \in Slot /\ new.name = e.name /\ new.flags = Usable
               /\ Of(e.name, "packet")' = {} => new.stat = NoStats
               /\ \A i \in Of(e.name, "packet")' : new.stat = i
               /\ Least(new.inet, Of(e.name, "inet")', AddrCap)
               /\ Least(new.inet6, Of(e.name, "inet6")', AddrCap)
  <1> DEFINE new == Filled(slot, e)
             this == Len(list) + 1
  <1>1. /\ new \in Slot /\ new.name = e.name /\ new.flags = Usable
        /\ new.stat = IF e.family = "packet" THEN this ELSE slot.stat
        /\ new.inet = IF e.family = "inet" THEN Added(slot.inet, this) ELSE slot.inet
        /\ new.inet6 = IF e.family = "inet6" THEN Added(slot.inet6, this) ELSE slot.inet6
    BY FilledFields
  <1>2. /\ Of(e.name, e.family)' = Of(e.name, e.family) \cup {this}
        /\ \A f : f # e.family => Of(e.name, f)' = Of(e.name, f)
    BY WantedGrows
  <1>3. slot.inet \in Seq(Nat) /\ slot.inet6 \in Seq(Nat)
    <2>1. ASSUME NEW q \in SeqOf(1..MaxEntries, AddrCap)  PROVE q \in Seq(Nat)
      <3>1. q \in Seq(1..MaxEntries)
        BY Bounded, Sizes
      <3>2. q \in [1..Len(q) -> 1..MaxEntries] /\ Len(q) \in Nat
        BY <3>1, LenProperties
      <3>3. 1..MaxEntries \subseteq Nat
        OBVIOUS
      <3>4. q \in [1..Len(q) -> Nat]
        BY <3>2, <3>3
      <3> QED
        BY <3>2, <3>4, SeqDef
    <2> QED
      BY <2>1 DEF Slot
  <1>4. Len(list) \in Nat /\ \A n, f : Of(n, f) \subseteq 1..Len(list)
    BY WantedBounds
  <1>5. /\ Least(Added(slot.inet, this), Of(e.name, "inet") \cup {this}, AddrCap)
        /\ Least(Added(slot.inet6, this), Of(e.name, "inet6") \cup {this}, AddrCap)
    BY <1>3, <1>4, LeastAdded
  <1> HIDE DEF new, this
  <1>6. Of(e.name, "packet")' = {} => new.stat = NoStats
    BY <1>1, <1>2
  <1>7. \A i \in Of(e.name, "packet")' : new.stat = i
    BY <1>1, <1>2
  <1>8. /\ Least(new.inet, Of(e.name, "inet")', AddrCap)
        /\ Least(new.inet6, Of(e.name, "inet6")', AddrCap)
    BY <1>1, <1>2, <1>5
  <1> QED
    BY <1>1, <1>6, <1>7, <1>8 DEF new

LEMMA AddToKnownStep == ASSUME IInv, NEW e \in Entry, AddToKnown(e) PROVE IInv'
  <1> USE DEF IInv
  <1>1. /\ Walk(e) /\ Interesting(e) /\ status = "reading"
        /\ UNCHANGED <<cnt, status>>
    BY DEF AddToKnown, Walk
  <1>2. PICK s \in Slots(e.name) : interfaces' = [interfaces EXCEPT ![s] = Filled(@, e)]
    BY DEF AddToKnown
  <1>3. s \in 1..cnt /\ interfaces[s].name = e.name
    BY <1>2 DEF Slots
  <1>4. 1..cnt \subseteq 1..Cap /\ interfaces \in [1..Cap -> Slot] /\ cnt \in Nat
    BY Sizes DEF Typed
  <1>5. interfaces'[s] = Filled(interfaces[s], e) /\ \A k \in 1..Cap : k # s => interfaces'[k] = interfaces[k]
    BY <1>2, <1>3, <1>4
  <1>6. /\ Len(list) \in Nat /\ Len(list) + 1 \in 1..MaxEntries /\ DOMAIN list = 1..Len(list)
        /\ list' \in Seq(Entry) /\ Len(list') = Len(list) + 1
        /\ \A i \in 1..Len(list) : list'[i] = list[i]
        /\ list'[Len(list) + 1] = e
    BY <1>1, Walked
  <1>7. Wanted \subseteq 1..Len(list) /\ Firsts \subseteq Wanted
    BY WantedBounds
  <1>8. PICK shown \in [1..cnt -> Firsts] :
           /\ Least(shown, Firsts, Cap)
           /\ \A k \in 1..cnt : Shows(interfaces[k], list[shown[k]].name)
    BY <1>1 DEF ShowsTheList
  <1>9. shown[s] \in Wanted /\ list[shown[s]].name = e.name
    BY <1>3, <1>7, <1>8 DEF Shows
  <1>10. /\ Wanted' = Wanted \cup {Len(list) + 1} /\ Firsts' = Firsts
         /\ \A n, f : n # e.name => Of(n, f)' = Of(n, f)
    BY <1>1, <1>9, WantedGrows
  <1>11. e.family # "packet"
    BY <1>1, <1>6, <1>7, <1>9 DEF Walk, After, Link
  <1>12. LET new == interfaces'[s]
         IN  /\ new \in Slot /\ new.name = e.name /\ new.flags = Usable
             /\ Of(e.name, "packet")' = {} => new.stat = NoStats
             /\ \A i \in Of(e.name, "packet")' : new.stat = i
             /\ Least(new.inet, Of(e.name, "inet")', AddrCap)
             /\ Least(new.inet6, Of(e.name, "inet6")', AddrCap)
    <2>1. Shows(interfaces[s], e.name) /\ interfaces[s] \in Slot
      BY <1>3, <1>4, <1>8, <1>9
    <2>2. /\ Of(e.name, "packet") = {} => interfaces[s].stat = NoStats
          /\ \A i \in Of(e.name, "packet") : interfaces[s].stat = i
          /\ Least(interfaces[s].inet, Of(e.name, "inet"), AddrCap)
          /\ Least(interfaces[s].inet6, Of(e.name, "inet6"), AddrCap)
      BY <2>1 DEF Shows
    <2>3. Typed /\ interfaces'[s] = Filled(interfaces[s], e)
          /\ (e.family = "packet" => Of(e.name, "packet") = {})
      BY <1>5, <1>11
    <2> HIDE DEF IInv
    <2> QED
      BY <1>1, <2>1, <2>2, <2>3, FillShows, SMTT(30)
  <1>13. Typed'
    <2>1. \A k \in 1..Cap : interfaces'[k] \in Slot
      BY <1>4, <1>5, <1>12
    <2>2. interfaces' \in [1..Cap -> Slot]
      BY <1>2, <1>4, <2>1
    <2> QED
      BY <1>1, <1>6, <2>2 DEF Typed
  <1>14. LinksOnce'
    BY <1>1, LinksStayOnce
  <1>15. SpareSlotsClean'
    <2>1. \A k \in 1..Cap : k > cnt => k # s
      BY <1>3, <1>4
    <2> QED
      BY <1>1, <1>5, <2>1 DEF SpareSlotsClean, Live
  <1>16. \A k \in 1..cnt : interfaces'[k].name = interfaces[k].name
    BY <1>3, <1>4, <1>5, <1>12
  <1>17. WantedFound'
    <2>1. \A i \in Wanted : \E k \in 1..cnt : interfaces[k].name = list[i].name
      BY <1>1 DEF WantedFound, Live
    <2>2. \A i \in Wanted : \E k \in 1..cnt : interfaces'[k].name = list'[i].name
      BY <1>6, <1>7, <1>16, <2>1
    <2>3. \E k \in 1..cnt : interfaces'[k].name = list'[Len(list) + 1].name
      BY <1>3, <1>6, <1>16
    <2> QED
      BY <1>1, <1>10, <2>2, <2>3 DEF WantedFound
  <1>18. ShowsTheList'
    <2>1. \A k \in 1..cnt : list'[shown[k]] = list[shown[k]]
      BY <1>6, <1>7, <1>8
    <2>2. ASSUME NEW k \in 1..cnt  PROVE Shows(interfaces[k], list[shown[k]].name)'
      <3>1. CASE k = s
        <4>1. list'[shown[k]].name = e.name
          BY <1>9, <2>1, <3>1
        <4> QED
          BY <1>12, <3>1, <4>1 DEF Shows
      <3>2. CASE k # s
        <4>1. list[shown[k]].name # e.name
          <5> SUFFICES ASSUME list[shown[k]].name = list[shown[s]].name  PROVE FALSE
            BY <1>9
          <5>1. shown[k] \in Firsts /\ shown[s] \in Firsts
            BY <1>3, <1>8
          <5>2. shown[k] <= shown[s] /\ shown[s] <= shown[k]
            BY <5>1 DEF Firsts
          <5>3. shown[k] \in Nat /\ shown[s] \in Nat
            <6>1. shown[k] \in 1..Len(list) /\ shown[s] \in 1..Len(list)
              BY <1>7, <5>1
            <6> QED
              BY <1>6, <6>1
          <5>4. k < s \/ s < k
            BY <1>3, <1>4, <3>2
          <5>5. shown[k] < shown[s] \/ shown[s] < shown[k]
            BY <1>3, <1>8, <5>4 DEF Least
          <5> QED
            BY <5>2, <5>3, <5>5
        <4>2. Shows(interfaces[k], list[shown[k]].name)
          BY <1>8
        <4>3. interfaces'[k] = interfaces[k] /\ list'[shown[k]] = list[shown[k]]
          BY <1>4, <1>5, <2>1, <3>2
        <4>4. PICK n : n = list[shown[k]].name
          OBVIOUS
        <4>5. Shows(interfaces[k], n) /\ \A f : Of(n, f)' = Of(n, f)
          BY <1>10, <4>1, <4>2, <4>4
        <4>6. Shows(interfaces[k], n)'
          BY <4>3, <4>5 DEF Shows
        <4>7. list'[shown[k]].name = n
          BY <4>3, <4>4
        <4> QED
          BY <4>6, <4>7
      <3> QED
        BY <3>1, <3>2
    <2> QED
      BY <1>1, <1>8, <1>10, <2>2 DEF ShowsTheList
  <1>19. OverrunOnlyWhenMore'
    BY <1>1 DEF OverrunOnlyWhenMore
  <1> QED
    BY <1>13, <1>14, <1>15, <1>17, <1>18, <1>19
(* The first entries of the names shown, with the next one, when its name  *)
(* is not in the table: one position for each, in their order.             *)
LEMMA ShownAndNext ==
    ASSUME IInv, NEW e \in Entry, Walk(e), Interesting(e), Slots(e.name) = {},
           NEW shown \in [1..cnt -> Firsts], Least(shown, Firsts, Cap)
    PROVE  /\ shown \in Seq(Nat) /\ Len(shown) = cnt
           /\ \A i \in Wanted : list[i].name # e.name
           /\ Firsts' = Firsts \cup {Len(list) + 1}
           /\ Firsts \in SUBSET (1..Len(list)) /\ Len(list) \in Nat
           /\ Append(shown, Len(list) + 1) \in [1..(cnt + 1) -> Firsts']
  <1> USE DEF IInv
  <1>1. status = "reading" /\ cnt \in Nat
    BY Sizes DEF Walk, Typed
  <1>2. \A i \in Wanted : list[i].name # e.name
    BY <1>1 DEF WantedFound, Live, Slots
  <1>3. Firsts' = Firsts \cup {Len(list) + 1}
    BY <1>2, WantedGrows
  <1>4. Firsts \subseteq 1..Len(list) /\ Len(list) \in Nat
    BY WantedBounds
  <1>5. shown \in Seq(Firsts) /\ shown \in Seq(Nat) /\ Len(shown) = cnt
    <2>1. shown \in [1..cnt -> Nat]
      <3>1. Firsts \subseteq Nat
        BY <1>4
      <3> QED
        BY <3>1
    <2>2. shown \in Seq(Firsts) /\ shown \in Seq(Nat)
      BY <1>1, <2>1, SeqDef
    <2>3. DOMAIN shown = 1..Len(shown) /\ Len(shown) \in Nat /\ DOMAIN shown = 1..cnt
      BY <2>1, <2>2, LenProperties
    <2> QED
      BY <1>1, <2>2, <2>3
  <1>6. shown \in Seq(Firsts') /\ Len(list) + 1 \in Firsts'
    <2>1. shown \in [1..cnt -> Firsts']
      BY <1>3
    <2> QED
      BY <1>1, <1>3, <2>1, SeqDef
  <1>7. Append(shown, Len(list) + 1) \in Seq(Firsts') /\ Len(Append(shown, Len(list) + 1)) = cnt + 1
    BY <1>5, <1>6, Appended
  <1>8. Append(shown, Len(list) + 1) \in [1..(cnt + 1) -> Firsts']
    BY <1>7, LenProperties
  <1> QED
    BY <1>2, <1>3, <1>4, <1>5, <1>8

LEMMA AddNewStep == ASSUME IInv, NEW e \in Entry, AddNew(e) PROVE IInv'
  <1> USE DEF IInv
  <1> DEFINE s == cnt + 1
  <1>1. /\ Walk(e) /\ Interesting(e) /\ status = "reading" /\ UNCHANGED status
        /\ Slots(e.name) = {} /\ cnt < Cap /\ cnt' = s
        /\ interfaces' = [interfaces EXCEPT ![s] = Filled(@, e)]
    BY DEF AddNew, Walk
  <1>2. /\ cnt \in Nat /\ s \in 1..Cap /\ 1..s \subseteq 1..Cap /\ 1..s = 1..cnt \cup {s}
        /\ s \notin 1..cnt
    BY <1>1, Sizes DEF Typed
  <1>3. interfaces \in [1..Cap -> Slot]
    BY DEF Typed
  <1>4. interfaces'[s] = Filled(interfaces[s], e) /\ \A k \in 1..Cap : k # s => interfaces'[k] = interfaces[k]
    BY <1>1, <1>2, <1>3
  <1>5. /\ Len(list) \in Nat /\ Len(list) + 1 \in 1..MaxEntries /\ DOMAIN list = 1..Len(list)
        /\ list' \in Seq(Entry) /\ Len(list') = Len(list) + 1
        /\ \A i \in 1..Len(list) : list'[i] = list[i]
        /\ list'[Len(list) + 1] = e
    BY <1>1, Walked
  <1>6. Wanted \subseteq 1..Len(list) /\ Firsts \subseteq Wanted
    BY WantedBounds
  <1>7. PICK shown \in [1..cnt -> Firsts] :
           /\ Least(shown, Firsts, Cap)
           /\ \A k \in 1..cnt : Shows(interfaces[k], list[shown[k]].name)
    BY <1>1 DEF ShowsTheList
  <1>8. /\ shown \in Seq(Nat) /\ Len(shown) = cnt
        /\ \A i \in Wanted : list[i].name # e.name
        /\ Firsts' = Firsts \cup {Len(list) + 1}
        /\ Firsts \in SUBSET (1..Len(list))
        /\ Append(shown, Len(list) + 1) \in [1..s -> Firsts']
    BY <1>1, <1>7, ShownAndNext
  <1>9. /\ Wanted' = Wanted \cup {Len(list) + 1}
        /\ \A n, f : n # e.name => Of(n, f)' = Of(n, f)
    BY <1>1, WantedGrows
  <1>10. \A f : Of(e.name, f) = {}
    BY <1>8 DEF Of
  <1>11. LET new == interfaces'[s]
         IN  /\ new \in Slot /\ new.name = e.name /\ new.flags = Usable
             /\ Of(e.name, "packet")' = {} => new.stat = NoStats
             /\ \A i \in Of(e.name, "packet")' : new.stat = i
             /\ Least(new.inet, Of(e.name, "inet")', AddrCap)
             /\ Least(new.inet6, Of(e.name, "inet6")', AddrCap)
    <2>1. interfaces[s] \in Slot
      BY <1>2, <1>3
    <2>2. interfaces[s].stat = NoStats /\ interfaces[s].inet = <<>> /\ interfaces[s].inet6 = <<>>
      BY <1>1, <1>2 DEF SpareSlotsClean, Live
    <2>3. /\ Of(e.name, "packet") = {} => interfaces[s].stat = NoStats
          /\ \A i \in Of(e.name, "packet") : interfaces[s].stat = i
          /\ Least(interfaces[s].inet, Of(e.name, "inet"), AddrCap)
          /\ Least(interfaces[s].inet6, Of(e.name, "inet6"), AddrCap)
      BY <1>10, <2>2, LeastOfNone
    <2>4. Typed /\ interfaces'[s] = Filled(interfaces[s], e)
          /\ (e.family = "packet" => Of(e.name, "packet") = {})
      BY <1>4, <1>10
    <2> HIDE DEF s, IInv
    <2> QED
      BY <1>1, <2>1, <2>3, <2>4, FillShows, SMTT(30)
  <1>12. Typed'
    <2>1. \A k \in 1..Cap : interfaces'[k] \in Slot
      BY <1>3, <1>4, <1>11
    <2>2. interfaces' \in [1..Cap -> Slot]
      BY <1>1, <1>3, <2>1
    <2>3. cnt' \in 0..Cap
      BY <1>1, <1>2, Sizes
    <2> QED
      BY <1>1, <1>5, <2>2, <2>3 DEF Typed
  <1>13. LinksOnce'
    BY <1>1, LinksStayOnce
  <1>14. SpareSlotsClean'
    <2>1. \A k \in 1..Cap : k > s => k > cnt /\ k # s
      BY <1>2
    <2>2. \A k \in 1..Cap : k > s => interfaces'[k] = interfaces[k]
      BY <1>4, <2>1
    <2> QED
      BY <1>1, <2>1, <2>2 DEF SpareSlotsClean, Live
  <1>15. \A k \in 1..cnt : interfaces'[k] = interfaces[k]
    BY <1>2, <1>4
  <1>16. WantedFound'
    <2>1. \A i \in Wanted : \E k \in 1..cnt : interfaces[k].name = list[i].name
      BY <1>1 DEF WantedFound, Live
    <2>2. \A i \in Wanted : \E k \in 1..cnt : interfaces'[k].name = list'[i].name
      BY <1>5, <1>6, <1>15, <2>1
    <2>3. interfaces'[s].name = list'[Len(list) + 1].name
      BY <1>5, <1>11
    <2> HIDE DEF s
    <2> QED
      BY <1>1, <1>2, <1>9, <2>2, <2>3 DEF WantedFound
  <1>17. ShowsTheList'
    <2> DEFINE L == Len(list)
    <2>1. PICK next \in [1..s -> Firsts'] : next = Append(shown, L + 1)
      BY <1>8
    <2>2. Least(next, Firsts', Cap)
      BY <1>1, <1>5, <1>7, <1>8, <2>1, LeastAppend, Sizes
    <2>3. next[s] = L + 1 /\ \A k \in 1..cnt : next[k] = shown[k]
      BY <1>5, <1>8, <2>1, Appended
    <2> HIDE DEF s, L
    <2>4. ASSUME NEW k \in 1..s  PROVE Shows(interfaces[k], list[next[k]].name)'
      <3>1. CASE k = s
        <4>1. list'[next[k]].name = e.name
          BY <1>5, <2>3, <3>1 DEF L
        <4> QED
          BY <1>11, <3>1, <4>1 DEF Shows
      <3>2. CASE k \in 1..cnt
        <4>1. PICK n : n = list[shown[k]].name
          OBVIOUS
        <4>2. shown[k] \in Wanted /\ list'[shown[k]] = list[shown[k]]
          BY <1>5, <1>6, <1>7, <3>2
        <4>3. n # e.name
          BY <1>8, <4>1, <4>2
        <4>4. Shows(interfaces[k], n) /\ \A f : Of(n, f)' = Of(n, f)
          BY <1>7, <1>9, <3>2, <4>1, <4>3
        <4>5. Shows(interfaces[k], n)'
          BY <1>15, <3>2, <4>4 DEF Shows
        <4>6. list'[next[k]].name = n
          BY <2>3, <3>2, <4>1, <4>2
        <4> QED
          BY <4>5, <4>6
      <3> QED
        BY <1>2, <3>1, <3>2
    <2> QED
      BY <1>1, <2>1, <2>2, <2>4 DEF ShowsTheList
  <1>18. OverrunOnlyWhenMore'
    BY <1>1 DEF OverrunOnlyWhenMore
  <1> QED
    BY <1>12, <1>13, <1>14, <1>16, <1>17, <1>18

(* Behind the end of the array goes the first entry of a name while there  *)
(* is one in each slot.                                                    *)
LEMMA AddPastEndStep == ASSUME IInv, NEW e \in Entry, AddPastEnd(e) PROVE IInv'
  <1> USE DEF IInv
  <1>1. /\ Walk(e) /\ Interesting(e) /\ status = "reading" /\ status' = "undefined"
        /\ Slots(e.name) = {} /\ cnt = Cap /\ UNCHANGED <<interfaces, cnt>>
    BY DEF AddPastEnd, Walk, table
  <1>2. PICK shown \in [1..cnt -> Firsts] : Least(shown, Firsts, Cap)
    BY <1>1 DEF ShowsTheList
  <1>3. /\ shown \in Seq(Nat) /\ Len(shown) = cnt
        /\ Firsts' = Firsts \cup {Len(list) + 1}
        /\ Firsts \in SUBSET (1..Len(list)) /\ Len(list) \in Nat
        /\ Append(shown, Len(list) + 1) \in [1..(cnt + 1) -> Firsts']
    BY <1>1, <1>2, ShownAndNext
  <1>4. PICK next \in [1..(Cap + 1) -> Firsts'] : next = Append(shown, Len(list) + 1)
    BY <1>1, <1>3
  <1>5. next[Cap + 1] = Len(list) + 1 /\ \A k \in 1..Cap : next[k] = shown[k]
    BY <1>1, <1>3, <1>4, Appended
  <1>6. \A k \in 1..Cap : shown[k] \in 1..Len(list)
    BY <1>1, <1>2, <1>3
  <1>7. ASSUME NEW j \in 1..(Cap + 1), NEW k \in 1..(Cap + 1), j < k  PROVE next[j] # next[k]
    <2>1. j \in 1..Cap
      BY <1>7, Sizes
    <2>2. CASE k = Cap + 1
      BY <1>3, <1>5, <1>6, <2>1, <2>2
    <2>3. CASE k \in 1..Cap
      <3>1. shown[j] < shown[k]
        BY <1>1, <1>2, <1>7, <2>1, <2>3 DEF Least
      <3> QED
        BY <1>5, <1>6, <2>1, <2>3, <3>1
    <2> QED
      BY <2>2, <2>3, Sizes
  <1>8. next \in Injection(1..(Cap + 1), Firsts')
    <2>1. ASSUME NEW j \in 1..(Cap + 1), NEW k \in 1..(Cap + 1), next[j] = next[k]  PROVE j = k
      <3>1. ~(j < k) /\ ~(k < j)
        BY <1>7, <2>1
      <3> QED
        BY <3>1, Sizes
    <2> QED
      BY <1>4, <2>1 DEF Injection, IsInjective
  <1>9. IsFiniteSet(Firsts')
    <2>1. IsFiniteSet(1..(Len(list) + 1)) /\ Firsts' \subseteq 1..(Len(list) + 1)
      <3>1. 1 \in Int /\ Len(list) + 1 \in Int
        BY <1>3
      <3>2. IsFiniteSet(1..(Len(list) + 1))
        BY <3>1, FS_Interval
      <3>3. 1..(Len(list) + 1) = 1..Len(list) \cup {Len(list) + 1}
        BY <1>3
      <3> QED
        BY <1>3, <3>2, <3>3
    <2> QED
      BY <2>1, FS_Subset
  <1>10. Cardinality(1..(Cap + 1)) = Cap + 1
    <2>1. 1 \in Int /\ Cap + 1 \in Int
      BY Sizes
    <2> QED
      BY <2>1, Sizes, FS_Interval
  <1>11. Cardinality(Firsts') > Cap
    <2>1. Cardinality(1..(Cap + 1)) <= Cardinality(Firsts')
      BY <1>8, <1>9, FS_Injection
    <2>2. Cardinality(Firsts') \in Nat
      BY <1>9, FS_CardinalityType
    <2> QED
      BY <1>10, <2>1, <2>2, Sizes
  <1>12. OverrunOnlyWhenMore'
    BY <1>11 DEF OverrunOnlyWhenMore
  <1>13. Typed'
    BY <1>1, Walked DEF Typed
  <1>14. LinksOnce'
    BY <1>1, LinksStayOnce
  <1>15. SpareSlotsClean' /\ WantedFound' /\ ShowsTheList'
    BY <1>1 DEF SpareSlotsClean, WantedFound, ShowsTheList, Live
  <1> QED
    BY <1>12, <1>13, <1>14, <1>15

LEMMA NextInvariant == ASSUME IInv, [Next]_vars PROVE IInv'
  BY UpdateStep, SkipStep, AddToKnownStep, AddNewStep, AddPastEndStep, SameStep DEF Next

----------------------------------------------------------------------------
(* The theorems *)

(* The inductive invariant: besides what is promised of the table, the     *)
(* slots that are not in use hold nothing of an earlier update             *)
(* (Interfaces::clear), and operator[] finds every interface seen so far.  *)
THEOREM Invariant == Spec => []IInv
  <1>1. Init => IInv
    BY InitInvariant
  <1>2. IInv /\ [Next]_vars => IInv'
    BY NextInvariant
  <1> QED
    BY <1>1, <1>2, PTL DEF Spec

(* Types; the arrays of addresses, which ipv4_addrs::add and               *)
(* ipv6_addrs::add fill, are never overrun.                                *)
THEOREM TypeCorrect == Spec => []TypeOK
  <1>1. IInv => TypeOK
    BY DEF IInv, Typed, TypeOK
  <1> QED
    BY <1>1, Invariant, PTL

(* After every entry Interfaces::update has walked over, the table shows   *)
(* the usable interfaces in the order of their first entry, each with its  *)
(* first addresses and its own statistics, and nothing of an update before.*)
THEOREM TableShowsTheList == Spec => []ShowsTheList
  <1>1. IInv => ShowsTheList
    BY DEF IInv
  <1> QED
    BY <1>1, Invariant, PTL

(* Interfaces::update writes behind the array only on a computer with more *)
(* usable interfaces than the array has slots.                             *)
THEOREM OverrunNeedsMoreInterfaces == Spec => []OverrunOnlyWhenMore
  <1>1. IInv => OverrunOnlyWhenMore
    BY DEF IInv
  <1> QED
    BY <1>1, Invariant, PTL
=============================================================================
