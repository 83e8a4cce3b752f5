--------------------------- MODULE DevicesProofs ---------------------------
(***************************************************************************)
(* Theorems about Devices for any devices, names, models and exclusions:   *)
(* who owns which descriptor while devices come and go, what the battery   *)
(* and the backlight block print, which devices they print, and over which *)
(* they stop.                                                              *)
(***************************************************************************)
EXTENDS Devices, TLAPS, SequenceTheorems, FiniteSetTheorems

----------------------------------------------------------------------------
(* Facts about the vector and the table of descriptors *)

LEMMA FdNumbers == FdMax \in Nat /\ NoFd \notin 1..FdMax
  BY DevicesAssumption DEF NoFd

LEMMA Marks == None \notin Device /\ "dir" # None
  BY DevicesAssumption DEF None

Used == {f \in 1..FdMax : open[f] # None}

LEMMA OpensOne ==
    ASSUME NEW f, NEW what, what # None, what \in Device \cup {"dir"},
           open \in [1..FdMax -> Device \cup {"dir", None}],
           Opens(f, what)
    PROVE  /\ open' \in [1..FdMax -> Device \cup {"dir", None}]
           /\ Used' = Used \cup {f}
           /\ f \notin Used /\ f \in 1..FdMax
  BY DEF Opens, Free, Used

LEMMA ClosesSome ==
    ASSUME NEW S, open' = Closed(S),
           open \in [1..FdMax -> Device \cup {"dir", None}]
    PROVE  /\ open' \in [1..FdMax -> Device \cup {"dir", None}]
           /\ Used' = Used \ S
  BY DEF Closed, Used

(* Moving leaves no descriptor behind: a vector that grows closes nothing. *)
LEMMA NothingClosedByMove == \A entries : ClosedByMove(entries) = {}
  BY DEF ClosedByMove, Owned, LeftBehind

LEMMA EmptyVector == <<>> \in Seq(Entry) /\ Len(<<>>) = 0 /\ Owned(<<>>) = {}
  <1>1. <<>> \in Seq(Entry) /\ Len(<<>>) = 0
    BY EmptySeq
  <1>2. DOMAIN <<>> = {}
    OBVIOUS
  <1> QED
    BY <1>1, <1>2 DEF Owned

Distinct(entries) ==
    \A i, j \in DOMAIN entries : entries[i].fd = entries[j].fd => i = j

LEMMA PushedOne ==
    ASSUME NEW s \in Seq(Entry), NEW e \in Entry, Distinct(s), e.fd \notin Owned(s)
    PROVE  /\ Append(s, e) \in Seq(Entry)
           /\ Owned(Append(s, e)) = Owned(s) \cup {e.fd}
           /\ Distinct(Append(s, e))
           /\ Len(Append(s, e)) = Len(s) + 1
  <1> DEFINE t == Append(s, e)
  <1>1. /\ t \in Seq(Entry)
        /\ Len(s) \in Nat
        /\ Len(t) = Len(s) + 1
        /\ DOMAIN s = 1..Len(s) /\ DOMAIN t = 1..(Len(s) + 1)
        /\ \A i \in 1..Len(s) : t[i] = s[i]
        /\ t[Len(s) + 1] = e
    BY AppendProperties, LenProperties
  <1>2. /\ e.fd # NoFd
        /\ \A i \in DOMAIN s : s[i].fd # NoFd /\ s[i].fd \in Owned(s)
    <2>1. \A i \in DOMAIN s : s[i] \in Entry
      BY ElementOfSeq, <1>1
    <2> QED
      BY <2>1, FdNumbers DEF Entry, Owned
  <1>3. Owned(t) = Owned(s) \cup {e.fd}
    BY <1>1, <1>2 DEF Owned
  <1>4. Distinct(t)
    <2> SUFFICES ASSUME NEW i \in DOMAIN t, NEW j \in DOMAIN t, t[i].fd = t[j].fd
                 PROVE  i = j
      BY DEF Distinct
    <2>1. CASE i \in DOMAIN s /\ j \in DOMAIN s
      BY <1>1, <2>1 DEF Distinct
    <2>2. CASE i \in DOMAIN s /\ j = Len(s) + 1
      BY <1>1, <1>2, <2>2
    <2>3. CASE i = Len(s) + 1 /\ j \in DOMAIN s
      BY <1>1, <1>2, <2>3
    <2>4. CASE i = Len(s) + 1 /\ j = Len(s) + 1
      BY <2>4
    <2> QED
      BY <1>1, <2>1, <2>2, <2>3, <2>4
  <1> QED
    BY <1>1, <1>3, <1>4

LEMMA ReadOne ==
    ASSUME NEW s \in Seq(Entry), NEW n \in DOMAIN s, NEW d \in Device, Distinct(s)
    PROVE  /\ [s EXCEPT ![n].text = d] \in Seq(Entry)
           /\ Owned([s EXCEPT ![n].text = d]) = Owned(s)
           /\ Distinct([s EXCEPT ![n].text = d])
           /\ Len([s EXCEPT ![n].text = d]) = Len(s)
  <1> DEFINE t == [s EXCEPT ![n].text = d]
  <1>1. /\ Len(s) \in Nat /\ DOMAIN s = 1..Len(s)
        /\ \A i \in DOMAIN s : s[i] \in Entry
    BY LenProperties, ElementOfSeq
  <1>2. DOMAIN t = DOMAIN s /\ \A i \in DOMAIN s : t[i] \in Entry /\ t[i].fd = s[i].fd
    BY <1>1 DEF Entry
  <1>3. t \in Seq(Entry) /\ Len(t) = Len(s)
    <2>1. t \in [1..Len(s) -> Entry]
      BY <1>1, <1>2
    <2>2. t \in Seq(Entry)
      BY <1>1, <2>1, SeqDef
    <2>3. Len(t) \in Nat /\ DOMAIN t = 1..Len(t)
      BY <2>2, LenProperties
    <2> QED
      BY <1>1, <1>2, <2>2, <2>3
  <1>4. Owned(t) = Owned(s)
    BY <1>2 DEF Owned
  <1>5. Distinct(t)
    BY <1>2 DEF Distinct
  <1> QED
    BY <1>3, <1>4, <1>5

LEMMA UpdatesBounded ==
    ASSUME NEW requests \in SUBSET {"update", "reload"}, NEW due \in BOOLEAN
    PROVE  /\ Updates(requests, due) \in 0..3
           /\ requests # {} \/ due => Updates(requests, due) # 0
  <1>1. Cardinality({}) = 0
    BY FS_EmptySet
  <1>2. Cardinality({"update"}) = 1 /\ Cardinality({"reload"}) = 1
    BY FS_Singleton
  <1>3. Cardinality({"update", "reload"}) = 2
    <2>1. IsFiniteSet({"update"}) /\ "reload" \notin {"update"}
      BY FS_Singleton
    <2>2. Cardinality({"update"} \cup {"reload"}) = Cardinality({"update"}) + 1
      BY <2>1, FS_AddElement, Zenon
    <2>3. {"update"} \cup {"reload"} = {"update", "reload"}
      OBVIOUS
    <2>4. Cardinality({"update", "reload"}) = Cardinality({"update"}) + 1
      BY <2>2, <2>3
    <2> QED
      BY <1>2, <2>4
  <1>4. \/ requests = {} \/ requests = {"update"} \/ requests = {"reload"}
        \/ requests = {"update", "reload"}
    OBVIOUS
  <1>5. Cardinality(requests) \in 0..2 /\ (requests # {} => Cardinality(requests) \in 1..2)
    <2>1. CASE requests = {}
      BY <1>1, <2>1
    <2>2. CASE requests = {"update"}
      BY <1>2, <2>2
    <2>3. CASE requests = {"reload"}
      BY <1>2, <2>3
    <2>4. CASE requests = {"update", "reload"}
      BY <1>3, <2>4
    <2> QED
      BY <1>4, <2>1, <2>2, <2>3, <2>4
  <1> QED
    BY <1>5 DEF Updates

----------------------------------------------------------------------------
(* The invariant: which local variables hold a descriptor at which place,  *)
(* and that a pass over the devices is only made when one is due.          *)

Locals ==
    /\ pc \in {"idle", "opendir", "update", "print"} => dir_fd = NoFd /\ fd = NoFd
    /\ pc \in {"visit", "second"} => dir_fd # NoFd /\ fd = NoFd
    /\ pc \in {"first", "found"} => dir_fd # NoFd /\ fd # NoFd
    /\ pc = "update" => updates # 0

IInv == TypeOK /\ OneOwner /\ Locals

LEMMA OwnershipRestated ==
    OneOwner <=> /\ Used = Owned(devices) \cup ({dir_fd, fd} \ {NoFd})
                 /\ Distinct(devices)
                 /\ Owned(devices) \cap {dir_fd, fd} = {}
                 /\ fd = dir_fd => fd = NoFd
  BY DEF OneOwner, Used, Distinct

LEMMA OwnershipAfter ==
    ASSUME UNCHANGED devices, Distinct(devices),
           Used' = Owned(devices) \cup ({dir_fd', fd'} \ {NoFd}),
           Owned(devices) \cap {dir_fd', fd'} = {},
           fd' = dir_fd' => fd' = NoFd
    PROVE  OneOwner'
  <1>1. Owned(devices') = Owned(devices)
    OBVIOUS
  <1>2. \A i, j \in DOMAIN devices' : devices'[i].fd = devices'[j].fd => i = j
    BY DEF Distinct
  <1>3. {f \in 1..FdMax : open'[f] # None} = Used'
    BY DEF Used
  <1> QED
    BY <1>1, <1>2, <1>3 DEF OneOwner, Owned

LEMMA InvInit == Init => IInv
  <1> SUFFICES ASSUME Init PROVE IInv
    OBVIOUS
  <1>1. Used = {} /\ open \in [1..FdMax -> Device \cup {"dir", None}]
    BY DEF Init, Used
  <1>2. devices \in Seq(Entry) /\ Len(devices) = 0 /\ Owned(devices) = {}
    BY EmptyVector DEF Init
  <1>3. Distinct(devices)
    BY DEF Init, Distinct
  <1>4. OneOwner
    BY <1>1, <1>2, <1>3, OwnershipRestated DEF Init
  <1>5. TypeOK
    <2>1. devices \in Seq(Entry) /\ next \in 1..(Len(devices) + 1)
      BY <1>2 DEF Init
    <2>2. dir_fd \in 0..FdMax /\ fd \in 0..FdMax /\ updates \in 0..3
      BY FdNumbers DEF Init, NoFd
    <2> QED
      BY <1>1, <2>1, <2>2 DEF Init, TypeOK
  <1> QED
    BY <1>4, <1>5 DEF Init, IInv, Locals

(* A file that is opened belongs to the local fd. *)
LEMMA FileOpened ==
    ASSUME IInv, NEW n, NEW place, OpenFile(n, place), fd = NoFd
    PROVE  /\ open' \in [1..FdMax -> Device \cup {"dir", None}]
           /\ Used' = Used \cup {fd'}
           /\ fd' \notin Used /\ fd' \in 1..FdMax /\ fd' # NoFd
           /\ pc' = place
           /\ n \in Named(Device)
  <1>1. PICK d \in present, f \in Free :
           NameOf[d] = n /\ Opens(f, d) /\ fd' = f /\ pc' = place
    BY DEF OpenFile
  <1>2. d \in Device /\ d # None /\ present \subseteq Device
    BY Marks DEF IInv, TypeOK
  <1>3. open \in [1..FdMax -> Device \cup {"dir", None}]
    BY DEF IInv, TypeOK
  <1>4. /\ open' \in [1..FdMax -> Device \cup {"dir", None}]
        /\ Used' = Used \cup {f}
        /\ f \notin Used /\ f \in 1..FdMax
    BY <1>1, <1>2, <1>3, OpensOne
  <1>5. n \in Named(Device)
    BY <1>1, <1>2 DEF Named
  <1> QED
    BY <1>1, <1>4, <1>5, FdNumbers

(* Of what a failure changes, the invariants are about pc and faulty only. *)
LEMMA StopStep ==
    ASSUME IInv, VisitFails \/ OpenSecondFails \/ ReadFails \/ UpdateFails
    PROVE  /\ pc' = "failed" /\ faulty' \subseteq Device
           /\ UNCHANGED <<present, gone, open, kind, started, updates, todo, dir_fd>>
           /\ UNCHANGED <<name, fd, devices, next, listed>>
  <1> SUFFICES ASSUME NEW culprits, culprits \subseteq present, Stops(culprits)
               PROVE  /\ pc' = "failed" /\ faulty' \subseteq Device
                      /\ UNCHANGED <<present, gone, open, kind, started, updates, todo>>
                      /\ UNCHANGED <<dir_fd, name, fd, devices, next, listed>>
    BY DEF VisitFails, OpenSecondFails, ReadFails, UpdateFails, OpenFails, FileFails
  <1> QED
    BY DEF Stops, IInv, TypeOK

LEMMA LineStep == IInv /\ (BeginLine \/ PrintBlock) => IInv'
  <1> SUFFICES ASSUME IInv PROVE BeginLine \/ PrintBlock => IInv'
    OBVIOUS
  <1> USE DEF IInv
  <1>1. CASE BeginLine
    <2>1. PICK requests \in SUBSET {"update", "reload"}, due \in BOOLEAN :
            Line(requests, due)
      BY <1>1 DEF BeginLine
    <2>2. updates' \in 0..3 /\ (requests # {} => updates' # 0)
      BY <2>1, UpdatesBounded DEF Line
    <2>3. dir_fd = NoFd /\ fd = NoFd /\ dir_fd' = NoFd /\ fd' = NoFd
      BY <1>1 DEF BeginLine, Locals
    <2>4. CASE "reload" \in requests
      <3>1. devices' = <<>> /\ pc' = "opendir"
        BY <2>1, <2>4 DEF Line, Cleared
      <3>2. open' = Closed(Owned(devices))
        BY <2>1, <2>4, <3>1, EmptyVector DEF Line
      <3>3. open' \in [1..FdMax -> Device \cup {"dir", None}] /\ Used' = {}
        BY <3>2, <2>3, ClosesSome, OwnershipRestated DEF TypeOK
      <3>4. devices' \in Seq(Entry) /\ Len(devices') = 0 /\ Owned(devices') = {}
        BY <3>1, EmptyVector
      <3>5. Distinct(devices')
        BY <3>1 DEF Distinct
      <3>6. OneOwner'
        BY <2>3, <3>3, <3>4, <3>5, OwnershipRestated DEF Owned, Distinct, OneOwner, Used
      <3>7. TypeOK'
        BY <1>1, <2>2, <2>3, <3>1, <3>3, <3>4 DEF BeginLine, TypeOK, machine
      <3> QED
        BY <2>3, <3>1, <3>6, <3>7 DEF Locals
    <2>5. CASE "reload" \notin requests
      <3>1. UNCHANGED <<devices, open>> /\ pc' \in {"update", "print"}
            /\ (pc' = "update" => updates' # 0)
        BY <2>1, <2>2, <2>5 DEF Line
      <3>2. OneOwner'
        BY <1>1, <3>1 DEF BeginLine, OneOwner, Owned
      <3>3. 1 \in 1..(Len(devices) + 1)
        BY LenProperties DEF TypeOK
      <3>4. TypeOK'
        BY <1>1, <2>2, <3>1, <3>3 DEF BeginLine, TypeOK, machine
      <3> QED
        BY <2>3, <3>1, <3>2, <3>4 DEF Locals
    <2> QED
      BY <2>4, <2>5
  <1>2. CASE PrintBlock
    BY <1>2 DEF PrintBlock, TypeOK, OneOwner, Owned, Locals, machine
  <1> QED
    BY <1>1, <1>2

LEMMA LoadStep == IInv /\ Load => IInv'
  <1> SUFFICES ASSUME IInv, Load PROVE IInv'
    OBVIOUS
  <1> USE DEF IInv
  <1>1. CASE OpenDir
    <2>1. PICK f \in Free : Opens(f, "dir") /\ dir_fd' = f
      BY <1>1 DEF OpenDir
    <2>2. /\ open' \in [1..FdMax -> Device \cup {"dir", None}]
          /\ Used' = Used \cup {f}
          /\ f \notin Used /\ f \in 1..FdMax
      BY <2>1, OpensOne, Marks DEF TypeOK
    <2>3. fd' = NoFd /\ dir_fd' # NoFd /\ dir_fd = NoFd
      BY <1>1, <2>1, <2>2, FdNumbers DEF OpenDir, Locals
    <2>4. OneOwner'
      BY <1>1, <2>1, <2>2, <2>3, OwnershipRestated DEF OpenDir, OneOwner, Owned, Used
    <2>5. TypeOK'
      BY <1>1, <2>1, <2>2 DEF OpenDir, TypeOK, machine, Named
    <2> QED
      BY <1>1, <2>3, <2>4, <2>5 DEF OpenDir, Locals
  <1>2. CASE Visit
    <2>1. PICK n \in todo : name' = n /\ todo' = todo \ {n} /\ OpenFile(n, "first")
      BY <1>2 DEF Visit
    <2>2. fd = NoFd /\ dir_fd # NoFd
      BY <1>2 DEF Visit, Locals
    <2>3. /\ open' \in [1..FdMax -> Device \cup {"dir", None}]
          /\ Used' = Used \cup {fd'}
          /\ fd' \notin Used /\ fd' \in 1..FdMax /\ fd' # NoFd
          /\ pc' = "first" /\ n \in Named(Device)
      BY <2>1, <2>2, FileOpened
    <2>4. OneOwner'
      BY <1>2, <2>2, <2>3, OwnershipRestated DEF Visit, OneOwner, Owned, Used
    <2>5. TypeOK'
      BY <1>2, <2>1, <2>3 DEF Visit, TypeOK, machine
    <2> QED
      BY <1>2, <2>2, <2>3, <2>4, <2>5 DEF Visit, Locals
  <1>3. CASE ReadFirst
    <2>1. fd # NoFd /\ dir_fd # NoFd /\ fd' = NoFd /\ dir_fd' = dir_fd
      BY <1>3 DEF ReadFirst, Locals
    <2>2. open' \in [1..FdMax -> Device \cup {"dir", None}] /\ Used' = Used \ {fd}
      BY <1>3, ClosesSome DEF ReadFirst, TypeOK
    <2>3. pc' \in {"visit", "second"}
      BY <1>3 DEF ReadFirst
    <2>4. OneOwner'
      <3>1. Used = Owned(devices) \cup {dir_fd, fd} /\ Distinct(devices)
            /\ Owned(devices) \cap {dir_fd, fd} = {} /\ fd # dir_fd
        BY <2>1, OwnershipRestated
      <3>2. NoFd \notin Owned(devices)
        BY DEF Owned
      <3>3. Used' = Owned(devices) \cup ({dir_fd', fd'} \ {NoFd})
        BY <2>1, <2>2, <3>1
      <3>4. UNCHANGED devices
        BY <1>3 DEF ReadFirst
      <3> QED
        BY <2>1, <3>1, <3>2, <3>3, <3>4, OwnershipAfter
    <2>5. TypeOK'
      <3>1. fd' \in 0..FdMax
        BY <2>1, FdNumbers DEF NoFd
      <3> QED
        BY <1>3, <2>2, <2>3, <3>1 DEF ReadFirst, TypeOK, machine
    <2> QED
      BY <2>1, <2>3, <2>4, <2>5 DEF Locals
  <1>4. CASE OpenSecond
    <2>1. fd = NoFd /\ dir_fd # NoFd
      BY <1>4 DEF OpenSecond, Locals
    <2>2. /\ open' \in [1..FdMax -> Device \cup {"dir", None}]
          /\ Used' = Used \cup {fd'}
          /\ fd' \notin Used /\ fd' \in 1..FdMax /\ fd' # NoFd
          /\ pc' = "found"
      BY <1>4, <2>1, FileOpened DEF OpenSecond
    <2>3. OneOwner'
      BY <1>4, <2>1, <2>2, OwnershipRestated DEF OpenSecond, OneOwner, Owned, Used
    <2>4. TypeOK'
      BY <1>4, <2>2 DEF OpenSecond, TypeOK, machine
    <2> QED
      BY <1>4, <2>1, <2>2, <2>3, <2>4 DEF OpenSecond, Locals
  <1>5. CASE MakeBattery \/ MakeBacklight
    <2>1. /\ fd \in 1..FdMax /\ fd # NoFd /\ fd' = NoFd
          /\ dir_fd # NoFd /\ dir_fd' = dir_fd /\ dir_fd # fd
          /\ fd \notin Owned(devices)
          /\ pc' = "visit" /\ updates' = updates
      BY <1>5, FdNumbers DEF MakeBattery, MakeBacklight, Locals, TypeOK, OneOwner, NoFd
    <2>2. open \in [1..FdMax -> Device \cup {"dir", None}]
          /\ devices \in Seq(Entry) /\ Distinct(devices)
      BY DEF TypeOK, OneOwner, Distinct
    <2>3. ASSUME NEW text \in Device \cup {Unread}, Push(text)
          PROVE  /\ open' \in [1..FdMax -> Device \cup {"dir", None}]
                 /\ devices' \in Seq(Entry) /\ Len(devices') = Len(devices) + 1
                 /\ Distinct(devices')
                 /\ Used' = Owned(devices') \cup {dir_fd}
                 /\ dir_fd \notin Owned(devices')
      <3> DEFINE e == [fd |-> fd, text |-> text]
      <3>1. e \in Entry /\ e.fd \notin Owned(devices)
        BY <2>1 DEF Entry
      <3>2. devices' = Append(devices, e)
        BY <2>3 DEF Push, Moved
      <3>3. /\ devices' \in Seq(Entry)
            /\ Owned(devices') = Owned(devices) \cup {fd}
            /\ Distinct(devices')
            /\ Len(devices') = Len(devices) + 1
        BY <2>2, <3>1, <3>2, PushedOne
      <3>4. open' = Closed({})
        BY <2>3, NothingClosedByMove DEF Push
      <3>5. open' \in [1..FdMax -> Device \cup {"dir", None}] /\ Used' = Used
        BY <2>2, <3>4, ClosesSome
      <3>6. Used = Owned(devices) \cup {dir_fd, fd} /\ dir_fd \notin Owned(devices)
        BY <2>1, OwnershipRestated
      <3> QED
        BY <2>1, <3>3, <3>5, <3>6
    <2>4. ASSUME open' = Closed({fd}), UNCHANGED devices
          PROVE  /\ open' \in [1..FdMax -> Device \cup {"dir", None}]
                 /\ devices' \in Seq(Entry) /\ Len(devices') = Len(devices)
                 /\ Distinct(devices')
                 /\ Used' = Owned(devices') \cup {dir_fd}
                 /\ dir_fd \notin Owned(devices')
      <3>1. open' \in [1..FdMax -> Device \cup {"dir", None}] /\ Used' = Used \ {fd}
        BY <2>2, <2>4, ClosesSome
      <3>2. Used = Owned(devices) \cup {dir_fd, fd} /\ dir_fd \notin Owned(devices)
        BY <2>1, OwnershipRestated
      <3> QED
        BY <2>1, <2>2, <2>4, <3>1, <3>2 DEF Distinct
    <2>5. /\ open' \in [1..FdMax -> Device \cup {"dir", None}]
          /\ devices' \in Seq(Entry) /\ Len(devices') \in Nat
          /\ Len(devices') >= Len(devices)
          /\ Distinct(devices')
          /\ Used' = Owned(devices') \cup {dir_fd}
          /\ dir_fd \notin Owned(devices')
      <3>1. Len(devices) \in Nat
        BY <2>2, LenProperties
      <3>2. CASE MakeBacklight
        BY <2>3, <3>1, <3>2 DEF MakeBacklight
      <3>3. CASE MakeBattery
        <4>1. open[fd] \in Device
          BY <3>3 DEF MakeBattery, Readable, TypeOK
        <4> QED
          BY <2>3, <2>4, <3>1, <3>3, <4>1 DEF MakeBattery
      <3> QED
        BY <1>5, <3>2, <3>3
    <2>6. OneOwner'
      BY <2>1, <2>5, OwnershipRestated DEF OneOwner, Used, Owned, Distinct
    <2>7. next' \in 1..(Len(devices') + 1)
      <3>1. next' = next /\ next \in 1..(Len(devices) + 1) /\ Len(devices) \in Nat
        BY <1>5, <2>2, LenProperties DEF MakeBattery, MakeBacklight, TypeOK
      <3> QED
        BY <2>5, <3>1
    <2>8. TypeOK'
      BY <1>5, <2>1, <2>5, <2>7, FdNumbers
        DEF MakeBattery, MakeBacklight, TypeOK, machine, NoFd
    <2> QED
      BY <2>1, <2>6, <2>8 DEF Locals
  <1>6. CASE EndVisit
    <2>1. dir_fd # NoFd /\ fd = NoFd /\ dir_fd' = NoFd /\ fd' = NoFd
      BY <1>6 DEF EndVisit, Locals
    <2>2. open' = Closed({dir_fd})
      BY <1>6, NothingClosedByMove DEF EndVisit
    <2>3. /\ open' \in [1..FdMax -> Device \cup {"dir", None}]
          /\ Used' = Used \ {dir_fd}
      BY <2>2, ClosesSome DEF TypeOK
    <2>4. pc' \in {"update", "idle"} /\ (pc' = "update" => updates' # 0)
      BY <1>6 DEF EndVisit, TypeOK
    <2>5. OneOwner'
      <3>1. Used = Owned(devices) \cup {dir_fd} /\ Distinct(devices)
            /\ dir_fd \notin Owned(devices)
        BY <2>1, OwnershipRestated
      <3>2. NoFd \notin Owned(devices)
        BY DEF Owned
      <3>3. Used' = Owned(devices) \cup ({dir_fd', fd'} \ {NoFd})
        BY <2>1, <2>3, <3>1
      <3>4. UNCHANGED devices
        BY <1>6 DEF EndVisit
      <3> QED
        BY <2>1, <3>1, <3>2, <3>3, <3>4, OwnershipAfter
    <2>6. TypeOK'
      BY <1>6, <2>1, <2>3, <2>4, FdNumbers DEF EndVisit, TypeOK, machine, NoFd
    <2> QED
      BY <2>1, <2>4, <2>5, <2>6 DEF Locals
  <1>7. CASE OpenDirFails \/ VisitFails \/ OpenSecondFails \/ ReadFails
    <2>1. /\ pc' \in {"failed", "no_class"} /\ faulty' \subseteq Device
          /\ UNCHANGED <<present, gone, open, kind, started, updates, todo, dir_fd>>
          /\ UNCHANGED <<name, fd, devices, next, listed>>
      <3>1. CASE OpenDirFails
        BY <3>1 DEF OpenDirFails, machine, TypeOK
      <3> QED
        BY <1>7, <3>1, StopStep
    <2>2. OneOwner'
      BY <2>1 DEF OneOwner, Owned
    <2>3. TypeOK'
      BY <2>1 DEF TypeOK
    <2> QED
      BY <2>1, <2>2, <2>3 DEF Locals
  <1> QED
    BY <1>1, <1>2, <1>3, <1>4, <1>5, <1>6, <1>7 DEF Load

LEMMA UpdateStep == IInv /\ (UpdateDevice \/ UpdateFails \/ EndUpdate) => IInv'
  <1> SUFFICES ASSUME IInv, UpdateDevice \/ UpdateFails \/ EndUpdate PROVE IInv'
    OBVIOUS
  <1> USE DEF IInv
  <1>1. /\ pc = "update" /\ dir_fd = NoFd /\ fd = NoFd /\ dir_fd' = NoFd /\ fd' = NoFd
        /\ updates # 0 /\ UNCHANGED open
    BY StopStep DEF UpdateDevice, UpdateFails, EndUpdate, Locals
  <1>2. devices \in Seq(Entry) /\ Len(devices) \in Nat /\ DOMAIN devices = 1..Len(devices)
    BY LenProperties DEF TypeOK
  <1>3. CASE UpdateDevice
    <2>1. next \in DOMAIN devices /\ next' = next + 1 /\ UNCHANGED updates
      BY <1>3 DEF UpdateDevice
    <2>2. PICK d \in Device : devices' = [devices EXCEPT ![next].text = d]
      BY <1>3 DEF UpdateDevice, Readable, TypeOK
    <2>3. Distinct(devices) /\ Used = Owned(devices)
      BY <1>1, OwnershipRestated
    <2>4. /\ devices' \in Seq(Entry) /\ Len(devices') = Len(devices)
          /\ Owned(devices') = Owned(devices) /\ Distinct(devices')
      BY <1>2, <2>1, <2>2, <2>3, ReadOne
    <2>5. OneOwner'
      <3>1. {f \in 1..FdMax : open'[f] # None} = Owned(devices')
        BY <1>1, <2>3, <2>4 DEF Used
      <3>2. NoFd \notin Owned(devices')
        BY DEF Owned
      <3>3. \A i, j \in DOMAIN devices' : devices'[i].fd = devices'[j].fd => i = j
        BY <2>4 DEF Distinct
      <3> QED
        BY <1>1, <3>1, <3>2, <3>3 DEF OneOwner, Owned
    <2>6. TypeOK'
      <3>1. next' \in 1..(Len(devices') + 1)
        BY <1>2, <2>1, <2>4
      <3> QED
        BY <1>3, <2>4, <3>1 DEF UpdateDevice, TypeOK, machine
    <2> QED
      BY <1>1, <1>3, <2>1, <2>5, <2>6 DEF UpdateDevice, Locals
  <1>4. CASE UpdateFails
    <2>1. /\ pc' = "failed" /\ faulty' \subseteq Device
          /\ UNCHANGED <<present, gone, open, kind, started, updates, todo, dir_fd>>
          /\ UNCHANGED <<name, fd, devices, next, listed>>
      BY <1>4, StopStep
    <2>2. OneOwner'
      BY <2>1 DEF OneOwner, Owned
    <2>3. TypeOK'
      BY <2>1 DEF TypeOK
    <2> QED
      BY <2>1, <2>2, <2>3 DEF Locals
  <1>5. CASE EndUpdate
    <2>1. updates' \in 0..3 /\ next' \in 1..(Len(devices') + 1)
      <3>1. updates \in 1..3 /\ updates' = updates - 1 /\ next' = 1 /\ UNCHANGED devices
        BY <1>1, <1>5 DEF EndUpdate, TypeOK
      <3> QED
        BY <1>2, <3>1
    <2>2. pc' \in {"update", "print"} /\ (pc' = "update" => updates' # 0)
      BY <1>5, <2>1 DEF EndUpdate
    <2>3. OneOwner'
      BY <1>5 DEF EndUpdate, OneOwner, Owned
    <2>4. TypeOK'
      BY <1>5, <2>1, <2>2 DEF EndUpdate, TypeOK, machine
    <2> QED
      BY <1>1, <2>2, <2>3, <2>4 DEF Locals
  <1> QED
    BY <1>3, <1>4, <1>5

(* Plugging and unplugging touches no descriptor of the process. *)
LEMMA MachineStep ==
    ASSUME IInv, (\E d \in Device : Plug(d) \/ Unplug(d)) \/ UNCHANGED vars
    PROVE  IInv'
  <1> USE DEF IInv
  <1>1. UNCHANGED process
    BY DEF Plug, Unplug, vars, process
  <1>2. /\ present' \subseteq Device /\ gone' \subseteq Device \ present'
        /\ faulty' \subseteq Device
    BY DEF Plug, Unplug, vars, machine, TypeOK
  <1>3. TypeOK'
    BY <1>1, <1>2 DEF process, TypeOK
  <1>4. OneOwner'
    BY <1>1 DEF process, OneOwner, Owned
  <1> QED
    BY <1>1, <1>3, <1>4 DEF process, Locals

LEMMA InvStep == IInv /\ [Next]_vars => IInv'
  BY LineStep, LoadStep, UpdateStep, MachineStep DEF Next, Terminated

----------------------------------------------------------------------------
(* The inductive invariant holds in every state of both blocks. *)
THEOREM Invariant == Spec => []IInv
  BY InvInit, InvStep, PTL DEF Spec

(* The variables of the two blocks keep their types, however the devices   *)
(* come and go: in particular the counter of updates never underflows and  *)
(* the loop over the vector stays inside it.                               *)
THEOREM TypeCorrect == Spec => []TypeOK
  <1>1. IInv => TypeOK
    BY DEF IInv
  <1> QED
    BY <1>1, Invariant, PTL

(* For any devices and any order of plugging, loading and updating, each   *)
(* open descriptor has one owner: reloads leak none, and growing or        *)
(* shrinking the vector closes none that an element still reads through.   *)
THEOREM OneOwnerEach == Spec => []OneOwner
  <1>1. IInv => OneOwner
    BY DEF IInv
  <1> QED
    BY <1>1, Invariant, PTL

----------------------------------------------------------------------------
(* What is shown: the second inductive invariant *)

Working == pc \in {"first", "second", "found"}
Reading == pc \in {"first", "found"}
Idling  == pc \in {"idle", "update", "print"}
Loading == pc \in {"opendir", "visit"} \/ Working

(* In a directory a name is taken once; what was there when the directory  *)
(* was read is there still, or it was unplugged.                           *)
MachineInv ==
    /\ \A c, d \in present : NameOf[c] = NameOf[d] => c = d
    /\ listed \subseteq present \cup gone

(* A load looks at every name once, and at no two at a time: the files of  *)
(* the vector are of devices with different names, which are done with and *)
(* none of which is of the excluded model, if they are batteries.          *)
NamesInv ==
    /\ \A f \in Owned(devices) :
          /\ open[f] \in Device /\ NameOf[open[f]] \notin todo
          /\ Working => NameOf[open[f]] # name
    /\ \A f, g \in Owned(devices) : NameOf[open[f]] = NameOf[open[g]] => f = g
    /\ kind = "battery" => \A f \in Owned(devices) : ModelOf[open[f]] # Excluded
    /\ Working => name \notin todo /\ name \in Named(Device)
    /\ Reading => open[fd] \in Device /\ NameOf[open[fd]] = name
    /\ pc = "opendir" => Owned(devices) = {} /\ devices = <<>>
    /\ Idling => todo = {}

(* As long as no listed device was unplugged, a name stands for the device *)
(* listed under it; those that are done with are in the vector exactly if  *)
(* they are to be shown.                                                   *)
Shown == {open[f] : f \in Owned(devices)}
ToShow(d) == kind = "backlight" \/ (d \in Batteries /\ ModelOf[d] # Excluded)
Done(d) == NameOf[d] \notin todo /\ (Working => NameOf[d] # name)

ListedInv ==
    /\ todo \subseteq Named(listed)
    /\ Working => name \in Named(listed)
    /\ Reading => open[fd] \in listed
    /\ Shown \subseteq listed
    /\ \A d \in listed : Done(d) => (d \in Shown <=> ToShow(d))
    /\ pc \in {"second", "found"} /\ kind = "battery" =>
          \A d \in listed : NameOf[d] = name => d \in Batteries

SteadyInv ==
    /\ pc \notin {"opendir", "failed", "no_class"} /\ listed \cap gone = {} => ListedInv
    /\ pc = "failed" => listed \cap (gone \cup faulty) # {}

(* The first line is never begun without an update, nor the one of a       *)
(* reload; an update goes over the vector from its first element.          *)
IsRead(i) == devices[i].text = open[devices[i].fd]
TextInv ==
    /\ kind = "battery" => \A i \in DOMAIN devices : IsRead(i)
    /\ pc = "print" \/ (pc = "idle" /\ started = TRUE) => \A i \in DOMAIN devices : IsRead(i)
    /\ pc = "update" => \A i \in DOMAIN devices : i < next => IsRead(i)
    /\ Loading => next = 1 /\ (started = TRUE => updates # 0)

DataInv == MachineInv /\ NamesInv /\ SteadyInv /\ TextInv

----------------------------------------------------------------------------
(* What the steps of the proof keep needing *)

LEMMA Held ==
    ASSUME IInv, NEW i \in DOMAIN devices
    PROVE  devices[i] \in Entry /\ devices[i].fd \in Owned(devices)
  <1>1. devices[i] \in Entry
    BY ElementOfSeq, LenProperties DEF IInv, TypeOK
  <1> QED
    BY <1>1, FdNumbers DEF Entry, Owned

LEMMA OwnedFds ==
    ASSUME IInv
    PROVE  /\ Owned(devices) \subseteq Used /\ Owned(devices) \subseteq 1..FdMax
           /\ fd \notin Owned(devices) /\ dir_fd \notin Owned(devices)
           /\ open \in [1..FdMax -> Device \cup {"dir", None}]
           /\ devices \in Seq(Entry) /\ Distinct(devices)
  BY OwnershipRestated DEF IInv, TypeOK, Used

(* A step that leaves the vector and its descriptors alone changes nothing *)
(* of what is shown.                                                       *)
Kept == UNCHANGED devices /\ \A f \in Owned(devices) : open'[f] = open[f]

LEMMA KeptShown ==
    ASSUME IInv, Kept
    PROVE  /\ Owned(devices') = Owned(devices) /\ Shown' = Shown
           /\ DOMAIN devices' = DOMAIN devices
           /\ \A i \in DOMAIN devices : IsRead(i)' <=> IsRead(i)
  <1>1. devices' = devices /\ Owned(devices') = Owned(devices)
    BY DEF Kept
  <1>2. Shown' = Shown
    BY <1>1 DEF Shown, Kept
  <1>3. ASSUME NEW i \in DOMAIN devices
        PROVE  IsRead(i)' <=> IsRead(i)
    BY <1>1, Held DEF IsRead, Kept
  <1> QED
    BY <1>1, <1>2, <1>3

LEMMA OpensKeeps ==
    ASSUME IInv, NEW f, NEW what, Opens(f, what), UNCHANGED devices
    PROVE  Kept /\ open'[f] = what
  <1>1. f \in 1..FdMax /\ f \notin Used /\ open' = [open EXCEPT ![f] = what]
    BY DEF Opens, Free, Used
  <1> QED
    BY <1>1, OwnedFds DEF Kept

LEMMA ClosedKeeps ==
    ASSUME IInv, NEW S, S \cap Owned(devices) = {}, open' = Closed(S), UNCHANGED devices
    PROVE  Kept
  BY OwnedFds DEF Kept, Closed

(* Nobody was unplugged: a name is that of one listed device, which is the *)
(* one in the directory now.                                               *)
LEMMA SameDevice ==
    ASSUME MachineInv, listed \cap gone = {}, NEW c \in listed, NEW d \in listed \cup present,
           NameOf[c] = NameOf[d]
    PROVE  c = d
  BY DEF MachineInv

(* A listed device whose name is free was unplugged. *)
LEMMA NameLost ==
    ASSUME MachineInv, NEW n \in Named(listed), n \notin Named(present)
    PROVE  listed \cap gone # {}
  BY DEF MachineInv, Named

LEMMA NamesFinite ==
    IsFiniteSet(Named(Device)) /\ Cardinality(Named(Device)) \in Nat
  <1> DEFINE F == [d \in Device |-> NameOf[d]]
  <1>1. F \in Surjection(Device, Named(Device))
    BY DEF Surjection, Named
  <1>2. IsFiniteSet(Named(Device))
    BY <1>1, FS_Surjection, DevicesAssumption
  <1> QED
    BY <1>2, FS_CardinalityType

(* While a name has no file in the vector a descriptor is free: with its   *)
(* names different the vector is shorter than the directory.               *)
LEMMA SomeFree ==
    ASSUME IInv, NamesInv, NEW n \in Named(Device),
           \A f \in Owned(devices) : NameOf[open[f]] # n,
           fd = NoFd
    PROVE  Free # {}
  <1> SUFFICES ASSUME Free = {}  PROVE FALSE
    OBVIOUS
  <1> DEFINE Others == Named(Device) \ {n}
             F == [f \in Owned(devices) |-> NameOf[open[f]]]
             taken == Owned(devices) \cup {dir_fd}
  <1>1. 1..FdMax \subseteq taken
    BY OwnershipRestated DEF IInv, Free, Used
  <1>2. F \in Injection(Owned(devices), Others)
    BY DEF NamesInv, Injection, IsInjective, Named
  <1>3. IsFiniteSet(Others) /\ Cardinality(Others) = Cardinality(Named(Device)) - 1
    BY NamesFinite, FS_RemoveElement
  <1>4. IsFiniteSet(Owned(devices)) /\ Cardinality(Owned(devices)) <= Cardinality(Others)
    BY <1>2, <1>3, FS_Injection
  <1>5. Cardinality(Owned(devices)) \in Nat
    BY <1>4, FS_CardinalityType
  <1>6. IsFiniteSet(taken) /\ Cardinality(taken) = Cardinality(Owned(devices)) + 1
    BY <1>4, OwnedFds, FS_AddElement
  <1>7. Cardinality(1..FdMax) = FdMax /\ 1..FdMax \in SUBSET taken
    BY <1>1, FdNumbers, FS_Interval
  <1>8. Cardinality(1..FdMax) <= Cardinality(taken)
    BY <1>6, <1>7, FS_Subset
  <1>9. FdMax \in Nat /\ FdMax > Cardinality(Named(Device))
    BY DevicesAssumption DEF Named
  <1> QED
    BY <1>3, <1>4, <1>5, <1>6, <1>7, <1>8, <1>9, NamesFinite

----------------------------------------------------------------------------
(* Every action keeps the invariant *)

LEMMA DataInit == Init => DataInv
  <1> SUFFICES ASSUME Init  PROVE DataInv
    OBVIOUS
  <1>1. /\ devices = <<>> /\ DOMAIN devices = {} /\ Owned(devices) = {}
        /\ pc = "opendir" /\ started = FALSE /\ next = 1 /\ listed = {}
        /\ \A c, d \in present : NameOf[c] = NameOf[d] => c = d
    BY EmptyVector DEF Init
  <1> QED
    BY <1>1 DEF DataInv, MachineInv, NamesInv, SteadyInv, TextInv, Working, Reading,
                Idling, Loading

(* Only the computer plugs; what it does not show to the process stays. *)
LEMMA MachineDataStep ==
    ASSUME IInv, DataInv, (\E d \in Device : Plug(d) \/ Unplug(d)) \/ UNCHANGED vars
    PROVE  DataInv'
  <1> USE DEF DataInv
  <1>1. UNCHANGED <<open, kind, pc, started, updates, todo, dir_fd>>
        /\ UNCHANGED <<name, fd, devices, next, listed>>
    BY DEF Plug, Unplug, process, vars
  <1>2. gone \subseteq gone' /\ UNCHANGED faulty
    BY DEF Plug, Unplug, vars, machine
  <1>3. MachineInv'
    <2>1. CASE UNCHANGED vars
      BY <2>1 DEF vars, machine, MachineInv
    <2>2. CASE \E d \in Device : Plug(d)
      BY <2>2 DEF Plug, MachineInv, Named, process
    <2>3. CASE \E d \in Device : Unplug(d)
      BY <2>3 DEF Unplug, MachineInv, process
    <2> QED
      BY <2>1, <2>2, <2>3
  <1>4. Owned(devices') = Owned(devices) /\ Shown' = Shown
    BY <1>1 DEF Shown
  <1>5. NamesInv'
    BY <1>1, <1>4 DEF NamesInv, Working, Reading, Idling
  <1>6. ListedInv => ListedInv'
    BY <1>1, <1>4 DEF ListedInv, Working, Reading, Done, ToShow
  <1>7. SteadyInv'
    BY <1>1, <1>2, <1>6 DEF SteadyInv
  <1>8. TextInv'
    BY <1>1 DEF TextInv, Loading, Working, IsRead
  <1> QED
    BY <1>3, <1>5, <1>7, <1>8

LEMMA LineDataStep ==
    ASSUME IInv, DataInv, BeginLine \/ PrintBlock
    PROVE  DataInv'
  <1> USE DEF DataInv
  <1>1. CASE BeginLine
    <2>1. PICK requests \in SUBSET {"update", "reload"}, due \in BOOLEAN :
            (~started => due) /\ Line(requests, due)
      BY <1>1 DEF BeginLine
    <2>2. pc = "idle" /\ next' = 1
          /\ UNCHANGED <<machine, kind, todo, dir_fd, name, fd, listed>>
      BY <1>1 DEF BeginLine
    <2>3. MachineInv'
      BY <2>2 DEF MachineInv, machine
    <2>4. /\ requests # {} => updates' # 0
          /\ due => updates' # 0
          /\ updates' \in 0..3
      BY <2>1, UpdatesBounded DEF Line
    <2>5. CASE "reload" \in requests
      <3>1. /\ devices' = <<>> /\ pc' = "opendir" /\ updates' # 0
            /\ DOMAIN devices' = {} /\ Owned(devices') = {}
        BY <2>1, <2>4, <2>5, EmptyVector DEF Line, Cleared
      <3>2. NamesInv'
        BY <3>1 DEF NamesInv, Working, Reading, Idling
      <3>3. SteadyInv'
        BY <3>1 DEF SteadyInv
      <3>4. TextInv'
        BY <2>2, <3>1 DEF TextInv
      <3> QED
        BY <2>3, <3>2, <3>3, <3>4
    <2>6. CASE "reload" \notin requests
      <3>1. UNCHANGED <<devices, open>> /\ pc' = IF updates' > 0 THEN "update" ELSE "print"
        BY <2>1, <2>6 DEF Line
      <3>2. pc' \in {"update", "print"}
        BY <3>1
      <3>3. Owned(devices') = Owned(devices) /\ Shown' = Shown
        BY <3>1 DEF Shown
      <3>4. NamesInv'
        BY <2>2, <3>1, <3>2, <3>3 DEF NamesInv, Working, Reading, Idling
      <3>5. ListedInv => ListedInv'
        BY <2>2, <3>1, <3>2, <3>3 DEF ListedInv, Working, Reading, Done, ToShow
      <3>6. SteadyInv'
        BY <2>2, <3>2, <3>5 DEF SteadyInv, machine
      <3>7. pc' = "print" => started = TRUE
        BY <2>1, <2>4, <3>1 DEF IInv, TypeOK
      <3>8. TextInv'
        <4>1. \A i \in DOMAIN devices : IsRead(i)' <=> IsRead(i)
          BY <3>1 DEF IsRead
        <4>2. \A i \in DOMAIN devices' : ~(i < next')
          BY <2>2, <3>1, LenProperties DEF IInv, TypeOK
        <4> QED
          BY <2>2, <3>1, <3>2, <3>7, <4>1, <4>2 DEF TextInv, Loading, Working
      <3> QED
        BY <2>3, <3>4, <3>6, <3>8
    <2> QED
      BY <2>5, <2>6
  <1>2. CASE PrintBlock
    <2>1. /\ pc = "print" /\ pc' = "idle"
          /\ UNCHANGED <<machine, open, kind, started, updates, todo, dir_fd>>
          /\ UNCHANGED <<name, fd, devices, next, listed>>
      BY <1>2 DEF PrintBlock
    <2>2. Owned(devices') = Owned(devices) /\ Shown' = Shown
      BY <2>1 DEF Shown
    <2>3. MachineInv' /\ NamesInv'
      BY <2>1, <2>2 DEF MachineInv, machine, NamesInv, Working, Reading, Idling
    <2>4. ListedInv => ListedInv'
      BY <2>1, <2>2 DEF ListedInv, Working, Reading, Done, ToShow
    <2>5. SteadyInv'
      BY <2>1, <2>4 DEF SteadyInv, machine
    <2>6. TextInv'
      BY <2>1 DEF TextInv, Loading, Working, IsRead
    <2> QED
      BY <2>3, <2>5, <2>6
  <1> QED
    BY <1>1, <1>2

LEMMA OpenDirStep ==
    ASSUME IInv, DataInv, OpenDir \/ OpenDirFails
    PROVE  DataInv'
  <1> USE DEF DataInv
  <1>1. pc = "opendir" /\ Owned(devices) = {} /\ devices = <<>> /\ DOMAIN devices = {}
    BY DEF OpenDir, OpenDirFails, NamesInv
  <1>2. CASE OpenDir
    <2>1. /\ UNCHANGED <<machine, kind, started, updates, name, fd, devices, next>>
          /\ pc' = "visit" /\ todo' = Named(present) /\ listed' = present
      BY <1>2 DEF OpenDir
    <2>2. Owned(devices') = {} /\ Shown' = {} /\ DOMAIN devices' = {}
      BY <1>1, <2>1 DEF Shown
    <2>3. MachineInv'
      BY <2>1 DEF MachineInv, machine
    <2>4. NamesInv'
      BY <2>1, <2>2 DEF NamesInv, Working, Reading, Idling
    <2>5. ListedInv'
      <3>1. \A d \in listed' : NameOf[d] \in todo'
        BY <2>1 DEF Named
      <3> QED
        BY <2>1, <2>2, <3>1 DEF ListedInv, Working, Reading, Done, Named
    <2>6. SteadyInv'
      BY <2>1, <2>5 DEF SteadyInv
    <2>7. TextInv'
      BY <1>1, <2>1, <2>2 DEF TextInv, Loading, Working
    <2> QED
      BY <2>3, <2>4, <2>6, <2>7
  <1>3. CASE OpenDirFails
    <2>1. Free # {}
      <3>1. Used = {}
        BY <1>1, OwnershipRestated DEF IInv, Locals
      <3>2. 1 \in 1..FdMax
        BY DevicesAssumption, NamesFinite DEF Named
      <3> QED
        BY <3>1, <3>2 DEF Free, Used
    <2>2. /\ UNCHANGED <<machine, open, kind, started, updates, todo, dir_fd>>
          /\ UNCHANGED <<name, fd, devices, next, listed>>
          /\ pc' = "no_class"
      BY <1>3, <2>1 DEF OpenDirFails
    <2>3. Owned(devices') = {} /\ DOMAIN devices' = {}
      BY <1>1, <2>2
    <2>4. MachineInv' /\ NamesInv' /\ SteadyInv' /\ TextInv'
      BY <2>2, <2>3 DEF MachineInv, machine, NamesInv, SteadyInv, TextInv, Working,
                        Reading, Idling, Loading
    <2> QED
      BY <2>4
  <1> QED
    BY <1>2, <1>3

(* The file of a name is one of the device that is in the directory now:   *)
(* the listed one, if that was not unplugged.                              *)
LEMMA FileOfName ==
    ASSUME IInv, MachineInv, NEW n, NEW place, OpenFile(n, place), UNCHANGED devices
    PROVE  /\ Kept /\ pc' = place
           /\ open'[fd'] \in Device /\ NameOf[open'[fd']] = n
           /\ listed \cap gone = {} /\ n \in Named(listed) => open'[fd'] \in listed
  <1>1. PICK d \in present, f \in Free :
           NameOf[d] = n /\ Opens(f, d) /\ fd' = f /\ pc' = place
    BY DEF OpenFile
  <1>2. Kept /\ open'[fd'] = d
    BY <1>1, OpensKeeps
  <1>3. d \in Device
    BY DEF IInv, TypeOK
  <1>4. ASSUME listed \cap gone = {}, n \in Named(listed)  PROVE d \in listed
    <2>1. PICK c \in listed : NameOf[c] = n
      BY <1>4 DEF Named
    <2> QED
      BY <1>1, <1>4, <2>1, SameDevice
  <1> QED
    BY <1>1, <1>2, <1>3, <1>4

LEMMA VisitStep ==
    ASSUME IInv, DataInv, Visit
    PROVE  DataInv'
  <1> USE DEF DataInv
  <1>1. PICK n \in todo : name' = n /\ todo' = todo \ {n} /\ OpenFile(n, "first")
    BY DEF Visit
  <1>2. /\ pc = "visit"
        /\ UNCHANGED <<machine, kind, started, updates, dir_fd, devices, next, listed>>
    BY DEF Visit
  <1>3. /\ Kept /\ pc' = "first"
        /\ open'[fd'] \in Device /\ NameOf[open'[fd']] = n
        /\ listed \cap gone = {} /\ n \in Named(listed) => open'[fd'] \in listed
    BY <1>1, <1>2, FileOfName
  <1>4. /\ Owned(devices') = Owned(devices) /\ Shown' = Shown
        /\ DOMAIN devices' = DOMAIN devices
        /\ \A i \in DOMAIN devices : IsRead(i)' <=> IsRead(i)
    BY <1>3, KeptShown
  <1>5. MachineInv'
    BY <1>2 DEF MachineInv, machine
  <1>6. NamesInv'
    <2>1. n \in Named(Device)
      BY DEF IInv, TypeOK
    <2>2. ASSUME NEW f \in Owned(devices)
          PROVE  open'[f] = open[f] /\ NameOf[open[f]] # n
      BY <1>3 DEF Kept, NamesInv
    <2>3. kind' = "battery" =>
             \A f \in Owned(devices') : ModelOf[open'[f]] # Excluded
      BY <1>2, <1>4, <2>2 DEF NamesInv
    <2> QED
      BY <1>1, <1>3, <1>4, <2>1, <2>2, <2>3 DEF NamesInv, Working, Reading, Idling
  <1>7. ASSUME ListedInv, listed \cap gone = {}  PROVE ListedInv'
    <2>1. n \in Named(listed) /\ open'[fd'] \in listed
      BY <1>3, <1>7 DEF ListedInv
    <2>2. \A d : Done(d)' => Done(d)
      BY <1>1, <1>2, <1>3 DEF Done, Working
    <2> QED
      BY <1>1, <1>2, <1>3, <1>4, <1>7, <2>1, <2>2 DEF ListedInv, Working, Reading, ToShow
  <1>8. SteadyInv'
    BY <1>2, <1>3, <1>7 DEF SteadyInv, machine
  <1>9. TextInv'
    BY <1>2, <1>3, <1>4 DEF TextInv, Loading, Working
  <1> QED
    BY <1>5, <1>6, <1>8, <1>9

(* What the first file tells is of the listed device, if none was          *)
(* unplugged: one that is no battery is done with, and not in the vector.  *)
LEMMA ReadFirstStep ==
    ASSUME IInv, DataInv, ReadFirst
    PROVE  DataInv'
  <1> USE DEF DataInv
  <1>1. /\ pc = "first" /\ fd # NoFd /\ open' = Closed({fd})
        /\ UNCHANGED <<machine, kind, started, updates, todo, dir_fd, name, devices>>
        /\ UNCHANGED <<next, listed>>
        /\ pc' = IF kind = "battery" /\ open[fd] \notin Batteries THEN "visit" ELSE "second"
    BY DEF ReadFirst, IInv, Locals
  <1>2. Kept
    BY <1>1, OwnedFds, ClosedKeeps
  <1>3. /\ Owned(devices') = Owned(devices) /\ Shown' = Shown
        /\ DOMAIN devices' = DOMAIN devices
        /\ \A i \in DOMAIN devices : IsRead(i)' <=> IsRead(i)
    BY <1>2, KeptShown
  <1>4. pc' \in {"visit", "second"}
    BY <1>1
  <1>5. MachineInv'
    BY <1>1 DEF MachineInv, machine
  <1>6. NamesInv'
    BY <1>1, <1>2, <1>3, <1>4 DEF NamesInv, Kept, Working, Reading, Idling
  <1>7. ASSUME ListedInv, listed \cap gone = {}  PROVE ListedInv'
    <2>1. open[fd] \in listed /\ NameOf[open[fd]] = name
      BY <1>1, <1>7 DEF ListedInv, NamesInv, Reading
    <2>2. ASSUME NEW d \in listed, NameOf[d] = name  PROVE d = open[fd]
      BY <1>7, <2>1, <2>2, SameDevice
    <2>3. CASE kind = "battery" /\ open[fd] \notin Batteries
      <3>1. pc' = "visit"
        BY <1>1, <2>3
      <3>2. ASSUME NEW d \in listed, Done(d)'
            PROVE  d \in Shown <=> ToShow(d)
        <4>1. CASE NameOf[d] = name
          <5>1. ~ToShow(d)
            BY <2>2, <2>3, <4>1 DEF ToShow
          <5>2. d \notin Shown
            BY <1>1, <4>1 DEF Shown, NamesInv, Working
          <5> QED
            BY <5>1, <5>2
        <4>2. CASE NameOf[d] # name
          BY <1>1, <1>7, <3>2, <4>2 DEF ListedInv, Done
        <4> QED
          BY <4>1, <4>2
      <3> QED
        BY <1>1, <1>3, <1>7, <3>1, <3>2 DEF ListedInv, Working, Reading, ToShow
    <2>4. CASE ~(kind = "battery" /\ open[fd] \notin Batteries)
      <3>1. pc' = "second"
        BY <1>1, <2>4
      <3>2. \A d : Done(d)' <=> Done(d)
        BY <1>1, <3>1 DEF Done, Working
      <3>3. kind = "battery" => \A d \in listed : NameOf[d] = name => d \in Batteries
        BY <2>2, <2>4
      <3> QED
        BY <1>1, <1>3, <1>7, <3>1, <3>2, <3>3 DEF ListedInv, Working, Reading, ToShow
    <2> QED
      BY <2>3, <2>4
  <1>8. SteadyInv'
    BY <1>1, <1>4, <1>7 DEF SteadyInv, machine
  <1>9. TextInv'
    BY <1>1, <1>3, <1>4 DEF TextInv, Loading, Working
  <1> QED
    BY <1>5, <1>6, <1>8, <1>9

LEMMA OpenSecondStep ==
    ASSUME IInv, DataInv, OpenSecond
    PROVE  DataInv'
  <1> USE DEF DataInv
  <1>1. /\ pc = "second" /\ OpenFile(name, "found")
        /\ UNCHANGED <<machine, kind, started, updates, todo, dir_fd, name, devices>>
        /\ UNCHANGED <<next, listed>>
    BY DEF OpenSecond
  <1>2. /\ Kept /\ pc' = "found"
        /\ open'[fd'] \in Device /\ NameOf[open'[fd']] = name
        /\ listed \cap gone = {} /\ name \in Named(listed) => open'[fd'] \in listed
    BY <1>1, FileOfName
  <1>3. /\ Owned(devices') = Owned(devices) /\ Shown' = Shown
        /\ DOMAIN devices' = DOMAIN devices
        /\ \A i \in DOMAIN devices : IsRead(i)' <=> IsRead(i)
    BY <1>2, KeptShown
  <1>4. MachineInv'
    BY <1>1 DEF MachineInv, machine
  <1>5. NamesInv'
    BY <1>1, <1>2, <1>3 DEF NamesInv, Kept, Working, Reading, Idling
  <1>6. ASSUME ListedInv, listed \cap gone = {}  PROVE ListedInv'
    <2>1. open'[fd'] \in listed
      BY <1>1, <1>2, <1>6 DEF ListedInv, Working
    <2>2. \A d : Done(d)' <=> Done(d)
      BY <1>1, <1>2 DEF Done, Working
    <2> QED
      BY <1>1, <1>2, <1>3, <1>6, <2>1, <2>2 DEF ListedInv, Working, Reading, ToShow
  <1>7. SteadyInv'
    BY <1>1, <1>2, <1>6 DEF SteadyInv, machine
  <1>8. TextInv'
    BY <1>1, <1>2, <1>3 DEF TextInv, Loading, Working
  <1> QED
    BY <1>4, <1>5, <1>7, <1>8

(* An element more: what the others hold and show is as before. *)
LEMMA PushedShown ==
    ASSUME IInv, NEW text \in Device \cup {Unread}, Push(text), fd \in 1..FdMax
    PROVE  /\ open' = open
           /\ Owned(devices') = Owned(devices) \cup {fd}
           /\ Shown' = Shown \cup {open[fd]}
           /\ text = open[fd] =>
                 ((\A i \in DOMAIN devices : IsRead(i)) => \A i \in DOMAIN devices' : IsRead(i)')
  <1> DEFINE e == [fd |-> fd, text |-> text]
  <1>1. e \in Entry /\ e.fd \notin Owned(devices) /\ e.fd = fd /\ e.text = text
    BY OwnedFds DEF Entry
  <1>2. devices' = Append(devices, e)
    BY DEF Push, Moved
  <1>3. open' = open
    <2>1. open' = Closed({})
      BY NothingClosedByMove DEF Push
    <2> QED
      BY <2>1, OwnedFds DEF Closed
  <1>4. Owned(devices') = Owned(devices) \cup {fd}
    BY <1>1, <1>2, OwnedFds, PushedOne
  <1>5. Shown' = Shown \cup {open[fd]}
    BY <1>3, <1>4 DEF Shown
  <1>6. /\ Len(devices) \in Nat /\ DOMAIN devices = 1..Len(devices)
        /\ DOMAIN devices' = 1..(Len(devices) + 1)
        /\ \A i \in 1..Len(devices) : devices'[i] = devices[i]
        /\ devices'[Len(devices) + 1] = e
    <2> HIDE DEF e
    <2> QED
      BY <1>1, <1>2, OwnedFds, AppendProperties, LenProperties
  <1>7. ASSUME text = open[fd], \A i \in DOMAIN devices : IsRead(i), NEW i \in DOMAIN devices'
        PROVE  IsRead(i)'
    <2>1. CASE i \in DOMAIN devices
      BY <1>3, <1>6, <1>7, <2>1 DEF IsRead
    <2>2. CASE i = Len(devices) + 1
      BY <1>1, <1>3, <1>6, <1>7, <2>2 DEF IsRead
    <2> QED
      BY <1>6, <2>1, <2>2
  <1> QED
    BY <1>3, <1>4, <1>5, <1>7

LEMMA MakeStep ==
    ASSUME IInv, DataInv, MakeBattery \/ MakeBacklight
    PROVE  DataInv'
  <1> USE DEF DataInv
  <1>1. /\ pc = "found" /\ pc' = "visit" /\ fd \in 1..FdMax
        /\ UNCHANGED <<machine, kind, started, updates, todo, dir_fd, name>>
        /\ UNCHANGED <<next, listed>>
    BY FdNumbers DEF MakeBattery, MakeBacklight, IInv, Locals, TypeOK, NoFd
  <1>2. open[fd] \in Device /\ NameOf[open[fd]] = name /\ name \notin todo
    BY <1>1 DEF NamesInv, Reading, Working
  <1> DEFINE wanted == kind = "backlight" \/ Wanted(open[fd])
  <1>3. /\ wanted => \E text \in Device \cup {Unread} : 
                        Push(text) /\ (kind = "battery" => text = open[fd])
        /\ ~wanted => open' = Closed({fd}) /\ UNCHANGED devices
    <2>1. CASE MakeBacklight
      BY <2>1 DEF MakeBacklight
    <2>2. CASE MakeBattery
      BY <1>2, <2>2 DEF MakeBattery
    <2> QED
      BY <2>1, <2>2
  <1>4. CASE wanted
    <2>1. PICK text \in Device \cup {Unread} : 
                        Push(text) /\ (kind = "battery" => text = open[fd])
      BY <1>3, <1>4
    <2>2. /\ open' = open
          /\ Owned(devices') = Owned(devices) \cup {fd}
          /\ Shown' = Shown \cup {open[fd]}
          /\ text = open[fd] =>
                ((\A i \in DOMAIN devices : IsRead(i)) => \A i \in DOMAIN devices' : IsRead(i)')
      BY <1>1, <2>1, PushedShown
    <2>3. NamesInv'
      <3>1. kind' = "battery" =>
               \A f \in Owned(devices') : ModelOf[open'[f]] # Excluded
        BY <1>1, <1>4, <2>2 DEF NamesInv, Wanted
      <3> QED
        BY <1>1, <1>2, <2>2, <3>1 DEF NamesInv, Working, Reading, Idling
    <2>4. ASSUME ListedInv, listed \cap gone = {}  PROVE ListedInv'
      <3>1. open[fd] \in listed
        BY <1>1, <2>4 DEF ListedInv, Reading
      <3>2. ASSUME NEW d \in listed, NameOf[d] = name  PROVE d = open[fd]
        BY <1>2, <2>4, <3>1, <3>2, SameDevice
      <3>3. ToShow(open[fd])
        BY <1>1, <1>2, <1>4, <2>4, <3>1 DEF ToShow, ListedInv, Wanted, IInv, TypeOK
      <3>4. ASSUME NEW d \in listed, Done(d)'
            PROVE  d \in Shown' <=> ToShow(d)
        <4>1. CASE NameOf[d] = name
          BY <2>2, <3>2, <3>3, <4>1
        <4>2. CASE NameOf[d] # name
          <5>1. Done(d) /\ d # open[fd]
            BY <1>1, <1>2, <3>4, <4>2 DEF Done
          <5> QED
            BY <2>2, <2>4, <5>1 DEF ListedInv
        <4> QED
          BY <4>1, <4>2
      <3> QED
        BY <1>1, <2>2, <2>4, <3>1, <3>4 DEF ListedInv, Working, Reading, ToShow
    <2>5. TextInv'
      BY <1>1, <2>1, <2>2 DEF TextInv, Loading, Working
    <2> QED
      BY <1>1, <2>3, <2>4, <2>5 DEF SteadyInv, machine, MachineInv
  <1>5. CASE ~wanted
    <2>1. Kept
      BY <1>3, <1>5, OwnedFds, ClosedKeeps
    <2>2. /\ Owned(devices') = Owned(devices) /\ Shown' = Shown
          /\ DOMAIN devices' = DOMAIN devices
          /\ \A i \in DOMAIN devices : IsRead(i)' <=> IsRead(i)
      BY <2>1, KeptShown
    <2>3. NamesInv'
      BY <1>1, <2>1, <2>2 DEF NamesInv, Kept, Working, Reading, Idling
    <2>4. ASSUME ListedInv, listed \cap gone = {}  PROVE ListedInv'
      <3>1. open[fd] \in listed
        BY <1>1, <2>4 DEF ListedInv, Reading
      <3>2. ASSUME NEW d \in listed, NameOf[d] = name  PROVE d = open[fd]
        BY <1>2, <2>4, <3>1, <3>2, SameDevice
      <3>3. ~ToShow(open[fd])
        BY <1>5 DEF ToShow, Wanted
      <3>4. ASSUME NEW d \in listed, Done(d)'
            PROVE  d \in Shown <=> ToShow(d)
        <4>1. CASE NameOf[d] = name
          <5>1. d \notin Shown
            BY <1>1, <4>1 DEF Shown, NamesInv, Working
          <5> QED
            BY <3>2, <3>3, <4>1, <5>1
        <4>2. CASE NameOf[d] # name
          BY <1>1, <2>4, <3>4, <4>2 DEF ListedInv, Done
        <4> QED
          BY <4>1, <4>2
      <3> QED
        BY <1>1, <2>2, <2>4, <3>4 DEF ListedInv, Working, Reading, ToShow
    <2>5. TextInv'
      BY <1>1, <2>2 DEF TextInv, Loading, Working
    <2> QED
      BY <1>1, <2>3, <2>4, <2>5 DEF SteadyInv, machine, MachineInv
  <1> QED
    BY <1>4, <1>5

LEMMA EndVisitStep ==
    ASSUME IInv, DataInv, EndVisit
    PROVE  DataInv'
  <1> USE DEF DataInv
  <1>1. /\ pc = "visit" /\ todo = {} /\ open' = Closed({dir_fd})
        /\ UNCHANGED <<machine, kind, started, updates, todo, devices, next, listed>>
        /\ pc' = IF updates > 0 THEN "update" ELSE "idle"
    BY NothingClosedByMove DEF EndVisit
  <1>2. /\ pc' \in {"update", "idle"} /\ next = 1
        /\ pc' = "idle" => started = FALSE
    BY <1>1 DEF TextInv, Loading, IInv, TypeOK
  <1>3. Kept
    BY <1>1, OwnedFds, ClosedKeeps
  <1>4. /\ Owned(devices') = Owned(devices) /\ Shown' = Shown
        /\ DOMAIN devices' = DOMAIN devices
        /\ \A i \in DOMAIN devices : IsRead(i)' <=> IsRead(i)
    BY <1>3, KeptShown
  <1>5. MachineInv'
    BY <1>1 DEF MachineInv, machine
  <1>6. NamesInv'
    BY <1>1, <1>2, <1>3, <1>4 DEF NamesInv, Kept, Working, Reading, Idling
  <1>7. ListedInv => ListedInv'
    BY <1>1, <1>2, <1>4 DEF ListedInv, Done, Working, Reading, ToShow
  <1>8. SteadyInv'
    BY <1>1, <1>2, <1>7 DEF SteadyInv, machine
  <1>9. TextInv'
    <2>1. \A i \in DOMAIN devices' : ~(i < next')
      BY <1>1, <1>2, LenProperties DEF IInv, TypeOK
    <2> QED
      BY <1>1, <1>2, <1>4, <2>1 DEF TextInv, Loading, Working
  <1> QED
    BY <1>5, <1>6, <1>8, <1>9

(* As long as nothing listed was unplugged, the file of a listed device    *)
(* can be opened: what remains is that it fails although it is there.      *)
LEMMA OpenFailsOverListed ==
    ASSUME IInv, DataInv, NEW n \in Named(listed), listed \cap gone = {},
           \A f \in Owned(devices) : NameOf[open[f]] # n,
           fd = NoFd, OpenFails(n)
    PROVE  listed \cap faulty' # {}
  <1>1. n \in Named(Device)
    BY DEF Named, IInv, TypeOK
  <1>2. Free # {}
    BY <1>1, SomeFree DEF DataInv
  <1>3. n \in Named(present)
    BY NameLost DEF DataInv
  <1>4. PICK d \in present : NameOf[d] = n /\ Stops({d})
    BY <1>2, <1>3 DEF OpenFails
  <1>5. PICK c \in listed : NameOf[c] = n
    BY DEF Named
  <1>6. c = d
    BY <1>4, <1>5, SameDevice DEF DataInv
  <1> QED
    BY <1>4, <1>5, <1>6 DEF Stops

(* A file that is open is one of the device it was opened of.              *)
LEMMA FileFailsOverListed ==
    ASSUME DataInv, listed \cap gone = {}, NEW f, open[f] \in listed, FileFails(f)
    PROVE  listed \cap faulty' # {}
  BY DEF FileFails, Stops, DataInv, MachineInv

(* A load or an update fails over a listed device, and over nothing else.  *)
LEMMA FailureStep ==
    ASSUME IInv, DataInv, VisitFails \/ OpenSecondFails \/ ReadFails \/ UpdateFails
    PROVE  DataInv'
  <1> USE DEF DataInv
  <1>1. /\ pc' = "failed"
        /\ UNCHANGED <<present, gone, open, kind, started, updates, todo, dir_fd>>
        /\ UNCHANGED <<name, fd, devices, next, listed>>
    BY StopStep
  <1>2. pc \in {"visit", "first", "second", "found", "update"}
    BY DEF VisitFails, OpenSecondFails, ReadFails, UpdateFails
  <1>3. listed \cap (gone \cup faulty') # {}
    <2> SUFFICES ASSUME listed \cap gone = {}  PROVE listed \cap faulty' # {}
      OBVIOUS
    <2>1. ListedInv
      BY <1>2 DEF SteadyInv
    <2>2. CASE VisitFails
      <3>1. PICK n \in todo : OpenFails(n)
        BY <2>2 DEF VisitFails
      <3>2. n \in Named(listed) /\ \A f \in Owned(devices) : NameOf[open[f]] # n
        BY <2>1 DEF ListedInv, NamesInv
      <3>3. fd = NoFd
        BY <2>2 DEF VisitFails, IInv, Locals
      <3> QED
        BY <3>1, <3>2, <3>3, OpenFailsOverListed
    <2>3. CASE OpenSecondFails
      <3>1. pc = "second" /\ fd = NoFd /\ OpenFails(name)
        BY <2>3 DEF OpenSecondFails, IInv, Locals
      <3>2. name \in Named(listed) /\ \A f \in Owned(devices) : NameOf[open[f]] # name
        BY <2>1, <3>1 DEF ListedInv, NamesInv, Working
      <3> QED
        BY <3>1, <3>2, OpenFailsOverListed
    <2>4. CASE ReadFails
      <3>1. open[fd] \in listed
        BY <2>1, <2>4 DEF ReadFails, ListedInv, Reading
      <3> QED
        BY <2>4, <3>1, FileFailsOverListed DEF ReadFails
    <2>5. CASE UpdateFails
      <3>1. open[devices[next].fd] \in listed
        BY <2>1, <2>5, Held DEF UpdateFails, ListedInv, Shown
      <3> QED
        BY <2>5, <3>1, FileFailsOverListed DEF UpdateFails
    <2> QED
      BY <2>2, <2>3, <2>4, <2>5
  <1>4. MachineInv'
    BY <1>1 DEF MachineInv
  <1>5. NamesInv'
    BY <1>1 DEF NamesInv, Working, Reading, Idling
  <1>6. SteadyInv'
    BY <1>1, <1>3 DEF SteadyInv
  <1>7. TextInv'
    BY <1>1, <1>2 DEF TextInv, Loading, Working, IsRead
  <1> QED
    BY <1>4, <1>5, <1>6, <1>7

LEMMA UpdateDataStep ==
    ASSUME IInv, DataInv, UpdateDevice \/ EndUpdate
    PROVE  DataInv'
  <1> USE DEF DataInv
  <1>1. /\ pc = "update"
        /\ UNCHANGED <<machine, open, kind, started, todo, dir_fd>>
        /\ UNCHANGED <<name, fd, listed>>
    BY DEF UpdateDevice, EndUpdate
  <1>2. MachineInv'
    BY <1>1 DEF MachineInv, machine
  <1>3. CASE UpdateDevice
    <2>1. /\ next \in DOMAIN devices /\ next' = next + 1 /\ pc' = "update"
          /\ devices' = [devices EXCEPT ![next].text = open[devices[next].fd]]
          /\ open[devices[next].fd] \in Device
      BY <1>3 DEF UpdateDevice, Readable, IInv, TypeOK
    <2>2. Owned(devices') = Owned(devices)
      BY <2>1, OwnedFds, ReadOne
    <2>3. /\ DOMAIN devices' = DOMAIN devices
          /\ devices'[next].fd = devices[next].fd
          /\ devices'[next].text = open[devices[next].fd]
          /\ \A i \in DOMAIN devices : i # next => devices'[i] = devices[i]
      BY <2>1, Held DEF Entry
    <2>4. \A i \in DOMAIN devices : IF i = next THEN IsRead(i)' ELSE IsRead(i)' <=> IsRead(i)
      BY <1>1, <2>3 DEF IsRead
    <2>5. Shown' = Shown
      BY <1>1, <2>2 DEF Shown
    <2>6. NamesInv'
      BY <1>1, <2>1, <2>2 DEF NamesInv, Working, Reading, Idling
    <2>7. ListedInv => ListedInv'
      BY <1>1, <2>1, <2>5 DEF ListedInv, Done, Working, Reading, ToShow
    <2>8. SteadyInv'
      BY <1>1, <2>1, <2>7 DEF SteadyInv, machine
    <2>9. TextInv'
      <3>1. ASSUME NEW i \in DOMAIN devices, i < next', i # next  PROVE i < next
        BY <2>1, <3>1, LenProperties DEF IInv, TypeOK
      <3> QED
        BY <1>1, <2>1, <2>3, <2>4, <3>1 DEF TextInv, Loading, Working
    <2> QED
      BY <1>2, <2>6, <2>8, <2>9
  <1>4. CASE EndUpdate
    <2>1. /\ next \notin DOMAIN devices /\ next' = 1 /\ pc' \in {"update", "print"}
          /\ UNCHANGED devices
      BY <1>4 DEF EndUpdate
    <2>2. Owned(devices') = Owned(devices) /\ Shown' = Shown
      BY <1>1, <2>1 DEF Shown
    <2>3. \A i \in DOMAIN devices : IsRead(i)' <=> IsRead(i)
      BY <1>1, <2>1 DEF IsRead
    <2>4. NamesInv'
      BY <1>1, <2>1, <2>2 DEF NamesInv, Working, Reading, Idling
    <2>5. ListedInv => ListedInv'
      BY <1>1, <2>1, <2>2 DEF ListedInv, Done, Working, Reading, ToShow
    <2>6. SteadyInv'
      BY <1>1, <2>1, <2>5 DEF SteadyInv, machine
    <2>7. \A i \in DOMAIN devices : i < next /\ ~(i < 1)
      BY <2>1, LenProperties DEF IInv, TypeOK
    <2>8. TextInv'
      BY <1>1, <2>1, <2>3, <2>7 DEF TextInv, Loading, Working
    <2> QED
      BY <1>2, <2>4, <2>6, <2>8
  <1> QED
    BY <1>3, <1>4

LEMMA DataStep == IInv /\ DataInv /\ [Next]_vars => DataInv'
  <1> SUFFICES ASSUME IInv, DataInv, [Next]_vars  PROVE DataInv'
    OBVIOUS
  <1>1. CASE Load
    BY <1>1, OpenDirStep, VisitStep, ReadFirstStep, OpenSecondStep, MakeStep, EndVisitStep,
       FailureStep DEF Load
  <1>2. CASE BeginLine \/ PrintBlock
    BY <1>2, LineDataStep
  <1>3. CASE UpdateDevice \/ UpdateFails \/ EndUpdate
    BY <1>3, UpdateDataStep, FailureStep
  <1>4. CASE (\E d \in Device : Plug(d) \/ Unplug(d)) \/ UNCHANGED vars
    BY <1>4, MachineDataStep
  <1> QED
    BY <1>1, <1>2, <1>3, <1>4 DEF Next, Terminated

----------------------------------------------------------------------------
(* The theorems *)

(* The inductive invariant about what the descriptors stand for, which     *)
(* rests on the one about who owns them.                                   *)
THEOREM DataInvariant == Spec => [](IInv /\ DataInv)
  <1>1. Init => IInv /\ DataInv
    BY InvInit, DataInit
  <1>2. IInv /\ DataInv /\ [Next]_vars => (IInv /\ DataInv)'
    BY InvStep, DataStep
  <1> QED
    BY <1>1, <1>2, PTL DEF Spec

(* What either block prints of a device was read from it through the       *)
(* descriptor it owns: never the brightness nobody has read yet, never     *)
(* what another owner of the same number left.                             *)
THEOREM PrintsOnlyWhatItRead == Spec => []PrintsWhatItRead
  <1>1. IInv /\ DataInv => PrintsWhatItRead
    BY DEF DataInv, TextInv, IsRead, PrintsWhatItRead
  <1> QED
    BY <1>1, DataInvariant, PTL

(* Either block stops only over a device that its directory listed when it *)
(* was read last: one unplugged since, or one whose file failed. It never  *)
(* stops over one that went before the last reload, or that came since to  *)
(* a free name. Descriptors never run out: no more are open than there are *)
(* names in the directory, and one for the directory.                      *)
THEOREM FailsOnlyOverAListed == Spec => []FailsOnlyOverListed
  <1>1. IInv /\ DataInv => FailsOnlyOverListed
    BY DEF DataInv, SteadyInv, FailsOnlyOverListed
  <1> QED
    BY <1>1, DataInvariant, PTL

(* Whatever is plugged in or out between the reading of the directory and  *)
(* the opening of the files, no name is shown by two elements, and no      *)
(* battery of the excluded model by any.                                   *)
THEOREM NoNameTwice == Spec => []ShowsEachNameOnce
  <1>1. IInv /\ DataInv => ShowsEachNameOnce
    <2> SUFFICES ASSUME IInv, NamesInv  PROVE ShowsEachNameOnce
      BY DEF DataInv
    <2>1. ASSUME NEW i \in DOMAIN devices, NEW j \in DOMAIN devices,
                 NameOf[open[devices[i].fd]] = NameOf[open[devices[j].fd]]
          PROVE  i = j
      <3>1. devices[i].fd = devices[j].fd
        BY <2>1, Held DEF NamesInv
      <3> QED
        BY <3>1, OwnedFds DEF Distinct
    <2>2. ASSUME kind = "battery", NEW i \in DOMAIN devices
          PROVE  ModelOf[open[devices[i].fd]] # Excluded
      BY <2>2, Held DEF NamesInv
    <2> QED
      BY <2>1, <2>2 DEF ShowsEachNameOnce
  <1> QED
    BY <1>1, DataInvariant, PTL

(* Elements of the vector are of different devices, so that there are as   *)
(* many devices shown as there are elements.                               *)
LEMMA ShownOnce ==
    ASSUME IInv, NamesInv
    PROVE  LET shown == {open[devices[i].fd] : i \in DOMAIN devices}
           IN  shown = Shown /\ Cardinality(shown) = Len(devices)
  <1> DEFINE shown == {open[devices[i].fd] : i \in DOMAIN devices}
             F == [i \in 1..Len(devices) |-> open[devices[i].fd]]
  <1>1. Len(devices) \in Nat /\ DOMAIN devices = 1..Len(devices)
    BY LenProperties DEF IInv, TypeOK
  <1>2. F \in [1..Len(devices) -> shown]
    BY <1>1
  <1>3. \A d \in shown : \E i \in 1..Len(devices) : F[i] = d
    BY <1>1
  <1>4. ASSUME NEW i \in 1..Len(devices), NEW j \in 1..Len(devices), F[i] = F[j]
        PROVE  i = j
    <2>1. /\ devices[i].fd \in Owned(devices) /\ devices[j].fd \in Owned(devices)
          /\ open[devices[i].fd] = open[devices[j].fd]
      BY <1>1, <1>4, Held
    <2>2. devices[i].fd = devices[j].fd
      BY <2>1 DEF NamesInv
    <2> QED
      BY <1>1, <2>2, OwnedFds DEF Distinct
  <1>5. F \in Bijection(1..Len(devices), shown)
    <2> HIDE DEF shown, F
    <2>1. F \in Injection(1..Len(devices), shown)
      BY <1>2, <1>4 DEF Injection, IsInjective
    <2>2. F \in Surjection(1..Len(devices), shown)
      BY <1>2, <1>3 DEF Surjection
    <2> QED
      BY <2>1, <2>2 DEF Bijection
  <1>6. Cardinality(1..Len(devices)) = Len(devices) /\ IsFiniteSet(1..Len(devices))
    <2>1. ASSUME NEW n \in Nat
          PROVE  Cardinality(1..n) = n /\ IsFiniteSet(1..n)
      <3>1. 1 \in Int /\ n \in Int
        OBVIOUS
      <3>2. /\ IsFiniteSet(1..n)
            /\ Cardinality(1..n) = IF 1 > n THEN 0 ELSE n - 1 + 1
        BY <3>1, FS_Interval
      <3> QED
        BY <3>2
    <2> QED
      BY <1>1, <2>1
  <1>7. Cardinality(shown) = Len(devices)
    BY <1>5, <1>6, FS_Bijection DEF ExistsBijection
  <1>8. shown = Shown
    <2>1. \A i \in DOMAIN devices : devices[i].fd \in Owned(devices)
      BY Held
    <2>2. \A f \in Owned(devices) : \E i \in DOMAIN devices : f = devices[i].fd
      BY DEF Owned
    <2> QED
      BY <2>1, <2>2 DEF Shown
  <1> QED
    BY <1>7, <1>8

(* As long as nothing was plugged in or out since the last load, every     *)
(* device to be shown is shown, once: the backlights of the directory, or  *)
(* its batteries without those of the excluded model.                      *)
THEOREM ShowsEachPresent == Spec => []ShowsPresent
  <1>1. IInv /\ DataInv => ShowsPresent
    <2> SUFFICES ASSUME IInv, DataInv, pc = "print", listed = present  PROVE
           LET shown == {open[devices[i].fd] : i \in DOMAIN devices}
           IN  /\ shown = IF kind = "backlight" THEN present
                          ELSE {d \in present \cap Batteries : ModelOf[d] # Excluded}
               /\ Cardinality(shown) = Len(devices)
      BY DEF ShowsPresent
    <2> USE DEF DataInv
    <2>1. listed \cap gone = {}
      BY DEF IInv, TypeOK
    <2>2. ListedInv /\ todo = {} /\ ~Working
      BY <2>1 DEF SteadyInv, NamesInv, Idling, Working
    <2>3. Shown \subseteq listed /\ \A d \in listed : d \in Shown <=> ToShow(d)
      BY <2>2 DEF ListedInv, Done
    <2>4. Shown = IF kind = "backlight" THEN present
                  ELSE {d \in present \cap Batteries : ModelOf[d] # Excluded}
      <3>1. CASE kind = "backlight"
        BY <2>3, <3>1 DEF ToShow
      <3>2. CASE kind # "backlight"
        BY <2>3, <3>2 DEF ToShow
      <3> QED
        BY <3>1, <3>2
    <2> QED
      BY <2>4, ShownOnce
  <1> QED
    BY <1>1, DataInvariant, PTL
=============================================================================
